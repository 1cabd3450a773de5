------------------------------ MODULE SeriesMeta ------------------------------
(***************************************************************************)
(* The limits and the unit of a series, written from three sides: a        *)
(* person's PATCH (services/series.py, patch_series), the run of an upload *)
(* that states them (merged_for_run, upsert_upload_series) and an import   *)
(* from the source's system (services/source_metadata.py, apply, called by *)
(* the metadata job of services/fetches.py).  A PATCH is one transaction   *)
(* on the locked row.  A run reads the row when it starts and writes it,   *)
(* again locked, when the core is done; an import writes what the system   *)
(* said a while ago.  A series that is not there yet has no values.        *)
(***************************************************************************)
EXTENDS Integers, FiniteSets

CONSTANTS
    Limits,      \* values of limits, numbers
    Units,
    PatchSets,   \* what PATCHes set: functions of some fields to {value}, or {} to clear
    UploadSets,  \* what uploads state
    ImportSets,  \* what systems say
    Uploads, Imports  \* slots for runs of uploads and for metadata jobs

Fields      == {"physical_min", "physical_max", "operational_min", "operational_max", "unit"}
LimitFields == Fields \ {"unit"}
Values(f)   == {{v} : v \in IF f = "unit" THEN Units ELSE Limits}

ASSUME SeriesMetaAssumption ==
    /\ Limits \subseteq Int
    /\ \A c \in PatchSets \union UploadSets \union ImportSets : DOMAIN c \subseteq Fields
    /\ \A c \in UploadSets : DOMAIN c \subseteq {"unit", "physical_min", "physical_max"}
    \* Only a person clears.
    /\ \A c \in PatchSets : \A f \in DOMAIN c : c[f] \in Values(f) \union {{}}
    /\ \A c \in UploadSets \union ImportSets : \A f \in DOMAIN c : c[f] \in Values(f)

VARIABLES
    meta,    \* the series' fields: {} or {value}
    upload,  \* what each run of an upload is doing
    import   \* what each metadata job is doing

metaVars == <<meta, upload, import>>

IdleSlot == [step |-> "idle"]

\* The type invariant.
SeriesMetaTypeOK ==
    /\ DOMAIN meta = Fields /\ \A f \in Fields : meta[f] \in Values(f) \union {{}}
    /\ upload \in [Uploads -> {IdleSlot} \union [step : {"checking"}, states : UploadSets]]
    /\ import \in [Imports -> {IdleSlot} \union [step : {"described"}, says : ImportSets, overwrite : BOOLEAN]]

SeriesMetaInit ==
    /\ meta = [f \in Fields |-> {}]
    /\ upload = [u \in Uploads |-> IdleSlot]
    /\ import = [i \in Imports |-> IdleSlot]

-----------------------------------------------------------------------------
(* Validation *)

Before(m, f, g)  == \A a \in m[f], b \in m[g] : a < b
Within(m, f, g)  == \A a \in m[f], b \in m[g] : a <= b

\* Mutant of ValidLimits: the bands are compared end by end only.
ValidLimitsByEnds(m) ==
    /\ Before(m, "physical_min", "physical_max") /\ Before(m, "operational_min", "operational_max")
    /\ Within(m, "physical_min", "operational_min") /\ Within(m, "operational_max", "physical_max")

\* validate_limits: the ends of each band, and the operational band inside the physical one.
ValidLimits(m) ==
    /\ Before(m, "physical_min", "physical_max") /\ Before(m, "operational_min", "operational_max")
    /\ Within(m, "physical_min", "operational_min") /\ Within(m, "operational_max", "physical_max")
    /\ Within(m, "operational_min", "physical_max") /\ Within(m, "physical_min", "operational_max")

\* Mutant of Merged: a value joins the one that was there.
MergedBoth(m, c) == [f \in Fields |-> IF f \in DOMAIN c THEN c[f] \union m[f] ELSE m[f]]

Merged(m, c) == [f \in Fields |-> IF f \in DOMAIN c THEN c[f] ELSE m[f]]

-----------------------------------------------------------------------------
(* The three writers *)

\* PATCH; values that do not fit are refused (422).
Patch ==
    /\ \E c \in PatchSets : ValidLimits(Merged(meta, c)) /\ meta' = Merged(meta, c)
    /\ UNCHANGED <<upload, import>>

\* The upload's values must fit the stored ones ...
BeginUpload(u) ==
    /\ upload[u] = IdleSlot
    /\ \E c \in UploadSets : ValidLimits(Merged(meta, c)) /\ upload' = [upload EXCEPT ![u] = [step |-> "checking", states |-> c]]
    /\ UNCHANGED <<meta, import>>

\* Mutant of SavedByRun: what fitted when the run began is saved.
SavedByRunUnchecked(m, c) == Merged(m, c)

\* ... and fit them again when the run is done, or it fails and saves nothing.
SavedByRun(m, c) == IF ValidLimits(Merged(m, c)) THEN Merged(m, c) ELSE m

EndUpload(u) ==
    /\ upload[u].step = "checking"
    /\ meta' = SavedByRun(meta, upload[u].states)
    /\ upload' = [upload EXCEPT ![u] = IdleSlot]
    /\ UNCHANGED import

\* The system describes the point.
Describe(i) ==
    /\ import[i] = IdleSlot
    /\ \E c \in ImportSets, over \in BOOLEAN : import' = [import EXCEPT ![i] = [step |-> "described", says |-> c, overwrite |-> over]]
    /\ UNCHANGED <<meta, upload>>

\* Mutant of Offered: what the system does not know is taken for empty.
OfferedAsTheWhole(m, says, over) == IF over THEN [f \in Fields |-> IF f \in DOMAIN says THEN says[f] ELSE {}] ELSE [f \in {g \in DOMAIN says : m[g] = {}} |-> says[f]]
\* Mutant of Offered: the unit and one end of a band are enough to fill the band.
OfferedByBand(m, says, over) == [f \in {g \in DOMAIN says : over \/ \E h \in LimitFields : m[h] = {}} |-> says[f]]

\* A value fills an empty column, or any with `overwrite`.
Offered(m, says, over) == [f \in {g \in DOMAIN says : over \/ m[g] = {}} |-> says[f]]

\* apply: limits that do not fit with the stored ones are left out together.
Applied(m, says, over) ==
    LET offered == Offered(m, says, over)  rest == [f \in DOMAIN offered \ LimitFields |-> offered[f]] IN
    Merged(m, IF ValidLimits(Merged(m, offered)) THEN offered ELSE rest)

Apply(i) ==
    /\ import[i].step = "described"
    /\ meta' = Applied(meta, import[i].says, import[i].overwrite)
    /\ import' = [import EXCEPT ![i] = IdleSlot]
    /\ UNCHANGED upload

SeriesMetaNext ==
    \/ Patch
    \/ \E u \in Uploads : BeginUpload(u) \/ EndUpload(u)
    \/ \E i \in Imports : Describe(i) \/ Apply(i)

SeriesMetaSpec == SeriesMetaInit /\ [][SeriesMetaNext]_metaVars

-----------------------------------------------------------------------------
(* Properties *)

\* Whoever wrote last, the stored limits leave room: some value between the lowest and the highest
\* limit is inside both bands, and neither band is turned around (services/series.py,
\* validate_limits; the core refuses a series whose limits are not ordered).
LimitsLeaveRoom ==
    LET lows  == meta["physical_min"] \union meta["operational_min"]
        highs == meta["physical_max"] \union meta["operational_max"]
    IN
    /\ \A lo \in lows, hi \in highs : lo <= hi
    /\ Before(meta, "physical_min", "physical_max") /\ Before(meta, "operational_min", "operational_max")
    /\ \A p \in meta["physical_min"], o \in meta["operational_min"] : p <= o
    /\ \A p \in meta["physical_max"], o \in meta["operational_max"] : o <= p

\* "An imported value fills a column only when it is empty" (services/source_metadata.py, rule 1): an
\* import without `overwrite` leaves what a person or a run set while the system was asked.
ImportFillsOnly ==
    [][\A i \in Imports : import[i] # IdleSlot /\ import'[i] = IdleSlot /\ ~import[i].overwrite =>
          \A f \in Fields : meta[f] # {} => meta'[f] = meta[f]]_metaVars

\* "A value the system does not know never clears one" (rule 1), and a run only sets: no job clears.
OnlyPeopleClear ==
    [][(upload' # upload \/ import' # import) => \A f \in Fields : meta[f] # {} => meta'[f] # {}]_metaVars

=============================================================================
