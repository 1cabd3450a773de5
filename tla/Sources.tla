------------------------------- MODULE Sources -------------------------------
(***************************************************************************)
(* Connector sources and the points registered as their series             *)
(* (services/sources.py, routers/sources.py).  Requests are READ COMMITTED *)
(* transactions: a PATCH reads its row without a lock, and a registration  *)
(* inserts its points one after the other with ON CONFLICT DO NOTHING,     *)
(* which waits for another transaction that has inserted the same point    *)
(* and is not done.                                                        *)
(***************************************************************************)
EXTENDS Naturals, Sequences

CONSTANTS
    SourceRows,     \* sources
    SourceNames, Configs,
    Patches,        \* what changes of a source name: [name, config, enabled], Kept where they name nothing
    Points,         \* points of one source's system
    PointLists,     \* what registrations list: sequences of different points
    SourceEditors   \* slots for requests

\* No new value.
Kept == "kept"
SourceFields == {"name", "config", "enabled"}

ASSUME SourcesAssumption ==
    /\ Patches \subseteq [name : SourceNames \union {Kept}, config : Configs \union {Kept}, enabled : {"on", "off", Kept}]
    /\ \A l \in PointLists : l \in Seq(Points) /\ \A i, j \in DOMAIN l : l[i] = l[j] => i = j

VARIABLES
    source,      \* the source rows
    registered,  \* the points that are series
    created,     \* the points committed registrations counted as created, and how often
    sourceEditor \* what each request is doing

sourceVars == <<source, registered, created, sourceEditor>>

NoRow   == [name |-> "none"]
Columns == [name : SourceNames, config : Configs, enabled : {"on", "off"}]

\* The type invariant.
SourcesTypeOK ==
    /\ source \in [SourceRows -> Columns \union {NoRow}]
    /\ \A s, t \in SourceRows : s # t /\ source[s] # NoRow => source[s].name # source[t].name
    /\ registered \subseteq Points
    /\ created \in [Points -> Nat]
    /\ sourceEditor \in [SourceEditors -> [step : {"idle"}] \union
          [step : {"patch"}, row : SourceRows, change : Patches, seen : Columns] \union
          [step : {"insert"}, list : PointLists, next : Nat \ {0}, made : SUBSET Points]]
    /\ \A e \in SourceEditors : sourceEditor[e].step = "insert" => sourceEditor[e].next <= Len(sourceEditor[e].list) + 1

SourcesInit ==
    /\ source = [s \in SourceRows |-> NoRow]
    /\ registered = {}
    /\ created = [p \in Points |-> 0]
    /\ sourceEditor = [e \in SourceEditors |-> [step |-> "idle"]]

SourceEditorTo(e, r) == sourceEditor' = [sourceEditor EXCEPT ![e] = r]
SourceEditorEnds(e)  == SourceEditorTo(e, [step |-> "idle"])

-----------------------------------------------------------------------------
(* The rows *)

\* Mutant of NameIsFree: a source that is switched off gives its name away.
NameIsFreeAmongOn(name, s) == \A t \in SourceRows \ {s} : source[t] # NoRow /\ source[t].enabled = "on" => source[t].name # name

NameIsFree(name, s) == \A t \in SourceRows \ {s} : source[t].name # name

\* POST: enabled, unless the workspace has a source of that name.
CreateSource(s, name, config) ==
    /\ source[s] = NoRow /\ NameIsFree(name, s)
    /\ source' = [source EXCEPT ![s] = [name |-> name, config |-> config, enabled |-> "on"]]
    /\ UNCHANGED <<registered, created, sourceEditor>>

BeginPatch(e) ==
    /\ sourceEditor[e].step = "idle"
    /\ \E s \in SourceRows, c \in Patches :
          source[s] # NoRow /\ SourceEditorTo(e, [step |-> "patch", row |-> s, change |-> c, seen |-> source[s]])
    /\ UNCHANGED <<source, registered, created>>

Wanted(change, seen, f) == IF change[f] = Kept THEN seen[f] ELSE change[f]

\* Mutant of Patched: the whole row is written back as it was read.
PatchedWhole(row, change, seen) == [f \in SourceFields |-> Wanted(change, seen, f)]

\* Only columns that differ from what was read are written.
Patched(row, change, seen) ==
    [f \in SourceFields |-> IF Wanted(change, seen, f) = seen[f] THEN row[f] ELSE change[f]]

\* A taken name refuses the whole change.
EndPatch(e) ==
    LET q == sourceEditor[e]  row == Patched(source[q.row], q.change, q.seen) IN
    /\ q.step = "patch"
    /\ source' = IF NameIsFree(row.name, q.row) THEN [source EXCEPT ![q.row] = row] ELSE source
    /\ SourceEditorEnds(e)
    /\ UNCHANGED <<registered, created>>

-----------------------------------------------------------------------------
(* Registering points *)

BeginRegister(e) ==
    /\ sourceEditor[e].step = "idle"
    /\ \E l \in PointLists : SourceEditorTo(e, [step |-> "insert", list |-> l, next |-> 1, made |-> {}])
    /\ UNCHANGED <<source, registered, created>>

\* Mutant of PendingElsewhere: a point another request has inserted counts as there already.
PendingNever(e, p) == FALSE

\* Another request has inserted the point and is not done.
PendingElsewhere(e, p) == \E f \in SourceEditors \ {e} : sourceEditor[f].step = "insert" /\ p \in sourceEditor[f].made

\* The row is there, committed or not: this request does not insert it.
TakenPoint(e, p) == p \in registered \/ \E f \in SourceEditors \ {e} : sourceEditor[f].step = "insert" /\ p \in sourceEditor[f].made

InsertPoint(e) ==
    LET q == sourceEditor[e]  p == q.list[q.next] IN
    /\ q.step = "insert" /\ q.next <= Len(q.list) /\ ~PendingElsewhere(e, p)
    /\ SourceEditorTo(e, [step |-> "insert", list |-> q.list, next |-> q.next + 1,
                          made |-> IF TakenPoint(e, p) THEN q.made ELSE q.made \union {p}])
    /\ UNCHANGED <<source, registered, created>>

\* Mutant of Counted: what the request listed counts as created.
CountedByList(q) == {q.list[i] : i \in DOMAIN q.list}

\* The inserts that returned a row.
Counted(q) == q.made

\* The counts are audited and answered with the commit.
EndRegister(e) ==
    LET q == sourceEditor[e] IN
    /\ q.step = "insert" /\ q.next > Len(q.list)
    /\ registered' = registered \union q.made
    /\ created' = [p \in Points |-> created[p] + IF p \in Counted(q) THEN 1 ELSE 0]
    /\ SourceEditorEnds(e)
    /\ UNCHANGED source

\* The request fails, or the database ends it because two wait for each other: its inserts are undone.
FailRegister(e) ==
    /\ sourceEditor[e].step = "insert"
    /\ SourceEditorEnds(e)
    /\ UNCHANGED <<source, registered, created>>

SourcesNext ==
    \/ \E s \in SourceRows, name \in SourceNames, config \in Configs : CreateSource(s, name, config)
    \/ \E e \in SourceEditors :
          BeginPatch(e) \/ EndPatch(e) \/ BeginRegister(e) \/ InsertPoint(e) \/ EndRegister(e) \/ FailRegister(e)

SourcesSpec == SourcesInit /\ [][SourcesNext]_sourceVars

-----------------------------------------------------------------------------
(* Properties *)

\* A PATCH changes the columns it names: one that renames a source does not switch it on again
\* when another request switched it off after the row was read (services/sources.py, update).
PatchesStayApart ==
    [][\A s \in SourceRows : source[s] # NoRow => \A f \in SourceFields : source'[s][f] # source[s][f] =>
          \E e \in SourceEditors : sourceEditor[e].step = "patch" /\ sourceEditor[e].row = s
                                   /\ sourceEditor[e].change[f] = source'[s][f]]_sourceVars

\* "Make each point a series of the source; (created, already there)" (services/sources.py,
\* register_series): when a registration answers, each of its points is a series, also one that
\* another request was inserting, and that request failed.
ListedAreThere ==
    [][\A e \in SourceEditors :
          sourceEditor[e].step = "insert" /\ sourceEditor[e].next > Len(sourceEditor[e].list)
          /\ sourceEditor'[e].step = "idle" /\ (registered' # registered \/ sourceEditor[e].made = {}) =>
             \A i \in DOMAIN sourceEditor[e].list : sourceEditor[e].list[i] \in registered']_sourceVars

\* Of the registrations that list a point, one at most counts it as created.
CreatedOnce == \A p \in Points : created[p] = IF p \in registered THEN 1 ELSE 0
=============================================================================
