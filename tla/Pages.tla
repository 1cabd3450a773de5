-------------------------------- MODULE Pages --------------------------------
(***************************************************************************)
(* Walking through a list page by page.  Groups, datasets, runs, findings, *)
(* files and audit events are listed newest first, by a time and the id;   *)
(* series by name and id, members by email.  A page holds a limited number *)
(* of rows and names its last row as the cursor of the next page; between  *)
(* two pages rows come, go and change the value they are sorted by (a file *)
(* is read again, a finding's window grows backwards, a series is renamed).*)
(***************************************************************************)
EXTENDS Naturals, FiniteSets

CONSTANTS
    RowIds,     \* numbers, in their order
    LastValue,  \* bound of what rows are sorted by: a time or a name
    PageLimit,
    Sightings   \* bound: a row that was shown this often moves no more

ASSUME PagesAssumption ==
    RowIds \subseteq Nat /\ IsFiniteSet(RowIds) /\ LastValue \in Nat /\ PageLimit \in Nat \ {0} /\ Sightings \in Nat

VARIABLES
    listed,   \* what each row is sorted by, 0 while it is not in the list
    sorting,  \* which of the two orders this list has
    cursor,   \* of the walk: the row its last page ended with
    steady,   \* history: the rows that have been there, as they are, since the walk began
    shown     \* history: how often the walk has shown each row

pageVars == <<listed, sorting, cursor, steady, shown>>

Beginning == [step |-> "begin", value |-> 0, id |-> 0]
TheEnd    == [step |-> "end", value |-> 0, id |-> 0]
Rows      == {r \in [step : {"row"}, value : 1..LastValue, id : RowIds] : listed[r.id] = r.value}

\* The type invariant.
PagesTypeOK ==
    /\ listed \in [RowIds -> 0..LastValue]
    /\ sorting \in {"newest", "name"}
    /\ cursor \in {Beginning, TheEnd} \union [step : {"row"}, value : 1..LastValue, id : RowIds]
    /\ steady \subseteq {i \in RowIds : listed[i] # 0}
    /\ shown \in [RowIds -> Nat]

PagesInit ==
    /\ listed \in [RowIds -> 0..LastValue]
    /\ sorting \in {"newest", "name"}
    /\ cursor = Beginning
    /\ steady = {i \in RowIds : listed[i] # 0}
    /\ shown = [i \in RowIds |-> 0]

-----------------------------------------------------------------------------
(* The order and the pages *)

\* ORDER BY created_at DESC, id DESC
NewestFirst(r, s) == r.value > s.value \/ (r.value = s.value /\ r.id > s.id)

\* ORDER BY name, id
ByName(r, s) == r.value < s.value \/ (r.value = s.value /\ r.id < s.id)

Precedes(r, s) == IF sorting = "newest" THEN NewestFirst(r, s) ELSE ByName(r, s)

\* Mutant of Rest: the cursor compares the time only.
RestByValue ==
    {r \in Rows : cursor.step = "row" => IF sorting = "newest" THEN r.value < cursor.value ELSE r.value > cursor.value}

\* WHERE: what comes after the cursor.
Rest == {r \in Rows : cursor.step = "row" => Precedes(cursor, r)}

\* The first rows of the rest, at most as many as a page holds.
Page == {r \in Rest : Cardinality({s \in Rest : Precedes(s, r)}) < PageLimit}

\* Mutant of NextCursor: the first row of the next page is taken for the last of this one.
NextCursorOver ==
    IF Rest = Page THEN TheEnd
    ELSE CHOOSE r \in Rest : Cardinality({s \in Rest : Precedes(s, r)}) = PageLimit

\* The last row of the page, if there are more.
NextCursor == IF Rest = Page THEN TheEnd ELSE CHOOSE r \in Page : \A s \in Page : ~Precedes(r, s)

TurnPage ==
    /\ cursor.step # "end"
    /\ shown' = [i \in RowIds |-> IF \E r \in Page : r.id = i THEN shown[i] + 1 ELSE shown[i]]
    /\ cursor' = NextCursor
    /\ UNCHANGED <<listed, sorting, steady>>

\* Another walk.
StartOver ==
    /\ cursor.step = "end"
    /\ cursor' = Beginning
    /\ steady' = {i \in RowIds : listed[i] # 0}
    /\ shown' = [i \in RowIds |-> 0]
    /\ UNCHANGED <<listed, sorting>>

\* A row comes (its time may be older than others': it is that of its transaction's beginning), goes,
\* or is sorted elsewhere from now on.  A row that moves may be shown at each of its places.
SightRow(i) ==
    /\ cursor.step # "end"
    /\ shown[i] < Sightings
    /\ \E value \in 0..LastValue : value # listed[i] /\ listed' = [listed EXCEPT ![i] = value]
    /\ steady' = steady \ {i}
    /\ UNCHANGED <<sorting, cursor, shown>>

PagesNext == TurnPage \/ StartOver \/ \E i \in RowIds : SightRow(i)
PagesSpec == PagesInit /\ [][PagesNext]_pageVars

-----------------------------------------------------------------------------
(* Properties *)

\* Whatever comes, goes and moves between two pages, a row that stays as it is is shown once by a walk:
\* rows of one time or one name are neither skipped nor repeated where a page ends.
PagesShowEachOnce ==
    \A i \in steady : shown[i] <= 1 /\ (cursor.step = "end" => shown[i] = 1)
=============================================================================
