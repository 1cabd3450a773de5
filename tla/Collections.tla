----------------------------- MODULE Collections -----------------------------
(***************************************************************************)
(* Series groups and datasets of a workspace (services/groups.py,          *)
(* services/datasets.py, routers/groups.py, routers/datasets.py): rows     *)
(* with a list of series that is replaced as a whole.                      *)
(*                                                                         *)
(* A request is one READ COMMITTED transaction.  Its row is read without a *)
(* lock; an UPDATE of the row locks it to the end; a DELETE of the list    *)
(* sees the rows committed when it began and waits for those another       *)
(* transaction is deleting.  A group's row is written with every change, a *)
(* dataset's only when its name or window changes.                         *)
(***************************************************************************)
EXTENDS Naturals, Sequences, FiniteSets

CONSTANTS
    Sets,         \* groups and datasets
    SetNames, SeriesIds,
    Lists,        \* the lists requests name: sequences of [series, role]
    MinMembers, MaxMembers,
    Edits,        \* what changes hold
    SetEditors    \* slots for requests that write

\* No new name.
Keep == "keep"

ASSUME CollectionsAssumption ==
    /\ MinMembers \in Nat \ {0} /\ MaxMembers \in Nat
    \* A new list or none, a new name or none, and whether other columns that are written ahead of the
    \* list (a group's params, a dataset's window).
    /\ Keep \notin SetNames
    /\ Edits \subseteq [list : Lists \union {<<>>}, row : BOOLEAN, name : SetNames \union {Keep}]
    /\ \A l \in Lists : l \in Seq([series : SeriesIds, role : {"member", "input", "output"}])

VARIABLES
    sets,      \* the rows, with the members
    setEditor  \* what each request that writes is doing

setVars == <<sets, setEditor>>

Kinds  == {"related", "balance", "dataset"}
NoSet  == [kind |-> "none"]
Gone   == [kind |-> "gone"]
Exists(g) == sets[g].kind \in Kinds
MemberRows == [series : SeriesIds, role : {"member", "input", "output"}, position : 1..MaxMembers]
ListRows(l) == {[series |-> l[i].series, role |-> l[i].role, position |-> i] : i \in DOMAIN l}

\* validate_members; of a dataset only the number is bounded.
ValidMembers(kind, l) ==
    LET roles == {l[i].role : i \in DOMAIN l} IN
    /\ Len(l) <= MaxMembers /\ (kind # "dataset" => Len(l) >= MinMembers) /\ Len(l) >= 1
    /\ \A i, j \in DOMAIN l : l[i].series = l[j].series => i = j
    /\ IF kind = "balance" THEN roles = {"input", "output"} ELSE roles = {"member"}

Early(q)   == q.change.row \/ (q.kind # "dataset" /\ q.change.name # Keep)
Touches(q) == q.kind # "dataset" \/ q.change.row \/ q.change.name # Keep

\* The type invariant.
CollectionsTypeOK ==
    /\ sets \in [Sets -> {NoSet, Gone} \union [kind : Kinds, name : SetNames, members : SUBSET MemberRows]]
    /\ \A g \in Sets : Exists(g) => \A m, n \in sets[g].members : m.series = n.series => m = n
    /\ setEditor \in [SetEditors -> [step : {"idle"}] \union
          [step : {"create"}, set : Sets, kind : Kinds, name : SetNames, list : Lists] \union
          [step : {"named", "locked"}, set : Sets, kind : Kinds, change : Edits] \union
          [step : {"deleting", "deleted"}, set : Sets, kind : Kinds, change : Edits, locked : BOOLEAN,
           found : SUBSET MemberRows]]

CollectionsInit ==
    /\ sets = [g \in Sets |-> NoSet]
    /\ setEditor = [e \in SetEditors |-> [step |-> "idle"]]

-----------------------------------------------------------------------------
(* Locks *)

Others(e) == SetEditors \ {e}

\* The row of g is locked by one of these requests: it wrote the row and has not committed.
Writing(f)         == setEditor[f].step = "locked" \/ (setEditor[f].step \in {"deleting", "deleted"} /\ setEditor[f].locked)
RowLocked(g, them) == \E f \in them : Writing(f) /\ setEditor[f].set = g

\* One of them has deleted some of these members of g and has not committed.
MembersLocked(g, them, rows) ==
    \E f \in them : setEditor[f].step = "deleted" /\ setEditor[f].set = g /\ setEditor[f].found \intersect rows # {}

NameTaken(name, g) == \E h \in Sets \ {g} : Exists(h) /\ sets[h].kind # "dataset" /\ sets[h].name = name
\* A group's name one of them has written and not committed: the unique index makes a second writer wait.
NamePending(name, them) ==
    name # Keep /\ \E f \in them : Writing(f) /\ setEditor[f].kind # "dataset" /\ setEditor[f].change.name = name

EditorTo(e, r) == setEditor' = [setEditor EXCEPT ![e] = r]
Ends(e)        == EditorTo(e, [step |-> "idle"])

-----------------------------------------------------------------------------
(* Creating and deleting *)

\* POST: the list is valid, its series are there, and the name is free among groups.
BeginCreate(e) ==
    /\ setEditor[e].step = "idle"
    /\ \E g \in Sets, kind \in Kinds, name \in SetNames, l \in Lists :
          /\ sets[g] = NoSet /\ \A f \in SetEditors : setEditor[f].step = "create" => setEditor[f].set # g
          /\ ValidMembers(kind, l)
          /\ kind # "dataset" => ~NameTaken(name, g)
          /\ EditorTo(e, [step |-> "create", set |-> g, kind |-> kind, name |-> name, list |-> l])
    /\ UNCHANGED sets

\* The inserts and the commit; a name that was taken meanwhile is a conflict.
Create(e) ==
    LET q == setEditor[e] IN
    /\ q.step = "create" /\ (q.kind # "dataset" => ~NamePending(q.name, Others(e)))
    /\ sets' = IF q.kind # "dataset" /\ NameTaken(q.name, q.set) THEN sets
               ELSE [sets EXCEPT ![q.set] = [kind |-> q.kind, name |-> q.name, members |-> ListRows(q.list)]]
    /\ Ends(e)

\* DELETE: the row and, by cascade, its members, once nobody holds their locks.
DeleteSet(g) ==
    /\ Exists(g) /\ ~RowLocked(g, SetEditors) /\ ~MembersLocked(g, SetEditors, sets[g].members)
    /\ sets' = [sets EXCEPT ![g] = Gone]
    /\ UNCHANGED setEditor

-----------------------------------------------------------------------------
(* Changing *)

\* PATCH reads the row; a new name must be free.
BeginChange(e) ==
    /\ setEditor[e].step = "idle"
    /\ \E g \in Sets, c \in Edits :
          /\ Exists(g)
          /\ c.list # <<>> => ValidMembers(sets[g].kind, c.list)
          /\ sets[g].kind # "dataset" => ~NameTaken(c.name, g)
          /\ EditorTo(e, [step |-> "named", set |-> g, kind |-> sets[g].kind, change |-> c])
    /\ UNCHANGED sets

CanWriteRow(e) ==
    LET q == setEditor[e] IN
    ~RowLocked(q.set, Others(e)) /\ (q.kind # "dataset" => ~NamePending(q.change.name, Others(e)))
RowAccepts(q)  == Exists(q.set) /\ (q.kind # "dataset" => ~NameTaken(q.change.name, q.set))
Named(q, name) == IF q.change.name = Keep THEN name ELSE q.change.name

\* Without a list: the row is written and committed, unless it is gone or its name taken by now.
ChangeRow(e) ==
    LET q == setEditor[e] IN
    /\ q.step = "named" /\ q.change.list = <<>> /\ (Touches(q) => CanWriteRow(e))
    /\ sets' = IF RowAccepts(q) THEN [sets EXCEPT ![q.set].name = Named(q, @)] ELSE sets
    /\ Ends(e)

\* The query for the list's series flushes changed columns first: the row is locked.  A name that
\* is taken by now, or a row that is gone, fails the request.
FlushRow(e) ==
    LET q == setEditor[e] IN
    /\ q.step = "named" /\ q.change.list # <<>> /\ Early(q) /\ CanWriteRow(e)
    /\ IF RowAccepts(q) THEN EditorTo(e, [q EXCEPT !.step = "locked"]) ELSE Ends(e)
    /\ UNCHANGED sets

\* The DELETE of the old list takes its snapshot ...
BeginDelete(e) ==
    LET q == setEditor[e] IN
    /\ q.step = "locked" \/ (q.step = "named" /\ q.change.list # <<>> /\ ~Early(q))
    /\ EditorTo(e, [step |-> "deleting", set |-> q.set, kind |-> q.kind, change |-> q.change,
                    locked |-> q.step = "locked", found |-> IF Exists(q.set) THEN sets[q.set].members ELSE {}])
    /\ UNCHANGED sets

\* ... waits for the rows another request is deleting, and deletes what is still there of them.
DeleteMembers(e) ==
    LET q == setEditor[e] IN
    /\ q.step = "deleting" /\ ~MembersLocked(q.set, Others(e), q.found)
    /\ EditorTo(e, [step |-> "deleted", set |-> q.set, kind |-> q.kind, change |-> q.change, locked |-> q.locked,
                    found |-> IF Exists(q.set) THEN q.found \intersect sets[q.set].members ELSE {}])
    /\ UNCHANGED sets

\* Mutant of Replaced: the old list is deleted after the new one is there.
ReplacedLate(members, found, list) == {m \in members \union ListRows(list) : \A n \in found : n.series # m.series}

Replaced(members, found, list) == (members \ found) \union ListRows(list)

\* The new list, the row and the commit.  The request fails if the row is gone or the list meets a
\* member that is still there.
InsertMembers(e) ==
    LET q == setEditor[e] IN
    /\ q.step = "deleted"
    /\ Touches(q) => ~RowLocked(q.set, Others(e))
    /\ sets' = IF /\ Exists(q.set)
                  /\ \A m \in sets[q.set].members \ q.found, i \in DOMAIN q.change.list : m.series # q.change.list[i].series
               THEN [sets EXCEPT ![q.set] = [kind |-> @.kind, name |-> Named(q, @.name),
                                             members |-> Replaced(@.members, q.found, q.change.list)]]
               ELSE sets
    /\ Ends(e)

\* e holds the row and waits for members that f has deleted, and f waits for the row.
Embrace(e, f) ==
    LET q == setEditor[e]  r == setEditor[f] IN
    /\ q.step = "deleting" /\ q.locked
    /\ r.step = "deleted" /\ ~r.locked /\ r.set = q.set /\ Touches(r) /\ r.found \intersect q.found # {}

\* The database fails either.
BreakDeadlock(e) ==
    /\ \E f \in Others(e) : Embrace(e, f) \/ Embrace(f, e)
    /\ Ends(e)
    /\ UNCHANGED sets

CollectionsNext ==
    \/ \E e \in SetEditors :
          \/ BeginCreate(e) \/ Create(e) \/ BeginChange(e) \/ ChangeRow(e) \/ FlushRow(e)
          \/ BeginDelete(e) \/ DeleteMembers(e) \/ InsertMembers(e) \/ BreakDeadlock(e)
    \/ \E g \in Sets : DeleteSet(g)

CollectionsSpec == CollectionsInit /\ [][CollectionsNext]_setVars

-----------------------------------------------------------------------------
(* Properties *)

\* A group has enough members of the roles of its kind, and a dataset has one, after any changes that
\* overlap (groups.py:69, "same rules as the core").
MembersFitKind ==
    \A g \in Sets : Exists(g) =>
        LET roles == {m.role : m \in sets[g].members} IN
        /\ Cardinality(sets[g].members) >= (IF sets[g].kind = "dataset" THEN 1 ELSE MinMembers)
        /\ roles = IF sets[g].kind = "balance" THEN {"input", "output"} ELSE {"member"}

\* No two groups have one name, although a name is looked up before it is written and a change
\* writes it in the middle of its transaction.
GroupNamesDiffer ==
    \A g, h \in Sets :
        Exists(g) /\ Exists(h) /\ sets[g].kind # "dataset" /\ sets[h].kind # "dataset" /\ sets[g].name = sets[h].name
            => g = h

\* groups.py:125: "Store `members` in declaration order, replacing the previous list."
MembersAreOneList ==
    \A g \in Sets : Exists(g) => \E l \in Lists : sets[g].members = ListRows(l)
=============================================================================
