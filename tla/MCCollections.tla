---------------------------- MODULE MCCollections ----------------------------
EXTENDS Collections, TLC

CONSTANTS e1, e2

\* Two lists that share a series with a third one, and the changes of a set to each of the two.
Pair(s, t) == <<[series |-> s, role |-> "member"], [series |-> t, role |-> "member"]>>
PairLists  == {Pair("s1", "s2"), Pair("s3", "s2"), Pair("s3", "s4")}
PairEdits  == {[list |-> l, row |-> FALSE, name |-> Keep] : l \in PairLists}

\* Requests are interchangeable.
EditorSymmetry == Permutations(SetEditors)
=============================================================================
