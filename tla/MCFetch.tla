------------------------------ MODULE MCFetch ------------------------------
EXTENDS Fetch

\* People fetch everything, or force a part of what is covered again.
Everything == {[lo |-> 0, hi |-> Horizon, points |-> Points, force |-> FALSE]}
PartForced == {[lo |-> 0, hi |-> 3, points |-> {1}, force |-> TRUE]}
WholeTime == {<<0, Horizon>>}

\* The window of a dataset run begins within what a poll reads and ends with the clock.
LateWindow == {<<2, Horizon>>}

\* Earlier fetches have left nothing; a row inside a longer one, or a hole in the middle.
NoRows == [t \in 0..(Horizon - 1) |-> t]
Holed  == [NoRows EXCEPT ![0] = 1, ![2] = 3]
Nested == [NoRows EXCEPT ![0] = 3, ![1] = 2]

Empty  == {[p \in Points |-> NoRows]}
Uneven == {[p \in Points |-> IF p = 1 THEN Nested ELSE Holed]}
=============================================================================
