------------------------------ MODULE MCFrames ------------------------------
EXTENDS Frames

\* Good samples only.
Plain == {[ts |-> t, value |-> "a", quality |-> "good"] : t \in 0..(Width - 1)}
=============================================================================
