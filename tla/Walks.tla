-------------------------------- MODULE Walks --------------------------------
(***************************************************************************)
(* The two walks most checks of the core are made of (checks/mod.rs,       *)
(* completeness.rs, cross.rs, spikes.rs): over what they pick out of a     *)
(* sequence, and over the runs of what they pick.                          *)
(***************************************************************************)
EXTENDS Integers, FiniteSets, SequencesExt

\* The positions of a set, in order.
InOrder(n, set) == FoldLeft(LAMBDA out, i : IF i \in set THEN Append(out, i) ELSE out, <<>>, [i \in 1..n |-> i])

\* One more position: what holds goes on with the run before it, if that is near, or begins one.
\* A run is its first and its last position; `near` has runs with the positions near them.
NextRun(holds, near, runs, i) ==
    CASE i \notin holds -> runs
      [] i \in holds /\ runs # <<>> /\ <<Last(runs), i>> \in near ->
            [runs EXCEPT ![Len(runs)] = <<runs[Len(runs)][1], i>>]
      [] OTHER -> Append(runs, <<i, i>>)
RunsAmong(n, holds, near) ==
    FoldLeft(LAMBDA runs, i : NextRun(holds, near, runs, i), <<>>, [i \in 1..n |-> i])

\* What may be near: a run among n positions, and one of them.
RunsAndNext(n) == ((1..n) \X (1..n)) \X (1..n)
=============================================================================
