--------------------------- MODULE MCRunLifecycle ---------------------------
EXTENDS RunLifecycle, TLC

\* Workers are interchangeable, and so are the runs of one kind.  Used where no liveness
\* property is checked.
Symmetry == Permutations(Workers) \union Permutations(Uploads) \union Permutations(Runs \ Uploads)
=============================================================================
