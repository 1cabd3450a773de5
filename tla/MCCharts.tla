------------------------------ MODULE MCCharts ------------------------------
EXTENDS Charts, TLC

CONSTANTS w1, w2, v1

\* Writers are interchangeable.
WriterSymmetry == Permutations(Writers)
=============================================================================
