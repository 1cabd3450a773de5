------------------------------ MODULE MCMembers ------------------------------
EXTENDS Members, TLC

CONSTANTS a, b, c, q1, q2

\* An org with two owners.
TwoOwners == (a :> "owner" @@ b :> "owner" @@ c :> "none")
Settled   == {TwoOwners}
=============================================================================
