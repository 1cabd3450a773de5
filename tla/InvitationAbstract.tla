------------------------- MODULE InvitationAbstract -------------------------
(***************************************************************************)
(* What an invitation promises to those who look at its status: it is      *)
(* opened, may expire and be renewed, and ends accepted or revoked, for    *)
(* good and never both (services/admin/invitations.py, class Status).      *)
(***************************************************************************)
CONSTANTS Ids

VARIABLES status   \* of each invitation; "none" before it is created

Open(i)   == status[i] = "none" /\ status' = [status EXCEPT ![i] = "pending"]
Accept(i) == status[i] \in {"pending", "expired"} /\ status' = [status EXCEPT ![i] = "accepted"]
Revoke(i) == status[i] \in {"pending", "expired"} /\ status' = [status EXCEPT ![i] = "revoked"]
Renew(i)  == status[i] = "expired" /\ status' = [status EXCEPT ![i] = "pending"]

\* Time passes for several at once.
Expire ==
    \E lapsed \in SUBSET {i \in Ids : status[i] = "pending"} :
        status' = [i \in Ids |-> IF i \in lapsed THEN "expired" ELSE status[i]]

\* A new invitation takes the place of an expired one, which is revoked.
Replace(i, j) ==
    /\ status[i] \in {"pending", "expired"} /\ status[j] = "none"
    /\ status' = [status EXCEPT ![i] = "revoked", ![j] = "pending"]

LifeInit == status = [i \in Ids |-> "none"]
LifeNext ==
    \/ \E i \in Ids : Open(i) \/ Accept(i) \/ Revoke(i) \/ Renew(i) \/ \E j \in Ids : Replace(i, j)
    \/ Expire
Life == LifeInit /\ [][LifeNext]_status
=============================================================================
