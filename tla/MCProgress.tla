----------------------------- MODULE MCProgress -----------------------------
(***************************************************************************)
(* The components in which something must eventually happen, checked side  *)
(* by side: they share no state here, every behaviour is one of the        *)
(* component it has drawn at its beginning, and each is fair under its own *)
(* assumptions only.                                                       *)
(***************************************************************************)
EXTENDS RunLifecycle, Members, Invitations, Ingest, TLC

CONSTANTS u1, u2, d1, w1, w2, ann, bob, cyd

VARIABLES
    part,  \* the component this behaviour is about
    stored, reported, dedupPc, dedupPos, dedupOwn, dedupHeld, dedupLocks, change  \* those of Findings

\* Two dataset runs that share two series, in id order, each series with its own lock key.
Overlapping(start, end) == [check |-> "gap", subject |-> "x", start |-> start, end |-> end]
FewReports == {<<Overlapping(2, 4)>>, <<Overlapping(1, 6), Overlapping(2, 4)>>}

Dedup == INSTANCE Findings WITH
    Runs <- {"r1", "r2"}, Series <- {"s1", "s2"}, SeriesOf <- [r \in {"r1", "r2"} |-> <<"s1", "s2">>],
    LockKeys <- {"s1", "s2"}, LockKey <- [s \in {"s1", "s2"} |-> s], Reports <- FewReports,
    Users <- {"u1"}, NsPerUs <- 2,
    findings <- stored, report <- reported, pc <- dedupPc, pos <- dedupPos, own <- dedupOwn,
    held <- dedupHeld, locks <- dedupLocks, request <- change

dedupVars == <<stored, reported, dedupPc, dedupPos, dedupOwn, dedupHeld, dedupLocks, change>>
progressVars == <<part, vars, dedupVars, memberVars, invitationVars, ingestVars>>

\* The components that are not looked at begin in one way.
ProgressInit ==
    /\ part \in {"runs", "findings", "members", "invitations", "ingest"}
    /\ Init /\ Dedup!Init /\ MembersInit /\ InvitationsInit /\ IngestInit
    /\ part # "runs" => \A w \in Workers : at[w] = u1
    /\ part # "findings" => \A r \in {"r1", "r2"}, s \in {"s1", "s2"} : reported[r][s] = <<Overlapping(2, 4)>>
    /\ part # "members" => role[bob] = "owner"

ProgressNext ==
    \/ part = "runs" /\ Next /\ UNCHANGED <<part, dedupVars, memberVars, invitationVars, ingestVars>>
    \/ part = "findings" /\ Dedup!Next /\ UNCHANGED <<part, vars, memberVars, invitationVars, ingestVars>>
    \/ part = "members" /\ MembersNext /\ UNCHANGED <<part, vars, dedupVars, invitationVars, ingestVars>>
    \/ part = "invitations" /\ InvitationsNext /\ UNCHANGED <<part, vars, dedupVars, memberVars, ingestVars>>
    \/ part = "ingest" /\ IngestNext /\ UNCHANGED <<part, vars, dedupVars, memberVars, invitationVars>>

\* The fairness of each component, in behaviours about it.
ProgressFairness ==
    /\ Fairness
    /\ \A r \in {"r1", "r2"} : WF_dedupVars(part = "findings" /\ Dedup!Persist(r))
    /\ WF_dedupVars(part = "findings" /\ Dedup!Change("u1"))
    /\ WF_memberVars(part = "members" /\ SignIn(AdminPerson))
    /\ \A m \in MailJobs : WF_invitationVars(part = "invitations" /\ MailStep(m))
    /\ WF_ingestVars(part = "ingest" /\ ScanStep)
    /\ WF_ingestVars(part = "ingest" /\ PassFolderTime)

ProgressSpec == ProgressInit /\ [][ProgressNext]_progressVars /\ ProgressFairness

-----------------------------------------------------------------------------
(* Values *)

\* Two owners; or an org whose owners are gone and that has members, among them the configured
\* admin or not.
TwoOwners == (ann :> "owner" @@ bob :> "owner" @@ cyd :> "none")
NoOwner   == (ann :> "none" @@ bob :> "admin" @@ cyd :> "none")
TwoAdmins == (ann :> "admin" @@ bob :> "admin" @@ cyd :> "none")
Starts    == {TwoOwners, NoOwner, TwoAdmins}

FirstOfOne == {<<1, 1>>}

-----------------------------------------------------------------------------
(* The properties that are stated of several components or of an instance *)

\* Two completion transactions never wait for each other for ever (findings.py:262, one advisory
\* lock per series in id order): each that has begun comes to an end.
CompletionEnds == Dedup!CompletionEnds
=============================================================================
