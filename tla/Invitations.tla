----------------------------- MODULE Invitations -----------------------------
(***************************************************************************)
(* The invitations of one email to one org and the mails about them        *)
(* (services/admin/invitations.py, routers/invitations.py, mail.py,        *)
(* jobs/tasks.py, migration 0006).                                         *)
(*                                                                         *)
(* An admin request reads without a lock and writes later in its           *)
(* transaction; joining selects open invitations FOR UPDATE, so the row is *)
(* checked again when its lock is had, and now() is the moment the         *)
(* transaction began.  A partial unique index allows one open row.         *)
(***************************************************************************)
EXTENDS Naturals, FiniteSets

CONSTANTS
    InvitationIds,   \* numbers, in the order of creation
    Panels,          \* slots for requests of admins
    Joiners,         \* numbers of the sign-ins and calls of /me that may accept, as they come
    MailJobs,        \* numbers of the jobs that may be deferred, in that order
    MailOn,          \* whether the api has SMTP settings
    MailAttempts,    \* MAIL_ATTEMPTS
    InlineJobs,      \* whether the api sends by itself, once
    InvitationTtl,
    LastDay          \* bound of the clock

ASSUME InvitationsAssumption ==
    /\ InvitationIds \subseteq Nat /\ Joiners \subseteq Nat /\ MailJobs \subseteq Nat
    /\ MailAttempts \in Nat \ {0} /\ InvitationTtl \in Nat \ {0} /\ LastDay \in Nat
    /\ InlineJobs \in BOOLEAN /\ MailOn \in BOOLEAN

VARIABLES
    day,
    invitation,   \* the rows; "none" where there is none yet
    joined,       \* whether the person has a membership
    panel,        \* what each request of an admin is doing
    joiner,       \* what each sign-in is doing
    mailJob,      \* the jobs and how far their attempts are
    joinEvents    \* history: member.joined events of each invitation

invitationVars == <<day, invitation, joined, panel, joiner, mailJob, joinEvents>>

Days == 0..(LastDay + InvitationTtl)
NoInvitation == [made |-> FALSE, expires |-> 0, accepted |-> FALSE, revoked |-> FALSE, email |-> "none"]
EmailStatuses == {"not_configured", "queued", "sent", "failed"}

\* The type invariant.
InvitationsTypeOK ==
    /\ day \in 0..LastDay
    /\ invitation \in [InvitationIds -> {NoInvitation} \union
          [made : {TRUE}, expires : Days, accepted : BOOLEAN, revoked : BOOLEAN, email : EmailStatuses]]
    /\ joined \in BOOLEAN
    /\ panel \in [Panels -> [step : {"idle"}] \union [step : {"open"}] \union
          [step : {"insert", "revoke"}, found : SUBSET InvitationIds] \union
          [step : {"resend"}, found : SUBSET InvitationIds, email : EmailStatuses]]
    /\ joiner \in [Joiners -> [step : {"idle", "done"}] \union [step : {"begun"}, at : 0..LastDay] \union
          [step : {"locking"}, at : 0..LastDay, found : SUBSET InvitationIds]]
    /\ mailJob \in [MailJobs -> [step : {"none", "gone"}] \union
          [step : {"queued", "sending", "sent", "failed"}, about : InvitationIds, attempts : 0..(MailAttempts - 1)]]
    /\ joinEvents \in [InvitationIds -> Nat]

InvitationsInit ==
    /\ day = 0 /\ joined = FALSE
    /\ invitation = [i \in InvitationIds |-> NoInvitation]
    /\ panel = [p \in Panels |-> [step |-> "idle"]]
    /\ joiner = [j \in Joiners |-> [step |-> "idle"]]
    /\ mailJob = [m \in MailJobs |-> [step |-> "none"]]
    /\ joinEvents = [i \in InvitationIds |-> 0]

\* Mutant of StatusOf: revoked is asked first.
StatusOfRevokedFirst(r) ==
    CASE ~r.made -> "none"
      [] r.made /\ r.revoked -> "revoked"
      [] r.made /\ ~r.revoked /\ r.accepted -> "accepted"
      [] OTHER -> IF r.expires <= day THEN "expired" ELSE "pending"

\* status_of
StatusOf(r) ==
    CASE ~r.made -> "none"
      [] r.made /\ r.accepted -> "accepted"
      [] r.made /\ ~r.accepted /\ r.revoked -> "revoked"
      [] OTHER -> IF r.expires <= day THEN "expired" ELSE "pending"

OpenRows == {i \in InvitationIds : invitation[i].made /\ ~invitation[i].accepted /\ ~invitation[i].revoked}
PanelTo(p, r) == panel' = [panel EXCEPT ![p] = r]

-----------------------------------------------------------------------------
(* Requests of admins *)

\* create_invitation: the email belongs to no member ...
ReadMembership(p) ==
    /\ panel[p].step = "idle" /\ ~joined
    /\ PanelTo(p, [step |-> "open"])
    /\ UNCHANGED <<day, invitation, joined, joiner, mailJob, joinEvents>>

\* ... and has no pending invitation; an expired one is to be replaced.
ReadOpen(p) ==
    /\ panel[p].step = "open"
    /\ PanelTo(p, IF \E i \in OpenRows : StatusOf(invitation[i]) = "pending"
                  THEN [step |-> "idle"] ELSE [step |-> "insert", found |-> OpenRows])
    /\ UNCHANGED <<day, invitation, joined, joiner, mailJob, joinEvents>>

EmailAfter == IF MailOn THEN "queued" ELSE "not_configured"

\* _queue_email: the job comes in the same transaction; inline, the api tries once.
Queue(i) ==
    \/ ~MailOn /\ UNCHANGED mailJob
    \/ /\ MailOn
       /\ \E m \in MailJobs :
             /\ mailJob[m].step = "none" /\ \A n \in MailJobs : n < m => mailJob[n].step # "none"
             /\ mailJob' = [mailJob EXCEPT ![m] =
                   [step |-> "queued", about |-> i, attempts |-> IF InlineJobs THEN MailAttempts - 1 ELSE 0]]

\* The expired row is revoked and the new one inserted; the unique index
\* refuses it when another open row is there by now, and the transaction fails.
Insert(p) ==
    LET q == panel[p] IN
    /\ q.step = "insert" /\ PanelTo(p, [step |-> "idle"])
    /\ IF OpenRows \ q.found # {}
       THEN UNCHANGED <<invitation, mailJob>>
       ELSE \E i \in InvitationIds :
              /\ ~invitation[i].made /\ \A j \in InvitationIds : j < i => invitation[j].made
              /\ invitation' = [j \in InvitationIds |->
                    IF j = i THEN [made |-> TRUE, expires |-> day + InvitationTtl, accepted |-> FALSE, revoked |-> FALSE,
                                   email |-> EmailAfter]
                    ELSE IF j \in q.found THEN [invitation[j] EXCEPT !.revoked = TRUE] ELSE invitation[j]]
              /\ Queue(i)
    /\ UNCHANGED <<day, joined, joiner, joinEvents>>

\* resend_invitation and revoke_invitation read the row and its status without a lock.
ReadInvitation(p) ==
    /\ panel[p].step = "idle"
    /\ \E i \in InvitationIds :
          \/ /\ StatusOf(invitation[i]) \in {"pending", "expired"}
             /\ PanelTo(p, [step |-> "resend", found |-> {i}, email |-> invitation[i].email])
          \/ /\ StatusOf(invitation[i]) = "pending"
             /\ PanelTo(p, [step |-> "revoke", found |-> {i}])
    /\ UNCHANGED <<day, invitation, joined, joiner, mailJob, joinEvents>>

\* The write names the row by its key only, whatever became of it; the status is written if it is
\* another than was read.
Resend(p) ==
    /\ panel[p].step = "resend" /\ PanelTo(p, [step |-> "idle"])
    /\ \E i \in panel[p].found :
          /\ invitation' = [invitation EXCEPT ![i].expires = day + InvitationTtl,
                                              ![i].email = IF EmailAfter = panel[p].email THEN @ ELSE EmailAfter]
          /\ Queue(i)
    /\ UNCHANGED <<day, joined, joiner, joinEvents>>

RevokeInvitation(p) ==
    /\ panel[p].step = "revoke" /\ PanelTo(p, [step |-> "idle"])
    /\ \E i \in panel[p].found : invitation' = [invitation EXCEPT ![i].revoked = TRUE]
    /\ UNCHANGED <<day, joined, joiner, mailJob, joinEvents>>

-----------------------------------------------------------------------------
(* Joining *)

\* A sign-in, or /me of a session without an org, begins its transaction.
BeginJoin(j) ==
    /\ joiner[j].step = "idle" /\ \A k \in Joiners : k < j => joiner[k].step # "idle"
    /\ joiner' = [joiner EXCEPT ![j] = [step |-> "begun", at |-> day]]
    /\ UNCHANGED <<day, invitation, joined, panel, mailJob, joinEvents>>

Acceptable(i, at) == i \in OpenRows /\ invitation[i].expires > at

\* The statement of tabayyun_accept_invitations takes its snapshot.
SelectInvitations(j) ==
    LET q == joiner[j] IN
    /\ q.step = "begun"
    /\ joiner' = [joiner EXCEPT ![j] = [step |-> "locking", at |-> q.at,
                                        found |-> {i \in InvitationIds : Acceptable(i, q.at)}]]
    /\ UNCHANGED <<day, invitation, joined, panel, mailJob, joinEvents>>

\* Mutant of AcceptInvitations: the rows are not checked again once they are locked.
AcceptUnchecked(j) ==
    LET q == joiner[j] IN
    /\ q.step = "locking"
    /\ joiner' = [joiner EXCEPT ![j] = [step |-> "done"]]
    /\ invitation' = [i \in InvitationIds |->
          IF i \in q.found THEN [invitation[i] EXCEPT !.accepted = TRUE] ELSE invitation[i]]
    /\ joinEvents' = [i \in InvitationIds |-> IF i \in q.found THEN joinEvents[i] + 1 ELSE joinEvents[i]]
    /\ joined' = (joined \/ q.found # {})
    /\ UNCHANGED <<day, panel, mailJob>>

\* It locks the rows and checks them again, gives the membership and commits.
AcceptInvitations(j) ==
    LET q == joiner[j]
        still == {i \in q.found : Acceptable(i, q.at)}
    IN
    /\ q.step = "locking"
    /\ joiner' = [joiner EXCEPT ![j] = [step |-> "done"]]
    /\ invitation' = [i \in InvitationIds |->
          IF i \in still THEN [invitation[i] EXCEPT !.accepted = TRUE] ELSE invitation[i]]
    /\ joinEvents' = [i \in InvitationIds |-> IF i \in still THEN joinEvents[i] + 1 ELSE joinEvents[i]]
    /\ joined' = (joined \/ still # {})
    /\ UNCHANGED <<day, panel, mailJob>>

-----------------------------------------------------------------------------
(* Mail *)

JobTo(m, step) == mailJob' = [mailJob EXCEPT ![m].step = step]
JobGone(m)     == mailJob' = [mailJob EXCEPT ![m] = [step |-> "gone"]]
SetStatus(i, s) == invitation' = [invitation EXCEPT ![i].email = s]

\* An attempt reads the invitation and goes on only while it is pending.
ReadMail(m) ==
    /\ mailJob[m].step = "queued"
    /\ IF StatusOf(invitation[mailJob[m].about]) = "pending" THEN JobTo(m, "sending") ELSE JobGone(m)
    /\ UNCHANGED <<day, invitation, joined, panel, joiner, joinEvents>>

\* A worker without SMTP settings gives up.
NotConfigured(m) ==
    /\ mailJob[m].step = "queued" /\ ~InlineJobs
    /\ SetStatus(mailJob[m].about, "not_configured") /\ JobGone(m)
    /\ UNCHANGED <<day, joined, panel, joiner, joinEvents>>

\* Mutant of Send: the last attempt is left to the queue as well.
SendRaising(m) ==
    LET b == mailJob[m] IN
    /\ b.step = "sending"
    /\ \/ JobTo(m, "sent")
       \/ IF b.attempts + 1 < MailAttempts
          THEN mailJob' = [mailJob EXCEPT ![m].step = "queued", ![m].attempts = @ + 1]
          ELSE JobGone(m)
    /\ UNCHANGED <<day, invitation, joined, panel, joiner, joinEvents>>

\* The server takes the mail, or refuses it or does not answer: the queue tries again, and the last
\* attempt is to be recorded.
Send(m) ==
    LET b == mailJob[m] IN
    /\ b.step = "sending"
    /\ \/ JobTo(m, "sent")
       \/ IF b.attempts + 1 < MailAttempts
          THEN mailJob' = [mailJob EXCEPT ![m].step = "queued", ![m].attempts = @ + 1]
          ELSE JobTo(m, "failed")
    /\ UNCHANGED <<day, invitation, joined, panel, joiner, joinEvents>>

\* The outcome is recorded in a transaction of its own.
RecordMail(m) ==
    /\ mailJob[m].step \in {"sent", "failed"}
    /\ SetStatus(mailJob[m].about, mailJob[m].step) /\ JobGone(m)
    /\ UNCHANGED <<day, joined, panel, joiner, joinEvents>>

PassDay ==
    /\ day < LastDay /\ day' = day + 1
    /\ UNCHANGED <<invitation, joined, panel, joiner, mailJob, joinEvents>>

MailStep(m) == ReadMail(m) \/ NotConfigured(m) \/ Send(m) \/ RecordMail(m)

InvitationsNext ==
    \/ \E p \in Panels : \/ ReadMembership(p) \/ ReadOpen(p) \/ Insert(p) \/ ReadInvitation(p) \/ Resend(p)
                         \/ RevokeInvitation(p)
    \/ \E j \in Joiners : BeginJoin(j) \/ SelectInvitations(j) \/ AcceptInvitations(j)
    \/ \E m \in MailJobs : MailStep(m)
    \/ PassDay

\* Workers take jobs and the mail server answers or is given up on (SEND_TIMEOUT_S); people, time and
\* admins may rest.
MailFairness == \A m \in MailJobs : WF_invitationVars(MailStep(m))

InvitationsSpec == InvitationsInit /\ [][InvitationsNext]_invitationVars /\ MailFairness

-----------------------------------------------------------------------------
(* Properties *)

\* The status shown of an invitation goes through its life as it should: accepted and revoked are
\* for good, whatever requests, sign-ins and clocks do between each other's statements.
Lifecycle == INSTANCE InvitationAbstract WITH
    Ids <- InvitationIds, status <- [i \in InvitationIds |-> StatusOf(invitation[i])]
StatusIsLifecycle == Lifecycle!Life

\* A sign-in and a call of /me of one person that overlap accept an invitation once: one
\* member.joined event each.
JoinedOnce == \A i \in InvitationIds : joinEvents[i] = IF invitation[i].accepted THEN 1 ELSE 0

\* An email does not stay queued: its status tells an outcome, or the invitation has ended.
QueuedMailSettles ==
    \A i \in InvitationIds :
        (invitation[i].email = "queued") ~> (invitation[i].email # "queued" \/ StatusOf(invitation[i]) # "pending")
=============================================================================
