--------------------------- MODULE AccountsProofs ---------------------------
(***************************************************************************)
(* Proofs about how people come to an account, into it, and what they may  *)
(* do then, one section for each component and for any values of its       *)
(* constants: Invitations, whose status goes through the life              *)
(* InvitationAbstract gives it and each of which is joined once; Sessions, *)
(* what sign-ins that meet do and how sessions end; RateLimits;            *)
(* Credentials; and Authz.                                                 *)
(***************************************************************************)
EXTENDS Invitations, Sessions, RateLimits, Credentials, Authz, FiniteSetTheorems, SequenceTheorems, WellFoundedInduction, TLAPS

-----------------------------------------------------------------------------
(* Invitations *)

Made   == [made : {TRUE}, expires : Nat, accepted : BOOLEAN, revoked : BOOLEAN, email : EmailStatuses]
InvitationRows == {NoInvitation} \union Made
Panel  == [step : {"idle"}] \union [step : {"open"}] \union [step : {"insert", "revoke"}, found : SUBSET InvitationIds]
              \union [step : {"resend"}, found : SUBSET InvitationIds, email : EmailStatuses]
Joiner == [step : {"idle", "done"}] \union [step : {"begun"}, at : Nat]
              \union [step : {"locking"}, at : Nat, found : SUBSET InvitationIds]
Job    == [step : {"none", "gone"}] \union
              [step : {"queued", "sending", "sent", "failed"}, about : InvitationIds, attempts : Nat]

-----------------------------------------------------------------------------
(* The inductive invariant *)

Types ==
    /\ day \in Nat /\ invitation \in [InvitationIds -> InvitationRows]
    /\ panel \in [Panels -> Panel] /\ joiner \in [Joiners -> Joiner] /\ mailJob \in [MailJobs -> Job]
    /\ joinEvents \in [InvitationIds -> Nat]

\* What the unique index keeps.
OneOpen == \A i, j \in OpenRows : i = j

\* Requests and jobs are about invitations that exist.
AboutMade ==
    /\ \A p \in Panels : panel[p].step \in {"insert", "resend", "revoke"} =>
           \A i \in panel[p].found : invitation[i].made
    /\ \A m \in MailJobs : mailJob[m].step \in {"queued", "sending", "sent", "failed"} =>
           invitation[mailJob[m].about].made

InvitationsIInv == Types /\ OneOpen /\ AboutMade /\ JoinedOnce

\* The status of a row at a moment.
StatusAt(r, d) ==
    IF ~r.made THEN "none"
    ELSE IF r.accepted THEN "accepted"
    ELSE IF r.revoked THEN "revoked"
    ELSE IF r.expires <= d THEN "expired" ELSE "pending"

Shown == [i \in InvitationIds |-> StatusAt(invitation[i], day)]

LEMMA InvitationRowFacts ==
    ASSUME NEW r \in InvitationRows
    PROVE  /\ r.made \in BOOLEAN /\ r.accepted \in BOOLEAN /\ r.revoked \in BOOLEAN
           /\ r.expires \in Nat
           /\ r.made => r \in Made
           /\ ~r.made => r = NoInvitation /\ ~r.accepted /\ ~r.revoked
  <1>1. CASE r = NoInvitation
    BY <1>1 DEF NoInvitation
  <1>2. CASE r \in Made
    BY <1>2 DEF Made
  <1> QED BY <1>1, <1>2 DEF InvitationRows

LEMMA StatusFact ==
    ASSUME NEW r \in InvitationRows
    PROVE  StatusOf(r) = StatusAt(r, day)
  BY InvitationRowFacts DEF StatusOf, StatusAt

LEMMA InitHolds == InvitationsInit => InvitationsIInv /\ Shown = [i \in InvitationIds |-> "none"]
  BY DEF InvitationsInit, InvitationsIInv, Types, OneOpen, AboutMade, JoinedOnce, OpenRows, InvitationRows, Panel, Joiner, Job,
         NoInvitation, Shown, StatusAt

-----------------------------------------------------------------------------
(* Steps that leave the rows alone *)

LEMMA ReadSteps ==
    ASSUME InvitationsIInv, NEW p \in Panels, ReadMembership(p) \/ ReadOpen(p) \/ ReadInvitation(p)
    PROVE  InvitationsIInv' /\ Shown' = Shown
  <1>1. UNCHANGED <<day, invitation, joiner, mailJob, joinEvents>>
    BY DEF ReadMembership, ReadOpen, ReadInvitation
  <1>2. \E r \in Panel : /\ panel' = [panel EXCEPT ![p] = r]
                         /\ r.step \in {"insert", "resend", "revoke"} => \A i \in r.found : invitation[i].made
    <2>1. CASE ReadMembership(p) \/ ReadOpen(p)
      <3>1. \A i \in OpenRows : i \in InvitationIds /\ invitation[i].made
        BY DEF OpenRows
      <3>2. [step |-> "open"] \in Panel /\ [step |-> "idle"] \in Panel
            /\ [step |-> "insert", found |-> OpenRows] \in Panel
        BY <3>1 DEF Panel
      <3> QED BY <2>1, <3>1, <3>2 DEF ReadMembership, ReadOpen, PanelTo
    <2>2. CASE ReadInvitation(p)
      <3>1. PICK i \in InvitationIds :
               \/ /\ StatusOf(invitation[i]) \in {"pending", "expired"}
                  /\ panel' = [panel EXCEPT ![p] = [step |-> "resend", found |-> {i}, email |-> invitation[i].email]]
               \/ /\ StatusOf(invitation[i]) = "pending"
                  /\ panel' = [panel EXCEPT ![p] = [step |-> "revoke", found |-> {i}]]
        BY <2>2 DEF ReadInvitation, PanelTo
      <3>2. invitation[i] \in InvitationRows /\ invitation[i].made
        BY <3>1, StatusFact DEF InvitationsIInv, Types, StatusAt
      <3>3. invitation[i].email \in EmailStatuses
        BY <3>2, InvitationRowFacts DEF Made
      <3>4. /\ [step |-> "resend", found |-> {i}, email |-> invitation[i].email] \in Panel
            /\ [step |-> "revoke", found |-> {i}] \in Panel
        BY <3>3 DEF Panel
      <3> QED BY <3>1, <3>2, <3>4
    <2> QED BY <2>1, <2>2
  <1>3. PICK r \in Panel : /\ panel' = [panel EXCEPT ![p] = r]
                           /\ r.step \in {"insert", "resend", "revoke"} => \A i \in r.found : invitation[i].made
    BY <1>2
  <1>4. /\ panel' \in [Panels -> Panel] /\ panel'[p] = r
        /\ \A q \in Panels : q # p => panel'[q] = panel[q]
    BY <1>3 DEF InvitationsIInv, Types
  <1>5. Types' /\ OneOpen' /\ JoinedOnce' /\ Shown' = Shown
    BY <1>1, <1>4 DEF InvitationsIInv, Types, OneOpen, OpenRows, JoinedOnce, Shown
  <1>6. AboutMade'
    BY <1>1, <1>3, <1>4 DEF InvitationsIInv, AboutMade
  <1> QED BY <1>5, <1>6 DEF InvitationsIInv

LEMMA JoinBegins ==
    ASSUME InvitationsIInv, NEW j \in Joiners, BeginJoin(j) \/ SelectInvitations(j)
    PROVE  InvitationsIInv' /\ Shown' = Shown
  <1>1. UNCHANGED <<day, invitation, panel, mailJob, joinEvents>>
    BY DEF BeginJoin, SelectInvitations
  <1>2. joiner' \in [Joiners -> Joiner]
    <2>1. CASE BeginJoin(j)
      BY <2>1 DEF BeginJoin, InvitationsIInv, Types, Joiner
    <2>2. CASE SelectInvitations(j)
      <3>1. joiner[j] \in [step : {"begun"}, at : Nat]
        BY <2>2 DEF SelectInvitations, InvitationsIInv, Types, Joiner
      <3>2. [step |-> "locking", at |-> joiner[j].at,
             found |-> {i \in InvitationIds : Acceptable(i, joiner[j].at)}] \in Joiner
        BY <3>1 DEF Joiner
      <3> QED BY <2>2, <3>2 DEF SelectInvitations, InvitationsIInv, Types
    <2> QED BY <2>1, <2>2
  <1> QED BY <1>1, <1>2 DEF InvitationsIInv, Types, OneOpen, OpenRows, JoinedOnce, AboutMade, Shown

-----------------------------------------------------------------------------
(* Steps that change rows *)

\* Rows that keep what decides their status.
Alike(r, s) ==
    s.made = r.made /\ s.accepted = r.accepted /\ s.revoked = r.revoked /\ s.expires = r.expires

\* A mail job goes on, and writes at most the email status of its invitation.
LEMMA MailSteps ==
    ASSUME InvitationsIInv, NEW m \in MailJobs, MailStep(m)
    PROVE  InvitationsIInv' /\ Shown' = Shown
  <1> DEFINE b == mailJob[m]
  <1>1. UNCHANGED <<day, panel, joiner, joinEvents>>
    BY DEF MailStep, ReadMail, NotConfigured, Send, RecordMail
  <1>2. b \in [step : {"queued", "sending", "sent", "failed"}, about : InvitationIds, attempts : Nat]
    BY DEF MailStep, ReadMail, NotConfigured, Send, RecordMail, InvitationsIInv, Types, Job
  <1>3. b.about \in InvitationIds /\ invitation[b.about] \in Made
    BY <1>2, InvitationRowFacts DEF InvitationsIInv, Types, AboutMade
  <1>4. \E c \in Job : mailJob' = [mailJob EXCEPT ![m] = c] /\ (c.step \in {"none", "gone"} \/ c.about = b.about)
    <2>1. [step |-> "gone"] \in Job
      BY DEF Job
    <2>2. CASE mailJob' = [mailJob EXCEPT ![m] = [step |-> "gone"]]
      BY <2>1, <2>2
    <2>3. ASSUME NEW s \in {"sending", "sent", "failed"}, mailJob' = [mailJob EXCEPT ![m].step = s]
          PROVE  \E c \in Job : mailJob' = [mailJob EXCEPT ![m] = c] /\ (c.step \in {"none", "gone"} \/ c.about = b.about)
      <3> DEFINE c == [b EXCEPT !.step = s]
      <3>1. mailJob' = [mailJob EXCEPT ![m] = c]
        BY <2>3
      <3> HIDE DEF b
      <3>2. c \in [step : {"queued", "sending", "sent", "failed"}, about : InvitationIds, attempts : Nat]
            /\ c.about = b.about
        BY <1>2
      <3> QED BY <3>1, <3>2 DEF Job
    <2>4. CASE mailJob' = [mailJob EXCEPT ![m].step = "queued", ![m].attempts = @ + 1]
      <3> DEFINE again == [b EXCEPT !.step = "queued"]
                 c == [again EXCEPT !.attempts = again.attempts + 1]
      <3>1. mailJob' = [mailJob EXCEPT ![m] = c]
        BY <1>2, <2>4 DEF InvitationsIInv, Types
      <3> HIDE DEF b
      <3>2. again \in [step : {"queued"}, about : InvitationIds, attempts : Nat] /\ again.about = b.about
        BY <1>2
      <3> HIDE DEF again
      <3>3. c \in [step : {"queued"}, about : InvitationIds, attempts : Nat] /\ c.about = b.about
        BY <3>2
      <3> QED BY <3>1, <3>3 DEF Job
    <2> QED BY <2>2, <2>3, <2>4 DEF MailStep, ReadMail, NotConfigured, Send, RecordMail, JobTo, JobGone
  <1>5. /\ mailJob' \in [MailJobs -> Job]
        /\ \A n \in MailJobs : mailJob'[n] = mailJob[n] \/ mailJob'[n].step \in {"none", "gone"}
                                   \/ mailJob'[n].about = b.about
    BY <1>4 DEF InvitationsIInv, Types
  <1>6. invitation' = invitation \/ \E e \in EmailStatuses : invitation' = [invitation EXCEPT ![b.about].email = e]
    BY <1>2 DEF MailStep, ReadMail, NotConfigured, Send, RecordMail, SetStatus, EmailStatuses
  <1> HIDE DEF b
  <1>7. /\ invitation' \in [InvitationIds -> InvitationRows]
        /\ \A i \in InvitationIds : Alike(invitation[i], invitation'[i])
    <2>1. CASE invitation' = invitation
      BY <2>1 DEF InvitationsIInv, Types, Alike
    <2>2. ASSUME NEW e \in EmailStatuses, invitation' = [invitation EXCEPT ![b.about].email = e]
          PROVE  /\ invitation' \in [InvitationIds -> InvitationRows]
                 /\ \A i \in InvitationIds : Alike(invitation[i], invitation'[i])
      <3>1. [invitation[b.about] EXCEPT !.email = e] \in Made
            /\ Alike(invitation[b.about], [invitation[b.about] EXCEPT !.email = e])
        BY <1>3 DEF Made, Alike
      <3>2. invitation' = [invitation EXCEPT ![b.about] = [invitation[b.about] EXCEPT !.email = e]]
        BY <2>2
      <3> QED BY <1>3, <3>1, <3>2 DEF InvitationsIInv, Types, InvitationRows, Alike
    <2> QED BY <1>6, <2>1, <2>2
  <1>8. Types'
    BY <1>1, <1>5, <1>7 DEF InvitationsIInv, Types
  <1>9. OneOpen' /\ JoinedOnce' /\ Shown' = Shown
    BY <1>1, <1>7 DEF InvitationsIInv, OneOpen, OpenRows, JoinedOnce, Shown, StatusAt, Alike
  <1>10. AboutMade'
    <2>1. \A p \in Panels : panel[p].step \in {"insert", "resend", "revoke"} =>
              \A i \in panel[p].found : i \in InvitationIds
      BY DEF InvitationsIInv, Types, Panel
    <2>2. invitation'[b.about].made
      BY <1>3, <1>7 DEF Made, Alike
    <2>3. \A n \in MailJobs : mailJob[n].step \in {"queued", "sending", "sent", "failed"} =>
              mailJob[n].about \in InvitationIds
      BY DEF InvitationsIInv, Types, Job
    <2> QED BY <1>1, <1>5, <1>7, <2>1, <2>2, <2>3 DEF InvitationsIInv, AboutMade, Alike
  <1> QED BY <1>8, <1>9, <1>10 DEF InvitationsIInv

\* The job that comes with a created or renewed invitation.
LEMMA QueueFacts ==
    ASSUME InvitationsIInv, NEW i \in InvitationIds, Queue(i)
    PROVE  /\ mailJob' \in [MailJobs -> Job]
           /\ \A n \in MailJobs : mailJob'[n] = mailJob[n] \/ mailJob'[n].about = i
  <1>1. CASE mailJob' = mailJob
    BY <1>1 DEF InvitationsIInv, Types
  <1>2. ASSUME NEW m \in MailJobs,
               mailJob' = [mailJob EXCEPT ![m] = [step |-> "queued", about |-> i,
                                                  attempts |-> IF InlineJobs THEN MailAttempts - 1 ELSE 0]]
        PROVE  /\ mailJob' \in [MailJobs -> Job]
               /\ \A n \in MailJobs : mailJob'[n] = mailJob[n] \/ mailJob'[n].about = i
    <2> DEFINE c == [step |-> "queued", about |-> i, attempts |-> IF InlineJobs THEN MailAttempts - 1 ELSE 0]
    <2>1. (IF InlineJobs THEN MailAttempts - 1 ELSE 0) \in Nat
      BY InvitationsAssumption
    <2>2. c \in Job /\ c.about = i
      BY <2>1 DEF Job
    <2> HIDE DEF c
    <2> QED BY <1>2, <2>2 DEF InvitationsIInv, Types, c
  <1> QED BY <1>1, <1>2 DEF Queue

\* Everything but the unique index is kept by a step that only adds to the rows and to what is
\* accepted.
LEMMA AboutKeeps ==
    ASSUME InvitationsIInv, NEW i \in InvitationIds,
           \A j \in InvitationIds : invitation[j].made => invitation'[j].made,
           invitation'[i].made,
           \A p \in Panels : panel'[p] = panel[p] \/ panel'[p].step = "idle",
           \A n \in MailJobs : mailJob'[n] = mailJob[n] \/ mailJob'[n].about = i
    PROVE  AboutMade'
  <1>1. \A p \in Panels : panel[p].step \in {"insert", "resend", "revoke"} =>
            \A j \in panel[p].found : j \in InvitationIds
    BY DEF InvitationsIInv, Types, Panel
  <1>2. \A n \in MailJobs : mailJob[n].step \in {"queued", "sending", "sent", "failed"} =>
            mailJob[n].about \in InvitationIds
    BY DEF InvitationsIInv, Types, Job
  <1> QED BY <1>1, <1>2 DEF InvitationsIInv, AboutMade

\* A request of an admin ends.
LEMMA PanelEnds ==
    ASSUME InvitationsIInv, NEW p \in Panels, PanelTo(p, [step |-> "idle"])
    PROVE  /\ panel' \in [Panels -> Panel]
           /\ \A q \in Panels : panel'[q] = panel[q] \/ panel'[q].step = "idle"
  <1>1. [step |-> "idle"] \in Panel
    BY DEF Panel
  <1> QED BY <1>1 DEF PanelTo, InvitationsIInv, Types

\* The abstract life, of what is shown.
Seen == INSTANCE InvitationAbstract WITH Ids <- InvitationIds, status <- Shown

LEMMA ResendSteps ==
    ASSUME InvitationsIInv, NEW p \in Panels, Resend(p)
    PROVE  InvitationsIInv' /\ (Shown' = Shown \/ Seen!LifeNext)
  <1>1. /\ panel[p].step = "resend" /\ PanelTo(p, [step |-> "idle"])
        /\ UNCHANGED <<day, joined, joiner, joinEvents>>
    BY DEF Resend
  <1>2. PICK i \in panel[p].found :
          /\ invitation' = [invitation EXCEPT ![i].expires = day + InvitationTtl,
                                              ![i].email = IF EmailAfter = panel[p].email THEN @ ELSE EmailAfter]
          /\ Queue(i)
    BY DEF Resend
  <1>3. i \in InvitationIds /\ invitation[i].made
    BY <1>1 DEF InvitationsIInv, Types, Panel, AboutMade
  <1>4. invitation[i] \in Made /\ EmailAfter \in EmailStatuses /\ day \in Nat
        /\ day + InvitationTtl \in Nat /\ day + InvitationTtl > day
    BY <1>3, InvitationRowFacts, InvitationsAssumption DEF InvitationsIInv, Types, EmailAfter, EmailStatuses
  <1> DEFINE later == [invitation[i] EXCEPT !.expires = day + InvitationTtl]
             row == [later EXCEPT !.email = IF EmailAfter = panel[p].email THEN later.email ELSE EmailAfter]
  <1>5. invitation' = [invitation EXCEPT ![i] = row]
    BY <1>2, <1>3 DEF InvitationsIInv, Types
  <1>6. /\ later \in Made /\ later.expires = day + InvitationTtl
        /\ later.accepted = invitation[i].accepted /\ later.revoked = invitation[i].revoked
    BY <1>4 DEF Made
  <1> HIDE DEF later
  <1>7. /\ row \in Made /\ row.expires = day + InvitationTtl /\ row.made
        /\ row.accepted = invitation[i].accepted /\ row.revoked = invitation[i].revoked
    BY <1>4, <1>6 DEF Made
  <1> HIDE DEF row
  <1>8. /\ invitation' \in [InvitationIds -> InvitationRows] /\ invitation'[i] = row
        /\ \A j \in InvitationIds : j # i => invitation'[j] = invitation[j]
    BY <1>3, <1>5, <1>7 DEF InvitationsIInv, Types, InvitationRows
  <1>9. Types'
    BY <1>1, <1>2, <1>3, <1>8, QueueFacts, PanelEnds DEF InvitationsIInv, Types
  <1>10. OneOpen' /\ JoinedOnce'
    BY <1>1, <1>3, <1>7, <1>8 DEF InvitationsIInv, OneOpen, OpenRows, JoinedOnce
  <1>11. AboutMade'
    BY <1>1, <1>2, <1>3, <1>7, <1>8, QueueFacts, PanelEnds, AboutKeeps
  <1>12. Shown' = Shown \/ Seen!Renew(i)
    <2>1. Shown' = [j \in InvitationIds |-> IF j = i THEN StatusAt(row, day) ELSE Shown[j]]
      BY <1>1, <1>8 DEF Shown
    <2>2. /\ Shown[i] \in {"accepted", "revoked", "expired", "pending"}
          /\ Shown[i] \in {"accepted", "revoked"} => StatusAt(row, day) = Shown[i]
          /\ Shown[i] \in {"expired", "pending"} => StatusAt(row, day) = "pending"
      BY <1>3, <1>4, <1>7 DEF Shown, StatusAt
    <2>3. CASE Shown[i] = "expired"
      BY <1>3, <2>1, <2>2, <2>3 DEF Seen!Renew, Shown
    <2>4. CASE Shown[i] # "expired"
      BY <1>3, <2>1, <2>2, <2>4 DEF Shown
    <2> QED BY <2>3, <2>4
  <1> QED BY <1>3, <1>9, <1>10, <1>11, <1>12 DEF InvitationsIInv, Seen!LifeNext

LEMMA RevokeSteps ==
    ASSUME InvitationsIInv, NEW p \in Panels, RevokeInvitation(p)
    PROVE  InvitationsIInv' /\ (Shown' = Shown \/ Seen!LifeNext)
  <1>1. /\ panel[p].step = "revoke" /\ PanelTo(p, [step |-> "idle"])
        /\ UNCHANGED <<day, joined, joiner, mailJob, joinEvents>>
    BY DEF RevokeInvitation
  <1>2. PICK i \in panel[p].found : invitation' = [invitation EXCEPT ![i].revoked = TRUE]
    BY DEF RevokeInvitation
  <1>3. i \in InvitationIds /\ invitation[i].made
    BY <1>1 DEF InvitationsIInv, Types, Panel, AboutMade
  <1>4. invitation[i] \in Made
    BY <1>3, InvitationRowFacts DEF InvitationsIInv, Types
  <1> DEFINE row == [invitation[i] EXCEPT !.revoked = TRUE]
  <1>5. invitation' = [invitation EXCEPT ![i] = row]
    BY <1>2, <1>3 DEF InvitationsIInv, Types
  <1>6. /\ row \in Made /\ row.made /\ row.revoked
        /\ row.accepted = invitation[i].accepted
    BY <1>4 DEF Made
  <1> HIDE DEF row
  <1>7. /\ invitation' \in [InvitationIds -> InvitationRows] /\ invitation'[i] = row
        /\ \A j \in InvitationIds : j # i => invitation'[j] = invitation[j]
    BY <1>3, <1>5, <1>6 DEF InvitationsIInv, Types, InvitationRows
  <1>8. Types'
    BY <1>1, <1>7, PanelEnds DEF InvitationsIInv, Types
  <1>9. OneOpen' /\ JoinedOnce'
    BY <1>1, <1>3, <1>6, <1>7 DEF InvitationsIInv, OneOpen, OpenRows, JoinedOnce
  <1>10. AboutMade'
    BY <1>1, <1>3, <1>6, <1>7, PanelEnds, AboutKeeps
  <1>11. Shown' = Shown \/ Seen!Revoke(i)
    <2>1. Shown' = [j \in InvitationIds |-> IF j = i THEN StatusAt(row, day) ELSE Shown[j]]
      BY <1>1, <1>7 DEF Shown
    <2>2. /\ Shown[i] \in {"accepted", "revoked", "expired", "pending"}
          /\ Shown[i] = "accepted" => StatusAt(row, day) = "accepted"
          /\ Shown[i] # "accepted" => StatusAt(row, day) = "revoked"
      BY <1>3, <1>4, <1>6 DEF Shown, StatusAt
    <2>3. CASE Shown[i] \in {"expired", "pending"}
      BY <1>3, <2>1, <2>2, <2>3 DEF Seen!Revoke, Shown
    <2>4. CASE Shown[i] \notin {"expired", "pending"}
      BY <1>3, <2>1, <2>2, <2>4 DEF Shown
    <2> QED BY <2>3, <2>4
  <1> QED BY <1>3, <1>8, <1>9, <1>10, <1>11 DEF InvitationsIInv, Seen!LifeNext

LEMMA PassSteps ==
    ASSUME InvitationsIInv, PassDay
    PROVE  InvitationsIInv' /\ Seen!LifeNext
  <1>1. day' = day + 1 /\ UNCHANGED <<invitation, joined, panel, joiner, mailJob, joinEvents>>
    BY DEF PassDay
  <1>2. InvitationsIInv'
    BY <1>1 DEF InvitationsIInv, Types, OneOpen, OpenRows, AboutMade, JoinedOnce
  <1> DEFINE lapsed == {i \in InvitationIds : Shown[i] = "pending" /\ Shown'[i] = "expired"}
  <1>3. \A i \in InvitationIds : Shown'[i] = IF i \in lapsed THEN "expired" ELSE Shown[i]
    <2> SUFFICES ASSUME NEW i \in InvitationIds
                 PROVE  Shown'[i] = Shown[i] \/ (Shown[i] = "pending" /\ Shown'[i] = "expired")
      OBVIOUS
    <2>1. invitation[i].expires \in Nat /\ day \in Nat
      BY InvitationRowFacts DEF InvitationsIInv, Types
    <2>2. Shown[i] = StatusAt(invitation[i], day) /\ Shown'[i] = StatusAt(invitation[i], day + 1)
      BY <1>1 DEF Shown
    <2> QED BY <2>1, <2>2 DEF StatusAt
  <1>4. Shown' = [i \in InvitationIds |-> IF i \in lapsed THEN "expired" ELSE Shown[i]]
    BY <1>3 DEF Shown
  <1>5. lapsed \in SUBSET {i \in InvitationIds : Shown[i] = "pending"}
    OBVIOUS
  <1> HIDE DEF lapsed
  <1>6. Seen!Expire
    BY <1>4, <1>5 DEF Seen!Expire
  <1> QED BY <1>2, <1>6 DEF Seen!LifeNext

\* A new invitation takes the place of the one that was open, if any; the unique index refuses it
\* when another has come meanwhile.
LEMMA InsertSteps ==
    ASSUME InvitationsIInv, NEW p \in Panels, Insert(p)
    PROVE  InvitationsIInv' /\ (Shown' = Shown \/ Seen!LifeNext)
  <1> DEFINE found == panel[p].found
  <1>1. /\ panel[p].step = "insert" /\ PanelTo(p, [step |-> "idle"])
        /\ UNCHANGED <<day, joined, joiner, joinEvents>>
    BY DEF Insert
  <1>2. CASE OpenRows \ found # {}
    <2>1. UNCHANGED <<invitation, mailJob>>
      BY <1>2 DEF Insert
    <2>2. Types' /\ OneOpen' /\ JoinedOnce' /\ Shown' = Shown
      BY <1>1, <2>1, PanelEnds DEF InvitationsIInv, Types, OneOpen, OpenRows, JoinedOnce, Shown
    <2>3. AboutMade'
      BY <2>1, <1>1, PanelEnds DEF InvitationsIInv, AboutMade
    <2> QED BY <2>2, <2>3 DEF InvitationsIInv
  <1>3. CASE OpenRows \subseteq found
    <2> DEFINE new == [made |-> TRUE, expires |-> day + InvitationTtl, accepted |-> FALSE, revoked |-> FALSE,
                       email |-> EmailAfter]
               Row(j) == IF j \in found THEN [invitation[j] EXCEPT !.revoked = TRUE] ELSE invitation[j]
    <2>1. PICK i \in InvitationIds :
            /\ ~invitation[i].made
            /\ invitation' = [j \in InvitationIds |-> IF j = i THEN new ELSE Row(j)]
            /\ Queue(i)
      <3>1. OpenRows \ found = {}
        BY <1>3
      <3> QED BY <3>1 DEF Insert
    <2>2. /\ new \in Made /\ new.made /\ ~new.accepted /\ ~new.revoked
          /\ StatusAt(new, day) = "pending"
      BY InvitationsAssumption DEF InvitationsIInv, Types, Made, EmailAfter, EmailStatuses, StatusAt
    <2>3. ASSUME NEW j \in InvitationIds
          PROVE  /\ Row(j) \in InvitationRows /\ (invitation[j].made => Row(j).made)
                 /\ Row(j).accepted = invitation[j].accepted
                 /\ j \notin OpenRows => StatusAt(Row(j), day) = Shown[j] /\ (~Row(j).made \/ Row(j).accepted \/ Row(j).revoked)
                 /\ j \in OpenRows => /\ StatusAt(Row(j), day) = "revoked" /\ Shown[j] \in {"pending", "expired"}
                                      /\ Row(j).revoked
      <3>1. invitation[j] \in InvitationRows
        BY DEF InvitationsIInv, Types
      <3>2. CASE j \in found
        <4>1. invitation[j] \in Made
          BY <1>1, <3>1, <3>2, InvitationRowFacts DEF InvitationsIInv, AboutMade
        <4>2. Row(j) = [invitation[j] EXCEPT !.revoked = TRUE]
          BY <3>2
        <4> HIDE DEF Row
        <4>3. /\ Row(j) \in Made /\ Row(j).made /\ Row(j).revoked /\ Row(j).accepted = invitation[j].accepted
              /\ invitation[j].made
          BY <4>1, <4>2 DEF Made
        <4> QED BY <3>1, <4>3, InvitationRowFacts DEF InvitationRows, OpenRows, StatusAt, Shown
      <3>3. CASE j \notin found
        <4>1. Row(j) = invitation[j] /\ j \notin OpenRows
          BY <1>3, <3>3
        <4> HIDE DEF Row
        <4> QED BY <3>1, <4>1, InvitationRowFacts DEF OpenRows, StatusAt, Shown
      <3> QED BY <3>2, <3>3
    <2> HIDE DEF new, Row
    <2>4. /\ invitation' \in [InvitationIds -> InvitationRows] /\ invitation'[i] = new
          /\ \A j \in InvitationIds : j # i => invitation'[j] = Row(j)
      BY <2>1, <2>2, <2>3 DEF InvitationRows
    <2>5. i \notin OpenRows /\ Shown[i] = "none" /\ ~invitation[i].accepted
      BY <2>1, InvitationRowFacts DEF OpenRows, Shown, StatusAt, InvitationsIInv, Types
    <2>6. Types'
      BY <1>1, <2>1, <2>4, QueueFacts, PanelEnds DEF InvitationsIInv, Types
    <2>7. OneOpen'
      <3>1. \A j \in InvitationIds : j # i => ~(invitation'[j].made /\ ~invitation'[j].accepted /\ ~invitation'[j].revoked)
        BY <2>3, <2>4
      <3> QED BY <3>1 DEF OneOpen, OpenRows
    <2>8. JoinedOnce'
      <3>1. \A j \in InvitationIds : invitation'[j].accepted = invitation[j].accepted
        BY <2>2, <2>3, <2>4, <2>5, InvitationRowFacts DEF InvitationsIInv, Types
      <3> QED BY <1>1, <3>1 DEF InvitationsIInv, JoinedOnce
    <2>9. AboutMade'
      BY <1>1, <2>1, <2>2, <2>3, <2>4, QueueFacts, PanelEnds, AboutKeeps
    <2>10. Shown' = [j \in InvitationIds |-> IF j = i THEN "pending" ELSE IF j \in OpenRows THEN "revoked" ELSE Shown[j]]
      BY <1>1, <2>2, <2>3, <2>4 DEF Shown
    <2>11. CASE OpenRows = {}
      <3>1. Seen!Open(i)
        BY <2>5, <2>10, <2>11 DEF Seen!Open, Shown
      <3> QED BY <2>6, <2>7, <2>8, <2>9, <3>1 DEF InvitationsIInv, Seen!LifeNext
    <2>12. ASSUME NEW k \in OpenRows PROVE Seen!Replace(k, i) /\ k \in InvitationIds
      <3>1. k \in InvitationIds /\ k # i /\ \A j \in OpenRows : j = k
        BY <2>5 DEF OpenRows, InvitationsIInv, OneOpen
      <3>2. Shown[k] \in {"pending", "expired"}
        BY <2>3, <3>1
      <3>3. Shown' = [j \in InvitationIds |-> IF j = i THEN "pending" ELSE IF j = k THEN "revoked" ELSE Shown[j]]
        BY <2>10, <2>12, <3>1
      <3> QED BY <2>5, <3>1, <3>2, <3>3 DEF Seen!Replace, Shown
    <2> QED BY <2>6, <2>7, <2>8, <2>9, <2>11, <2>12 DEF InvitationsIInv, Seen!LifeNext
  <1> QED BY <1>2, <1>3

LEMMA AcceptSteps ==
    ASSUME InvitationsIInv, NEW j \in Joiners, AcceptInvitations(j)
    PROVE  InvitationsIInv' /\ (Shown' = Shown \/ Seen!LifeNext)
  <1> DEFINE still == {i \in joiner[j].found : Acceptable(i, joiner[j].at)}
             Row(i) == IF i \in still THEN [invitation[i] EXCEPT !.accepted = TRUE] ELSE invitation[i]
  <1>1. /\ joiner' = [joiner EXCEPT ![j] = [step |-> "done"]]
        /\ invitation' = [i \in InvitationIds |-> Row(i)]
        /\ joinEvents' = [i \in InvitationIds |-> IF i \in still THEN joinEvents[i] + 1 ELSE joinEvents[i]]
        /\ UNCHANGED <<day, panel, mailJob>>
    BY DEF AcceptInvitations
  <1>2. still \subseteq OpenRows /\ OpenRows \subseteq InvitationIds
    BY DEF Acceptable, OpenRows
  <1>3. ASSUME NEW i \in InvitationIds
        PROVE  /\ Row(i) \in InvitationRows /\ (Row(i).made <=> invitation[i].made)
               /\ i \notin still => Row(i) = invitation[i]
               /\ i \in still => /\ Row(i).accepted /\ ~invitation[i].accepted /\ StatusAt(Row(i), day) = "accepted"
                                 /\ Shown[i] \in {"pending", "expired"}
    <2>1. CASE i \in still
      <3>1. invitation[i] \in Made /\ invitation[i].made /\ ~invitation[i].accepted /\ ~invitation[i].revoked
        BY <1>2, <2>1, InvitationRowFacts DEF OpenRows, InvitationsIInv, Types
      <3>2. Row(i) = [invitation[i] EXCEPT !.accepted = TRUE]
        BY <2>1
      <3> HIDE DEF Row
      <3>3. Row(i) \in Made /\ Row(i).made /\ Row(i).accepted
        BY <3>1, <3>2 DEF Made
      <3> QED BY <2>1, <3>1, <3>3 DEF InvitationRows, StatusAt, Shown
    <2>2. CASE i \notin still
      BY <2>2 DEF InvitationsIInv, Types
    <2> QED BY <2>1, <2>2
  <1> HIDE DEF Row, still
  <1>4. joiner' \in [Joiners -> Joiner]
    <2>1. [step |-> "done"] \in Joiner
      BY DEF Joiner
    <2> QED BY <1>1, <2>1 DEF InvitationsIInv, Types
  <1>5. Types'
    BY <1>1, <1>3, <1>4 DEF InvitationsIInv, Types
  <1>6. OneOpen'
    BY <1>1, <1>3 DEF InvitationsIInv, OneOpen, OpenRows
  <1>7. AboutMade'
    <2>1. \A p \in Panels : panel[p].step \in {"insert", "resend", "revoke"} =>
              \A i \in panel[p].found : i \in InvitationIds
      BY DEF InvitationsIInv, Types, Panel
    <2>2. \A n \in MailJobs : mailJob[n].step \in {"queued", "sending", "sent", "failed"} =>
              mailJob[n].about \in InvitationIds
      BY DEF InvitationsIInv, Types, Job
    <2> QED BY <1>1, <1>3, <2>1, <2>2 DEF InvitationsIInv, AboutMade
  <1>8. JoinedOnce'
    <2> SUFFICES ASSUME NEW i \in InvitationIds
                 PROVE  joinEvents'[i] = IF invitation'[i].accepted THEN 1 ELSE 0
      BY DEF JoinedOnce
    <2>1. CASE i \in still
      <3>1. joinEvents[i] = 0
        BY <1>3, <2>1 DEF InvitationsIInv, JoinedOnce
      <3> QED BY <1>1, <1>3, <2>1, <3>1
    <2>2. CASE i \notin still
      BY <1>1, <1>3, <2>2 DEF InvitationsIInv, JoinedOnce
    <2> QED BY <2>1, <2>2
  <1>9. Shown' = [i \in InvitationIds |-> IF i \in still THEN "accepted" ELSE Shown[i]]
    BY <1>1, <1>3 DEF Shown
  <1>10. CASE still = {}
    BY <1>5, <1>6, <1>7, <1>8, <1>9, <1>10 DEF InvitationsIInv, Shown
  <1>11. ASSUME NEW k \in still PROVE Seen!Accept(k) /\ k \in InvitationIds
    <2>1. k \in InvitationIds /\ \A i \in still : i = k
      BY <1>2 DEF InvitationsIInv, OneOpen
    <2>2. Shown' = [i \in InvitationIds |-> IF i = k THEN "accepted" ELSE Shown[i]]
      BY <1>9, <1>11, <2>1
    <2> QED BY <1>3, <2>1, <2>2 DEF Seen!Accept, Shown
  <1> QED BY <1>5, <1>6, <1>7, <1>8, <1>10, <1>11 DEF InvitationsIInv, Seen!LifeNext

-----------------------------------------------------------------------------
(* The theorems *)

LEMMA StepsHold ==
    ASSUME InvitationsIInv, [InvitationsNext]_invitationVars
    PROVE  InvitationsIInv' /\ (Shown' = Shown \/ Seen!LifeNext)
  <1>1. CASE \E p \in Panels : ReadMembership(p) \/ ReadOpen(p) \/ ReadInvitation(p)
    BY <1>1, ReadSteps
  <1>2. CASE \E p \in Panels : Insert(p)
    BY <1>2, InsertSteps
  <1>3. CASE \E p \in Panels : Resend(p)
    BY <1>3, ResendSteps
  <1>4. CASE \E p \in Panels : RevokeInvitation(p)
    BY <1>4, RevokeSteps
  <1>5. CASE \E j \in Joiners : BeginJoin(j) \/ SelectInvitations(j)
    BY <1>5, JoinBegins
  <1>6. CASE \E j \in Joiners : AcceptInvitations(j)
    BY <1>6, AcceptSteps
  <1>7. CASE \E m \in MailJobs : MailStep(m)
    BY <1>7, MailSteps
  <1>8. CASE PassDay
    BY <1>8, PassSteps
  <1>9. CASE UNCHANGED invitationVars
    BY <1>9 DEF invitationVars, InvitationsIInv, Types, OneOpen, OpenRows, AboutMade, JoinedOnce, Shown
  <1> QED BY <1>1, <1>2, <1>3, <1>4, <1>5, <1>6, <1>7, <1>8, <1>9 DEF InvitationsNext

\* Safety needs no fairness.
LEMMA IInvHolds == InvitationsInit /\ [][InvitationsNext]_invitationVars => []InvitationsIInv
  <1>1. InvitationsIInv /\ [InvitationsNext]_invitationVars => InvitationsIInv'
    BY StepsHold
  <1> QED BY InitHolds, <1>1, PTL

\* What is shown is the status the abstract life is about.
LEMMA ShownFact == Types => Shown = [i \in InvitationIds |-> StatusOf(invitation[i])]
  BY StatusFact DEF Shown, Types

\* Whatever admins, sign-ins, mail jobs and clocks do between each other's statements, the status
\* of an invitation goes through its life: accepted and revoked are for good, and never both
\* (services/admin/invitations.py, class Status; migration 0006).
THEOREM LifecycleTheorem == InvitationsSpec => StatusIsLifecycle
  <1>1. InvitationsInit => Lifecycle!LifeInit
    <2> SUFFICES ASSUME InvitationsInit PROVE Lifecycle!LifeInit
      OBVIOUS
    <2> QED BY InitHolds, ShownFact DEF Lifecycle!LifeInit, InvitationsIInv
  <1>2. InvitationsIInv /\ [InvitationsNext]_invitationVars
            => [Lifecycle!LifeNext]_([i \in InvitationIds |-> StatusOf(invitation[i])])
    <2> SUFFICES ASSUME InvitationsIInv, [InvitationsNext]_invitationVars
                 PROVE  [Lifecycle!LifeNext]_([i \in InvitationIds |-> StatusOf(invitation[i])])
      OBVIOUS
    <2> DEFINE status == [i \in InvitationIds |-> StatusOf(invitation[i])]
    <2>1. InvitationsIInv' /\ (Shown' = Shown \/ Seen!LifeNext)
      BY StepsHold
    <2>2. Shown = status
      BY ShownFact DEF InvitationsIInv
    <2>3. Shown' = status'
      <3>1. (Types => Shown = status)'
        BY ShownFact, PTL
      <3> QED BY <2>1, <3>1 DEF InvitationsIInv
    <2>4. Shown' = Shown => status' = status
      BY <2>2, <2>3
    <2>5. Seen!LifeNext => Lifecycle!LifeNext
      BY <2>2, <2>3
         DEF Seen!LifeNext, Seen!Open, Seen!Accept, Seen!Revoke, Seen!Renew, Seen!Replace, Seen!Expire,
             Lifecycle!LifeNext, Lifecycle!Open, Lifecycle!Accept, Lifecycle!Revoke, Lifecycle!Renew,
             Lifecycle!Replace, Lifecycle!Expire
    <2> QED BY <2>1, <2>4, <2>5
  <1> QED BY IInvHolds, <1>1, <1>2, PTL DEF InvitationsSpec, StatusIsLifecycle, Lifecycle!Life

\* However many sign-ins and calls of /me overlap, an invitation is joined once: one member.joined
\* event for each that is accepted (migration 0006, tabayyun_accept_invitations).
THEOREM JoinedTheorem == InvitationsSpec => []JoinedOnce
  <1>1. InvitationsIInv => JoinedOnce
    BY DEF InvitationsIInv
  <1> QED BY IInvHolds, <1>1, PTL DEF InvitationsSpec

-----------------------------------------------------------------------------
(* Sessions: what a callback and a visit can be *)

Away   == [step : {"idle", "done", "failed"}]
Taken  == [step : {"taken"}, method : SignInMethods]
Proven == [step : {"proven"}, method : SignInMethods, claims : Claims]
Login  == [step : {"login"}, method : SignInMethods, claims : Claims, at : Moments]
Visit  == [step : {"idle"}] \union [step : {"found", "served"}, session : SessionRow, at : Moments]

-----------------------------------------------------------------------------
(* The inductive invariant *)

\* A session is the one of a callback that is through.
OnePerCallback ==
    /\ \A s, t \in authSessions : s.id = t.id => s = t
    /\ \A s \in authSessions : callback[s.id].step = "done"

\* A flow that is stored has been taken by nobody.
FlowsWait == \A r \in loginFlows, p \in taken : r.id # p[2]

\* A sign-in began before now; one that knows a session of the provider that has ended missed that.
LoginsBegan == \A c \in Callbacks : callback[c].step = "login" => callback[c].at <= time
Told ==
    \A c \in Callbacks :
        callback[c].step \in {"proven", "login"} /\ callback[c].claims.sid \in endedAtIdp => c \in missed

\* Requests are served with sessions of callbacks that are through.
ServedAfter ==
    /\ \A v \in Visits : visit[v].step # "idle" => callback[visit[v].session.id].step = "done"
    /\ \A c \in Callbacks : served[c] # 0 => callback[c].step = "done"

SessionsIInv ==
    /\ SessionsTypeOK /\ OnePerCallback /\ FlowsWait /\ LoginsBegan /\ Told /\ ServedAfter
    /\ FlowsAreSingleUse /\ UseKeepsAlive /\ IdentityKeepsUser /\ LogoutAtIdpEnds

LEMMA TypeFacts ==
    ASSUME SessionsIInv
    PROVE  /\ time \in Nat /\ time \in Moments /\ loginFlows \subseteq FlowRow /\ authSessions \subseteq SessionRow
           /\ callback \in [Callbacks -> Away \union Taken \union Proven \union Login]
           /\ links \subseteq Subjects \X Accounts /\ visit \in [Visits -> Visit] /\ disabled \subseteq Accounts
           /\ taken \subseteq Callbacks \X LoginFlows /\ endedAtIdp \subseteq IdpSessions /\ missed \subseteq Callbacks
           /\ served \in [Callbacks -> Moments]
  BY SessionsAssumption DEF SessionsIInv, SessionsTypeOK, Moments, Away, Taken, Proven, Login, Visit

LEMMA TypesFrom ==
    ASSUME time \in Moments, loginFlows \subseteq FlowRow, authSessions \subseteq SessionRow,
           callback \in [Callbacks -> Away \union Taken \union Proven \union Login],
           links \subseteq Subjects \X Accounts, visit \in [Visits -> Visit], disabled \subseteq Accounts,
           taken \subseteq Callbacks \X LoginFlows, endedAtIdp \subseteq IdpSessions, missed \subseteq Callbacks,
           served \in [Callbacks -> Moments]
    PROVE  SessionsTypeOK
  BY DEF SessionsTypeOK, Away, Taken, Proven, Login, Visit

LEMMA SessionsInitHolds == SessionsInit => SessionsIInv
  <1> SUFFICES ASSUME SessionsInit PROVE SessionsIInv
    OBVIOUS
  <1>1. SessionsTypeOK
    BY SessionsAssumption DEF SessionsInit, SessionsTypeOK, Moments
  <1> QED BY <1>1 DEF SessionsInit, SessionsIInv, OnePerCallback, FlowsWait, LoginsBegan, Told, ServedAfter,
                     FlowsAreSingleUse, UseKeepsAlive, IdentityKeepsUser, LogoutAtIdpEnds

-----------------------------------------------------------------------------
(* Steps that leave the sessions alone *)

LEMMA FlowSteps ==
    ASSUME SessionsIInv, NEW f \in LoginFlows, StartLogin(f) \/ \E c \in Callbacks : TakeFlow(c, f)
    PROVE  SessionsIInv' /\ UNCHANGED <<authSessions, disabled>>
  <1>1. CASE StartLogin(f)
    <2>1. PICK m \in SignInMethods :
             loginFlows' = {r \in loginFlows : r.at + FlowTtl >= time} \union {[id |-> f, method |-> m, at |-> time]}
      BY <1>1 DEF StartLogin
    <2>2. /\ f \notin {p[2] : p \in taken}
          /\ UNCHANGED <<time, callback, links, authSessions, visit, disabled, taken, endedAtIdp, missed, served>>
      BY <1>1 DEF StartLogin
    <2>3. [id |-> f, method |-> m, at |-> time] \in FlowRow
      BY TypeFacts DEF FlowRow
    <2>4. SessionsTypeOK'
      BY <2>1, <2>2, <2>3 DEF SessionsIInv, SessionsTypeOK
    <2>5. FlowsWait'
      BY <2>1, <2>2 DEF SessionsIInv, FlowsWait
    <2> QED BY <2>2, <2>4, <2>5 DEF SessionsIInv, OnePerCallback, LoginsBegan, Told, ServedAfter,
                     FlowsAreSingleUse, UseKeepsAlive, IdentityKeepsUser, LogoutAtIdpEnds
  <1>2. ASSUME NEW c \in Callbacks, TakeFlow(c, f) PROVE SessionsIInv' /\ UNCHANGED <<authSessions, disabled>>
    <2> DEFINE row == {r \in loginFlows : r.id = f}
    <2>1. /\ callback[c].step = "idle" /\ loginFlows' = loginFlows \ row
          /\ UNCHANGED <<time, links, authSessions, visit, disabled, endedAtIdp, missed, served>>
      BY <1>2 DEF TakeFlow
    <2>2. \/ /\ taken' = taken
             /\ callback' = [callback EXCEPT ![c].step = "failed"]
          \/ \E r \in row : /\ taken' = taken \union {<<c, f>>}
                            /\ callback' = [callback EXCEPT ![c] = [step |-> "taken", method |-> r.method]]
      BY <1>2 DEF TakeFlow
    <2>3. /\ callback' \in [Callbacks -> Away \union Taken \union Proven \union Login]
          /\ \A d \in Callbacks : d # c => callback'[d] = callback[d]
          /\ callback'[c].step \in {"failed", "taken"}
      <3>1. CASE callback' = [callback EXCEPT ![c].step = "failed"]
        BY <2>1, <3>1, TypeFacts DEF Away, Taken, Proven, Login
      <3>2. ASSUME NEW r \in row, callback' = [callback EXCEPT ![c] = [step |-> "taken", method |-> r.method]]
            PROVE  /\ callback' \in [Callbacks -> Away \union Taken \union Proven \union Login]
                   /\ \A d \in Callbacks : d # c => callback'[d] = callback[d]
                   /\ callback'[c].step \in {"failed", "taken"}
        <4>1. r.method \in SignInMethods
          BY TypeFacts DEF FlowRow
        <4> QED BY <3>2, <4>1, TypeFacts DEF Taken
      <3> QED BY <2>2, <3>1, <3>2
    <2>4. /\ taken' = taken \/ (taken' = taken \union {<<c, f>>} /\ \E r \in row : TRUE)
          /\ taken' \subseteq Callbacks \X LoginFlows
      BY <2>2, TypeFacts
    <2>5. SessionsTypeOK'
      BY <2>1, <2>3, <2>4 DEF SessionsIInv, SessionsTypeOK, Away, Taken, Proven, Login
    <2>6. FlowsAreSingleUse'
      <3>1. CASE taken' = taken
        BY <3>1 DEF SessionsIInv, FlowsAreSingleUse
      <3>2. CASE taken' = taken \union {<<c, f>>} /\ \E r \in row : TRUE
        <4>1. \A p \in taken : p[2] # f
          BY <3>2 DEF SessionsIInv, FlowsWait
        <4> QED BY <3>2, <4>1 DEF SessionsIInv, FlowsAreSingleUse
      <3> QED BY <2>4, <3>1, <3>2
    <2>7. FlowsWait'
      BY <2>1, <2>4 DEF SessionsIInv, FlowsWait
    <2>8. OnePerCallback' /\ ServedAfter'
      <3>1. \A d \in Callbacks : callback[d].step = "done" => callback'[d].step = "done"
        BY <2>1, <2>3
      <3>2. \A s \in authSessions : s.id \in Callbacks
        BY TypeFacts DEF SessionRow
      <3>3. \A v \in Visits : visit[v].step # "idle" => visit[v].session.id \in Callbacks
        BY TypeFacts DEF Visit, SessionRow
      <3> QED BY <2>1, <3>1, <3>2, <3>3 DEF SessionsIInv, OnePerCallback, ServedAfter
    <2>9. LoginsBegan' /\ Told'
      BY <2>1, <2>3 DEF SessionsIInv, LoginsBegan, Told
    <2> QED BY <2>1, <2>5, <2>6, <2>7, <2>8, <2>9
            DEF SessionsIInv, UseKeepsAlive, IdentityKeepsUser, LogoutAtIdpEnds
  <1> QED BY <1>1, <1>2

\* A callback goes on to a step before its end.
LEMMA CallbackGoes ==
    ASSUME SessionsIInv, NEW c \in Callbacks, callback[c].step # "done",
           NEW x \in Away \union Taken \union Proven \union Login, callback' = [callback EXCEPT ![c] = x],
           x.step = "login" => x.at <= time,
           x.step \in {"proven", "login"} /\ x.claims.sid \in endedAtIdp => c \in missed,
           UNCHANGED <<time, loginFlows, links, authSessions, visit, disabled, taken, endedAtIdp, missed, served>>
    PROVE  SessionsIInv'
  <1>1. /\ callback' \in [Callbacks -> Away \union Taken \union Proven \union Login]
        /\ callback'[c] = x
        /\ \A d \in Callbacks : d # c => callback'[d] = callback[d]
    BY TypeFacts
  <1>2. SessionsTypeOK'
    BY <1>1 DEF SessionsIInv, SessionsTypeOK, Away, Taken, Proven, Login
  <1>3. OnePerCallback' /\ ServedAfter'
    <2>1. \A d \in Callbacks : callback[d].step = "done" => callback'[d].step = "done"
      BY <1>1
    <2>2. \A s \in authSessions : s.id \in Callbacks
      BY TypeFacts DEF SessionRow
    <2>3. \A v \in Visits : visit[v].step # "idle" => visit[v].session.id \in Callbacks
      BY TypeFacts DEF Visit, SessionRow
    <2> QED BY <2>1, <2>2, <2>3 DEF SessionsIInv, OnePerCallback, ServedAfter
  <1>4. LoginsBegan' /\ Told'
    BY <1>1 DEF SessionsIInv, LoginsBegan, Told
  <1> QED BY <1>2, <1>3, <1>4
          DEF SessionsIInv, FlowsWait, FlowsAreSingleUse, UseKeepsAlive, IdentityKeepsUser, LogoutAtIdpEnds

LEMMA CallbackSteps ==
    ASSUME SessionsIInv, NEW c \in Callbacks, Exchange(c) \/ BeginLogin(c)
    PROVE  SessionsIInv' /\ UNCHANGED <<authSessions, disabled>>
  <1>1. UNCHANGED <<time, loginFlows, links, authSessions, visit, disabled, taken, endedAtIdp, missed, served>>
    BY DEF Exchange, BeginLogin
  <1>2. CASE Exchange(c)
    <2>1. callback[c] \in Taken
      BY <1>2, TypeFacts DEF Exchange, Away, Taken, Proven, Login
    <2>2. CASE callback' = [callback EXCEPT ![c] = [step |-> "failed"]]
      <3>1. [step |-> "failed"] \in Away
        BY DEF Away
      <3> QED BY <1>1, <2>1, <2>2, <3>1, CallbackGoes DEF Taken
    <2>3. ASSUME NEW sid \in IdpSessions \ endedAtIdp, NEW email \in Accounts,
                 callback' = [callback EXCEPT ![c] = [step |-> "proven", method |-> callback[c].method,
                                                      claims |-> [sid |-> sid, email |-> email]]]
          PROVE  SessionsIInv'
      <3> DEFINE x == [step |-> "proven", method |-> callback[c].method, claims |-> [sid |-> sid, email |-> email]]
      <3>1. x \in Proven
        BY <2>1 DEF Proven, Taken, Claims
      <3> QED BY <1>1, <2>1, <2>3, <3>1, CallbackGoes DEF Taken
    <2> QED BY <1>1, <1>2, <2>2, <2>3 DEF Exchange
  <1>3. CASE BeginLogin(c)
    <2>1. callback[c] \in Proven
      BY <1>3, TypeFacts DEF BeginLogin, Away, Taken, Proven, Login
    <2> DEFINE x == [step |-> "login", method |-> callback[c].method, claims |-> callback[c].claims, at |-> time]
    <2>2. x \in Login /\ x.at <= time
      BY <2>1, TypeFacts DEF Proven, Login
    <2>3. x.claims.sid \in endedAtIdp => c \in missed
      BY <2>1 DEF SessionsIInv, Told, Proven
    <2>4. callback' = [callback EXCEPT ![c] = x]
      BY <1>3 DEF BeginLogin
    <2> HIDE DEF x
    <2> QED BY <1>1, <2>1, <2>2, <2>3, <2>4, CallbackGoes DEF Proven
  <1> QED BY <1>2, <1>3

LEMMA OtherSteps ==
    ASSUME SessionsIInv, (\E v \in Visits : Serve(v)) \/ (\E u \in Accounts : Ban(u)) \/ PassTime \/ UNCHANGED sessionVars
    PROVE  SessionsIInv' /\ UNCHANGED authSessions
  <1>1. UNCHANGED <<loginFlows, callback, links, authSessions, taken, endedAtIdp, missed, served>>
    BY DEF Serve, Ban, PassTime, sessionVars
  <1>2. time' \in Moments /\ time <= time'
    BY TypeFacts, SessionsAssumption DEF Serve, Ban, PassTime, sessionVars, Moments
  <1>3. disabled' \subseteq Accounts
    BY TypeFacts DEF Serve, Ban, PassTime, sessionVars
  <1>4. /\ visit' \in [Visits -> Visit]
        /\ \A v \in Visits : visit'[v].step # "idle" => visit'[v] = visit[v]
    BY TypeFacts DEF Serve, Leave, Ban, PassTime, sessionVars, Visit
  <1>5. SessionsTypeOK'
    BY <1>1, <1>2, <1>3, <1>4 DEF SessionsIInv, SessionsTypeOK, Visit
  <1>6. LoginsBegan'
    <2> SUFFICES ASSUME NEW c \in Callbacks, callback[c].step = "login" PROVE callback[c].at <= time'
      BY <1>1 DEF LoginsBegan
    <2>1. callback[c].at <= time
      BY DEF SessionsIInv, LoginsBegan
    <2>2. callback[c].at \in Nat /\ time \in Nat /\ time' \in Nat
      BY <1>2, TypeFacts, SessionsAssumption DEF Away, Taken, Proven, Login, Moments
    <2> QED BY <1>2, <2>1, <2>2
  <1>7. ServedAfter'
    BY <1>1, <1>4 DEF SessionsIInv, ServedAfter
  <1> QED BY <1>1, <1>5, <1>6, <1>7 DEF SessionsIInv, OnePerCallback, FlowsWait, Told,
             FlowsAreSingleUse, UseKeepsAlive, IdentityKeepsUser, LogoutAtIdpEnds

-----------------------------------------------------------------------------
(* Steps that change rows of sessions *)

\* A row and what it becomes.
Same(s, t) ==
    /\ t.id = s.id /\ t.user = s.user /\ t.sid = s.sid /\ t.seen >= s.seen
    /\ s.revoked => t.revoked

\* The rows are changed one by one; none is added and none removed.
RowsChange ==
    /\ authSessions' \subseteq SessionRow
    /\ \A s, t \in authSessions' : s.id = t.id => s = t
    /\ \A t \in authSessions' : \E s \in authSessions : Same(s, t)
    /\ \A s \in authSessions : \E t \in authSessions' : t.id = s.id

LEMMA RowFacts ==
    ASSUME NEW s \in SessionRow
    PROVE  /\ s.id \in Callbacks /\ s.user \in Accounts /\ s.sid \in IdpSessions /\ s.method \in SignInMethods
           /\ s.created \in Nat /\ s.seen \in Nat /\ s.seen \in Moments /\ s.revoked \in BOOLEAN
  BY SessionsAssumption DEF SessionRow, Moments

LEMMA RevokingRows ==
    ASSUME SessionsIInv, NEW chosen, authSessions' = Revoking(chosen)
    PROVE  /\ RowsChange
           /\ \A t \in authSessions' : \E s \in authSessions : Same(s, t) /\ t.seen = s.seen /\ (s \in chosen => t.revoked)
  <1> DEFINE Row(s) == IF s \in chosen THEN [s EXCEPT !.revoked = TRUE] ELSE s
  <1>1. ASSUME NEW s \in authSessions
        PROVE  Row(s) \in SessionRow /\ Same(s, Row(s)) /\ Row(s).seen = s.seen /\ (s \in chosen => Row(s).revoked)
    <2>1. s \in SessionRow
      BY TypeFacts
    <2>2. CASE s \in chosen
      <3>1. Row(s) = [s EXCEPT !.revoked = TRUE]
        BY <2>2
      <3> HIDE DEF Row
      <3>2. /\ Row(s) \in SessionRow /\ Row(s).id = s.id /\ Row(s).user = s.user
            /\ Row(s).sid = s.sid /\ Row(s).seen = s.seen /\ Row(s).revoked
        BY <2>1, <3>1 DEF SessionRow
      <3> QED BY <2>1, <3>2, RowFacts DEF Same
    <2>3. CASE s \notin chosen
      <3>1. Row(s) = s
        BY <2>3
      <3> HIDE DEF Row
      <3> QED BY <2>1, <2>3, <3>1, RowFacts DEF Same
    <2> QED BY <2>2, <2>3
  <1>2. /\ \A t \in authSessions' : \E s \in authSessions : t = Row(s)
        /\ \A s \in authSessions : Row(s) \in authSessions'
    BY DEF Revoking
  <1> HIDE DEF Row
  <1>3. \A s, t \in authSessions' : s.id = t.id => s = t
    BY <1>1, <1>2 DEF SessionsIInv, OnePerCallback, Same
  <1>4. authSessions' \subseteq SessionRow
    BY <1>1, <1>2
  <1>5. \A t \in authSessions' : \E s \in authSessions : Same(s, t) /\ t.seen = s.seen /\ (s \in chosen => t.revoked)
    BY <1>1, <1>2
  <1>6. \A s \in authSessions : \E t \in authSessions' : t.id = s.id
    BY <1>1, <1>2 DEF Same
  <1> QED BY <1>3, <1>4, <1>5, <1>6 DEF RowsChange

\* The invariants that rows changed one by one keep.
LEMMA RowsKeep ==
    ASSUME SessionsIInv, RowsChange, UNCHANGED <<time, loginFlows, callback, links, disabled, taken>>
    PROVE  OnePerCallback' /\ FlowsWait' /\ LoginsBegan' /\ FlowsAreSingleUse' /\ IdentityKeepsUser'
  BY DEF SessionsIInv, RowsChange, Same, OnePerCallback, FlowsWait, LoginsBegan, FlowsAreSingleUse, IdentityKeepsUser

\* Sessions are revoked, at the end of a request or not.
LEMMA RevokeKeeps ==
    ASSUME SessionsIInv, NEW chosen, authSessions' = Revoking(chosen), visit' \in [Visits -> Visit],
           \A v \in Visits : visit'[v].step # "idle" => visit'[v] = visit[v],
           UNCHANGED <<time, loginFlows, callback, links, disabled, taken, endedAtIdp, missed, served>>
    PROVE  SessionsIInv'
  <1>1. RowsChange /\ \A t \in authSessions' : \E s \in authSessions : Same(s, t) /\ t.seen = s.seen
    BY RevokingRows
  <1>2. OnePerCallback' /\ FlowsWait' /\ LoginsBegan' /\ FlowsAreSingleUse' /\ IdentityKeepsUser'
    BY <1>1, RowsKeep
  <1>3. SessionsTypeOK'
    BY <1>1 DEF SessionsIInv, SessionsTypeOK, RowsChange, Visit
  <1>4. Told' /\ ServedAfter'
    BY DEF SessionsIInv, Told, ServedAfter
  <1>5. UseKeepsAlive' /\ LogoutAtIdpEnds'
    BY <1>1 DEF SessionsIInv, UseKeepsAlive, LogoutAtIdpEnds, Same
  <1> QED BY <1>2, <1>3, <1>4, <1>5 DEF SessionsIInv

LEMMA FindSteps ==
    ASSUME SessionsIInv, NEW v \in Visits, NEW c \in Callbacks, FindSession(v, c)
    PROVE  SessionsIInv' /\ RowsChange
  <1>1. UNCHANGED <<time, loginFlows, callback, links, disabled, taken, endedAtIdp, missed, served>>
    BY DEF FindSession
  <1>2. PICK s \in authSessions :
            IF s.user \in disabled
            THEN authSessions' = Revoking(OfUser(s.user)) /\ UNCHANGED visit
            ELSE /\ visit' = [visit EXCEPT ![v] = [step |-> "found", session |-> s, at |-> time]]
                 /\ UNCHANGED authSessions
    BY DEF FindSession
  <1>3. CASE s.user \in disabled
    BY <1>1, <1>2, <1>3, RevokeKeeps, RevokingRows, TypeFacts
  <1>4. CASE s.user \notin disabled
    <2>1. s \in SessionRow /\ callback[s.id].step = "done"
      BY TypeFacts DEF SessionsIInv, OnePerCallback
    <2>2. /\ visit' \in [Visits -> Visit] /\ UNCHANGED authSessions
          /\ visit'[v].session = s /\ \A w \in Visits : w # v => visit'[w] = visit[w]
      BY <1>2, <1>4, <2>1, TypeFacts DEF Visit
    <2>3. SessionsTypeOK'
      BY <1>1, <2>2 DEF SessionsIInv, SessionsTypeOK, Visit
    <2>4. ServedAfter'
      BY <1>1, <2>1, <2>2 DEF SessionsIInv, ServedAfter
    <2>5. RowsChange
      <3>1. \A t \in authSessions : Same(t, t)
        BY TypeFacts, RowFacts DEF Same
      <3> QED BY <2>2, <3>1, TypeFacts DEF RowsChange, SessionsIInv, OnePerCallback
    <2> QED BY <1>1, <2>2, <2>3, <2>4, <2>5 DEF SessionsIInv, OnePerCallback, FlowsWait, LoginsBegan, Told,
               FlowsAreSingleUse, UseKeepsAlive, IdentityKeepsUser, LogoutAtIdpEnds
  <1> QED BY <1>3, <1>4

LEMMA RevokeSessionSteps ==
    ASSUME SessionsIInv, NEW v \in Visits, RevokeOthers(v) \/ \E c \in Callbacks : RevokeDevice(v, c)
    PROVE  SessionsIInv' /\ RowsChange
  <1>1. /\ UNCHANGED <<time, loginFlows, callback, links, disabled, taken, endedAtIdp, missed, served>>
        /\ visit' = [visit EXCEPT ![v] = [step |-> "idle"]]
        /\ \E chosen : authSessions' = Revoking(chosen)
    BY DEF RevokeOthers, RevokeDevice, Leave
  <1>2. visit' \in [Visits -> Visit] /\ \A w \in Visits : visit'[w].step # "idle" => visit'[w] = visit[w]
    BY <1>1, TypeFacts DEF Visit
  <1> QED BY <1>1, <1>2, RevokeKeeps, RevokingRows

LEMMA TouchSteps ==
    ASSUME SessionsIInv, NEW v \in Visits, Touch(v)
    PROVE  SessionsIInv' /\ RowsChange
  <1> DEFINE r == visit[v]
             Row(s) == IF s.id = r.session.id THEN Touched(s, r.session, r.at) ELSE s
  <1>1. /\ r.step = "found"
        /\ authSessions' = {Row(s) : s \in authSessions}
        /\ visit' = [visit EXCEPT ![v].step = "served"]
        /\ served' = [served EXCEPT ![r.session.id] = IF r.at > @ THEN r.at ELSE @]
        /\ UNCHANGED <<time, loginFlows, callback, links, disabled, taken, endedAtIdp, missed>>
    BY DEF Touch
  <1>2. r \in [step : {"found"}, session : SessionRow, at : Moments] /\ r.session.id \in Callbacks
        /\ r.at \in Nat /\ callback[r.session.id].step = "done"
    BY <1>1, TypeFacts, RowFacts, SessionsAssumption DEF Visit, Moments, SessionsIInv, ServedAfter
  <1>3. served \in [Callbacks -> Moments] /\ (\A c \in Callbacks : served[c] \in Nat)
    BY TypeFacts, SessionsAssumption DEF Moments
  <1>4. ASSUME NEW s \in authSessions
        PROVE  /\ Row(s) \in SessionRow /\ Same(s, Row(s)) /\ s \in SessionRow /\ Row(s).revoked = s.revoked
               /\ s.id = r.session.id => Row(s).seen + TouchInterval >= r.at
    <2>1. s \in SessionRow
      BY TypeFacts
    <2>2. CASE s.id = r.session.id /\ s.seen + TouchInterval < r.at
      <3>1. Row(s) = [s EXCEPT !.seen = r.at]
        BY <2>2 DEF Touched
      <3> HIDE DEF Row
      <3> QED BY <1>2, <2>1, <2>2, <3>1, RowFacts, SessionsAssumption DEF SessionRow, Same
    <2>3. CASE ~(s.id = r.session.id /\ s.seen + TouchInterval < r.at)
      <3>1. Row(s) = s
        BY <2>3 DEF Touched
      <3> HIDE DEF Row
      <3> QED BY <1>2, <2>1, <2>3, <3>1, RowFacts, SessionsAssumption DEF Same
    <2> QED BY <2>2, <2>3
  <1>5. /\ \A t \in authSessions' : \E s \in authSessions : t = Row(s)
        /\ \A s \in authSessions : Row(s) \in authSessions'
    BY <1>1
  <1>6. /\ visit' \in [Visits -> Visit]
        /\ \A w \in Visits : visit'[w].step # "idle" => visit[w].step # "idle" /\ visit'[w].session = visit[w].session
    BY <1>1, <1>2, TypeFacts DEF Visit
  <1>7. /\ served' \in [Callbacks -> Moments]
        /\ \A c \in Callbacks : served'[c] = IF c = r.session.id /\ r.at > served[c] THEN r.at ELSE served[c]
    BY <1>1, <1>2, <1>3
  <1> HIDE DEF Row, r
  <1>8. RowsChange
    <2>1. \A s, t \in authSessions' : s.id = t.id => s = t
      BY <1>4, <1>5 DEF SessionsIInv, OnePerCallback, Same
    <2> QED BY <1>4, <1>5, <2>1 DEF RowsChange, Same
  <1>9. OnePerCallback' /\ FlowsWait' /\ LoginsBegan' /\ FlowsAreSingleUse' /\ IdentityKeepsUser'
    BY <1>1, <1>8, RowsKeep
  <1>10. SessionsTypeOK'
    BY <1>1, <1>6, <1>7, <1>8 DEF SessionsIInv, SessionsTypeOK, RowsChange, Visit
  <1>11. Told' /\ LogoutAtIdpEnds'
    BY <1>1, <1>4, <1>5 DEF SessionsIInv, Told, LogoutAtIdpEnds, Same
  <1>12. ServedAfter'
    BY <1>1, <1>2, <1>6, <1>7 DEF SessionsIInv, ServedAfter
  <1>13. UseKeepsAlive'
    <2> SUFFICES ASSUME NEW t \in authSessions' PROVE t.seen + TouchInterval >= served'[t.id]
      BY DEF UseKeepsAlive
    <2>1. PICK s \in authSessions : t = Row(s)
      BY <1>5
    <2>2. /\ s.seen + TouchInterval >= served[s.id] /\ t.id = s.id /\ t.seen >= s.seen
          /\ s.seen \in Nat /\ t.seen \in Nat /\ s.id \in Callbacks
          /\ s.id = r.session.id => t.seen + TouchInterval >= r.at
      BY <1>4, <2>1, RowFacts DEF SessionsIInv, UseKeepsAlive, Same
    <2> QED BY <1>2, <1>3, <1>7, <2>2, SessionsAssumption
  <1> QED BY <1>8, <1>9, <1>10, <1>11, <1>12, <1>13 DEF SessionsIInv

LEMMA LogoutSteps ==
    ASSUME SessionsIInv, NEW sid \in IdpSessions, NEW bySid \in BOOLEAN, BackchannelLogout(sid, bySid)
    PROVE  SessionsIInv' /\ RowsChange
  <1>1. /\ authSessions' = Revoking(IdpSelects(sid, bySid))
        /\ endedAtIdp' = endedAtIdp \union {sid}
        /\ missed' = missed \union {c \in Callbacks : /\ callback[c].step \in {"proven", "login"}
                                                      /\ callback[c].claims.sid = sid}
        /\ UNCHANGED <<time, loginFlows, callback, links, visit, disabled, taken, served>>
    BY DEF BackchannelLogout
  <1>2. /\ RowsChange
        /\ \A t \in authSessions' : \E s \in authSessions :
               Same(s, t) /\ t.seen = s.seen /\ (s \in IdpSelects(sid, bySid) => t.revoked)
    BY <1>1, RevokingRows
  <1>3. OnePerCallback' /\ FlowsWait' /\ LoginsBegan' /\ FlowsAreSingleUse' /\ IdentityKeepsUser'
    BY <1>1, <1>2, RowsKeep
  <1>4. SessionsTypeOK'
    BY <1>1, <1>2 DEF SessionsIInv, SessionsTypeOK, RowsChange
  <1>5. Told' /\ ServedAfter'
    BY <1>1 DEF SessionsIInv, Told, ServedAfter
  <1>6. UseKeepsAlive'
    BY <1>1, <1>2 DEF SessionsIInv, UseKeepsAlive, Same
  <1>7. LogoutAtIdpEnds'
    <2>1. \A s \in authSessions : s.sid = sid => s \in IdpSelects(sid, bySid)
      BY DEF SessionsIInv, IdentityKeepsUser, IdpSelects
    <2> QED BY <1>1, <1>2, <2>1 DEF SessionsIInv, LogoutAtIdpEnds, Same
  <1> QED BY <1>2, <1>3, <1>4, <1>5, <1>6, <1>7 DEF SessionsIInv
-----------------------------------------------------------------------------
(* The transaction of a sign-in *)

\* The user a known identity is linked to, or the one of the email.
LEMMA LoggedInFacts ==
    ASSUME SessionsIInv, NEW claims \in Claims
    PROVE  /\ LoggedIn(claims) \in Accounts
           /\ SubjectOf[claims.sid] \in Subjects
           /\ \A p \in links : p[1] = SubjectOf[claims.sid] => p = <<p[1], LoggedIn(claims)>>
  <1> DEFINE subject == SubjectOf[claims.sid]
  <1>1. claims.sid \in IdpSessions /\ claims.email \in Accounts /\ subject \in Subjects
    BY SessionsAssumption DEF Claims
  <1> HIDE DEF subject
  <1>2. CASE Known(subject)
    <2>1. UserOf(subject) \in Accounts /\ <<subject, UserOf(subject)>> \in links
      BY <1>2 DEF Known, UserOf
    <2>2. LoggedIn(claims) = UserOf(subject)
      BY <1>2 DEF LoggedIn, subject
    <2>3. \A p \in links : p[1] = subject => p = <<subject, UserOf(subject)>>
      BY <2>1 DEF SessionsIInv, IdentityKeepsUser
    <2> QED BY <1>1, <2>1, <2>2, <2>3 DEF subject
  <1>3. CASE ~Known(subject)
    <2>1. LoggedIn(claims) = claims.email
      BY <1>3 DEF LoggedIn, subject
    <2>2. \A p \in links : p[1] # subject
      <3> SUFFICES ASSUME NEW p \in links, p[1] = subject PROVE FALSE
        OBVIOUS
      <3>1. p \in Subjects \X Accounts
        BY TypeFacts
      <3>2. p = <<subject, p[2]>> /\ p[2] \in Accounts
        BY <3>1
      <3> QED BY <1>3, <3>2 DEF Known
    <2> QED BY <1>1, <2>1, <2>2 DEF subject
  <1> QED BY <1>2, <1>3

\* What the links become: still one user for an identity.
LEMMA LinksKeep ==
    ASSUME SessionsIInv, NEW claims \in Claims,
           links' = links \union {<<SubjectOf[claims.sid], LoggedIn(claims)>>}
    PROVE  /\ links' \subseteq Subjects \X Accounts
           /\ \A p, q \in links' : p[1] = q[1] => p = q
  <1>1. links' \subseteq Subjects \X Accounts
    BY LoggedInFacts, TypeFacts
  <1>2. \A p \in links : p[1] = SubjectOf[claims.sid] => p = <<SubjectOf[claims.sid], LoggedIn(claims)>>
    BY LoggedInFacts
  <1> QED BY <1>1, <1>2 DEF SessionsIInv, IdentityKeepsUser

LEMMA LoginSteps ==
    ASSUME SessionsIInv, NEW c \in Callbacks, FinishLogin(c)
    PROVE  /\ SessionsIInv'
           /\ \A s \in authSessions, t \in authSessions' : s.id = t.id /\ s.revoked => t.revoked
           /\ \A s \in authSessions : (\A t \in authSessions' : t.id # s.id) => ~LiveAt(s, time)
           /\ \A t \in authSessions' : (\A s \in authSessions : s.id # t.id) => t.user \notin disabled
  <1> DEFINE b == callback[c]
             user == LoggedIn(b.claims)
             row == [id |-> c, user |-> user, sid |-> b.claims.sid, method |-> b.method,
                     created |-> b.at, seen |-> b.at, revoked |-> FALSE]
  <1>1. /\ b.step = "login"
        /\ links' = links \union {<<SubjectOf[b.claims.sid], user>>}
        /\ UNCHANGED <<time, loginFlows, visit, disabled, taken, endedAtIdp, missed, served>>
    BY DEF FinishLogin
  <1>2. IF user \in disabled
        THEN /\ authSessions' = Revoking(OfUser(user))
             /\ callback' = [callback EXCEPT ![c] = [step |-> "failed"]]
        ELSE /\ authSessions' = {s \in authSessions : s.user = user => ~DeadAt(s, b.at)} \union {row}
             /\ callback' = [callback EXCEPT ![c] = [step |-> "done"]]
    BY DEF FinishLogin
  <1>3. b \in Login
    BY <1>1, TypeFacts DEF Away, Taken, Proven, Login
  <1>4. /\ b.claims \in Claims /\ b.method \in SignInMethods /\ b.claims.sid \in IdpSessions
        /\ b.at \in Moments /\ b.at \in Nat /\ time \in Nat
    BY <1>3, TypeFacts, SessionsAssumption DEF Login, Claims, Moments
  <1>5. b.at <= time
    BY <1>1 DEF SessionsIInv, LoginsBegan
  <1>6. user \in Accounts
    BY <1>4, LoggedInFacts
  <1>7. /\ callback' \in [Callbacks -> Away \union Taken \union Proven \union Login]
        /\ \A d \in Callbacks : d # c => callback'[d] = callback[d]
        /\ callback'[c].step \in {"failed", "done"}
    <2>1. [step |-> "failed"] \in Away /\ [step |-> "done"] \in Away
      BY DEF Away
    <2> QED BY <1>2, <2>1, TypeFacts
  <1>8. \A s \in authSessions : s.id \in Callbacks /\ s.id # c
    BY <1>1, TypeFacts, RowFacts DEF SessionsIInv, OnePerCallback
  <1>9. links' \subseteq Subjects \X Accounts /\ \A p, q \in links' : p[1] = q[1] => p = q
    BY <1>1, <1>4, LinksKeep
  <1>10. /\ FlowsWait' /\ FlowsAreSingleUse'
         /\ LoginsBegan' /\ Told'
    BY <1>1, <1>7 DEF SessionsIInv, FlowsWait, FlowsAreSingleUse, LoginsBegan, Told
  <1>11. ServedAfter'
    <2>1. \A d \in Callbacks : callback[d].step = "done" => callback'[d].step = "done"
      BY <1>1, <1>7
    <2>2. \A v \in Visits : visit[v].step # "idle" => visit[v].session.id \in Callbacks
      BY TypeFacts DEF Visit, SessionRow
    <2> QED BY <1>1, <2>1, <2>2 DEF SessionsIInv, ServedAfter
  <1>12. c \in Callbacks /\ served[c] = 0 /\ (b.claims.sid \in endedAtIdp => c \in missed)
    BY <1>1 DEF SessionsIInv, ServedAfter, Told
  <1>13. row \in SessionRow
    BY <1>4, <1>6 DEF SessionRow
  <1>14. /\ row.id = c /\ row.user = user /\ row.sid = b.claims.sid /\ row.seen = b.at /\ ~row.revoked
         /\ <<SubjectOf[row.sid], row.user>> \in links'
    BY <1>1
  <1> HIDE DEF row, user, b
  <1>15. CASE user \in disabled
    <2>1. /\ RowsChange /\ \A t \in authSessions' : \E s \in authSessions : Same(s, t) /\ t.seen = s.seen
      BY <1>2, <1>15, RevokingRows
    <2>2. SessionsTypeOK'
      BY <1>1, <1>7, <1>9, <2>1 DEF SessionsIInv, SessionsTypeOK, RowsChange, Away, Taken, Proven, Login
    <2>3. OnePerCallback'
      BY <1>7, <1>8, <2>1 DEF SessionsIInv, OnePerCallback, RowsChange, Same
    <2>4. UseKeepsAlive' /\ LogoutAtIdpEnds'
      BY <1>1, <2>1 DEF SessionsIInv, UseKeepsAlive, LogoutAtIdpEnds, Same
    <2>5. IdentityKeepsUser'
      BY <1>1, <1>9, <2>1 DEF SessionsIInv, IdentityKeepsUser, Same
    <2>6. \A s \in authSessions, t \in authSessions' : s.id = t.id /\ s.revoked => t.revoked
      BY <2>1 DEF SessionsIInv, OnePerCallback, Same
    <2> QED BY <1>10, <1>11, <2>1, <2>2, <2>3, <2>4, <2>5, <2>6 DEF SessionsIInv, RowsChange, Same
  <1>16. CASE user \notin disabled
    <2>1. authSessions' = {s \in authSessions : s.user = user => ~DeadAt(s, b.at)} \union {row}
      BY <1>2, <1>16
    <2>2. \A t \in authSessions' : t \in authSessions \/ t = row
      BY <2>1
    <2>3. authSessions' \subseteq SessionRow
      BY <1>13, <2>2, TypeFacts
    <2>4. SessionsTypeOK'
      BY <1>1, <1>7, <1>9, <2>3 DEF SessionsIInv, SessionsTypeOK, Away, Taken, Proven, Login
    <2>5. callback'[c].step = "done"
      BY <1>2, <1>16, TypeFacts
    <2>6. OnePerCallback'
      BY <1>7, <1>8, <1>14, <2>2, <2>5 DEF SessionsIInv, OnePerCallback
    <2>7. UseKeepsAlive'
      <3>1. row.seen + TouchInterval >= served[row.id]
        BY <1>4, <1>12, <1>14, SessionsAssumption
      <3> QED BY <1>1, <2>2, <3>1 DEF SessionsIInv, UseKeepsAlive
    <2>8. LogoutAtIdpEnds'
      BY <1>1, <1>12, <1>14, <2>2 DEF SessionsIInv, LogoutAtIdpEnds
    <2>9. IdentityKeepsUser'
      BY <1>1, <1>9, <1>14, <2>2 DEF SessionsIInv, IdentityKeepsUser
    <2>10. \A s \in authSessions, t \in authSessions' : s.id = t.id /\ s.revoked => t.revoked
      BY <1>8, <1>14, <2>2 DEF SessionsIInv, OnePerCallback
    <2>11. ASSUME NEW s \in authSessions, \A t \in authSessions' : t.id # s.id
           PROVE  ~LiveAt(s, time)
      <3>1. DeadAt(s, b.at)
        BY <2>1, <2>11
      <3>2. s.created \in Nat /\ s.seen \in Nat
        BY TypeFacts, RowFacts
      <3> QED BY <1>4, <1>5, <3>1, <3>2, SessionsAssumption DEF DeadAt, LiveAt
    <2>12. \A t \in authSessions' : (\A s \in authSessions : s.id # t.id) => t.user \notin disabled
      BY <1>14, <1>16, <2>2
    <2> QED BY <1>10, <1>11, <2>4, <2>6, <2>7, <2>8, <2>9, <2>10, <2>11, <2>12 DEF SessionsIInv
  <1> QED BY <1>15, <1>16

-----------------------------------------------------------------------------
(* The theorems *)

\* What rows changed one by one mean for the ends of sessions.
LEMMA RowsEnd ==
    ASSUME SessionsIInv, RowsChange
    PROVE  /\ \A s \in authSessions, t \in authSessions' : s.id = t.id /\ s.revoked => t.revoked
           /\ \A s \in authSessions : ~(\A t \in authSessions' : t.id # s.id)
           /\ \A t \in authSessions' : ~(\A s \in authSessions : s.id # t.id)
  BY DEF SessionsIInv, OnePerCallback, RowsChange, Same

LEMMA SessionsStepHolds ==
    ASSUME SessionsIInv, [SessionsNext]_sessionVars
    PROVE  /\ SessionsIInv'
           /\ \A s \in authSessions, t \in authSessions' : s.id = t.id /\ s.revoked => t.revoked
           /\ \A s \in authSessions : (\A t \in authSessions' : t.id # s.id) => ~LiveAt(s, time)
           /\ \A t \in authSessions' : (\A s \in authSessions : s.id # t.id) => t.user \notin disabled
  <1>1. CASE \E f \in LoginFlows : StartLogin(f) \/ \E c \in Callbacks : TakeFlow(c, f)
    BY <1>1, FlowSteps DEF SessionsIInv, OnePerCallback
  <1>2. CASE \E c \in Callbacks : Exchange(c) \/ BeginLogin(c)
    BY <1>2, CallbackSteps DEF SessionsIInv, OnePerCallback
  <1>3. CASE \E c \in Callbacks : FinishLogin(c)
    BY <1>3, LoginSteps
  <1>4. CASE \E v \in Visits, c \in Callbacks : FindSession(v, c)
    BY <1>4, FindSteps, RowsEnd
  <1>5. CASE \E v \in Visits : RevokeOthers(v) \/ \E c \in Callbacks : RevokeDevice(v, c)
    BY <1>5, RevokeSessionSteps, RowsEnd
  <1>6. CASE \E v \in Visits : Touch(v)
    BY <1>6, TouchSteps, RowsEnd
  <1>7. CASE \E sid \in IdpSessions, bySid \in BOOLEAN : BackchannelLogout(sid, bySid)
    BY <1>7, LogoutSteps, RowsEnd
  <1>8. CASE (\E v \in Visits : Serve(v)) \/ (\E u \in Accounts : Ban(u)) \/ PassTime \/ UNCHANGED sessionVars
    BY <1>8, OtherSteps DEF SessionsIInv, OnePerCallback
  <1> QED BY <1>1, <1>2, <1>3, <1>4, <1>5, <1>6, <1>7, <1>8 DEF SessionsNext

LEMMA SessionsIInvHolds == SessionsSpec => []SessionsIInv
  <1>1. SessionsIInv /\ [SessionsNext]_sessionVars => SessionsIInv'
    BY SessionsStepHolds
  <1> QED BY SessionsInitHolds, <1>1, PTL DEF SessionsSpec

\* The type invariant: what the store and the callbacks hold has the shape the code gives it.
THEOREM SessionsTypeCorrect == SessionsSpec => []SessionsTypeOK
  <1>1. SessionsIInv => SessionsTypeOK
    BY DEF SessionsIInv
  <1> QED BY SessionsIInvHolds, <1>1, PTL

\* However many sign-ins, requests and logouts overlap: a flow lets one callback through
\* (auth/store.py:74-96), an identity keeps its user (migrations' tabayyun_login), a logout at the
\* provider ends what came of it (store.py:260-273) and use keeps a session from idling out.
THEOREM SignInsTheorem == SessionsSpec => []SignInsMeet
  <1>1. SessionsIInv => SignInsMeet
    BY DEF SessionsIInv, SignInsMeet
  <1> QED BY SessionsIInvHolds, <1>1, PTL

\* A revoked session stays revoked, a sign-in prunes only sessions no request could be served with
\* and none is begun for a user who is disabled (auth/store.py:141-260).
THEOREM SessionsEndTheorem == SessionsSpec => SessionsEnd
  <1>1. SessionsIInv /\ [SessionsNext]_sessionVars
            => \A s \in authSessions, t \in authSessions' : s.id = t.id /\ s.revoked => t.revoked
    BY SessionsStepHolds
  <1>2. SessionsIInv /\ [SessionsNext]_sessionVars
            => \A s \in authSessions : (\A t \in authSessions' : t.id # s.id) => ~LiveAt(s, time)
    BY SessionsStepHolds
  <1>3. SessionsIInv /\ [SessionsNext]_sessionVars
            => \A t \in authSessions' : (\A s \in authSessions : s.id # t.id) => t.user \notin disabled
    BY SessionsStepHolds
  <1> QED BY SessionsIInvHolds, <1>1, <1>2, <1>3, PTL
          DEF SessionsSpec, SessionsEnd, RevokedForGood, PrunesOnlyDead, NoSessionForDisabled

-----------------------------------------------------------------------------
(* Rate limits: no window lets more through than its limit, and who waits as told is counted in a
   later one. *)

LimitRows == LimitKeys \X WindowStarts

\* Whole quotients.
LEMMA QuotientFact ==
    ASSUME NEW a \in Nat, NEW d \in Nat \ {0}
    PROVE  /\ a \div d \in Nat
           /\ (a \div d) * d <= a
           /\ a < (a \div d) * d + d
  BY Z3

\* A window holds the moments it is the window of.
LEMMA WindowFacts ==
    ASSUME NEW now \in Ticks
    PROVE  /\ WindowStart(now) \in WindowStarts /\ WindowStart(now) \in Nat
           /\ WindowStart(now) <= now /\ now < WindowStart(now) + RuleWindow
  <1>1. now \in Nat
    BY RateLimitsAssumption DEF Ticks
  <1>2. now \div RuleWindow \in Nat /\ (now \div RuleWindow) * RuleWindow <= now
        /\ now < (now \div RuleWindow) * RuleWindow + RuleWindow
    BY <1>1, QuotientFact, RateLimitsAssumption
  <1>3. (now \div RuleWindow) * RuleWindow \in Nat
    BY <1>2, RateLimitsAssumption
  <1> QED BY <1>2, <1>3 DEF WindowStart, WindowStarts

\* The seconds of Retry-After reach the end of the window, and not a second beyond it.
LEMMA SecondsFacts ==
    ASSUME NEW now \in Ticks
    PROVE  /\ SecondsLeft(now) \in Nat
           /\ now + SecondsLeft(now) * TicksPerSecond >= WindowStart(now) + RuleWindow
           /\ now + SecondsLeft(now) * TicksPerSecond < WindowStart(now) + RuleWindow + TicksPerSecond
  <1>1. now \in Nat
    BY RateLimitsAssumption DEF Ticks
  <1> DEFINE left == WindowStart(now) + RuleWindow - now
             up   == WindowStart(now) + RuleWindow - now + TicksPerSecond - 1
             x    == up \div TicksPerSecond
  <1>2. left \in Nat /\ left >= 1 /\ up = left + TicksPerSecond - 1 /\ up \in Nat
    BY <1>1, WindowFacts, RateLimitsAssumption
  <1>3. x \in Nat /\ x * TicksPerSecond <= up /\ up < x * TicksPerSecond + TicksPerSecond
    BY <1>2, QuotientFact, RateLimitsAssumption
  <1>4. x >= 1
    <2>1. x = 0 => x * TicksPerSecond = 0
      BY RateLimitsAssumption
    <2> HIDE DEF x, up, left
    <2> QED BY <1>2, <1>3, <2>1, RateLimitsAssumption
  <1>5. SecondsLeft(now) = x
    BY <1>3, <1>4 DEF SecondsLeft
  <1>6. x * TicksPerSecond \in Nat
    BY <1>3, RateLimitsAssumption
  <1>7. left = WindowStart(now) + RuleWindow - now
    OBVIOUS
  <1> HIDE DEF x, up, left
  <1>8. now + x * TicksPerSecond >= WindowStart(now) + RuleWindow
        /\ now + x * TicksPerSecond < WindowStart(now) + RuleWindow + TicksPerSecond
    BY <1>1, <1>2, <1>3, <1>6, <1>7, WindowFacts, RateLimitsAssumption
  <1> QED BY <1>3, <1>5, <1>8

-----------------------------------------------------------------------------
(* The inductive invariant *)

\* What is let through is counted, until the window is old enough to be pruned.
CountedOrOver ==
    \A w \in LimitRows : /\ admitted[w] <= RuleLimit
                         /\ admitted[w] <= counters[w] \/ w[2] + KeepFor < tick

\* No request is under way for so long that its window may be pruned.
InTime ==
    \A r \in Limited : limited[r].step = "counting" => tick <= WindowStart(limited[r].now) + KeepFor

LimitsIInv == RateLimitsTypeOK /\ CountedOrOver /\ InTime /\ RetryAfterLands

\* Nothing has been counted at the start.
LEMMA LimitsInit == RateLimitsInit => LimitsIInv
  <1> SUFFICES ASSUME RateLimitsInit PROVE LimitsIInv
    OBVIOUS
  <1>1. RateLimitsTypeOK
    BY RateLimitsAssumption DEF RateLimitsInit, RateLimitsTypeOK, Ticks
  <1>2. CountedOrOver /\ InTime /\ RetryAfterLands
    BY RateLimitsAssumption DEF RateLimitsInit, CountedOrOver, InTime, RetryAfterLands, LimitRows
  <1> QED BY <1>1, <1>2 DEF LimitsIInv

\* A counted request meets a row that is not pruned yet.
LEMMA HitKeeps == ASSUME LimitsIInv, NEW r \in Limited, Hit(r) PROVE LimitsIInv'
  <1> DEFINE q == limited[r]
             w == <<q.key, WindowStart(q.now)>>
             hits == counters[w] + 1
  <1>1. q \in [step : {"counting"}, key : LimitKeys, now : Ticks]
    BY DEF LimitsIInv, RateLimitsTypeOK, Hit
  <1>2. w \in LimitRows /\ w[2] = WindowStart(q.now) /\ WindowStart(q.now) \in Nat
    BY <1>1, WindowFacts DEF LimitRows
  <1>3. /\ tick \in Nat /\ tick' = tick
        /\ counters \in [LimitRows -> 0..HitBound] /\ admitted \in [LimitRows -> 0..HitBound]
        /\ hits \in Nat /\ hits <= HitBound
        /\ counters' = [counters EXCEPT ![w] = hits]
    BY <1>2, RateLimitsAssumption DEF LimitsIInv, RateLimitsTypeOK, Hit, Ticks, LimitRows
  <1>4. admitted[w] <= counters[w] /\ admitted[w] <= RuleLimit
    BY <1>1, <1>2, <1>3, RateLimitsAssumption DEF LimitsIInv, CountedOrOver, InTime
  <1>5. admitted' = IF AllowedBy(hits) THEN [admitted EXCEPT ![w] = @ + 1] ELSE admitted
    BY DEF Hit
  <1>6. limited' = [limited EXCEPT ![r] = IF AllowedBy(hits) THEN [step |-> "idle"]
                       ELSE [step |-> "refused", key |-> q.key, now |-> q.now, retry |-> SecondsLeft(q.now)]]
    BY DEF Hit
  <1> HIDE DEF w, hits
  <1>7. counters' \in [LimitRows -> 0..HitBound] /\ admitted' \in [LimitRows -> 0..HitBound] /\ CountedOrOver'
    <2>1. counters' \in [LimitRows -> 0..HitBound]
      BY <1>2, <1>3, RateLimitsAssumption
    <2>2. hits = counters[w] + 1
      BY DEF hits
    <2>3. CASE AllowedBy(hits)
      <3>1. admitted' = [admitted EXCEPT ![w] = admitted[w] + 1] /\ hits <= RuleLimit
        BY <1>5, <2>3 DEF AllowedBy
      <3>2. admitted[w] + 1 <= hits /\ admitted[w] + 1 \in 0..HitBound
        BY <1>2, <1>3, <1>4, <2>2, RateLimitsAssumption
      <3>3. admitted' \in [LimitRows -> 0..HitBound]
        BY <1>3, <3>1, <3>2
      <3>4. ASSUME NEW v \in LimitRows
            PROVE  admitted'[v] <= RuleLimit /\ (admitted'[v] <= counters'[v] \/ v[2] + KeepFor < tick')
        <4>1. CASE v = w
          <5>1. admitted'[w] = admitted[w] + 1 /\ counters'[w] = hits
            BY <1>2, <1>3, <3>1
          <5> QED BY <1>2, <1>3, <2>2, <3>1, <3>2, <4>1, <5>1, RateLimitsAssumption
        <4>2. CASE v # w
          BY <1>3, <3>1, <4>2 DEF LimitsIInv, CountedOrOver
        <4> QED BY <4>1, <4>2
      <3> QED BY <2>1, <3>3, <3>4 DEF CountedOrOver
    <2>4. CASE ~AllowedBy(hits)
      <3>1. admitted' = admitted
        BY <1>5, <2>4
      <3>2. ASSUME NEW v \in LimitRows
            PROVE  admitted'[v] <= RuleLimit /\ (admitted'[v] <= counters'[v] \/ v[2] + KeepFor < tick')
        <4>1. CASE v = w
          <5>1. counters'[w] = counters[w] + 1
            BY <1>2, <1>3, <2>2
          <5> QED BY <1>2, <1>3, <1>4, <3>1, <4>1, <5>1, RateLimitsAssumption
        <4>2. CASE v # w
          BY <1>3, <3>1, <4>2 DEF LimitsIInv, CountedOrOver
        <4> QED BY <4>1, <4>2
      <3> QED BY <1>3, <2>1, <3>1, <3>2 DEF CountedOrOver
    <2> QED BY <2>3, <2>4
  <1>8. /\ limited' \in [Limited -> [step : {"idle"}] \union [step : {"counting"}, key : LimitKeys, now : Ticks]
                               \union [step : {"refused"}, key : LimitKeys, now : Ticks, retry : Nat]]
        /\ \A s \in Limited : s # r => limited'[s] = limited[s]
        /\ limited'[r].step # "counting"
        /\ limited'[r].step = "refused" => limited'[r].now = q.now /\ limited'[r].retry = SecondsLeft(q.now)
    <2>1. SecondsLeft(q.now) \in Nat
      BY <1>1, SecondsFacts
    <2>2. limited \in [Limited -> [step : {"idle"}] \union [step : {"counting"}, key : LimitKeys, now : Ticks]
                               \union [step : {"refused"}, key : LimitKeys, now : Ticks, retry : Nat]]
      BY DEF LimitsIInv, RateLimitsTypeOK
    <2>3. CASE AllowedBy(hits)
      BY <1>6, <2>2, <2>3
    <2>4. CASE ~AllowedBy(hits)
      BY <1>1, <1>6, <2>1, <2>2, <2>4
    <2> QED BY <2>3, <2>4
  <1>9. InTime'
    BY <1>3, <1>8 DEF LimitsIInv, InTime
  <1>10. RetryAfterLands'
    <2> SUFFICES ASSUME NEW s \in Limited, limited'[s].step = "refused"
                 PROVE  /\ limited'[s].now + limited'[s].retry * TicksPerSecond
                              >= WindowStart(limited'[s].now) + RuleWindow
                        /\ limited'[s].now + limited'[s].retry * TicksPerSecond
                              < WindowStart(limited'[s].now) + RuleWindow + TicksPerSecond
      BY DEF RetryAfterLands
    <2>1. CASE s = r
      BY <1>1, <1>8, <2>1, SecondsFacts
    <2>2. CASE s # r
      BY <1>8, <2>2 DEF LimitsIInv, RetryAfterLands
    <2> QED BY <2>1, <2>2
  <1> QED BY <1>3, <1>7, <1>8, <1>9, <1>10 DEF LimitsIInv, RateLimitsTypeOK, LimitRows

\* Every step of a request, of the clock and of the clean-up keeps the invariant.
LEMMA LimitsNext == LimitsIInv /\ [RateLimitsNext]_limitVars => LimitsIInv'
  <1> SUFFICES ASSUME LimitsIInv, [RateLimitsNext]_limitVars PROVE LimitsIInv'
    OBVIOUS
  <1>0. /\ tick \in Nat /\ counters \in [LimitRows -> 0..HitBound] /\ admitted \in [LimitRows -> 0..HitBound]
        /\ limited \in [Limited -> [step : {"idle"}] \union [step : {"counting"}, key : LimitKeys, now : Ticks]
                               \union [step : {"refused"}, key : LimitKeys, now : Ticks, retry : Nat]]
    BY RateLimitsAssumption DEF LimitsIInv, RateLimitsTypeOK, Ticks, LimitRows
  <1>1. ASSUME NEW r \in Limited, Limit(r) PROVE LimitsIInv'
    <2>1. PICK k \in LimitKeys :
            limited' = [limited EXCEPT ![r] = [step |-> "counting", key |-> k, now |-> tick]]
      BY <1>1 DEF Limit
    <2>2. tick \in Ticks /\ tick' = tick /\ counters' = counters /\ admitted' = admitted
      BY <1>1 DEF Limit, LimitsIInv, RateLimitsTypeOK
    <2>3. RateLimitsTypeOK'
      BY <1>0, <2>1, <2>2 DEF LimitsIInv, RateLimitsTypeOK
    <2>4. InTime'
      BY <1>0, <2>1, <2>2, WindowFacts, RateLimitsAssumption DEF LimitsIInv, InTime
    <2>5. RetryAfterLands'
      BY <1>0, <2>1 DEF LimitsIInv, RetryAfterLands
    <2> QED BY <2>2, <2>3, <2>4, <2>5 DEF LimitsIInv, CountedOrOver
  <1>2. ASSUME NEW r \in Limited, Hit(r) PROVE LimitsIInv'
    BY <1>2, HitKeeps
  <1>3. ASSUME NEW r \in Limited, Uncounted(r) \/ Refused(r) PROVE LimitsIInv'
    <2>1. /\ limited' = [limited EXCEPT ![r] = [step |-> "idle"]]
          /\ tick' = tick /\ counters' = counters /\ admitted' = admitted
      BY <1>3 DEF Uncounted, Refused
    <2>2. RateLimitsTypeOK'
      BY <1>0, <2>1 DEF LimitsIInv, RateLimitsTypeOK
    <2>3. InTime' /\ RetryAfterLands'
      BY <1>0, <2>1 DEF LimitsIInv, InTime, RetryAfterLands
    <2> QED BY <2>1, <2>2, <2>3 DEF LimitsIInv, CountedOrOver
  <1>4. CASE Prune
    <2>1. /\ counters' = [w \in LimitRows |-> IF Outdated(w[2]) THEN 0 ELSE counters[w]]
          /\ tick' = tick /\ limited' = limited /\ admitted' = admitted
      BY <1>4 DEF Prune, LimitRows
    <2>2. counters' \in [LimitRows -> 0..HitBound]
      BY <1>0, <2>1, RateLimitsAssumption
    <2>3. CountedOrOver'
      <3> SUFFICES ASSUME NEW w \in LimitRows
                   PROVE  admitted[w] <= RuleLimit /\ (admitted[w] <= counters'[w] \/ w[2] + KeepFor < tick)
        BY <2>1 DEF CountedOrOver
      <3>1. w[2] \in Nat
        <4>1. w[2] \in WindowStarts
          BY DEF LimitRows
        <4> QED BY <4>1, WindowFacts DEF WindowStarts
      <3>2. CASE Outdated(w[2])
        BY <1>0, <3>1, <3>2, RateLimitsAssumption DEF Outdated, LimitsIInv, CountedOrOver
      <3>3. CASE ~Outdated(w[2])
        BY <2>1, <3>3 DEF LimitsIInv, CountedOrOver
      <3> QED BY <3>2, <3>3
    <2>4. RateLimitsTypeOK' /\ InTime' /\ RetryAfterLands'
      BY <2>1, <2>2 DEF LimitsIInv, RateLimitsTypeOK, InTime, RetryAfterLands, LimitRows
    <2> QED BY <2>3, <2>4 DEF LimitsIInv
  <1>5. CASE PassTick
    <2>1. tick' = tick + 1 /\ tick < LimitTicks /\ counters' = counters /\ limited' = limited /\ admitted' = admitted
      BY <1>5 DEF PassTick
    <2>2. RateLimitsTypeOK'
      BY <1>0, <2>1, RateLimitsAssumption DEF LimitsIInv, RateLimitsTypeOK, Ticks
    <2>3. CountedOrOver'
      <3> SUFFICES ASSUME NEW w \in LimitRows
                   PROVE  admitted[w] <= RuleLimit /\ (admitted[w] <= counters[w] \/ w[2] + KeepFor < tick + 1)
        BY <2>1 DEF CountedOrOver
      <3>1. w[2] \in Nat
        <4>1. w[2] \in WindowStarts
          BY DEF LimitRows
        <4> QED BY <4>1, WindowFacts DEF WindowStarts
      <3> QED BY <1>0, <3>1, RateLimitsAssumption DEF LimitsIInv, CountedOrOver
    <2>4. InTime'
      <3> SUFFICES ASSUME NEW r \in Limited, limited[r].step = "counting"
                   PROVE  tick + 1 <= WindowStart(limited[r].now) + KeepFor
        BY <2>1 DEF InTime
      <3>1. limited[r].now \in Ticks
        BY <1>0
      <3>2. ~(tick - WindowStart(limited[r].now) >= KeepFor)
        BY <1>5 DEF PassTick, Waiting
      <3> QED BY <1>0, <3>1, <3>2, WindowFacts, RateLimitsAssumption
    <2> QED BY <2>1, <2>2, <2>3, <2>4 DEF LimitsIInv, RetryAfterLands
  <1>6. CASE UNCHANGED limitVars
    BY <1>6 DEF limitVars, LimitsIInv, RateLimitsTypeOK, CountedOrOver, InTime, RetryAfterLands, Waiting
  <1> QED BY <1>1, <1>2, <1>3, <1>4, <1>5, <1>6 DEF RateLimitsNext

\* Every state has the declared types.
THEOREM LimitsTypeCorrect == RateLimitsSpec => []RateLimitsTypeOK
<1>1. LimitsIInv => RateLimitsTypeOK
  BY DEF LimitsIInv
<1> QED BY <1>1, LimitsInit, LimitsNext, PTL DEF RateLimitsSpec

\* Nobody is served more than the limit of a window, however requests overlap with each other, with
\* the end of the window and with pruning, and Retry-After is right (rate_limits.py:68-105).
THEOREM LimitsTheorem == RateLimitsSpec => []LimitsHold
<1>1. LimitsIInv => LimitsHold
  BY DEF LimitsIInv, LimitsHold, CountedOrOver, NoMoreThanTheLimit, LimitRows
<1> QED BY <1>1, LimitsInit, LimitsNext, PTL DEF RateLimitsSpec

-----------------------------------------------------------------------------
(* Stored credentials, for any sources, people and requests and any number of rotations: what is
   stored opens in both apps, and the rotate command puts nothing back that it had read before. *)

Api    == keyring["api"]
Worker == keyring["worker"]

\* Rows without the bound on the client pairs, which counts requests.
SecretRows  == [key : 1..LastMasterKey, login : Logins, pair : Nat]
Rings == [current : 1..LastMasterKey, previous : 0..LastMasterKey]

SecretTypes ==
    /\ secret \in [Systems -> SecretRows \union {NoSecret}]
    /\ pairs \in Nat
    /\ keyring \in [Apps -> Rings]
    /\ procedure \in {"steady", "updating", "both", "rotated"}
    /\ rotation \in [busy : BOOLEAN, rows : [Systems -> SecretRows \union {NoSecret}]]
    /\ putter \in [Putters -> [step : {"idle"}] \union
          [step : {"put"}, system : Systems, login : Logins, own : BOOLEAN, before : SecretRows \union {NoSecret}]]

-----------------------------------------------------------------------------
(* The inductive invariant *)

\* Only the API stores, so what is stored is under one of its keys, at all times.
ApiOpens == \A s \in Systems : secret[s] # NoSecret => CanOpen(Api, secret[s])

\* How the keys of the two apps differ in each step of the procedure.
KeysOf ==
    /\ procedure = "steady" =>
          Api.current = Worker.current /\ Api.previous = NoKey /\ Worker.previous = NoKey
    /\ procedure = "updating" =>
          \/ Worker.previous = NoKey /\ Api.previous = Worker.current /\ Api.current = Worker.current + 1
          \/ Api.previous = NoKey /\ Worker.previous = Api.current /\ Worker.current = Api.current + 1
    /\ procedure = "both" => Api.current = Worker.current /\ Api.previous = Worker.previous
    /\ procedure = "rotated" =>
          /\ Api.current = Worker.current
          /\ \A s \in Systems : secret[s] # NoSecret => secret[s].key = Api.current

\* What the rotate command holds is what is stored, and the rest is under the current key.
RotationHolds ==
    rotation.busy =>
        /\ procedure = "both"
        /\ \A s \in Systems : \/ rotation.rows[s] = secret[s]
                              \/ /\ rotation.rows[s] = NoSecret
                                 /\ secret[s] # NoSecret => secret[s].key = Api.current

CredentialsIInv == SecretTypes /\ ApiOpens /\ KeysOf /\ RotationHolds

\* A row that is stored is not the absent one, and is under a key.
LEMMA SecretRowFacts ==
    ASSUME NEW row \in SecretRows
    PROVE  row.key \in 1..LastMasterKey /\ row.key # NoKey
  BY CredentialsAssumption DEF SecretRows, NoKey

\* At the start everything stored is sealed with a key in use.
LEMMA CredentialsInitHolds == CredentialsInit => CredentialsIInv
  <1> SUFFICES ASSUME CredentialsInit PROVE CredentialsIInv
    OBVIOUS
  <1>1. 1 \in 1..LastMasterKey /\ 0 \in 0..LastMasterKey
    BY CredentialsAssumption
  <1>2. SecretTypes
    BY <1>1 DEF CredentialsInit, SecretTypes, Rings, SecretRows, AllIdle, NotRotating, NoKey
  <1>3. ApiOpens /\ RotationHolds
    BY DEF CredentialsInit, ApiOpens, RotationHolds, NotRotating
  <1>4. KeysOf
    BY DEF CredentialsInit, KeysOf, Api, Worker, Apps
  <1> QED BY <1>2, <1>3, <1>4 DEF CredentialsIInv

\* One row changes, to nothing or to a row under the current key, and is not locked.
LEMMA WriteKeeps ==
    ASSUME CredentialsIInv, SecretTypes', NEW s \in Systems, ~Locked(s), NEW row \in SecretRows \union {NoSecret},
           row # NoSecret => row.key = Api.current,
           secret' = [secret EXCEPT ![s] = row], UNCHANGED <<keyring, procedure, rotation>>
    PROVE  CredentialsIInv'
  <1>1. /\ secret'[s] = row
        /\ \A q \in Systems : q # s => secret'[q] = secret[q]
    BY DEF CredentialsIInv, SecretTypes
  <1>2. ApiOpens'
    BY <1>1 DEF CredentialsIInv, ApiOpens, CanOpen, Api
  <1>3. KeysOf'
    BY <1>1 DEF CredentialsIInv, KeysOf, Api, Worker
  <1>4. RotationHolds'
    BY <1>1 DEF CredentialsIInv, RotationHolds, Locked, Api
  <1> QED BY <1>2, <1>3, <1>4 DEF CredentialsIInv

\* An app is started with other keys, while no rotation is under way.
LEMMA RestartTypes ==
    ASSUME SecretTypes, NEW app \in Apps, NEW current \in 1..LastMasterKey, NEW previous \in 0..LastMasterKey,
           Restarted(app, current, previous), UNCHANGED <<secret, pairs>>,
           procedure' \in {"steady", "updating", "both", "rotated"}
    PROVE  /\ SecretTypes'
           /\ keyring'[app].current = current /\ keyring'[app].previous = previous
           /\ \A a \in Apps : a # app => keyring'[a] = keyring[a]
           /\ rotation'.busy => rotation.busy
  <1>1. keyring' = [keyring EXCEPT ![app] = [current |-> current, previous |-> previous]]
    BY DEF Restarted
  <1>2. keyring' \in [Apps -> Rings]
    BY <1>1 DEF SecretTypes, Rings
  <1>3. putter' \in [Putters -> [step : {"idle"}] \union
          [step : {"put"}, system : Systems, login : Logins, own : BOOLEAN, before : SecretRows \union {NoSecret}]]
    BY DEF Restarted, SecretTypes, AllIdle
  <1>4. rotation' \in [busy : BOOLEAN, rows : [Systems -> SecretRows \union {NoSecret}]]
        /\ (rotation'.busy => rotation.busy)
    BY DEF Restarted, SecretTypes, NotRotating
  <1>5. /\ keyring'[app].current = current /\ keyring'[app].previous = previous
        /\ \A a \in Apps : a # app => keyring'[a] = keyring[a]
    BY <1>1 DEF SecretTypes
  <1> QED BY <1>2, <1>3, <1>4, <1>5 DEF SecretTypes

\* Storing a credential.
LEMMA PutKeepsCredentials ==
    ASSUME CredentialsIInv, NEW e \in Putters, BeginPut(e) \/ EndPut(e)
    PROVE  CredentialsIInv'
  <1>1. CASE BeginPut(e)
    <2>1. PICK s \in Systems, login \in Logins, own \in BOOLEAN :
             putter' = [putter EXCEPT ![e] =
                [step |-> "put", system |-> s, login |-> login, own |-> own,
                 before |-> IF CanOpen(keyring["api"], secret[s]) THEN secret[s] ELSE NoSecret]]
      BY <1>1 DEF BeginPut
    <2>2. UNCHANGED <<secret, pairs, keyring, procedure, rotation>>
      BY <1>1 DEF BeginPut
    <2>3. secret[s] \in SecretRows \union {NoSecret}
      BY DEF CredentialsIInv, SecretTypes
    <2>4. SecretTypes'
      BY <2>1, <2>2, <2>3 DEF CredentialsIInv, SecretTypes
    <2> QED BY <2>2, <2>4 DEF CredentialsIInv, ApiOpens, KeysOf, RotationHolds, Api, Worker, CanOpen
  <1>2. CASE EndPut(e)
    <2> DEFINE q == putter[e]
               row == [key |-> Api.current, login |-> q.login, pair |-> Prepared(q)]
    <2>1. /\ q.step = "put" /\ ~Locked(q.system)
          /\ pairs' = IF Prepared(q) > pairs THEN pairs + 1 ELSE pairs
          /\ secret' = [secret EXCEPT ![q.system] = row]
          /\ putter' = [putter EXCEPT ![e] = [step |-> "idle"]]
          /\ UNCHANGED <<keyring, procedure, rotation>>
      BY <1>2 DEF EndPut, SealingKey, Api
    <2>2. /\ q \in [step : {"put"}, system : Systems, login : Logins, own : BOOLEAN, before : SecretRows \union {NoSecret}]
          /\ pairs \in Nat
      BY <2>1 DEF CredentialsIInv, SecretTypes
    <2>3. Prepared(q) \in Nat
      BY <2>2 DEF Prepared, OwnPair, SecretRows
    <2>4. Api.current \in 1..LastMasterKey
      BY DEF CredentialsIInv, SecretTypes, Api, Apps, Rings
    <2>5. row \in SecretRows /\ row.key = Api.current
      BY <2>2, <2>3, <2>4 DEF SecretRows
    <2> HIDE DEF row
    <2>6. SecretTypes'
      BY <2>1, <2>2, <2>5 DEF CredentialsIInv, SecretTypes
    <2> QED BY <2>1, <2>2, <2>5, <2>6, WriteKeeps
  <1> QED BY <1>1, <1>2

\* Removing one.
LEMMA ClearKeepsCredentials ==
    ASSUME CredentialsIInv, NEW s \in Systems, ClearCredentials(s)
    PROVE  CredentialsIInv'
  <1>1. /\ ~Locked(s) /\ secret' = [secret EXCEPT ![s] = NoSecret]
        /\ UNCHANGED <<pairs, keyring, procedure, rotation, putter>>
    BY DEF ClearCredentials
  <1>2. SecretTypes'
    BY <1>1 DEF CredentialsIInv, SecretTypes
  <1> QED BY <1>1, <1>2, WriteKeeps

\* Step 2 of the procedure.
LEMMA UpdateKeeps ==
    ASSUME CredentialsIInv, NEW app \in Apps, UpdateApp(app)
    PROVE  CredentialsIInv'
  <1> DEFINE old == keyring[app].current
  <1>1. /\ procedure = "steady" \/ (procedure = "updating" /\ keyring[app].previous = NoKey)
        /\ old < LastMasterKey /\ Restarted(app, old + 1, old)
        /\ procedure' = IF procedure = "steady" THEN "updating" ELSE "both"
        /\ UNCHANGED <<secret, pairs>>
    BY DEF UpdateApp
  <1>2. /\ old \in 1..LastMasterKey /\ old + 1 \in 1..LastMasterKey /\ old \in 0..LastMasterKey
        /\ Api \in Rings /\ Worker \in Rings
    BY <1>1, CredentialsAssumption DEF CredentialsIInv, SecretTypes, Rings, Api, Worker, Apps
  <1>3. SecretTypes
    BY DEF CredentialsIInv
  <1>4. /\ SecretTypes'
        /\ keyring'[app].current = old + 1 /\ keyring'[app].previous = old
        /\ \A a \in Apps : a # app => keyring'[a] = keyring[a]
        /\ rotation'.busy => rotation.busy
    BY <1>1, <1>2, <1>3, RestartTypes
  <1>5. RotationHolds'
    BY <1>1, <1>4 DEF CredentialsIInv, RotationHolds
  <1>6. \A s \in Systems : secret[s] # NoSecret => secret[s].key \in 1..LastMasterKey /\ secret[s].key # NoKey
    BY SecretRowFacts DEF CredentialsIInv, SecretTypes
  <1>7. CASE app = "api"
    <2>1. /\ Api'.current = Api.current + 1 /\ Api'.previous = Api.current
          /\ Worker' = Worker
      BY <1>4, <1>7 DEF Api, Worker, Apps
    <2>2. \A s \in Systems : secret[s] # NoSecret => secret[s].key = Api.current
      BY <1>1, <1>6, <1>7 DEF CredentialsIInv, ApiOpens, KeysOf, CanOpen, Api
    <2>3. ApiOpens'
      BY <1>1, <2>1, <2>2 DEF ApiOpens, CanOpen
    <2>4. KeysOf'
      BY <1>1, <1>2, <1>7, <2>1 DEF CredentialsIInv, KeysOf, Api, Rings, NoKey
    <2> QED BY <1>4, <1>5, <2>3, <2>4 DEF CredentialsIInv
  <1>8. CASE app = "worker"
    <2>1. /\ Worker'.current = Worker.current + 1 /\ Worker'.previous = Worker.current
          /\ Api' = Api
      BY <1>4, <1>8 DEF Api, Worker, Apps
    <2>2. ApiOpens'
      BY <1>1, <2>1 DEF CredentialsIInv, ApiOpens, CanOpen
    <2>3. KeysOf'
      BY <1>1, <1>2, <1>8, <2>1 DEF CredentialsIInv, KeysOf, Worker, Rings, NoKey
    <2> QED BY <1>4, <1>5, <2>2, <2>3 DEF CredentialsIInv
  <1> QED BY <1>7, <1>8 DEF Apps

\* Step 3.
LEMMA RotateKeeps ==
    ASSUME CredentialsIInv, BeginRotate \/ EndRotate \/ KillRotate
    PROVE  CredentialsIInv'
  <1>1. CASE BeginRotate
    <2>1. /\ procedure = "both"
          /\ rotation' = [busy |-> TRUE, rows |-> [s \in Systems |-> IF Outstanding(s) THEN secret[s] ELSE NoSecret]]
          /\ UNCHANGED <<secret, pairs, keyring, procedure, putter>>
      BY <1>1 DEF BeginRotate
    <2>2. SecretTypes'
      BY <2>1 DEF CredentialsIInv, SecretTypes
    <2>3. RotationHolds'
      BY <2>1 DEF RotationHolds, Outstanding, Api
    <2> QED BY <2>1, <2>2, <2>3 DEF CredentialsIInv, ApiOpens, KeysOf, Api, Worker, CanOpen
  <1>2. CASE EndRotate
    <2> DEFINE rows  == {s \in Systems : rotation.rows[s] # NoSecret}
               opens == \A s \in rows : CanOpen(keyring["api"], rotation.rows[s])
    <2>1. /\ rotation.busy
          /\ secret' = [s \in Systems |-> IF opens /\ s \in rows
                            THEN [rotation.rows[s] EXCEPT !.key = SealingKey(keyring["api"])] ELSE secret[s]]
          /\ procedure' = IF opens THEN "rotated" ELSE procedure
          /\ rotation' = NotRotating
          /\ UNCHANGED <<pairs, keyring, putter>>
      BY <1>2 DEF EndRotate
    <2>2. Api.current \in 1..LastMasterKey /\ procedure = "both"
      BY <2>1 DEF CredentialsIInv, SecretTypes, Rings, Api, Apps, RotationHolds
    <2>3. \A s \in rows : rotation.rows[s] = secret[s] /\ secret[s] \in SecretRows
      BY <2>1 DEF CredentialsIInv, RotationHolds, SecretTypes
    <2>4. opens
      BY <2>3 DEF CredentialsIInv, ApiOpens, Api
    <2>5. \A s \in rows : secret'[s] \in SecretRows /\ secret'[s].key = Api.current
      BY <2>1, <2>2, <2>3, <2>4 DEF SealingKey, Api, SecretRows
    <2>6. \A s \in Systems \ rows : secret'[s] = secret[s]
                                    /\ (secret[s] # NoSecret => secret[s].key = Api.current)
      <3> SUFFICES ASSUME NEW s \in Systems, s \notin rows
                   PROVE  secret'[s] = secret[s] /\ (secret[s] # NoSecret => secret[s].key = Api.current)
        OBVIOUS
      <3>1. rotation.rows[s] = NoSecret
        OBVIOUS
      <3> QED BY <2>1, <3>1 DEF CredentialsIInv, RotationHolds
    <2>7. secret' \in [Systems -> SecretRows \union {NoSecret}]
      <3>1. DOMAIN secret' = Systems /\ secret' = [s \in Systems |-> secret'[s]]
        BY <2>1
      <3>2. \A s \in Systems : secret'[s] \in SecretRows \union {NoSecret}
        BY <2>5, <2>6 DEF CredentialsIInv, SecretTypes
      <3> QED BY <3>1, <3>2
    <2>8. SecretTypes'
      BY <2>1, <2>7 DEF CredentialsIInv, SecretTypes, NotRotating
    <2>9. \A s \in Systems : secret'[s] # NoSecret => secret'[s].key = Api.current
      BY <2>5, <2>6
    <2>10. ApiOpens'
      BY <2>1, <2>9 DEF ApiOpens, CanOpen, Api
    <2>11. KeysOf'
      BY <2>1, <2>2, <2>4, <2>9 DEF CredentialsIInv, KeysOf, Api, Worker
    <2>12. RotationHolds'
      BY <2>1 DEF RotationHolds, NotRotating
    <2> QED BY <2>8, <2>10, <2>11, <2>12 DEF CredentialsIInv
  <1>3. CASE KillRotate
    <2>1. rotation' = NotRotating /\ UNCHANGED <<secret, pairs, keyring, procedure, putter>>
      BY <1>3 DEF KillRotate
    <2>2. SecretTypes' /\ RotationHolds'
      BY <2>1 DEF CredentialsIInv, SecretTypes, NotRotating, RotationHolds
    <2> QED BY <2>1, <2>2 DEF CredentialsIInv, ApiOpens, KeysOf, Api, Worker, CanOpen
  <1> QED BY <1>1, <1>2, <1>3

\* Step 4.
LEMMA DropKeeps ==
    ASSUME CredentialsIInv, NEW app \in Apps, DropPrevious(app)
    PROVE  CredentialsIInv'
  <1> DEFINE current == keyring[app].current
  <1>1. /\ procedure = "rotated" /\ Restarted(app, current, NoKey)
        /\ procedure' = IF \A a \in Apps \ {app} : keyring[a].previous = NoKey THEN "steady" ELSE procedure
        /\ UNCHANGED <<secret, pairs>>
    BY DEF DropPrevious
  <1>2. current \in 1..LastMasterKey /\ NoKey \in 0..LastMasterKey
    BY CredentialsAssumption DEF CredentialsIInv, SecretTypes, Rings, NoKey
  <1>3. /\ SecretTypes'
        /\ keyring'[app].current = current /\ keyring'[app].previous = NoKey
        /\ \A a \in Apps : a # app => keyring'[a] = keyring[a]
        /\ rotation'.busy => rotation.busy
    BY <1>1, <1>2, RestartTypes DEF CredentialsIInv
  <1>4. RotationHolds'
    BY <1>1, <1>3 DEF CredentialsIInv, RotationHolds
  <1>5. /\ Api'.current = Api.current /\ Worker'.current = Worker.current /\ Api.current = Worker.current
        /\ \A s \in Systems : secret[s] # NoSecret => secret[s].key = Api.current
    BY <1>1, <1>3 DEF CredentialsIInv, KeysOf, Api, Worker, Apps
  <1>6. ApiOpens'
    BY <1>1, <1>5 DEF ApiOpens, CanOpen
  <1>7. procedure' = "steady" => Api'.previous = NoKey /\ Worker'.previous = NoKey
    BY <1>1, <1>3 DEF Api, Worker, Apps
  <1>8. KeysOf'
    BY <1>1, <1>5, <1>7 DEF KeysOf
  <1> QED BY <1>3, <1>4, <1>6, <1>8 DEF CredentialsIInv

\* Every step keeps the invariant.
LEMMA CredentialsNextHolds == CredentialsIInv /\ [CredentialsNext]_secretVars => CredentialsIInv'
  <1> SUFFICES ASSUME CredentialsIInv, [CredentialsNext]_secretVars PROVE CredentialsIInv'
    OBVIOUS
  <1>1. CASE UNCHANGED secretVars
    BY <1>1 DEF secretVars, CredentialsIInv, SecretTypes, ApiOpens, KeysOf, RotationHolds, Api, Worker, CanOpen
  <1> QED BY <1>1, PutKeepsCredentials, ClearKeepsCredentials, UpdateKeeps, RotateKeeps, DropKeeps DEF CredentialsNext

\* It always holds.
LEMMA CredentialsIInvHolds == CredentialsSpec => []CredentialsIInv
<1> QED BY CredentialsInitHolds, CredentialsNextHolds, PTL DEF CredentialsSpec

-----------------------------------------------------------------------------
(* How many client pairs are made. *)

\* What a client pair of a row is no later than.
PairsMade(row) == row # NoSecret => row.pair <= pairs

\* No more pairs are made, or may be, than there are.
PairsBound ==
    /\ IsFiniteSet(Making) /\ pairs + Cardinality(Making) <= LastPair
    /\ \A s \in Systems : PairsMade(secret[s]) /\ PairsMade(rotation.rows[s])
    /\ \A e \in Putters : putter[e].step = "put" => PairsMade(putter[e].before)

\* No requests, no pairs to be made.
LEMMA NoMaking == (\A e \in Putters : putter[e].step = "idle") => Making = {}
  BY DEF Making

\* Fewer requests may make fewer pairs.
LEMMA FewerMaking ==
    ASSUME PairsBound, SecretTypes, UNCHANGED pairs, Making' \subseteq Making
    PROVE  IsFiniteSet(Making') /\ pairs' + Cardinality(Making') <= LastPair
  <1> DEFINE S == Making
             T == Making'
  <1>1. IsFiniteSet(S) /\ T \subseteq S /\ pairs \in Nat /\ pairs + Cardinality(S) <= LastPair
    BY DEF PairsBound, SecretTypes
  <1> HIDE DEF S, T
  <1>2. IsFiniteSet(T) /\ Cardinality(T) <= Cardinality(S) /\ Cardinality(T) \in Nat /\ Cardinality(S) \in Nat
    BY <1>1, FS_Subset, FS_CardinalityType
  <1>3. pairs + Cardinality(T) <= LastPair
    BY <1>1, <1>2, CredentialsAssumption
  <1> QED
    BY <1>2, <1>3 DEF T

\* At the start there are none.
LEMMA PairsInit == CredentialsInit => PairsBound
  <1> SUFFICES ASSUME CredentialsInit PROVE PairsBound
    OBVIOUS
  <1>1. \A e \in Putters : putter[e].step = "idle"
    BY DEF CredentialsInit, AllIdle
  <1>2. Making = {} /\ pairs = 0
    BY <1>1, NoMaking DEF CredentialsInit
  <1>3. IsFiniteSet(Making) /\ Cardinality(Making) = 0
    BY <1>2, FS_EmptySet
  <1>4. pairs + Cardinality(Making) <= LastPair
    BY <1>2, <1>3, CredentialsAssumption
  <1> QED
    BY <1>1, <1>3, <1>4 DEF CredentialsInit, PairsBound, PairsMade, NotRotating

\* A request reads what is stored, and may come to make a pair.
LEMMA BeginPutBound ==
    ASSUME CredentialsIInv, PairsBound, NEW e \in Putters, BeginPut(e)
    PROVE  PairsBound'
  <1>1. PICK s \in Systems, login \in Logins, own \in BOOLEAN :
          /\ (secret[s] = NoSecret /\ ~own) => pairs + Cardinality(Making) < LastPair
          /\ putter' = [putter EXCEPT ![e] =
                [step |-> "put", system |-> s, login |-> login, own |-> own,
                 before |-> IF CanOpen(keyring["api"], secret[s]) THEN secret[s] ELSE NoSecret]]
    BY DEF BeginPut
  <1>2. UNCHANGED <<secret, pairs, keyring, procedure, rotation>> /\ putter[e].step = "idle"
    BY DEF BeginPut
  <1> DEFINE before == IF CanOpen(keyring["api"], secret[s]) THEN secret[s] ELSE NoSecret
             r == [step |-> "put", system |-> s, login |-> login, own |-> own, before |-> before]
  <1>3. before = secret[s]
    BY DEF CredentialsIInv, ApiOpens, Api
  <1>4. putter' = [putter EXCEPT ![e] = r] /\ r.step = "put" /\ r.own = own /\ r.before = secret[s]
    BY <1>1, <1>3
  <1> HIDE DEF r, before
  <1>5. putter'[e] = r /\ \A f \in Putters \ {e} : putter'[f] = putter[f]
    BY <1>4 DEF CredentialsIInv, SecretTypes
  <1>6. \A f \in Putters : putter'[f].step = "put" => PairsMade(putter'[f].before)
    BY <1>4, <1>5 DEF PairsBound
  <1>7. IsFiniteSet(Making') /\ pairs' + Cardinality(Making') <= LastPair
    <2>1. CASE secret[s] = NoSecret /\ ~own
      <3> DEFINE S == Making
      <3>1. Making' = S \union {e} /\ e \notin S
        BY <1>2, <1>4, <1>5, <2>1 DEF Making
      <3>2. IsFiniteSet(S) /\ pairs \in Nat /\ pairs + Cardinality(S) < LastPair
        BY <1>1, <2>1 DEF PairsBound, CredentialsIInv, SecretTypes
      <3>3. pairs' = pairs
        BY <1>2
      <3> HIDE DEF S
      <3>4. IsFiniteSet(S \union {e}) /\ Cardinality(S \union {e}) = Cardinality(S) + 1 /\ Cardinality(S) \in Nat
        BY <3>1, <3>2, FS_AddElement, FS_CardinalityType
      <3>5. pairs + Cardinality(S \union {e}) <= LastPair
        BY <3>2, <3>4, CredentialsAssumption
      <3> QED
        BY <3>1, <3>3, <3>4, <3>5
    <2>2. CASE secret[s] # NoSecret \/ own
      <3> Making' \subseteq Making
        BY <1>4, <1>5, <2>2 DEF Making
      <3> QED
        BY <1>2, FewerMaking DEF CredentialsIInv
    <2> QED
      BY <2>1, <2>2
  <1> QED
    BY <1>2, <1>6, <1>7 DEF PairsBound, PairsMade

\* The pair that was to be made is.
LEMMA EndPutBound ==
    ASSUME CredentialsIInv, PairsBound, NEW e \in Putters, EndPut(e)
    PROVE  PairsBound'
  <1> DEFINE q == putter[e]
             row == [key |-> SealingKey(keyring["api"]), login |-> q.login, pair |-> Prepared(q)]
  <1>1. /\ q.step = "put"
        /\ pairs' = IF Prepared(q) > pairs THEN pairs + 1 ELSE pairs
        /\ secret' = [secret EXCEPT ![q.system] = row]
        /\ putter' = [putter EXCEPT ![e] = [step |-> "idle"]]
        /\ UNCHANGED <<keyring, procedure, rotation>>
    BY DEF EndPut
  <1>2. /\ q \in [step : {"put"}, system : Systems, login : Logins, own : BOOLEAN, before : SecretRows \union {NoSecret}]
        /\ pairs \in Nat
    BY <1>1 DEF CredentialsIInv, SecretTypes
  <1>3. q.before # NoSecret => q.before.pair \in Nat /\ q.before.pair <= pairs
    <2>1. q.before \in SecretRows \union {NoSecret} /\ PairsMade(q.before)
      BY <1>1, <1>2 DEF PairsBound
    <2> HIDE DEF q
    <2> QED
      BY <2>1 DEF PairsMade, SecretRows
  <1>4. /\ Prepared(q) \in Nat /\ Prepared(q) <= pairs'
        /\ pairs' \in Nat /\ pairs <= pairs'
        /\ e \notin Making => pairs' = pairs
        /\ pairs' <= pairs + 1
    <2>1. q.own \in BOOLEAN
      BY <1>2
    <2>2. e \in Making <=> ~q.own /\ q.before = NoSecret
      BY <1>1 DEF Making
    <2> HIDE DEF q
    <2> QED
      BY <1>1, <1>2, <1>3, <2>1, <2>2 DEF Prepared, OwnPair
  <1>5. row.pair = Prepared(q)
    OBVIOUS
  <1>6. /\ putter'[e].step = "idle" /\ \A f \in Putters \ {e} : putter'[f] = putter[f]
        /\ Making' = Making \ {e}
    <2>1. putter'[e].step = "idle" /\ \A f \in Putters \ {e} : putter'[f] = putter[f]
      BY <1>1 DEF CredentialsIInv, SecretTypes
    <2> QED
      BY <2>1 DEF Making
  <1>7. IsFiniteSet(Making') /\ pairs' + Cardinality(Making') <= LastPair
    <2>1. CASE e \in Making
      <3> DEFINE S == Making
      <3>1. IsFiniteSet(S) /\ pairs + Cardinality(S) <= LastPair /\ e \in S /\ Making' = S \ {e}
        BY <1>6, <2>1 DEF PairsBound
      <3> HIDE DEF S
      <3>2. IsFiniteSet(S \ {e}) /\ Cardinality(S \ {e}) = Cardinality(S) - 1 /\ Cardinality(S) \in Nat
        BY <3>1, FS_RemoveElement, FS_CardinalityType
      <3>3. pairs' + Cardinality(S \ {e}) <= LastPair
        BY <1>2, <1>4, <3>1, <3>2, CredentialsAssumption
      <3> QED
        BY <3>1, <3>2, <3>3
    <2>2. CASE e \notin Making
      <3> UNCHANGED pairs /\ Making' \subseteq Making
        BY <1>4, <1>6, <2>2
      <3> QED
        BY FewerMaking DEF CredentialsIInv
    <2> QED
      BY <2>1, <2>2
  <1>8. \A o \in SecretRows \union {NoSecret} : PairsMade(o) => PairsMade(o)'
    BY <1>2, <1>4 DEF PairsMade, SecretRows
  <1>9. \A s \in Systems : PairsMade(secret[s])' /\ PairsMade(rotation.rows[s])'
    <2> SUFFICES ASSUME NEW s \in Systems PROVE PairsMade(secret[s])' /\ PairsMade(rotation.rows[s])'
      OBVIOUS
    <2>1. secret[s] \in SecretRows \union {NoSecret} /\ rotation.rows[s] \in SecretRows \union {NoSecret}
          /\ PairsMade(secret[s]) /\ PairsMade(rotation.rows[s])
      BY DEF CredentialsIInv, SecretTypes, PairsBound
    <2>2. secret'[s] = secret[s] \/ secret'[s] = row
      BY <1>1 DEF CredentialsIInv, SecretTypes
    <2> HIDE DEF row
    <2> QED
      BY <1>1, <1>4, <1>5, <1>8, <2>1, <2>2 DEF PairsMade
  <1>10. \A f \in Putters : putter'[f].step = "put" => PairsMade(putter[f].before)' /\ putter'[f] = putter[f]
    <2> SUFFICES ASSUME NEW f \in Putters, putter'[f].step = "put" PROVE PairsMade(putter[f].before)' /\ putter'[f] = putter[f]
      OBVIOUS
    <2>1. f # e /\ putter'[f] = putter[f] /\ putter[f].step = "put"
      BY <1>6
    <2>2. putter[f].before \in SecretRows \union {NoSecret} /\ PairsMade(putter[f].before)
      BY <2>1 DEF CredentialsIInv, SecretTypes, PairsBound
    <2> QED
      BY <1>8, <2>1, <2>2
  <1> QED
    BY <1>7, <1>9, <1>10 DEF PairsBound

\* Everything else makes no pair.
LEMMA OthersBound ==
    ASSUME CredentialsIInv, PairsBound, UNCHANGED pairs,
           putter' = putter \/ putter' = AllIdle,
           \A s \in Systems : PairsMade(secret'[s]) /\ PairsMade(rotation'.rows[s])
    PROVE  PairsBound'
  <1>1. Making' \subseteq Making
    BY DEF Making, AllIdle
  <1>2. \A e \in Putters : putter'[e].step = "put" => PairsMade(putter'[e].before)
    BY DEF AllIdle, PairsBound
  <1>3. IsFiniteSet(Making') /\ pairs' + Cardinality(Making') <= LastPair
    BY <1>1, FewerMaking DEF CredentialsIInv
  <1> QED
    BY <1>2, <1>3 DEF PairsBound, PairsMade

\* Every step keeps the bound.
LEMMA PairsStep ==
    ASSUME CredentialsIInv, PairsBound, [CredentialsNext]_secretVars
    PROVE  PairsBound'
  <1>0. /\ \A s \in Systems : PairsMade(secret[s]) /\ PairsMade(rotation.rows[s])
        /\ PairsMade(NoSecret)
    BY DEF PairsBound, PairsMade
  <1>1. CASE UNCHANGED secretVars
    BY <1>0, <1>1, OthersBound DEF secretVars
  <1>2. ASSUME NEW s \in Systems, ClearCredentials(s) PROVE PairsBound'
    <2>1. /\ UNCHANGED <<pairs, putter, rotation>>
          /\ \A q \in Systems : secret'[q] = secret[q] \/ secret'[q] = NoSecret
      BY <1>2 DEF ClearCredentials, CredentialsIInv, SecretTypes
    <2> QED
      BY <1>0, <2>1, OthersBound
  <1>3. ASSUME NEW app \in Apps, UpdateApp(app) \/ DropPrevious(app) PROVE PairsBound'
    <2>1. UNCHANGED <<secret, pairs>> /\ (putter' = putter \/ putter' = AllIdle) /\ rotation' \in {rotation, NotRotating}
      BY <1>3 DEF UpdateApp, DropPrevious, Restarted
    <2>2. \A s \in Systems : rotation'.rows[s] = rotation.rows[s] \/ rotation'.rows[s] = NoSecret
      BY <2>1 DEF NotRotating
    <2> QED
      BY <1>0, <2>1, <2>2, OthersBound
  <1>4. CASE BeginRotate
    <2>1. UNCHANGED <<secret, pairs, putter>> /\ \A s \in Systems : rotation'.rows[s] = secret[s] \/ rotation'.rows[s] = NoSecret
      BY <1>4 DEF BeginRotate
    <2> QED
      BY <1>0, <2>1, OthersBound
  <1>5. CASE EndRotate
    <2>1. /\ UNCHANGED <<pairs, putter>> /\ rotation' = NotRotating
          /\ \A s \in Systems : \/ secret'[s] = secret[s]
                                \/ /\ rotation.rows[s] # NoSecret
                                   /\ secret'[s] = [rotation.rows[s] EXCEPT !.key = SealingKey(keyring["api"])]
      BY <1>5 DEF EndRotate
    <2>2. ASSUME NEW s \in Systems PROVE PairsMade(secret'[s]) /\ PairsMade(rotation'.rows[s])
      <3> DEFINE o == rotation.rows[s]
      <3>1. o \in SecretRows \union {NoSecret} /\ PairsMade(o) /\ PairsMade(secret[s])
        BY <1>0 DEF CredentialsIInv, SecretTypes
      <3>2. secret'[s] = secret[s] \/ (o # NoSecret /\ secret'[s] = [o EXCEPT !.key = SealingKey(keyring["api"])])
        BY <2>1
      <3> HIDE DEF o
      <3>3. PairsMade(secret'[s])
        BY <3>1, <3>2 DEF PairsMade, SecretRows
      <3> QED
        BY <1>0, <2>1, <3>3 DEF NotRotating
    <2> QED
      BY <2>1, <2>2, OthersBound
  <1>6. CASE KillRotate
    <2>1. UNCHANGED <<secret, pairs, putter>> /\ rotation' = NotRotating
      BY <1>6 DEF KillRotate
    <2> QED
      BY <1>0, <2>1, OthersBound DEF NotRotating
  <1> QED
    BY <1>1, <1>2, <1>3, <1>4, <1>5, <1>6, BeginPutBound, EndPutBound DEF CredentialsNext

\* Rows, rotations and requests are what the type says: a row names a client pair that was made,
\* and requests that overlap make no more than are counted for them.
THEOREM CredentialsTypeCorrect == CredentialsSpec => []CredentialsTypeOK
  <1>1. CredentialsIInv /\ PairsBound => CredentialsTypeOK
    <2> SUFFICES ASSUME CredentialsIInv, PairsBound PROVE CredentialsTypeOK
      OBVIOUS
    <2>1. pairs \in 0..LastPair
      <3>1. Cardinality(Making) \in Nat /\ pairs \in Nat /\ pairs + Cardinality(Making) <= LastPair
        BY FS_CardinalityType DEF PairsBound, CredentialsIInv, SecretTypes
      <3> QED
        BY <3>1, CredentialsAssumption
    <2>2. ASSUME NEW o \in SecretRows \union {NoSecret}, PairsMade(o) PROVE o \in Sealed \union {NoSecret}
      <3> SUFFICES ASSUME o # NoSecret PROVE o \in Sealed
        OBVIOUS
      <3>1. o \in SecretRows /\ o.pair \in Nat /\ o.pair <= pairs
        BY <2>2 DEF PairsMade, SecretRows
      <3>2. o.pair \in 0..LastPair
        BY <2>1, <3>1, CredentialsAssumption
      <3> QED
        BY <3>1, <3>2 DEF SecretRows, Sealed
    <2>3. SecretTypes
      BY DEF CredentialsIInv
    <2>4. secret \in [Systems -> Sealed \union {NoSecret}]
      BY <2>2, <2>3 DEF SecretTypes, PairsBound
    <2>5. rotation \in [busy : BOOLEAN, rows : [Systems -> Sealed \union {NoSecret}]]
      <3>1. rotation \in [busy : BOOLEAN, rows : [Systems -> SecretRows \union {NoSecret}]]
        BY <2>3 DEF SecretTypes
      <3>2. rotation.rows \in [Systems -> Sealed \union {NoSecret}]
        BY <2>2, <3>1 DEF PairsBound
      <3> QED
        BY <3>1, <3>2
    <2>6. ASSUME NEW e \in Putters
          PROVE  putter[e] \in [step : {"idle"}] \union
                   [step : {"put"}, system : Systems, login : Logins, own : BOOLEAN, before : Sealed \union {NoSecret}]
      <3> DEFINE q == putter[e]
      <3>1. q \in [step : {"idle"}] \union
                [step : {"put"}, system : Systems, login : Logins, own : BOOLEAN, before : SecretRows \union {NoSecret}]
        BY <2>3 DEF SecretTypes
      <3>2. q.step = "put" => PairsMade(q.before)
        BY DEF PairsBound
      <3> HIDE DEF q
      <3>3. CASE q \in [step : {"put"}, system : Systems, login : Logins, own : BOOLEAN, before : SecretRows \union {NoSecret}]
        <4>1. q.before \in Sealed \union {NoSecret}
          BY <2>2, <3>2, <3>3
        <4> QED
          BY <3>3, <4>1 DEF q
      <3> QED
        BY <3>1, <3>3 DEF q
    <2>7. \A s \in Systems : secret[s] # NoSecret => secret[s].pair <= pairs
      BY DEF PairsBound, PairsMade
    <2> QED
      BY <2>1, <2>3, <2>4, <2>5, <2>6, <2>7 DEF CredentialsTypeOK, SecretTypes, Rings
  <1>2. PairsBound /\ CredentialsIInv /\ [CredentialsNext]_secretVars => PairsBound'
    BY PairsStep
  <1> QED
    BY <1>1, <1>2, PairsInit, CredentialsIInvHolds, PTL DEF CredentialsSpec

-----------------------------------------------------------------------------
\* But for the time between the two restarts of step 2, every stored row opens in both apps
\* (deploy/caprover.md, step 2; services/sources.py and secrets/__init__.py).
THEOREM StoredOpensTheorem == CredentialsSpec => []StoredOpens
<1>1. CredentialsIInv => StoredOpens
  <2> SUFFICES ASSUME CredentialsIInv, procedure # "updating", NEW s \in Systems, NEW a \in Apps,
                      secret[s] # NoSecret
               PROVE  CanOpen(keyring[a], secret[s])
    BY DEF StoredOpens
  <2>1. CanOpen(Api, secret[s]) /\ secret[s].key # NoKey
    BY SecretRowFacts DEF CredentialsIInv, ApiOpens, SecretTypes
  <2>2. CASE a = "api"
    BY <2>1, <2>2 DEF Api
  <2>3. CASE a = "worker"
    BY <2>1, <2>3 DEF CredentialsIInv, SecretTypes, KeysOf, Api, Worker, CanOpen
  <2> QED BY <2>2, <2>3 DEF Apps
<1> QED BY <1>1, CredentialsIInvHolds, PTL

\* The end of a rotation, and the death of one, leave what a person stored, but for its key.
THEOREM RotateTheorem == CredentialsSpec => RotateKeepsCredentials
<1>1. ASSUME CredentialsIInv, [CredentialsNext]_secretVars, rotation.busy, ~rotation'.busy, NEW s \in Systems
      PROVE  \/ secret'[s] = secret[s]
             \/ secret[s] # NoSecret /\ secret'[s] = [secret[s] EXCEPT !.key = secret'[s].key]
  <2>1. procedure = "both" /\ (rotation.rows[s] = secret[s] \/ rotation.rows[s] = NoSecret)
    BY <1>1 DEF CredentialsIInv, RotationHolds
  <2>2. CASE EndRotate
    <3>1. \/ secret'[s] = secret[s]
          \/ /\ rotation.rows[s] # NoSecret
             /\ secret'[s] = [rotation.rows[s] EXCEPT !.key = SealingKey(keyring["api"])]
      BY <2>2 DEF EndRotate
    <3>2. CASE rotation.rows[s] # NoSecret /\ secret'[s] = [secret[s] EXCEPT !.key = SealingKey(keyring["api"])]
      <4>1. secret[s] \in SecretRows
        BY <1>1, <2>1, <3>2 DEF CredentialsIInv, SecretTypes
      <4>2. secret'[s].key = SealingKey(keyring["api"])
        BY <3>2, <4>1 DEF SecretRows
      <4> QED BY <2>1, <3>2, <4>2
    <3> QED BY <2>1, <3>1, <3>2
  <2>3. CASE KillRotate
    BY <2>3 DEF KillRotate
  <2>4. CASE BeginRotate \/ (\E e \in Putters : BeginPut(e) \/ EndPut(e)) \/ (\E q \in Systems : ClearCredentials(q))
             \/ UNCHANGED secretVars
    BY <1>1, <2>4 DEF BeginRotate, BeginPut, EndPut, ClearCredentials, secretVars
  <2>5. ASSUME NEW app \in Apps PROVE ~UpdateApp(app) /\ ~DropPrevious(app)
    BY <2>1 DEF UpdateApp, DropPrevious
  <2> QED BY <1>1, <2>2, <2>3, <2>4, <2>5 DEF CredentialsNext
<1>2. CredentialsIInv /\ [CredentialsNext]_secretVars =>
        (rotation.busy /\ ~rotation'.busy =>
          \A s \in Systems : secret'[s] = secret[s] \/ (secret[s] # NoSecret /\ secret'[s] = [secret[s] EXCEPT !.key = secret'[s].key]))
  BY <1>1
<1> QED BY <1>2, CredentialsIInvHolds, PTL DEF CredentialsSpec, RotateKeepsCredentials

-----------------------------------------------------------------------------
(* Authorization: no request is allowed more than its person had at some moment of the check, and
   the ways to ask for a role agree. *)

MaybeRoles    == WorkspaceRoles \union {"none"}
MaybeOrgRoles == OrgRoles \union {"none"}

\* The highest role of a set is one of them, or none, and as high as each.
LEMMA HighestFacts ==
    ASSUME NEW roles \in SUBSET MaybeRoles
    PROVE  /\ Highest(roles) \in roles \union {"none"}
           /\ \A s \in roles \union {"none"} : RANK[s] <= RANK[Highest(roles)]
  <1>1. \E r \in roles \union {"none"} : \A s \in roles \union {"none"} : RANK[s] <= RANK[r]
    <2>1. CASE "admin" \in roles
      BY <2>1 DEF MaybeRoles, WorkspaceRoles, RANK
    <2>2. CASE "admin" \notin roles /\ "editor" \in roles
      BY <2>2 DEF MaybeRoles, WorkspaceRoles, RANK
    <2>3. CASE "admin" \notin roles /\ "editor" \notin roles /\ "viewer" \in roles
      BY <2>3 DEF MaybeRoles, WorkspaceRoles, RANK
    <2>4. CASE roles \subseteq {"none"}
      BY <2>4 DEF RANK
    <2> QED BY <2>1, <2>2, <2>3, <2>4 DEF MaybeRoles, WorkspaceRoles
  <1> QED BY <1>1 DEF Highest

\* Ranks are numbers.
LEMMA RankFact == \A r \in MaybeRoles : RANK[r] \in 0..3
  BY DEF MaybeRoles, WorkspaceRoles, RANK

\* What a person's role is made of.
Parts(org, own, viaTeams) ==
    {own} \union viaTeams \union (IF org \in {"owner", "admin"} THEN {"admin"} ELSE {})

\* A role is one of those it is made of, and as high as each; outside the org there is none.
LEMMA EffectiveFacts ==
    ASSUME NEW org \in MaybeOrgRoles, NEW own \in MaybeRoles, NEW viaTeams \in SUBSET MaybeRoles
    PROVE  /\ Effective(org, own, viaTeams) \in MaybeRoles
           /\ org = "none" => Effective(org, own, viaTeams) = "none"
           /\ org # "none" =>
                /\ Effective(org, own, viaTeams) \in Parts(org, own, viaTeams) \union {"none"}
                /\ \A s \in Parts(org, own, viaTeams) : RANK[s] <= RANK[Effective(org, own, viaTeams)]
  <1>1. Parts(org, own, viaTeams) \in SUBSET MaybeRoles
    BY DEF Parts, MaybeRoles, WorkspaceRoles
  <1>2. /\ Highest(Parts(org, own, viaTeams)) \in Parts(org, own, viaTeams) \union {"none"}
        /\ \A s \in Parts(org, own, viaTeams) : RANK[s] <= RANK[Highest(Parts(org, own, viaTeams))]
    BY <1>1, HighestFacts
  <1>3. Effective(org, own, viaTeams) = IF org = "none" THEN "none" ELSE Highest(Parts(org, own, viaTeams))
    BY DEF Effective, Parts
  <1> QED BY <1>1, <1>2, <1>3 DEF MaybeRoles

-----------------------------------------------------------------------------
(* Types *)

\* The state but for what a request has read, with the types of its parts by name.
StateTypes ==
    /\ orgRole \in MaybeOrgRoles
    /\ direct \in [Workspaces -> MaybeRoles]
    /\ inTeam \subseteq Teams
    /\ teamRole \in [Teams -> [Workspaces -> MaybeRoles]]
    /\ held \in MaybeRoles

\* The role of this moment, made of what is stored.
LEMMA RoleNowFacts ==
    ASSUME StateTypes, NEW w \in Workspaces
    PROVE  /\ TeamRolesIn(w) \in SUBSET MaybeRoles /\ direct[w] \in MaybeRoles
           /\ RoleNow(w) \in MaybeRoles
           /\ orgRole = "none" => RoleNow(w) = "none"
           /\ orgRole # "none" =>
                /\ RoleNow(w) \in Parts(orgRole, direct[w], TeamRolesIn(w)) \union {"none"}
                /\ \A s \in Parts(orgRole, direct[w], TeamRolesIn(w)) : RANK[s] <= RANK[RoleNow(w)]
  <1>1. TeamRolesIn(w) \in SUBSET MaybeRoles /\ direct[w] \in MaybeRoles
    BY DEF StateTypes, TeamRolesIn
  <1> QED BY <1>1, EffectiveFacts DEF StateTypes, RoleNow

\* Every state has the declared types.
THEOREM AuthzTypeCorrect == AuthzSpec => []AuthzTypeOK
<1>1. AuthzInit => AuthzTypeOK
  BY DEF AuthzInit, AuthzTypeOK, Unasked
<1>2. AuthzTypeOK /\ [AuthzNext]_authzVars => AuthzTypeOK'
  <2> SUFFICES ASSUME AuthzTypeOK, [AuthzNext]_authzVars PROVE AuthzTypeOK'
    OBVIOUS
  <2>0. StateTypes
    BY DEF AuthzTypeOK, StateTypes, MaybeRoles, MaybeOrgRoles
  <2>a. ASSUME StateTypes', asked' = asked PROVE AuthzTypeOK'
    BY <2>a DEF AuthzTypeOK, StateTypes, MaybeRoles, MaybeOrgRoles
  <2>w. ASSUME Watched, orgRole' \in MaybeOrgRoles, direct' \in [Workspaces -> MaybeRoles], inTeam' \subseteq Teams,
               teamRole' \in [Teams -> [Workspaces -> MaybeRoles]], asked' = asked
        PROVE  StateTypes'
    <3>1. held' \in MaybeRoles
      <4>1. CASE asked.step = "idle"
        BY <2>0, <2>w, <4>1 DEF Watched, StateTypes
      <4>2. CASE asked.step # "idle"
        <5>1. asked.workspace \in Workspaces
          BY <4>2 DEF AuthzTypeOK, Unasked
        <5> DEFINE via == {teamRole'[t][asked.workspace] : t \in inTeam'}
        <5>2. via \in SUBSET MaybeRoles /\ direct'[asked.workspace] \in MaybeRoles
          BY <2>w, <5>1
        <5> DEFINE now == Effective(orgRole', direct'[asked.workspace], via)
        <5>3. now \in MaybeRoles
          BY <2>w, <5>2, EffectiveFacts
        <5>4. held' = Highest({held, now})
          BY <2>w, <4>2 DEF Watched
        <5>5. {held, now} \in SUBSET MaybeRoles
          BY <2>0, <5>3 DEF StateTypes
        <5> QED BY <5>4, <5>5, HighestFacts DEF MaybeRoles
      <4> QED BY <4>1, <4>2
    <3> QED BY <2>w, <3>1 DEF StateTypes
  <2>1. CASE SetOrgRole
    BY <2>0, <2>1, <2>a, <2>w DEF SetOrgRole, StateTypes, MaybeOrgRoles
  <2>2. CASE LeaveOrg
    <3>1. direct' \in [Workspaces -> MaybeRoles] /\ orgRole' \in MaybeOrgRoles
      BY <2>2 DEF LeaveOrg, MaybeRoles, MaybeOrgRoles
    <3> QED BY <2>0, <2>2, <3>1, <2>a, <2>w DEF LeaveOrg, StateTypes
  <2>3. CASE SetDirect
    <3>1. direct' \in [Workspaces -> MaybeRoles]
      BY <2>0, <2>3 DEF SetDirect, StateTypes, MaybeRoles
    <3> QED BY <2>0, <2>3, <3>1, <2>a, <2>w DEF SetDirect, StateTypes
  <2>4. CASE SetTeam
    BY <2>0, <2>4, <2>a, <2>w DEF SetTeam, StateTypes
  <2>5. CASE SetTeamRole
    <3>1. teamRole' \in [Teams -> [Workspaces -> MaybeRoles]]
      <4>1. PICK t \in Teams, w \in Workspaces, r \in MaybeRoles : teamRole' = [teamRole EXCEPT ![t][w] = r]
        BY <2>5 DEF SetTeamRole, MaybeRoles
      <4>2. [teamRole[t] EXCEPT ![w] = r] \in [Workspaces -> MaybeRoles]
        BY <2>0 DEF StateTypes
      <4> QED BY <2>0, <4>1, <4>2 DEF StateTypes
    <3> QED BY <2>0, <2>5, <3>1, <2>a, <2>w DEF SetTeamRole, StateTypes
  <2>6. CASE ReadOrgRole
    <3>1. PICK w \in Workspaces : asked' = [step |-> "direct", workspace |-> w, org |-> orgRole] /\ held' = RoleNow(w)
      BY <2>6 DEF ReadOrgRole
    <3>2. held' \in MaybeRoles
      BY <2>0, <3>1, RoleNowFacts
    <3> QED BY <2>6, <3>1, <3>2 DEF ReadOrgRole, AuthzTypeOK, MaybeRoles
  <2>7. CASE ReadDirect
    <3>1. asked.workspace \in Workspaces /\ asked.org \in MaybeOrgRoles
      BY <2>7 DEF ReadDirect, AuthzTypeOK, Unasked, MaybeOrgRoles
    <3>2. direct[asked.workspace] \in MaybeRoles
      BY <2>0, <3>1 DEF StateTypes
    <3> QED BY <2>7, <3>1, <3>2 DEF ReadDirect, AuthzTypeOK, MaybeRoles, MaybeOrgRoles
  <2>8. CASE ReadTeams
    <3>1. asked.workspace \in Workspaces /\ asked.org \in MaybeOrgRoles /\ asked.own \in MaybeRoles
      BY <2>8 DEF ReadTeams, AuthzTypeOK, Unasked, MaybeOrgRoles, MaybeRoles
    <3>2. Effective(asked.org, asked.own, TeamRolesIn(asked.workspace)) \in MaybeRoles
      BY <2>0, <3>1, RoleNowFacts, EffectiveFacts
    <3> QED BY <2>8, <3>1, <3>2 DEF ReadTeams, AuthzTypeOK, MaybeRoles
  <2>9. CASE AnswerAsked
    BY <2>9 DEF AnswerAsked, AuthzTypeOK
  <2>10. CASE UNCHANGED authzVars
    BY <2>10 DEF authzVars, AuthzTypeOK
  <2> QED BY <2>1, <2>2, <2>3, <2>4, <2>5, <2>6, <2>7, <2>8, <2>9, <2>10 DEF AuthzNext
<1> QED BY <1>1, <1>2, PTL DEF AuthzSpec

-----------------------------------------------------------------------------
(* Safety *)

\* Who is not in the org has no grant and is in no team.
OnlyMembersHave == orgRole = "none" => inTeam = {} /\ \A w \in Workspaces : direct[w] = "none"

\* The role of every moment of the check is remembered.
Watching == asked.step # "idle" => RANK[RoleNow(asked.workspace)] <= RANK[held]

\* What was read so far gives no more than that.
ReadWasHeld ==
    /\ asked.step \in {"direct", "teams"} /\ asked.org \in {"owner", "admin"} => RANK["admin"] <= RANK[held]
    /\ asked.step = "teams" => RANK[asked.own] <= RANK[held]

AuthzIInv == OnlyMembersHave /\ Watching /\ ReadWasHeld /\ GrantedWasHeld

\* A grant, own or of a team, is no more than the role of this moment.
LEMMA GrantsAreRoles ==
    ASSUME StateTypes, OnlyMembersHave, NEW w \in Workspaces
    PROVE  \A s \in TeamRolesIn(w) \union {direct[w]} : RANK[s] <= RANK[RoleNow(w)]
  <1>1. CASE orgRole = "none"
    <2>1. TeamRolesIn(w) = {} /\ direct[w] = "none" /\ RoleNow(w) = "none"
      BY <1>1, RoleNowFacts DEF OnlyMembersHave, TeamRolesIn
    <2> QED BY <2>1 DEF RANK
  <1>2. CASE orgRole # "none"
    BY <1>2, RoleNowFacts DEF Parts
  <1> QED BY <1>1, <1>2

\* A change while a request is being authorized raises what is remembered, if need be.
LEMMA WatchedFacts ==
    ASSUME AuthzTypeOK, AuthzTypeOK', Watched, asked' = asked, asked.step # "idle"
    PROVE  /\ RANK[held] <= RANK[held']
           /\ RANK[RoleNow(asked.workspace)'] <= RANK[held']
  <1> DEFINE w == asked.workspace
  <1>1. w \in Workspaces
    BY DEF AuthzTypeOK, Unasked
  <1>2. StateTypes /\ StateTypes'
    BY DEF AuthzTypeOK, StateTypes, MaybeRoles, MaybeOrgRoles
  <1>3. held' = Highest({held, RoleNow(w)'})
    BY DEF Watched, RoleNow, TeamRolesIn
  <1> DEFINE via == {teamRole'[t][w] : t \in inTeam'}
  <1>4. via \in SUBSET MaybeRoles /\ direct'[w] \in MaybeRoles /\ orgRole' \in MaybeOrgRoles
    BY <1>1, <1>2 DEF StateTypes
  <1>5. RoleNow(w)' = Effective(orgRole', direct'[w], via)
    BY DEF RoleNow, TeamRolesIn
  <1>6. RoleNow(w)' \in MaybeRoles
    BY <1>4, <1>5, EffectiveFacts
  <1>7. {held, RoleNow(w)'} \in SUBSET MaybeRoles
    BY <1>2, <1>6 DEF StateTypes
  <1> QED BY <1>3, <1>7, HighestFacts

\* A change by an admin keeps the invariant.
LEMMA ChangeKeeps ==
    ASSUME AuthzTypeOK, AuthzTypeOK', AuthzIInv, OnlyMembersHave', Watched, asked' = asked
    PROVE  AuthzIInv'
  <1>1. CASE asked.step = "idle"
    BY <1>1 DEF AuthzIInv, Watching, ReadWasHeld, GrantedWasHeld
  <1>2. CASE asked.step # "idle"
    <2>1. RANK[held] <= RANK[held'] /\ RANK[RoleNow(asked.workspace)'] <= RANK[held']
      BY <1>2, WatchedFacts
    <2>2. held \in MaybeRoles /\ held' \in MaybeRoles
      BY DEF AuthzTypeOK, MaybeRoles
    <2>3. RANK[held] \in Nat /\ RANK[held'] \in Nat /\ RANK["admin"] = 3
      BY <2>2, RankFact DEF RANK
    <2>4. asked.step = "teams" => asked.own \in MaybeRoles
      BY DEF AuthzTypeOK, Unasked, MaybeRoles
    <2>5. asked.step = "answered" => asked.role \in MaybeRoles
      BY DEF AuthzTypeOK, Unasked, MaybeRoles
    <2>6. (asked.step = "teams" => RANK[asked.own] \in Nat) /\ (asked.step = "answered" => RANK[asked.role] \in Nat)
      BY <2>4, <2>5, RankFact
    <2> QED BY <2>1, <2>3, <2>6 DEF AuthzIInv, Watching, ReadWasHeld, GrantedWasHeld
  <1> QED BY <1>1, <1>2

\* The invariant is inductive, given the types.
LEMMA AuthzIInvHolds == AuthzSpec => []AuthzIInv
<1>1. AuthzInit => AuthzIInv
  BY DEF AuthzInit, AuthzIInv, OnlyMembersHave, Watching, ReadWasHeld, GrantedWasHeld, Unasked
<1>2. AuthzTypeOK /\ AuthzTypeOK' /\ AuthzIInv /\ [AuthzNext]_authzVars => AuthzIInv'
  <2> SUFFICES ASSUME AuthzTypeOK, AuthzTypeOK', AuthzIInv, [AuthzNext]_authzVars PROVE AuthzIInv'
    OBVIOUS
  <2>0. StateTypes
    BY DEF AuthzTypeOK, StateTypes, MaybeRoles, MaybeOrgRoles
  <2>1. CASE SetOrgRole
    <3>1. OnlyMembersHave'
      BY <2>1 DEF SetOrgRole, AuthzIInv, OnlyMembersHave, AuthzTypeOK, OrgRoles
    <3> QED BY <2>1, <3>1, ChangeKeeps DEF SetOrgRole
  <2>2. CASE LeaveOrg
    BY <2>2, ChangeKeeps DEF LeaveOrg, OnlyMembersHave
  <2>3. CASE SetDirect
    BY <2>3, ChangeKeeps DEF SetDirect, OnlyMembersHave
  <2>4. CASE SetTeam
    BY <2>4, ChangeKeeps DEF SetTeam, OnlyMembersHave
  <2>5. CASE SetTeamRole
    BY <2>5, ChangeKeeps DEF SetTeamRole, OnlyMembersHave, AuthzIInv
  <2>6. CASE ReadOrgRole
    <3>1. PICK w \in Workspaces : asked' = [step |-> "direct", workspace |-> w, org |-> orgRole] /\ held' = RoleNow(w)
      BY <2>6 DEF ReadOrgRole
    <3>2. OnlyMembersHave' /\ RoleNow(w)' = RoleNow(w)
      BY <2>6 DEF ReadOrgRole, AuthzIInv, OnlyMembersHave, RoleNow, TeamRolesIn
    <3>3. RoleNow(w) \in MaybeRoles /\ (orgRole \in {"owner", "admin"} => RANK["admin"] <= RANK[RoleNow(w)])
      BY <2>0, RoleNowFacts DEF Parts
    <3>4. RANK[RoleNow(w)] <= RANK[RoleNow(w)]
      BY <3>3, RankFact
    <3> QED BY <3>1, <3>2, <3>3, <3>4 DEF AuthzIInv, Watching, ReadWasHeld, GrantedWasHeld
  <2>7. CASE ReadDirect
    <3> DEFINE w == asked.workspace
    <3>1. w \in Workspaces
      BY <2>7 DEF ReadDirect, AuthzTypeOK, Unasked
    <3>2. asked' = [step |-> "teams", workspace |-> w, org |-> asked.org, own |-> direct[w]]
      BY <2>7 DEF ReadDirect
    <3>3. OnlyMembersHave' /\ held' = held /\ RoleNow(w)' = RoleNow(w)
      BY <2>7 DEF ReadDirect, AuthzIInv, OnlyMembersHave, RoleNow, TeamRolesIn
    <3>4. RANK[direct[w]] <= RANK[RoleNow(w)] /\ RANK[RoleNow(w)] <= RANK[held]
      BY <2>0, <2>7, <3>1, GrantsAreRoles DEF AuthzIInv, Watching, ReadDirect
    <3>5. direct[w] \in MaybeRoles /\ RoleNow(w) \in MaybeRoles /\ held \in MaybeRoles
      BY <2>0, <3>1, RoleNowFacts DEF StateTypes
    <3>6. RANK[direct[w]] <= RANK[held]
      BY <3>4, <3>5, RankFact
    <3> QED BY <2>7, <3>2, <3>3, <3>4, <3>6 DEF ReadDirect, AuthzIInv, Watching, ReadWasHeld, GrantedWasHeld
  <2>8. CASE ReadTeams
    <3> DEFINE w == asked.workspace
               granted == Effective(asked.org, asked.own, TeamRolesIn(w))
    <3>1. w \in Workspaces /\ asked.org \in MaybeOrgRoles /\ asked.own \in MaybeRoles
      BY <2>8 DEF ReadTeams, AuthzTypeOK, Unasked, MaybeOrgRoles, MaybeRoles
    <3>2. asked' = [step |-> "answered", workspace |-> w, role |-> granted]
      BY <2>8 DEF ReadTeams
    <3>3. OnlyMembersHave' /\ held' = held /\ RoleNow(w)' = RoleNow(w)
      BY <2>8 DEF ReadTeams, AuthzIInv, OnlyMembersHave, RoleNow, TeamRolesIn
    <3>4. TeamRolesIn(w) \in SUBSET MaybeRoles /\ RoleNow(w) \in MaybeRoles /\ held \in MaybeRoles
      BY <2>0, <3>1, RoleNowFacts DEF StateTypes
    <3>5. RANK[RoleNow(w)] <= RANK[held]
      BY <2>8 DEF ReadTeams, AuthzIInv, Watching
    <3>6. \A s \in TeamRolesIn(w) : RANK[s] <= RANK[held]
      <4>1. \A s \in TeamRolesIn(w) : RANK[s] <= RANK[RoleNow(w)]
        BY <2>0, <3>1, GrantsAreRoles DEF AuthzIInv
      <4> QED BY <3>4, <3>5, <4>1, RankFact
    <3>7. /\ RANK[asked.own] <= RANK[held] /\ RANK["none"] <= RANK[held]
          /\ asked.org \in {"owner", "admin"} => RANK["admin"] <= RANK[held]
      <4>1. RANK["none"] = 0 /\ RANK[held] \in 0..3
        BY <3>4, RankFact DEF RANK
      <4> QED BY <2>8, <4>1 DEF ReadTeams, AuthzIInv, ReadWasHeld
    <3>8. RANK[granted] <= RANK[held]
      <4>1. CASE asked.org = "none"
        BY <3>1, <3>4, <3>7, <4>1, EffectiveFacts
      <4>2. CASE asked.org # "none"
        <5>1. granted \in Parts(asked.org, asked.own, TeamRolesIn(w)) \union {"none"}
          BY <3>1, <3>4, <4>2, EffectiveFacts
        <5> QED BY <5>1, <3>6, <3>7 DEF Parts
      <4> QED BY <4>1, <4>2
    <3> QED BY <3>2, <3>3, <3>5, <3>8 DEF AuthzIInv, Watching, ReadWasHeld, GrantedWasHeld
  <2>9. CASE AnswerAsked
    BY <2>9 DEF AnswerAsked, AuthzIInv, OnlyMembersHave, Watching, ReadWasHeld, GrantedWasHeld, Unasked
  <2>10. CASE UNCHANGED authzVars
    BY <2>10 DEF authzVars, AuthzIInv, OnlyMembersHave, Watching, ReadWasHeld, GrantedWasHeld, RoleNow, TeamRolesIn
  <2> QED BY <2>1, <2>2, <2>3, <2>4, <2>5, <2>6, <2>7, <2>8, <2>9, <2>10 DEF AuthzNext
<1> QED BY <1>1, <1>2, AuthzTypeCorrect, PTL DEF AuthzSpec

\* A role put together from several statements is no higher than one the person had at some moment of
\* the check (authz/policy.py, workspace_role).
THEOREM GrantedTheorem == AuthzSpec => []GrantedWasHeld
  BY AuthzIInvHolds, PTL DEF AuthzIInv

-----------------------------------------------------------------------------
(* One path *)

\* The three ways to ask for roles agree in every state (authz/policy.py, workspace_role,
\* workspace_roles and visible_workspaces).
THEOREM AgreeTheorem == AuthzSpec => []WaysAgree
<1>1. AuthzTypeOK => WaysAgree
  <2> SUFFICES ASSUME AuthzTypeOK PROVE WaysAgree
    OBVIOUS
  <2>0. StateTypes
    BY DEF AuthzTypeOK, StateTypes, MaybeRoles, MaybeOrgRoles
  <2>1. ASSUME NEW w \in Workspaces PROVE w \in Visible <=> RoleNow(w) # "none"
    <3>1. CASE orgRole = "none"
      BY <2>0, <3>1, RoleNowFacts DEF Visible
    <3>2. CASE orgRole # "none"
      <4>1. /\ RoleNow(w) \in Parts(orgRole, direct[w], TeamRolesIn(w)) \union {"none"}
            /\ \A s \in Parts(orgRole, direct[w], TeamRolesIn(w)) : RANK[s] <= RANK[RoleNow(w)]
            /\ TeamRolesIn(w) \in SUBSET MaybeRoles /\ direct[w] \in MaybeRoles
        BY <2>0, <3>2, RoleNowFacts
      <4>2. (\E s \in Parts(orgRole, direct[w], TeamRolesIn(w)) : s # "none") <=> RoleNow(w) # "none"
        <5>1. ASSUME NEW s \in Parts(orgRole, direct[w], TeamRolesIn(w)), s # "none" PROVE RoleNow(w) # "none"
          <6>1. s \in WorkspaceRoles
            BY <4>1, <5>1 DEF Parts, MaybeRoles, WorkspaceRoles
          <6>2. RANK[s] \in 1..3 /\ RANK["none"] = 0
            BY <6>1 DEF WorkspaceRoles, RANK
          <6>3. RANK[s] <= RANK[RoleNow(w)]
            BY <4>1
          <6> QED BY <6>2, <6>3
        <5> QED BY <4>1, <5>1
      <4>3. w \in Visible <=> \E s \in Parts(orgRole, direct[w], TeamRolesIn(w)) : s # "none"
        BY <3>2 DEF Visible, Parts, TeamRolesIn
      <4> QED BY <4>2, <4>3
    <3> QED BY <3>1, <3>2
  <2>2. ASSUME NEW p \in RolesListed PROVE p \in Workspaces \X WorkspaceRoles /\ p[2] = RoleNow(p[1]) /\ p[2] # "none"
    BY DEF RolesListed, RoleNow, WorkspaceRoles
  <2>3. ASSUME NEW w \in Workspaces, RoleNow(w) # "none" PROVE <<w, RoleNow(w)>> \in RolesListed
    <3>1. orgRole # "none" /\ RoleNow(w) \in WorkspaceRoles
      BY <2>0, <2>3, RoleNowFacts DEF MaybeRoles
    <3> QED BY <3>1 DEF RolesListed, RoleNow
  <2>4. Visible = {w \in Workspaces : RoleNow(w) # "none"}
    BY <2>1 DEF Visible
  <2>5. {w \in Workspaces : RoleNow(w) # "none"} = {p[1] : p \in RolesListed}
    <3>1. ASSUME NEW w \in Workspaces, RoleNow(w) # "none" PROVE w \in {p[1] : p \in RolesListed}
      <4>1. <<w, RoleNow(w)>> \in RolesListed /\ <<w, RoleNow(w)>>[1] = w
        BY <2>3, <3>1
      <4> QED BY <4>1
    <3>2. ASSUME NEW p \in RolesListed PROVE p[1] \in Workspaces /\ RoleNow(p[1]) # "none"
      BY <2>2
    <3> QED BY <3>1, <3>2
  <2> QED BY <2>2, <2>4, <2>5 DEF WaysAgree
<1> QED BY <1>1, AuthzTypeCorrect, PTL
=============================================================================
