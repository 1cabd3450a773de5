------------------------------ MODULE Members ------------------------------
(***************************************************************************)
(* Who belongs to an org and with which role: role changes, removals and   *)
(* workspace grants by admins (services/admin), invitations being accepted *)
(* and the bootstrap of an owner at sign-in (migrations 0005 and 0006).    *)
(*                                                                         *)
(* An admin request is one transaction under READ COMMITTED, but its       *)
(* statements each see what is committed when they start: the caller's     *)
(* role, the target, the number of owners and the write are steps between  *)
(* which other transactions commit.  No row is locked before the write.    *)
(***************************************************************************)
EXTENDS Naturals, FiniteSets

CONSTANTS
    People,       \* users, the bootstrap user left out
    Beginnings,   \* the roles people may have at the start
    AdminPerson,  \* the user signing in under TABAYYUN_ADMIN_EMAIL
    Guests,       \* people who may be invited
    Requests,     \* slots of the API server for admin requests
    InFlight      \* how many admin requests may overlap

ASSUME MembersAssumption ==
    /\ Beginnings \subseteq [People -> {"none", "member", "admin", "owner"}]
    /\ AdminPerson \in People /\ Guests \subseteq People
    /\ IsFiniteSet(People) /\ IsFiniteSet(Requests)
    /\ InFlight \in Nat \ {0}

VARIABLES
    role,      \* org_memberships: the role of each person, "none" without a row
    grants,    \* people with a row in workspace_memberships or team_members
    invited,   \* the org role of each person's open invitation, or "none"
    request    \* what each admin request is doing and what it has read

memberVars == <<role, grants, invited, request>>

OrgRoles  == {"member", "admin", "owner"}
OrgAdmins == {"admin", "owner"}
Invitable == {"member", "admin"}
Rank == [none |-> 0, member |-> 1, admin |-> 2, owner |-> 3]
Higher(a, b) == IF Rank[a] < Rank[b] THEN b ELSE a

\* active_owners
Owners == {p \in People : role[p] = "owner"}

\* What a request may ask for: an org role or, with "none", the removal of the member; access to
\* a workspace, directly or through a team, to be given or withdrawn; an invitation.
Asked == [role |-> OrgRoles \union {"none"}, grant |-> {"yes", "none"}, invite |-> Invitable]

Idle == [step : {"idle", "done", "refused"}]
Reading(what, targets) == [step : {"member"}, actor : People, actorRole : OrgAdmins, target : targets,
                           what : {what}, before : {"none"}, new : Asked[what]]
AskingRole   == Reading("role", People)
AskingGrant  == Reading("grant", People)
AskingInvite == Reading("invite", Guests)
ChangingRole == [step : {"rules", "write"}, actor : People, actorRole : OrgAdmins, target : People,
                 what : {"role"}, before : OrgRoles, new : OrgRoles \union {"none"}]
ChangingGrant == [step : {"write"}, actor : People, actorRole : OrgAdmins, target : People,
                  what : {"grant"}, before : {"none", "yes"}, new : {"none", "yes"}]
Inviting == [step : {"write"}, actor : People, actorRole : OrgAdmins, target : Guests,
             what : {"invite"}, before : {"none"}, new : Invitable]

\* The type invariant.
MembersTypeOK ==
    /\ role \in [People -> OrgRoles \union {"none"}]
    /\ grants \subseteq People
    /\ invited \in [People -> Invitable \union {"none"}]
    /\ request \in [Requests -> Idle \union AskingRole \union AskingGrant \union AskingInvite
                                \union ChangingRole \union ChangingGrant \union Inviting]

MembersInit ==
    /\ role \in Beginnings
    /\ grants = {}
    /\ invited = [p \in People |-> "none"]
    /\ request = [q \in Requests |-> [step |-> "idle"]]

-----------------------------------------------------------------------------
(* Admin requests *)

UnderWay == {q \in Requests : request[q].step \in {"member", "rules", "write"}}

Answer(q, step) == request' = [request EXCEPT ![q] = [step |-> step]]

\* The caller's role is read and is an admin's.
Begin(q) ==
    /\ q \notin UnderWay
    /\ Cardinality(UnderWay) < InFlight
    /\ \E actor, target \in People, what \in DOMAIN Asked : \E new \in Asked[what] :
          /\ role[actor] \in OrgAdmins
          /\ what = "invite" => target \in Guests
          /\ request' = [request EXCEPT ![q] =
                [step |-> "member", actor |-> actor, actorRole |-> role[actor],
                 target |-> target, what |-> what, before |-> "none", new |-> new]]
    /\ UNCHANGED <<role, grants, invited>>

\* Mutant of ReadMember: setting the role a member already has goes on to the write.
ReadMemberAlways(q) ==
    LET r == request[q] IN
    /\ r.step = "member" /\ r.what = "role"
    /\ IF role[r.target] = "none"
       THEN Answer(q, "refused")
       ELSE request' = [request EXCEPT ![q].step = "rules", ![q].before = role[r.target]]
    /\ UNCHANGED <<role, grants, invited>>

\* Mutant of ReadMember: a target outside the org is not noticed.
ReadMemberUnchecked(q) ==
    LET r == request[q] IN
    /\ r.step = "member" /\ r.what = "role"
    /\ IF role[r.target] = r.new
       THEN Answer(q, "idle")
       ELSE request' = [request EXCEPT ![q].step = "rules", ![q].before = role[r.target]]
    /\ UNCHANGED <<role, grants, invited>>

\* get_member: 404 unless the target is a member; nothing to do if they have the role.
ReadMember(q) ==
    LET r == request[q] IN
    /\ r.step = "member" /\ r.what = "role"
    /\ CASE role[r.target] = "none" -> Answer(q, "refused")
         [] role[r.target] = r.new /\ r.new # "none" -> Answer(q, "idle")
         [] OTHER -> request' = [request EXCEPT ![q].step = "rules", ![q].before = role[r.target]]
    /\ UNCHANGED <<role, grants, invited>>

\* org_user and the grant: giving needs a member, withdrawing needs the grant; nothing to do if
\* the grant is there.
ReadGrant(q) ==
    LET r == request[q]
        before == IF r.target \in grants THEN "yes" ELSE "none"
    IN
    /\ r.step = "member" /\ r.what = "grant"
    /\ CASE r.new = "yes" /\ role[r.target] = "none" -> Answer(q, "refused")
         [] r.new = "none" /\ before = "none" -> Answer(q, "refused")
         [] r.new = "yes" /\ before = "yes" -> Answer(q, "idle")
         [] OTHER -> request' = [request EXCEPT ![q].step = "write", ![q].before = before]
    /\ UNCHANGED <<role, grants, invited>>

\* Mutants of Allowed: the last owner may go; only the target's present role matters.
AllowedLastOwner(actor, target, new, owners) ==
    "owner" \in {target, new} => actor = "owner"
AllowedByTarget(actor, target, new, owners) ==
    /\ target = "owner" => actor = "owner"
    /\ ~(target = "owner" /\ new # "owner" /\ owners <= 1)

\* check_role_change
Allowed(actor, target, new, owners) ==
    /\ "owner" \in {target, new} => actor = "owner"
    /\ ~(target = "owner" /\ new # "owner" /\ owners <= 1)

\* active_owners is counted and the owner rules are applied to what has been read.
CheckRules(q) ==
    LET r == request[q] IN
    /\ r.step = "rules"
    /\ IF Allowed(r.actorRole, r.before, r.new, Cardinality(Owners))
       THEN request' = [request EXCEPT ![q].step = "write"]
       ELSE Answer(q, "refused")
    /\ UNCHANGED <<role, grants, invited>>

\* change_role's UPDATE, which changes nothing if the row is gone; the event; the commit.
WriteRole(q) ==
    LET r == request[q] IN
    /\ r.step = "write" /\ r.what = "role" /\ r.new # "none"
    /\ role' = [role EXCEPT ![r.target] = IF @ = "none" THEN @ ELSE r.new]
    /\ Answer(q, "done")
    /\ UNCHANGED <<grants, invited>>

\* Mutant of RemoveMember: the grants are left behind.
RemoveMemberOnly(q) ==
    LET r == request[q] IN
    /\ r.step = "write" /\ r.what = "role" /\ r.new = "none"
    /\ role' = [role EXCEPT ![r.target] = "none"]
    /\ Answer(q, "done")
    /\ UNCHANGED <<grants, invited>>

\* remove_member: workspace grants, team memberships and the membership go; the event.
RemoveMember(q) ==
    LET r == request[q] IN
    /\ r.step = "write" /\ r.what = "role" /\ r.new = "none"
    /\ grants' = grants \ {r.target}
    /\ role' = [role EXCEPT ![r.target] = "none"]
    /\ Answer(q, "done")
    /\ UNCHANGED invited

\* set_member, add_member and their opposites: an insert collides with a row inserted
\* meanwhile and the transaction fails; a delete of a row that is gone goes unnoticed.
WriteGrant(q) ==
    LET r == request[q] IN
    /\ r.step = "write" /\ r.what = "grant"
    /\ IF r.new = "yes" /\ r.target \in grants
       THEN Answer(q, "refused") /\ UNCHANGED grants
       ELSE /\ grants' = IF r.new = "yes" THEN grants \union {r.target} ELSE grants \ {r.target}
            /\ Answer(q, "done")
    /\ UNCHANGED <<role, invited>>

-----------------------------------------------------------------------------
(* Invitations and sign-ins *)

\* create_invitation, first half: 409 if the person is a member.
ReadInvitee(q) ==
    LET r == request[q] IN
    /\ r.step = "member" /\ r.what = "invite"
    /\ IF role[r.target] # "none"
       THEN Answer(q, "refused")
       ELSE request' = [request EXCEPT ![q].step = "write"]
    /\ UNCHANGED <<role, grants, invited>>

\* Second half: a second open invitation for one email is refused, by the query before the
\* insert or by the unique index.
WriteInvitation(q) ==
    LET r == request[q] IN
    /\ r.step = "write" /\ r.what = "invite"
    /\ IF invited[r.target] # "none"
       THEN Answer(q, "refused") /\ UNCHANGED invited
       ELSE invited' = [invited EXCEPT ![r.target] = r.new] /\ Answer(q, "idle")
    /\ UNCHANGED <<role, grants>>

\* An open invitation is revoked or expires.
Withdraw(p) ==
    /\ invited[p] # "none"
    /\ invited' = [invited EXCEPT ![p] = "none"]
    /\ UNCHANGED <<role, grants, request>>

\* Mutants of SignIn: an accepted invitation replaces the role; an org that has members gets no
\* owner.
SignInReplacing(p) ==
    LET first == IF p = AdminPerson /\ Owners = {} THEN "owner" ELSE role[p]
    IN
    /\ role' = [role EXCEPT ![p] = IF invited[p] = "none" THEN first ELSE invited[p]]
    /\ invited' = [invited EXCEPT ![p] = "none"]
    /\ role' # role \/ invited' # invited
    /\ UNCHANGED <<grants, request>>
SignInFirstOnly(p) ==
    LET first == IF p = AdminPerson /\ \A o \in People : role[o] = "none" THEN "owner" ELSE role[p]
    IN
    /\ role' = [role EXCEPT ![p] = Higher(first, invited[p])]
    /\ invited' = [invited EXCEPT ![p] = "none"]
    /\ role' # role \/ invited' # invited
    /\ UNCHANGED <<grants, request>>

\* tabayyun_login, one at a time: the configured admin becomes owner of an org without owners;
\* then an open invitation is accepted, which may bring a workspace grant and never lowers a role.
SignIn(p) ==
    LET first == IF p = AdminPerson /\ Owners = {} THEN "owner" ELSE role[p]
    IN
    /\ role' = [role EXCEPT ![p] = Higher(first, invited[p])]
    /\ \E granted \in IF invited[p] = "none" THEN {{}} ELSE {{}, {p}} : grants' = grants \union granted
    /\ invited' = [invited EXCEPT ![p] = "none"]
    /\ role' # role \/ invited' # invited
    /\ UNCHANGED request

-----------------------------------------------------------------------------
Handle(q) ==
    \/ ReadMember(q) \/ ReadGrant(q) \/ CheckRules(q)
    \/ WriteRole(q) \/ RemoveMember(q) \/ WriteGrant(q)
    \/ ReadInvitee(q) \/ WriteInvitation(q)

MembersNext ==
    \/ \E q \in Requests : Begin(q) \/ Handle(q)
    \/ \E p \in People : Withdraw(p) \/ SignIn(p)

\* The configured admin signs in again and again.
MembersFairness == WF_memberVars(SignIn(AdminPerson))

MembersSpec == MembersInit /\ [][MembersNext]_memberVars /\ MembersFairness

-----------------------------------------------------------------------------
(* Properties *)

\* A request writes the role of the configured admin, who was no owner when it was read and
\* has become one by signing in since.
Overtaken(q) ==
    LET r == request[q] IN
    /\ r.step = "write" /\ request'[q].step = "done"
    /\ r.what = "role" /\ r.target = AdminPerson /\ r.before # "owner" /\ role[r.target] = "owner"

\* An org that has an owner keeps one through all requests of its admins, invitations and
\* sign-ins between their statements (rules.py:18); the one exception is an owner who has become
\* one, by signing in, during the request that demotes or removes them.
OwnersRemain == [][Owners # {} => Owners' # {} \/ \E q \in Requests : Overtaken(q)]_memberVars

\* "Only an owner grants `owner`, changes an owner's role or removes an owner" (rules.py);
\* the exceptions are the configured admin in an org without owners, and again while a request
\* goes on that has read their role before.
OnlyOwnersTouchOwners ==
    [][\A p \in People : (role'[p] # role[p] /\ "owner" \in {role[p], role'[p]}) =>
          \/ \E q \in Requests : /\ request[q].step = "write" /\ request'[q].step = "done"
                                 /\ role[request[q].actor] = "owner"
          \/ p = AdminPerson /\ (Owners = {} \/ \E q \in Requests : Overtaken(q))]_memberVars

\* "Workspace grants accept only org members" and "removing a member deletes their workspace
\* grants and team memberships" (spec 014): nobody outside the org has a grant, which would
\* come back to life with the next invitation.
GrantsOnlyForMembers == \A p \in grants : role[p] # "none"

\* "an event never lacks its change" (spec 014): a request that writes an event of a change
\* found another value and leaves the one the event says, whoever signs in meanwhile.
EventsHaveTheirChange ==
    [][\A q \in Requests : (request[q].step = "write" /\ request'[q].step = "done") =>
          LET r == request[q]
          IN  /\ r.before # r.new
              /\ r.what = "role"  => role'[r.target] = r.new
              /\ r.what = "grant" => (r.target \in grants' <=> r.new = "yes")]_memberVars

\* An org that has lost its owners, or never had one, gets one, whoever its members are.
OwnerComesBack == []<>(Owners # {})

\* Accepting an invitation never takes a role away, however the invitation and promotions of
\* the same person interleave: outside admin requests roles only rise.
SignInOnlyRaises ==
    [][\A p \in People : Rank[role'[p]] < Rank[role[p]] =>
          \E q \in Requests : request[q].step = "write" /\ request'[q].step = "done"]_memberVars

\* Who changes the role of whom (rules.py:13-23): only owners make and unmake owners, a sign-in
\* takes no role away, and an event of the audit log has its change.
RolesAreGuarded == OnlyOwnersTouchOwners /\ SignInOnlyRaises /\ EventsHaveTheirChange

-----------------------------------------------------------------------------
(* Claims of the repository that the code does not keep *)

\* "the last active owner (the bootstrap user does not count) can be neither demoted nor
\* removed" (rules.py): an org that has an owner keeps one.
LastOwnerStays == [][Owners # {} => Owners' # {}]_memberVars
=============================================================================
