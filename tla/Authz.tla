-------------------------------- MODULE Authz --------------------------------
(***************************************************************************)
(* Authorization of one person (authz/roles.py, authz/policy.py): the role *)
(* they have in a workspace, which adds up from their org role, a direct   *)
(* grant and the grants of their teams.                                    *)
(*                                                                         *)
(* The role is asked for in three ways: for one workspace before every     *)
(* request (workspace_role), for all of them (workspace_roles), and as a   *)
(* condition on rows (visible_workspaces).  The first reads with several   *)
(* statements; admins change roles, grants and teams between them.         *)
(***************************************************************************)
EXTENDS Naturals, FiniteSets

CONSTANTS Workspaces, Teams

VARIABLES
    orgRole,    \* of the person, who is not disabled (nothing here disables users); "none" outside the org
    direct,     \* the role granted to the person in each workspace, or "none"
    inTeam,     \* the teams the person is in
    teamRole,   \* the role granted to each team in each workspace, or "none"
    asked,      \* a request being authorized and what it has read
    held        \* history: the highest role the person has had since it began

authzVars == <<orgRole, direct, inTeam, teamRole, asked, held>>

WorkspaceRoles == {"viewer", "editor", "admin"}
OrgRoles       == {"member", "admin", "owner"}
Actions        == {"read", "write", "manage"}
RANK == [none |-> 0, viewer |-> 1, editor |-> 2, admin |-> 3]

\* REQUIRED
Required == [read |-> "viewer", write |-> "editor", manage |-> "admin"]

\* allows
Allows(role, action) == role # "none" /\ RANK[role] >= RANK[Required[action]]

Highest(roles) == CHOOSE r \in roles \union {"none"} : \A s \in roles \union {"none"} : RANK[s] <= RANK[r]

\* effective_role
Effective(org, own, viaTeams) ==
    IF org = "none" THEN "none"
    ELSE Highest({own} \union viaTeams \union (IF org \in {"owner", "admin"} THEN {"admin"} ELSE {}))

TeamRolesIn(w) == {teamRole[t][w] : t \in inTeam}

\* What the person may do in a workspace at this moment.
RoleNow(w) == Effective(orgRole, direct[w], TeamRolesIn(w))

\* workspace_roles
RolesListed ==
    IF orgRole = "none" THEN {}
    ELSE {p \in Workspaces \X WorkspaceRoles : p[2] = Effective(orgRole, direct[p[1]], TeamRolesIn(p[1]))}

\* visible_workspaces
Visible ==
    {w \in Workspaces :
        /\ orgRole # "none"
        /\ \/ orgRole \in {"owner", "admin"}
           \/ direct[w] # "none"
           \/ \E t \in inTeam : teamRole[t][w] # "none"}

-----------------------------------------------------------------------------
(* Changes by admins, each in a transaction *)

Unasked == [step |-> "idle"]

\* The type invariant.
AuthzTypeOK ==
    /\ orgRole \in OrgRoles \union {"none"}
    /\ direct \in [Workspaces -> WorkspaceRoles \union {"none"}]
    /\ inTeam \subseteq Teams
    /\ teamRole \in [Teams -> [Workspaces -> WorkspaceRoles \union {"none"}]]
    /\ asked \in {Unasked}
          \union [step : {"direct"}, workspace : Workspaces, org : OrgRoles \union {"none"}]
          \union [step : {"teams"}, workspace : Workspaces, org : OrgRoles \union {"none"},
                  own : WorkspaceRoles \union {"none"}]
          \union [step : {"answered"}, workspace : Workspaces, role : WorkspaceRoles \union {"none"}]
    /\ held \in WorkspaceRoles \union {"none"}

AuthzInit ==
    /\ orgRole = "none" /\ direct = [w \in Workspaces |-> "none"]
    /\ inTeam = {} /\ teamRole = [t \in Teams |-> [w \in Workspaces |-> "none"]]
    /\ asked = Unasked /\ held = "none"

\* Every change is watched from the workspace that is asked about.
Watched ==
    held' = IF asked.step = "idle" THEN held
            ELSE LET w == asked.workspace
                 IN  Highest({held, Effective(orgRole', direct'[w], {teamRole'[t][w] : t \in inTeam'})})

\* The person joins, or their role changes.
SetOrgRole ==
    /\ \E r \in OrgRoles \ {orgRole} : orgRole' = r
    /\ UNCHANGED <<direct, inTeam, teamRole, asked>> /\ Watched

\* remove_member: direct grants and team memberships go with the membership.
LeaveOrg ==
    /\ orgRole # "none" /\ orgRole' = "none"
    /\ direct' = [w \in Workspaces |-> "none"] /\ inTeam' = {}
    /\ UNCHANGED <<teamRole, asked>> /\ Watched

\* Mutant of SetDirect: the person need not be a member.
SetDirectAnyone ==
    /\ \E w \in Workspaces : \E r \in (WorkspaceRoles \union {"none"}) \ {direct[w]} :
          direct' = [direct EXCEPT ![w] = r]
    /\ UNCHANGED <<orgRole, inTeam, teamRole, asked>> /\ Watched

\* set_member, remove_member: grants are given to members of the org only.  (The statements of such
\* a request are in Members.)
SetDirect ==
    /\ orgRole # "none"
    /\ \E w \in Workspaces : \E r \in (WorkspaceRoles \union {"none"}) \ {direct[w]} :
          direct' = [direct EXCEPT ![w] = r]
    /\ UNCHANGED <<orgRole, inTeam, teamRole, asked>> /\ Watched

\* add_member, remove_member of a team
SetTeam ==
    /\ orgRole # "none"
    /\ \E t \in Teams : inTeam' = IF t \in inTeam THEN inTeam \ {t} ELSE inTeam \union {t}
    /\ UNCHANGED <<orgRole, direct, teamRole, asked>> /\ Watched

\* set_team, remove_team of a workspace
SetTeamRole ==
    /\ \E t \in Teams, w \in Workspaces : \E r \in (WorkspaceRoles \union {"none"}) \ {teamRole[t][w]} :
          teamRole' = [teamRole EXCEPT ![t][w] = r]
    /\ UNCHANGED <<orgRole, direct, inTeam, asked>> /\ Watched

-----------------------------------------------------------------------------
(* workspace_role, statement by statement *)

\* The workspace is of the org; the org role is read.
ReadOrgRole ==
    /\ asked.step = "idle"
    /\ \E w \in Workspaces :
          /\ asked' = [step |-> "direct", workspace |-> w, org |-> orgRole]
          /\ held' = RoleNow(w)
    /\ UNCHANGED <<orgRole, direct, inTeam, teamRole>>

ReadDirect ==
    /\ asked.step = "direct"
    /\ asked' = [step |-> "teams", workspace |-> asked.workspace, org |-> asked.org,
                 own |-> direct[asked.workspace]]
    /\ UNCHANGED <<orgRole, direct, inTeam, teamRole, held>>

\* The roles of the person's teams, in one statement; they add up.
ReadTeams ==
    /\ asked.step = "teams"
    /\ asked' = [step |-> "answered", workspace |-> asked.workspace,
                 role |-> Effective(asked.org, asked.own, TeamRolesIn(asked.workspace))]
    /\ UNCHANGED <<orgRole, direct, inTeam, teamRole, held>>

\* authorize has answered; the next request comes.
AnswerAsked ==
    /\ asked.step = "answered"
    /\ asked' = Unasked /\ held' = "none"
    /\ UNCHANGED <<orgRole, direct, inTeam, teamRole>>

AuthzNext ==
    \/ SetOrgRole \/ LeaveOrg \/ SetDirect \/ SetTeam \/ SetTeamRole
    \/ ReadOrgRole \/ ReadDirect \/ ReadTeams \/ AnswerAsked
AuthzSpec == AuthzInit /\ [][AuthzNext]_authzVars

-----------------------------------------------------------------------------
(* Properties *)

\* A role put together from what several statements read at different moments is no higher than one
\* the person had at some moment of the check: a request is never allowed what nobody granted.
GrantedWasHeld ==
    asked.step = "answered" => RANK[asked.role] <= RANK[held]

\* One authorization path (ADR-0007): the three ways to ask agree on the workspaces a person sees.
WaysAgree ==
    /\ Visible = {w \in Workspaces : RoleNow(w) # "none"}
    /\ Visible = {p[1] : p \in RolesListed}
    /\ \A p \in RolesListed : RoleNow(p[1]) = p[2]
=============================================================================
