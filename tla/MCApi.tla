------------------------------- MODULE MCApi -------------------------------
(***************************************************************************)
(* The components of the API that share no state, checked side by side:    *)
(* every behaviour is about the one it has drawn at its beginning, and the *)
(* others do not move in it.                                               *)
(***************************************************************************)
EXTENDS Sessions, RateLimits, IdpKeys, Collections, Credentials, Sources, SeriesMeta, Charts, Pages,
        Authz, Invitations, Windows, TLC

CONSTANTS a1, a2, b1, b2

VARIABLE part  \* the component this behaviour is about

Components ==
    {"sessions", "limits", "keys", "sets", "secrets", "sources", "meta", "charts", "pages",
     "authz", "invitations"}

apiVars == <<part, sessionVars, limitVars, keyVars, setVars, secretVars, sourceVars, metaVars, chartVars,
             pageVars, authzVars, invitationVars>>

\* Only lists begin with any rows there are.
ApiInit ==
    /\ part \in Components
    /\ SessionsInit /\ RateLimitsInit /\ IdpKeysInit /\ CollectionsInit /\ CredentialsInit
    /\ SourcesInit /\ SeriesMetaInit /\ ChartsInit /\ PagesInit /\ AuthzInit
    /\ InvitationsInit
    /\ part # "pages" => sorting = "name" /\ \A i \in RowIds : listed[i] = 0

ApiNext ==
    \/ /\ part = "sessions" /\ SessionsNext
       /\ UNCHANGED <<part, limitVars, keyVars, setVars, secretVars, sourceVars, metaVars, chartVars,
                     pageVars, authzVars, invitationVars>>
    \/ /\ part = "limits" /\ RateLimitsNext
       /\ UNCHANGED <<part, sessionVars, keyVars, setVars, secretVars, sourceVars, metaVars,
                     chartVars, pageVars, authzVars, invitationVars>>
    \/ /\ part = "keys" /\ IdpKeysNext
       /\ UNCHANGED <<part, sessionVars, limitVars, setVars, secretVars, sourceVars, metaVars,
                     chartVars, pageVars, authzVars, invitationVars>>
    \/ /\ part = "sets" /\ CollectionsNext
       /\ UNCHANGED <<part, sessionVars, limitVars, keyVars, secretVars, sourceVars, metaVars,
                     chartVars, pageVars, authzVars, invitationVars>>
    \/ /\ part = "secrets" /\ CredentialsNext
       /\ UNCHANGED <<part, sessionVars, limitVars, keyVars, setVars, sourceVars, metaVars, chartVars,
                     pageVars, authzVars, invitationVars>>
    \/ /\ part = "sources" /\ SourcesNext
       /\ UNCHANGED <<part, sessionVars, limitVars, keyVars, setVars, secretVars, metaVars, chartVars,
                     pageVars, authzVars, invitationVars>>
    \/ /\ part = "meta" /\ SeriesMetaNext
       /\ UNCHANGED <<part, sessionVars, limitVars, keyVars, setVars, secretVars, sourceVars,
                     chartVars, pageVars, authzVars, invitationVars>>
    \/ /\ part = "charts" /\ ChartsNext
       /\ UNCHANGED <<part, sessionVars, limitVars, keyVars, setVars, secretVars, sourceVars,
                     metaVars, pageVars, authzVars, invitationVars>>
    \/ /\ part = "pages" /\ PagesNext
       /\ UNCHANGED <<part, sessionVars, limitVars, keyVars, setVars, secretVars, sourceVars,
                     metaVars, chartVars, authzVars, invitationVars>>
    \/ /\ part = "authz" /\ AuthzNext
       /\ UNCHANGED <<part, sessionVars, limitVars, keyVars, setVars, secretVars, sourceVars,
                     metaVars, chartVars, pageVars, invitationVars>>
    \/ /\ part = "invitations" /\ InvitationsNext
       /\ UNCHANGED <<part, sessionVars, limitVars, keyVars, setVars, secretVars, sourceVars,
                     metaVars, chartVars, pageVars, authzVars>>

ApiSpec == ApiInit /\ [][ApiNext]_apiVars

\* Slots for requests are interchangeable, in each component that has them.
ApiSymmetry == Permutations({a1, a2}) \union Permutations({b1, b2})

-----------------------------------------------------------------------------
(* Values *)

OnePerson == ("i1" :> "p1")

\* Lists that share a series, a list with roles, and changes of the list, the row and the name.
Listed(s, role1, t, role2) == <<[series |-> s, role |-> role1], [series |-> t, role |-> role2]>>
ListA    == Listed("s1", "member", "s2", "member")
ListB    == Listed("s3", "member", "s2", "member")
ListC    == Listed("s1", "input", "s3", "output")
SetLists == {ListA, ListB, ListC}
SetEdits == {[list |-> ListA, row |-> FALSE, name |-> Keep], [list |-> ListB, row |-> TRUE, name |-> Keep],
             [list |-> <<>>, row |-> FALSE, name |-> "n2"], [list |-> ListC, row |-> FALSE, name |-> "n1"]}

\* One request renames a source, another changes its configuration and disables it.
SomePatches    == {[name |-> "n2", config |-> Kept, enabled |-> Kept], [name |-> Kept, config |-> "c2", enabled |-> "off"]}
SomePointLists == {<<"p1">>, <<"p1", "p2">>, <<"p2", "p1">>}

\* People set or clear one limit; uploads and systems bring limits that leave no room, each alone
\* or with those that are there.
SomeLimits    == 1..3
PatchedLimits == {(f :> v) : f \in LimitFields, v \in {{1}, {2}, {3}, {}}}
Stated   == {("physical_min" :> {2}), ("physical_max" :> {2}) @@ ("unit" :> {"u1"})}
Imported == {("operational_min" :> {1}) @@ ("operational_max" :> {3}) @@ ("unit" :> {"u2"}),
             ("physical_min" :> {3}) @@ ("physical_max" :> {3})}

LeastNs == -7

-----------------------------------------------------------------------------
(* The properties, those of one subject together *)

\* The state of the component a behaviour is about has its type.
ApiTypeOK ==
    /\ part = "sessions"    => SessionsTypeOK
    /\ part = "limits"      => RateLimitsTypeOK
    /\ part = "keys"        => IdpKeysTypeOK
    /\ part = "sets"        => CollectionsTypeOK
    /\ part = "secrets"     => CredentialsTypeOK
    /\ part = "sources"     => SourcesTypeOK
    /\ part = "meta"        => SeriesMetaTypeOK
    /\ part = "charts"      => ChartsTypeOK
    /\ part = "pages"       => PagesTypeOK
    /\ part = "authz"       => AuthzTypeOK
    /\ part = "invitations" => InvitationsTypeOK

\* Whatever requests overlap, groups keep members of their kind and names of their own
\* (groups.py:69-142), a point is counted as created once (sources.py:309-345), an invitation
\* is accepted once (migration 0006), and the limits of a series leave room for values
\* (series.py:77-106).
TablesStayValid == MembersFitKind /\ GroupNamesDiffer /\ CreatedOnce /\ JoinedOnce /\ LimitsLeaveRoom

\* Requests, runs, imports and the rotation of keys that overlap change what they are about, and
\* nothing another has set meanwhile (sources.py:151-197, 309-345, series.py:174-225,
\* source_metadata.py:84-120, secrets/__init__.py:175-189).
WritersKeepApart ==
    PatchesStayApart /\ ListedAreThere /\ ImportFillsOnly /\ OnlyPeopleClear /\ RotateKeepsCredentials
=============================================================================
