------------------------------ MODULE Sessions ------------------------------
(***************************************************************************)
(* Signing in and the sessions it leaves (auth/store.py, routers/auth.py,  *)
(* auth/deps.py): a login flow taken once by a callback, the identity      *)
(* linked to a user, a session created, found and touched by requests and  *)
(* ended by its owner, by the identity provider, by a ban or by age.       *)
(*                                                                         *)
(* Every function of the store is one transaction or a part of one; now()  *)
(* is the start of the transaction, so a request that finds a session and  *)
(* a sign-in that waits for its lock carry the moment they began.          *)
(***************************************************************************)
EXTENDS Naturals, FiniteSets

CONSTANTS
    Accounts,         \* users, named by the email they were created with
    Subjects,         \* identities at the provider (the sub claim)
    IdpSessions,      \* sessions at the provider (the sid claim)
    SubjectOf,        \* the identity of each of them
    LoginFlows,       \* logins begun
    Callbacks,        \* returns of a browser from the provider; each may leave one session
    Visits,           \* slots for other requests
    SignInMethods,
    FlowTtl, TouchInterval, SessionIdle, SessionAbsolute,
    LastMoment        \* bound of the clock

ASSUME SessionsAssumption ==
    /\ SubjectOf \in [IdpSessions -> Subjects]
    /\ FlowTtl \in Nat \ {0} /\ TouchInterval \in Nat /\ LastMoment \in Nat
    /\ SessionIdle \in Nat \ {0} /\ SessionAbsolute \in Nat \ {0}

VARIABLES
    time,        \* the database's clock
    loginFlows,  \* login_flows
    callback,    \* what each callback is doing
    links,       \* user_identities
    authSessions,\* sessions
    visit,       \* what each other request is doing
    disabled,    \* users with disabled_at
    taken,       \* history: the flow each callback got
    endedAtIdp,  \* history: sessions of the provider whose logout was handled
    missed,      \* history: callbacks that held a token of such a session at that moment
    served       \* history: when the last request served by each session began

sessionVars == <<time, loginFlows, callback, links, authSessions, visit, disabled,
                 taken, endedAtIdp, missed, served>>

Moments == 0..LastMoment
FlowRow == [id : LoginFlows, method : SignInMethods, at : Moments]
Claims == [sid : IdpSessions, email : Accounts]
SessionRow == [id : Callbacks, user : Accounts, sid : IdpSessions, method : SignInMethods,
               created : Moments, seen : Moments, revoked : BOOLEAN]

\* The type invariant.
SessionsTypeOK ==
    /\ time \in Moments
    /\ loginFlows \subseteq FlowRow
    /\ callback \in [Callbacks -> [step : {"idle", "done", "failed"}]
                        \union [step : {"taken"}, method : SignInMethods]
                        \union [step : {"proven"}, method : SignInMethods, claims : Claims]
                        \union [step : {"login"}, method : SignInMethods, claims : Claims, at : Moments]]
    /\ links \subseteq Subjects \X Accounts
    /\ authSessions \subseteq SessionRow
    /\ visit \in [Visits -> [step : {"idle"}] \union [step : {"found", "served"}, session : SessionRow, at : Moments]]
    /\ disabled \subseteq Accounts
    /\ taken \subseteq Callbacks \X LoginFlows
    /\ endedAtIdp \subseteq IdpSessions /\ missed \subseteq Callbacks
    /\ served \in [Callbacks -> Moments]

SessionsInit ==
    /\ time = 0
    /\ loginFlows = {} /\ links = {} /\ authSessions = {} /\ disabled = {}
    /\ callback = [c \in Callbacks |-> [step |-> "idle"]]
    /\ visit = [v \in Visits |-> [step |-> "idle"]]
    /\ taken = {} /\ endedAtIdp = {} /\ missed = {}
    /\ served = [c \in Callbacks |-> 0]

-----------------------------------------------------------------------------
(* Sessions as the store selects and updates them *)

LiveAt(s, at) ==
    /\ ~s.revoked
    /\ s.created + SessionAbsolute > at
    /\ s.seen + SessionIdle > at

\* list_sessions
Devices(user, at) == {s \in authSessions : s.user = user /\ LiveAt(s, at)}

Revoking(chosen) ==
    {IF s \in chosen THEN [s EXCEPT !.revoked = TRUE] ELSE s : s \in authSessions}

OfUser(user) == {s \in authSessions : s.user = user}

\* Mutant of DeadAt: idle sessions are told by when they were created.
DeadAtByCreation(s, at) ==
    s.revoked \/ s.created + SessionAbsolute < at \/ s.created + SessionIdle < at

\* What create_session deletes of a user's rows.
DeadAt(s, at) ==
    s.revoked \/ s.created + SessionAbsolute < at \/ s.seen + SessionIdle < at

UserOf(subject) == CHOOSE u \in Accounts : <<subject, u>> \in links
Known(subject)  == \E u \in Accounts : <<subject, u>> \in links

-----------------------------------------------------------------------------
(* Signing in *)

\* GET /login: the expired flows are dropped and a new one is stored.
StartLogin(f) ==
    /\ f \notin {r.id : r \in loginFlows} \union {p[2] : p \in taken}
    /\ \E m \in SignInMethods :
          loginFlows' = {r \in loginFlows : r.at + FlowTtl >= time} \union {[id |-> f, method |-> m, at |-> time]}
    /\ UNCHANGED <<time, callback, links, authSessions, visit, disabled, taken, endedAtIdp, missed, served>>

\* Mutant of TakeFlow: the flow is read and stays.
TakeFlowKeeping(c, f) ==
    /\ callback[c].step = "idle"
    /\ \E r \in loginFlows :
          /\ r.id = f /\ r.at + FlowTtl > time
          /\ callback' = [callback EXCEPT ![c] = [step |-> "taken", method |-> r.method]]
          /\ taken' = taken \union {<<c, f>>}
    /\ UNCHANGED <<time, loginFlows, links, authSessions, visit, disabled, endedAtIdp, missed, served>>

\* The callback deletes its flow in a transaction of its own and goes on with what the delete
\* returned: nothing, a flow that is too old, or a flow.
TakeFlow(c, f) ==
    /\ callback[c].step = "idle"
    /\ LET row == {r \in loginFlows : r.id = f} IN
       /\ loginFlows' = loginFlows \ row
       /\ IF \E r \in row : r.at + FlowTtl > time
          THEN /\ \E r \in row : callback' = [callback EXCEPT ![c] = [step |-> "taken", method |-> r.method]]
               /\ taken' = taken \union {<<c, f>>}
          ELSE callback' = [callback EXCEPT ![c].step = "failed"] /\ UNCHANGED taken
    /\ UNCHANGED <<time, links, authSessions, visit, disabled, endedAtIdp, missed, served>>

\* The code is exchanged and the token validated.  A provider that does not answer, a refused code,
\* an invalid token or a token that does not prove the flow's method ends the callback.
Exchange(c) ==
    /\ callback[c].step = "taken"
    /\ \/ callback' = [callback EXCEPT ![c] = [step |-> "failed"]]
       \/ \E sid \in IdpSessions \ endedAtIdp, email \in Accounts :
             callback' = [callback EXCEPT ![c] = [step |-> "proven", method |-> callback[c].method,
                                                  claims |-> [sid |-> sid, email |-> email]]]
    /\ UNCHANGED <<time, loginFlows, links, authSessions, visit, disabled, taken, endedAtIdp, missed, served>>

\* The transaction of the sign-in begins; it may wait for the advisory lock of tabayyun_login.
BeginLogin(c) ==
    /\ callback[c].step = "proven"
    /\ callback' = [callback EXCEPT ![c] = [step |-> "login", method |-> callback[c].method,
                                            claims |-> callback[c].claims, at |-> time]]
    /\ UNCHANGED <<time, loginFlows, links, authSessions, visit, disabled, taken, endedAtIdp, missed, served>>

\* Mutant of LoggedIn: the email decides, whoever the identity is linked to.
LoggedInByEmail(claims) == claims.email

\* tabayyun_login: a known identity keeps its user, whatever its email is now; a new one is linked
\* to the user of its email, who is created if need be.
LoggedIn(claims) ==
    IF Known(SubjectOf[claims.sid]) THEN UserOf(SubjectOf[claims.sid]) ELSE claims.email

\* Mutant of FinishLogin: a disabled user gets a session as well.
FinishLoginDisabled(c) ==
    LET b == callback[c]  user == LoggedIn(b.claims) IN
    /\ b.step = "login"
    /\ links' = links \union {<<SubjectOf[b.claims.sid], user>>}
    /\ callback' = [callback EXCEPT ![c] = [step |-> "done"]]
    /\ authSessions' = {s \in authSessions : s.user = user => ~DeadAt(s, b.at)} \union
            {[id |-> c, user |-> user, sid |-> b.claims.sid, method |-> b.method,
              created |-> b.at, seen |-> b.at, revoked |-> FALSE]}
    /\ UNCHANGED <<time, loginFlows, visit, disabled, taken, endedAtIdp, missed, served>>

\* ... and, in the same transaction, a disabled user's sessions are all revoked, or the user's dead
\* ones are pruned and a new one added.
FinishLogin(c) ==
    LET b == callback[c]  user == LoggedIn(b.claims) IN
    /\ b.step = "login"
    /\ links' = links \union {<<SubjectOf[b.claims.sid], user>>}
    /\ IF user \in disabled
       THEN /\ authSessions' = Revoking(OfUser(user))
            /\ callback' = [callback EXCEPT ![c] = [step |-> "failed"]]
       ELSE /\ authSessions' = {s \in authSessions : s.user = user => ~DeadAt(s, b.at)} \union
                  {[id |-> c, user |-> user, sid |-> b.claims.sid, method |-> b.method,
                    created |-> b.at, seen |-> b.at, revoked |-> FALSE]}
            /\ callback' = [callback EXCEPT ![c] = [step |-> "done"]]
    /\ UNCHANGED <<time, loginFlows, visit, disabled, taken, endedAtIdp, missed, served>>

-----------------------------------------------------------------------------
(* Requests with a session *)

\* find_session reads the row of the cookie; a disabled user loses every session instead.
FindSession(v, c) ==
    /\ visit[v].step = "idle"
    /\ \E s \in authSessions :
          /\ s.id = c /\ LiveAt(s, time)
          /\ IF s.user \in disabled
             THEN authSessions' = Revoking(OfUser(s.user)) /\ UNCHANGED visit
             ELSE /\ visit' = [visit EXCEPT ![v] = [step |-> "found", session |-> s, at |-> time]]
                  /\ UNCHANGED authSessions
    /\ UNCHANGED <<time, loginFlows, callback, links, disabled, taken, endedAtIdp, missed, served>>

\* Mutant of Touched: the row is written as it was read.
TouchedWhole(s, found, at) ==
    IF found.seen + TouchInterval < at THEN [found EXCEPT !.seen = at] ELSE s

\* Mutant of Touched: the end of the session's idle time is stored.
TouchedExpiry(s, found, at) == IF s.seen + TouchInterval < at THEN [s EXCEPT !.seen = at + SessionIdle] ELSE s

\* Mutant of Touched: the moment is compared with the lifetime.
TouchedLate(s, found, at) == IF s.seen + SessionIdle < at THEN [s EXCEPT !.seen = at] ELSE s

\* The update of last_seen_at: at most once per TOUCH_INTERVAL, decided on the row as it is now.
Touched(s, found, at) == IF s.seen + TouchInterval < at THEN [s EXCEPT !.seen = at] ELSE s

Touch(v) ==
    LET r == visit[v] IN
    /\ r.step = "found"
    /\ authSessions' = {IF s.id = r.session.id THEN Touched(s, r.session, r.at) ELSE s : s \in authSessions}
    /\ visit' = [visit EXCEPT ![v].step = "served"]
    /\ served' = [served EXCEPT ![r.session.id] = IF r.at > @ THEN r.at ELSE @]
    /\ UNCHANGED <<time, loginFlows, callback, links, disabled, taken, endedAtIdp, missed>>

Leave(v) == visit' = [visit EXCEPT ![v] = [step |-> "idle"]]

\* Any request that leaves sessions alone.
Serve(v) ==
    /\ visit[v].step = "served" /\ Leave(v)
    /\ UNCHANGED <<time, loginFlows, callback, links, authSessions, disabled, taken, endedAtIdp, missed, served>>

\* DELETE /sessions/{id}, and POST /logout for the current one: only the user's own.
RevokeDevice(v, c) ==
    /\ visit[v].step = "served" /\ Leave(v)
    /\ authSessions' = Revoking({s \in OfUser(visit[v].session.user) : s.id = c})
    /\ UNCHANGED <<time, loginFlows, callback, links, disabled, taken, endedAtIdp, missed, served>>

\* POST /sessions/revoke-others
RevokeOthers(v) ==
    /\ visit[v].step = "served" /\ Leave(v)
    /\ authSessions' = Revoking({s \in OfUser(visit[v].session.user) : s.id # visit[v].session.id})
    /\ UNCHANGED <<time, loginFlows, callback, links, disabled, taken, endedAtIdp, missed, served>>

-----------------------------------------------------------------------------
(* The provider, operators and time *)

\* Mutant of IdpSelects: sessions out of use are left alone.
IdpSelectsLive(sid, bySid) ==
    {s \in authSessions : LiveAt(s, time) /\ s.seen = time /\
        IF bySid THEN s.sid = sid ELSE <<SubjectOf[sid], s.user>> \in links}

\* revoke_by_idp: the sessions of the token's sid; without one, of the user its sub is linked to.
IdpSelects(sid, bySid) ==
    {s \in authSessions : IF bySid THEN s.sid = sid ELSE <<SubjectOf[sid], s.user>> \in links}

\* POST /backchannel-logout: the provider reports the end of a session, once or several times.
BackchannelLogout(sid, bySid) ==
    /\ authSessions' = Revoking(IdpSelects(sid, bySid))
    /\ endedAtIdp' = endedAtIdp \union {sid}
    /\ missed' = missed \union {c \in Callbacks : /\ callback[c].step \in {"proven", "login"}
                                                  /\ callback[c].claims.sid = sid}
    /\ UNCHANGED <<time, loginFlows, callback, links, visit, disabled, taken, served>>

\* An operator sets or clears disabled_at: no code of the repository does.
Ban(user) ==
    /\ disabled' = IF user \in disabled THEN disabled \ {user} ELSE disabled \union {user}
    /\ UNCHANGED <<time, loginFlows, callback, links, authSessions, visit, taken, endedAtIdp, missed, served>>

PassTime ==
    /\ time < LastMoment /\ time' = time + 1
    /\ UNCHANGED <<loginFlows, callback, links, authSessions, visit, disabled, taken, endedAtIdp, missed, served>>

SessionsNext ==
    \/ \E f \in LoginFlows : StartLogin(f) \/ \E c \in Callbacks : TakeFlow(c, f)
    \/ \E c \in Callbacks : Exchange(c) \/ BeginLogin(c) \/ FinishLogin(c)
    \/ \E v \in Visits, c \in Callbacks : FindSession(v, c) \/ RevokeDevice(v, c)
    \/ \E v \in Visits : Touch(v) \/ Serve(v) \/ RevokeOthers(v)
    \/ \E sid \in IdpSessions, bySid \in BOOLEAN : BackchannelLogout(sid, bySid)
    \/ \E u \in Accounts : Ban(u)
    \/ PassTime

SessionsSpec == SessionsInit /\ [][SessionsNext]_sessionVars

-----------------------------------------------------------------------------
(* Properties *)

\* A flow lets one callback through, however often the browser returns with it (store.py:75,
\* "single use"; spec 013: "The flow is deleted either way (single use)").
FlowsAreSingleUse ==
    \A p, q \in taken : p[2] = q[2] => p = q

\* A session that is revoked stays so, whatever requests that found it before are still doing.
RevokedForGood ==
    [][\A s \in authSessions, t \in authSessions' : s.id = t.id /\ s.revoked => t.revoked]_sessionVars

\* Writing the moment of the last use only now and then makes no session idle earlier than by that
\* interval: a row is never further behind the last request it served.
UseKeepsAlive == \A s \in authSessions : s.seen + TouchInterval >= served[s.id]

\* A sign-in prunes only sessions that no request could be served with (create_session deletes by
\* other conditions than find_session selects, and its transaction began earlier).
PrunesOnlyDead ==
    [][\A s \in authSessions : (\A t \in authSessions' : t.id # s.id) => ~LiveAt(s, time)]_sessionVars

\* An identity stays linked to the user it was first linked to when its email changes, and the
\* sessions it leaves are that user's.
IdentityKeepsUser ==
    /\ \A p, q \in links : p[1] = q[1] => p = q
    /\ \A s \in authSessions : <<SubjectOf[s.sid], s.user>> \in links

\* A logout at the provider ends every session that came of it, except one whose sign-in had its
\* token already and had not stored the session yet (spec 013: "every session with its sid is
\* revoked").
LogoutAtIdpEnds ==
    \A s \in authSessions : s.sid \in endedAtIdp => s.revoked \/ s.id \in missed

\* A session is created or served only while its user is not disabled: no new row of a user whose
\* ban was there before the sign-in read it.
NoSessionForDisabled ==
    [][\A t \in authSessions' : (\A s \in authSessions : s.id # t.id) => t.user \notin disabled]_sessionVars

\* A session that was revoked stays so, only dead ones are pruned, and none is begun for a user
\* who is disabled, whatever overlapping requests do with the rows (auth/store.py:141-260).
SessionsEnd == RevokedForGood /\ PrunesOnlyDead /\ NoSessionForDisabled

\* What sign-ins that overlap do happens once and to the right account: a flow is taken once, an
\* identity keeps its user, and a logout at the provider ends what came of it
\* (auth/store.py:74-119, 260-273).
SignInsMeet == FlowsAreSingleUse /\ UseKeepsAlive /\ IdentityKeepsUser /\ LogoutAtIdpEnds
=============================================================================
