----------------------------- MODULE Credentials -----------------------------
(***************************************************************************)
(* The credentials of connector sources (services/sources.py, secrets/):   *)
(* one encrypted row per source, stored by requests of the API, opened by  *)
(* the API and the worker, and re-encrypted by                             *)
(* `python -m tabayyun.secrets rotate` when the operator changes the       *)
(* master key by the procedure of deploy/caprover.md.                      *)
(*                                                                         *)
(* Requests are READ COMMITTED transactions.  An app that gets new keys is *)
(* stopped and started: its requests end.  Encryption is modelled by which *)
(* key a row is under; a payload is what a person typed and a client pair. *)
(***************************************************************************)
EXTENDS Naturals, FiniteSets

CONSTANTS
    Systems,    \* sources with credentials
    Logins,     \* what a person types: a user and a password
    Putters,    \* slots for requests that store credentials
    LastMasterKey, LastPair  \* bounds of the keys and the client pairs that are made

ASSUME CredentialsAssumption == LastMasterKey \in Nat \ {0} /\ LastPair \in Nat

Apps == {"api", "worker"}
NoKey == 0
OwnPair == 0   \* a pair a person brought, rather than a generated one

VARIABLES
    secret,     \* the credentials rows
    pairs,      \* how many client pairs were generated
    keyring,    \* the keys each app was started with
    procedure,  \* how far the operator is with a new key
    rotation,   \* what the rotate command holds
    putter      \* what each request that stores credentials is doing

secretVars == <<secret, pairs, keyring, procedure, rotation, putter>>

NoSecret    == [key |-> NoKey]
Sealed      == [key : 1..LastMasterKey, login : Logins, pair : 0..LastPair]
NotRotating == [busy |-> FALSE, rows |-> [s \in Systems |-> NoSecret]]
AllIdle     == [e \in Putters |-> [step |-> "idle"]]

\* The type invariant.
CredentialsTypeOK ==
    /\ secret \in [Systems -> Sealed \union {NoSecret}]
    /\ \A s \in Systems : secret[s] # NoSecret => secret[s].pair <= pairs
    /\ pairs \in 0..LastPair
    /\ keyring \in [Apps -> [current : 1..LastMasterKey, previous : 0..LastMasterKey]]
    /\ procedure \in {"steady", "updating", "both", "rotated"}
    /\ rotation \in [busy : BOOLEAN, rows : [Systems -> Sealed \union {NoSecret}]]
    /\ \A e \in Putters : putter[e] \in [step : {"idle"}] \union
          [step : {"put"}, system : Systems, login : Logins, own : BOOLEAN, before : Sealed \union {NoSecret}]

CredentialsInit ==
    /\ secret = [s \in Systems |-> NoSecret]
    /\ pairs = 0
    /\ keyring = [a \in Apps |-> [current |-> 1, previous |-> NoKey]]
    /\ procedure = "steady"
    /\ rotation = NotRotating
    /\ putter = AllIdle

-----------------------------------------------------------------------------
(* Storing *)

CanOpen(ring, row) == row.key \in {ring.current, ring.previous}

\* Mutant of SealingKey: a new row goes under the key that is on its way out.
SealingKeyPrevious(ring) == IF ring.previous = NoKey THEN ring.current ELSE ring.previous

SealingKey(ring) == ring.current

\* Mutant of Locked: the command reads its rows without `with_for_update`.
LockedNever(s) == FALSE

\* The rotate command has locked the row.
Locked(s) == rotation.rows[s] # NoSecret

\* Requests that may generate a pair.
Making == {e \in Putters : putter[e].step = "put" /\ ~putter[e].own /\ putter[e].before = NoSecret}

\* PUT reads the stored credentials; a row that does not open counts as none.
BeginPut(e) ==
    /\ putter[e].step = "idle"
    /\ \E s \in Systems, login \in Logins, own \in BOOLEAN :
          /\ (secret[s] = NoSecret /\ ~own) => pairs + Cardinality(Making) < LastPair
          /\ putter' = [putter EXCEPT ![e] =
                [step |-> "put", system |-> s, login |-> login, own |-> own,
                 before |-> IF CanOpen(keyring["api"], secret[s]) THEN secret[s] ELSE NoSecret]]
    /\ UNCHANGED <<secret, pairs, keyring, procedure, rotation>>

\* prepare_credentials: the person's own client pair, the earlier one, or a generated one.
Prepared(q) == IF q.own THEN OwnPair ELSE IF q.before # NoSecret THEN q.before.pair ELSE pairs + 1

\* store: the pair was generated off the event loop; the row is sealed and written as a whole.
EndPut(e) ==
    LET q == putter[e] IN
    /\ q.step = "put" /\ ~Locked(q.system)
    /\ pairs' = IF Prepared(q) > pairs THEN pairs + 1 ELSE pairs
    /\ secret' = [secret EXCEPT ![q.system] =
                     [key |-> SealingKey(keyring["api"]), login |-> q.login, pair |-> Prepared(q)]]
    /\ putter' = [putter EXCEPT ![e] = [step |-> "idle"]]
    /\ UNCHANGED <<keyring, procedure, rotation>>

ClearCredentials(s) ==
    /\ secret[s] # NoSecret /\ ~Locked(s)
    /\ secret' = [secret EXCEPT ![s] = NoSecret]
    /\ UNCHANGED <<pairs, keyring, procedure, rotation, putter>>

-----------------------------------------------------------------------------
(* A new master key *)

\* An app is started with these keys; the requests of the API, and a command in its container, are gone.
Restarted(app, current, previous) ==
    /\ keyring' = [keyring EXCEPT ![app] = [current |-> current, previous |-> previous]]
    /\ putter' = IF app = "api" THEN AllIdle ELSE putter
    /\ rotation' = IF app = "api" THEN NotRotating ELSE rotation

\* Step 2: one app after the other gets the new key, and the old one as the previous.
UpdateApp(app) ==
    LET old == keyring[app].current IN
    /\ procedure = "steady" \/ (procedure = "updating" /\ keyring[app].previous = NoKey)
    /\ old < LastMasterKey
    /\ Restarted(app, old + 1, old)
    /\ procedure' = IF procedure = "steady" THEN "updating" ELSE "both"
    /\ UNCHANGED <<secret, pairs>>

\* The rows that are not under the current key.
Outstanding(s) == secret[s] # NoSecret /\ secret[s].key # keyring["api"].current

\* Step 3, in the API's container: rows not under the current key are read and locked ...
BeginRotate ==
    /\ procedure = "both" /\ ~rotation.busy
    /\ rotation' = [busy |-> TRUE, rows |-> [s \in Systems |-> IF Outstanding(s) THEN secret[s] ELSE NoSecret]]
    /\ UNCHANGED <<secret, pairs, keyring, procedure, putter>>

\* ... opened, sealed under the current key and committed together.  One that does not open stops
\* the command with nothing changed.
EndRotate ==
    LET rows  == {s \in Systems : rotation.rows[s] # NoSecret}
        opens == \A s \in rows : CanOpen(keyring["api"], rotation.rows[s])
    IN
    /\ rotation.busy
    /\ secret' = [s \in Systems |-> IF opens /\ s \in rows
                               THEN [rotation.rows[s] EXCEPT !.key = SealingKey(keyring["api"])] ELSE secret[s]]
    /\ procedure' = IF opens THEN "rotated" ELSE procedure
    /\ rotation' = NotRotating
    /\ UNCHANGED <<pairs, keyring, putter>>

\* The command is killed: nothing was committed.
KillRotate ==
    /\ rotation.busy
    /\ rotation' = NotRotating
    /\ UNCHANGED <<secret, pairs, keyring, procedure, putter>>

\* Step 4: the previous key is removed from one app, then the other.
DropPrevious(app) ==
    /\ procedure = "rotated" /\ keyring[app].previous # NoKey
    /\ Restarted(app, keyring[app].current, NoKey)
    /\ procedure' = IF \A a \in Apps \ {app} : keyring[a].previous = NoKey THEN "steady" ELSE procedure
    /\ UNCHANGED <<secret, pairs>>

CredentialsNext ==
    \/ \E s \in Systems : ClearCredentials(s)
    \/ \E e \in Putters : BeginPut(e) \/ EndPut(e)
    \/ \E app \in Apps : UpdateApp(app) \/ DropPrevious(app)
    \/ BeginRotate \/ EndRotate \/ KillRotate

CredentialsSpec == CredentialsInit /\ [][CredentialsNext]_secretVars

-----------------------------------------------------------------------------
(* Properties *)

\* "Both keys now decrypt" (deploy/caprover.md, step 2): but for the time between the two restarts
\* of step 2, what is stored opens in the API and in the worker, through rotations that are killed
\* and credentials that are set meanwhile, and when the previous key is gone.
StoredOpens ==
    procedure # "updating" => \A s \in Systems, a \in Apps : secret[s] # NoSecret => CanOpen(keyring[a], secret[s])

\* What a person stored stays what it was until a person stores or clears it: rotate re-encrypts, and
\* never puts back what it had read before a PUT (secrets/__init__.py, rotate: `with_for_update`).
RotateKeepsCredentials ==
    [][rotation.busy /\ ~rotation'.busy =>
          \A s \in Systems : secret'[s] = secret[s] \/ (secret[s] # NoSecret /\ secret'[s] = [secret[s] EXCEPT !.key = secret'[s].key])]_secretVars
=============================================================================
