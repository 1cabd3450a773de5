------------------------------- MODULE IdpKeys -------------------------------
(***************************************************************************)
(* The signing keys of the identity provider as the api caches them        *)
(* (auth/oidc.py): fetched lazily, again after an hour, and once for a     *)
(* token that names an unknown key, at most once a minute.                 *)
(*                                                                         *)
(* One asyncio lock is held over each fetch and serves its waiters in      *)
(* order.  A caller that meets no waiter runs on without giving way, so    *)
(* looking a key up and asking for a refetch are one step then, and two    *)
(* steps with others in between when somebody waits.                       *)
(***************************************************************************)
EXTENDS Integers, Sequences

CONSTANTS
    Decoders,         \* callbacks and logout tokens being decoded
    CacheTtl, RefreshMin,
    FetchTime,        \* bound: a fetch ends within this, by the timeout of the client
    LastKey,          \* bound: the provider has keys 1..LastKey, one at a time
    KeyClockBound     \* bound of the monotonic clock

ASSUME IdpKeysAssumption ==
    /\ CacheTtl \in Nat \ {0} /\ RefreshMin \in Nat \ {0} /\ FetchTime \in Nat
    /\ LastKey \in Nat \ {0} /\ KeyClockBound \in Nat

VARIABLES
    keyClock,
    published,   \* the key the provider signs with and publishes
    retired,     \* history: when each key was replaced
    keyCache,    \* _cache: nothing, or the key, fetched_at and keys_fetched_at
    keyQueue,    \* _lock: who holds it or is next, and who waits
    decoder      \* what each caller is doing

keyVars == <<keyClock, published, retired, keyCache, keyQueue, decoder>>

KeyIds == 1..LastKey
\* The key id of a token that names no key of the provider, and of an empty cache.
Foreign == 0
KeyMoments == 0..KeyClockBound
NoKeys == [key |-> Foreign, fetchedAt |-> 0, keysAt |-> 0]

Looking  == {"lookup", "again"}
Fetching == {"fetch", "fetchAgain", "refetch"}
Answers  == {"accepted", "rejected", "unavailable"}

\* The type invariant: only the head of the queue fetches.
IdpKeysTypeOK ==
    /\ keyClock \in KeyMoments /\ published \in KeyIds
    /\ retired \in [KeyIds -> KeyMoments]
    /\ keyCache \in {NoKeys} \union [key : KeyIds, fetchedAt : KeyMoments, keysAt : KeyMoments]
    /\ keyQueue \in Seq(Decoders)
    /\ \A i, j \in 1..Len(keyQueue) : keyQueue[i] = keyQueue[j] => i = j
    /\ decoder \in [Decoders -> [step : {"idle"}] \union
          [step : Looking \union {"miss"} \union Fetching \union Answers, kid : KeyIds \union {Foreign}, now : KeyMoments]]
    /\ \A d \in Decoders : decoder[d].step \in Fetching => Len(keyQueue) > 0 /\ Head(keyQueue) = d

IdpKeysInit ==
    /\ keyClock = 0 /\ published = 1
    /\ retired = [k \in KeyIds |-> 0]
    /\ keyCache = NoKeys /\ keyQueue = <<>>
    /\ decoder = [d \in Decoders |-> [step |-> "idle"]]

\* Mutant of Expired: the cache is never fetched again.
ExpiredNever(cache) == cache = NoKeys

Expired(cache) == cache = NoKeys \/ keyClock - cache.fetchedAt > CacheTtl

\* Mutant of Recent: the minute has become the hour.
RecentHour(cache) == keyClock - cache.keysAt < CacheTtl

Recent(cache) == keyClock - cache.keysAt < RefreshMin

Step(step, kid, now) == [step |-> step, kid |-> kid, now |-> now]

\* _refresh_keys with the lock: refused when the keys are less than a minute old, and the token is
\* refused as it stands; else the fetch begins.
Refreshing(kid, cache) ==
    IF Recent(cache) THEN Step("rejected", kid, 0) ELSE Step("refetch", kid, keyClock)

\* The token is checked against the keys of the cache; on an unknown one the caller asks for the
\* lock again, unless this was its second check already.
Checking(kid, second, cache, waiting) ==
    CASE kid = cache.key -> Step("accepted", kid, 0)
      [] kid # cache.key /\ second -> Step("rejected", kid, 0)
      [] OTHER -> IF waiting = <<>> THEN Refreshing(kid, cache) ELSE Step("miss", kid, 0)

\* _cached with the lock: the cache as it is, or a fetch, dated with the moment it begins.
Looked(kid, second, cache, waiting) ==
    IF Expired(cache) THEN Step(IF second THEN "fetchAgain" ELSE "fetch", kid, keyClock)
    ELSE Checking(kid, second, cache, waiting)

\* Where the caller stands in the queue after its step.
Moves(d, r, waiting) ==
    /\ decoder' = [decoder EXCEPT ![d] = r]
    /\ keyQueue' = CASE r.step \in Fetching -> <<d>> \o waiting
                     [] r.step \in {"miss", "again"} -> Append(waiting, d)
                     [] OTHER -> waiting

\* A token arrives, signed with a key of the provider, past or present, or naming another one.
Decode(d) ==
    /\ decoder[d].step = "idle"
    /\ \E kid \in {Foreign} \union 1..published :
          IF keyQueue = <<>>
          THEN Moves(d, Looked(kid, FALSE, keyCache, <<>>), <<>>)
          ELSE /\ decoder' = [decoder EXCEPT ![d] = Step("lookup", kid, 0)]
               /\ keyQueue' = Append(keyQueue, d)
    /\ UNCHANGED <<keyClock, published, retired, keyCache>>

\* The next in the queue gets the lock.
Turn(d) ==
    LET b == decoder[d]  waiting == Tail(keyQueue) IN
    /\ keyQueue # <<>> /\ Head(keyQueue) = d
    /\ \/ b.step \in Looking /\ Moves(d, Looked(b.kid, b.step = "again", keyCache, waiting), waiting)
       \/ b.step = "miss" /\ Moves(d, Refreshing(b.kid, keyCache), waiting)
    /\ UNCHANGED <<keyClock, published, retired, keyCache>>

\* Discovery and keys arrive, or the provider does not answer.
Fetched(d) ==
    LET b == decoder[d]  waiting == Tail(keyQueue)
        cache == [key |-> published, fetchedAt |-> b.now, keysAt |-> b.now]
    IN
    /\ b.step \in {"fetch", "fetchAgain"}
    /\ \/ keyCache' = cache /\ Moves(d, Checking(b.kid, b.step = "fetchAgain", cache, waiting), waiting)
       \/ UNCHANGED keyCache /\ Moves(d, Step("unavailable", b.kid, 0), waiting)
    /\ UNCHANGED <<keyClock, published, retired>>

\* The keys arrive and the caller looks once more, or the provider does not answer.
Refetched(d) ==
    LET b == decoder[d]  waiting == Tail(keyQueue)
        cache == [key |-> published, fetchedAt |-> keyCache.fetchedAt, keysAt |-> keyClock]
    IN
    /\ b.step = "refetch"
    /\ \/ /\ keyCache' = cache
          /\ Moves(d, IF waiting = <<>> THEN Looked(b.kid, TRUE, cache, <<>>) ELSE Step("again", b.kid, 0), waiting)
       \/ UNCHANGED keyCache /\ Moves(d, Step("unavailable", b.kid, 0), waiting)
    /\ UNCHANGED <<keyClock, published, retired>>

\* The caller has its answer.
Decoded(d) ==
    /\ decoder[d].step \in Answers
    /\ decoder' = [decoder EXCEPT ![d] = [step |-> "idle"]]
    /\ UNCHANGED <<keyClock, published, retired, keyCache, keyQueue>>

\* The provider replaces its key.
Rotate ==
    /\ published < LastKey
    /\ published' = published + 1
    /\ retired' = [retired EXCEPT ![published] = keyClock]
    /\ UNCHANGED <<keyClock, keyCache, keyQueue, decoder>>

PassKeyTime ==
    /\ keyClock < KeyClockBound
    /\ \A d \in Decoders : decoder[d].step \in Fetching => keyClock - decoder[d].now < FetchTime
    /\ keyClock' = keyClock + 1
    /\ UNCHANGED <<published, retired, keyCache, keyQueue, decoder>>

IdpKeysNext ==
    \/ \E d \in Decoders : Decode(d) \/ Turn(d) \/ Fetched(d) \/ Refetched(d) \/ Decoded(d)
    \/ Rotate
    \/ PassKeyTime

IdpKeysSpec == IdpKeysInit /\ [][IdpKeysNext]_keyVars

-----------------------------------------------------------------------------
(* Properties *)

\* A key the provider has withdrawn is trusted for an hour at most: no token is accepted under it
\* later than that (oidc.py:110, "fetched again once they are an hour old").
WithdrawnKeysLapse ==
    [][\A d \in Decoders :
          decoder[d].step # "accepted" /\ decoder'[d].step = "accepted" /\ decoder'[d].kid # published
              => keyClock - retired[decoder'[d].kid] <= CacheTtl]_keyVars

\* A token under the provider's present key is refused only within a minute of a fetch: a rotation
\* is noticed by then, whoever else waits for the lock or fails (oidc.py:225, "refetched once on an
\* unknown key id").
RotationIsNoticed ==
    [][\A d \in Decoders :
          decoder[d].step # "rejected" /\ decoder'[d].step = "rejected" /\ decoder'[d].kid = published
              => keyClock - keyCache'.keysAt < RefreshMin]_keyVars

\* Keys of the provider lapse when withdrawn and are noticed when new (oidc.py:109-170, 224-236).
KeysTurnOver == WithdrawnKeysLapse /\ RotationIsNoticed
=============================================================================
