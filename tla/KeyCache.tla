------------------------------ MODULE KeyCache ------------------------------
(***************************************************************************)
(* Access tokens are checked against the public key of the user service,   *)
(* which the other services cache: an Authenticator. The user service has  *)
(* one key at a time, named by its own digest; it is replaced when the     *)
(* service is deployed with another. Requests refresh the cache: one at a  *)
(* time (refreshMu), when it has expired or when a token names a key it    *)
(* does not hold, then at most once in MissGap.                            *)
(*                                                                         *)
(* One unit of time stands for a part of the five seconds of the gap. A    *)
(* token is what its header and claims are worth: the key it names and was *)
(* signed with, its use and its role. Its own expiry is left out, so that  *)
(* the cache alone decides how long it is accepted.                        *)
(***************************************************************************)
EXTENDS Integers, FiniteSets

CONSTANTS
  Requests,  \* requests that carry a token
  Kinds,     \* of tokens: access tokens of an admin or a user, refresh tokens
  Lifetime,  \* keyCacheLifetime, an hour
  MissGap,   \* the time between two early refreshes, five seconds
  Timeout,   \* of the client that fetches, five seconds
  MaxKeys,   \* bound on the keys of the user service
  MaxTime,   \* bound on the clock
  None       \* no request

VARIABLES
  clock,
  signing,   \* the key of the user service
  replaced,  \* when each earlier key was replaced
  cache,     \* the keys and when they expire
  lastMiss,  \* when a miss last caused a refresh
  holder,    \* the request that holds refreshMu
  request    \* the state of every request

vars == <<clock, signing, replaced, cache, lastMiss, holder, request>>
userVars == <<signing, replaced>>
cacheVars == <<cache, lastMiss>>

-----------------------------------------------------------------------------
(* Tokens *)

\* No key of the user service has this digest.
Unknown == 0
Tokens == [kid : 0..signing, kind : Kinds]
NoToken == [kid |-> Unknown, kind |-> "none"]

\* The claims are looked at after the signature: an access token with a role.
Validate(t) == t.kind # "refresh"
\* RequireAdmin stands behind the verified caller.
Serve(t) == IF t.kind = "admin" THEN "served" ELSE "forbidden"
Verified(t, known) == IF known /\ Validate(t) THEN Serve(t) ELSE "unauthorized"

-----------------------------------------------------------------------------
(* The cache *)

PublicKeys == {signing}
lookupKey(t) == t.kid \in cache.keys
Fresh == clock < cache.expires
Hit(t) == Fresh /\ lookupKey(t)
MissedRecently == clock - lastMiss < MissGap

Idle == [pc |-> "idle", token |-> NoToken, since |-> 0, keys |-> {}, outcome |-> "none"]
Ends(r, outcome) == request' = [request EXCEPT ![r] = [Idle EXCEPT !.outcome = outcome]]

\* NewAuthenticator has fetched the first keys before the routes are served.
KeyCacheInit ==
  /\ clock = 0 /\ signing = 1 /\ replaced = [k \in 1..MaxKeys |-> MaxTime]
  /\ cache = [keys |-> {1}, expires |-> Lifetime]
  /\ lastMiss = -MissGap
  /\ holder = None
  /\ request = [r \in Requests |-> Idle]

\* Another process of the user service, with another key.
ReplaceKey ==
  /\ signing < MaxKeys
  /\ signing' = signing + 1
  /\ replaced' = [replaced EXCEPT ![signing] = clock]
  /\ UNCHANGED <<clock, cacheVars, holder, request>>

\* A token for a service with a cache, or for the user service.
Authenticate(r, t, at) ==
  /\ request[r].pc = "idle"
  /\ request' = [request EXCEPT ![r] = [Idle EXCEPT !.pc = at, !.token = t]]
  /\ UNCHANGED <<clock, userVars, cacheVars, holder>>

\* The user service checks tokens with its own key.
AuthenticateLocal(r) ==
  /\ request[r].pc = "local"
  /\ Ends(r, Verified(request[r].token, request[r].token.kid = signing))
  /\ UNCHANGED <<clock, userVars, cacheVars, holder>>

\* key: a known key waits for nobody.
Key(r) ==
  /\ request[r].pc = "key"
  /\ IF Hit(request[r].token)
     THEN Ends(r, Verified(request[r].token, TRUE))
     ELSE request' = [request EXCEPT ![r].pc = "refresh"]
  /\ UNCHANGED <<clock, userVars, cacheVars, holder>>

\* Mutant: there is no refreshMu.
NoMutex(r) == TRUE
Free(r) == holder = None

\* refreshKey: looks again behind the lock, and spaces early refreshes.
RefreshKey(r) ==
  /\ request[r].pc = "refresh" /\ Free(r)
  /\ \/ /\ Hit(request[r].token)
        /\ Ends(r, Verified(request[r].token, TRUE)) /\ UNCHANGED <<lastMiss, holder>>
     \/ /\ Fresh /\ ~lookupKey(request[r].token) /\ MissedRecently
        /\ Ends(r, "unauthorized") /\ UNCHANGED <<lastMiss, holder>>
     \/ /\ ~Fresh \/ (~lookupKey(request[r].token) /\ ~MissedRecently)
        /\ lastMiss' = IF Fresh THEN clock ELSE lastMiss
        /\ holder' = r
        /\ request' = [request EXCEPT ![r].pc = "fetch", ![r].since = clock]
  /\ UNCHANGED <<clock, userVars, cache>>

\* GetPublicKeys answers with the key of the process that is asked.
GetPublicKeys(r) ==
  /\ request[r].pc = "fetch"
  /\ request' = [request EXCEPT ![r].pc = "store", ![r].keys = PublicKeys]
  /\ UNCHANGED <<clock, userVars, cacheVars, holder>>

\* The call fails, or its answer is no proper set of keys.
FetchFails(r) ==
  /\ request[r].pc \in {"fetch", "store"}
  /\ Ends(r, "unavailable")
  /\ holder' = None
  /\ UNCHANGED <<clock, userVars, cacheVars>>

Store(r) ==
  /\ request[r].pc = "store"
  /\ cache' = [keys |-> request[r].keys, expires |-> clock + Lifetime]
  /\ Ends(r, Verified(request[r].token, request[r].token.kid \in request[r].keys))
  /\ holder' = None
  /\ UNCHANGED <<clock, userVars, lastMiss>>

\* A fetch ends within its timeout.
Fetching(r) == request[r].pc \in {"fetch", "store"}
Tick ==
  /\ clock < MaxTime
  /\ \A r \in Requests : Fetching(r) => clock < request[r].since + Timeout
  /\ clock' = clock + 1
  /\ UNCHANGED <<userVars, cacheVars, holder, request>>

KeyCacheNext ==
  \/ ReplaceKey \/ Tick
  \/ \E r \in Requests :
       \/ \E t \in Tokens : Authenticate(r, t, "key") \/ Authenticate(r, t, "local")
       \/ AuthenticateLocal(r) \/ Key(r) \/ RefreshKey(r) \/ GetPublicKeys(r) \/ FetchFails(r) \/ Store(r)

KeyCacheSpec == KeyCacheInit /\ [][KeyCacheNext]_vars

-----------------------------------------------------------------------------
(* Properties *)

Decided(r) == request[r].pc # "idle" /\ request'[r].pc = "idle"

\* A token is accepted only while its key is published or, once the key was
\* replaced, for as long as a cache that was being fetched then may live.
OldKeysEnd ==
  \A r \in Requests :
    Decided(r) /\ request'[r].outcome \in {"served", "forbidden"} =>
      LET k == request[r].token.kid
      IN k = signing \/ clock < replaced[k] + Timeout + Lifetime

\* What is stored is never older than what is there, although several requests
\* fetch: a replaced key does not come back.
CacheMovesOn ==
  cache' # cache => \A old \in cache.keys, new \in cache'.keys : old <= new

\* An access token signed with the present key is refused as unauthorized only
\* in the gap behind an early refresh, and never because the keys could not be
\* fetched.
NewKeyFound ==
  \A r \in Requests :
    Decided(r) /\ request'[r].outcome = "unauthorized" /\ Validate(request[r].token)
      /\ request[r].token.kid = signing
      => MissedRecently /\ ~lookupKey(request[r].token)
=============================================================================
