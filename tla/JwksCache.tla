----------------------------- MODULE JwksCache -----------------------------
(***************************************************************************)
(* The signing-key cache of backend/shared/auth.py, shared by every        *)
(* FastAPI service of cityXai.  The dependency require_roles is a plain    *)
(* `def', so FastAPI runs it in a thread pool: several threads read and    *)
(* write the globals _jwks_cache and _jwks_fetched_at without a lock.      *)
(*                                                                         *)
(* A key is named by its kid.  A token is its signing key and whether its  *)
(* header names that key.  Time is an integer; the clock only advances     *)
(* when no call of get_jwks has been running for MaxFetch (the HTTP        *)
(* timeout of line 56).                                                    *)
(***************************************************************************)
EXTENDS Integers, FiniteSets

CONSTANTS
    Threads,      \* workers of the FastAPI thread pool
    Kids,         \* every signing key Keycloak may ever publish
    TTL,          \* _JWKS_TTL
    MaxFetch,     \* longest run of one get_jwks call
    Uptimes,      \* host uptimes (time.monotonic()) at which the service may start
    MaxClock      \* bound of the model: last instant of the clock

ASSUME TimeAssumption ==
    /\ TTL \in Nat \ {0}
    /\ MaxFetch \in Nat \ {0}
    /\ MaxClock \in Nat
    /\ Uptimes \subseteq 0..MaxClock

VARIABLES
    \* Keycloak and the clock
    published,    \* keys of the realm's certs document
    retiredAt,    \* when a key was withdrawn, Never if it was not
    clock,        \* time.monotonic()
    outage,       \* some fetch has failed or answered without keys (history)
    \* the module's globals
    cache,        \* _jwks_cache["keys"]
    fetchedAt,    \* _jwks_fetched_at
    \* the locals of each thread
    pc,
    signer,       \* the key that signed the token
    named,        \* the header carries a kid
    attempt,      \* first or second _find_key of decode_token
    now,          \* line 48
    fresh,        \* line 57: the keys of the answer
    steady        \* the signing key has been published since Arrive (history)

globals == <<cache, fetchedAt>>
keycloak == <<published, retiredAt>>
token == <<signer, named, steady>>
vars == <<published, retiredAt, clock, outage, cache, fetchedAt,
          pc, signer, named, attempt, now, fresh, steady>>

Never == -1
NoToken == "none"   \* signer of a thread with no request

\* Points of decode_token between which another thread may run.
Inside == {"check", "fetch", "store", "stamp", "return"}
Answered == {"accepted", "badsignature", "unknownkey"}
Points == {"idle", "enter", "force"} \cup Inside \cup Answered

TypeOK ==
    /\ published \in SUBSET Kids
    /\ retiredAt \in [Kids -> Nat \cup {Never}]
    /\ clock \in Nat
    /\ outage \in BOOLEAN
    /\ cache \in SUBSET Kids
    /\ fetchedAt \in Nat
    /\ pc \in [Threads -> Points]
    /\ signer \in [Threads -> Kids \cup {NoToken}]
    /\ named \in [Threads -> BOOLEAN]
    /\ attempt \in [Threads -> 1..2]
    /\ now \in [Threads -> Nat]
    /\ fresh \in [Threads -> SUBSET Kids]
    /\ steady \in [Threads -> BOOLEAN]

Init ==
    /\ \E k \in Kids : published = {k}
    /\ retiredAt = [k \in Kids |-> Never]
    /\ clock \in Uptimes
    /\ outage = FALSE
    /\ cache = {}
    /\ fetchedAt = 0
    /\ pc = [t \in Threads |-> "idle"]
    /\ signer = [t \in Threads |-> NoToken]
    /\ named = [t \in Threads |-> TRUE]
    /\ attempt = [t \in Threads |-> 1]
    /\ now = [t \in Threads |-> 0]
    /\ fresh = [t \in Threads |-> {}]
    /\ steady = [t \in Threads |-> FALSE]

-----------------------------------------------------------------------------
\* Keycloak publishes a further key: a rotation begins.
Rotate(k) ==
    /\ k \notin published
    /\ retiredAt[k] = Never
    /\ published' = published \cup {k}
    /\ UNCHANGED <<retiredAt, clock, outage, globals, pc, token, attempt, now, fresh>>

\* Keycloak withdraws an old key; it never leaves the realm without one.
Retire(k) ==
    /\ k \in published
    /\ published # {k}
    /\ published' = published \ {k}
    /\ retiredAt' = [retiredAt EXCEPT ![k] = clock]
    /\ steady' = [t \in Threads |-> steady[t] /\ signer[t] # k]
    /\ UNCHANGED <<clock, outage, globals, pc, signer, named, attempt, now, fresh>>

\* Time passes, but a call of get_jwks never outlives MaxFetch, and the lines
\* outside it take no time.
Tick ==
    /\ clock < MaxClock
    /\ \A t \in Threads :
          \/ pc[t] = "idle"
          \/ pc[t] \in Inside /\ clock - now[t] < MaxFetch
    /\ clock' = clock + 1
    /\ UNCHANGED <<keycloak, outage, globals, pc, token, attempt, now, fresh>>

-----------------------------------------------------------------------------
\* A request with a bearer token reaches the dependency.
Arrive(t) ==
    /\ pc[t] = "idle"
    /\ \E k \in Kids, hasKid \in BOOLEAN :
          /\ signer' = [signer EXCEPT ![t] = k]
          /\ named' = [named EXCEPT ![t] = hasKid]
          /\ steady' = [steady EXCEPT ![t] = k \in published]
    /\ pc' = [pc EXCEPT ![t] = "enter"]
    /\ UNCHANGED <<keycloak, clock, outage, globals, attempt, now, fresh>>

\* Line 48: now = time.monotonic().
ReadClock(t) ==
    /\ pc[t] = "enter"
    /\ now' = [now EXCEPT ![t] = clock]
    /\ pc' = [pc EXCEPT ![t] = "check"]
    /\ UNCHANGED <<keycloak, clock, outage, globals, token, attempt, fresh>>

\* Mutant: the age limit is off by one.
IsFresh_LateExpiry(t) == now[t] - fetchedAt <= TTL /\ cache # {}

\* Line 49: the cache is young enough and not empty.
IsFresh(t) == now[t] - fetchedAt < TTL /\ cache # {}

CheckFresh(t) ==
    /\ pc[t] = "check"
    /\ pc' = [pc EXCEPT ![t] = IF IsFresh(t) THEN "return" ELSE "fetch"]
    /\ UNCHANGED <<keycloak, clock, outage, globals, token, attempt, now, fresh>>

\* Lines 57-58: the body is kept only if it carries keys.
Keep(keys) == keys # {}

FetchAnswered(t) ==
    /\ pc[t] = "fetch"
    /\ \E keys \in {published, {}} :
          /\ fresh' = [fresh EXCEPT ![t] = keys]
          /\ pc' = [pc EXCEPT ![t] = IF Keep(keys) THEN "store" ELSE "return"]
          /\ outage' = (outage \/ keys = {})
    /\ UNCHANGED <<keycloak, clock, globals, token, attempt, now>>

\* Line 61: any exception of the call is swallowed.
FetchFailed(t) ==
    /\ pc[t] = "fetch"
    /\ pc' = [pc EXCEPT ![t] = "return"]
    /\ outage' = TRUE
    /\ UNCHANGED <<keycloak, clock, globals, token, attempt, now, fresh>>

\* Line 59.
StoreKeys(t) ==
    /\ pc[t] = "store"
    /\ cache' = fresh[t]
    /\ pc' = [pc EXCEPT ![t] = "stamp"]
    /\ fresh' = [fresh EXCEPT ![t] = {}]
    /\ UNCHANGED <<keycloak, clock, outage, fetchedAt, token, attempt, now>>

\* Line 60: the stamp is the clock read before the fetch.
StoreStamp(t) ==
    /\ pc[t] = "stamp"
    /\ fetchedAt' = now[t]
    /\ pc' = [pc EXCEPT ![t] = "return"]
    /\ UNCHANGED <<keycloak, clock, outage, cache, token, attempt, now, fresh>>

\* _find_key (lines 66-71) in the keys get_jwks returned: the key the header
\* names, or the first one, whichever that is, when it names none.
FoundKeys(t) ==
    IF named[t] THEN cache \cap {signer[t]} ELSE cache

\* Lines 50/63 and 99-106, 117-131: the key verifies the token, verifies it
\* not, or there is none; then the first attempt forces a refresh and the
\* second gives up.
Lookup(t) ==
    /\ pc[t] = "return"
    /\ \/ \E k \in FoundKeys(t) :
             pc' = [pc EXCEPT ![t] =
                        IF k = signer[t] THEN "accepted" ELSE "badsignature"]
       \/ /\ FoundKeys(t) = {}
          /\ pc' = [pc EXCEPT ![t] =
                        IF attempt[t] = 1 THEN "force" ELSE "unknownkey"]
    /\ UNCHANGED <<keycloak, clock, outage, globals, token, attempt, now, fresh>>

\* Mutant: the stamp is expired by a sentinel below every clock reading.
ForceRefresh_Sentinel(t) ==
    /\ pc[t] = "force"
    /\ fetchedAt' = Never
    /\ attempt' = [attempt EXCEPT ![t] = 2]
    /\ pc' = [pc EXCEPT ![t] = "enter"]
    /\ UNCHANGED <<keycloak, clock, outage, cache, token, now, fresh>>

\* Lines 103-104.
ForceRefresh(t) ==
    /\ pc[t] = "force"
    /\ fetchedAt' = 0
    /\ attempt' = [attempt EXCEPT ![t] = 2]
    /\ pc' = [pc EXCEPT ![t] = "enter"]
    /\ UNCHANGED <<keycloak, clock, outage, cache, token, now, fresh>>

\* The dependency returns its claim or raises 401; the locals are gone.
Respond(t) ==
    /\ pc[t] \in Answered
    /\ pc' = [pc EXCEPT ![t] = "idle"]
    /\ attempt' = [attempt EXCEPT ![t] = 1]
    /\ now' = [now EXCEPT ![t] = 0]
    /\ signer' = [signer EXCEPT ![t] = NoToken]
    /\ named' = [named EXCEPT ![t] = TRUE]
    /\ steady' = [steady EXCEPT ![t] = FALSE]
    /\ UNCHANGED <<keycloak, clock, outage, globals, fresh>>

Step(t) ==
    \/ Arrive(t) \/ ReadClock(t) \/ CheckFresh(t)
    \/ FetchAnswered(t) \/ FetchFailed(t)
    \/ StoreKeys(t) \/ StoreStamp(t)
    \/ Lookup(t) \/ ForceRefresh(t) \/ Respond(t)

Next ==
    \/ \E k \in Kids : Rotate(k) \/ Retire(k)
    \/ Tick
    \/ \E t \in Threads : Step(t)

Spec == Init /\ [][Next]_vars

-----------------------------------------------------------------------------
\* Once the cache holds keys it never loses them all, whatever Keycloak
\* answers and whatever the threads interleave ("return stale cache rather
\* than empty keys", auth.py:62).
NeverEmptied == [][cache # {} => cache' # {}]_vars

\* A withdrawn key stops opening the services: unless a fetch failed, no
\* token is accepted TTL plus two runs of get_jwks after its key was retired,
\* even when a slow thread overwrites a newer document with an older one.
RetiredKeyLapses ==
    \A t \in Threads :
        /\ pc[t] = "accepted"
        /\ ~outage
        /\ retiredAt[signer[t]] # Never
        => clock - retiredAt[signer[t]] < TTL + 2 * MaxFetch

\* A token whose key was published during the whole request is not refused as
\* unknown unless a fetch failed: decode_token promises to "Attempt a forced
\* cache refresh before giving up" (auth.py:101).
PublishedKeyKnown ==
    \A t \in Threads :
        pc[t] = "unknownkey" /\ steady[t] => outage
=============================================================================
