-------------------------- MODULE JwksCacheProofs --------------------------
(***************************************************************************)
(* For any number of threads and keys, any TTL and any duration of a       *)
(* fetch: the cache is never emptied, and a withdrawn key stops being      *)
(* accepted.                                                               *)
(***************************************************************************)
EXTENDS JwksCache, TLAPS

\* Names of tuples and of sets of program points are expanded everywhere.
USE DEF globals, keycloak, token, Never, NoToken, Inside, Answered, Points

-----------------------------------------------------------------------------
LEMMA InitTyped == Init => TypeOK
<1> SUFFICES ASSUME Init PROVE TypeOK
  OBVIOUS
<1>1. clock \in Nat
  BY TimeAssumption DEF Init
<1>2. retiredAt \in [Kids -> Nat \cup {Never}]
  BY DEF Init
<1>3. published \in SUBSET Kids
  BY DEF Init
<1>4. pc \in [Threads -> Points] /\ signer \in [Threads -> Kids \cup {NoToken}]
  BY DEF Init
<1>5. named \in [Threads -> BOOLEAN] /\ steady \in [Threads -> BOOLEAN]
  BY DEF Init
<1>6. attempt \in [Threads -> 1..2] /\ now \in [Threads -> Nat]
  BY DEF Init
<1>7. fresh \in [Threads -> SUBSET Kids]
  BY DEF Init
<1> QED
  BY <1>1, <1>2, <1>3, <1>4, <1>5, <1>6, <1>7 DEF Init, TypeOK

LEMMA TypeStep == TypeOK /\ [Next]_vars => TypeOK'
<1> SUFFICES ASSUME TypeOK, [Next]_vars PROVE TypeOK'
  OBVIOUS
<1> USE DEF TypeOK
<1>1. ASSUME NEW k \in Kids, Rotate(k) PROVE TypeOK'
  BY <1>1 DEF Rotate
<1>2. ASSUME NEW k \in Kids, Retire(k) PROVE TypeOK'
  BY <1>2 DEF Retire
<1>3. CASE Tick
  BY <1>3 DEF Tick
<1>4. ASSUME NEW t \in Threads, Arrive(t) PROVE TypeOK'
  BY <1>4 DEF Arrive
<1>5. ASSUME NEW t \in Threads, ReadClock(t) PROVE TypeOK'
  BY <1>5 DEF ReadClock
<1>6. ASSUME NEW t \in Threads, CheckFresh(t) PROVE TypeOK'
  BY <1>6 DEF CheckFresh
<1>7. ASSUME NEW t \in Threads, FetchAnswered(t) PROVE TypeOK'
  BY <1>7 DEF FetchAnswered
<1>8. ASSUME NEW t \in Threads, FetchFailed(t) PROVE TypeOK'
  BY <1>8 DEF FetchFailed
<1>9. ASSUME NEW t \in Threads, StoreKeys(t) PROVE TypeOK'
  BY <1>9 DEF StoreKeys
<1>10. ASSUME NEW t \in Threads, StoreStamp(t) PROVE TypeOK'
  BY <1>10 DEF StoreStamp
<1>11. ASSUME NEW t \in Threads, Lookup(t) PROVE TypeOK'
  BY <1>11 DEF Lookup
<1>12. ASSUME NEW t \in Threads, ForceRefresh(t) PROVE TypeOK'
  BY <1>12 DEF ForceRefresh
<1>13. ASSUME NEW t \in Threads, Respond(t) PROVE TypeOK'
  BY <1>13 DEF Respond
<1>14. CASE UNCHANGED vars
  BY <1>14 DEF vars
<1> QED
  BY <1>1, <1>2, <1>3, <1>4, <1>5, <1>6, <1>7, <1>8, <1>9, <1>10, <1>11,
     <1>12, <1>13, <1>14 DEF Next, Step

\* Every variable keeps its type.
THEOREM TypeCorrect == Spec => []TypeOK
  BY InitTyped, TypeStep, PTL DEF Spec

-----------------------------------------------------------------------------
\* A thread about to store an answer holds at least one key.
StoreHasKeys == \A t \in Threads : pc[t] = "store" => fresh[t] # {}

\* No interleaving of threads and no answer of Keycloak empties a cache that
\* holds keys: line 58 keeps only an answer with keys.
THEOREM CacheNeverEmptied == Spec => NeverEmptied
<1>1. Init => StoreHasKeys
  BY DEF Init, StoreHasKeys
<1>2. TypeOK /\ StoreHasKeys /\ [Next]_vars => StoreHasKeys'
  <2> SUFFICES ASSUME TypeOK, StoreHasKeys, [Next]_vars,
                      NEW u \in Threads, pc'[u] = "store"
               PROVE  fresh'[u] # {}
    BY DEF StoreHasKeys
  <2> USE DEF TypeOK, StoreHasKeys
  <2>1. ASSUME NEW t \in Threads, FetchAnswered(t) PROVE fresh'[u] # {}
    BY <2>1 DEF FetchAnswered, Keep
  <2>2. ASSUME NEW t \in Threads, StoreKeys(t) PROVE fresh'[u] # {}
    BY <2>2 DEF StoreKeys
  <2>3. CASE (\E k \in Kids : Rotate(k) \/ Retire(k)) \/ Tick
    BY <2>3 DEF Rotate, Retire, Tick
  <2>4. ASSUME NEW t \in Threads,
               Arrive(t) \/ ReadClock(t) \/ CheckFresh(t) \/ FetchFailed(t)
        PROVE  fresh'[u] # {}
    BY <2>4 DEF Arrive, ReadClock, CheckFresh, FetchFailed
  <2>5. ASSUME NEW t \in Threads,
               StoreStamp(t) \/ Lookup(t) \/ ForceRefresh(t) \/ Respond(t)
        PROVE  fresh'[u] # {}
    BY <2>5 DEF StoreStamp, Lookup, ForceRefresh, Respond
  <2>6. CASE UNCHANGED vars
    BY <2>6 DEF vars
  <2> QED
    BY <2>1, <2>2, <2>3, <2>4, <2>5, <2>6 DEF Next, Step
<1>3. StoreHasKeys /\ [Next]_vars => [cache # {} => cache' # {}]_vars
  BY DEF StoreHasKeys, Next, Step, Rotate, Retire, Tick, Arrive, ReadClock,
         CheckFresh, FetchAnswered, FetchFailed, StoreKeys, StoreStamp, Lookup,
         ForceRefresh, Respond, vars
<1> QED
  BY <1>1, <1>2, <1>3, TypeCorrect, PTL DEF Spec, NeverEmptied

-----------------------------------------------------------------------------
\* Why a withdrawn key lapses.  Alive(k, x): key k was still published at
\* instant x.  The keys an answer carries were alive when its thread read the
\* clock; a slow thread may overwrite the cache with an older answer, but older
\* by at most MaxFetch, because no call outlives MaxFetch.
Alive(k, x) == retiredAt[k] = Never \/ retiredAt[k] >= x

CacheAlive(x) == \A k \in cache : Alive(k, x)

\* Calls of get_jwks are short, and stamps and readings of the clock are past.
ClockInv ==
    /\ fetchedAt <= clock
    /\ \A t \in Threads :
          pc[t] \in Inside => now[t] <= clock /\ clock <= now[t] + MaxFetch

\* What the published keys, the answers on their way and the cache hold.
AgeInv ==
    /\ \A k \in published : retiredAt[k] = Never
    /\ \A t \in Threads :
          pc[t] = "store" => \A k \in fresh[t] : Alive(k, now[t])
    /\ CacheAlive(fetchedAt - MaxFetch)
    /\ \A t \in Threads :
          pc[t] = "stamp" => CacheAlive(now[t] - MaxFetch)
    /\ \A t \in Threads :
          pc[t] = "return" /\ ~outage => CacheAlive(now[t] - TTL - MaxFetch + 1)

LapseInv == TypeOK /\ ClockInv /\ AgeInv /\ RetiredKeyLapses

LEMMA LapseInit == Init => LapseInv
<1> SUFFICES ASSUME Init PROVE LapseInv
  OBVIOUS
<1>1. TypeOK
  BY InitTyped
<1>2. ClockInv
  BY <1>1, TimeAssumption DEF Init, ClockInv, TypeOK
<1>3. AgeInv
  BY DEF Init, AgeInv, CacheAlive, Alive
<1>4. RetiredKeyLapses
  BY DEF Init, RetiredKeyLapses
<1> QED
  BY <1>1, <1>2, <1>3, <1>4 DEF LapseInv

LEMMA ClockStep == TypeOK /\ ClockInv /\ [Next]_vars => ClockInv'
<1> SUFFICES ASSUME TypeOK, ClockInv, [Next]_vars PROVE ClockInv'
  OBVIOUS
<1> USE TimeAssumption DEF TypeOK, ClockInv
<1>1. ASSUME NEW k \in Kids, Rotate(k) \/ Retire(k) PROVE ClockInv'
  BY <1>1 DEF Rotate, Retire
<1>2. CASE Tick
  BY <1>2 DEF Tick
<1>3. ASSUME NEW t \in Threads, Arrive(t) \/ ForceRefresh(t) \/ Respond(t)
      PROVE  ClockInv'
  BY <1>3 DEF Arrive, ForceRefresh, Respond
<1>4. ASSUME NEW t \in Threads, ReadClock(t) PROVE ClockInv'
  BY <1>4 DEF ReadClock
<1>5. ASSUME NEW t \in Threads, CheckFresh(t) \/ FetchFailed(t) PROVE ClockInv'
  BY <1>5 DEF CheckFresh, FetchFailed
<1>6. ASSUME NEW t \in Threads, FetchAnswered(t) PROVE ClockInv'
  BY <1>6 DEF FetchAnswered
<1>7. ASSUME NEW t \in Threads, StoreKeys(t) \/ StoreStamp(t) PROVE ClockInv'
  BY <1>7 DEF StoreKeys, StoreStamp
<1>8. ASSUME NEW t \in Threads, Lookup(t) PROVE ClockInv'
  BY <1>8 DEF Lookup
<1>9. CASE UNCHANGED vars
  BY <1>9 DEF vars
<1> QED
  BY <1>1, <1>2, <1>3, <1>4, <1>5, <1>6, <1>7, <1>8, <1>9 DEF Next, Step

LEMMA AgeStep == LapseInv /\ [Next]_vars => AgeInv'
<1> SUFFICES ASSUME LapseInv, [Next]_vars PROVE AgeInv'
  OBVIOUS
<1> USE TimeAssumption DEF LapseInv, TypeOK, ClockInv, AgeInv, CacheAlive, Alive
<1>1. ASSUME NEW k \in Kids, Rotate(k) PROVE AgeInv'
  BY <1>1 DEF Rotate
<1>2. ASSUME NEW k \in Kids, Retire(k) PROVE AgeInv'
  BY <1>2 DEF Retire
<1>3. CASE Tick
  BY <1>3 DEF Tick
<1>4. ASSUME NEW t \in Threads, Arrive(t) \/ Respond(t) PROVE AgeInv'
  BY <1>4 DEF Arrive, Respond
<1>5. ASSUME NEW t \in Threads, ReadClock(t) PROVE AgeInv'
  BY <1>5 DEF ReadClock
<1>6. ASSUME NEW t \in Threads, CheckFresh(t) PROVE AgeInv'
  BY <1>6 DEF CheckFresh, IsFresh
<1>7. ASSUME NEW t \in Threads, FetchAnswered(t) PROVE AgeInv'
  <2>1. PICK keys \in {published, {}} :
            /\ fresh' = [fresh EXCEPT ![t] = keys]
            /\ pc' = [pc EXCEPT ![t] = IF Keep(keys) THEN "store" ELSE "return"]
            /\ outage' = (outage \/ keys = {})
    BY <1>7 DEF FetchAnswered
  <2>2. UNCHANGED <<published, retiredAt, clock, cache, fetchedAt, now>> /\ pc[t] = "fetch"
    BY <1>7 DEF FetchAnswered
  <2>3. CASE keys = {}
    BY <2>1, <2>2, <2>3 DEF Keep
  <2>4. CASE keys = published /\ keys # {}
    BY <2>1, <2>2, <2>4 DEF Keep
  <2> QED
    BY <2>3, <2>4
<1>8. ASSUME NEW t \in Threads, FetchFailed(t) PROVE AgeInv'
  BY <1>8 DEF FetchFailed
<1>9. ASSUME NEW t \in Threads, StoreKeys(t) PROVE AgeInv'
  BY <1>9 DEF StoreKeys
<1>10. ASSUME NEW t \in Threads, StoreStamp(t) PROVE AgeInv'
  BY <1>10 DEF StoreStamp
<1>11. ASSUME NEW t \in Threads, Lookup(t) PROVE AgeInv'
  BY <1>11 DEF Lookup
<1>12. ASSUME NEW t \in Threads, ForceRefresh(t) PROVE AgeInv'
  BY <1>12 DEF ForceRefresh
<1>13. CASE UNCHANGED vars
  BY <1>13 DEF vars
<1> QED
  BY <1>1, <1>2, <1>3, <1>4, <1>5, <1>6, <1>7, <1>8, <1>9, <1>10, <1>11, <1>12,
     <1>13 DEF Next, Step

LEMMA LapseStep == LapseInv /\ [Next]_vars => RetiredKeyLapses'
<1> SUFFICES ASSUME LapseInv, [Next]_vars PROVE RetiredKeyLapses'
  OBVIOUS
<1> USE TimeAssumption DEF LapseInv, TypeOK, RetiredKeyLapses
<1>1. ASSUME NEW k \in Kids, Rotate(k) \/ Retire(k) PROVE RetiredKeyLapses'
  <2>1. CASE Rotate(k)
    BY <2>1 DEF Rotate
  <2>2. CASE Retire(k)
    <3>1. \A j \in Kids : retiredAt'[j] \in {retiredAt[j], clock}
      BY <2>2 DEF Retire
    <3> QED
      BY <2>2, <3>1 DEF Retire
  <2> QED
    BY <1>1, <2>1, <2>2
<1>2. CASE Tick
  <2>1. \A t \in Threads : pc[t] # "accepted"
    BY <1>2 DEF Tick
  <2>2. pc' = pc
    BY <1>2 DEF Tick
  <2> QED
    BY <2>1, <2>2
<1>3. ASSUME NEW t \in Threads, Lookup(t) PROVE RetiredKeyLapses'
  <2> SUFFICES ASSUME NEW u \in Threads, pc'[u] = "accepted", ~outage',
                      retiredAt'[signer'[u]] # Never
               PROVE  clock' - retiredAt'[signer'[u]] < TTL + 2 * MaxFetch
    BY DEF RetiredKeyLapses
  <2>1. /\ UNCHANGED <<retiredAt, signer, clock, outage>>
        /\ pc[t] = "return"
        /\ u # t => pc[u] = "accepted"
    BY <1>3 DEF Lookup
  <2>2. CASE u # t
    BY <2>1, <2>2
  <2>3. CASE u = t
    <3>1. signer[t] \in cache
      BY <1>3, <2>3 DEF Lookup, FoundKeys
    <3>2. Alive(signer[t], now[t] - TTL - MaxFetch + 1)
      BY <3>1, <2>1, <2>3 DEF AgeInv, CacheAlive
    <3>3. signer[t] \in Kids /\ clock <= now[t] + MaxFetch
      BY <3>1, <2>1 DEF ClockInv
    <3> QED
      BY <3>2, <3>3, <2>1, <2>3 DEF Alive
  <2> QED
    BY <2>2, <2>3
<1>4. ASSUME NEW t \in Threads, Arrive(t) \/ ReadClock(t) \/ CheckFresh(t)
      PROVE  RetiredKeyLapses'
  BY <1>4 DEF Arrive, ReadClock, CheckFresh
<1>5. ASSUME NEW t \in Threads, FetchAnswered(t) \/ FetchFailed(t)
      PROVE  RetiredKeyLapses'
  BY <1>5 DEF FetchAnswered, FetchFailed
<1>6. ASSUME NEW t \in Threads,
             StoreKeys(t) \/ StoreStamp(t) \/ ForceRefresh(t) \/ Respond(t)
      PROVE  RetiredKeyLapses'
  BY <1>6 DEF StoreKeys, StoreStamp, ForceRefresh, Respond
<1>7. CASE UNCHANGED vars
  BY <1>7 DEF vars
<1> QED
  BY <1>1, <1>2, <1>3, <1>4, <1>5, <1>6, <1>7 DEF Next, Step

\* Unless a fetch failed, no token is accepted TTL + 2 * MaxFetch after its key
\* was withdrawn, however many threads refresh the cache at once.
THEOREM RetiredKeysLapse == Spec => []RetiredKeyLapses
<1>1. LapseInv /\ [Next]_vars => LapseInv'
  BY TypeStep, ClockStep, AgeStep, LapseStep DEF LapseInv
<1>2. LapseInv => RetiredKeyLapses
  BY DEF LapseInv
<1> QED
  BY LapseInit, <1>1, <1>2, PTL DEF Spec
=============================================================================
