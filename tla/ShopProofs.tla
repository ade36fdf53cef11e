------------------------------ MODULE ShopProofs ------------------------------
(***************************************************************************)
(* Proofs about the shop: that a shopper's pages and deals are what module *)
(* Storefront says of them, for any number of users, products, workers and *)
(* failures, and that module OrderTotal charges what it shows, for every   *)
(* NanosMod, cart, price and currency.                                     *)
(***************************************************************************)
EXTENDS Storefront, OrderTotal, FiniteSetTheorems, SequenceTheorems, TLAPS

\* Who waits in the queue of the pool: every call of a user once.
QueueInv ==
    /\ \A i \in DOMAIN queue : queue[i] # Probe => rpc[queue[i]].at = "queued"
    /\ \A i, j \in DOMAIN queue : queue[i] = queue[j] /\ queue[i] # Probe => i = j

\* Requests about a product have one, and a page is waited for by its request.
ItemInv ==
    \A u \in Users :
        /\ \A i \in DOMAIN task[u] : task[u][i] \in {"product", "add"} => deal[u].item \in Products
        /\ page[u].fate = "waiting" => task[u] # <<>>

Typed == ShopTypeOK /\ QueueInv /\ ItemInv

Deal == [item : Products \cup {None}, added : BOOLEAN, ordered : (SUBSET Products) \cup {NoOrder}]
Page == [ids : SUBSET Products, shown : SUBSET Products,
         fate : {"none", "waiting", "ok", "error"}]
CallStates == {"none", "queued", "working", "answered", "failed"}

ShopperTyped ==
    /\ task \in [Users -> Suffixes]
    /\ deal \in [Users -> Deal]
    /\ cart \in [Users -> SUBSET Products]
    /\ page \in [Users -> Page]

PoolTyped ==
    /\ rpc \in [Users -> Call]
    /\ queue \in Seq(Users \cup {Probe})
    /\ missed \in 0..(MaxMissed - 1)

StartTyped ==
    /\ addressed \in BOOLEAN
    /\ at \in [Names -> 0..6] /\ \A s \in Names : at[s] <= Len(Steps[s]) + 1
    /\ tries \in [Names -> 0..(Attempts - 1)]

RestTyped == catalog \subseteq Products /\ troubles \in 0..MaxTroubles

Waits == \A u \in Users : page[u].fate = "waiting" <=> rpc[u].at # "none"

\* The types, by what changes together.
LEMMA TypesAre ==
    ShopTypeOK <=> ShopperTyped /\ PoolTyped /\ StartTyped /\ RestTyped /\ Waits
  BY DEF ShopTypeOK, ServicesTypeOK, ShopperTyped, PoolTyped, StartTyped, RestTyped, Waits,
         Deal, Page

-----------------------------------------------------------------------------
(* The steps of a start. *)

LEMMA StepsAre ==
    ASSUME NEW s \in Names
    PROVE  /\ Len(Steps[s]) \in 3..4
           /\ DOMAIN Steps[s] = 1..Len(Steps[s])
  <1>1. s \in {"recommendation", "email", "assistant"}
    BY DEF Names, Steps
  <1>2. CASE s = "recommendation"
    <2>1. Steps[s] = <<"profiler", "tracing", "address", "bind">>
      BY <1>2 DEF Steps, RecommendationSteps
    <2> QED BY <2>1
  <1>3. CASE s = "email"
    <2>1. Steps[s] = <<"profiler", "tracing", "bind">>
      BY <1>3 DEF Steps, EmailSteps
    <2> QED BY <2>1
  <1>4. CASE s = "assistant"
    <2>1. Steps[s] = <<"environment", "database", "bind">>
      BY <1>4 DEF Steps, AssistantSteps
    <2> QED BY <2>1
  <1> QED BY <1>1, <1>2, <1>3, <1>4

\* A service that is at a step of its start is before its last one.
LEMMA AtStep ==
    ASSUME StartTyped, NEW s \in Names, Step(s) # "none"
    PROVE  at[s] \in 1..Len(Steps[s])
  BY StepsAre DEF StartTyped, Step

\* One step on, or the end.
LEMMA MoveType ==
    ASSUME StartTyped, NEW s \in Names, NEW to \in 0..(Len(Steps[s]) + 1),
           at' = [at EXCEPT ![s] = to]
    PROVE  at' \in [Names -> 0..6] /\ \A n \in Names : at'[n] <= Len(Steps[n]) + 1
  <1>1. to \in 0..6 /\ to <= Len(Steps[s]) + 1
    <2>1. PICK n \in 3..4 : n = Len(Steps[s])
      BY StepsAre
    <2>2. to \in 0..(n + 1)
      BY <2>1
    <2>3. to \in 0..6 /\ to <= n + 1
      BY <2>2
    <2> QED BY <2>1, <2>3
  <1>2. at' \in [Names -> 0..6]
    BY <1>1 DEF StartTyped
  <1>3. \A n \in Names : at'[n] = IF n = s THEN to ELSE at[n]
    BY DEF StartTyped
  <1> QED BY <1>1, <1>2, <1>3 DEF StartTyped

LEMMA TriesReset ==
    ASSUME StartTyped, NEW s \in Names, tries' = [tries EXCEPT ![s] = 0]
    PROVE  tries' \in [Names -> 0..(Attempts - 1)]
  BY DEF StartTyped, Attempts

\* A step that raises counts an attempt, goes on or ends the service.
LEMMA FailsType ==
    ASSUME StartTyped, NEW s \in Names, Step(s) # "none", Fails(s), UNCHANGED addressed
    PROVE  StartTyped'
  <1>1. CASE Step(s) = "profiler" /\ tries[s] + 1 < Attempts
    <2>1. tries' = [tries EXCEPT ![s] = @ + 1] /\ at' = at
      BY <1>1 DEF Fails
    <2> QED BY <1>1, <2>1 DEF StartTyped, Attempts
  <1>2. CASE ~(Step(s) = "profiler" /\ tries[s] + 1 < Attempts)
    <2> DEFINE to == IF Step(s) \in Tolerant THEN at[s] + 1 ELSE Dead
    <2>1. to \in 0..(Len(Steps[s]) + 1)
      BY AtStep, StepsAre DEF Dead
    <2>2. at' = [at EXCEPT ![s] = to] /\ tries' = [tries EXCEPT ![s] = 0]
      BY <1>2 DEF Fails
    <2> HIDE DEF to
    <2> QED BY <2>1, <2>2, MoveType, TriesReset DEF StartTyped
  <1> QED BY <1>1, <1>2

\* A step that succeeds leads to the next one, the last to the open port.
LEMMA AdvanceType ==
    ASSUME StartTyped, NEW s \in Names, Advance(s)
    PROVE  StartTyped'
  <1>1. at[s] + 1 \in 0..(Len(Steps[s]) + 1)
    BY AtStep, StepsAre DEF Advance
  <1> QED BY <1>1, MoveType, TriesReset DEF Advance, StartTyped

\* A service ends.
LEMMA EndType ==
    ASSUME StartTyped, NEW s \in Names, at' = [at EXCEPT ![s] = Dead],
           tries' = tries \/ tries' = [tries EXCEPT ![s] = 0], UNCHANGED addressed
    PROVE  StartTyped'
  <1>1. Dead \in 0..(Len(Steps[s]) + 1)
    BY StepsAre DEF Dead
  <1> QED BY <1>1, MoveType, TriesReset DEF StartTyped

LEMMA RestartType ==
    ASSUME StartTyped, NEW s \in Names, Restart(s)
    PROVE  StartTyped'
  <1>1. 1 \in 0..(Len(Steps[s]) + 1)
    BY StepsAre
  <1> QED BY <1>1, MoveType DEF Restart, StartTyped

-----------------------------------------------------------------------------
(* The calls of the recommendation service. *)

\* What a step of the services does to a call: it stays that user's call about
\* the same products, and an answer holds none of them.
CallKept(u) ==
    /\ rpc'[u] \in Call
    /\ rpc'[u].at = "none" <=> rpc[u].at = "none"
    /\ rpc'[u].ids = rpc[u].ids
    /\ rpc'[u].answer = rpc[u].answer \/ rpc'[u].answer \cap rpc[u].ids = {}

LEMMA CallIs ==
    ASSUME PoolTyped, NEW u \in Users
    PROVE  /\ rpc[u] \in Call /\ rpc[u].at \in CallStates
           /\ rpc[u].ids \in SUBSET Products /\ rpc[u].answer \in SUBSET Products
  BY DEF PoolTyped, Call, CallStates

LEMMA CallAt ==
    ASSUME NEW c \in Call, NEW a \in CallStates
    PROVE  /\ [c EXCEPT !.at = a] \in Call
           /\ [c EXCEPT !.at = a].at = a
           /\ [c EXCEPT !.at = a].ids = c.ids
           /\ [c EXCEPT !.at = a].answer = c.answer
  BY DEF Call, CallStates

\* The call of one user moves on.
LEMMA MoveCall ==
    ASSUME PoolTyped, NEW v \in Users, NEW a \in CallStates \ {"none"}, rpc[v].at # "none",
           rpc' = [rpc EXCEPT ![v].at = a]
    PROVE  /\ rpc' \in [Users -> Call]
           /\ \A u \in Users : CallKept(u)
           /\ rpc'[v].at = a
           /\ \A u \in Users \ {v} : rpc'[u] = rpc[u]
  <1>1. rpc' = [rpc EXCEPT ![v] = [rpc[v] EXCEPT !.at = a]]
    OBVIOUS
  <1>2. [rpc[v] EXCEPT !.at = a] \in Call
    BY CallIs, CallAt
  <1>3. rpc' \in [Users -> Call]
    BY <1>1, <1>2 DEF PoolTyped
  <1>4. rpc'[v] = [rpc[v] EXCEPT !.at = a] /\ \A u \in Users \ {v} : rpc'[u] = rpc[u]
    BY <1>1 DEF PoolTyped
  <1>5. CallKept(v) /\ rpc'[v].at = a
    <2>1. rpc[v] \in Call /\ a \in CallStates
      BY CallIs
    <2>2. LET c == [rpc[v] EXCEPT !.at = a]
          IN  c.at = a /\ c.ids = rpc[v].ids /\ c.answer = rpc[v].answer
      BY <2>1, CallAt
    <2>3. rpc'[v].at = a /\ rpc'[v].ids = rpc[v].ids /\ rpc'[v].answer = rpc[v].answer
      BY <1>4, <2>2
    <2> QED BY <1>2, <1>4, <2>3 DEF CallKept
  <1>6. \A u \in Users \ {v} : CallKept(u)
    BY <1>4, CallIs DEF CallKept
  <1> QED BY <1>3, <1>4, <1>5, <1>6

\* The calls of a service that ends have failed, nobody waits for it any more.
LEMMA AbortCalls ==
    ASSUME PoolTyped, NEW s \in Names, Abort(s)
    PROVE  PoolTyped' /\ (\A u \in Users : CallKept(u)) /\ (QueueInv => QueueInv')
  <1>1. CASE s # "recommendation"
    <2>1. UNCHANGED <<rpc, queue, missed>>
      BY <1>1 DEF Abort, pool
    <2>2. \A u \in Users : CallKept(u)
      BY <2>1, CallIs DEF CallKept
    <2> QED BY <2>1, <2>2 DEF PoolTyped, QueueInv
  <1>2. CASE s = "recommendation"
    <2>1. /\ rpc' = [u \in Users |-> IF rpc[u].at \in {"queued", "working"}
                                     THEN [rpc[u] EXCEPT !.at = "failed"] ELSE rpc[u]]
          /\ queue' = <<>>
          /\ missed' = 0
      BY <1>2 DEF Abort
    <2>2. ASSUME NEW u \in Users
          PROVE  CallKept(u)
      <3>1. CASE rpc[u].at \in {"queued", "working"}
        <4>1. rpc'[u] = [rpc[u] EXCEPT !.at = "failed"]
          BY <2>1, <3>1
        <4>2. rpc[u] \in Call /\ "failed" \in CallStates
          BY CallIs DEF CallStates
        <4>3. /\ rpc'[u] \in Call /\ rpc'[u].at = "failed"
              /\ rpc'[u].ids = rpc[u].ids /\ rpc'[u].answer = rpc[u].answer
          BY <4>1, <4>2, CallAt
        <4> QED BY <3>1, <4>3 DEF CallKept
      <3>2. CASE rpc[u].at \notin {"queued", "working"}
        <4>1. rpc'[u] = rpc[u]
          BY <2>1, <3>2
        <4> QED BY <4>1, CallIs DEF CallKept
      <3> QED BY <3>1, <3>2
    <2>3. rpc' \in [Users -> Call]
      BY <2>1, <2>2 DEF CallKept
    <2>4. queue' \in Seq(Users \cup {Probe}) /\ missed' \in 0..(MaxMissed - 1)
      BY <2>1, ServicesAssumption
    <2>5. QueueInv'
      BY <2>1 DEF QueueInv
    <2> QED BY <2>2, <2>3, <2>4, <2>5 DEF PoolTyped
  <1> QED BY <1>1, <1>2

\* An answer holds products of the catalog that are not on the page.
LEMMA AnswerCall ==
    ASSUME PoolTyped, RestTyped, NEW v \in Users, ListRecommendations(v)
    PROVE  /\ rpc' \in [Users -> Call]
           /\ \A u \in Users : CallKept(u)
           /\ \A u \in Users \ {v} : rpc'[u] = rpc[u]
  <1>1. PICK sample \in SUBSET Candidates(rpc[v].ids) :
            rpc' = [rpc EXCEPT ![v].at = "answered", ![v].answer = sample]
    BY DEF ListRecommendations
  <1> DEFINE done == [rpc[v] EXCEPT !.at = "answered", !.answer = sample]
  <1>2. rpc' = [rpc EXCEPT ![v] = done]
    BY <1>1 DEF PoolTyped
  <1>3. sample \in SUBSET Products /\ sample \cap rpc[v].ids = {}
    BY DEF Candidates, RestTyped
  <1>4. done \in Call /\ done.at = "answered" /\ done.ids = rpc[v].ids /\ done.answer = sample
    <2>1. rpc[v] \in Call
      BY CallIs
    <2> QED BY <1>3, <2>1 DEF Call
  <1> HIDE DEF done
  <1>5. rpc' \in [Users -> Call] /\ rpc'[v] = done /\ \A u \in Users \ {v} : rpc'[u] = rpc[u]
    BY <1>2, <1>4 DEF PoolTyped
  <1>6. CallKept(v)
    BY <1>3, <1>4, <1>5 DEF CallKept, ListRecommendations
  <1>7. \A u \in Users \ {v} : CallKept(u)
    BY <1>5, CallIs DEF CallKept
  <1> QED BY <1>5, <1>6, <1>7

-----------------------------------------------------------------------------
(* The queue. *)

\* A call that enters the queue is not in it yet.
LEMMA Enqueue ==
    ASSUME PoolTyped, QueueInv, NEW e \in Users \cup {Probe},
           e # Probe => (rpc[e].at # "queued" /\ rpc'[e].at = "queued"),
           \A u \in Users : u # e => rpc'[u] = rpc[u],
           queue' = Append(queue, e)
    PROVE  queue' \in Seq(Users \cup {Probe}) /\ QueueInv'
  <1>1. queue \in Seq(Users \cup {Probe})
    BY DEF PoolTyped
  <1>2. /\ queue' \in Seq(Users \cup {Probe})
        /\ DOMAIN queue' = 1..(Len(queue) + 1)
        /\ \A i \in DOMAIN queue : queue'[i] = queue[i]
        /\ queue'[Len(queue) + 1] = e
    BY <1>1
  <1>3. \A i \in DOMAIN queue : queue[i] # Probe => queue[i] # e /\ queue[i] \in Users
    BY <1>1 DEF QueueInv
  <1>4. \A i \in DOMAIN queue' : queue'[i] # Probe => rpc'[queue'[i]].at = "queued"
    BY <1>1, <1>2, <1>3 DEF QueueInv
  <1>5. \A i, j \in DOMAIN queue' : queue'[i] = queue'[j] /\ queue'[i] # Probe => i = j
    BY <1>1, <1>2, <1>3 DEF QueueInv
  <1> QED BY <1>2, <1>4, <1>5 DEF QueueInv

\* What leaves the queue is in it no more.
LEMMA Dequeue ==
    ASSUME PoolTyped, QueueInv, queue # <<>>, queue' = Tail(queue),
           \A u \in Users : u # Head(queue) => rpc'[u] = rpc[u]
    PROVE  queue' \in Seq(Users \cup {Probe}) /\ QueueInv'
  <1>1. queue \in Seq(Users \cup {Probe})
    BY DEF PoolTyped
  <1>2. /\ queue' \in Seq(Users \cup {Probe})
        /\ Head(queue) = queue[1] /\ 1 \in DOMAIN queue
        /\ \A i \in DOMAIN queue' : queue'[i] = queue[i + 1] /\ i + 1 \in DOMAIN queue /\ i + 1 # 1
    BY <1>1
  <1>3. \A i \in DOMAIN queue' : queue'[i] # Probe => queue'[i] \in Users /\ queue'[i] # Head(queue)
    BY <1>1, <1>2 DEF QueueInv
  <1>4. \A i \in DOMAIN queue' : queue'[i] # Probe => rpc'[queue'[i]].at = "queued"
    BY <1>2, <1>3 DEF QueueInv
  <1>5. \A i, j \in DOMAIN queue' : queue'[i] = queue'[j] /\ queue'[i] # Probe => i = j
    <2> SUFFICES ASSUME NEW i \in DOMAIN queue', NEW j \in DOMAIN queue',
                        queue'[i] = queue'[j], queue'[i] # Probe
                 PROVE  i = j
      OBVIOUS
    <2>1. i + 1 = j + 1
      BY <1>2 DEF QueueInv
    <2>2. i \in Int /\ j \in Int
      BY <1>2
    <2> QED BY <2>1, <2>2
  <1> QED BY <1>2, <1>4, <1>5 DEF QueueInv

\* A sequence that has lost its k-th element.
LEMMA WithoutIs ==
    ASSUME NEW S, NEW s \in Seq(S), NEW k \in 1..Len(s)
    PROVE  /\ Without(s, k) \in Seq(S)
           /\ DOMAIN Without(s, k) = 1..(Len(s) - 1)
           /\ \A i \in 1..(Len(s) - 1) : Without(s, k)[i] = IF i < k THEN s[i] ELSE s[i + 1]
  <1> DEFINE before == SubSeq(s, 1, k - 1)
             after == SubSeq(s, k + 1, Len(s))
  <1>1. Len(s) \in Nat /\ k \in Int /\ \A i \in 1..Len(s) : s[i] \in S
    OBVIOUS
  <1>2. /\ before \in Seq(S) /\ Len(before) = k - 1
        /\ \A i \in 1..(k - 1) : before[i] = s[i]
    <2>1. /\ before \in Seq(S)
          /\ Len(before) = IF 1 <= k - 1 THEN k - 1 - 1 + 1 ELSE 0
          /\ \A i \in 1..(k - 1 - 1 + 1) : before[i] = s[1 + i - 1]
      BY <1>1, SubSeqProperties
    <2> QED BY <1>1, <2>1
  <1>3. /\ after \in Seq(S) /\ Len(after) = Len(s) - k
        /\ \A i \in 1..(Len(s) - k) : after[i] = s[k + i]
    <2>1. /\ after \in Seq(S)
          /\ Len(after) = IF k + 1 <= Len(s) THEN Len(s) - (k + 1) + 1 ELSE 0
          /\ \A i \in 1..(Len(s) - (k + 1) + 1) : after[i] = s[k + 1 + i - 1]
      BY <1>1, SubSeqProperties
    <2> QED BY <1>1, <2>1
  <1> HIDE DEF before, after
  <1>4. /\ before \o after \in Seq(S)
        /\ Len(before \o after) = Len(before) + Len(after)
        /\ \A i \in 1..(Len(before) + Len(after)) : (before \o after)[i] =
              IF i <= Len(before) THEN before[i] ELSE after[i - Len(before)]
    BY <1>2, <1>3, ConcatProperties
  <1>5. Without(s, k) = before \o after
    BY DEF before, after, Without
  <1>6. Len(before) + Len(after) = Len(s) - 1
    BY <1>1, <1>2, <1>3
  <1> DEFINE r == before \o after
  <1>7. r \in Seq(S) /\ Len(r) = Len(s) - 1
    BY <1>4, <1>6
  <1>8. \A i \in 1..(Len(s) - 1) : r[i] = IF i <= k - 1 THEN before[i] ELSE after[i - (k - 1)]
    BY <1>2, <1>4, <1>6
  <1> HIDE DEF r
  <1>9. DOMAIN r = 1..(Len(s) - 1)
    BY <1>7
  <1>10. ASSUME NEW i \in 1..(Len(s) - 1)
         PROVE  r[i] = IF i < k THEN s[i] ELSE s[i + 1]
    <2>1. CASE i < k
      <3>1. i <= k - 1 /\ i \in 1..(k - 1)
        BY <1>1, <1>10, <2>1
      <3> QED BY <1>2, <1>8, <2>1, <3>1
    <2>2. CASE ~(i < k)
      <3>1. ~(i <= k - 1) /\ i - (k - 1) \in 1..(Len(s) - k) /\ k + (i - (k - 1)) = i + 1
        BY <1>1, <1>10, <2>2
      <3>2. r[i] = after[i - (k - 1)]
        BY <1>8, <3>1
      <3>3. after[i - (k - 1)] = s[k + (i - (k - 1))]
        BY <1>3, <3>1
      <3> QED BY <2>2, <3>1, <3>2, <3>3
    <2> QED BY <2>1, <2>2
  <1> QED BY <1>5, <1>7, <1>9, <1>10 DEF r

\* The queue without one of its entries.
LEMMA QueueWithout ==
    ASSUME PoolTyped, QueueInv, NEW k \in DOMAIN queue, queue' = Without(queue, k), UNCHANGED rpc
    PROVE  queue' \in Seq(Users \cup {Probe}) /\ QueueInv'
  <1>1. /\ queue \in Seq(Users \cup {Probe}) /\ k \in 1..Len(queue) /\ Len(queue) \in Nat
        /\ DOMAIN queue = 1..Len(queue)
    BY DEF PoolTyped
  <1>2. /\ queue' \in Seq(Users \cup {Probe})
        /\ DOMAIN queue' = 1..(Len(queue) - 1)
        /\ \A i \in DOMAIN queue' : queue'[i] = IF i < k THEN queue[i] ELSE queue[i + 1]
    BY <1>1, WithoutIs
  <1>3. ASSUME NEW i \in DOMAIN queue'
        PROVE  \E m \in DOMAIN queue : queue'[i] = queue[m] /\ m = IF i < k THEN i ELSE i + 1
    <2>1. i \in DOMAIN queue /\ i + 1 \in DOMAIN queue
      BY <1>1, <1>2
    <2> QED BY <1>2, <2>1
  <1>4. \A i \in DOMAIN queue' : queue'[i] # Probe => rpc'[queue'[i]].at = "queued"
    BY <1>3 DEF QueueInv
  <1>5. ASSUME NEW i \in DOMAIN queue', NEW j \in DOMAIN queue',
               queue'[i] = queue'[j], queue'[i] # Probe
        PROVE  i = j
    <2>1. PICK m \in DOMAIN queue : queue'[i] = queue[m] /\ m = IF i < k THEN i ELSE i + 1
      BY <1>3
    <2>2. PICK n \in DOMAIN queue : queue'[j] = queue[n] /\ n = IF j < k THEN j ELSE j + 1
      BY <1>3
    <2>3. m = n
      BY <1>5, <2>1, <2>2 DEF QueueInv
    <2>4. i \in Int /\ j \in Int /\ k \in Int
      BY <1>1, <1>2
    <2> QED BY <2>1, <2>2, <2>3, <2>4
  <1> QED BY <1>2, <1>4, <1>5 DEF QueueInv

-----------------------------------------------------------------------------
(* The steps of the services. *)

\* Trouble is counted up to its bound.
LEMMA TroubleType == RestTyped /\ Trouble => troubles' \in 0..MaxTroubles
  BY ServicesAssumption DEF RestTyped, Trouble

\* What a step of the services keeps.
Served ==
    /\ PoolTyped' /\ StartTyped' /\ RestTyped' /\ QueueInv'
    /\ \A u \in Users : CallKept(u)

LEMMA PoolStays ==
    ASSUME PoolTyped, QueueInv, UNCHANGED pool
    PROVE  PoolTyped' /\ QueueInv' /\ \A u \in Users : CallKept(u)
  <1>1. UNCHANGED <<rpc, queue, missed>>
    BY DEF pool
  <1>2. \A u \in Users : CallKept(u)
    BY <1>1, CallIs DEF CallKept
  <1> QED BY <1>1, <1>2 DEF PoolTyped, QueueInv

LEMMA StartServed ==
    ASSUME PoolTyped, QueueInv, StartTyped, RestTyped, NEW s \in Names, Start(s)
    PROVE  Served
  <1>1. CASE Advance(s)
    <2>1. UNCHANGED <<pool, catalog, troubles>>
      BY <1>1 DEF Advance
    <2> QED BY <1>1, <2>1, PoolStays, AdvanceType DEF Served, RestTyped
  <1>2. CASE Raise(s)
    <2>1. UNCHANGED <<addressed, pool, catalog>> /\ Fails(s) /\ Step(s) # "none"
      BY <1>2 DEF Raise
    <2>2. troubles' \in 0..MaxTroubles
      BY <1>2, TroubleType DEF Raise, RestTyped
    <2>3. StartTyped'
      BY <2>1, FailsType
    <2> QED BY <2>1, <2>2, <2>3, PoolStays DEF Served, RestTyped
  <1>3. CASE Restart(s)
    <2>1. UNCHANGED <<pool, catalog, troubles>>
      BY <1>3 DEF Restart
    <2> QED BY <1>3, <2>1, PoolStays, RestartType DEF Served, RestTyped
  <1> QED BY <1>1, <1>2, <1>3 DEF Start

LEMMA InterruptServed ==
    ASSUME PoolTyped, QueueInv, StartTyped, RestTyped, NEW s \in Names, Interrupt(s)
    PROVE  Served
  <1>1. UNCHANGED <<addressed, catalog>> /\ troubles' \in 0..MaxTroubles
    BY TroubleType DEF Interrupt
  <1>2. CASE Step(s) = "profiler" /\ Fails(s) /\ UNCHANGED pool
    <2>1. StartTyped'
      BY <1>1, <1>2, FailsType
    <2> QED BY <1>1, <1>2, <2>1, PoolStays DEF Served, RestTyped
  <1>3. CASE at' = [at EXCEPT ![s] = Dead] /\ tries' = [tries EXCEPT ![s] = 0] /\ Abort(s)
    <2>1. StartTyped'
      BY <1>1, <1>3, EndType
    <2> QED BY <1>1, <1>3, <2>1, AbortCalls DEF Served, RestTyped
  <1> QED BY <1>2, <1>3 DEF Interrupt

LEMMA ProbeServed ==
    ASSUME PoolTyped, QueueInv, StartTyped, RestTyped, SendProbe \/ MissProbe
    PROVE  Served
  <1>1. CASE SendProbe
    <2>1. UNCHANGED <<addressed, at, tries, rpc, missed, catalog, troubles>>
      BY <1>1 DEF SendProbe, started
    <2>2. queue' = Append(queue, Probe)
      BY <1>1 DEF SendProbe
    <2>3. queue' \in Seq(Users \cup {Probe}) /\ QueueInv'
      BY <2>1, <2>2, Enqueue
    <2>4. \A u \in Users : CallKept(u)
      BY <2>1, CallIs DEF CallKept
    <2> QED BY <2>1, <2>3, <2>4 DEF Served, PoolTyped, StartTyped, RestTyped
  <1>2. CASE MissProbe
    <2>1. UNCHANGED <<addressed, tries, catalog, troubles>>
      BY <1>2 DEF MissProbe
    <2>2. PICK k \in DOMAIN queue :
             IF missed + 1 < MaxMissed
             THEN missed' = missed + 1 /\ queue' = Without(queue, k) /\ UNCHANGED <<at, rpc>>
             ELSE at' = [at EXCEPT !["recommendation"] = Dead] /\ Abort("recommendation")
      BY <1>2 DEF MissProbe
    <2>3. CASE missed + 1 < MaxMissed
      <3>1. queue' \in Seq(Users \cup {Probe}) /\ QueueInv'
        BY <2>2, <2>3, QueueWithout
      <3>2. \A u \in Users : CallKept(u)
        BY <2>2, <2>3, CallIs DEF CallKept
      <3>3. missed' \in 0..(MaxMissed - 1)
        BY <2>2, <2>3, ServicesAssumption DEF PoolTyped
      <3> QED BY <2>1, <2>2, <2>3, <3>1, <3>2, <3>3 DEF Served, PoolTyped, StartTyped, RestTyped
    <2>4. CASE ~(missed + 1 < MaxMissed)
      <3>1. "recommendation" \in Names
        BY DEF Names, Steps
      <3>2. StartTyped'
        BY <2>1, <2>2, <2>4, <3>1, EndType
      <3> QED BY <2>1, <2>2, <2>4, <3>1, <3>2, AbortCalls DEF Served, RestTyped
    <2> QED BY <2>3, <2>4
  <1> QED BY <1>1, <1>2

LEMMA TakeServed ==
    ASSUME PoolTyped, QueueInv, StartTyped, RestTyped, TakeWork
    PROVE  Served
  <1>1. UNCHANGED <<addressed, at, tries, catalog, troubles>> /\ queue # <<>> /\ queue' = Tail(queue)
    BY DEF TakeWork, started
  <1>2. Head(queue) \in Users \cup {Probe} /\ Head(queue) = queue[1] /\ 1 \in DOMAIN queue
    BY <1>1 DEF PoolTyped
  <1>3. CASE Head(queue) = Probe
    <2>1. missed' = 0 /\ UNCHANGED rpc
      BY <1>3 DEF TakeWork
    <2>2. queue' \in Seq(Users \cup {Probe}) /\ QueueInv'
      BY <1>1, <2>1, Dequeue
    <2>3. \A u \in Users : CallKept(u)
      BY <2>1, CallIs DEF CallKept
    <2>4. missed' \in 0..(MaxMissed - 1)
      BY <2>1, ServicesAssumption
    <2> QED BY <1>1, <2>1, <2>2, <2>3, <2>4 DEF Served, PoolTyped, StartTyped, RestTyped
  <1>4. CASE Head(queue) # Probe
    <2>1. PICK v \in Users : v = Head(queue)
      BY <1>2, <1>4
    <2>2. rpc' = [rpc EXCEPT ![v].at = "working"] /\ UNCHANGED missed
      BY <1>4, <2>1 DEF TakeWork
    <2>3. rpc[v].at = "queued"
      BY <1>2, <1>4, <2>1 DEF QueueInv
    <2>4. "working" \in CallStates \ {"none"}
      BY DEF CallStates
    <2>5. /\ rpc' \in [Users -> Call] /\ \A u \in Users : CallKept(u)
          /\ \A u \in Users \ {v} : rpc'[u] = rpc[u]
      BY <2>2, <2>3, <2>4, MoveCall
    <2>6. queue' \in Seq(Users \cup {Probe}) /\ QueueInv'
      BY <1>1, <2>1, <2>5, Dequeue
    <2> QED BY <1>1, <2>2, <2>5, <2>6 DEF Served, PoolTyped, StartTyped, RestTyped
  <1> QED BY <1>3, <1>4

\* The queue holds no call that is being worked on.
LEMMA QueueUntouched ==
    ASSUME QueueInv, NEW v, rpc[v].at # "queued", UNCHANGED queue,
           PoolTyped, \A u \in Users \ {v} : rpc'[u] = rpc[u]
    PROVE  QueueInv'
  <1>1. \A i \in DOMAIN queue : queue[i] # Probe => queue[i] \in Users \ {v}
    BY DEF QueueInv, PoolTyped
  <1> QED BY <1>1 DEF QueueInv

LEMMA AnswerServed ==
    ASSUME PoolTyped, QueueInv, StartTyped, RestTyped,
           NEW v \in Users, ListRecommendations(v) \/ ListProductsFails(v)
    PROVE  Served
  <1>1. UNCHANGED <<addressed, at, tries, queue, missed, catalog, troubles>> /\ rpc[v].at = "working"
    BY DEF ListRecommendations, ListProductsFails, started
  <1>2. /\ rpc' \in [Users -> Call] /\ \A u \in Users : CallKept(u)
        /\ \A u \in Users \ {v} : rpc'[u] = rpc[u]
    <2>1. CASE ListRecommendations(v)
      BY <2>1, AnswerCall
    <2>2. CASE ListProductsFails(v)
      <3>1. rpc' = [rpc EXCEPT ![v].at = "failed"] /\ "failed" \in CallStates \ {"none"}
        BY <2>2 DEF ListProductsFails, CallStates
      <3> QED BY <1>1, <3>1, MoveCall
    <2> QED BY <2>1, <2>2
  <1>3. QueueInv'
    BY <1>1, <1>2, QueueUntouched
  <1> QED BY <1>1, <1>2, <1>3 DEF Served, PoolTyped, StartTyped, RestTyped

\* Every step of the services keeps the types, the queue and whose call is whose.
LEMMA ServicesStep ==
    ASSUME PoolTyped, QueueInv, StartTyped, RestTyped, ServicesNext
    PROVE  Served
  <1>1. CASE Reload
    <2>1. UNCHANGED pool /\ UNCHANGED <<addressed, at, tries, troubles>> /\ catalog' \subseteq Products
      BY <1>1 DEF Reload, started
    <2> QED BY <2>1, PoolStays DEF Served, StartTyped, RestTyped
  <1> QED BY <1>1, StartServed, InterruptServed, ProbeServed, TakeServed, AnswerServed
          DEF ServicesNext, Serve

-----------------------------------------------------------------------------
(* The tasks. *)

\* What is left of a task after some of its requests.
Known == {<<>>, <<"home">>, <<"currency">>, <<"product">>, <<"cart">>, <<"assistant">>,
          <<"product", "add">>, <<"add">>, <<"product", "add", "order">>, <<"add", "order">>, <<"order">>}

Requests == {"home", "currency", "product", "cart", "assistant", "add", "order"}

\* What is left of one, two and three requests.
LEMMA RestOfOne ==
    ASSUME NEW a \in Requests, NEW s, s = <<a>>
    PROVE  SubSeq(s, 1, 1) = <<a>> /\ SubSeq(s, 2, 1) = <<>>
  <1>1. s \in Seq(Requests) /\ Len(s) = 1
    OBVIOUS
  <1>2. SubSeq(s, 1, 1) = s
    BY <1>1, SubSeqFull
  <1>3. SubSeq(s, 2, 1) = <<>>
    BY SubSeqEmpty
  <1> QED BY <1>2, <1>3

LEMMA RestOfTwo ==
    ASSUME NEW a \in Requests, NEW b \in Requests, NEW s, s = <<a, b>>
    PROVE  SubSeq(s, 1, 2) = <<a, b>> /\ SubSeq(s, 2, 2) = <<b>> /\ SubSeq(s, 3, 2) = <<>>
  <1>1. s \in Seq(Requests) /\ Len(s) = 2 /\ Tail(s) = <<b>>
    OBVIOUS
  <1>2. SubSeq(s, 1, 2) = s
    BY <1>1, SubSeqFull
  <1>3. \A m \in 1..Len(s) : \A n \in m..Len(s) : Tail(SubSeq(s, m, n)) = SubSeq(s, m + 1, n)
    BY <1>1, HeadTailOfSubSeq
  <1>4. SubSeq(s, 2, 2) = Tail(SubSeq(s, 1, 2))
    BY <1>1, <1>3
  <1>5. SubSeq(s, 3, 2) = <<>>
    BY SubSeqEmpty
  <1> QED BY <1>1, <1>2, <1>4, <1>5

LEMMA RestOfThree ==
    ASSUME NEW a \in Requests, NEW b \in Requests, NEW c \in Requests, NEW s, s = <<a, b, c>>
    PROVE  /\ SubSeq(s, 1, 3) = <<a, b, c>>
           /\ SubSeq(s, 2, 3) = <<b, c>>
           /\ SubSeq(s, 3, 3) = <<c>>
           /\ SubSeq(s, 4, 3) = <<>>
  <1>1. s \in Seq(Requests) /\ Len(s) = 3 /\ Tail(s) = <<b, c>>
    OBVIOUS
  <1>2. SubSeq(s, 1, 3) = s
    BY <1>1, SubSeqFull
  <1>3. \A m \in 1..Len(s) : \A n \in m..Len(s) : Tail(SubSeq(s, m, n)) = SubSeq(s, m + 1, n)
    BY <1>1, HeadTailOfSubSeq
  <1>4. SubSeq(s, 2, 3) = Tail(SubSeq(s, 1, 3))
    BY <1>1, <1>3
  <1>5. SubSeq(s, 3, 3) = Tail(SubSeq(s, 2, 3))
    BY <1>1, <1>3
  <1>6. SubSeq(s, 4, 3) = <<>>
    BY SubSeqEmpty
  <1>7. Tail(<<b, c>>) = <<c>>
    OBVIOUS
  <1> QED BY <1>1, <1>2, <1>4, <1>5, <1>6, <1>7

\* The tasks and their rests, one by one.
LEMMA TasksAre ==
    ASSUME NEW t \in Tasks
    PROVE  \/ \E a \in {"home", "currency", "product", "cart", "assistant"} : t = <<a>>
           \/ t = <<"product", "add">>
           \/ t = <<"product", "add", "order">>
  <1>1. t \in {<<"home">>, <<"currency">>, <<"product">>, <<"cart">>, <<"assistant">>}
        \/ t = <<"product", "add">> \/ t = <<"product", "add", "order">>
    BY DEF Tasks
  <1> QED BY <1>1

LEMMA KnownAre ==
    ASSUME NEW s \in Known
    PROVE  \/ s = <<>>
           \/ \E a \in {"home", "currency", "product", "cart", "assistant", "add", "order"} : s = <<a>>
           \/ s = <<"product", "add">> \/ s = <<"add", "order">>
           \/ s = <<"product", "add", "order">>
  <1>1. \/ s = <<>>
        \/ s \in {<<"home">>, <<"currency">>, <<"product">>, <<"cart">>, <<"assistant">>,
                  <<"add">>, <<"order">>}
        \/ s = <<"product", "add">> \/ s = <<"add", "order">> \/ s = <<"product", "add", "order">>
    BY DEF Known
  <1> QED BY <1>1

LEMMA Words == "product" \in Requests /\ "add" \in Requests /\ "order" \in Requests
  BY DEF Requests

\* What a user may have still to send.
LEMMA SuffixesAre == Suffixes = Known
  <1>2. ASSUME NEW t \in Tasks, NEW i \in 1..(Len(t) + 1)
        PROVE  SubSeq(t, i, Len(t)) \in Known
    <2>1. CASE \E a \in {"home", "currency", "product", "cart", "assistant"} : t = <<a>>
      <3>1. PICK a \in {"home", "currency", "product", "cart", "assistant"} : t = <<a>>
        BY <2>1
      <3>2. Len(t) = 1 /\ (i = 1 \/ i = 2)
        BY <1>2, <3>1
      <3>3. SubSeq(t, 1, 1) = <<a>> /\ SubSeq(t, 2, 1) = <<>>
        BY <3>1, RestOfOne DEF Requests
      <3>4. <<a>> \in Known /\ <<>> \in Known
        BY DEF Known
      <3> QED BY <3>2, <3>3, <3>4
    <2>2. CASE t = <<"product", "add">>
      <3>1. Len(t) = 2 /\ (i = 1 \/ i = 2 \/ i = 3)
        BY <1>2, <2>2
      <3>2. SubSeq(t, 1, 2) = <<"product", "add">> /\ SubSeq(t, 2, 2) = <<"add">>
            /\ SubSeq(t, 3, 2) = <<>>
        BY <2>2, RestOfTwo DEF Requests
      <3>3. <<"product", "add">> \in Known /\ <<"add">> \in Known /\ <<>> \in Known
        BY DEF Known
      <3> QED BY <3>1, <3>2, <3>3
    <2>3. CASE t = <<"product", "add", "order">>
      <3>1. Len(t) = 3 /\ (i = 1 \/ i = 2 \/ i = 3 \/ i = 4)
        BY <1>2, <2>3
      <3>2. /\ SubSeq(t, 1, 3) = <<"product", "add", "order">> /\ SubSeq(t, 2, 3) = <<"add", "order">>
            /\ SubSeq(t, 3, 3) = <<"order">> /\ SubSeq(t, 4, 3) = <<>>
        BY <2>3, RestOfThree, Words
      <3>3. /\ <<"product", "add", "order">> \in Known /\ <<"add", "order">> \in Known
            /\ <<"order">> \in Known /\ <<>> \in Known
        BY DEF Known
      <3> QED BY <3>1, <3>2, <3>3
    <2> QED BY <2>1, <2>2, <2>3, TasksAre
  <1>3. ASSUME NEW s \in Known
        PROVE  \E t \in Tasks : \E i \in 1..(Len(t) + 1) : s = SubSeq(t, i, Len(t))
    <2>1. CASE s \in Tasks
      <3>1. s \in Seq(Requests)
        <4>1. \A a \in {"home", "currency", "product", "cart", "assistant"} : <<a>> \in Seq(Requests)
          BY DEF Requests
        <4>2. <<"product", "add">> \in Seq(Requests) /\ <<"product", "add", "order">> \in Seq(Requests)
          BY DEF Requests
        <4> QED BY <2>1, <4>1, <4>2, TasksAre
      <3>2. SubSeq(s, 1, Len(s)) = s /\ 1 \in 1..(Len(s) + 1)
        BY <3>1, SubSeqFull
      <3> QED BY <2>1, <3>2
    <2>2. CASE s \in {<<>>, <<"add">>}
      <3>1. PICK t \in Tasks : t = <<"product", "add">>
        BY DEF Tasks
      <3>2. SubSeq(t, 2, 2) = <<"add">> /\ SubSeq(t, 3, 2) = <<>>
        BY <3>1, RestOfTwo DEF Requests
      <3>3. 2 \in 1..(Len(t) + 1) /\ 3 \in 1..(Len(t) + 1) /\ Len(t) = 2
        BY <3>1
      <3> QED BY <2>2, <3>2, <3>3
    <2>3. CASE s \in {<<"add", "order">>, <<"order">>}
      <3>1. PICK t \in Tasks : t = <<"product", "add", "order">>
        BY DEF Tasks
      <3>2. SubSeq(t, 2, 3) = <<"add", "order">> /\ SubSeq(t, 3, 3) = <<"order">>
        BY <3>1, RestOfThree, Words
      <3>3. 2 \in 1..(Len(t) + 1) /\ 3 \in 1..(Len(t) + 1) /\ Len(t) = 3
        BY <3>1
      <3> QED BY <2>3, <3>2, <3>3
    <2> QED BY <2>1, <2>2, <2>3 DEF Known, Tasks
  <1>4. ASSUME NEW s
        PROVE  s \in Suffixes <=> s \in Known
    <2>1. s \in Suffixes <=> \E t \in Tasks : \E i \in 1..(Len(t) + 1) : s = SubSeq(t, i, Len(t))
      BY DEF Suffixes
    <2> QED BY <2>1, <1>2, <1>3
  <1> QED BY <1>4

\* What the tasks are made of: the assistant is asked alone, an addition with
\* something after it is ordered.
LEMMA SuffixIs ==
    ASSUME NEW s \in Suffixes
    PROVE  /\ s \in Seq(Requests)
           /\ \A i \in DOMAIN s : s[i] = "assistant" => s = <<"assistant">>
           /\ s # <<>> => Tail(s) \in Suffixes
           /\ s # <<>> /\ Len(s) = 1 => Tail(s) = <<>>
           /\ s # <<>> /\ Len(s) # 1 /\ Head(s) = "add" => Tail(s) = <<"order">>
           /\ s # <<>> /\ Head(s) = "order" => s = <<"order">>
  <1>1. s \in Known
    BY SuffixesAre
  <1>2. CASE s = <<>>
    <2>1. s \in Seq(Requests) /\ DOMAIN s = {}
      BY <1>2
    <2> QED BY <1>2, <2>1
  <1>3. CASE \E a \in {"home", "currency", "product", "cart", "assistant", "add", "order"} : s = <<a>>
    <2>1. PICK a \in {"home", "currency", "product", "cart", "assistant", "add", "order"} : s = <<a>>
      BY <1>3
    <2>2. a \in Requests
      BY DEF Requests
    <2>3. s \in Seq(Requests) /\ Len(s) = 1
      BY <2>1, <2>2
    <2>4. Tail(s) = <<>> /\ Head(s) = a
      BY <2>1
    <2>5. \A i \in DOMAIN s : s[i] = a
      BY <2>1
    <2>6. <<>> \in Known
      BY DEF Known
    <2> QED BY <2>1, <2>3, <2>4, <2>5, <2>6, SuffixesAre
  <1>4. CASE s = <<"product", "add">>
    <2>1. s \in Seq(Requests) /\ Len(s) = 2 /\ Head(s) = "product"
      BY <1>4 DEF Requests
    <2>2. Tail(s) = <<"add">> /\ \A i \in DOMAIN s : s[i] # "assistant"
      BY <1>4
    <2>3. <<"add">> \in Known
      BY DEF Known
    <2>4. Tail(s) \in Suffixes
      BY <2>2, <2>3, SuffixesAre
    <2> QED BY <2>1, <2>2, <2>4
  <1>5. CASE s = <<"add", "order">>
    <2>1. s \in Seq(Requests) /\ Len(s) = 2 /\ Head(s) = "add"
      BY <1>5 DEF Requests
    <2>2. Tail(s) = <<"order">> /\ \A i \in DOMAIN s : s[i] # "assistant"
      BY <1>5
    <2>3. <<"order">> \in Known
      BY DEF Known
    <2>4. Tail(s) \in Suffixes
      BY <2>2, <2>3, SuffixesAre
    <2> QED BY <2>1, <2>2, <2>4
  <1>6. CASE s = <<"product", "add", "order">>
    <2>1. s \in Seq(Requests) /\ Len(s) = 3 /\ Head(s) = "product"
      BY <1>6 DEF Requests
    <2>2. Tail(s) = <<"add", "order">> /\ \A i \in DOMAIN s : s[i] # "assistant"
      BY <1>6
    <2>3. <<"add", "order">> \in Known
      BY DEF Known
    <2>4. Tail(s) \in Suffixes
      BY <2>2, <2>3, SuffixesAre
    <2> QED BY <2>1, <2>2, <2>4
  <1> QED BY <1>1, <1>2, <1>3, <1>4, <1>5, <1>6, KnownAre

\* A task begins with its product if it needs one.
LEMMA TaskIs ==
    ASSUME NEW t \in Tasks
    PROVE  /\ t \in Suffixes /\ t # <<>>
           /\ \A i \in DOMAIN t : t[i] \in {"product", "add"} => Head(t) = "product"
  <1>1. t \in Known
    BY DEF Tasks, Known
  <1>2. CASE \E a \in {"home", "currency", "product", "cart", "assistant"} : t = <<a>>
    <2>1. PICK a \in {"home", "currency", "product", "cart", "assistant"} : t = <<a>>
      BY <1>2
    <2>2. t # <<>> /\ Head(t) = a /\ a # "add" /\ \A i \in DOMAIN t : t[i] = a
      BY <2>1
    <2> QED BY <1>1, <2>2, SuffixesAre
  <1>3. CASE t = <<"product", "add">> \/ t = <<"product", "add", "order">>
    BY <1>1, <1>3, SuffixesAre
  <1> QED BY <1>2, <1>3, TasksAre

-----------------------------------------------------------------------------
(* The pages. *)

LEMMA ShopperIs ==
    ASSUME ShopperTyped, NEW u \in Users
    PROVE  /\ task[u] \in Suffixes
           /\ deal[u] \in Deal /\ deal[u].item \in Products \cup {None} /\ deal[u].added \in BOOLEAN
           /\ deal[u].ordered \in (SUBSET Products) \cup {NoOrder}
           /\ cart[u] \in SUBSET Products
           /\ page[u] \in Page /\ page[u].ids \in SUBSET Products /\ page[u].shown \in SUBSET Products
  BY DEF ShopperTyped, Deal, Page

\* The request under way is the first of the task.
LEMMA Asked ==
    ASSUME ShopperTyped, NEW u \in Users, NEW r, Requested(u) = r, r # "none"
    PROVE  task[u] # <<>> /\ Head(task[u]) = r /\ 1 \in DOMAIN task[u] /\ task[u][1] = r
  <1>1. task[u] # <<>> /\ Head(task[u]) = r
    BY DEF Requested
  <1>2. task[u] \in Seq(Requests)
    BY SuffixIs DEF ShopperTyped
  <1> QED BY <1>1, <1>2

LEMMA DealAfterIs ==
    ASSUME ShopperTyped, NEW u \in Users, NEW added \in BOOLEAN
    PROVE  /\ DealAfter(u, added) \in Deal
           /\ Len(task[u]) = 1 => DealAfter(u, added) = NoDeal
           /\ Len(task[u]) # 1 => /\ DealAfter(u, added).item = deal[u].item
                                 /\ DealAfter(u, added).ordered = deal[u].ordered
                                 /\ DealAfter(u, added).added = (deal[u].added \/ added)
  <1>1. NoDeal \in Deal
    <2>1. None \in Products \cup {None} /\ FALSE \in BOOLEAN /\ NoOrder \in (SUBSET Products) \cup {NoOrder}
      OBVIOUS
    <2> QED BY <2>1 DEF NoDeal, Deal
  <1>2. deal[u] \in Deal
    BY ShopperIs
  <1>3. LET d == [deal[u] EXCEPT !.added = @ \/ added]
        IN  /\ d \in Deal /\ d.item = deal[u].item /\ d.ordered = deal[u].ordered
            /\ d.added = (deal[u].added \/ added)
    BY <1>2 DEF Deal
  <1> QED BY <1>1, <1>3 DEF DealAfter

LEMMA PageAfterIs ==
    ASSUME ShopperTyped, NEW u \in Users, NEW offer \in SUBSET Products, NEW fate \in {"ok", "error"}
    PROVE  /\ PageAfter(u, offer, fate) \in Page
           /\ PageAfter(u, offer, fate).fate = fate
           /\ fate = "error" => PageAfter(u, offer, fate).ids = {}
           /\ fate = "ok" => /\ PageAfter(u, offer, fate).ids = page[u].ids
                            /\ PageAfter(u, offer, fate).shown = offer
  <1>1. page[u] \in Page
    BY ShopperIs
  <1>2. LET p == [page[u] EXCEPT !.shown = offer, !.fate = fate]
        IN  p \in Page /\ p.fate = fate /\ p.ids = page[u].ids /\ p.shown = offer
    BY <1>1 DEF Page
  <1>3. LET p == [Blank EXCEPT !.fate = fate]
        IN  p \in Page /\ p.fate = fate /\ p.ids = {}
    BY DEF Page, Blank
  <1> QED BY <1>2, <1>3 DEF PageAfter

\* What a response does to its user, and to nobody else.
LEMMA RespondIs ==
    ASSUME ShopperTyped, NEW u \in Users, task[u] # <<>>, NEW offer \in SUBSET Products,
           NEW fate \in {"ok", "error"}, NEW added \in BOOLEAN, Respond(u, offer, fate, added)
    PROVE  /\ task' \in [Users -> Suffixes] /\ deal' \in [Users -> Deal] /\ page' \in [Users -> Page]
           /\ task'[u] = Tail(task[u])
           /\ deal'[u] = DealAfter(u, added)
           /\ page'[u] = PageAfter(u, offer, fate)
           /\ \A v \in Users \ {u} : task'[v] = task[v] /\ deal'[v] = deal[v] /\ page'[v] = page[v]
  <1>1. /\ task' = [task EXCEPT ![u] = Tail(task[u])]
        /\ deal' = [deal EXCEPT ![u] = DealAfter(u, added)]
        /\ page' = [page EXCEPT ![u] = PageAfter(u, offer, fate)]
    BY DEF Respond
  <1>2. Tail(task[u]) \in Suffixes /\ DealAfter(u, added) \in Deal /\ PageAfter(u, offer, fate) \in Page
    BY ShopperIs, SuffixIs, DealAfterIs, PageAfterIs
  <1> QED BY <1>1, <1>2 DEF ShopperTyped

\* What is left of a task asks for a product only if the task did.
LEMMA ItemRest ==
    ASSUME ShopperTyped, ItemInv, NEW u \in Users, task[u] # <<>>, NEW added \in BOOLEAN,
           NEW i \in DOMAIN Tail(task[u]), Tail(task[u])[i] \in {"product", "add"}
    PROVE  DealAfter(u, added).item \in Products
  <1>1. task[u] \in Seq(Requests)
    BY ShopperIs, SuffixIs
  <1>2. i + 1 \in DOMAIN task[u] /\ Tail(task[u])[i] = task[u][i + 1]
    BY <1>1
  <1>3. Len(task[u]) # 1
    BY <1>1
  <1>4. deal[u].item \in Products
    BY <1>2 DEF ItemInv
  <1> QED BY <1>3, <1>4, DealAfterIs

LEMMA RespondItems ==
    ASSUME ShopperTyped, ItemInv, NEW u \in Users, task[u] # <<>>, NEW offer \in SUBSET Products,
           NEW fate \in {"ok", "error"}, NEW added \in BOOLEAN, Respond(u, offer, fate, added)
    PROVE  ItemInv'
  <1>1. /\ \A i \in DOMAIN task'[u] : task'[u][i] \in {"product", "add"} => deal'[u].item \in Products
        /\ page'[u].fate # "waiting"
    <2>1. /\ task'[u] = Tail(task[u])
          /\ deal'[u] = DealAfter(u, added)
          /\ page'[u] = PageAfter(u, offer, fate)
      BY RespondIs
    <2>2. ASSUME NEW i \in DOMAIN Tail(task[u]), Tail(task[u])[i] \in {"product", "add"}
          PROVE  DealAfter(u, added).item \in Products
      BY <2>2, ItemRest
    <2>3. PageAfter(u, offer, fate).fate = fate
      BY PageAfterIs
    <2> QED BY <2>1, <2>2, <2>3
  <1>2. \A v \in Users \ {u} : task'[v] = task[v] /\ deal'[v] = deal[v] /\ page'[v] = page[v]
    BY RespondIs
  <1> QED BY <1>1, <1>2 DEF ItemInv

\* What a user's own step leaves alone.
Others(u) == \A v \in Users \ {u} :
    task'[v] = task[v] /\ deal'[v] = deal[v] /\ cart'[v] = cart[v] /\ page'[v] = page[v] /\ rpc'[v] = rpc[v]

\* A request is answered, and the call it made, if any, is over.
Answers(u, offer, fate, added) ==
    /\ task[u] # <<>>
    /\ Respond(u, offer, fate, added)
    /\ offer \in SUBSET Products /\ fate \in {"ok", "error"} /\ added \in BOOLEAN
    /\ cart' \in [Users -> SUBSET Products]
    /\ \A v \in Users \ {u} : cart'[v] = cart[v]
    /\ UNCHANGED <<addressed, at, tries, queue, missed, catalog>>
    /\ troubles' \in 0..MaxTroubles
    /\ \/ rpc[u].at = "none" /\ UNCHANGED rpc
       \/ rpc[u].at # "queued" /\ rpc' = [rpc EXCEPT ![u] = NoCall]

LEMMA NoCallIs == NoCall \in Call /\ NoCall.at = "none" /\ NoCall.ids = {} /\ NoCall.answer = {}
  BY DEF NoCall, Call

\* A response keeps the types and changes nothing of other users.
LEMMA AnswersTyped ==
    ASSUME Typed, NEW u \in Users, NEW offer, NEW fate, NEW added, Answers(u, offer, fate, added)
    PROVE  /\ Typed' /\ Others(u)
           /\ rpc'[u] \in {rpc[u], NoCall}
  <1>1. ShopperTyped /\ PoolTyped /\ StartTyped /\ RestTyped /\ Waits /\ QueueInv /\ ItemInv
    BY TypesAre DEF Typed
  <1>2. /\ task' \in [Users -> Suffixes] /\ deal' \in [Users -> Deal] /\ page' \in [Users -> Page]
        /\ page'[u].fate = fate
        /\ \A v \in Users \ {u} : task'[v] = task[v] /\ deal'[v] = deal[v] /\ page'[v] = page[v]
        /\ ItemInv'
    <2>1. /\ task[u] # <<>> /\ offer \in SUBSET Products /\ fate \in {"ok", "error"} /\ added \in BOOLEAN
          /\ Respond(u, offer, fate, added)
      BY DEF Answers
    <2>2. /\ task' \in [Users -> Suffixes] /\ deal' \in [Users -> Deal] /\ page' \in [Users -> Page]
          /\ page'[u] = PageAfter(u, offer, fate)
          /\ \A v \in Users \ {u} : task'[v] = task[v] /\ deal'[v] = deal[v] /\ page'[v] = page[v]
      BY <1>1, <2>1, RespondIs
    <2>3. ItemInv'
      BY <1>1, <2>1, RespondItems
    <2>4. PageAfter(u, offer, fate).fate = fate
      BY <1>1, <2>1, PageAfterIs
    <2> QED BY <2>2, <2>3, <2>4
  <1>3. /\ rpc' \in [Users -> Call] /\ rpc'[u].at = "none" /\ rpc'[u] \in {rpc[u], NoCall}
        /\ \A v \in Users \ {u} : rpc'[v] = rpc[v]
    BY <1>1, NoCallIs DEF Answers, PoolTyped
  <1>4. QueueInv'
    <2>1. CASE UNCHANGED rpc
      BY <1>1, <2>1 DEF Answers, QueueInv
    <2>2. CASE rpc[u].at # "queued"
      BY <1>1, <1>3, <2>2, QueueUntouched DEF Answers
    <2> QED BY <2>1, <2>2 DEF Answers
  <1>5. Waits'
    <2>1. page'[u].fate # "waiting"
      BY <1>2 DEF Answers
    <2> QED BY <1>1, <1>2, <1>3, <2>1 DEF Waits
  <1>6. ShopperTyped' /\ PoolTyped' /\ StartTyped' /\ RestTyped'
    BY <1>1, <1>2, <1>3 DEF Answers, ShopperTyped, PoolTyped, StartTyped, RestTyped
  <1>7. ShopTypeOK'
    BY <1>5, <1>6, TypesAre, PTL
  <1> QED BY <1>2, <1>3, <1>4, <1>7 DEF Typed, Others, Answers

\* A request asks for recommendations: what the calls of the pool look like then.
LEMMA RecommendIs ==
    ASSUME PoolTyped, QueueInv, NEW u \in Users, NEW ids \in SUBSET Products,
           rpc[u].at = "none", Recommend(u, ids), UNCHANGED missed
    PROVE  /\ PoolTyped' /\ QueueInv'
           /\ rpc'[u].at # "none" /\ rpc'[u].ids = ids /\ rpc'[u].answer = {}
           /\ \A v \in Users \ {u} : rpc'[v] = rpc[v]
  <1> DEFINE made(a) == [at |-> a, ids |-> ids, answer |-> {}]
  <1>1. \A a \in {"queued", "failed"} : /\ made(a) \in Call /\ made(a).at = a /\ made(a).ids = ids
                                        /\ made(a).answer = {}
    BY DEF Call
  <1>2. CASE Serving("recommendation")
    <2>1. rpc' = [rpc EXCEPT ![u] = made("queued")] /\ queue' = Append(queue, u)
      BY <1>2 DEF Recommend
    <2> HIDE DEF made
    <2>2. /\ rpc' \in [Users -> Call] /\ rpc'[u] = made("queued")
          /\ \A v \in Users \ {u} : rpc'[v] = rpc[v]
      BY <1>1, <2>1 DEF PoolTyped
    <2>3. rpc'[u].at = "queued" /\ rpc'[u].ids = ids /\ rpc'[u].answer = {}
      BY <1>1, <2>2
    <2>4. queue' \in Seq(Users \cup {Probe}) /\ QueueInv'
      BY <2>1, <2>2, <2>3, Enqueue
    <2> QED BY <2>2, <2>3, <2>4 DEF PoolTyped
  <1>3. CASE ~Serving("recommendation")
    <2>1. rpc' = [rpc EXCEPT ![u] = made("failed")] /\ UNCHANGED queue
      BY <1>3 DEF Recommend
    <2> HIDE DEF made
    <2>2. /\ rpc' \in [Users -> Call] /\ rpc'[u] = made("failed")
          /\ \A v \in Users \ {u} : rpc'[v] = rpc[v]
      BY <1>1, <2>1 DEF PoolTyped
    <2>3. rpc'[u].at = "failed" /\ rpc'[u].ids = ids /\ rpc'[u].answer = {}
      BY <1>1, <2>2
    <2>4. QueueInv'
      BY <2>1, <2>2, QueueUntouched
    <2> QED BY <2>1, <2>2, <2>3, <2>4 DEF PoolTyped
  <1> QED BY <1>2, <1>3

\* The page of a request that waits for its recommendations.
LEMMA AwaitTyped ==
    ASSUME Typed, NEW u \in Users, NEW ids \in SUBSET Products, NEW r, r # "none", Opening(u, r),
           Await(u, ids),
           deal' \in [Users -> Deal], cart' \in [Users -> SUBSET Products],
           deal'[u].item = deal[u].item,
           \A v \in Users \ {u} : deal'[v] = deal[v] /\ cart'[v] = cart[v]
    PROVE  /\ Typed' /\ Others(u)
           /\ task' = task
           /\ page'[u] = [ids |-> ids, shown |-> {}, fate |-> "waiting"]
           /\ rpc'[u].ids = ids /\ rpc'[u].answer = {}
  <1>1. ShopperTyped /\ PoolTyped /\ StartTyped /\ RestTyped /\ Waits /\ QueueInv /\ ItemInv
    BY TypesAre DEF Typed
  <1>2. rpc[u].at = "none" /\ task[u] # <<>>
    BY <1>1, Asked DEF Opening, Waits
  <1>3. UNCHANGED <<addressed, at, tries, missed, catalog, troubles, task>> /\ Recommend(u, ids)
    BY DEF Await, started
  <1>4. /\ PoolTyped' /\ QueueInv'
        /\ rpc'[u].at # "none" /\ rpc'[u].ids = ids /\ rpc'[u].answer = {}
        /\ \A v \in Users \ {u} : rpc'[v] = rpc[v]
    BY <1>1, <1>2, <1>3, RecommendIs
  <1> DEFINE asked == [ids |-> ids, shown |-> {}, fate |-> "waiting"]
  <1>5. asked \in Page /\ asked.fate = "waiting"
    BY DEF Page
  <1>6. page' = [page EXCEPT ![u] = asked]
    BY DEF Await
  <1> HIDE DEF asked
  <1>7. page' \in [Users -> Page] /\ page'[u] = asked /\ \A v \in Users \ {u} : page'[v] = page[v]
    BY <1>1, <1>5, <1>6 DEF ShopperTyped
  <1>8. Waits' /\ ItemInv'
    <2>1. Waits'
      BY <1>1, <1>4, <1>5, <1>7 DEF Waits
    <2>2. ItemInv'
      BY <1>1, <1>2, <1>3, <1>7 DEF ItemInv
    <2> QED BY <2>1, <2>2
  <1>9. ShopperTyped' /\ StartTyped' /\ RestTyped'
    BY <1>1, <1>3, <1>7 DEF ShopperTyped, StartTyped, RestTyped
  <1>10. ShopTypeOK'
    BY <1>4, <1>8, <1>9, TypesAre, PTL
  <1> QED BY <1>3, <1>4, <1>7, <1>8, <1>10 DEF Typed, Others, asked

-----------------------------------------------------------------------------
(* What each step of a user is. *)

LEMMA OpeningIs ==
    ASSUME Typed, NEW u \in Users, NEW r, r # "none", Opening(u, r)
    PROVE  /\ task[u] # <<>> /\ Head(task[u]) = r /\ 1 \in DOMAIN task[u] /\ task[u][1] = r
           /\ rpc[u].at = "none" /\ page[u].fate # "waiting"
  BY TypesAre, Asked DEF Typed, Opening, Waits

LEMMA PlainPageIs ==
    ASSUME Typed, NEW u \in Users, PlainPage(u)
    PROVE  Answers(u, {}, "ok", FALSE) /\ cart' = cart /\ rpc' = rpc
  <1>1. task[u] # <<>> /\ rpc[u].at = "none"
    BY OpeningIs DEF PlainPage
  <1> QED BY <1>1, TypesAre
          DEF PlainPage, Answers, Typed, ShopperTyped, RestTyped, services_vars, started, pool

LEMMA AddToCartIs ==
    ASSUME Typed, NEW u \in Users, AddToCartPage(u)
    PROVE  /\ Answers(u, {}, "ok", TRUE)
           /\ Head(task[u]) = "add" /\ page[u].fate # "waiting"
           /\ cart'[u] = cart[u] \cup {deal[u].item}
  <1>1. /\ task[u] # <<>> /\ Head(task[u]) = "add" /\ rpc[u].at = "none" /\ page[u].fate # "waiting"
    BY OpeningIs DEF AddToCartPage
  <1>2. ShopperTyped /\ RestTyped
    BY TypesAre DEF Typed
  <1>3. InCart(u) \in SUBSET Products
    BY <1>2, ShopperIs DEF AddToCartPage, InCart, RestTyped
  <1>4. /\ cart' \in [Users -> SUBSET Products] /\ cart'[u] = InCart(u)
        /\ \A v \in Users \ {u} : cart'[v] = cart[v]
    BY <1>2, <1>3 DEF AddToCartPage, ShopperTyped
  <1> QED BY <1>1, <1>2, <1>4
          DEF AddToCartPage, Answers, RestTyped, services_vars, started, pool, InCart

LEMMA NotFoundIs ==
    ASSUME Typed, NEW u \in Users, NotFound(u)
    PROVE  /\ Answers(u, {}, "error", FALSE) /\ cart' = cart /\ page[u].fate # "waiting"
           /\ ~(Needed(u) \subseteq catalog)
  <1>1. PICK r \in {"product", "add", "order"} : Opening(u, r)
    BY DEF NotFound
  <1>2. task[u] # <<>> /\ rpc[u].at = "none" /\ page[u].fate # "waiting"
    BY <1>1, OpeningIs
  <1> QED BY <1>2, TypesAre
          DEF NotFound, Answers, Typed, ShopperTyped, RestTyped, services_vars, started, pool

LEMMA AssistantIs ==
    ASSUME Typed, NEW u \in Users, Assistant(u)
    PROVE  /\ 1 \in DOMAIN task[u] /\ task[u][1] = "assistant" /\ page[u].fate # "waiting"
           /\ cart' = cart /\ Requested(u) = "assistant"
           /\ \/ \E docs \in SUBSET Products : Answers(u, docs, "ok", FALSE)
              \/ ~Serving("assistant") /\ Answers(u, {}, "error", FALSE)
  <1>1. /\ task[u] # <<>> /\ 1 \in DOMAIN task[u] /\ task[u][1] = "assistant" /\ rpc[u].at = "none"
        /\ page[u].fate # "waiting" /\ Requested(u) = "assistant"
    BY OpeningIs DEF Assistant, Opening
  <1>2. ShopperTyped /\ RestTyped
    BY TypesAre DEF Typed
  <1>3. UNCHANGED <<addressed, at, tries, rpc, queue, missed, catalog, troubles, cart>>
    BY DEF Assistant, services_vars, started, pool
  <1>4. CASE Serving("assistant")
    <2>1. PICK docs \in SUBSET Products : Respond(u, docs, "ok", FALSE)
      BY <1>4 DEF Assistant, Table
    <2>2. Answers(u, docs, "ok", FALSE)
      BY <1>1, <1>2, <1>3, <2>1 DEF Answers, ShopperTyped, RestTyped
    <2> QED BY <1>1, <1>3, <2>2
  <1>5. CASE ~Serving("assistant")
    <2>1. Respond(u, {}, "error", FALSE)
      BY <1>5 DEF Assistant
    <2>2. Answers(u, {}, "error", FALSE)
      BY <1>1, <1>2, <1>3, <2>1 DEF Answers, ShopperTyped, RestTyped
    <2> QED BY <1>1, <1>3, <1>5, <2>2
  <1> QED BY <1>4, <1>5

\* The recommendations a page shows are some of those it was given.
LEMMA ClosePageIs ==
    ASSUME Typed, NEW u \in Users, ClosePage(u)
    PROVE  /\ page[u].fate = "waiting" /\ task[u] # <<>> /\ cart' = cart
           /\ \/ \E offer \in SUBSET rpc[u].answer :
                    Cardinality(offer) <= MaxShown /\ Answers(u, offer, "ok", FALSE)
              \/ ~Complete(u) /\ Answers(u, {}, "error", FALSE)
  <1>1. /\ page[u].fate = "waiting" /\ rpc[u].at \in {"answered", "failed"}
        /\ rpc' = [rpc EXCEPT ![u] = NoCall]
        /\ UNCHANGED <<addressed, at, tries, queue, missed, catalog, troubles, cart>>
    BY DEF ClosePage, started
  <1>2. ShopperTyped /\ RestTyped /\ PoolTyped
    BY TypesAre DEF Typed
  <1>3. task[u] # <<>> /\ rpc[u].at # "queued"
    BY <1>1 DEF Typed, ItemInv
  <1>4. PICK offer \in SUBSET rpc[u].answer :
          /\ Cardinality(offer) = IF rpc[u].answer \subseteq catalog
                                  THEN Least(MaxShown, Cardinality(rpc[u].answer)) ELSE 0
          /\ IF Complete(u) THEN Respond(u, offer, "ok", FALSE) ELSE Respond(u, {}, "error", FALSE)
    BY DEF ClosePage
  <1>5. offer \in SUBSET Products /\ Cardinality(rpc[u].answer) \in Nat
    <2>1. rpc[u].answer \in SUBSET Products
      BY <1>2, CallIs
    <2>2. IsFiniteSet(rpc[u].answer)
      BY <2>1, FS_Subset, ServicesAssumption
    <2> QED BY <2>1, <2>2, FS_CardinalityType
  <1>6. Cardinality(offer) <= MaxShown
    BY <1>4, <1>5, StorefrontAssumption DEF Least
  <1>7. CASE Complete(u)
    <2>1. Answers(u, offer, "ok", FALSE)
      BY <1>1, <1>2, <1>3, <1>4, <1>5, <1>7 DEF Answers, ShopperTyped, RestTyped
    <2> QED BY <1>1, <1>3, <1>6, <2>1
  <1>8. CASE ~Complete(u)
    <2>1. Answers(u, {}, "error", FALSE)
      BY <1>1, <1>2, <1>3, <1>4, <1>8 DEF Answers, ShopperTyped, RestTyped
    <2> QED BY <1>1, <1>3, <1>8, <2>1
  <1> QED BY <1>7, <1>8

LEMMA FaultIs ==
    ASSUME Typed, NEW u \in Users, Fault(u)
    PROVE  Answers(u, {}, "error", FALSE) /\ troubles' # troubles
  <1>1. /\ Requested(u) # "none" /\ Trouble /\ Respond(u, {}, "error", FALSE)
        /\ rpc' = [rpc EXCEPT ![u] = NoCall]
        /\ UNCHANGED <<addressed, at, tries, queue, missed, catalog>>
    BY DEF Fault, started
  <1>2. ShopperTyped /\ RestTyped /\ Waits
    BY TypesAre DEF Typed
  <1>3. task[u] # <<>>
    BY <1>1, <1>2, Asked
  <1>4. rpc[u].at # "queued"
    BY <1>2 DEF Fault, Waits
  <1>5. troubles' \in 0..MaxTroubles /\ troubles' # troubles
    BY <1>1, <1>2, TroubleType DEF Trouble, RestTyped
  <1>6. cart' \in [Users -> SUBSET Products] /\ \A v \in Users \ {u} : cart'[v] = cart[v]
    <2>1. CASE UNCHANGED cart
      BY <1>2, <2>1 DEF ShopperTyped
    <2>2. CASE Opening(u, "add") /\ cart' = [cart EXCEPT ![u] = InCart(u)]
      <3>1. deal[u].item \in Products
        BY <2>2, OpeningIs DEF Typed, ItemInv
      <3>2. InCart(u) \in SUBSET Products
        BY <1>2, <3>1, ShopperIs DEF InCart
      <3> QED BY <1>2, <2>2, <3>2 DEF ShopperTyped
    <2>3. CASE cart' = [cart EXCEPT ![u] = {}]
      BY <1>2, <2>3 DEF ShopperTyped
    <2> QED BY <2>1, <2>2, <2>3 DEF Fault
  <1> QED BY <1>1, <1>3, <1>4, <1>5, <1>6 DEF Answers

\* A page that waits for its recommendations, and what it has ordered so far.
Awaits(u, ids) ==
    /\ Typed' /\ Others(u)
    /\ task' = task
    /\ page'[u] = [ids |-> ids, shown |-> {}, fate |-> "waiting"]
    /\ rpc'[u].ids = ids /\ rpc'[u].answer = {}

LEMMA ProductPageIs ==
    ASSUME Typed, NEW u \in Users, ProductPage(u)
    PROVE  /\ Awaits(u, {deal[u].item}) /\ deal' = deal /\ cart' = cart
           /\ 1 \in DOMAIN task[u] /\ task[u][1] = "product" /\ page[u].fate # "waiting"
  <1>1. ShopperTyped /\ RestTyped
    BY TypesAre DEF Typed
  <1>2. /\ Opening(u, "product") /\ Await(u, {deal[u].item}) /\ deal' = deal /\ cart' = cart
        /\ {deal[u].item} \in SUBSET Products
    BY <1>1 DEF ProductPage, RestTyped
  <1>3. 1 \in DOMAIN task[u] /\ task[u][1] = "product" /\ page[u].fate # "waiting"
    BY <1>2, OpeningIs
  <1>4. PICK ids \in SUBSET Products : ids = {deal[u].item}
    BY <1>2
  <1>5. deal' \in [Users -> Deal] /\ cart' \in [Users -> SUBSET Products]
    BY <1>1, <1>2 DEF ShopperTyped
  <1>6. Awaits(u, ids)
    BY <1>2, <1>4, <1>5, AwaitTyped DEF Awaits
  <1> QED BY <1>2, <1>3, <1>4, <1>6

LEMMA CartPageIs ==
    ASSUME Typed, NEW u \in Users, CartPage(u)
    PROVE  /\ Awaits(u, cart[u]) /\ deal' = deal /\ cart' = cart
           /\ 1 \in DOMAIN task[u] /\ task[u][1] = "cart" /\ page[u].fate # "waiting"
  <1>1. ShopperTyped
    BY TypesAre DEF Typed
  <1>2. Opening(u, "cart") /\ Await(u, cart[u]) /\ deal' = deal /\ cart' = cart
    BY DEF CartPage
  <1>3. 1 \in DOMAIN task[u] /\ task[u][1] = "cart" /\ page[u].fate # "waiting"
    BY <1>2, OpeningIs
  <1>4. PICK ids \in SUBSET Products : ids = cart[u]
    BY <1>1, ShopperIs
  <1>5. deal' \in [Users -> Deal] /\ cart' \in [Users -> SUBSET Products]
    BY <1>1, <1>2 DEF ShopperTyped
  <1>6. Awaits(u, ids)
    BY <1>2, <1>4, <1>5, AwaitTyped DEF Awaits
  <1> QED BY <1>2, <1>3, <1>4, <1>6

LEMMA OrderPageIs ==
    ASSUME Typed, NEW u \in Users, OrderPage(u)
    PROVE  /\ Awaits(u, {})
           /\ deal'[u].item = deal[u].item /\ deal'[u].added = deal[u].added
           /\ deal'[u].ordered = cart[u]
           /\ task[u] = <<"order">> /\ page[u].fate # "waiting"
  <1>1. ShopperTyped
    BY TypesAre DEF Typed
  <1>2. /\ Opening(u, "order") /\ Await(u, {})
        /\ deal' = [deal EXCEPT ![u].ordered = cart[u]]
        /\ cart' = [cart EXCEPT ![u] = {}] \/ cart' = cart
    BY DEF OrderPage
  <1>3. task[u] = <<"order">> /\ page[u].fate # "waiting"
    BY <1>1, <1>2, OpeningIs, ShopperIs, SuffixIs
  <1> DEFINE placed == [deal[u] EXCEPT !.ordered = cart[u]]
  <1>4. /\ placed \in Deal /\ placed.item = deal[u].item /\ placed.added = deal[u].added
        /\ placed.ordered = cart[u]
    <2>1. deal[u] \in Deal /\ cart[u] \in SUBSET Products
      BY <1>1, ShopperIs
    <2> QED BY <2>1 DEF Deal
  <1>5. deal' = [deal EXCEPT ![u] = placed]
    BY <1>2
  <1> HIDE DEF placed
  <1>6. deal' \in [Users -> Deal] /\ deal'[u] = placed /\ \A v \in Users \ {u} : deal'[v] = deal[v]
    BY <1>1, <1>4, <1>5 DEF ShopperTyped
  <1>7. cart' \in [Users -> SUBSET Products] /\ \A v \in Users \ {u} : cart'[v] = cart[v]
    BY <1>1, <1>2 DEF ShopperTyped
  <1>8. PICK ids \in SUBSET Products : ids = {}
    OBVIOUS
  <1>9. Awaits(u, ids)
    BY <1>2, <1>4, <1>6, <1>7, <1>8, AwaitTyped DEF Awaits
  <1> QED BY <1>3, <1>4, <1>6, <1>8, <1>9

LEMMA BeginIs ==
    ASSUME Typed, NEW u \in Users, Begin(u)
    PROVE  /\ Typed' /\ Others(u)
           /\ task[u] = <<>> /\ page'[u] = Blank /\ rpc' = rpc
           /\ deal'[u].added = deal[u].added /\ deal'[u].ordered = deal[u].ordered
  <1>1. ShopperTyped /\ PoolTyped /\ StartTyped /\ RestTyped /\ Waits /\ QueueInv /\ ItemInv
    BY TypesAre DEF Typed
  <1>2. /\ task[u] = <<>> /\ page' = [page EXCEPT ![u] = Blank]
        /\ UNCHANGED <<addressed, at, tries, rpc, queue, missed, catalog, troubles, cart>>
    BY DEF Begin, services_vars, started, pool
  <1>3. PICK t \in Tasks :
          /\ task' = [task EXCEPT ![u] = t]
          /\ \/ Head(t) # "product" /\ UNCHANGED deal
             \/ Head(t) = "product" /\ \E p \in Products : deal' = [deal EXCEPT ![u].item = p]
    BY DEF Begin
  <1>4. task' \in [Users -> Suffixes] /\ task'[u] = t /\ \A v \in Users \ {u} : task'[v] = task[v]
    BY <1>1, <1>3, TaskIs DEF ShopperTyped
  <1>5. Blank \in Page /\ Blank.fate = "none"
    BY DEF Blank, Page
  <1>6. page' \in [Users -> Page] /\ page'[u] = Blank /\ \A v \in Users \ {u} : page'[v] = page[v]
    BY <1>1, <1>2, <1>5 DEF ShopperTyped
  <1>7. /\ deal' \in [Users -> Deal] /\ \A v \in Users \ {u} : deal'[v] = deal[v]
        /\ deal'[u].added = deal[u].added /\ deal'[u].ordered = deal[u].ordered
        /\ Head(t) = "product" => deal'[u].item \in Products
    <2>1. CASE Head(t) # "product" /\ UNCHANGED deal
      BY <1>1, <2>1 DEF ShopperTyped
    <2>2. CASE Head(t) = "product" /\ \E p \in Products : deal' = [deal EXCEPT ![u].item = p]
      <3>1. PICK p \in Products : deal' = [deal EXCEPT ![u].item = p]
        BY <2>2
      <3> DEFINE chosen == [deal[u] EXCEPT !.item = p]
      <3>2. /\ chosen \in Deal /\ chosen.item = p /\ chosen.added = deal[u].added
            /\ chosen.ordered = deal[u].ordered
        <4>1. deal[u] \in Deal
          BY <1>1, ShopperIs
        <4> QED BY <4>1 DEF Deal
      <3>3. deal' = [deal EXCEPT ![u] = chosen]
        BY <3>1
      <3> HIDE DEF chosen
      <3> QED BY <1>1, <3>2, <3>3 DEF ShopperTyped
    <2> QED BY <1>3, <2>1, <2>2
  <1>8. ItemInv'
    BY <1>1, <1>4, <1>5, <1>6, <1>7, TaskIs DEF ItemInv
  <1>9. Waits'
    <2>1. rpc[u].at = "none"
      BY <1>1, <1>2 DEF Waits, ItemInv
    <2> QED BY <1>1, <1>2, <1>5, <1>6, <2>1 DEF Waits
  <1>10. ShopperTyped' /\ PoolTyped' /\ StartTyped' /\ RestTyped' /\ QueueInv'
    BY <1>1, <1>2, <1>4, <1>6, <1>7 DEF ShopperTyped, PoolTyped, StartTyped, RestTyped, QueueInv
  <1>11. ShopTypeOK'
    BY <1>9, <1>10, TypesAre, PTL
  <1> QED BY <1>2, <1>4, <1>6, <1>7, <1>8, <1>10, <1>11 DEF Typed, Others

-----------------------------------------------------------------------------
(* Types. *)

\* A step of the services leaves the shoppers alone.
LEMMA ServedTyped ==
    ASSUME Typed, ServicesNext, UNCHANGED shopper
    PROVE  Typed' /\ UNCHANGED <<task, deal, cart, page>> /\ \A u \in Users : CallKept(u)
  <1>1. ShopperTyped /\ PoolTyped /\ StartTyped /\ RestTyped /\ Waits /\ QueueInv /\ ItemInv
    BY TypesAre DEF Typed
  <1>2. Served /\ UNCHANGED <<task, deal, cart, page>>
    BY <1>1, ServicesStep DEF shopper
  <1>3. ShopperTyped' /\ Waits' /\ ItemInv'
    BY <1>1, <1>2 DEF ShopperTyped, Waits, ItemInv, Served, CallKept
  <1>4. ShopTypeOK'
    BY <1>2, <1>3, TypesAre, PTL DEF Served
  <1> QED BY <1>2, <1>3, <1>4 DEF Served, Typed

\* The types hold initially and after every step.
LEMMA InitTyped == ShopInit => Typed
  <1> SUFFICES ASSUME ShopInit PROVE Typed
    OBVIOUS
  <1> USE DEF ShopInit, ServicesInit
  <1>1. ShopperTyped
    <2>1. <<>> \in Suffixes
      BY SuffixesAre DEF Known
    <2>2. NoDeal \in Deal
      <3>1. None \in Products \cup {None} /\ FALSE \in BOOLEAN /\ NoOrder \in (SUBSET Products) \cup {NoOrder}
        OBVIOUS
      <3> QED BY <3>1 DEF NoDeal, Deal
    <2>3. Blank \in Page
      BY DEF Blank, Page
    <2> QED BY <2>1, <2>2, <2>3 DEF ShopperTyped
  <1>2. PoolTyped
    BY NoCallIs, ServicesAssumption DEF PoolTyped
  <1>3. StartTyped
    <2>1. PICK s \in Names : at = [n \in Names |-> IF n = s THEN 1 ELSE Len(Steps[n]) + 1]
      OBVIOUS
    <2>2. \A n \in Names : Len(Steps[n]) \in 3..4
      BY StepsAre
    <2>3. ASSUME NEW n \in Names
          PROVE  at[n] \in 0..6 /\ at[n] <= Len(Steps[n]) + 1
      <3>1. PICK k \in 3..4 : k = Len(Steps[n])
        BY <2>2
      <3>2. at[n] = IF n = s THEN 1 ELSE Len(Steps[n]) + 1
        BY <2>1
      <3>3. at[n] \in {1, k + 1}
        BY <3>1, <3>2
      <3>4. at[n] \in 0..6 /\ at[n] <= k + 1
        BY <3>3
      <3> QED BY <3>1, <3>4
    <2>4. at \in [Names -> 0..6]
      BY <2>1, <2>3
    <2> QED BY <2>3, <2>4 DEF StartTyped, Attempts
  <1>4. RestTyped /\ Waits /\ QueueInv /\ ItemInv
    BY ServicesAssumption, NoCallIs DEF RestTyped, Waits, QueueInv, ItemInv, Blank
  <1> QED BY <1>1, <1>2, <1>3, <1>4, TypesAre DEF Typed

LEMMA NextTyped == Typed /\ [ShopNext]_shop_vars => Typed'
  <1> SUFFICES ASSUME Typed, [ShopNext]_shop_vars PROVE Typed'
    OBVIOUS
  <1>1. CASE ServicesNext /\ UNCHANGED shopper
    BY <1>1, ServedTyped
  <1>2. ASSUME NEW u \in Users, Begin(u) \/ Visit(u) \/ Fault(u)
        PROVE  Typed'
    <2>1. CASE Begin(u)
      BY <2>1, BeginIs
    <2>2. CASE ProductPage(u) \/ CartPage(u) \/ OrderPage(u)
      BY <2>2, ProductPageIs, CartPageIs, OrderPageIs DEF Awaits
    <2>3. CASE PlainPage(u) \/ AddToCartPage(u)
      BY <2>3, PlainPageIs, AddToCartIs, AnswersTyped
    <2>4. CASE NotFound(u) \/ Fault(u)
      BY <2>4, NotFoundIs, FaultIs, AnswersTyped
    <2>5. CASE Assistant(u)
      BY <2>5, AssistantIs, AnswersTyped
    <2>6. CASE ClosePage(u)
      BY <2>6, ClosePageIs, AnswersTyped
    <2> QED BY <1>2, <2>1, <2>2, <2>3, <2>4, <2>5, <2>6 DEF Visit
  <1>3. CASE UNCHANGED shop_vars
    <2>1. UNCHANGED <<addressed, at, tries, rpc, queue, missed, catalog, troubles, task, deal, cart, page>>
      BY <1>3 DEF shop_vars, services_vars, started, pool, shopper
    <2> QED BY <2>1 DEF Typed, ShopTypeOK, ServicesTypeOK, QueueInv, ItemInv, Serving
  <1> QED BY <1>1, <1>2, <1>3 DEF ShopNext

\* Every variable keeps its type, a call waits in the pool's queue at most once and
\* only while it is not begun, and a page that waits for its recommendations has
\* both a call and the request it answers.  TakeWork and Recommend need the queue,
\* Respond and Await the rest: the types alone are not inductive.
THEOREM ShopTyped == ShopSpec => []Typed
  BY InitTyped, NextTyped, PTL DEF ShopSpec

-----------------------------------------------------------------------------
(* What the pages and the deals are worth. *)

\* No answer holds what its page is about.
CallFits(u) ==
    /\ rpc[u].answer \cap rpc[u].ids = {}
    /\ page[u].fate = "waiting" => rpc[u].ids = page[u].ids

\* Neither does what a page shows; the assistant answers on a page about nothing.
PageFits(u) ==
    /\ \A i \in DOMAIN task[u] : task[u][i] = "assistant" => page[u].ids = {}
    /\ page[u].ids # {} => /\ page[u].shown \cap page[u].ids = {}
                          /\ Cardinality(page[u].shown) <= MaxShown

\* Only the order of a task's end is placed, and what was added for it is in
\* the cart until then, in the order afterwards.
DealHolds(u) ==
    /\ deal[u].ordered # NoOrder => task[u] = <<"order">> /\ page[u].fate = "waiting"
    /\ deal[u].added =>
          /\ task[u] = <<"order">>
          /\ deal[u].item \in IF page[u].fate = "waiting" THEN deal[u].ordered ELSE cart[u]

Holds(u) == CallFits(u) /\ PageFits(u) /\ DealHolds(u)
ShopInv == Typed /\ \A u \in Users : Holds(u)

\* What one user's step leaves alone stays as it was.
LEMMA OthersHold ==
    ASSUME NEW u \in Users, Others(u), \A v \in Users : Holds(v), Holds(u)'
    PROVE  \A v \in Users : Holds(v)'
  <1>1. ASSUME NEW v \in Users \ {u}
        PROVE  Holds(v)'
    <2>1. /\ task'[v] = task[v] /\ deal'[v] = deal[v] /\ cart'[v] = cart[v] /\ page'[v] = page[v]
          /\ rpc'[v] = rpc[v]
      BY <1>1 DEF Others
    <2>2. Holds(v)
      BY <1>1
    <2> QED BY <2>1, <2>2 DEF Holds, CallFits, PageFits, DealHolds
  <1> QED BY <1>1

\* A response keeps what holds if what it shows is not what its page is about and
\* what it adds is in the cart.
LEMMA AnswersHold ==
    ASSUME Typed, NEW u \in Users, Holds(u), NEW offer, NEW fate, NEW added,
           Answers(u, offer, fate, added),
           fate = "ok" /\ page[u].ids # {} =>
               offer \cap page[u].ids = {} /\ Cardinality(offer) <= MaxShown,
           added => Head(task[u]) = "add" /\ deal[u].item \in cart'[u]
    PROVE  Holds(u)'
  <1>1. ShopperTyped
    BY TypesAre DEF Typed
  <1>2. /\ task[u] # <<>> /\ offer \in SUBSET Products /\ fate \in {"ok", "error"} /\ added \in BOOLEAN
        /\ task'[u] = Tail(task[u])
        /\ deal'[u] = DealAfter(u, added)
        /\ page'[u] = PageAfter(u, offer, fate)
    <2>1. /\ task[u] # <<>> /\ offer \in SUBSET Products /\ fate \in {"ok", "error"} /\ added \in BOOLEAN
          /\ Respond(u, offer, fate, added)
      BY DEF Answers
    <2> QED BY <1>1, <2>1, RespondIs
  <1>3. page'[u].fate = fate /\ fate # "waiting"
    BY <1>1, <1>2, PageAfterIs
  <1>4. CallFits(u)'
    <2>1. rpc'[u] \in {rpc[u], NoCall}
      BY AnswersTyped
    <2> QED BY <1>3, <2>1, NoCallIs DEF Holds, CallFits
  <1>5. PageFits(u)'
    <2>1. \A i \in DOMAIN Tail(task[u]) : Tail(task[u])[i] # "assistant"
      <3> SUFFICES ASSUME NEW i \in DOMAIN Tail(task[u]), Tail(task[u])[i] = "assistant"
                   PROVE  FALSE
        OBVIOUS
      <3>1. task[u] \in Seq(Requests)
        BY <1>1, ShopperIs, SuffixIs
      <3>2. i + 1 \in DOMAIN task[u] /\ task[u][i + 1] = "assistant"
        BY <1>2, <3>1
      <3>3. task[u] = <<"assistant">>
        BY <1>1, <3>2, ShopperIs, SuffixIs
      <3>4. Tail(task[u]) = <<>>
        BY <3>3
      <3> QED BY <3>4
    <2>2. CASE fate = "error"
      BY <1>1, <1>2, <2>1, <2>2, PageAfterIs DEF PageFits
    <2>3. CASE fate = "ok"
      <3>1. page'[u].ids = page[u].ids /\ page'[u].shown = offer
        BY <1>1, <1>2, <2>3, PageAfterIs
      <3> QED BY <1>2, <2>1, <2>3, <3>1 DEF PageFits
    <2> QED BY <1>2, <2>2, <2>3
  <1>6. DealHolds(u)'
    <2>1. CASE Len(task[u]) = 1
      <3>1. deal'[u] = NoDeal
        BY <1>1, <1>2, <2>1, DealAfterIs
      <3> QED BY <3>1 DEF DealHolds, NoDeal
    <2>2. CASE Len(task[u]) # 1
      <3>1. task[u] # <<"order">>
        BY <2>2
      <3>2. deal[u].ordered = NoOrder /\ ~deal[u].added
        BY <3>1 DEF Holds, DealHolds
      <3>3. /\ deal'[u].item = deal[u].item /\ deal'[u].ordered = NoOrder
            /\ deal'[u].added = (deal[u].added \/ added)
        BY <1>1, <1>2, <2>2, <3>2, DealAfterIs
      <3>4. added => Tail(task[u]) = <<"order">> /\ deal[u].item \in cart'[u]
        BY <1>1, <1>2, <2>2, ShopperIs, SuffixIs
      <3> QED BY <1>2, <1>3, <3>2, <3>3, <3>4 DEF DealHolds
    <2> QED BY <2>1, <2>2
  <1> QED BY <1>4, <1>5, <1>6 DEF Holds

\* No recommendations fit on every page.
LEMMA NothingFits == Cardinality({}) <= MaxShown
  BY FS_EmptySet, StorefrontAssumption

\* A page that begins to wait shows nothing yet.
LEMMA AwaitsHold ==
    ASSUME Typed, NEW u \in Users, Holds(u), NEW ids, Awaits(u, ids),
           ids # {} => task[u] # <<"assistant">>,
           DealHolds(u)'
    PROVE  Holds(u)'
  <1>1. /\ task' = task /\ page'[u] = [ids |-> ids, shown |-> {}, fate |-> "waiting"]
        /\ rpc'[u].ids = ids /\ rpc'[u].answer = {}
    BY DEF Awaits
  <1>2. page'[u].ids = ids /\ page'[u].shown = {} /\ page'[u].fate = "waiting"
    BY <1>1
  <1>3. CallFits(u)'
    BY <1>1, <1>2 DEF CallFits
  <1>4. PageFits(u)'
    <2>1. \A i \in DOMAIN task[u] : task[u][i] = "assistant" => ids = {}
      BY TypesAre, ShopperIs, SuffixIs DEF Typed
    <2> QED BY <1>1, <1>2, <2>1, NothingFits DEF PageFits
  <1> QED BY <1>3, <1>4 DEF Holds

\* Every step of a request keeps what holds of its user.
LEMMA VisitHolds ==
    ASSUME Typed, NEW u \in Users, Holds(u), Visit(u) \/ Fault(u)
    PROVE  Holds(u)' /\ Others(u)
  <1>1. CASE PlainPage(u)
    <2>1. Answers(u, {}, "ok", FALSE) /\ Cardinality({}) <= MaxShown
      BY <1>1, PlainPageIs, NothingFits
    <2> QED BY <2>1, AnswersHold, AnswersTyped
  <1>2. CASE AddToCartPage(u)
    <2>1. /\ Answers(u, {}, "ok", TRUE) /\ Cardinality({}) <= MaxShown
          /\ Head(task[u]) = "add" /\ deal[u].item \in cart'[u]
      BY <1>2, AddToCartIs, NothingFits
    <2> QED BY <2>1, AnswersHold, AnswersTyped
  <1>3. CASE NotFound(u) \/ Fault(u)
    <2>1. Answers(u, {}, "error", FALSE)
      BY <1>3, NotFoundIs, FaultIs
    <2> QED BY <2>1, AnswersHold, AnswersTyped
  <1>4. CASE Assistant(u)
    <2>1. page[u].ids = {}
      BY <1>4, AssistantIs DEF Holds, PageFits
    <2>2. PICK offer, fate : Answers(u, offer, fate, FALSE)
      BY <1>4, AssistantIs
    <2> QED BY <2>1, <2>2, AnswersHold, AnswersTyped
  <1>5. CASE ClosePage(u)
    <2>1. page[u].fate = "waiting" /\ rpc[u].answer \cap page[u].ids = {}
      BY <1>5, ClosePageIs DEF Holds, CallFits
    <2>2. CASE Answers(u, {}, "error", FALSE)
      BY <2>2, AnswersHold, AnswersTyped
    <2>3. ASSUME NEW offer \in SUBSET rpc[u].answer, Cardinality(offer) <= MaxShown,
                 Answers(u, offer, "ok", FALSE)
          PROVE  Holds(u)' /\ Others(u)
      <3>1. offer \cap page[u].ids = {}
        BY <2>1
      <3> QED BY <2>3, <3>1, AnswersHold, AnswersTyped
    <2> QED BY <1>5, <2>2, <2>3, ClosePageIs
  <1>6. CASE ProductPage(u) \/ CartPage(u)
    <2>1. PICK ids : Awaits(u, ids)
      BY <1>6, ProductPageIs, CartPageIs
    <2>2. /\ deal' = deal /\ cart' = cart /\ page[u].fate # "waiting"
          /\ 1 \in DOMAIN task[u] /\ task[u][1] \in {"product", "cart"}
      BY <1>6, ProductPageIs, CartPageIs
    <2>3. task[u] # <<"assistant">> /\ task[u] # <<"order">>
      BY <2>2
    <2>4. DealHolds(u)'
      <3>1. deal[u].ordered = NoOrder /\ ~deal[u].added
        BY <2>3 DEF Holds, DealHolds
      <3> QED BY <2>2, <3>1 DEF DealHolds
    <2> QED BY <2>1, <2>3, <2>4, AwaitsHold DEF Awaits
  <1>7. CASE OrderPage(u)
    <2>1. /\ Awaits(u, {}) /\ task[u] = <<"order">> /\ page[u].fate # "waiting"
          /\ deal'[u].item = deal[u].item /\ deal'[u].added = deal[u].added
          /\ deal'[u].ordered = cart[u]
      BY <1>7, OrderPageIs
    <2>2. task' = task /\ page'[u].fate = "waiting"
      BY <2>1 DEF Awaits
    <2>3. deal[u].added => deal[u].item \in cart[u]
      BY <2>1 DEF Holds, DealHolds
    <2>4. DealHolds(u)'
      BY <2>1, <2>2, <2>3 DEF DealHolds
    <2> QED BY <2>1, <2>4, AwaitsHold DEF Awaits
  <1> QED BY <1>1, <1>2, <1>3, <1>4, <1>5, <1>6, <1>7 DEF Visit

LEMMA BeginHolds ==
    ASSUME Typed, NEW u \in Users, Holds(u), Begin(u)
    PROVE  Holds(u)' /\ Others(u)
  <1>1. /\ Others(u) /\ task[u] = <<>> /\ page'[u] = Blank /\ rpc' = rpc
        /\ deal'[u].added = deal[u].added /\ deal'[u].ordered = deal[u].ordered
    BY BeginIs
  <1>2. deal[u].ordered = NoOrder /\ ~deal[u].added
    BY <1>1 DEF Holds, DealHolds
  <1>3. page'[u].ids = {} /\ page'[u].fate # "waiting"
    BY <1>1 DEF Blank
  <1> QED BY <1>1, <1>2, <1>3 DEF Holds, CallFits, PageFits, DealHolds

\* The invariant holds initially and after every step.
LEMMA InitHolds == ShopInit => ShopInv
  <1> SUFFICES ASSUME ShopInit PROVE ShopInv
    OBVIOUS
  <1>1. ASSUME NEW u \in Users
        PROVE  Holds(u)
    BY <1>1, NoCallIs DEF ShopInit, ServicesInit, Holds, CallFits, PageFits, DealHolds, Blank, NoDeal
  <1> QED BY <1>1, InitTyped DEF ShopInv

LEMMA NextHolds == ShopInv /\ [ShopNext]_shop_vars => ShopInv'
  <1> SUFFICES ASSUME ShopInv, [ShopNext]_shop_vars PROVE ShopInv'
    OBVIOUS
  <1>1. Typed /\ Typed' /\ \A u \in Users : Holds(u)
    BY NextTyped DEF ShopInv
  <1>2. CASE ServicesNext /\ UNCHANGED shopper
    <2>1. UNCHANGED <<task, deal, cart, page>> /\ \A u \in Users : CallKept(u)
      BY <1>1, <1>2, ServedTyped
    <2>2. \A u \in Users : Holds(u)'
      BY <1>1, <2>1 DEF Holds, CallFits, PageFits, DealHolds, CallKept
    <2> QED BY <1>1, <2>2 DEF ShopInv
  <1>3. ASSUME NEW u \in Users, Begin(u) \/ Visit(u) \/ Fault(u)
        PROVE  ShopInv'
    <2>1. Holds(u)' /\ Others(u)
      BY <1>1, <1>3, BeginHolds, VisitHolds
    <2> QED BY <1>1, <2>1, OthersHold DEF ShopInv
  <1>4. CASE UNCHANGED shop_vars
    <2>1. UNCHANGED <<rpc, task, deal, cart, page>>
      BY <1>4 DEF shop_vars, services_vars, pool, shopper
    <2> QED BY <1>1, <2>1 DEF ShopInv, Holds, CallFits, PageFits, DealHolds
  <1> QED BY <1>2, <1>3, <1>4 DEF ShopNext

\* The inductive invariant of the shoppers: types, what a call, a page and a deal
\* hold of each other.
THEOREM ShopInvariant == ShopSpec => []ShopInv
  BY InitHolds, NextHolds, PTL DEF ShopSpec

\* The type invariant, with the match of waiting pages and calls, for any number of
\* users, products, workers and failures.
THEOREM ShopTypes == ShopSpec => []ShopTypeOK
  <1>1. Typed => ShopTypeOK
    BY DEF Typed
  <1> QED BY <1>1, ShopTyped, PTL

\* RecommendationsFit in every reachable state: the recommendations are about the
\* products the page was built from although the catalog is replaced, the service
\* killed and the queue lost meanwhile (recommendation_server.py 72-78).
THEOREM PagesFit == ShopSpec => []RecommendationsFit
  <1>1. ShopInv => RecommendationsFit
    BY DEF ShopInv, Holds, PageFits, RecommendationsFit
  <1> QED BY <1>1, ShopInvariant, PTL

\* OrderHoldsAddition in every reachable state: between the acknowledged addition
\* and the order nothing takes the product out of the cart (locustfile.py 58-72).
THEOREM OrdersHoldAdditions == ShopSpec => []OrderHoldsAddition
  <1>1. ASSUME ShopInv, NEW u \in Users, deal[u].added, deal[u].ordered # NoOrder
        PROVE  deal[u].item \in deal[u].ordered
    BY <1>1 DEF ShopInv, Holds, DealHolds
  <1>2. ShopInv => OrderHoldsAddition
    BY <1>1 DEF OrderHoldsAddition
  <1> QED BY <1>2, ShopInvariant, PTL

\* The cause of an error.
Cause(u) ==
    page'[u].fate = "error" /\ page[u] # page'[u] =>
        \/ troubles' # troubles
        \/ ~(Needed(u) \cup page[u].ids \subseteq catalog)
        \/ Requested(u) = "assistant" /\ ~Serving("assistant")

\* A page that is answered is no error.
LEMMA AnswersFate ==
    ASSUME Typed, NEW u \in Users, NEW offer, NEW added, Answers(u, offer, "ok", added)
    PROVE  page'[u].fate = "ok"
  <1>1. ShopperTyped
    BY TypesAre DEF Typed
  <1>2. /\ task[u] # <<>> /\ offer \in SUBSET Products /\ added \in BOOLEAN
        /\ Respond(u, offer, "ok", added)
    BY DEF Answers
  <1>3. "ok" \in {"ok", "error"} /\ page'[u] = PageAfter(u, offer, "ok")
    BY <1>1, <1>2, RespondIs
  <1> QED BY <1>1, <1>2, <1>3, PageAfterIs

\* Every step of a request has the cause of its error.
LEMMA VisitCause ==
    ASSUME Typed, NEW u \in Users, Visit(u) \/ Fault(u)
    PROVE  Cause(u) /\ Others(u)
  <1>1. CASE PlainPage(u) \/ AddToCartPage(u)
    <2>1. \E added \in BOOLEAN : Answers(u, {}, "ok", added)
      BY <1>1, PlainPageIs, AddToCartIs
    <2> QED BY <2>1, AnswersFate, AnswersTyped DEF Cause
  <1>2. CASE NotFound(u)
    <2>1. Answers(u, {}, "error", FALSE) /\ ~(Needed(u) \subseteq catalog)
      BY <1>2, NotFoundIs
    <2> QED BY <2>1, AnswersTyped DEF Cause
  <1>3. CASE Fault(u)
    BY <1>3, FaultIs, AnswersTyped DEF Cause
  <1>4. CASE Assistant(u)
    <2>1. Requested(u) = "assistant"
      BY <1>4, AssistantIs
    <2>2. CASE \E docs \in SUBSET Products : Answers(u, docs, "ok", FALSE)
      BY <2>2, AnswersFate, AnswersTyped DEF Cause
    <2>3. CASE ~Serving("assistant") /\ Answers(u, {}, "error", FALSE)
      BY <2>1, <2>3, AnswersTyped DEF Cause
    <2> QED BY <1>4, <2>2, <2>3, AssistantIs
  <1>5. CASE ClosePage(u)
    <2>1. CASE \E offer \in SUBSET rpc[u].answer : Answers(u, offer, "ok", FALSE)
      BY <2>1, AnswersFate, AnswersTyped DEF Cause
    <2>2. CASE ~Complete(u) /\ Answers(u, {}, "error", FALSE)
      <3>1. ~(Needed(u) \cup page[u].ids \subseteq catalog)
        BY <2>2 DEF Complete
      <3> QED BY <2>2, <3>1, AnswersTyped DEF Cause
    <2> QED BY <1>5, <2>1, <2>2, ClosePageIs
  <1>6. CASE ProductPage(u) \/ CartPage(u) \/ OrderPage(u)
    <2>1. PICK ids : Awaits(u, ids)
      BY <1>6, ProductPageIs, CartPageIs, OrderPageIs
    <2>2. page'[u].fate # "error"
      BY <2>1 DEF Awaits
    <2> QED BY <2>1, <2>2 DEF Awaits, Cause
  <1> QED BY <1>1, <1>2, <1>3, <1>4, <1>5, <1>6 DEF Visit

\* ErrorsHaveCause of every step: no step of the recommendation service, its crash
\* included, makes an error page (handlers.go 177, 265).
THEOREM PagesFailForACause == ShopSpec => ErrorsHaveCause
  <1>1. ASSUME Typed, [ShopNext]_shop_vars
        PROVE  [\A u \in Users : Cause(u)]_shop_vars
    <2>1. CASE ServicesNext /\ UNCHANGED shopper
      BY <2>1 DEF shopper, Cause
    <2>2. ASSUME NEW u \in Users, Begin(u) \/ Visit(u) \/ Fault(u)
          PROVE  \A v \in Users : Cause(v)
      <3>1. Cause(u) /\ Others(u)
        BY <1>1, <2>2, VisitCause, BeginIs DEF Cause, Blank
      <3> QED BY <3>1 DEF Others, Cause
    <2> QED BY <1>1, <2>1, <2>2 DEF ShopNext
  <1>2. Typed /\ [ShopNext]_shop_vars => [\A u \in Users : Cause(u)]_shop_vars
    BY <1>1
  <1>3. [][\A u \in Users : Cause(u)]_shop_vars => ErrorsHaveCause
    BY PTL DEF ErrorsHaveCause, Cause
  <1> QED BY <1>2, <1>3, ShopTyped, PTL DEF ShopSpec

-----------------------------------------------------------------------------
(* OrderTotal.                                                             *)

\* Amounts that are neither negative nor out of range, and those of them
\* that are at least one unit.
Proper == [units : Nat, nanos : 0..NanosMod - 1, currency : Currencies]

Whole == [units : Nat \ {0}, nanos : 0..NanosMod - 1, currency : Currencies]

-----------------------------------------------------------------------------
(* Arithmetic *)

LEMMA Distribute ==
    ASSUME NEW a \in Int, NEW b \in Int, NEW n \in Int
    PROVE  /\ (a + b) * n = a * n + b * n
           /\ (a - b) * n = a * n - b * n
           /\ a * n \in Int
           /\ 1 * n = n
OBVIOUS

LEMMA Monotone ==
    ASSUME NEW a \in Int, NEW b \in Int, NEW n \in Nat, a >= b
    PROVE  a * n >= b * n
<1>1. a - b \in Nat /\ n \in Nat
  OBVIOUS
<1>2. (a - b) * n >= 0
  BY <1>1
<1> QED
  BY <1>2, Distribute

\* Moving a carry between nanos and units changes no value.
LEMMA CarryValue ==
    ASSUME NEW u \in Int, NEW n \in Int, NEW k \in Int, NEW c
    PROVE  Value(Money(u + k, n - k * NanosMod, c)) = u * NanosMod + n
<1>1. NanosMod \in Int
  BY ModAssumption
<1>2. (u + k) * NanosMod = u * NanosMod + k * NanosMod
  BY <1>1, Distribute
<1>3. u * NanosMod \in Int /\ k * NanosMod \in Int
  BY <1>1, Distribute
<1>4. Value(Money(u + k, n - k * NanosMod, c))
          = (u + k) * NanosMod + (n - k * NanosMod)
  BY DEF Value, Money
<1> QED
  BY <1>2, <1>3, <1>4

\* Sum never changes the value, whatever the signs: what it may get wrong is
\* only the form of the result.
THEOREM SumIsExact ==
    ASSUME NEW l \in Totals, NEW r \in Totals
    PROVE  Value(Sum(l, r)) = Value(l) + Value(r)
<1> DEFINE u == l.units + r.units
           n == l.nanos + r.nanos
           k == IF SameSign(u, n) THEN Carry(n) ELSE IF u > 0 THEN -1 ELSE 1
<1>1. u \in Int /\ n \in Int /\ k \in Int
  BY DEF Totals, Carry
<1>2. Sum(l, r) = Money(u + k, n - k * NanosMod, l.currency)
  BY DEF Sum
<1> HIDE DEF k
<1>3. Value(Sum(l, r)) = u * NanosMod + n
  BY <1>1, <1>2, CarryValue
<1>4. l.units \in Int /\ r.units \in Int /\ NanosMod \in Int
      /\ l.nanos \in Int /\ r.nanos \in Int
  BY ModAssumption DEF Totals
<1>5. u * NanosMod = l.units * NanosMod + r.units * NanosMod
  BY <1>4, Distribute
<1>6. l.units * NanosMod \in Int /\ r.units * NanosMod \in Int
  BY <1>4, Distribute
<1> QED
  BY <1>3, <1>4, <1>5, <1>6 DEF Value

\* A sum in which one amount is at least a unit is accepted, and again at
\* least a unit in proper form.
LEMMA SumIsWhole ==
    ASSUME NEW l \in Proper, NEW r \in Whole, l.currency = r.currency
    PROVE  /\ MustSum(l, r) \in Whole
           /\ MustSum(l, r).currency = l.currency
           /\ Value(MustSum(l, r)) = Value(l) + Value(r)
<1> DEFINE u == l.units + r.units
           n == l.nanos + r.nanos
<1>1. /\ u \in Nat \ {0}
      /\ n \in Nat
      /\ n < NanosMod + NanosMod
      /\ NanosMod \in Nat
      /\ l \in Totals /\ r \in Totals
      /\ r \in Proper
  BY ModAssumption DEF Proper, Whole, Totals
<1>2. IsValid(l) /\ IsValid(r)
  BY <1>1, ModAssumption DEF Proper, IsValid, SignMatches, ValidNanos
<1>3. MustSum(l, r) = Sum(l, r)
  BY <1>2 DEF MustSum, Summable
<1>4. SameSign(u, n)
  BY <1>1 DEF SameSign
<1>5. Sum(l, r) = Money(u + Carry(n), n - Carry(n) * NanosMod, l.currency)
  BY <1>4 DEF Sum
<1>6. CASE n >= NanosMod
  <2>1. Carry(n) = 1
    BY <1>6 DEF Carry
  <2>2. n - Carry(n) * NanosMod \in 0..NanosMod - 1
    BY <1>1, <1>6, <2>1
  <2>3. Sum(l, r) \in Whole /\ Sum(l, r).currency = l.currency
    BY <1>1, <1>5, <2>1, <2>2 DEF Whole, Money, Proper
  <2> QED
    BY <1>1, <1>3, <2>3, SumIsExact
<1>7. CASE ~(n >= NanosMod)
  <2>1. Carry(n) = 0
    BY <1>1, <1>7, ModAssumption DEF Carry
  <2>2. n - Carry(n) * NanosMod = n /\ n \in 0..NanosMod - 1
    BY <1>1, <1>7, <2>1
  <2>3. Sum(l, r) \in Whole /\ Sum(l, r).currency = l.currency
    BY <1>1, <1>5, <2>1, <2>2 DEF Whole, Money, Proper
  <2> QED
    BY <1>1, <1>3, <2>3, SumIsExact
<1> QED
  BY <1>6, <1>7

\* In proper form an amount has one representation.
LEMMA Canonical ==
    ASSUME NEW l \in Proper, NEW r \in Proper,
           l.currency = r.currency, Value(l) = Value(r)
    PROVE  l = r
<1>1. /\ l.units \in Nat /\ r.units \in Nat /\ NanosMod \in Nat
      /\ l.nanos \in 0..NanosMod - 1 /\ r.nanos \in 0..NanosMod - 1
  BY ModAssumption DEF Proper
<1>2. ~(l.units >= r.units + 1)
  <2> SUFFICES ASSUME l.units >= r.units + 1 PROVE FALSE
    OBVIOUS
  <2>1. l.units * NanosMod >= (r.units + 1) * NanosMod
    BY <1>1, Monotone
  <2>2. (r.units + 1) * NanosMod = r.units * NanosMod + NanosMod
    BY <1>1, Distribute
  <2>3. l.units * NanosMod \in Int /\ r.units * NanosMod \in Int
    BY <1>1, Distribute
  <2> QED
    BY <1>1, <2>1, <2>2, <2>3 DEF Value
<1>3. ~(r.units >= l.units + 1)
  <2> SUFFICES ASSUME r.units >= l.units + 1 PROVE FALSE
    OBVIOUS
  <2>1. r.units * NanosMod >= (l.units + 1) * NanosMod
    BY <1>1, Monotone
  <2>2. (l.units + 1) * NanosMod = l.units * NanosMod + NanosMod
    BY <1>1, Distribute
  <2>3. l.units * NanosMod \in Int /\ r.units * NanosMod \in Int
    BY <1>1, Distribute
  <2> QED
    BY <1>1, <2>1, <2>2, <2>3 DEF Value
<1>4. l.units = r.units
  BY <1>1, <1>2, <1>3
<1>5. l.units * NanosMod \in Int
  BY <1>1, Distribute
<1>6. l.nanos = r.nanos
  BY <1>1, <1>4, <1>5 DEF Value
<1> QED
  BY <1>4, <1>6 DEF Proper

LEMMA LocalizedWhole ==
    ASSUME NEW a \in Amounts, NEW c \in Currencies
    PROVE  /\ Localized(a, c) \in Whole
           /\ Localized(a, c).currency = c
           /\ Value(Localized(a, c)) \in Nat
<1>1. /\ a.units \in Nat \ {0} /\ a.nanos \in 0..NanosMod - 1
      /\ NanosMod \in Nat
  BY AmountAssumption, ModAssumption
<1>2. a.units * NanosMod \in Nat
  BY <1>1
<1> QED
  BY <1>1, <1>2 DEF Localized, Money, Whole, Value

LEMMA WholeValues ==
    /\ Whole \subseteq Proper
    /\ Proper \subseteq Totals
    /\ \A m \in Proper : Value(m) \in Int
    /\ NoMoney \notin Proper
    /\ Panic \notin Proper
<1>1. Whole \subseteq Proper
  BY DEF Whole, Proper
<1>2. Proper \subseteq Totals
  BY ModAssumption DEF Proper, Totals
<1>3. ASSUME NEW m \in Proper PROVE Value(m) \in Int
  <2>1. m.units \in Int /\ m.nanos \in Int /\ NanosMod \in Int
    BY ModAssumption DEF Proper
  <2>2. m.units * NanosMod \in Int
    BY <2>1, Distribute
  <2> QED
    BY <2>1, <2>2 DEF Value
<1> QED
  BY <1>1, <1>2, <1>3, AmountAssumption

-----------------------------------------------------------------------------
(* The inductive invariant *)

\* The price of item k in the shopper's currency, the shipping in currency c.
Price(k) == Value(Localized(items[k].cost[currency], currency))

Quote(c) == Value(Localized(shipping[c], c))

\* due is what its name says, one item after another.
DueInv ==
    \A k \in 1..Len(items) : \A c \in Currencies :
        due[k + 1][c] = due[k][c]
            + items[k].quantity * Value(Localized(items[k].cost[c], c))

\* The running total is the exact cost of the items added so far, with the
\* shipping where the handler has added it.
TotalInv ==
    /\ place \in {"shop", "charged", "done"} => total = NoMoney /\ out = NoMoney
    /\ place \in {"cart", "checkout", "order"} =>
           /\ total \in Proper
           /\ total.currency = currency
    /\ place = "cart" => Value(total) = due[next][currency]
    /\ place \in {"checkout", "order"} =>
           /\ total \in Whole
           /\ Value(total) = due[next][currency] + Quote(currency)

\* MultiplySlow has added the price once for every step of its counter.
ProductInv ==
    out # NoMoney =>
        /\ next <= Len(items)
        /\ left \in 1..items[next].quantity
        /\ out \in Whole
        /\ out.currency = currency
        /\ Value(out) = (items[next].quantity - left + 1) * Price(next)

\* A handler's result is the exact cost of the whole order.
ResultInv ==
    /\ shown # NoMoney =>
           /\ shown \in Proper
           /\ Value(shown) = due[Len(due)][shown.currency] + Quote(shown.currency)
    /\ charged # NoMoney =>
           /\ place \in {"charged", "order", "done"}
           /\ charged \in Proper
           /\ charged.currency = currency
           /\ Value(charged) = due[Len(due)][currency] + Quote(currency)
    /\ place \in {"charged", "order", "done"} => charged # NoMoney
    /\ paid # NoMoney =>
           /\ charged # NoMoney
           /\ paid \in Proper
           /\ paid.currency = currency
           /\ Value(paid) = due[Len(due)][currency] + Quote(currency)

\* Nothing costs nothing.
FirstInv == \A c \in Currencies : due[1][c] = 0

IInv == TypeOK /\ FirstInv /\ DueInv /\ TotalInv /\ ProductInv /\ ResultInv

-----------------------------------------------------------------------------
LEMMA Facts ==
    ASSUME TypeOK
    PROVE  /\ Len(items) \in Nat
           /\ Len(due) = Len(items) + 1
           /\ next \in Nat \ {0}
           /\ \A k \in 1..Len(items) : items[k] \in Items
           /\ \A k \in 1..Len(items) + 1 : \A c \in Currencies : due[k][c] \in Nat
           /\ \A c \in Currencies : Quote(c) \in Nat
<1>1. /\ items \in Seq(Items) /\ due \in Seq([Currencies -> Nat])
      /\ Len(due) = Len(items) + 1
      /\ next \in 1..Len(items) + 1
  BY DEF TypeOK
<1>2. ASSUME NEW k \in 1..Len(items) + 1, NEW c \in Currencies
      PROVE  due[k][c] \in Nat
  <2>1. due[k] \in [Currencies -> Nat]
    BY <1>1
  <2> QED
    BY <2>1
<1>3. ASSUME NEW c \in Currencies PROVE Quote(c) \in Nat
  <2>1. shipping[c] \in Amounts
    BY DEF TypeOK
  <2> QED
    BY <2>1, LocalizedWhole DEF Quote
<1> QED
  BY <1>1, <1>2, <1>3

\* The item a handler works on has a price of at least a unit.
LEMMA PriceFacts ==
    ASSUME TypeOK, next <= Len(items)
    PROVE  /\ Cost \in Whole
           /\ Cost.currency = currency
           /\ Value(Cost) = Price(next)
           /\ Price(next) \in Nat
           /\ items[next].quantity \in 1..MaxQuantity
<1>1. items[next] \in Items
  BY Facts
<1>2. items[next].cost[currency] \in Amounts /\ items[next].quantity \in 1..MaxQuantity
      /\ currency \in Currencies
  BY <1>1 DEF Items, TypeOK
<1> QED
  BY <1>2, LocalizedWhole DEF Cost, Price

LEMMA ShippingFacts ==
    ASSUME TypeOK
    PROVE  /\ currency \in Currencies
           /\ Localized(shipping[currency], currency) \in Whole
           /\ Localized(shipping[currency], currency).currency = currency
           /\ Value(Localized(shipping[currency], currency)) = Quote(currency)
<1>1. currency \in Currencies /\ shipping[currency] \in Amounts
  BY DEF TypeOK
<1> QED
  BY <1>1, LocalizedWhole DEF Quote

LEMMA ZeroFacts ==
    ASSUME TypeOK
    PROVE  Zero \in Proper /\ Zero.currency = currency /\ Value(Zero) = 0
<1>1. currency \in Currencies /\ NanosMod \in Nat /\ NanosMod > 1
  BY ModAssumption DEF TypeOK
<1>2. 0 * NanosMod = 0
  BY <1>1
<1> QED
  BY <1>1, <1>2 DEF Zero, Money, Proper, Value

LEMMA InitIInv == Init => IInv
<1> SUFFICES ASSUME Init PROVE IInv
  OBVIOUS
<1>1. items = <<>> /\ Len(items) = 0 /\ items \in Seq(Items)
  BY DEF Init
<1>2. due \in Seq([Currencies -> Nat]) /\ Len(due) = 1
  BY DEF Init
<1>3. TypeOK
  BY <1>1, <1>2, AmountAssumption DEF Init, TypeOK
<1>4. DueInv /\ FirstInv
  BY <1>1 DEF DueInv, FirstInv, Init
<1>5. TotalInv /\ ProductInv /\ ResultInv
  BY DEF Init, TotalInv, ProductInv, ResultInv
<1> QED
  BY <1>3, <1>4, <1>5 DEF IInv

-----------------------------------------------------------------------------
(* The shopper's steps *)

LEMMA AddToCartStep ==
    ASSUME IInv, NEW item \in Items, AddToCart(item)
    PROVE  IInv'
<1> USE DEF IInv
<1> DEFINE more == [c \in Currencies |->
              due[Len(due)][c]
                  + item.quantity * Value(Localized(item.cost[c], c))]
<1>1. /\ Len(items) \in Nat /\ Len(due) = Len(items) + 1
      /\ items \in Seq(Items) /\ due \in Seq([Currencies -> Nat])
      /\ next \in 1..Len(items) + 1
      /\ items' = Append(items, item) /\ due' = Append(due, more)
  BY Facts DEF TypeOK, AddToCart
<1>2. more \in [Currencies -> Nat]
  <2> SUFFICES ASSUME NEW c \in Currencies
               PROVE  due[Len(due)][c]
                        + item.quantity * Value(Localized(item.cost[c], c)) \in Nat
    OBVIOUS
  <2>1. due[Len(due)][c] \in Nat
    BY <1>1, Facts
  <2>2. item.cost[c] \in Amounts /\ item.quantity \in Nat
    BY AmountAssumption DEF Items
  <2>3. Value(Localized(item.cost[c], c)) \in Nat
    BY <2>2, LocalizedWhole
  <2>4. item.quantity * Value(Localized(item.cost[c], c)) \in Nat
    BY <2>2, <2>3
  <2> QED
    BY <2>1, <2>4
<1> HIDE DEF more
<1>3. /\ items' \in Seq(Items) /\ Len(items') = Len(items) + 1
      /\ due' \in Seq([Currencies -> Nat]) /\ Len(due') = Len(due) + 1
      /\ items'[Len(items) + 1] = item
      /\ due'[Len(due) + 1] = more
      /\ \A k \in 1..Len(items) : items'[k] = items[k]
      /\ \A k \in 1..Len(due) : due'[k] = due[k]
  BY <1>1, <1>2
<1>4. TypeOK'
  BY <1>1, <1>3 DEF TypeOK, AddToCart
<1>5. DueInv'
  <2> SUFFICES ASSUME NEW k \in 1..Len(items'), NEW c \in Currencies
               PROVE  due'[k + 1][c] = due'[k][c]
                        + items'[k].quantity * Value(Localized(items'[k].cost[c], c))
    BY DEF DueInv
  <2>1. CASE k \in 1..Len(items)
    <3>1. k + 1 \in 1..Len(due) /\ k \in 1..Len(due)
      BY <1>1, <2>1
    <3> QED
      BY <1>3, <2>1, <3>1 DEF DueInv
  <2>2. CASE k = Len(items) + 1
    <3>1. due'[k + 1] = more /\ due'[k] = due[Len(due)] /\ items'[k] = item
      BY <1>1, <1>3, <2>2
    <3> QED
      BY <3>1 DEF more
  <2>3. k \in 1..Len(items) \/ k = Len(items) + 1
    BY <1>1, <1>3
  <2> QED
    BY <2>1, <2>2, <2>3
<1>6. place = "shop" /\ out = NoMoney /\ charged = NoMoney /\ paid = NoMoney
  BY DEF AddToCart, TotalInv, ResultInv
<1>7. TotalInv' /\ ProductInv' /\ ResultInv'
  BY <1>6 DEF AddToCart, TotalInv, ProductInv, ResultInv
<1>8. FirstInv'
  BY <1>1, <1>3 DEF FirstInv
<1> QED
  BY <1>4, <1>5, <1>7, <1>8

LEMMA SetCurrencyStep ==
    ASSUME IInv, NEW c \in Currencies, SetCurrency(c)
    PROVE  IInv'
<1> USE DEF IInv
<1>1. place = "shop" /\ out = NoMoney /\ charged = NoMoney /\ paid = NoMoney
  BY DEF SetCurrency, TotalInv, ResultInv
<1>2. TypeOK'
  BY DEF SetCurrency, TypeOK, results
<1>3. DueInv' /\ FirstInv'
  BY DEF SetCurrency, DueInv, FirstInv
<1>4. TotalInv' /\ ProductInv'
  BY <1>1 DEF SetCurrency, TotalInv, ProductInv, results
<1>5. ResultInv'
  BY <1>1 DEF SetCurrency, ResultInv, results, Quote
<1> QED
  BY <1>2, <1>3, <1>4, <1>5

-----------------------------------------------------------------------------
(* The handlers' steps *)

LEMMA StartSteps ==
    ASSUME IInv, ViewCart \/ PlaceOrder \/ ShowOrder
    PROVE  IInv'
<1> USE DEF IInv
<1> DEFINE ship == Localized(shipping[currency], currency)
<1>1. /\ out = NoMoney /\ next' = 1 /\ UNCHANGED <<order, results, out, left>>
      /\ place \in {"shop", "charged"}
  BY DEF ViewCart, PlaceOrder, ShowOrder, Enter, TotalInv
<1>2. 1 \in 1..Len(items) + 1 /\ due[1][currency] \in Nat
  BY Facts, ShippingFacts
<1>3. DueInv'
  BY <1>1 DEF DueInv, order
<1>4. ProductInv'
  BY <1>1 DEF ProductInv
<1>5. Zero \in Proper /\ Zero.currency = currency /\ Value(Zero) = 0
  BY ZeroFacts
<1>6. /\ ship \in Whole /\ ship.currency = currency
      /\ Value(ship) = Quote(currency) /\ Quote(currency) \in Nat
  BY ShippingFacts, Facts
<1>7. /\ MustSum(Zero, ship) \in Whole
      /\ MustSum(Zero, ship).currency = currency
      /\ Value(MustSum(Zero, ship)) = Quote(currency)
  BY <1>5, <1>6, SumIsWhole
<1> HIDE DEF ship
<1>8. due[1][currency] = 0
  BY ShippingFacts DEF FirstInv, IInv
<1>9. CASE ViewCart
  <2>1. place' = "cart" /\ total' = Zero /\ place = "shop"
    BY <1>9 DEF ViewCart, Enter
  <2>2. TypeOK'
    BY <1>1, <1>2, <1>5, <2>1, WholeValues DEF TypeOK, order, results
  <2>3. TotalInv'
    BY <1>1, <1>5, <1>8, <2>1 DEF TotalInv, order
  <2>4. ResultInv'
    BY <1>1, <2>1 DEF ResultInv, order, results, Quote
  <2> QED
    BY <1>1, <1>3, <1>4, <2>2, <2>3, <2>4 DEF FirstInv, order
<1>10. CASE PlaceOrder
  <2>1. place' = "checkout" /\ total' = MustSum(Zero, ship) /\ place = "shop"
    BY <1>10 DEF PlaceOrder, Enter, ship
  <2>2. TypeOK'
    BY <1>1, <1>2, <1>7, <2>1, WholeValues DEF TypeOK, order, results
  <2>3. TotalInv'
    BY <1>1, <1>6, <1>7, <1>8, <2>1, WholeValues DEF TotalInv, order, Quote
  <2>4. ResultInv'
    BY <1>1, <2>1 DEF ResultInv, order, results, Quote
  <2> QED
    BY <1>1, <1>3, <1>4, <2>2, <2>3, <2>4 DEF FirstInv, order
<1>11. CASE ShowOrder
  <2>1. place' = "order" /\ total' = ship /\ place = "charged"
    BY <1>11 DEF ShowOrder, Enter, ship
  <2>2. TypeOK'
    BY <1>1, <1>2, <1>6, <2>1, WholeValues DEF TypeOK, order, results
  <2>3. TotalInv'
    BY <1>1, <1>6, <1>8, <2>1, WholeValues DEF TotalInv, order, Quote
  <2>4. ResultInv'
    BY <1>1, <2>1 DEF ResultInv, order, results, Quote
  <2> QED
    BY <1>1, <1>3, <1>4, <2>2, <2>3, <2>4 DEF FirstInv, order
<1> QED
  BY <1>9, <1>10, <1>11

LEMMA BeginItemStep ==
    ASSUME IInv, BeginItem
    PROVE  IInv'
<1> USE DEF IInv
<1>1. /\ next <= Len(items) /\ out' = Cost /\ left' = items[next].quantity
      /\ UNCHANGED <<order, place, next, total, results>>
      /\ place \in {"cart", "checkout", "order"}
  BY DEF BeginItem, Computing
<1>2. /\ Cost \in Whole /\ Cost.currency = currency
      /\ Value(Cost) = Price(next) /\ Price(next) \in Nat
      /\ items[next].quantity \in 1..MaxQuantity
      /\ MaxQuantity \in Nat
  BY <1>1, PriceFacts, AmountAssumption
<1>3. TypeOK'
  BY <1>1, <1>2, WholeValues, SMTT(30) DEF TypeOK, order, results
<1>4. (items[next].quantity - items[next].quantity + 1) * Price(next) = Price(next)
  BY <1>2
<1>5. Price(next)' = Price(next)
  BY <1>1 DEF Price, order
<1>6. ProductInv'
  BY <1>1, <1>2, <1>4, <1>5 DEF ProductInv, order
<1>7. DueInv' /\ FirstInv'
  BY <1>1 DEF DueInv, FirstInv, order
<1>8. TotalInv'
  BY <1>1 DEF TotalInv, order, Quote
<1>9. ResultInv'
  BY <1>1 DEF ResultInv, order, results, Quote
<1> QED
  BY <1>3, <1>6, <1>7, <1>8, <1>9

LEMMA MultiplyStep ==
    ASSUME IInv, Multiply
    PROVE  IInv'
<1> USE DEF IInv
<1> DEFINE q == items[next].quantity
<1>1. /\ out # NoMoney /\ left > 1
      /\ out' = MustSum(out, Cost) /\ left' = left - 1
      /\ UNCHANGED <<order, place, next, total, results>>
      /\ place \in {"cart", "checkout", "order"}
  BY DEF Multiply, Computing, MoreToMultiply
<1>2. /\ next <= Len(items) /\ left \in 1..q
      /\ out \in Whole /\ out.currency = currency
      /\ Value(out) = (q - left + 1) * Price(next)
  BY <1>1 DEF ProductInv
<1>3. /\ Cost \in Whole /\ Cost.currency = currency
      /\ Value(Cost) = Price(next) /\ Price(next) \in Nat
      /\ q \in 1..MaxQuantity /\ MaxQuantity \in Nat
  BY <1>2, PriceFacts, AmountAssumption
<1>4. out \in Proper
  BY <1>2, WholeValues
<1>5. /\ out' \in Whole /\ out'.currency = currency
      /\ Value(out') = (q - left + 1) * Price(next) + Price(next)
  BY <1>1, <1>2, <1>3, <1>4, SumIsWhole
<1>6. Value(out') = (q - (left - 1) + 1) * Price(next)
  <2>1. q - left + 1 \in Int /\ Price(next) \in Int /\ q - (left - 1) + 1 = (q - left + 1) + 1
    BY <1>2, <1>3
  <2>2. ((q - left + 1) + 1) * Price(next) = (q - left + 1) * Price(next) + Price(next)
    BY <2>1, Distribute
  <2> QED
    BY <1>5, <2>1, <2>2
<1>7. left - 1 \in 1..q /\ left - 1 \in 0..MaxQuantity
  BY <1>1, <1>2, <1>3
<1>8. TypeOK'
  BY <1>1, <1>5, <1>7, WholeValues DEF TypeOK, order, results
<1>9. Price(next)' = Price(next) /\ q' = q
  BY <1>1 DEF Price, order
<1>10. ProductInv'
  BY <1>1, <1>2, <1>5, <1>6, <1>7, <1>9 DEF ProductInv, order
<1>11. DueInv' /\ FirstInv'
  BY <1>1 DEF DueInv, FirstInv, order
<1>12. TotalInv'
  BY <1>1 DEF TotalInv, order, Quote
<1>13. ResultInv'
  BY <1>1 DEF ResultInv, order, results, Quote
<1> QED
  BY <1>8, <1>10, <1>11, <1>12, <1>13

LEMMA AddItemStep ==
    ASSUME IInv, AddItem
    PROVE  IInv'
<1> USE DEF IInv
<1> DEFINE q == items[next].quantity
<1>1. /\ out # NoMoney /\ ~(left > 1)
      /\ total' = MustSum(total, out) /\ out' = NoMoney /\ left' = 0
      /\ next' = next + 1
      /\ UNCHANGED <<order, place, results>>
      /\ place \in {"cart", "checkout", "order"}
  BY DEF AddItem, Computing, MoreToMultiply
<1>2. /\ next <= Len(items) /\ left \in 1..q
      /\ out \in Whole /\ out.currency = currency
      /\ Value(out) = (q - left + 1) * Price(next)
  BY <1>1 DEF ProductInv
<1>3. /\ q \in 1..MaxQuantity /\ MaxQuantity \in Nat
      /\ next \in Nat \ {0} /\ Len(items) \in Nat
      /\ currency \in Currencies /\ Quote(currency) \in Nat
  BY <1>2, PriceFacts, AmountAssumption, Facts, ShippingFacts
<1>4. Value(out) = q * Price(next)
  <2>1. left = 1 /\ q - left + 1 = q
    BY <1>1, <1>2, <1>3
  <2> QED
    BY <1>2, <2>1
<1>5. due[next + 1][currency] = due[next][currency] + Value(out)
  BY <1>2, <1>3, <1>4 DEF DueInv, Price
<1>6. /\ total' \in Whole /\ total'.currency = currency
      /\ Value(total') = Value(total) + Value(out)
  BY <1>1, <1>2, SumIsWhole DEF TotalInv
<1>7. next + 1 \in 1..Len(items) + 1
  BY <1>2, <1>3
<1>8. TypeOK'
  BY <1>1, <1>3, <1>6, <1>7, WholeValues DEF TypeOK, order, results
<1>9. due[next][currency] \in Nat /\ Value(out) \in Int
  BY <1>2, <1>3, Facts, WholeValues
<1>10. TotalInv'
  <2>1. place = "cart" => Value(total') = due[next + 1][currency]
    BY <1>5, <1>6 DEF TotalInv
  <2>2. place \in {"checkout", "order"} =>
            Value(total') = due[next + 1][currency] + Quote(currency)
    BY <1>3, <1>5, <1>6, <1>9 DEF TotalInv
  <2>3. Quote(currency)' = Quote(currency)
    BY <1>1 DEF Quote, order
  <2> QED
    BY <1>1, <1>6, <2>1, <2>2, <2>3, WholeValues DEF TotalInv, order
<1>11. ProductInv'
  BY <1>1 DEF ProductInv
<1>12. DueInv' /\ FirstInv'
  BY <1>1 DEF DueInv, FirstInv, order
<1>13. ResultInv'
  BY <1>1 DEF ResultInv, order, results, Quote
<1> QED
  BY <1>8, <1>10, <1>11, <1>12, <1>13

LEMMA FinishSteps ==
    ASSUME IInv, ShowCart \/ Charge \/ ShowPaid
    PROVE  IInv'
<1> USE DEF IInv
<1> DEFINE ship == Localized(shipping[currency], currency)
<1>1. /\ out = NoMoney /\ ~(next <= Len(items)) /\ total' = NoMoney
      /\ UNCHANGED <<order, next, out, left>>
      /\ place \in {"cart", "checkout", "order"}
  BY Facts DEF ShowCart, Charge, ShowPaid, AllAdded
<1>2. /\ currency \in Currencies
      /\ ship \in Whole /\ ship.currency = currency
      /\ Value(ship) = Quote(currency)
  BY ShippingFacts
<1>3. next = Len(due)
  BY <1>1 DEF TypeOK
<1>4. DueInv' /\ FirstInv' /\ ProductInv'
  BY <1>1 DEF DueInv, FirstInv, ProductInv, order
<1> HIDE DEF ship
<1>5. CASE ShowCart
  <2>1. /\ place = "cart" /\ place' = "shop" /\ UNCHANGED <<charged, paid>>
        /\ shown' = MustSum(total, ship)
    BY <1>5 DEF ShowCart, ship
  <2>2. /\ total \in Proper /\ total.currency = currency
        /\ Value(total) = due[Len(due)][currency]
    BY <1>3, <2>1 DEF TotalInv
  <2>3. /\ shown' \in Whole /\ shown'.currency = currency
        /\ Value(shown') = due[Len(due)][currency] + Quote(currency)
    BY <1>2, <2>1, <2>2, SumIsWhole
  <2>4. charged = NoMoney /\ paid = NoMoney
    BY <2>1 DEF ResultInv
  <2>5. TypeOK'
    BY <1>1, <2>1, <2>3, WholeValues DEF TypeOK, order
  <2>6. TotalInv'
    BY <1>1, <2>1 DEF TotalInv
  <2>7. ResultInv'
    BY <1>1, <2>1, <2>3, <2>4, WholeValues DEF ResultInv, order, Quote
  <2> QED
    BY <1>4, <2>5, <2>6, <2>7
<1>6. CASE Charge
  <2>1. /\ place = "checkout" /\ place' = "charged" /\ UNCHANGED <<shown, paid>>
        /\ charged' = total
    BY <1>6 DEF Charge
  <2>2. /\ total \in Proper /\ total.currency = currency
        /\ Value(total) = due[Len(due)][currency] + Quote(currency)
    BY <1>3, <2>1 DEF TotalInv
  <2>3. paid = NoMoney
    BY <2>1 DEF ResultInv
  <2>4. TypeOK'
    BY <1>1, <2>1, <2>2, WholeValues DEF TypeOK, order
  <2>5. TotalInv'
    BY <1>1, <2>1 DEF TotalInv
  <2>6. ResultInv'
    BY <1>1, <2>1, <2>2, <2>3, WholeValues DEF ResultInv, order, Quote
  <2> QED
    BY <1>4, <2>4, <2>5, <2>6
<1>7. CASE ShowPaid
  <2>1. /\ place = "order" /\ place' = "done" /\ UNCHANGED <<shown, charged>>
        /\ paid' = total
    BY <1>7 DEF ShowPaid
  <2>2. /\ total \in Proper /\ total.currency = currency
        /\ Value(total) = due[Len(due)][currency] + Quote(currency)
    BY <1>3, <2>1 DEF TotalInv
  <2>3. charged # NoMoney
    BY <2>1 DEF ResultInv
  <2>4. TypeOK'
    BY <1>1, <2>1, <2>2, WholeValues DEF TypeOK, order
  <2>5. TotalInv'
    BY <1>1, <2>1 DEF TotalInv
  <2>6. ResultInv'
    BY <1>1, <2>1, <2>2, <2>3, WholeValues DEF ResultInv, order, Quote
  <2> QED
    BY <1>4, <2>4, <2>5, <2>6
<1> QED
  BY <1>5, <1>6, <1>7

LEMMA NextIInv == IInv /\ [Next]_vars => IInv'
<1> SUFFICES ASSUME IInv, [Next]_vars PROVE IInv'
  OBVIOUS
<1>1. CASE \E item \in Items : AddToCart(item)
  BY <1>1, AddToCartStep
<1>2. CASE \E c \in Currencies : SetCurrency(c)
  BY <1>2, SetCurrencyStep
<1>3. CASE ViewCart \/ PlaceOrder \/ ShowOrder
  BY <1>3, StartSteps
<1>4. CASE BeginItem
  BY <1>4, BeginItemStep
<1>5. CASE Multiply
  BY <1>5, MultiplyStep
<1>6. CASE AddItem
  BY <1>6, AddItemStep
<1>7. CASE ShowCart \/ Charge \/ ShowPaid
  BY <1>7, FinishSteps
<1>8. CASE UNCHANGED vars
  BY <1>8 DEF IInv, TypeOK, DueInv, FirstInv, TotalInv, ProductInv, ResultInv,
              Price, Quote, vars, order, results
<1> QED
  BY <1>1, <1>2, <1>3, <1>4, <1>5, <1>6, <1>7, <1>8 DEF Next

THEOREM Invariance == Spec => []IInv
BY InitIInv, NextIInv, PTL DEF Spec

-----------------------------------------------------------------------------
\* The type invariant of the three totals and of MultiplySlow's loop.
THEOREM TypeCorrect == Spec => []TypeOK
<1>1. IInv => TypeOK
  BY DEF IInv
<1> QED
  BY <1>1, Invariance, PTL

\* PlaceOrder charges exactly the shipping and every piece of every item.
THEOREM ChargeIsExact == Spec => []ChargedExactly
<1>1. IInv => ChargedExactly
  <2> SUFFICES ASSUME IInv, charged # NoMoney
               PROVE  /\ IsValid(charged)
                      /\ Value(charged) = due[Len(due)][currency] + Quote(currency)
    BY DEF ChargedExactly, Quote
  <2>1. charged \in Proper
        /\ Value(charged) = due[Len(due)][currency] + Quote(currency)
    BY DEF IInv, ResultInv
  <2>2. IsValid(charged)
    BY <2>1, ModAssumption DEF Proper, IsValid, SignMatches, ValidNanos
  <2> QED
    BY <2>1, <2>2
<1> QED
  BY <1>1, Invariance, PTL

\* Cart page, charge and order page print one and the same amount.
THEOREM PagesShowTheCharge == Spec => []PagesAgree
<1>1. IInv => PagesAgree
  <2> SUFFICES ASSUME IInv, charged # NoMoney
               PROVE  /\ paid # NoMoney => paid = charged
                      /\ shown # NoMoney /\ shown.currency = charged.currency
                            => shown = charged
    BY DEF PagesAgree
  <2>1. /\ charged \in Proper /\ charged.currency = currency
        /\ Value(charged) = due[Len(due)][currency] + Quote(currency)
    BY DEF IInv, ResultInv
  <2>2. paid # NoMoney => paid = charged
    BY <2>1, Canonical DEF IInv, ResultInv
  <2>3. shown # NoMoney /\ shown.currency = charged.currency => shown = charged
    BY <2>1, Canonical DEF IInv, ResultInv
  <2> QED
    BY <2>2, <2>3
<1> QED
  BY <1>1, Invariance, PTL

\* Cart page, charge and order page come to the one exact amount.
THEOREM TotalsAreExact == Spec => []TotalsExact
BY ChargeIsExact, PagesShowTheCharge, PTL DEF TotalsExact

\* With amounts of at least a unit Must never panics, so no order brings the
\* checkout service down.
THEOREM NeverPanics == Spec => []NothingPanics
<1>1. IInv => NothingPanics
  <2> SUFFICES ASSUME IInv PROVE NothingPanics
    OBVIOUS
  <2>1. out # Panic
    BY WholeValues, AmountAssumption DEF IInv, ProductInv
  <2>2. total # Panic
    BY WholeValues, AmountAssumption DEF IInv, TotalInv, TypeOK
  <2>3. shown # Panic
    BY WholeValues, AmountAssumption DEF IInv, ResultInv
  <2> QED
    BY <2>1, <2>2, <2>3 DEF NothingPanics
<1> QED
  BY <1>1, Invariance, PTL

=============================================================================
