------------------------------ MODULE Services ------------------------------
(***************************************************************************)
(* The Python services of the shop: how recommendation, mail and shopping  *)
(* assistant start, and the pool of worker threads in which the            *)
(* recommendation service serves everything, its health check included.    *)
(* A recommendation waits for the product catalog without a deadline.      *)
(*                                                                         *)
(* Start-up is a sequence of steps that may raise.  Kubernetes starts a    *)
(* container that ended again, and kills the recommendation service when   *)
(* MaxMissed of its probes in a row were not answered in time.             *)
(***************************************************************************)
EXTENDS Naturals, Sequences, FiniteSets

CONSTANTS
    Users,          \* shop pages that may ask for recommendations at once
    Products,
    Workers,        \* max_workers of the pool
    MaxResponses,   \* max_responses of ListRecommendations
    MaxMissed,      \* failureThreshold of the liveness probe
    Withdrawn,      \* products the catalog's file may leave out when it is loaded again
    MaxTroubles     \* bound of the model: raising steps, interrupts, failing calls

ASSUME ServicesAssumption ==
    /\ IsFiniteSet(Products)
    /\ Workers \in Nat \ {0}
    /\ MaxResponses \in Nat
    /\ MaxMissed \in Nat \ {0}
    /\ Withdrawn \subseteq Products
    /\ MaxTroubles \in Nat

VARIABLES
    addressed,  \* PRODUCT_CATALOG_SERVICE_ADDR is set
    at,         \* the step of its start a service is in
    tries,      \* failed attempts of initStackdriverProfiling
    rpc,        \* the ListRecommendations call of each user
    queue,      \* the work the pool has not begun
    missed,     \* probes in a row without an answer in time
    catalog,    \* the products the catalog service lists
    troubles

started == <<addressed, at, tries>>
pool == <<rpc, queue, missed>>
services_vars == <<started, pool, catalog, troubles>>

Probe == "probe"

\* What each service does before it listens.  The assistant reads its environment,
\* asks for the password and connects to its database when it is loaded.
RecommendationSteps == <<"profiler", "tracing", "address", "bind">>
EmailSteps == <<"profiler", "tracing", "bind">>
AssistantSteps == <<"environment", "database", "bind">>

Steps == [recommendation |-> RecommendationSteps, email |-> EmailSteps,
          assistant |-> AssistantSteps]
Names == DOMAIN Steps

\* Steps whose exceptions are caught: the start goes on without them.
Tolerant == {"profiler", "tracing"}
Attempts == 3     \* range(1, 4)

Dead == 0
Serving(s) == at[s] = Len(Steps[s]) + 1
Step(s) == IF at[s] \in DOMAIN Steps[s] THEN Steps[s][at[s]] ELSE "none"

NoCall == [at |-> "none", ids |-> {}, answer |-> {}]
Call == [at : {"none", "queued", "working", "answered", "failed"},
         ids : SUBSET Products, answer : SUBSET Products]

ServicesTypeOK ==
    /\ addressed \in BOOLEAN
    /\ at \in [Names -> 0..6] /\ \A s \in Names : at[s] <= Len(Steps[s]) + 1
    /\ tries \in [Names -> 0..(Attempts - 1)]
    /\ rpc \in [Users -> Call]
    /\ queue \in Seq(Users \cup {Probe})
    /\ missed \in 0..(MaxMissed - 1)
    /\ catalog \subseteq Products
    /\ troubles \in 0..MaxTroubles

\* One of the services is being deployed, the others are up.
ServicesInit ==
    /\ addressed \in BOOLEAN
    /\ \E s \in Names :
          /\ at = [n \in Names |-> IF n = s THEN 1 ELSE Len(Steps[n]) + 1]
          /\ ~addressed => s = "recommendation"
    /\ tries = [s \in Names |-> 0]
    /\ rpc = [u \in Users |-> NoCall]
    /\ queue = <<>>
    /\ missed = 0
    /\ catalog = Products
    /\ troubles = 0

-----------------------------------------------------------------------------
(* The start of a service.                                                 *)

Trouble == troubles < MaxTroubles /\ troubles' = troubles + 1

\* A step succeeds; the last of them opens the port.
Advance(s) ==
    /\ Step(s) # "none"
    /\ Step(s) = "address" => addressed
    /\ at' = [at EXCEPT ![s] = @ + 1]
    /\ tries' = [tries EXCEPT ![s] = 0]
    /\ UNCHANGED <<addressed, pool, catalog, troubles>>

\* Mutant: a call that waits in the queue is forgotten with it.
Abort_Silent(s) ==
    IF s # "recommendation" THEN UNCHANGED pool
    ELSE /\ rpc' = [u \in Users |-> IF rpc[u].at = "working"
                                    THEN [rpc[u] EXCEPT !.at = "failed"] ELSE rpc[u]]
         /\ queue' = <<>>
         /\ missed' = 0

\* The calls of a service that ends are aborted, its queue is gone.
Abort(s) ==
    IF s # "recommendation" THEN UNCHANGED pool
    ELSE /\ rpc' = [u \in Users |-> IF rpc[u].at \in {"queued", "working"}
                                    THEN [rpc[u] EXCEPT !.at = "failed"] ELSE rpc[u]]
         /\ queue' = <<>>
         /\ missed' = 0

\* Mutant: the profiler is tried until it starts.
Fails_Unlimited(s) ==
    IF Step(s) = "profiler"
    THEN tries' = [tries EXCEPT ![s] = (@ + 1) % Attempts] /\ UNCHANGED at
    ELSE /\ at' = [at EXCEPT ![s] = IF Step(s) \in Tolerant THEN @ + 1 ELSE Dead]
         /\ UNCHANGED tries

\* Mutant: one attempt too many.
Fails_OneMore(s) ==
    IF Step(s) = "profiler" /\ tries[s] < Attempts
    THEN tries' = [tries EXCEPT ![s] = @ + 1] /\ UNCHANGED at
    ELSE /\ at' = [at EXCEPT ![s] = IF Step(s) \in Tolerant THEN @ + 1 ELSE Dead]
         /\ tries' = [tries EXCEPT ![s] = 0]

\* A step raises.  The profiler is given three attempts and then done without,
\* tracing is done without at once; anything else ends the process.
Fails(s) ==
    IF Step(s) = "profiler" /\ tries[s] + 1 < Attempts
    THEN tries' = [tries EXCEPT ![s] = @ + 1] /\ UNCHANGED at
    ELSE /\ at' = [at EXCEPT ![s] = IF Step(s) \in Tolerant THEN @ + 1 ELSE Dead]
         /\ tries' = [tries EXCEPT ![s] = 0]

Raise(s) ==
    /\ Step(s) # "none"
    /\ Fails(s)
    /\ IF Step(s) \in Tolerant \/ (Step(s) = "address" /\ ~addressed)
       THEN UNCHANGED troubles ELSE Trouble
    /\ Step(s) = "address" => ~addressed
    /\ UNCHANGED <<addressed, pool, catalog>>

\* An interrupt.  While the profiler is called it is caught like a failure
\* (except BaseException); anywhere else it ends the service.
Interrupt(s) ==
    /\ at[s] # Dead
    /\ Trouble
    /\ \/ Step(s) = "profiler" /\ Fails(s) /\ UNCHANGED pool
       \/ /\ at' = [at EXCEPT ![s] = Dead]
          /\ tries' = [tries EXCEPT ![s] = 0]
          /\ Abort(s)
    /\ UNCHANGED <<addressed, catalog>>

\* Kubernetes starts the container again.
Restart(s) ==
    /\ at[s] = Dead
    /\ at' = [at EXCEPT ![s] = 1]
    /\ UNCHANGED <<addressed, tries, pool, catalog, troubles>>

Start(s) == Advance(s) \/ Raise(s) \/ Restart(s)

-----------------------------------------------------------------------------
(* The recommendation service at work.                                     *)

Working == {u \in Users : rpc[u].at = "working"}

\* A call is queued, or refused when nobody listens.
Recommend(u, ids) ==
    IF Serving("recommendation")
    THEN /\ rpc' = [rpc EXCEPT ![u] = [at |-> "queued", ids |-> ids, answer |-> {}]]
         /\ queue' = Append(queue, u)
    ELSE /\ rpc' = [rpc EXCEPT ![u] = [at |-> "failed", ids |-> ids, answer |-> {}]]
         /\ UNCHANGED queue

\* Mutant: the health check has a thread of its own and is answered at once.
SendProbe_Beside ==
    /\ Serving("recommendation")
    /\ missed' = 0
    /\ UNCHANGED <<started, rpc, queue, catalog, troubles>>

\* Kubernetes probes; a probe that still waits is not sent again.
SendProbe ==
    /\ Serving("recommendation")
    /\ \A i \in DOMAIN queue : queue[i] # Probe
    /\ queue' = Append(queue, Probe)
    /\ UNCHANGED <<started, rpc, missed, catalog, troubles>>

\* A free worker takes the next call: Check answers at once, a recommendation
\* waits for ListProducts.
TakeWork ==
    /\ queue # <<>>
    /\ Cardinality(Working) < Workers
    /\ queue' = Tail(queue)
    /\ IF Head(queue) = Probe
       THEN missed' = 0 /\ UNCHANGED rpc
       ELSE rpc' = [rpc EXCEPT ![Head(queue)].at = "working"] /\ UNCHANGED missed
    /\ UNCHANGED <<started, catalog, troubles>>

\* A sequence that has lost an element.
Without(s, i) == SubSeq(s, 1, i - 1) \o SubSeq(s, i + 1, Len(s))

\* The probe's time is over while it waits for a worker.
MissProbe ==
    /\ \E i \in DOMAIN queue :
          /\ queue[i] = Probe
          /\ IF missed + 1 < MaxMissed
             THEN /\ missed' = missed + 1
                  /\ queue' = Without(queue, i)
                  /\ UNCHANGED <<at, rpc>>
             ELSE /\ at' = [at EXCEPT !["recommendation"] = Dead]
                  /\ Abort("recommendation")
    /\ UNCHANGED <<addressed, tries, catalog, troubles>>

\* Mutant: what is on the page already is not taken out.
Candidates_All(ids) == catalog

\* The products of the catalog that are not on the page.
Candidates(ids) == catalog \ ids

Least(m, n) == IF m < n THEN m ELSE n

\* The catalog answers: a sample without repetition.
ListRecommendations(u) ==
    LET from == Candidates(rpc[u].ids) IN
    /\ rpc[u].at = "working"
    /\ \E sample \in SUBSET from :
          /\ Cardinality(sample) = Least(MaxResponses, Cardinality(from))
          /\ rpc' = [rpc EXCEPT ![u].at = "answered", ![u].answer = sample]
    /\ UNCHANGED <<started, queue, missed, catalog, troubles>>

\* ListProducts raises.
ListProductsFails(u) ==
    /\ rpc[u].at = "working"
    /\ rpc' = [rpc EXCEPT ![u].at = "failed"]
    /\ UNCHANGED <<started, queue, missed, catalog, troubles>>

\* The catalog is replaced (product_catalog.go:77-86, with reloading on).
Reload ==
    /\ catalog' \in {Products, Products \ Withdrawn}
    /\ UNCHANGED <<started, pool, troubles>>

Serve == TakeWork \/ \E u \in Users : ListRecommendations(u) \/ ListProductsFails(u)

ServicesNext ==
    \/ \E s \in Names : Start(s) \/ Interrupt(s)
    \/ SendProbe \/ MissProbe \/ Serve
    \/ Reload

\* Every step of a start ends, containers are restarted, a free worker takes
\* the next call, and Kubernetes goes on probing: every five seconds, each probe
\* with a time limit.  That a call of ListProducts ends is not assumed.
ServicesFairness ==
    /\ \A s \in Names : WF_services_vars(Start(s))
    /\ WF_services_vars(TakeWork)
    /\ WF_services_vars(SendProbe)
    /\ WF_services_vars(MissProbe)
=============================================================================
