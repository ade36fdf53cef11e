-------------------------- MODULE RetrievalProofs --------------------------
(***************************************************************************)
(* How far a search may be behind Chroma, for any documents, namespaces,   *)
(* TTL, build time and number of expanded queries.  The argument follows a *)
(* reading of a collection from Chroma's answer into the index and on to   *)
(* the searches that use it: Reading(docs, n, t) says that docs were the   *)
(* documents of namespace n at some instant not before t.                  *)
(***************************************************************************)
EXTENDS Retrieval, TLAPS

\* Queries are counted down while there is a question.
LeftInv ==
    /\ pc \in {"idle", "answer"} => left = 0
    /\ pc \in {"embed", "sparse", "store"} => left >= 1

\* The time stamps of a document are what its place on the shelf says.
StampInv ==
    \A d \in Docs :
        /\ shelf[d] # "gone" => removedAt[d] = Never
        /\ storedAt[d] <= clock

Reading(docs, n, t) ==
    /\ \A d \in docs : home[d] = n
    /\ \A d \in docs : removedAt[d] # Never => removedAt[d] >= t
    /\ \A d \in In(n) : d \notin docs => storedAt[d] >= t

\* What was read for the index being built, and when.
PayloadInv ==
    pc = "store" =>
        /\ gotAt <= clock
        /\ clock - gotAt <= MaxBuild
        /\ Reading(payload, ns, gotAt)

\* The content of an index is at most MaxBuild older than its stamp.
IndexInv ==
    \A n \in Namespaces : index[n].at # Never =>
        /\ index[n].at <= clock
        /\ Reading(index[n].docs, n, index[n].at - MaxBuild)

Typed == TypeOK /\ LeftInv
Inv == StampInv /\ PayloadInv /\ IndexInv

-----------------------------------------------------------------------------
(* Types.                                                                  *)

LEMMA InitTyped == Init => Typed
  BY RetrievalAssumption
     DEF Init, Typed, TypeOK, LeftInv, Lib!Init, Lib!TypeOK, Lib!States, NoIndex, Instants,
         Never, Points

\* A search counts down and goes on to the next query or to the answer.
LEMMA CountDown ==
    ASSUME TypeOK, left >= 1
    PROVE  /\ left - 1 \in 0..MaxQueries
           /\ Continue(left - 1) \in {"answer", "embed"}
           /\ Continue(left - 1) = "answer" => left - 1 = 0
           /\ Continue(left - 1) = "embed" => left - 1 >= 1
  BY RetrievalAssumption DEF TypeOK, Continue

LEMMA StepTyped == Typed /\ [Next]_vars => Typed'
  <1> SUFFICES ASSUME Typed, [Next]_vars PROVE Typed'
    OBVIOUS
  <1> USE RetrievalAssumption DEF Typed, Points, Instants
  <1>1. ASSUME NEW d \in Docs, Store(d) \/ Remove(d) PROVE Typed'
    <2>1. CASE Store(d)
      BY <2>1 DEF Store, Lib!Store, TypeOK, Lib!TypeOK, Lib!States, LeftInv, question
    <2>2. CASE Remove(d)
      BY <2>2 DEF Remove, Lib!Remove, TypeOK, Lib!TypeOK, Lib!States, LeftInv, question
    <2> QED BY <1>1, <2>1, <2>2
  <1>2. ASSUME Tick PROVE Typed'
    BY <1>2 DEF Tick, TypeOK, Lib!TypeOK, LeftInv, chroma, question
  <1>3. ASSUME Ask PROVE Typed'
    BY <1>3 DEF Ask, TypeOK, Lib!TypeOK, LeftInv, chroma
  <1>4. ASSUME DenseSearch PROVE Typed'
    <2>1. left >= 1 /\ In(ns) \subseteq Docs
      BY <1>4 DEF DenseSearch, LeftInv, In
    <2> QED BY <1>4, <2>1, CountDown
          DEF DenseSearch, TypeOK, Lib!TypeOK, LeftInv, chroma, question
  <1>5. ASSUME SparseCached PROVE Typed'
    <2>1. left >= 1
      BY <1>5 DEF SparseCached, LeftInv
    <2> QED BY <1>5, <2>1, CountDown
          DEF SparseCached, TypeOK, Lib!TypeOK, LeftInv, chroma, question
  <1>6. ASSUME Get PROVE Typed'
    <2>1. In(ns) \subseteq Docs
      BY DEF In
    <2> QED BY <1>6, <2>1 DEF Get, TypeOK, Lib!TypeOK, LeftInv, chroma, question
  <1>7. ASSUME StoreIndex PROVE Typed'
    <2>1. left >= 1
      BY <1>7 DEF StoreIndex, LeftInv
    <2>2. [docs |-> payload, at |-> clock] \in [docs : SUBSET Docs, at : Instants \cup {Never}]
      BY DEF TypeOK
    <2>3. index' \in [Namespaces -> [docs : SUBSET Docs, at : Instants \cup {Never}]]
      BY <1>7, <2>2 DEF StoreIndex, TypeOK
    <2> QED BY <1>7, <2>1, <2>3, CountDown
          DEF StoreIndex, TypeOK, Lib!TypeOK, LeftInv, chroma, question
  <1>8. ASSUME Raise PROVE Typed'
    BY <1>8 DEF Raise, TypeOK, Lib!TypeOK, LeftInv, chroma, question
  <1>9. ASSUME Answer PROVE Typed'
    BY <1>9 DEF Answer, TypeOK, Lib!TypeOK, LeftInv, chroma, question
  <1>10. ASSUME Restart PROVE Typed'
    BY <1>10 DEF Restart, NoIndex, Never, TypeOK, Lib!TypeOK, LeftInv, chroma, question
  <1>11. CASE UNCHANGED vars
    BY <1>11 DEF vars, TypeOK, Lib!TypeOK, LeftInv
  <1> QED BY <1>1, <1>2, <1>3, <1>4, <1>5, <1>6, <1>7, <1>8, <1>9, <1>10, <1>11 DEF Next

\* The types of Chroma, index and question.
THEOREM TypeCorrect == Spec => []TypeOK
  <1>1. Typed => TypeOK
    BY DEF Typed
  <1> QED BY <1>1, InitTyped, StepTyped, PTL DEF Spec

-----------------------------------------------------------------------------
(* Readings.                                                               *)

\* What Chroma answers is a reading of this instant.
LEMMA ReadNow ==
    ASSUME TypeOK, StampInv, NEW n \in Namespaces
    PROVE  Reading(In(n), n, clock)
  BY DEF StampInv, Reading, In

\* A reading is one for any earlier bound too.
LEMMA ReadBefore ==
    ASSUME TypeOK, NEW docs \in SUBSET Docs, NEW n \in Namespaces, NEW t \in Int,
           NEW u \in Int, u <= t, Reading(docs, n, t)
    PROVE  Reading(docs, n, u)
  BY DEF TypeOK, Reading, In, Instants, Never

\* A reading of the past stays one while Chroma changes.
LEMMA ReadingStays ==
    ASSUME TypeOK, NEW docs \in SUBSET Docs, NEW n \in Namespaces, NEW t \in Int,
           t <= clock, Reading(docs, n, t),
           NEW d \in Docs, Store(d) \/ Remove(d)
    PROVE  Reading(docs, n, t)'
  <1>1. CASE Store(d)
    BY <1>1 DEF Store, Lib!Store, TypeOK, Lib!TypeOK, Reading, In, Instants, Never
  <1>2. CASE Remove(d)
    BY <1>2 DEF Remove, Lib!Remove, TypeOK, Lib!TypeOK, Reading, In, Instants, Never
  <1> QED BY <1>1, <1>2

LEMMA InitInv == Init => Inv
  BY RetrievalAssumption
     DEF Init, Inv, StampInv, PayloadInv, IndexInv, Lib!Init, NoIndex, Never

LEMMA StepInv == Typed /\ Inv /\ [Next]_vars => Inv'
  <1> SUFFICES ASSUME Typed, Inv, [Next]_vars PROVE Inv'
    OBVIOUS
  <1> USE RetrievalAssumption DEF Typed
  <1>t. /\ clock \in Int /\ gotAt \in Int /\ ns \in Namespaces /\ payload \in SUBSET Docs
        /\ \A n \in Namespaces : index[n].docs \in SUBSET Docs /\ index[n].at \in Int
    BY DEF TypeOK, Instants, Never
  <1>1. ASSUME NEW d \in Docs, Store(d) \/ Remove(d) PROVE Inv'
    <2>1. StampInv'
      BY <1>1 DEF Store, Remove, Lib!Store, Lib!Remove, Inv, StampInv, TypeOK, Lib!TypeOK,
                  Instants, Never
    <2>2. UNCHANGED <<clock, index, payload, gotAt, pc, ns>>
      BY <1>1 DEF Store, Remove, question
    <2>3. PayloadInv'
      <3>1. pc = "store" => Reading(payload, ns, gotAt)'
        BY <1>1, <1>t, ReadingStays, <2>2 DEF Inv, PayloadInv
      <3> QED BY <2>2, <3>1 DEF Inv, PayloadInv
    <2>4. IndexInv'
      <3>1. ASSUME NEW n \in Namespaces, index[n].at # Never
            PROVE  Reading(index[n].docs, n, index[n].at - MaxBuild)'
        <4>1. index[n].at - MaxBuild \in Int /\ index[n].at - MaxBuild <= clock
          BY <1>t, <3>1 DEF Inv, IndexInv
        <4>2. Reading(index[n].docs, n, index[n].at - MaxBuild)
          BY <3>1 DEF Inv, IndexInv
        <4> QED BY <1>1, <1>t, <2>2, <4>1, <4>2, ReadingStays
      <3> QED BY <2>2, <3>1 DEF Inv, IndexInv
    <2> QED BY <2>1, <2>3, <2>4 DEF Inv
  <1>2. ASSUME Tick PROVE Inv'
    BY <1>2, <1>t DEF Tick, chroma, question, Inv, StampInv, PayloadInv, IndexInv, TypeOK,
                      Instants, Never, Reading, In
  <1>3. ASSUME UNCHANGED <<chroma, clock, index>>, pc' # "store" PROVE Inv'
    BY <1>3 DEF chroma, Inv, StampInv, PayloadInv, IndexInv, Reading, In
  <1>4. ASSUME Get PROVE Inv'
    <2>1. Reading(In(ns), ns, clock)
      BY <1>t, ReadNow DEF Inv
    <2> QED BY <1>4, <1>t, <2>1
          DEF Get, chroma, question, Inv, StampInv, PayloadInv, IndexInv, Reading, In
  <1>5. ASSUME StoreIndex PROVE Inv'
    <2>1. Reading(payload, ns, clock - MaxBuild)
      <3>1. clock - MaxBuild <= gotAt /\ Reading(payload, ns, gotAt)
        BY <1>5, <1>t DEF StoreIndex, Inv, PayloadInv
      <3> QED BY <1>t, <3>1, ReadBefore
    <2>2. UNCHANGED <<chroma, clock, ns>> /\ pc' # "store"
      BY <1>5 DEF StoreIndex, question, Continue
    <2>3. ASSUME NEW n \in Namespaces
          PROVE  index'[n] = IF n = ns THEN [docs |-> payload, at |-> clock] ELSE index[n]
      BY <1>5 DEF StoreIndex, TypeOK
    <2>4. IndexInv'
      BY <1>t, <2>1, <2>2, <2>3 DEF chroma, Inv, IndexInv, Reading, In
    <2> QED BY <2>2, <2>4 DEF chroma, Inv, StampInv, PayloadInv
  <1>6. ASSUME Restart PROVE Inv'
    BY <1>6 DEF Restart, NoIndex, chroma, Inv, StampInv, PayloadInv, IndexInv
  <1>7. ASSUME Ask \/ DenseSearch \/ SparseCached \/ Raise \/ Answer PROVE Inv'
    <2>1. UNCHANGED <<chroma, clock, index>> /\ pc' # "store"
      BY <1>7 DEF Ask, DenseSearch, SparseCached, Raise, Answer, Continue
    <2> QED BY <1>3, <2>1
  <1>8. CASE UNCHANGED vars
    BY <1>8 DEF vars, Inv, StampInv, PayloadInv, IndexInv, Reading, In
  <1> QED BY <1>1, <1>2, <1>4, <1>5, <1>6, <1>7, <1>8 DEF Next

-----------------------------------------------------------------------------
(* Searches.                                                               *)

\* What a search ranks was read at most TTL + MaxBuild ago.
LEMMA SearchReads ==
    ASSUME Typed, Inv, [Next]_vars, Searched
    PROVE  \E t \in Int : clock - t < TTL + MaxBuild /\ Reading(corpus', ns, t)
  <1> USE RetrievalAssumption DEF Typed
  <1>t. /\ clock \in Int /\ gotAt \in Int /\ ns \in Namespaces /\ left \in Int
        /\ index[ns].at \in Int
    BY DEF TypeOK, Instants, Never
  <1>1. CASE DenseSearch
    <2>1. Reading(In(ns), ns, clock) /\ corpus' = In(ns)
      BY <1>1, <1>t, ReadNow DEF Inv, DenseSearch
    <2> QED BY <1>t, <2>1
  <1>2. CASE SparseCached
    <2>1. /\ Reading(index[ns].docs, ns, index[ns].at - MaxBuild)
          /\ corpus' = index[ns].docs
          /\ clock - index[ns].at < TTL
      BY <1>2, <1>t DEF SparseCached, Usable, Inv, IndexInv
    <2>2. index[ns].at - MaxBuild \in Int /\ clock - (index[ns].at - MaxBuild) < TTL + MaxBuild
      BY <1>t, <2>1
    <2> QED BY <2>1, <2>2
  <1>3. CASE StoreIndex
    <2>1. Reading(payload, ns, gotAt) /\ corpus' = payload /\ clock - gotAt <= MaxBuild
      BY <1>3 DEF StoreIndex, Inv, PayloadInv
    <2>2. clock - gotAt < TTL + MaxBuild
      BY <1>t, <2>1
    <2> QED BY <1>t, <2>1, <2>2
  <1>4. ASSUME \/ \E d \in Docs : Store(d) \/ Remove(d)
               \/ Tick \/ Ask \/ Get \/ Raise \/ Answer \/ Restart \/ UNCHANGED vars
        PROVE  FALSE
    <2>1. CASE UNCHANGED <<left, pc>>
      BY <1>t, <2>1 DEF Searched
    <2>2. CASE Ask
      BY <1>t, <2>2 DEF Ask, Searched, LeftInv
    <2>3. CASE Get
      BY <1>t, <2>3 DEF Get, Searched
    <2>4. CASE Raise \/ Answer \/ Restart
      BY <2>4 DEF Raise, Answer, Restart, Searched
    <2> QED BY <1>4, <2>1, <2>2, <2>3, <2>4 DEF Store, Remove, Tick, vars
  <1> QED BY <1>1, <1>2, <1>3, <1>4 DEF Next

\* No search ranks a document removed TTL + MaxBuild ago (retrieval.py 48-60).
THEOREM RemovedDocsLapse == Spec => RemovedDocLapses
  <1>1. Typed /\ Inv /\ [Next]_vars =>
            [Searched => \A d \in corpus' :
                removedAt[d] # Never => clock - removedAt[d] < TTL + MaxBuild]_vars
    <2> SUFFICES ASSUME Typed, Inv, [Next]_vars, Searched, Typed', NEW d \in corpus',
                        removedAt[d] # Never
                 PROVE  clock - removedAt[d] < TTL + MaxBuild
      BY StepTyped
    <2>1. PICK t \in Int : clock - t < TTL + MaxBuild /\ Reading(corpus', ns, t)
      BY SearchReads
    <2>2. removedAt[d] >= t
      BY <2>1 DEF Reading
    <2>3. clock \in Int /\ removedAt[d] \in Int
      BY DEF Typed, TypeOK, Instants, Never
    <2> QED BY <2>1, <2>2, <2>3, RetrievalAssumption
  <1> QED BY <1>1, InitTyped, StepTyped, InitInv, StepInv, PTL DEF Spec, RemovedDocLapses

\* Every search ranks the documents of its namespace and of no other, except
\* those stored within the last TTL + MaxBuild (retrieval.py 48-60, main.py 98).
THEOREM CorpusIsComplete == Spec => CorpusComplete
  <1>1. Typed /\ Inv /\ [Next]_vars =>
            [Searched =>
               /\ corpus' \subseteq {d \in Docs : home[d] = ns}
               /\ \A d \in In(ns) : d \notin corpus' => clock - storedAt[d] < TTL + MaxBuild]_vars
    <2> SUFFICES ASSUME Typed, Inv, [Next]_vars, Searched, Typed'
                 PROVE  /\ corpus' \subseteq {d \in Docs : home[d] = ns}
                        /\ \A d \in In(ns) : d \notin corpus'
                              => clock - storedAt[d] < TTL + MaxBuild
      BY StepTyped
    <2>1. PICK t \in Int : clock - t < TTL + MaxBuild /\ Reading(corpus', ns, t)
      BY SearchReads
    <2>2. corpus' \subseteq Docs
      BY DEF Typed, TypeOK
    <2>3. ASSUME NEW d \in In(ns), d \notin corpus' PROVE clock - storedAt[d] < TTL + MaxBuild
      <3>1. storedAt[d] >= t /\ clock \in Int /\ storedAt[d] \in Int
        BY <2>1, <2>3 DEF Reading, Typed, TypeOK, Instants, Never, In
      <3> QED BY <2>1, <3>1, RetrievalAssumption
    <2> QED BY <2>1, <2>2, <2>3 DEF Reading
  <1> QED BY <1>1, InitTyped, StepTyped, InitInv, StepInv, PTL DEF Spec, CorpusComplete
=============================================================================
