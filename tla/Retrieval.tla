----------------------------- MODULE Retrieval -----------------------------
(***************************************************************************)
(* backend/chat-api/retrieval.py: what a question is searched in.  Dense   *)
(* search asks Chroma; sparse search ranks an in-memory BM25 index of the  *)
(* namespace that is rebuilt when it is TTL old.  The chat handler never   *)
(* awaits, so the questions of one process follow each other; ingestion    *)
(* and deletion go on in Chroma between any two of its calls.              *)
(*                                                                         *)
(* A search is described by the documents it could rank (its corpus):      *)
(* scoring and the top-k cut only choose among them.                       *)
(***************************************************************************)
EXTENDS Integers, FiniteSets

CONSTANTS
    Docs,
    Namespaces,
    TTL,            \* _BM25_TTL
    MaxBuild,       \* longest time from Chroma's answer to the stamp of line 59
    MaxQueries,     \* candidates expand_query may return (line 128)
    MaxClock        \* bound of the model: last instant of the clock

ASSUME RetrievalAssumption ==
    /\ TTL \in Nat \ {0}
    /\ MaxBuild \in Nat
    /\ MaxQueries \in Nat \ {0}
    /\ MaxClock \in Nat

VARIABLES
    \* Chroma, and when each document entered and left (history)
    shelf, home, storedAt, removedAt,
    clock,          \* time.monotonic()
    index,          \* _bm25_cache: documents and stamp of each namespace
    payload,        \* what collection.get answered, before it is stored
    gotAt,          \* when it answered (history)
    pc,
    ns, mode,       \* the question's namespace and retrieval_mode
    left,           \* expanded queries still to search
    corpus          \* the documents of the last search of the question

chroma == <<shelf, home, storedAt, removedAt>>
question == <<ns, mode>>
vars == <<shelf, home, storedAt, removedAt, clock, index, payload, gotAt, pc, ns,
          mode, left, corpus>>

Lib == INSTANCE Library

Never == -1
NoIndex == [docs |-> {}, at |-> Never]
Instants == 0..MaxClock
Points == {"idle", "embed", "sparse", "store", "answer"}

In(n) == {d \in Docs : shelf[d] = "stored" /\ home[d] = n}

TypeOK ==
    /\ Lib!TypeOK
    /\ home \in [Docs -> Namespaces]
    /\ storedAt \in [Docs -> Instants \cup {Never}]
    /\ removedAt \in [Docs -> Instants \cup {Never}]
    /\ clock \in Instants
    /\ index \in [Namespaces -> [docs : SUBSET Docs, at : Instants \cup {Never}]]
    /\ payload \in SUBSET Docs
    /\ gotAt \in Instants
    /\ pc \in Points
    /\ ns \in Namespaces
    /\ mode \in {"hybrid", "dense"}
    /\ left \in 0..MaxQueries
    /\ corpus \in SUBSET Docs

Init ==
    /\ Lib!Init
    /\ home \in [Docs -> Namespaces]
    /\ storedAt = [d \in Docs |-> Never]
    /\ removedAt = [d \in Docs |-> Never]
    /\ clock = 0
    /\ index = [n \in Namespaces |-> NoIndex]
    /\ payload = {}
    /\ gotAt = 0
    /\ pc = "idle"
    /\ ns \in Namespaces
    /\ mode = "hybrid"
    /\ left = 0
    /\ corpus = {}

-----------------------------------------------------------------------------
\* The ingest service stores and removes documents, as Library allows.
Store(d) ==
    /\ Lib!Store(d)
    /\ storedAt' = [storedAt EXCEPT ![d] = clock]
    /\ UNCHANGED <<home, removedAt, clock, index, payload, gotAt, pc, question, left,
                   corpus>>

Remove(d) ==
    /\ Lib!Remove(d)
    /\ removedAt' = [removedAt EXCEPT ![d] = clock]
    /\ UNCHANGED <<home, storedAt, clock, index, payload, gotAt, pc, question, left,
                   corpus>>

\* Time passes; a rebuild takes at most MaxBuild.
Tick ==
    /\ clock < MaxClock
    /\ pc = "store" => clock - gotAt < MaxBuild
    /\ clock' = clock + 1
    /\ UNCHANGED <<chroma, index, payload, gotAt, pc, question, left, corpus>>

-----------------------------------------------------------------------------
\* main.py:94: the question becomes one query or several (expand_query never
\* raises: on any failure it is the original question alone).
Ask ==
    /\ pc = "idle"
    /\ ns' \in Namespaces
    /\ mode' \in {"hybrid", "dense"}
    /\ left' \in 1..MaxQueries
    /\ pc' = "embed"
    /\ UNCHANGED <<chroma, clock, index, payload, gotAt, corpus>>

\* Mutant: one search too many.
Continue_OneMore(n) == IF n < 0 THEN "answer" ELSE "embed"

\* After a search: the next expanded query, or the answer.
Continue(n) == IF n = 0 THEN "answer" ELSE "embed"

\* main.py:98: embed the query and let Chroma search the namespace.
DenseSearch ==
    /\ pc = "embed"
    /\ corpus' = In(ns)
    /\ IF mode = "hybrid"
       THEN pc' = "sparse" /\ UNCHANGED left
       ELSE pc' = Continue(left - 1) /\ left' = left - 1
    /\ UNCHANGED <<chroma, clock, index, payload, gotAt, question>>

\* Mutant: an index once built is kept for good.
Usable_Forever(n) == index[n].at # Never

\* Line 49: the index exists and is younger than the TTL.
Usable(n) == index[n].at # Never /\ clock - index[n].at < TTL

\* Lines 48-50, 81-83: rank the cached documents.
SparseCached ==
    /\ pc = "sparse"
    /\ Usable(ns)
    /\ corpus' = index[ns].docs
    /\ left' = left - 1
    /\ pc' = Continue(left')
    /\ UNCHANGED <<chroma, clock, index, payload, gotAt, question>>

\* Lines 52-55: read the whole collection.
Get ==
    /\ pc = "sparse"
    /\ ~Usable(ns)
    /\ payload' = In(ns)
    /\ gotAt' = clock
    /\ pc' = "store"
    /\ UNCHANGED <<chroma, clock, index, question, left, corpus>>

\* Mutant: the rebuilt index goes under a namespace-independent key.
StoreIndex_OneKey ==
    /\ pc = "store"
    /\ index' = [n \in Namespaces |-> [docs |-> payload, at |-> clock]]
    /\ corpus' = payload
    /\ payload' = {}
    /\ gotAt' = 0
    /\ left' = left - 1
    /\ pc' = Continue(left')
    /\ UNCHANGED <<chroma, clock, question>>

\* Lines 56-60: index it; the stamp is read when the index is ready.
StoreIndex ==
    /\ pc = "store"
    /\ index' = [index EXCEPT ![ns] = [docs |-> payload, at |-> clock]]
    /\ corpus' = payload
    /\ payload' = {}
    /\ gotAt' = 0
    /\ left' = left - 1
    /\ pc' = Continue(left')
    /\ UNCHANGED <<chroma, clock, question>>

\* A call to Chroma or to the embedder raises: the question fails with 500.
\* The old index is not fallen back on.
Raise ==
    /\ \/ pc = "embed"
       \/ pc = "sparse" /\ ~Usable(ns)
    /\ pc' = "idle"
    /\ left' = 0
    /\ corpus' = {}
    /\ UNCHANGED <<chroma, clock, index, payload, gotAt, question>>

Answer ==
    /\ pc = "answer"
    /\ pc' = "idle"
    /\ corpus' = {}
    /\ UNCHANGED <<chroma, clock, index, payload, gotAt, question, left>>

\* The process is restarted and starts with no index.
Restart ==
    /\ index' = [n \in Namespaces |-> NoIndex]
    /\ pc' = "idle"
    /\ payload' = {}
    /\ gotAt' = 0
    /\ left' = 0
    /\ corpus' = {}
    /\ UNCHANGED <<chroma, clock, question>>

Next ==
    \/ \E d \in Docs : Store(d) \/ Remove(d)
    \/ Tick
    \/ Ask \/ DenseSearch \/ SparseCached \/ Get \/ StoreIndex
    \/ Raise \/ Answer \/ Restart

Spec == Init /\ [][Next]_vars

-----------------------------------------------------------------------------
\* A step that ends a dense or a sparse search of the current question.
Searched == pc' # "idle" /\ (left' < left \/ (pc = "embed" /\ pc' = "sparse"))

\* No search ranks a document that was removed TTL + MaxBuild ago or earlier:
\* a stale index is used for its TTL, counted from its stamp, and the stamp is
\* at most MaxBuild younger than its content.
RemovedDocLapses ==
    [][Searched => \A d \in corpus' :
            removedAt[d] # Never => clock - removedAt[d] < TTL + MaxBuild]_vars

\* Every search ranks all documents of its namespace, and only documents of
\* its namespace, except those that changed within the last TTL + MaxBuild.
CorpusComplete ==
    [][Searched =>
        /\ corpus' \subseteq {d \in Docs : home[d] = ns}
        /\ \A d \in In(ns) : d \notin corpus' => clock - storedAt[d] < TTL + MaxBuild]_vars
=============================================================================
