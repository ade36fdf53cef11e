# Verification of cityXai

TLA+ models of the programs in this repository, TLC runs that check them on
small instances, and TLAPS proofs that carry the most important results to
every instance. `PROJECT.json` lists, for every definition that stands for
code, the lines it stands for; the comments in the modules quote the code where
its wording matters.

1. [The system](#1-the-system)
2. [The models](#2-the-models)
3. [The runs](#3-the-runs)
4. [The proofs](#4-the-proofs)
5. [Disagreements found](#5-disagreements-found)
6. [What is only model-checked, and what is not modelled](#6-what-is-only-model-checked-and-what-is-not-modelled)
7. [Plan](#7-plan)

## 1. The system

The repository holds two systems side by side: cityXai proper (`backend/`,
`frontend/`), a question-answering service over a city's documents, and the
Online Boutique it was forked from (`src/`), a shop of small services.

### cityXai

| Part | State it keeps | Operations | Talks to |
|---|---|---|---|
| token check, `backend/shared/auth.py` | `_jwks_cache`, `_jwks_fetched_at`, module globals without a lock | `require_roles` → `decode_token` → `_find_key` → `get_jwks` | Keycloak's certs endpoint; runs in every service, in FastAPI's thread pool |
| ingestion, `backend/ingest-api/main.py` | `jobs` (memory), two Chroma collections per municipality | upload, status, list, delete; `process_document` | converters, chunker, Ollama (embeddings), Chroma |
| watcher, `backend/ingest-api/watcher.py` | the three directories `data/incoming`, `processed`, `failed`; watchdog's event queue | `on_created` | `process_document`, in the observer's own thread |
| chunker, `backend/ingest-api/chunker.py` | none between calls; a loop over sentences | `split` | - |
| converters, `metadata.py`, `router.py` | none | route by extension, text extraction, front matter | third-party libraries |
| retrieval, `backend/chat-api/retrieval.py` | `_bm25_cache`: an index and its stamp per namespace | `expand_query`, `dense_search`, `sparse_search`, fusion, reranking (`reranker.py`) | Chroma, Ollama |
| chat, `backend/chat-api/main.py` | `_history_store` (at most 500 sessions), the audit log file | `chat_query`, history | retrieval, Ollama, `audit.py` |
| administration, `backend/admin-api` | none of its own; audit file | create, list, delete user; audit; metrics | Keycloak's admin API |
| portal, `frontend/admin-portal` | React state of each page: messages, polling intervals, session cookie | chat, documents, users, audit, dashboard, login | the APIs above |
| citizen widget, `frontend/citizen-widget/widget.js` | conversation history, citizen token | ask, fetch token | chat-api |
| `backend/ollama-lite` | none | stand-in for Ollama | - |

What is hard about it: `auth.py` is shared by threads without a lock; ingestion
runs on the event loop and on the watcher's thread at the same time; Chroma
has no transactions, and a call to it can take effect and still fail for the
caller; chat-api sees Chroma through an index that is up to a minute old;
both chat clients send requests without waiting for the page; the handlers of admin-api
interleave at every call to Keycloak, which has no transactions either; any process can be
restarted, and `jobs`, `_history_store` and the index are lost with it.

What makes each part correct:

* token check: a published key opens the services, a withdrawn one stops doing so;
  an unreachable Keycloak does not lock everyone out.
* ingestion: what a client is told about a document (ready, deleted) is true of the
  collections; a file is put away only after it was processed, and is put away.
* converters and chunker: every piece of text of a file arrives in the chunks of its section,
  except for what a format is known to leave out; no text is mixed across headings; chunks have
  the configured size; the loop ends.
* retrieval: answers draw on the documents of the namespace, with bounded staleness.
* chat: every answer is in the audit log; recent sessions are kept; every question
  comes to an end; an answer without the confidence flag has support in a document; the log can
  be read page by page while it grows.
* administration: the log tells the same story as Keycloak, nobody gets a role that was not asked
  for, and a listing fails only for a reason.

### The shop

| Part | State it keeps | Operations |
|---|---|---|
| cart service (`src/cartservice`) | one cart per user in Redis, AlloyDB or Spanner | AddItem, GetCart, EmptyCart |
| checkout (`src/checkoutservice/main.go`) | none; a saga over six services | PlaceOrder |
| money (`src/checkoutservice/money`, the same file in `src/frontend/money`) | none | Sum, MultiplySlow, Must |
| frontend (`src/frontend/handlers.go`) | cookies | pages, addToCart, emptyCart, placeOrder, setCurrency |
| product catalog | the products, reloaded while it serves | List, Get, Search |
| recommendations, mail, assistant (Python) | how far the start has come; a pool of worker threads and its queue | start, Check, ListRecommendations, chat |
| load generator (`loadgenerator/locustfile.py`) | one session per user | the tasks of a shopper |
| currency, payment, shipping, ads | none | one answer per request |

What is hard about it: a cart store's AddItem reads and writes in separate calls;
PlaceOrder charges, ships, empties the cart and mails without a transaction and
ignores or reports failures in the middle; three handlers compute the same total
with an arithmetic of units and nanos that panics on an invalid operand; the
catalog is reloaded in place between the calls of a page; the recommendation service answers
health checks from the pool that waits for the catalog without a deadline; services start in
steps that fail, some of which they must survive.

What makes it correct: nothing is shipped unpaid, confirmed unshipped, lost
or shipped twice; the charge is exact and is the amount shown; a page fails only if something it
needs failed, and what is optional costs no page; every request ends and every service comes up.

## 2. The models

| Module | Models | Kind |
|---|---|---|
| `JwksCache` | `auth.py`: the key cache under threads, Keycloak's rotation | component |
| `Library` | what a document store promises | abstract specification |
| `Ingest` | `ingest-api`: main, embedder, watcher, the two collections | component, implements `Library` |
| `Retrieval` | `chat-api/retrieval.py` against a changing Chroma | component, built on `Library` |
| `Ranking` | fusion, reranker, flag, prompt, the substitute's evidence | operators |
| `ChatSession` | `chat-api/main.py`, `audit.py`, the log pages of admin-api, with `widget.js` and the portal's chat page | server and clients composed, over `Ranking` |
| `Chunker` | `chunker.py`, sentence by sentence | algorithm as a state machine |
| `Pipeline` | router, converters, front matter and sections | operators, feeding `Chunker` |
| `Access` | the claim checks of `auth.py`, the roles and permissions of `admin-api` | operators |
| `AdminUsers` | `admin-api/main.py` against Keycloak | component, over `Access` |
| `AtomicCart` | what a cart service promises | abstract specification |
| `CartStore` | the three cart stores under several tabs | component, implements `AtomicCart` |
| `Checkout` | `PlaceOrder` over `CartStore` | extends `CartStore` |
| `Money` | `money.go` | operators |
| `OrderTotal` | the three handlers that add up an order | algorithm as a state machine over `Money` |
| `Services` | start-up of the Python services, the worker pool of recommendations, the catalog | component |
| `Storefront` | the frontend's pages and the load generator's users | extends `Services` |
| `MC...` | instances for TLC: symmetry sets, sets of inputs | - |
| `...Proofs` | theorems about the module of the same name; `PipelineProofs` about `Chunker` and `Pipeline`, `ShopProofs` about `OrderTotal`, `Storefront` and `Services`, `CheckoutProofs` also about `CartStore` | - |

Definitions keep the names of the code where they can (`GetUserCart`,
`StoreIndex` for the store into `_bm25_cache`, ...). A definition whose comment
begins with *Mutant* is a plausible mistake in the definition after it; replacing
the one by the other must violate the property named in `PROJECT.json`.

### JwksCache

Every thread runs `decode_token` for one token after another. `pc` is the point
between two accesses to a shared variable: `ReadClock` (line 48), `CheckFresh`
(49), `FetchAnswered`/`FetchFailed` (51-58), `StoreKeys` (59), `StoreStamp` (60),
the lookup of `_find_key`, `ForceRefresh` (100-104) and the answer. Keycloak
publishes (`Rotate`) and withdraws (`Retire`) keys at any time. Time is an
integer that does not advance past `MaxFetch` for a thread inside
`get_jwks`, which is the HTTP timeout of line 56. The claims are
checked after the key was found, in `Access`; the HS256 branch keeps no state.

### Library and Ingest

`run` says what the event loop and the watcher's thread are doing: `Begin`,
`Convert`, `Upsert`, `Return` are `process_document`, run by either; a deletion
goes through `DeleteInternal` and `DeletePublic`. A call to Chroma is refused,
succeeds, or succeeds with its answer lost. `place`, `copied` and `arrivals`
are the directories and watchdog's queue: copying a file is `CopyStart` ...
`CopyEnd`, and the created event belongs to the start. `MoveFile` puts a file away in `processed`,
`GiveUp` in `failed`; what `GiveUp` does runs in the `except` block, and when it raises, before or
after the move, the observer's thread is at an end (`dead`). `Restart` drops `jobs`,
the queue and everything in work and keeps Chroma and the directories.

The refinement mapping (`Shelf`) calls a document *stored* while it is
in one of the collections, *gone* when it was in one and no longer is. `Library`
says that a document is stored at most once and never returns.

### Retrieval

A question is `Ask`, then for each expanded query a dense search, and in hybrid mode a
sparse search that uses the cached index (`SparseCached`) or rebuilds it (`Get`,
`StoreIndex`): between the two, time passes and Chroma changes. The model keeps
of a search the set of documents it could rank; scores choose among them.
`Store` and `Remove` are `Library`'s actions, with time stamps.

### Ranking, ChatSession

`Ranking` follows a question through `reciprocal_rank_fusion`, `TermOverlapReranker`, the mean
score that decides the flag, the hits that become the context and the prompt that
`ollama-lite` takes its answer from. `ContextSizes` are the values `ANSWER_CONTEXT_TOP_N` may have:
`docker-compose.yml:84` and `.env.example:22` set 3, `main.py:103` falls back on 1. A chunk is the words of its lines and of its title; scores
are integers in millionths, floored where Python divides. Stopwords and language are represented
by two of each.

Clients are asynchronous. The widget may have several questions under way (the
Enter key ignores the disabled button) and fetches a token first; the portal page
waits. `Accept` is FastAPI's validation; `Search` (everything up to the flag, by
`Ranking!Outcome`), `LogQueryEvent`, `HistorySet`, `Return` are the handler, which never awaits,
so one request is served at a time. `Raise` is any exception, `Drop` a lost request,
`Restart` a restart. A message is its role, its question and whether it is a
map of strings, all that validation looks at. `HistoryGet` is what a user may fetch again;
`Matching`, `Page` and `Export` are how admin-api reads the log this handler writes.
`SearchAssumption` bounds what the searches return, and only this: `expand_query` makes at most
three queries, each of which names a chunk once, and no chunk is blank (`chunker.py:39`).

### Chunker, Pipeline

Words are numbered through the document; every text the code holds is a run of
consecutive words, a pair of numbers. In `Chunker` the sentences and headings are
the input: the sequence of the sentence lengths of each section. `Pipeline` makes that input from
a file: units (pages, sheets, slides) of pieces of text, each with a role its format gives it
(text, heading, table, merged cell, notes, navigation, picture, scan), through the converter of
its extension, `inject_metadata`, and the split into sections. A line is a piece and is one
sentence. `Begins` and `End` say from which line to which a section goes; the code's loop with its
buffer (lines 24-33) makes the same sections. `RolesOf` are the roles the pieces of a format
have, and `FilesAssumption` says that files are made of them. `LeftOut` names, format by format, what the converters do not carry over.

### Access, AdminUsers

`Decoded` and `RequireRoles` are the checks of `auth.py` in their order, `Endpoint` the
decorators of admin-api and the permission each handler asks for, `Admitted` both gates together.
An operator has one request at a time; `Arrive` runs the gates, and every later step is one call
to Keycloak (`AdminToken`, `PostUser`, `SearchUser`, `GetRole`, `MapRole`, `DeleteUser`,
`ListUsers`, `ListRoles`) or the line in the log (`LogAdminEvent`). `Break` is a call that raises,
before or after it took effect. Keycloak is external: a user name is unique, a search finds every
account whose name contains the text.

### AtomicCart, CartStore, Checkout

A request is where its tab is: frontend and services keep only locals. `store`
selects the configured store. Redis writes back the whole cart it read
(`WriteCart`), AlloyDB the row of one product (`WriteRow`), Spanner runs a transaction
(`Transact`). `Checkout` adds `PlaceOrder` call by call (`GetUserCart`, `Prepare`,
`ChargeCard`, `ShipOrder`, `EmptyUserCart`, `SendOrderConfirmation`); a call
is carried out, carried out with its answer lost, or refused (`Abort`), and
`PlaceOrder` reacts as the code does: a failing shipment ends the order
after the charge, a failing `emptyUserCart` is ignored, a failing mail is logged. A
payment and a parcel are recorded as the items they were made for.

### Money, OrderTotal

`Money` has `Sum` with its three branches. `NanosMod` is a constant: 10 for
TLC, any number greater than 1 in the proofs, among them 10^9, whose sums fit the 32 bits of
`nanos`. `OrderTotal` steps through the loops of
`viewCartHandler`, `PlaceOrder` and `placeOrderHandler` and through
`MultiplySlow`; an item is a row of the cart, its price in every currency is whatever
the currency service answers, provided it is at least one unit. That proviso is the code's
data: the cheapest product is 5.49 USD, shipping is 8.99 USD (`quote.go:34`), and no
rate in `currency_conversion.json` takes these below one unit. `due` accumulates
the exact integer cost and is compared with, never used by, the handlers.

### Services, Storefront

`at` is the step a service is in while it starts: `Advance`, or `Raise` with the three attempts
`initStackdriverProfiling` allows itself; `Interrupt` is a signal, which the bare `except` around
the profiler swallows. `queue` and `rpc` are the pool: `SendProbe`, `TakeWork`, `MissProbe` and the
answers of `ListProducts`. Kubernetes kills the container after `MaxMissed` probes and `Restart`s
it. `Reload` replaces the catalog between any two steps.

`Storefront` walks its users through the tasks of the load generator. A page first makes the
calls it cannot do without (`Fault`, `NotFound` end it), then asks for recommendations (`Await`)
and, when they are there or have failed, is finished (`ClosePage`), which for the cart page reads
the products of the cart again. The cart is a set here, because each user has its own and waits
for each response; several tabs on one cart are `CartStore`'s subject.

## 3. The runs

| Run | Instance | Shows |
|---|---|---|
| `jwks_threads` | 2 threads, 2 keys, TTL 2, fetch ≤ 1, clock ≤ 6 | `RetiredKeyLapses`: unless fetches fail, a withdrawn key is refused after TTL + 2 fetches, whatever overwrites what. |
| `jwks_race` | the same, clock ≤ 5 | *violated* `PublishedKeyKnown`, see section 5 |
| `ingest` | 1 upload, 1 watched document, 2 files, faults, 1 restart, fair | `DeletedStaysGone`, `ReadyIsStored`, `ProcessedWasProcessed`; `ImplementsLibrary`; `FilesSettle`: only a restart, or an exception in the very move to `failed`, leaves a file in incoming. |
| `ingest_appears` | 1 watched file, no faults, fair | *violated* `CopiedFileAppears`, see section 5 |
| `retrieval` | 2 documents, 2 namespaces, TTL 2, build ≤ 1, 2 expanded queries, clock ≤ 4 | `RemovedDocLapses`, `CorpusComplete`: a search is at most TTL + build time behind Chroma, in both directions, and never crosses namespaces. |
| `chat` | 1 widget and 1 portal page with 2 questions each, history ≤ 2, 2 sessions, 1 restart, searches over 4 chunks, contexts of 1 and 3 hits, log pages of 1 and 2 lines, fair | `AnswersAudited`, `RecentSessionsKept`, `FullPagesStay` (pages and exports of the growing log), `FlagHonest` (what the first hit of an unflagged answer is), `QuestionsSettle`. |
| `chat_follow_up` | 1 portal page, 2 questions | *violated* `FollowUpAccepted`, see section 5 |
| `chunker` | chunk 4, overlap 2: all sections of ≤ 3 sentences of ≤ 6 words, all pairs of sections of short, full and over-long sentences, and files of every format with ≤ 2 pieces | `ChunksTile`: no word lost, in order, sections apart; `SizeBounded`; `TextArrives`: from file to chunk; `Terminates`. |
| `shop` | 3 stores, up to 2 tabs, 2 products, 4 requests | `OrderOfSteps` (what is shipped was paid, what is confirmed was shipped) for any tabs; `NothingVanishes`, `NothingShippedTwice` and `AtomicWhenSequential` for a user with one tab (the last also for Spanner). |
| `order_total` | units of 10 nanos, 3 amounts, 2 currencies, 2 products of ≤ 3 pieces | `TotalsExact`: the charge is exact and both pages show it; `NothingPanics`. |
| `admin` | 2 operators, names *anneve* and *eve*, a role Keycloak does not know, 6 tokens, 3 requests, faults | `LogTruthful`, `ListingAbortsOnlyIf`, `RolesAskedFor`. |
| `storefront` | 1 user, 2 products, 1 worker, 2 missed probes kill, 1 product can be withdrawn, 1 trouble, fair | `RecommendationsFit`, `OrderHoldsAddition`, `ErrorsHaveCause`, `TasksEnd`, `ServicesComeUp`. |

Each passing run also checks its module's type invariant.

**Why the bounds are enough.** Two threads suffice for an interleaving
of one thread's read with another's write, and the clock covers two whole TTLs, so that an
entry is stored, expires and is replaced. An upload and a watched file let the event loop, the
watcher's thread and a deletion meet, and the second file a copy that begins while the first is in
work; there is one identifier for two files, so that one is processed and the other cannot be opened,
in either order; one restart hits every point of them. Two
documents in two namespaces let one index be fresh while the other is stale. With two
questions per client, a history bound of 2 and a store of two sessions both limits are
reached and exceeded, and the session that has to go is not the only one; up to four hits exceed contexts of
one and of three; the chunks have a question's word in the text, in the title, or only in a metadata line, which does
not count, and the two searches return any list of up to two of them.
The chunker's bounds contain sentences shorter than, equal to and longer
than a chunk and than the overlap, in every order; the files have every role a format tells
apart beside every other. Four requests allow two additions and two
orders of two tabs, so an order is retried and two orders overlap. The amounts of
`order_total` carry never, on the first and on later additions. Three admin requests allow a
creation, a deletion and a listing at once, and one name is part of the other because the search
for the new account's number is by part of the name. In `storefront` one worker with a call and a
probe behind it is the smallest full pool, one withdrawn product meets every page, and one trouble
is enough to kill any service at any point, beside the kills by probes; profiler and tracing may fail beyond that bound. What is proved does not
depend on these bounds at all.

**Symmetry** is used in the runs of `JwksCache`, `Retrieval` and `Checkout` for threads, keys,
documents, products and tabs, which the modules only compare for equality; their properties are
invariants and action properties. The runs with liveness properties use none.

**Fairness.** `Ingest!FairSpec` is weakly fair to the event loop, to the watcher's thread and to
the end of a copy: operating-system threads get to run, every call they make returns or raises
(the HTTP clients have timeouts), and whoever copies a file finishes. `ChatSession!FairSpec`
is weakly fair to the handler, the delivery of requests and responses, and the widget's token
request: each `fetch` resolves or rejects. `PipelineSpec` only says that the chunker's loop runs.
`Storefront!FairSpec` says that a start step ends, Kubernetes starts an ended container
again and goes on probing (a `livenessProbe` every five seconds, with a time limit), a free worker takes the
next call, and the frontend goes on with a request it can go on with. `ListProducts` has no deadline and is *not* assumed to
end. So `TasksEnd` has two parts: a task comes to an end, or it is itself in a call that hangs while another
worker is free and the probes are answered; with the one worker of the run the second cannot be, and the first is
what is checked: probes that wait behind the hanging call have the container killed. Clients are never obliged to ask and failures are never
obliged to happen.

**Deadlock** is checked in `storefront`, where users come back for ever. It is not checked where the
system may rightly stop: every other model has a bound on its clock,
requests, files or questions after which nothing is left to do.

## 4. The proofs

Eight modules hold theorems; `tlapm` checks all their obligations. They
assume only the `ASSUME`s of the modules, which TLC evaluates in the runs.

* **`JwksCacheProofs`**: `TypeCorrect`, `CacheNeverEmptied`, `RetiredKeysLapse`. The last is not inductive by itself: what a
  thread accepts depends on answers and stamps of other threads. `ClockInv` says that no call of `get_jwks` outlives
  `MaxFetch`; `AgeInv` that the keys of an answer were published when its thread read the clock, and that the keys in the cache
  were still published `MaxFetch` before its stamp. So a document outlives its stamp's TTL by at most one call, and a
  request adds another.
* **`IngestProofs`**: `TypeCorrect`, `DeletionIsFinal`, `ReadyIsSearchable`, `OnlyProcessedMoved`, and `Implements`: `Ingest`
  implements `Library`. The argument is about the document an executor has in hand: it was drawn by that executor
  alone, its job is processing, and until the upsert nobody can name it in a deletion (`RunInv`); clients know only drawn documents and
  delete only those they know (`StoreInv`); half-way through a deletion the internal collection is clean (`DeleteInv`); a
  call about to report chunks has them in Chroma (`FinishInv`). Finality rests on doc_ids never being drawn
  twice, which is `uuid4`'s promise and is assumed.
* **`PipelineProofs`**, the chunker: `TypeCorrect`, `EveryWordKept`, `ChunksInOrder`, `NoSectionMixed` and the three together,
  `ChunksAreTheText`, and `ChunkSizes`, for every document, every chunk
  size and every smaller overlap. The properties speak of the chunks made; the invariant adds the text still held: it
  ends where reading stopped (`CurrentInv`), covers what no chunk covers (`CoverInv`), continues the latest chunk without a gap
  (`JoinInv`) and is not too long (`SizeInv`). `LoopsAdvance` is the safety half of `Terminates`: no step leaves everything as it was,
  each takes section, sentence, phase or window forward, and the window stays in the text. With the fairness of the loop that is
  why `split` returns; the step from there to "eventually" is TLC's.
* **`PipelineProofs`**, the way of a file: `TextIsKept`, for files of any size in every format, and `FilesAreChunked` (what is proved
  of the chunker holds of files). A piece is followed through the stages. `Keeps` says that a converter's lines hold every piece of
  its roles, and a heading with a line of text below it; every converter does (`PlainKeeps`, `TwiceKeeps`, `PdfKeeps`, `PptxKeeps`, `ImageKeeps`),
  and what it does not keep is `LeftOut` (`ConverterKeeps`). Then every line that is text is in the section that begins at the
  earliest line above it without a heading between, and a heading with text below it heads one (`SectionsHold`).
  The chunker reads the words of a document in the order of `WordsOf`:
  `PlaceInv` says that it has read as many words as come before the next sentence, and `KeptInv` that the words of a sentence once
  read are in chunks of its section, or in `current` if the section is still being read. All texts are joined with
  `FlattenSeq`, which is defined by recursion; what it returns (`Flattened`: every element of every part, at its place) is proved for sequences of any
  length by way of the least prefix for which it would be false, since the induction theorems of the library cannot be used.
* **`CheckoutProofs`**: `TypeCorrect`, `PaidBeforeShipped`, `ShippedBeforeConfirmed` and both together, `StepsInOrder`, `NothingLost`, `ShippedOnce`,
  `ImplementsAtomicCart`, for any tabs, products and quantities. `WorkInv` ties each
  request to what it has done: an order that is to be shipped has a payment for exactly the cart it has read, one past
  the shipment a parcel, and with one tab the cart read is still the cart, on which `ImplementsAtomicCart`
  rests; `BalanceInv` is the account of one tab: put = in the cart + sent + discarded, where the cart
  does not count between a shipment and the emptying.
* **`ShopProofs`**, the totals: `SumIsExact` (for amounts of any sign: `Sum` never changes the value, only its form can be
  wrong), `TypeCorrect`, `ChargeIsExact`, `PagesShowTheCharge` and both together, `TotalsAreExact`, `NeverPanics`. The invariant says that the running total is the
  exact cost of the items so far, that `MultiplySlow`'s result is the price times the turns it has made, and that both
  are in proper form with at least one unit; `Canonical` (a value has one proper form) turns equal
  values into equal records.
* **`ShopProofs`**, the pages: `ShopTyped`, `ShopTypes`, `ShopInvariant`, `PagesFit`, `OrdersHoldAdditions`, `PagesFailForACause`, for any users, products,
  workers, crashes and catalogs. The type invariant is not inductive: that a worker's call has the type of a call depends on who is in
  the pool's queue, every user at most once (`QueueInv`), and the page it answers on whose request is waiting (`ItemInv`). On that
  rests what holds of each user (`Holds`): a call asks for what its page is about (`CallFits`), what the page shows is none of it and no more
  than fits (`PageFits`), and an acknowledged addition is in the cart the order reads (`DealHolds`).
  That no error page comes from recommendations needs the types only: it is about one step.
* **`RetrievalProofs`**: `TypeCorrect`, `RemovedDocsLapse`, `CorpusIsComplete`. `Reading(docs, n, t)` says that a set of documents
  is what namespace *n* held at some moment not before *t*: nothing of another namespace, nothing removed before *t*, nothing missing that
  was stored before *t*. What is being made into an index is a reading of the moment it was fetched (`PayloadInv`), an index one of
  at most `MaxBuild` before its stamp (`IndexInv`); a question that accepts a stamp adds the TTL.
* **`ChatSessionProofs`**: `TypeCorrect`, `AnswersAreAudited`, `RecentAreKept`, `FullPagesNeverChange`, `FlagIsHonest`, for any clients, questions and
  bounds. Between the audit
  record and the answer the question being served is in the log (`AuditInv`), which only grows; the store is the end of the list of
  completed questions, as much of it as fits (`StoreInv`). Pages: the log grows at its end only, so the records a filter matches do
  (`MatchingGrows`), and a page that is full is cut from the part that stays (`FullPageStays`). Flag: in the two lists a chunk has at
  most six places, each worth at most a sixtieth (`EarnedIs`, `FusedIs`), and a chunk with no word of the question earns nothing else
  (`ScoreIs`), which is less than a fifth of the threshold; the results are the highest first (`SortedIs`, `RerankedIs`), so if the first
  one is such a chunk no score is higher, and their mean is below the threshold (`SumBound`).
  The first hit is in a context of any size. Of the context's other hits nothing is proved, and nothing could be: see section 5.
* **`AdminUsersProofs`**: `TypeCorrect`, `LogIsTruthful`, `ListingsAbortOnlyIf`, `RolesWereAskedFor`, for any operators and accounts.
  `StationInv` says which calls belong to which request. For the log: an account is unmade by one request, logged or about to be
  (`DeletionInv`); an operator's creation works on an account nobody else made (`MadeInv`); and the lines about creations can be matched one to
  one with accounts of their names, leaving out those whose line is still to come (`LogInv`), which gives the comparison of numbers. For
  the roles: an account keeps its name, and the number a creation holds is that of an account whose name contains its own (`RoleInv`). For
  the listing: unless an account it lists is deleted, what it has still to ask about exists (`ListInv`).

Every property named in a theorem of `PROJECT.json` is also checked by TLC in one of the runs, and
the strengthenings were checked there before they were proved, except `PlaceInv` and `KeptInv`, which name the places of
sentences by what they satisfy. `CacheNeverEmptied`, `LoopsAdvance`, `SumIsExact` and `FilesAreChunked` are only proved.

## 5. Disagreements found

* `jwks_race` - `auth.py:101` promises a "forced cache refresh before giving up". A second
  thread that fetched before the rotation may store its old document and a recent stamp
  after the first thread reset the stamp; the forced refresh then fetches nothing, and a valid token is refused.
* `ingest_appears` - `README.md:41` has the user copy a file into `data/incoming` and see it appear. The watcher
  reads on the *created* event; if the copy is not complete, a part of the file, or nothing, is
  ingested and no later event corrects it.
* `chat_follow_up` - the portal sends its rich message objects back as `conversation_history`, which `QueryRequest` declares as
  `list[dict[str, str]]`; every question after the first answer is refused with 422, although the walkthrough in the README asks
  twice in the same chat.

Seen while modelling, and not the subject of a run of their own:

* Retrieval: nothing calls `invalidate_bm25` (`retrieval.py:63`, "call after ingest": ingestion is
  another process), so a sparse search misses a new document until the TTL is over.
* Ingestion: `mkdir`, the move to `failed` and the note beside it run in the `except` block; an exception there ends the
  observer's thread (`watcher.py:28-31`), after which no file is taken in until the next restart.
* Answers: the flag is the mean over all hits while the model sees the first ones only; an answer without the flag has
  a first hit with a word of the question, but the context of three hits that is deployed may hold others with none. The model substitute
  looks for the context under its German label and finds none in an English prompt.
* Administration: `create_user` gives the role to the first account whose *name contains* the new name and does
  not look at the status of that last call, so it can report a role nobody got; a retry after a failure half-way meets
  409; its events go to `admin-*.log`, which `get_audit` (`audit-*.log`) never shows.
* Tokens: one without `sub`, or with an unreadable header, ends in an unhandled exception instead of a 401.
* Converters: web pages lose `nav`, `header` and `footer`; Word files their tables; slides their pictures,
  groups and tables; a PDF its scanned pages as soon as any page has text; an image with fewer
  than five words everything. A heading with nothing below it is in no chunk.
* Portal and widget: the widget's history is never trimmed, so that after 50 messages every question is refused.
* Shop: `Sum` of two amounts below one unit yields units and nanos of different sign, which the next `Sum`
  refuses - the shop has no such amounts; two tabs on Redis or AlloyDB lose additions; what another tab adds
  while an order is placed is emptied with it; an empty cart can be ordered and pays shipping; an order is
  placed although its page may end in an error (`handlers.go:386`); a product withdrawn
  from the catalog blocks the cart page and the checkout of every cart that holds it.
* Recommendations: `ListProducts` is called without a deadline in the pool that answers the health checks; a call that hangs
  holds its page for as long as another worker is free to answer the probes.
* Advertisements: `chooseAd` would panic on an empty list without an error (`handlers.go:533`); the ad service sends none, it falls
  back on random ads.

## 6. What is only model-checked, and what is not modelled

Only model-checked: the liveness properties `FilesSettle`, `QuestionsSettle`, `Terminates`, `TasksEnd`,
`ServicesComeUp` (liveness under fairness is beyond the prover); the violated properties, of course. Every invariant and every
action property of a passing run is proved.

Not modelled:

* the portal's documents page, a client of `Ingest` with a polling interval of its own (planned);
* dev login and session cookie: request and response, no state but the browser's cookie;
* currency conversion, card check, shipping and advertisements: stateless, and represented
  by the answers `OrderTotal` and `Checkout` choose for them; the loading of the catalog's file and the search by text;
* what the libraries recognise in a file, and the metadata a converter returns beside the text;
* the scores of the two searches, and the hash `ollama-lite` calls an embedding: inputs of `Ranking`;
* the audit page's date filters and the figures of `metrics_summary`; `MetricsMiddleware`, which
  counts requests for a dashboard;
* in `Checkout`, a call that takes effect only after its client has given up on it; the loss of carts with the
  Redis that holds them in memory only;
* generated gRPC code (`demo_pb2*.py`, about half of the repository's Python), manifests, dashboards and deployment
  scripts: no behaviour of this repository's own.

## 7. Plan

What exists: the core of cityXai (`JwksCache`, `Library`, `Ingest`, `Retrieval`, `Ranking`,
`ChatSession`, `Chunker`, `Pipeline`, `Access`, `AdminUsers`) and of the shop (`AtomicCart`, `CartStore`, `Checkout`,
`Money`, `OrderTotal`, `Services`, `Storefront`). What is left, in order of weight:

1. Theorems towards the liveness properties: for each, that some step of the waiting party is possible and that steps only take it
   forward, as `LoopsAdvance` says of the chunker.
2. `DocumentsPage`: the portal's upload and its polling interval beside `Ingest`'s jobs; properties: polling ends, the status shown
   is the job's, at most one interval.
3. Composition of `Ingest` and `Retrieval` over one Chroma (`Library` is already the interface of both), and of `Retrieval` and
   `ChatSession` in one handler.
4. `ProductCatalog`: the loading of the file and the search, as the source of `OrderTotal`'s prices.
