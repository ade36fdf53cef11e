---------------------------- MODULE ChatSession ----------------------------
(***************************************************************************)
(* A conversation: the citizen widget (widget.js) and the portal's chat    *)
(* page (chat/page.tsx) against the query handler of chat-api (main.py).   *)
(* Clients are asynchronous, requests of all of them are under way at      *)
(* once; the handler never awaits, so it serves one request at a time.     *)
(* The model, the retriever, the audit file and the network may fail and   *)
(* the process may be restarted.                                           *)
(*                                                                         *)
(* Questions of a client are numbered.  A message is its role, the         *)
(* question it belongs to and whether it is a plain map of strings to      *)
(* strings, which is all QueryRequest accepts (models.py:23); of a         *)
(* history the request carries its length and whether all of it is plain.  *)
(***************************************************************************)
EXTENDS Ranking

CONSTANTS
    Widgets, Portals,   \* clients of the two kinds
    MaxHistory,         \* max_length of conversation_history (models.py:23)
    MaxSessions,        \* _HISTORY_MAX_SESSIONS
    Searches,           \* [question, mode, language, dense, sparse]: see Ranking
    PageSizes,          \* page_size of get_audit
    MaxAsk,             \* bound of the model: questions of one client
    MaxRestarts         \* bound of the model: restarts of chat-api

ASSUME ChatAssumption ==
    /\ Widgets \cap Portals = {}
    /\ MaxHistory \in Nat
    /\ MaxSessions \in Nat \ {0}
    /\ PageSizes \subseteq Nat
    /\ MaxAsk \in Nat
    /\ MaxRestarts \in Nat

\* A list of a search holds the results for at most three queries
\* (expand_query), in each of which a chunk has one place; the chunker makes no
\* chunk of blank text (chunker.py:37-38).
ASSUME SearchAssumption ==
    \A s \in Searches :
        /\ IsFiniteSet(s.question)
        /\ \A list \in {s.dense, s.sparse} :
              /\ list \in Seq(Range(list))
              /\ \A i \in DOMAIN list :
                    /\ Cardinality({j \in DOMAIN list : list[j].chunk = list[i].chunk}) <= 3
                    /\ \E l \in list[i].chunk.lines : l.words # {}

VARIABLES
    messages,   \* the conversation a client holds
    asked,      \* how many questions it has asked
    waiting,    \* its questions without an outcome: "token", then "sent"
    requests,   \* requests on their way to the handler
    replies,    \* responses on their way to the client
    current,    \* the request the handler is serving, or Nothing
    pc,         \* where the handler is
    result,     \* the Outcome of its search
    sessions,   \* _history_store, oldest entry first
    audit,      \* the lines of audit-*.log, in order
    restarts,
    finished    \* questions completed since the last start, in order (history)

vars == <<messages, asked, waiting, requests, replies, current, pc, result, sessions,
          audit, restarts, finished>>
client == <<messages, asked, waiting>>
server == <<current, pc, result, sessions, audit, finished>>

Clients == Widgets \cup Portals
Questions == Clients \X (1..MaxAsk)
Message == [role : {"user", "assistant"}, q : 1..MaxAsk, plain : BOOLEAN]
Request == [who : Clients, q : 1..MaxAsk, len : Nat, plain : BOOLEAN]
Reply == [who : Clients, q : 1..MaxAsk, kind : {"answer", "refused", "error"}]
Nothing == [who |-> "nobody"]
NoResult == [flagged |-> FALSE]
Outcomes == {Outcome(s, n) : s \in Searches, n \in ContextSizes}

TypeOK ==
    /\ messages \in [Clients -> Seq(Message)]
    /\ asked \in [Clients -> 0..MaxAsk]
    /\ waiting \in [Clients -> UNION {[pending -> {"token", "sent"}] :
                                         pending \in SUBSET (1..MaxAsk)}]
    /\ requests \subseteq Request
    /\ replies \subseteq Reply
    /\ current \in Request \cup {Nothing}
    /\ pc \in {"idle", "search", "audit", "session", "reply"}
    /\ result \in Outcomes \cup {NoResult}
    /\ sessions \in Seq(Questions)
    /\ audit \in Seq(Questions)
    /\ restarts \in 0..MaxRestarts
    /\ finished \in Seq(Questions)

Init ==
    /\ messages = [c \in Clients |-> <<>>]
    /\ asked = [c \in Clients |-> 0]
    /\ waiting = [c \in Clients |-> <<>>]
    /\ requests = {}
    /\ replies = {}
    /\ current = Nothing
    /\ pc = "idle"
    /\ result = NoResult
    /\ sessions = <<>>
    /\ audit = <<>>
    /\ restarts = 0
    /\ finished = <<>>

-----------------------------------------------------------------------------
(* The clients.                                                            *)

Say(c, role, q, plain) ==
    messages' = [messages EXCEPT ![c] =
                    Append(@, [role |-> role, q |-> q, plain |-> plain])]

\* The request for question q with the given history.
Send(c, q, history) ==
    requests' = requests \cup
        {[who |-> c, q |-> q, len |-> Len(history),
          plain |-> \A i \in DOMAIN history : history[i].plain]}

Await(c, q, state) ==
    waiting' = [waiting EXCEPT ![c] =
                    [p \in DOMAIN @ \cup {q} |-> IF p = q THEN state ELSE @[p]]]

\* Mutant: the spinner is marked instead of taken away.
Settle_Marked(c, q) == waiting' = [waiting EXCEPT ![c][q] = "done"]

\* The spinner of question q goes away.
Settle(c, q) ==
    waiting' = [waiting EXCEPT ![c] = [p \in DOMAIN @ \ {q} |-> @[p]]]

\* widget.js:154-164.  The Enter key submits while an answer is awaited; the
\* question joins the history before the token is there.
WidgetAsk(c) ==
    LET q == asked[c] + 1 IN
    /\ c \in Widgets
    /\ q <= MaxAsk
    /\ asked' = [asked EXCEPT ![c] = q]
    /\ Say(c, "user", q, TRUE)
    /\ Await(c, q, "token")
    /\ UNCHANGED <<requests, replies, server, restarts>>

\* widget.js:164-173.  The body is built when the token has come, from the
\* history as it is then; without a token the question ends in an error.
WidgetSend(c, q) ==
    /\ c \in Widgets
    /\ q \in DOMAIN waiting[c] /\ waiting[c][q] = "token"
    /\ \/ Send(c, q, messages[c]) /\ Await(c, q, "sent")
       \/ Settle(c, q) /\ UNCHANGED requests
    /\ UNCHANGED <<messages, asked, replies, server, restarts>>

\* page.tsx:15-34.  One question at a time; the history sent is the one before
\* the question.
PortalAsk(c) ==
    LET q == asked[c] + 1 IN
    /\ c \in Portals
    /\ q <= MaxAsk
    /\ waiting[c] = <<>>
    /\ asked' = [asked EXCEPT ![c] = q]
    /\ Say(c, "user", q, TRUE)
    /\ Send(c, q, messages[c])
    /\ Await(c, q, "sent")
    /\ UNCHANGED <<replies, server, restarts>>

\* Mutant: the clean-up runs only after an answer.
Receive_NoFinally(r) ==
    LET c == r.who IN
    /\ r \in replies
    /\ replies' = replies \ {r}
    /\ IF r.kind = "answer"
       THEN Settle(c, r.q) /\ Say(c, "assistant", r.q, c \in Widgets)
       ELSE UNCHANGED <<messages, waiting>>
    /\ UNCHANGED <<asked, requests, server, restarts>>

\* widget.js:174-189: an answer joins the history, anything else is shown and
\* forgotten.  page.tsx:35-46: an answer joins with its sources and scores, so
\* it is not plain; the body of a refusal has no answer field and joins as a
\* bare role; an error joins as a text.  The spinner goes in every case.
Receive(r) ==
    LET c == r.who IN
    /\ r \in replies
    /\ replies' = replies \ {r}
    /\ Settle(c, r.q)
    /\ IF c \in Widgets
       THEN IF r.kind = "answer" THEN Say(c, "assistant", r.q, TRUE)
                                 ELSE UNCHANGED messages
       ELSE Say(c, "assistant", r.q, r.kind # "answer")
    /\ UNCHANGED <<asked, requests, server, restarts>>

-----------------------------------------------------------------------------
(* The handler chat_query.                                                 *)

Respond(r, kind) ==
    replies' = replies \cup {[who |-> r.who, q |-> r.q, kind |-> kind]}

\* The handler is left; its locals are gone.
Leave == current' = Nothing /\ pc' = "idle" /\ result' = NoResult

\* QueryRequest: every message a map of strings, and not too many of them.
Valid(r) == r.plain /\ r.len <= MaxHistory

\* FastAPI validates the body: 422, or the handler starts.
Accept(r) ==
    /\ pc = "idle"
    /\ r \in requests
    /\ requests' = requests \ {r}
    /\ IF Valid(r)
       THEN current' = r /\ pc' = "search" /\ UNCHANGED replies
       ELSE Respond(r, "refused") /\ UNCHANGED <<current, pc>>
    /\ UNCHANGED <<client, result, sessions, audit, restarts, finished>>

\* An exception of any call: 500, and the handler is left.  The copy to
\* audit.log (audit.py:42-43) may fail when the event is in the day's log.
Raise ==
    /\ pc \in {"search", "audit", "session"}
    /\ Respond(current, "error")
    /\ Leave
    /\ UNCHANGED <<client, requests, sessions, audit, restarts, finished>>

\* Lines 94-114: expand, search, fuse, rerank, ask the model and set the flag.
Search ==
    /\ pc = "search"
    /\ result' \in Outcomes
    /\ pc' = "audit"
    /\ UNCHANGED <<client, requests, replies, current, sessions, audit, restarts,
                   finished>>

\* The event of a request: whose question it was (lines 115-125).
Event(r) == <<r.who, r.q>>

\* Mutant: an audit file that cannot be written is ignored.
LogQueryEvent_BestEffort ==
    /\ pc = "audit"
    /\ audit' \in {audit, Append(audit, Event(current))}
    /\ result' = NoResult
    /\ pc' = "session"
    /\ UNCHANGED <<client, requests, replies, current, sessions, restarts, finished>>

\* audit.py:15-41: the event is appended to the day's log.
LogQueryEvent ==
    /\ pc = "audit"
    /\ audit' = Append(audit, Event(current))
    /\ result' = NoResult
    /\ pc' = "session"
    /\ UNCHANGED <<client, requests, replies, current, sessions, restarts, finished>>

\* Mutant: at the bound the newest entry goes.
Stored_NewestGoes(store, key) ==
    IF Len(store) >= MaxSessions THEN Append(Front(store), key) ELSE Append(store, key)

\* _history_set (lines 27-33): at the bound the oldest entry goes first.  A
\* session identifier is fresh, so the key is never there already.
Stored(store, key) ==
    IF Len(store) >= MaxSessions THEN Append(Tail(store), key) ELSE Append(store, key)

\* Lines 126-131.
HistorySet ==
    /\ pc = "session"
    /\ sessions' = Stored(sessions, <<current.who, current.q>>)
    /\ finished' = Append(finished, <<current.who, current.q>>)
    /\ pc' = "reply"
    /\ UNCHANGED <<client, requests, replies, current, result, audit, restarts>>

\* _history_get and chat_history: the conversations of the asking user only.
HistoryGet(user, key) == key[1] = user /\ Contains(sessions, key)

\* Lines 132-152.
Return ==
    /\ pc = "reply"
    /\ Respond(current, "answer")
    /\ Leave
    /\ UNCHANGED <<client, requests, sessions, audit, restarts, finished>>

\* The connection of a waiting request breaks, or a proxy gives up on it.
Drop(r) ==
    /\ r \in requests
    /\ requests' = requests \ {r}
    /\ Respond(r, "error")
    /\ UNCHANGED <<client, server, restarts>>

\* chat-api is restarted: the store is empty, the request being served breaks.
Restart ==
    /\ restarts < MaxRestarts
    /\ restarts' = restarts + 1
    /\ sessions' = <<>>
    /\ finished' = <<>>
    /\ IF pc = "idle" THEN UNCHANGED replies ELSE Respond(current, "error")
    /\ Leave
    /\ UNCHANGED <<client, requests, audit>>

Handler == Search \/ LogQueryEvent \/ HistorySet \/ Return

Next ==
    \/ \E c \in Clients : WidgetAsk(c) \/ PortalAsk(c)
    \/ \E c \in Clients, q \in 1..MaxAsk : WidgetSend(c, q)
    \/ \E r \in replies : Receive(r)
    \/ \E r \in requests : Accept(r) \/ Drop(r)
    \/ Handler
    \/ Raise
    \/ Restart

Spec == Init /\ [][Next]_vars

\* The handler runs to its end (every call has a timeout), the browser
\* delivers every response and every token request ends.
FairSpec ==
    /\ Spec
    /\ WF_vars(Handler)
    /\ WF_vars(\E r \in requests : Accept(r))
    /\ WF_vars(\E r \in replies : Receive(r))
    /\ WF_vars(\E c \in Widgets, q \in 1..MaxAsk : WidgetSend(c, q))

-----------------------------------------------------------------------------
\* get_audit of admin-api (main.py:87-94, 131-150): the lines in the order they
\* were written, of those the ones that pass the filter (here on the role, which
\* tells citizens from staff), cut into pages.
Matching(lines, users) ==
    LET rows == {i \in DOMAIN lines : lines[i][1] \in users}
    IN [n \in 1..Cardinality(rows) |-> lines[Nth(rows, n)]]

\* Mutant: the newest line comes first.
Page_NewestFirst(lines, users, page, size) ==
    LET rows == Reverse(Matching(lines, users)) IN
    SubSeq(rows, (page - 1) * size + 1, Min({page * size, Len(rows)}))

Page(lines, users, page, size) ==
    LET rows == Matching(lines, users) IN
    SubSeq(rows, (page - 1) * size + 1, Min({page * size, Len(rows)}))

\* Every answer a client gets is in the audit log, whatever failed or was
\* restarted on the way: the log is written before the response.
AnswersAudited ==
    /\ \A r \in replies : r.kind = "answer" => Contains(audit, <<r.who, r.q>>)
    /\ \A c \in Clients : \A i \in DOMAIN messages[c] :
          LET m == messages[c][i] IN
          m.role = "assistant" /\ (c \in Widgets \/ ~m.plain) => Contains(audit, <<c, m.q>>)

\* The CSV export has all of them.
Export(lines, users) == Matching(lines, users)

\* Someone who reads the log page by page while questions are answered misses
\* no line and sees none twice: a full page never changes, and an export begins
\* with what an earlier one held.
FullPagesStay ==
    [][\A users \in {Clients, Widgets, Portals} :
          /\ IsPrefix(Export(audit, users), Export(audit', users))
          /\ \A size \in PageSizes, page \in 1..Len(audit) :
                LET now == Page(audit, users, page, size) IN
                Len(now) = size => Page(audit', users, page, size) = now]_audit

\* An answer to a hybrid search that is not flagged has a first hit that shares a
\* word with the question, and a German one was given text of that very hit,
\* whatever ANSWER_CONTEXT_TOP_N is (main.py 101-114).  It says nothing of the
\* context's other hits, which need not share a word: the flag is a mean.
FlagHonest ==
    pc = "audit" /\ result.mode = "hybrid" /\ ~result.flagged =>
        result.supported /\ (result.language = "de" => result.grounded)

\* A user can fetch the conversations of this run of the process that are
\* among the most recent MaxSessions of all users, and nothing else.
RecentSessionsKept ==
    /\ Len(sessions) <= MaxSessions
    /\ \A c \in Clients, key \in Questions :
          HistoryGet(c, key) <=>
              /\ key[1] = c
              /\ \E i \in DOMAIN finished :
                    finished[i] = key /\ i > Len(finished) - MaxSessions

\* No spinner turns for ever: every question ends in an answer, a refusal or
\* an error.
QuestionsSettle ==
    \A c \in Clients, q \in 1..MaxAsk :
        q \in DOMAIN waiting[c] ~> q \notin DOMAIN waiting[c]

\* A portal user who has got an answer can ask the next question in the same
\* chat, as steps 7-9 of the demo walkthrough do (README.md:34-36).
FollowUpAccepted ==
    \A r \in replies : r.who \in Portals => r.kind # "refused"
=============================================================================
