------------------------- MODULE ChatSessionProofs -------------------------
(***************************************************************************)
(* What ChatSession promises for any number of clients, questions and      *)
(* restarts, any size of the session store and any results of the          *)
(* searches: its types, the audit record before the answer, the store of   *)
(* the most recent sessions, the pages of the audit log and the            *)
(* confidence flag.                                                        *)
(***************************************************************************)
EXTENDS ChatSession, FiniteSetTheorems, SequenceTheorems, TLAPS

States == {"token", "sent"}
Waiting == UNION {[pending -> States] : pending \in SUBSET (1..MaxAsk)}

\* Between the steps of the handler.
CurrentInv == pc # "idle" => current \in Request

Typed == TypeOK /\ CurrentInv

-----------------------------------------------------------------------------
(* The helpers of the clients and of the handler.                          *)

LEMMA WaitingIs == TypeOK => waiting \in [Clients -> Waiting]
  BY DEF TypeOK, Waiting, States

LEMMA SayType ==
    ASSUME TypeOK, NEW c \in Clients, NEW role \in {"user", "assistant"},
           NEW q \in 1..MaxAsk, NEW plain \in BOOLEAN, Say(c, role, q, plain)
    PROVE  messages' \in [Clients -> Seq(Message)]
  <1>1. [role |-> role, q |-> q, plain |-> plain] \in Message
    BY DEF Message
  <1> QED BY <1>1 DEF Say, TypeOK

LEMMA AwaitType ==
    ASSUME TypeOK, NEW c \in Clients, NEW q \in 1..MaxAsk, NEW state \in States,
           Await(c, q, state)
    PROVE  waiting' \in [Clients -> Waiting]
  <1> DEFINE next == [p \in DOMAIN waiting[c] \cup {q} |->
                         IF p = q THEN state ELSE waiting[c][p]]
  <1>1. PICK pending \in SUBSET (1..MaxAsk) : waiting[c] \in [pending -> States]
    BY WaitingIs DEF Waiting
  <1>2. next \in [pending \cup {q} -> States]
    BY <1>1
  <1>3. pending \cup {q} \in SUBSET (1..MaxAsk)
    OBVIOUS
  <1>4. next \in Waiting
    BY <1>2, <1>3 DEF Waiting
  <1>5. waiting' = [waiting EXCEPT ![c] = next]
    BY DEF Await
  <1> QED BY <1>4, <1>5, WaitingIs

LEMMA SettleType ==
    ASSUME TypeOK, NEW c \in Clients, NEW q \in 1..MaxAsk, Settle(c, q)
    PROVE  waiting' \in [Clients -> Waiting]
  <1> DEFINE next == [p \in DOMAIN waiting[c] \ {q} |-> waiting[c][p]]
  <1>1. PICK pending \in SUBSET (1..MaxAsk) : waiting[c] \in [pending -> States]
    BY WaitingIs DEF Waiting
  <1>2. next \in [pending \ {q} -> States]
    BY <1>1
  <1>3. pending \ {q} \in SUBSET (1..MaxAsk)
    OBVIOUS
  <1>4. next \in Waiting
    BY <1>2, <1>3 DEF Waiting
  <1>5. waiting' = [waiting EXCEPT ![c] = next]
    BY DEF Settle
  <1> QED BY <1>4, <1>5, WaitingIs

LEMMA RespondType ==
    ASSUME TypeOK, NEW r \in Request, NEW kind \in {"answer", "refused", "error"},
           Respond(r, kind)
    PROVE  replies' \subseteq Reply
  BY DEF Respond, TypeOK, Reply, Request

LEMMA SendType ==
    ASSUME TypeOK, NEW c \in Clients, NEW q \in 1..MaxAsk, NEW history \in Seq(Message),
           Send(c, q, history)
    PROVE  requests' \subseteq Request
  <1>1. [who |-> c, q |-> q, len |-> Len(history),
         plain |-> \A i \in DOMAIN history : history[i].plain] \in Request
    BY DEF Request
  <1> QED BY <1>1 DEF Send, TypeOK

\* The bound of the store: at most one more, never beyond MaxSessions.
LEMMA StoredIs ==
    ASSUME NEW S, NEW store \in Seq(S), NEW key \in S
    PROVE  /\ Stored(store, key) \in Seq(S)
           /\ Len(store) < MaxSessions =>
                 Stored(store, key) = Append(store, key)
           /\ Len(store) >= MaxSessions =>
                 /\ Len(Stored(store, key)) = Len(store)
                 /\ \A i \in 1..(Len(store) - 1) : Stored(store, key)[i] = store[i + 1]
                 /\ Stored(store, key)[Len(store)] = key
  <1>1. CASE Len(store) < MaxSessions
    <2>1. ~(Len(store) >= MaxSessions)
      BY <1>1, ChatAssumption
    <2>2. Stored(store, key) = Append(store, key)
      BY <2>1 DEF Stored
    <2>3. Stored(store, key) \in Seq(S)
      BY <2>2
    <2> QED BY <2>1, <2>2, <2>3
  <1>2. CASE Len(store) >= MaxSessions
    <2>1. store # <<>>
      BY <1>2, ChatAssumption
    <2>2. Tail(store) \in Seq(S) /\ Len(Tail(store)) = Len(store) - 1
      BY <2>1
    <2>3. \A i \in 1..(Len(store) - 1) : Tail(store)[i] = store[i + 1]
      BY <2>1
    <2>4. Stored(store, key) = Append(Tail(store), key)
      BY <1>2 DEF Stored
    <2>5. /\ Stored(store, key) \in Seq(S)
          /\ Len(Stored(store, key)) = Len(store)
          /\ Stored(store, key)[Len(store)] = key
      BY <2>2, <2>4
    <2>6. \A i \in 1..(Len(store) - 1) : Stored(store, key)[i] = store[i + 1]
      BY <2>2, <2>3, <2>4
    <2>7. ~(Len(store) < MaxSessions)
      BY <1>2, ChatAssumption
    <2> QED BY <2>5, <2>6, <2>7
  <1>3. Len(store) < MaxSessions \/ Len(store) >= MaxSessions
    BY ChatAssumption
  <1> QED BY ONLY <1>1, <1>2, <1>3, Zenon

-----------------------------------------------------------------------------
(* Types.                                                                  *)

LEMMA InitTyped == Init => Typed
  <1> SUFFICES ASSUME Init PROVE Typed
    OBVIOUS
  <1>1. \A c \in Clients : waiting[c] \in [{} -> States]
    BY DEF Init
  <1>2. \A c \in Clients : waiting[c] \in Waiting
    BY <1>1 DEF Waiting
  <1>3. waiting \in [Clients -> Waiting]
    BY <1>2 DEF Init
  <1>4. /\ messages \in [Clients -> Seq(Message)]
        /\ sessions \in Seq(Questions) /\ audit \in Seq(Questions)
        /\ finished \in Seq(Questions)
    BY DEF Init
  <1>5. asked \in [Clients -> 0..MaxAsk] /\ restarts \in 0..MaxRestarts
    BY ChatAssumption DEF Init
  <1> QED BY <1>3, <1>4, <1>5 DEF Init, Typed, TypeOK, CurrentInv, Waiting, States

LEMMA StepTyped == Typed /\ [Next]_vars => Typed'
  <1> SUFFICES ASSUME Typed, [Next]_vars PROVE Typed'
    OBVIOUS
  <1> USE DEF Typed
  <1>w. waiting \in [Clients -> Waiting]
    BY WaitingIs
  <1>1. ASSUME NEW c \in Clients, WidgetAsk(c) PROVE Typed'
    <2>1. asked[c] + 1 \in 1..MaxAsk
      BY <1>1, ChatAssumption DEF WidgetAsk, TypeOK
    <2>a. asked' \in [Clients -> 0..MaxAsk]
      BY <1>1, <2>1, ChatAssumption DEF WidgetAsk, TypeOK
    <2>2. messages' \in [Clients -> Seq(Message)]
      BY <1>1, <2>1, SayType DEF WidgetAsk
    <2>3. waiting' \in [Clients -> Waiting]
      BY <1>1, <2>1, AwaitType DEF WidgetAsk, States
    <2> QED BY <1>1, <2>a, <2>2, <2>3
          DEF WidgetAsk, TypeOK, server, CurrentInv, Waiting, States
  <1>2. ASSUME NEW c \in Clients, PortalAsk(c) PROVE Typed'
    <2>1. asked[c] + 1 \in 1..MaxAsk
      BY <1>2, ChatAssumption DEF PortalAsk, TypeOK
    <2>a. asked' \in [Clients -> 0..MaxAsk]
      BY <1>2, <2>1, ChatAssumption DEF PortalAsk, TypeOK
    <2>2. messages' \in [Clients -> Seq(Message)]
      BY <1>2, <2>1, SayType DEF PortalAsk
    <2>3. waiting' \in [Clients -> Waiting]
      BY <1>2, <2>1, AwaitType DEF PortalAsk, States
    <2>4. requests' \subseteq Request
      BY <1>2, <2>1, SendType DEF PortalAsk, TypeOK
    <2> QED BY <1>2, <2>a, <2>2, <2>3, <2>4
          DEF PortalAsk, TypeOK, server, CurrentInv, Waiting, States
  <1>3. ASSUME NEW c \in Clients, NEW q \in 1..MaxAsk, WidgetSend(c, q) PROVE Typed'
    <2>1. waiting' \in [Clients -> Waiting]
      BY <1>3, AwaitType, SettleType DEF WidgetSend, States
    <2>2. requests' \subseteq Request
      BY <1>3, SendType DEF WidgetSend, TypeOK
    <2> QED BY <1>3, <2>1, <2>2 DEF WidgetSend, TypeOK, server, CurrentInv, Waiting, States
  <1>4. ASSUME NEW r \in replies, Receive(r) PROVE Typed'
    <2>1. r.who \in Clients /\ r.q \in 1..MaxAsk
      BY DEF TypeOK, Reply
    <2>2. messages' \in [Clients -> Seq(Message)]
      BY <1>4, <2>1, SayType DEF Receive, TypeOK
    <2>3. waiting' \in [Clients -> Waiting]
      BY <1>4, <2>1, SettleType DEF Receive
    <2> QED BY <1>4, <2>2, <2>3 DEF Receive, TypeOK, server, CurrentInv, Waiting, States
  <1>5. ASSUME NEW r \in requests, Accept(r) PROVE Typed'
    <2>1. r \in Request
      BY DEF TypeOK
    <2>2. replies' \subseteq Reply
      BY <1>5, <2>1, RespondType DEF Accept, TypeOK
    <2> QED BY <1>5, <2>1, <2>2 DEF Accept, TypeOK, client, CurrentInv
  <1>6. ASSUME NEW r \in requests, Drop(r) PROVE Typed'
    <2>1. replies' \subseteq Reply
      BY <1>6, RespondType DEF Drop, TypeOK
    <2> QED BY <1>6, <2>1 DEF Drop, TypeOK, client, server, CurrentInv
  <1>7. ASSUME Search PROVE Typed'
    BY <1>7 DEF Search, TypeOK, client, CurrentInv
  <1>8. ASSUME LogQueryEvent PROVE Typed'
    <2>1. Event(current) \in Questions
      BY <1>8 DEF LogQueryEvent, CurrentInv, Request, Event, Questions
    <2> QED BY <1>8, <2>1 DEF LogQueryEvent, TypeOK, client, CurrentInv
  <1>9. ASSUME HistorySet PROVE Typed'
    <2>1. <<current.who, current.q>> \in Questions
      BY <1>9 DEF HistorySet, CurrentInv, Request, Questions
    <2>2. sessions' \in Seq(Questions)
      BY <1>9, <2>1, StoredIs DEF HistorySet, TypeOK
    <2> QED BY <1>9, <2>1, <2>2 DEF HistorySet, TypeOK, client, CurrentInv
  <1>10. ASSUME Return PROVE Typed'
    <2>1. replies' \subseteq Reply
      BY <1>10, RespondType DEF Return, CurrentInv
    <2> QED BY <1>10, <2>1 DEF Return, Leave, TypeOK, client, CurrentInv
  <1>11. ASSUME Raise PROVE Typed'
    <2>1. replies' \subseteq Reply
      BY <1>11, RespondType DEF Raise, CurrentInv
    <2> QED BY <1>11, <2>1 DEF Raise, Leave, TypeOK, client, CurrentInv
  <1>12. ASSUME Restart PROVE Typed'
    <2>1. replies' \subseteq Reply
      BY <1>12, RespondType DEF Restart, CurrentInv, TypeOK
    <2>2. restarts' \in 0..MaxRestarts
      BY <1>12, ChatAssumption DEF Restart, TypeOK
    <2> QED BY <1>12, <2>1, <2>2 DEF Restart, Leave, TypeOK, client, CurrentInv
  <1>13. CASE UNCHANGED vars
    BY <1>13 DEF vars, TypeOK, CurrentInv
  <1> QED BY <1>1, <1>2, <1>3, <1>4, <1>5, <1>6, <1>7, <1>8, <1>9, <1>10, <1>11, <1>12, <1>13
        DEF Next, Handler

\* The types of clients, network and handler.
THEOREM TypeCorrect == Spec => []TypeOK
  <1>1. Typed => TypeOK
    BY DEF Typed
  <1> QED BY <1>1, InitTyped, StepTyped, PTL DEF Spec

LEMMA AlwaysTyped == Spec => []Typed
  BY InitTyped, StepTyped, PTL DEF Spec

-----------------------------------------------------------------------------
(* The audit record before the answer.                                     *)

\* Past the audit step the question being served is in the log.
AuditInv ==
    /\ pc \in {"session", "reply"} => Contains(audit, Event(current))
    /\ AnswersAudited

LEMMA InitAudit == Init => AuditInv
  BY DEF Init, AuditInv, AnswersAudited

\* The log only grows.
LEMMA AuditGrows ==
    ASSUME NEW line \in Questions, audit \in Seq(Questions), audit' = Append(audit, line)
    PROVE  /\ Contains(audit', line)
           /\ \A l : Contains(audit, l) => Contains(audit', l)
  <1>1. Len(audit') = Len(audit) + 1 /\ audit'[Len(audit) + 1] = line
    OBVIOUS
  <1>2. \A i \in 1..Len(audit) : audit'[i] = audit[i]
    OBVIOUS
  <1>3. Len(audit) \in Nat
    OBVIOUS
  <1>4. Contains(audit', line)
    BY <1>1, <1>3 DEF Contains
  <1>5. ASSUME NEW l, Contains(audit, l) PROVE Contains(audit', l)
    BY <1>1, <1>2, <1>3, <1>5 DEF Contains
  <1> QED BY <1>4, <1>5

\* What a new message of a client means for the property.
LEMMA SaySafe ==
    ASSUME TypeOK, AnswersAudited, NEW c \in Clients, NEW role, NEW q, NEW plain,
           Say(c, role, q, plain), UNCHANGED audit,
           role = "assistant" /\ (c \in Widgets \/ ~plain) => Contains(audit, <<c, q>>)
    PROVE  \A d \in Clients : \A i \in DOMAIN messages'[d] :
              LET m == messages'[d][i] IN
              m.role = "assistant" /\ (d \in Widgets \/ ~m.plain)
                 => Contains(audit', <<d, m.q>>)
  <1> DEFINE new == [role |-> role, q |-> q, plain |-> plain]
  <1>1. messages[c] \in Seq(Message)
    BY DEF TypeOK
  <1>2. messages' = [messages EXCEPT ![c] = Append(messages[c], new)]
    BY DEF Say
  <1>3. messages'[c] = Append(messages[c], new)
    BY <1>2 DEF TypeOK
  <1>4. ASSUME NEW d \in Clients, d # c PROVE messages'[d] = messages[d]
    BY <1>2, <1>4 DEF TypeOK
  <1>5. ASSUME NEW i \in DOMAIN messages'[c]
        PROVE  \/ i \in DOMAIN messages[c] /\ messages'[c][i] = messages[c][i]
               \/ messages'[c][i] = new
    BY <1>1, <1>3
  <1> QED BY <1>4, <1>5 DEF AnswersAudited

LEMMA StepAudit == Typed /\ AuditInv /\ [Next]_vars => AuditInv'
  <1> SUFFICES ASSUME Typed, AuditInv, [Next]_vars PROVE AuditInv'
    OBVIOUS
  <1> USE DEF Typed
  <1>1. ASSUME NEW c \in Clients, WidgetAsk(c) \/ PortalAsk(c) PROVE AuditInv'
    <2>1. Say(c, "user", asked[c] + 1, TRUE) /\ UNCHANGED <<audit, replies, pc, current>>
      BY <1>1 DEF WidgetAsk, PortalAsk, server
    <2> QED BY <2>1, SaySafe DEF AuditInv, AnswersAudited, Event
  <1>2. ASSUME NEW c \in Clients, NEW q \in 1..MaxAsk, WidgetSend(c, q) PROVE AuditInv'
    BY <1>2 DEF WidgetSend, server, AuditInv, AnswersAudited, Event
  <1>3. ASSUME NEW r \in replies, Receive(r) PROVE AuditInv'
    <2>1. UNCHANGED <<audit, pc, current>> /\ replies' \subseteq replies
      BY <1>3 DEF Receive, server
    <2>2. r.who \in Clients /\ r.kind = "answer" => Contains(audit, <<r.who, r.q>>)
      BY DEF AuditInv, AnswersAudited
    <2>3. CASE UNCHANGED messages
      BY <2>1, <2>3 DEF AuditInv, AnswersAudited, Event
    <2>4. CASE Say(r.who, "assistant", r.q, TRUE) /\ r.kind = "answer" /\ r.who \in Widgets
      <3>1. r.who \in Clients
        BY <2>4 DEF Clients
      <3> QED BY <2>1, <2>2, <2>4, <3>1, SaySafe DEF AuditInv, AnswersAudited, Event
    <2>5. CASE Say(r.who, "assistant", r.q, r.kind # "answer") /\ r.who \notin Widgets
      <3>1. r.who \in Clients
        BY DEF TypeOK, Reply
      <3> QED BY <2>1, <2>2, <2>5, <3>1, SaySafe DEF AuditInv, AnswersAudited, Event
    <2> QED BY <1>3, <2>3, <2>4, <2>5 DEF Receive
  <1>4. ASSUME NEW r \in requests, Accept(r) \/ Drop(r) PROVE AuditInv'
    <2>1. UNCHANGED <<audit, messages>> /\ ((pc' = pc /\ current' = current) \/ pc' = "search")
      BY <1>4 DEF Accept, Drop, client, server
    <2>2. \A s \in replies' : s.kind = "answer" => s \in replies
      BY <1>4 DEF Accept, Drop, Respond
    <2> QED BY <2>1, <2>2 DEF AuditInv, AnswersAudited, Event
  <1>5. ASSUME Search PROVE AuditInv'
    BY <1>5 DEF Search, client, AuditInv, AnswersAudited, Event
  <1>6. ASSUME LogQueryEvent PROVE AuditInv'
    <2>1. Event(current) \in Questions
      BY <1>6 DEF LogQueryEvent, CurrentInv, Request, Event, Questions
    <2>2. /\ Contains(audit', Event(current))
          /\ \A l : Contains(audit, l) => Contains(audit', l)
      BY <1>6, <2>1, AuditGrows DEF LogQueryEvent, TypeOK
    <2> QED BY <1>6, <2>2 DEF LogQueryEvent, client, AuditInv, AnswersAudited, Event
  <1>7. ASSUME HistorySet PROVE AuditInv'
    BY <1>7 DEF HistorySet, client, AuditInv, AnswersAudited, Event
  <1>8. ASSUME Return PROVE AuditInv'
    <2>1. Contains(audit, <<current.who, current.q>>)
      BY <1>8 DEF Return, AuditInv, Event
    <2>2. \A s \in replies' : s.kind = "answer" =>
             s \in replies \/ (s.who = current.who /\ s.q = current.q)
      BY <1>8 DEF Return, Respond
    <2> QED BY <1>8, <2>1, <2>2 DEF Return, Leave, client, AuditInv, AnswersAudited
  <1>9. ASSUME Raise \/ Restart PROVE AuditInv'
    <2>1. UNCHANGED <<audit, messages>> /\ pc' = "idle"
      BY <1>9 DEF Raise, Restart, Leave, client
    <2>2. \A s \in replies' : s.kind = "answer" => s \in replies
      BY <1>9 DEF Raise, Restart, Respond
    <2> QED BY <2>1, <2>2 DEF AuditInv, AnswersAudited
  <1>10. CASE UNCHANGED vars
    BY <1>10 DEF vars, AuditInv, AnswersAudited, Event
  <1> QED BY <1>1, <1>2, <1>3, <1>4, <1>5, <1>6, <1>7, <1>8, <1>9, <1>10 DEF Next, Handler

\* No answer reaches a client, or is on its way to one, without its record in
\* the log, whatever fails or is restarted (main.py 115-125 before 132).
THEOREM AnswersAreAudited == Spec => []AnswersAudited
  <1>1. AuditInv => AnswersAudited
    BY DEF AuditInv
  <1> QED BY <1>1, AlwaysTyped, InitAudit, StepAudit, PTL DEF Spec

-----------------------------------------------------------------------------
(* The session store.                                                      *)

\* The store is the end of the list of the questions completed, as much of it
\* as fits.
StoreInv ==
    /\ Len(sessions) <= MaxSessions
    /\ Len(sessions) <= Len(finished)
    /\ Len(sessions) < MaxSessions => Len(sessions) = Len(finished)
    /\ \A i \in 1..Len(sessions) : sessions[i] = finished[Len(finished) - Len(sessions) + i]

LEMMA InitStore == Init => StoreInv
  BY ChatAssumption DEF Init, StoreInv

LEMMA StepStore == Typed /\ StoreInv /\ [Next]_vars => StoreInv'
  <1> SUFFICES ASSUME Typed, StoreInv, [Next]_vars PROVE StoreInv'
    OBVIOUS
  <1> USE DEF Typed
  <1>1. CASE UNCHANGED <<sessions, finished>>
    BY <1>1 DEF StoreInv
  <1>2. ASSUME HistorySet PROVE StoreInv'
    <2> DEFINE key == <<current.who, current.q>>
               n == Len(sessions)
               f == Len(finished)
    <2>1. key \in Questions
      BY <1>2 DEF HistorySet, CurrentInv, Request, Questions
    <2>2. sessions \in Seq(Questions) /\ finished \in Seq(Questions) /\ n \in Nat /\ f \in Nat
      BY DEF TypeOK
    <2>3. sessions' = Stored(sessions, key) /\ finished' = Append(finished, key)
      BY <1>2 DEF HistorySet
    <2>4. Len(finished') = f + 1 /\ finished'[f + 1] = key
          /\ \A i \in 1..f : finished'[i] = finished[i]
      BY <2>1, <2>2, <2>3
    <2>5. CASE n < MaxSessions
      <3>1. sessions' = Append(sessions, key)
        BY <2>1, <2>2, <2>3, <2>5, StoredIs
      <3>2. Len(sessions') = n + 1 /\ sessions'[n + 1] = key
            /\ \A i \in 1..n : sessions'[i] = sessions[i]
        BY <2>1, <2>2, <3>1
      <3>3. n = f /\ \A i \in 1..n : sessions[i] = finished[i]
        BY <2>2, <2>5 DEF StoreInv
      <3>4. \A i \in 1..(n + 1) : sessions'[i] = finished'[i]
        BY <2>2, <2>4, <3>2, <3>3
      <3> QED BY <2>2, <2>4, <2>5, <3>2, <3>3, <3>4, ChatAssumption DEF StoreInv
    <2>6. CASE n = MaxSessions
      <3>1. /\ Len(sessions') = n /\ sessions'[n] = key
            /\ \A i \in 1..(n - 1) : sessions'[i] = sessions[i + 1]
        <4>1. n >= MaxSessions
          BY <2>2, <2>6
        <4> HIDE DEF key
        <4>2. /\ Len(Stored(sessions, key)) = n /\ Stored(sessions, key)[n] = key
              /\ \A i \in 1..(n - 1) : Stored(sessions, key)[i] = sessions[i + 1]
          BY <2>1, <2>2, <4>1, StoredIs
        <4> QED BY <2>3, <4>2
      <3>2. n <= f /\ n \in Nat \ {0}
        BY <2>2, <2>6, ChatAssumption DEF StoreInv
      <3>3. ASSUME NEW i \in 1..(n - 1)
            PROVE sessions'[i] = finished'[f + 1 - n + i]
        <4>1. i + 1 \in 1..n /\ f - n + (i + 1) \in 1..f
          BY <2>2, <3>2
        <4>2. sessions[i + 1] = finished[f - n + (i + 1)]
          BY <4>1 DEF StoreInv
        <4>3. f - n + (i + 1) = f + 1 - n + i
          BY <2>2, <3>2
        <4> QED BY <2>4, <3>1, <4>1, <4>2, <4>3
      <3>4. sessions'[n] = finished'[f + 1 - n + n]
        BY <2>2, <2>4, <3>1, <3>2
      <3>5. \A i \in 1..n : sessions'[i] = finished'[f + 1 - n + i]
        <4>1. ASSUME NEW i \in 1..n PROVE i = n \/ i \in 1..(n - 1)
          BY <3>2
        <4> QED BY <3>3, <3>4, <4>1
      <3> QED BY <2>2, <2>4, <2>6, <3>1, <3>2, <3>5, ChatAssumption DEF StoreInv
    <2> QED BY <2>2, <2>5, <2>6, ChatAssumption DEF StoreInv
  <1>3. ASSUME Restart PROVE StoreInv'
    BY <1>3, ChatAssumption DEF Restart, StoreInv
  <1> QED BY <1>1, <1>2, <1>3
        DEF Next, Handler, WidgetAsk, WidgetSend, PortalAsk, Receive, Accept, Drop, Search,
            LogQueryEvent, Return, Raise, server, vars

\* A user can fetch the conversations among the MaxSessions most recent of all
\* users and nothing else (main.py 27-33).
THEOREM RecentAreKept == Spec => []RecentSessionsKept
  <1>1. Typed /\ StoreInv => RecentSessionsKept
    <2> SUFFICES ASSUME Typed, StoreInv PROVE RecentSessionsKept
      OBVIOUS
    <2> DEFINE n == Len(sessions)
               f == Len(finished)
    <2>1. sessions \in Seq(Questions) /\ finished \in Seq(Questions) /\ n \in Nat /\ f \in Nat
      BY DEF Typed, TypeOK
    <2>2. ASSUME NEW key \in Questions, Contains(sessions, key)
          PROVE  \E i \in DOMAIN finished : finished[i] = key /\ i > f - MaxSessions
      <3>1. PICK i \in 1..n : sessions[i] = key
        BY <2>2 DEF Contains
      <3>2. f - n + i \in 1..f /\ f - n + i > f - MaxSessions
        BY <2>1, ChatAssumption DEF StoreInv
      <3> QED BY <2>1, <3>1, <3>2 DEF StoreInv
    <2>3. ASSUME NEW key \in Questions,
                 NEW i \in DOMAIN finished, finished[i] = key, i > f - MaxSessions
          PROVE  Contains(sessions, key)
      <3>1. i \in 1..f
        BY <2>1
      <3>2. i > f - n
        BY <2>1, <2>3, <3>1, ChatAssumption DEF StoreInv
      <3>3. i - (f - n) \in 1..n /\ f - n + (i - (f - n)) = i
        BY <2>1, <3>1, <3>2
      <3>4. sessions[i - (f - n)] = key
        BY <2>3, <3>3 DEF StoreInv
      <3> QED BY <3>3, <3>4 DEF Contains
    <2> QED BY <2>2, <2>3 DEF RecentSessionsKept, HistoryGet, StoreInv
  <1> QED BY <1>1, AlwaysTyped, InitStore, StepStore, PTL DEF Spec

-----------------------------------------------------------------------------
(* Orders, numbers and sums: what the ranking and the pages are made of.   *)

\* Min and Max of two numbers.
LEMMA MinOfTwo ==
    ASSUME NEW m \in Int, NEW n \in Int
    PROVE  /\ Min({m, n}) \in {m, n} /\ Min({m, n}) <= n /\ Min({m, n}) <= m
           /\ m <= n => Min({m, n}) = m
  <1>1. \E x \in {m, n} : \A y \in {m, n} : x =< y
    <2>1. CASE m <= n
      BY <2>1
    <2>2. CASE ~(m <= n)
      BY <2>2
    <2> QED BY <2>1, <2>2
  <1>2. Min({m, n}) \in {m, n} /\ \A y \in {m, n} : Min({m, n}) =< y
    BY <1>1 DEF Min
  <1>3. PICK k \in {m, n} : k = Min({m, n}) /\ \A y \in {m, n} : k =< y
    BY <1>2
  <1>4. m <= n => k = m
    BY <1>3
  <1> QED BY <1>3, <1>4

LEMMA MaxOfTwo ==
    ASSUME NEW m \in Int, NEW n \in Int
    PROVE  Max({m, n}) \in {m, n} /\ Max({m, n}) >= n /\ Max({m, n}) >= m
  <1>1. \E x \in {m, n} : \A y \in {m, n} : x >= y
    <2>1. CASE m >= n
      BY <2>1
    <2>2. CASE ~(m >= n)
      BY <2>2
    <2> QED BY <2>1, <2>2
  <1>2. Max({m, n}) \in {m, n} /\ \A y \in {m, n} : Max({m, n}) >= y
    BY <1>1 DEF Max
  <1> QED BY <1>2

\* R orders S from the first to the last.
Orders(R, S) ==
    /\ \A x \in S : <<x, x>> \notin R
    /\ \A x, y \in S : x # y => <<x, y>> \in R \/ <<y, x>> \in R
    /\ \A x, y, z \in S : <<x, y>> \in R /\ <<y, z>> \in R => <<x, z>> \in R

Earlier(R, S, x) == {y \in S : <<y, x>> \in R}

\* Of two, the one has fewer before it that is before the other.
LEMMA EarlierCounts ==
    ASSUME NEW S, IsFiniteSet(S), NEW R, Orders(R, S), NEW x \in S, NEW y \in S
    PROVE  /\ Cardinality(Earlier(R, S, x)) \in 0..(Cardinality(S) - 1)
           /\ <<x, y>> \in R => Cardinality(Earlier(R, S, x)) < Cardinality(Earlier(R, S, y))
  <1>1. ASSUME NEW T \in SUBSET S, NEW z \in S, z \notin T, T \cup {z} \subseteq S
        PROVE  /\ Cardinality(T) \in Nat /\ Cardinality(T \cup {z}) = Cardinality(T) + 1
               /\ Cardinality(T \cup {z}) <= Cardinality(S)
    <2>1. IsFiniteSet(T)
      BY FS_Subset
    <2> QED BY <1>1, <2>1, FS_AddElement, FS_Subset, FS_CardinalityType
  <1>2. Cardinality(S) \in Nat
    BY FS_CardinalityType
  <1>3. Earlier(R, S, x) \in SUBSET S /\ x \notin Earlier(R, S, x)
    BY DEF Earlier, Orders
  <1>4. Cardinality(Earlier(R, S, x)) \in 0..(Cardinality(S) - 1)
    <2> DEFINE T == Earlier(R, S, x)
    <2>1. T \cup {x} \subseteq S /\ T \in SUBSET S /\ x \notin T
      BY <1>3
    <2> HIDE DEF T
    <2>2. /\ Cardinality(T) \in Nat /\ Cardinality(T \cup {x}) = Cardinality(T) + 1
          /\ Cardinality(T \cup {x}) <= Cardinality(S)
      BY <1>1, <2>1
    <2>3. Cardinality(T) \in 0..(Cardinality(S) - 1)
      BY <1>2, <2>2
    <2> QED BY <2>3 DEF T
  <1>5. ASSUME <<x, y>> \in R
        PROVE  Cardinality(Earlier(R, S, x)) < Cardinality(Earlier(R, S, y))
    <2> DEFINE T == Earlier(R, S, x)
               U == Earlier(R, S, y)
    <2>1. T \cup {x} \subseteq U /\ U \in SUBSET S
      BY <1>5 DEF Earlier, Orders
    <2>2. IsFiniteSet(U)
      BY <2>1, FS_Subset
    <2> HIDE DEF T, U
    <2>3. T \cup {x} \in SUBSET U
      BY <2>1
    <2>4. Cardinality(T \cup {x}) <= Cardinality(U) /\ Cardinality(U) \in Nat
      BY <2>2, <2>3, FS_Subset, FS_CardinalityType
    <2>5. Cardinality(T) \in Nat /\ Cardinality(T \cup {x}) = Cardinality(T) + 1
      BY <1>1, <1>3 DEF T
    <2> QED BY <2>4, <2>5 DEF T, U
  <1> QED BY <1>4, <1>5

\* There is an n-th one.
LEMMA NthExists ==
    ASSUME NEW S, IsFiniteSet(S), NEW R, Orders(R, S), NEW n \in 1..Cardinality(S)
    PROVE  \E x \in S : Cardinality(Earlier(R, S, x)) = n - 1
  <1> DEFINE N == Cardinality(S)
             T == 0..(N - 1)
             count == [x \in S |-> Cardinality(Earlier(R, S, x))]
  <1>1. N \in Nat
    BY FS_CardinalityType
  <1>2. count \in [S -> T]
    BY EarlierCounts
  <1>3. \A x, y \in S : x # y => count[x] # count[y]
    <2>1. ASSUME NEW x \in S, NEW y \in S, <<x, y>> \in R PROVE count[x] < count[y]
      BY <2>1, EarlierCounts
    <2>2. \A x \in S : count[x] \in Int
      BY <1>1, <1>2
    <2> HIDE DEF count
    <2>3. ASSUME NEW x \in S, NEW y \in S, x # y PROVE count[x] # count[y]
      <3>1. <<x, y>> \in R \/ <<y, x>> \in R
        BY <2>3 DEF Orders
      <3>2. count[x] < count[y] \/ count[y] < count[x]
        BY <2>1, <3>1
      <3> QED BY <2>2, <3>2
    <2> QED BY <2>3
  <1>4. count \in Injection(S, T)
    BY <1>2, <1>3 DEF Injection, IsInjective
  <1>5. N - 1 \in Int /\ (0 > N - 1 => N = 0)
    BY <1>1
  <1>6. IsFiniteSet(T) /\ Cardinality(T) = N
    BY <1>1, <1>5, FS_Interval
  <1>7. count \in Surjection(S, T)
    <2> HIDE DEF count, T
    <2> QED BY <1>4, <1>6, FS_Injection
  <1>8. n - 1 \in T
    BY <1>1
  <1>9. PICK x \in S : count[x] = n - 1
    BY <1>7, <1>8 DEF Surjection
  <1> QED BY <1>9

Below(S, i) == {j \in S : j < i}

\* Nth is the n-th of a finite set of numbers, and there is one such only.
LEMMA NthIs ==
    ASSUME NEW S, IsFiniteSet(S), S \subseteq Int, NEW n \in 1..Cardinality(S)
    PROVE  /\ Nth(S, n) \in S
           /\ Cardinality(Below(S, Nth(S, n))) = n - 1
           /\ \A i \in S : Cardinality(Below(S, i)) = n - 1 => i = Nth(S, n)
  <1> DEFINE R == {p \in S \X S : p[1] < p[2]}
  <1>1. ASSUME NEW x \in S, NEW y \in S PROVE <<x, y>> \in R <=> x < y
    BY <1>1
  <1> HIDE DEF R
  <1>2. Orders(R, S)
    BY <1>1 DEF Orders
  <1>3. ASSUME NEW x \in S PROVE Earlier(R, S, x) = Below(S, x)
    BY <1>1 DEF Earlier, Below
  <1>4. \E i \in S : Cardinality(Below(S, i)) = n - 1
    <2>1. PICK x \in S : Cardinality(Earlier(R, S, x)) = n - 1
      BY <1>2, NthExists
    <2> QED BY <1>3, <2>1
  <1>5. Nth(S, n) \in S /\ Cardinality(Below(S, Nth(S, n))) = n - 1
    BY <1>4 DEF Nth, Below
  <1>6. ASSUME NEW x \in S, NEW y \in S, x < y
        PROVE  Cardinality(Below(S, x)) < Cardinality(Below(S, y))
    BY <1>1, <1>2, <1>3, <1>6, EarlierCounts
  <1>7. ASSUME NEW i \in S, Cardinality(Below(S, i)) = n - 1, i # Nth(S, n) PROVE FALSE
    <2>0. i \in Int /\ Nth(S, n) \in Int
      BY <1>5
    <2>1. i < Nth(S, n) \/ Nth(S, n) < i
      BY <1>7, <2>0
    <2>2. ~(n - 1 < n - 1)
      OBVIOUS
    <2> QED BY <1>5, <1>6, <1>7, <2>1, <2>2
  <1> QED BY <1>5, <1>7

\* it is the running sum that SumFunctionOnSet(fun, S) builds.
Running(fun, S, it) ==
    it = [s \in SUBSET S |-> IF s = {} THEN 0
                             ELSE fun[CHOOSE x \in s : TRUE] + it[s \ {CHOOSE x \in s : TRUE}]]

\* SumFunctionOnSet is the last of its running sums.
LEMMA SumIsRunning ==
    ASSUME NEW fun, NEW S
    PROVE  SumFunctionOnSet(fun, S) = (CHOOSE it : Running(fun, S, it))[S]
  BY Zenon DEF SumFunctionOnSet, FoldFunctionOnSet, MapThenFoldSet, Running

\* Of a family of subsets of a finite set, one has no smaller one in the family.
LEMMA LeastSubset ==
    ASSUME NEW S, IsFiniteSet(S), NEW F, F \subseteq SUBSET S, F # {}
    PROVE  \E t \in F : \A u \in F : ~(u \subseteq t /\ u # t)
  <1>1. IsWellFoundedOn(StrictSubsetOrdering(S), SUBSET S)
    BY FS_FiniteSubsetsOfFinite, FS_StrictSubsetOrderingWellFounded
  <1>2. PICK t \in F : \A u \in F : ~(<<u, t>> \in StrictSubsetOrdering(S))
    BY <1>1, WFMin
  <1>3. ASSUME NEW u \in F, u \subseteq t, u # t PROVE FALSE
    <2>1. <<u, t>> \in (SUBSET S) \X (SUBSET S)
      OBVIOUS
    <2>2. <<u, t>> \in StrictSubsetOrdering(S)
      BY <1>3, <2>1 DEF StrictSubsetOrdering
    <2> QED BY <1>2, <2>2
  <1> QED BY <1>3

\* What a running sum is at a subset.
LEMMA RunningAt ==
    ASSUME NEW fun, NEW S, NEW it, Running(fun, S, it), NEW s \in SUBSET S
    PROVE  /\ s = {} => it[s] = 0
           /\ s # {} => \E x \in s : x = (CHOOSE y \in s : TRUE) /\ it[s] = fun[x] + it[s \ {x}]
  <1> DEFINE x == CHOOSE y \in s : TRUE
  <1>1. it[s] = IF s = {} THEN 0 ELSE fun[x] + it[s \ {x}]
    BY DEF Running
  <1>2. s # {} => x \in s
    OBVIOUS
  <1> QED BY <1>1, <1>2

\* Two running sums agree where both are defined.
LEMMA RunningAgree ==
    ASSUME NEW fun, NEW S, NEW T, NEW a, NEW b, IsFiniteSet(T), T \subseteq S,
           Running(fun, S, a), Running(fun, T, b)
    PROVE  a[T] = b[T]
  <1> DEFINE Bad == {s \in SUBSET T : a[s] # b[s]}
  <1>1. SUFFICES ASSUME Bad # {} PROVE FALSE
    OBVIOUS
  <1>2. PICK s \in Bad : \A u \in Bad : ~(u \subseteq s /\ u # s)
    <2>1. Bad \subseteq SUBSET T
      OBVIOUS
    <2> HIDE DEF Bad
    <2> QED BY <1>1, <2>1, LeastSubset
  <1>3. s \in SUBSET S /\ s \in SUBSET T
    OBVIOUS
  <1>4. s # {}
    <2>1. s = {} => a[s] = 0 /\ b[s] = 0
      BY <1>3, RunningAt
    <2> QED BY <2>1
  <1>5. PICK x \in s : x = (CHOOSE y \in s : TRUE) /\ a[s] = fun[x] + a[s \ {x}]
    BY <1>3, <1>4, RunningAt
  <1>6. PICK z \in s : z = (CHOOSE y \in s : TRUE) /\ b[s] = fun[z] + b[s \ {z}]
    BY <1>3, <1>4, RunningAt
  <1>7. s \ {x} \notin Bad
    BY <1>2
  <1>8. a[s \ {x}] = b[s \ {x}]
    BY <1>7
  <1>9. x = z
    BY <1>5, <1>6
  <1>10. a[s] = b[s]
    BY <1>5, <1>6, <1>8, <1>9
  <1> QED BY <1>10

\* There is a running sum over every finite set: were there a least set without
\* one, those of its subsets would make one.
LEMMA RunningExists ==
    ASSUME NEW fun, NEW S, IsFiniteSet(S)
    PROVE  \E it : Running(fun, S, it)
  <1> DEFINE Bad == {s \in SUBSET S : ~\E it : Running(fun, s, it)}
  <1>1. SUFFICES ASSUME Bad # {} PROVE FALSE
    OBVIOUS
  <1>2. PICK t \in Bad : \A u \in Bad : ~(u \subseteq t /\ u # t)
    <2>1. Bad \subseteq SUBSET S
      OBVIOUS
    <2> HIDE DEF Bad
    <2> QED BY <1>1, <2>1, LeastSubset
  <1> DEFINE Sol(u) == CHOOSE it : Running(fun, u, it)
             Pick(s) == CHOOSE y \in s : TRUE
             it == [s \in SUBSET t |-> IF s = {} THEN 0
                                       ELSE fun[Pick(s)] + Sol(s \ {Pick(s)})[s \ {Pick(s)}]]
  <1>3. ASSUME NEW u \in SUBSET t, u # t PROVE Running(fun, u, Sol(u))
    <2>1. u \notin Bad
      BY <1>2, <1>3
    <2>2. \E i : Running(fun, u, i)
      BY <2>1, <1>2
    <2> QED BY <2>2
  <1>4. ASSUME NEW u \in SUBSET t, u # t PROVE it[u] = Sol(u)[u]
    <2>1. CASE u = {}
      <3>1. Sol(u)[u] = 0
        BY <1>3, <1>4, <2>1, RunningAt
      <3> QED BY <2>1, <3>1
    <2>2. CASE u # {}
      <3>1. PICK x \in u : x = Pick(u) /\ Sol(u)[u] = fun[x] + Sol(u)[u \ {x}]
        <4>1. Running(fun, u, Sol(u))
          BY <1>3, <1>4
        <4> HIDE DEF Sol
        <4> QED BY <4>1, <2>2, RunningAt
      <3> DEFINE v == u \ {x}
      <3>2. v \in SUBSET t /\ v # t /\ v \subseteq u
        BY <1>4
      <3>3. Running(fun, u, Sol(u)) /\ Running(fun, v, Sol(v))
        BY <1>3, <1>4, <3>2
      <3>4. IsFiniteSet(v)
        BY <3>2, <1>2, FS_Subset
      <3>5. Sol(u)[v] = Sol(v)[v]
        <4> HIDE DEF Sol, v
        <4> QED BY <3>2, <3>3, <3>4, RunningAgree
      <3>6. it[u] = fun[x] + Sol(v)[v]
        BY <2>2, <3>1
      <3> QED BY <3>1, <3>5, <3>6
    <2> QED BY <2>1, <2>2
  <1>5. ASSUME NEW s \in SUBSET t
        PROVE  it[s] = IF s = {} THEN 0 ELSE fun[Pick(s)] + it[s \ {Pick(s)}]
    <2>1. CASE s = {}
      BY <2>1
    <2>2. CASE s # {}
      <3> DEFINE v == s \ {Pick(s)}
      <3>1. Pick(s) \in s
        BY <2>2
      <3>2. v \in SUBSET t /\ v # t
        BY <3>1
      <3>3. it[v] = Sol(v)[v]
        BY <1>4, <3>2
      <3>4. it[s] = fun[Pick(s)] + Sol(v)[v]
        BY <2>2
      <3> HIDE DEF it, v
      <3>5. it[s] = fun[Pick(s)] + it[v]
        BY <3>3, <3>4
      <3> QED BY <2>2, <3>5 DEF v
    <2> QED BY <2>1, <2>2
  <1>6. it = [s \in SUBSET t |-> it[s]]
    OBVIOUS
  <1>7. Running(fun, t, it)
    <2> HIDE DEF it
    <2> QED BY <1>5, <1>6 DEF Running
  <1> QED BY <1>2, <1>7

\* A sum is the value of one of the places and the sum of the others.
LEMMA SumSplits ==
    ASSUME NEW fun, NEW S, IsFiniteSet(S)
    PROVE  /\ S = {} => SumFunctionOnSet(fun, S) = 0
           /\ S # {} => \E x \in S : SumFunctionOnSet(fun, S)
                                        = fun[x] + SumFunctionOnSet(fun, S \ {x})
  <1> DEFINE Sol(u) == CHOOSE it : Running(fun, u, it)
  <1>1. ASSUME NEW u \in SUBSET S
        PROVE  IsFiniteSet(u) /\ Running(fun, u, Sol(u)) /\ SumFunctionOnSet(fun, u) = Sol(u)[u]
    <2>1. IsFiniteSet(u)
      BY FS_Subset
    <2>2. \E it : Running(fun, u, it)
      BY <2>1, RunningExists
    <2> QED BY <2>1, <2>2, SumIsRunning
  <1> HIDE DEF Sol
  <1>2. CASE S = {}
    <2>1. Sol(S)[S] = 0
      BY <1>1, <1>2, RunningAt
    <2> QED BY <1>1, <1>2, <2>1
  <1>3. CASE S # {}
    <2>1. PICK x \in S : Sol(S)[S] = fun[x] + Sol(S)[S \ {x}]
      BY <1>1, <1>3, RunningAt
    <2> DEFINE v == S \ {x}
    <2>2. v \in SUBSET S
      OBVIOUS
    <2> HIDE DEF v
    <2>3. Sol(S)[v] = Sol(v)[v]
      BY <1>1, <2>2, RunningAgree
    <2> QED BY <1>1, <1>3, <2>1, <2>2, <2>3 DEF v
  <1> QED BY <1>2, <1>3

\* A sum is at most the number of places times what each of them may hold.
LEMMA SumBound ==
    ASSUME NEW fun, NEW S, IsFiniteSet(S), NEW B \in Int,
           \A x \in S : fun[x] \in Int /\ fun[x] <= B
    PROVE  /\ SumFunctionOnSet(fun, S) \in Int
           /\ SumFunctionOnSet(fun, S) <= B * Cardinality(S)
  <1> DEFINE Ok(u) == /\ SumFunctionOnSet(fun, u) \in Int
                      /\ SumFunctionOnSet(fun, u) <= B * Cardinality(u)
             Bad == {u \in SUBSET S : ~Ok(u)}
  <1>1. SUFFICES ASSUME Bad # {} PROVE FALSE
    OBVIOUS
  <1>2. PICK t \in Bad : \A u \in Bad : ~(u \subseteq t /\ u # t)
    <2>1. Bad \subseteq SUBSET S
      OBVIOUS
    <2> HIDE DEF Bad
    <2> QED BY <1>1, <2>1, LeastSubset
  <1>3. IsFiniteSet(t) /\ t \in SUBSET S
    BY <1>2, FS_Subset
  <1>4. CASE t = {}
    <2>1. SumFunctionOnSet(fun, t) = 0 /\ Cardinality(t) = 0
      BY <1>3, <1>4, SumSplits, FS_EmptySet
    <2>2. B * 0 = 0
      OBVIOUS
    <2> QED BY <1>2, <2>1, <2>2
  <1>5. CASE t # {}
    <2>1. PICK x \in t : SumFunctionOnSet(fun, t) = fun[x] + SumFunctionOnSet(fun, t \ {x})
      BY <1>3, <1>5, SumSplits
    <2>2. Ok(t \ {x})
      BY <1>2
    <2>3. Cardinality(t \ {x}) = Cardinality(t) - 1 /\ Cardinality(t) \in Nat
      BY <1>3, FS_RemoveElement, FS_CardinalityType
    <2>4. PICK n \in Nat, sum \in Int, rest \in Int :
             /\ n = Cardinality(t) /\ sum = SumFunctionOnSet(fun, t)
             /\ rest = SumFunctionOnSet(fun, t \ {x}) /\ sum = fun[x] + rest
             /\ rest <= B * (n - 1)
      BY <1>3, <2>1, <2>2, <2>3
    <2>5. B * (n - 1) + B = B * n
      OBVIOUS
    <2>6. fun[x] \in Int /\ fun[x] <= B
      BY <1>3
    <2>7. sum <= B * n
      BY <2>4, <2>5, <2>6
    <2> QED BY <1>2, <2>4, <2>7
  <1> QED BY <1>4, <1>5

-----------------------------------------------------------------------------
(* The pages of the audit log.                                             *)

\* Two lists that agree up to n have the same parts up to n.
LEMMA SubSeqAgree ==
    ASSUME NEW S, NEW s \in Seq(S), NEW t \in Seq(S), NEW m \in Nat \ {0}, NEW n \in Nat,
           n <= Len(s), n <= Len(t), \A i \in 1..n : s[i] = t[i]
    PROVE  SubSeq(s, m, n) = SubSeq(t, m, n)
  <1>1. ASSUME NEW i \in m..n PROVE i \in 1..Len(s) /\ i \in 1..Len(t)
    OBVIOUS
  <1>2. /\ SubSeq(s, m, n) \in Seq(S)
        /\ Len(SubSeq(s, m, n)) = IF m <= n THEN n - m + 1 ELSE 0
        /\ \A i \in 1..(n - m + 1) : SubSeq(s, m, n)[i] = s[m + i - 1]
    BY <1>1, SubSeqProperties
  <1>3. /\ SubSeq(t, m, n) \in Seq(S)
        /\ Len(SubSeq(t, m, n)) = IF m <= n THEN n - m + 1 ELSE 0
        /\ \A i \in 1..(n - m + 1) : SubSeq(t, m, n)[i] = t[m + i - 1]
    BY <1>1, SubSeqProperties
  <1>4. ASSUME NEW i \in 1..(n - m + 1) PROVE s[m + i - 1] = t[m + i - 1]
    <2>1. m + i - 1 \in 1..n
      OBVIOUS
    <2> QED BY <2>1
  <1>5. \A i \in 1..Len(SubSeq(s, m, n)) : SubSeq(s, m, n)[i] = SubSeq(t, m, n)[i]
    BY <1>2, <1>3, <1>4
  <1> QED BY <1>2, <1>3, <1>5, SeqEqual

\* A list begins with another that it agrees with as far as that goes.
LEMMA PrefixIs ==
    ASSUME NEW S, NEW s \in Seq(S), NEW t \in Seq(S), Len(s) <= Len(t),
           \A i \in 1..Len(s) : s[i] = t[i]
    PROVE  IsPrefix(s, t)
  <1> DEFINE n == Len(s)
  <1>1. n \in Nat /\ n <= Len(t)
    OBVIOUS
  <1>2. \A i \in 1..n : s[i] = t[i]
    OBVIOUS
  <1>3. \A m \in Nat \ {0} : SubSeq(s, m, n) = SubSeq(t, m, n)
    BY <1>1, <1>2, SubSeqAgree
  <1> QED BY <1>1, <1>3 DEF IsPrefix

\* The records of the users are some of the lines.
LEMMA MatchingIs ==
    ASSUME NEW S, NEW lines \in Seq(S), NEW users
    PROVE  Matching(lines, users) \in Seq(S)
  <1> DEFINE rows == {i \in DOMAIN lines : lines[i][1] \in users}
  <1>1. IsFiniteSet(rows) /\ rows \subseteq Int
    <2>0. DOMAIN lines = 1..Len(lines) /\ Len(lines) \in Int
      OBVIOUS
    <2>1. IsFiniteSet(1..Len(lines)) /\ rows \in SUBSET (1..Len(lines))
      BY <2>0, FS_Interval
    <2>2. rows \subseteq Int
      BY <2>0
    <2> HIDE DEF rows
    <2>3. IsFiniteSet(rows)
      BY <2>1, FS_Subset
    <2> QED BY <2>2, <2>3
  <1>2. Cardinality(rows) \in Nat
    BY <1>1, FS_CardinalityType
  <1>3. \A n \in 1..Cardinality(rows) : Nth(rows, n) \in rows
    BY <1>1, NthIs
  <1>4. \A n \in 1..Cardinality(rows) : lines[Nth(rows, n)] \in S
    BY <1>3
  <1> HIDE DEF rows
  <1> QED BY <1>2, <1>4 DEF Matching, rows

\* One more line leaves the records there were in their places.
LEMMA MatchingGrows ==
    ASSUME NEW S, NEW lines \in Seq(S), NEW e \in S, NEW users
    PROVE  /\ Len(Matching(lines, users)) <= Len(Matching(Append(lines, e), users))
           /\ \A n \in 1..Len(Matching(lines, users)) :
                 Matching(lines, users)[n] = Matching(Append(lines, e), users)[n]
  <1> DEFINE more == Append(lines, e)
             new == Len(lines) + 1
             rows == {i \in DOMAIN lines : lines[i][1] \in users}
             rows2 == {i \in DOMAIN more : more[i][1] \in users}
  <1>1. more \in Seq(S) /\ Len(more) = new /\ \A i \in 1..Len(lines) : more[i] = lines[i]
    OBVIOUS
  <1>2. rows2 = rows \/ rows2 = rows \cup {new}
    BY <1>1
  <1>3. rows \subseteq 1..Len(lines) /\ new \in Int /\ new \notin rows
    OBVIOUS
  <1>4. IsFiniteSet(rows)
    BY <1>3, FS_Interval, FS_Subset
  <1>5. /\ IsFiniteSet(rows2) /\ rows \subseteq rows2 /\ rows2 \subseteq Int
        /\ Cardinality(rows) \in Nat /\ Cardinality(rows2) \in Nat
        /\ Cardinality(rows) <= Cardinality(rows2)
    <2>2. rows \in SUBSET rows2 /\ rows2 \subseteq Int
      BY <1>2, <1>3
    <2> HIDE DEF rows, rows2
    <2>1. IsFiniteSet(rows2)
      BY <1>2, <1>4, FS_AddElement
    <2> QED BY <1>4, <2>1, <2>2, FS_Subset, FS_CardinalityType
  <1>6. \A i \in rows : more[i] = lines[i]
    BY <1>1
  <1>7. Matching(lines, users) = [n \in 1..Cardinality(rows) |-> lines[Nth(rows, n)]]
    BY DEF Matching
  <1>8. Matching(more, users) = [n \in 1..Cardinality(rows2) |-> more[Nth(rows2, n)]]
    BY DEF Matching
  <1>c. \A i \in rows : Below(rows2, i) = Below(rows, i)
    BY <1>2, <1>3 DEF Below
  <1>s. rows \subseteq Int
    BY <1>3
  <1> HIDE DEF rows, rows2, more
  <1>r. \A n \in 1..Cardinality(rows) : n \in 1..Cardinality(rows2)
    <2>1. \A x, y \in Nat : x <= y => \A n \in 1..x : n \in 1..y
      OBVIOUS
    <2> QED BY <1>5, <2>1
  <1>9. ASSUME NEW n \in 1..Cardinality(rows)
        PROVE  Nth(rows, n) \in rows /\ Nth(rows2, n) = Nth(rows, n)
    <2>1. Nth(rows, n) \in rows /\ Cardinality(Below(rows, Nth(rows, n))) = n - 1
      BY <1>4, <1>s, NthIs
    <2>2. Cardinality(Below(rows2, Nth(rows, n))) = n - 1
      BY <1>c, <2>1
    <2>3. n \in 1..Cardinality(rows2) /\ Nth(rows, n) \in rows2
      BY <1>r, <1>5, <2>1
    <2>4. \A i \in rows2 : Cardinality(Below(rows2, i)) = n - 1 => i = Nth(rows2, n)
      BY <1>5, <2>3, NthIs
    <2> QED BY <2>1, <2>2, <2>3, <2>4
  <1>10. ASSUME NEW n \in 1..Cardinality(rows)
         PROVE  n \in 1..Cardinality(rows2) /\ lines[Nth(rows, n)] = more[Nth(rows2, n)]
    BY <1>r, <1>6, <1>9
  <1>11. Len(Matching(lines, users)) = Cardinality(rows)
         /\ Len(Matching(more, users)) = Cardinality(rows2)
    BY <1>5, <1>7, <1>8
  <1>12. ASSUME NEW n \in 1..Cardinality(rows)
         PROVE  Matching(lines, users)[n] = Matching(more, users)[n]
    BY <1>7, <1>8, <1>10
  <1> QED BY <1>5, <1>11, <1>12 DEF more

\* The rows of a page.
Cut(rows, page, size) ==
    SubSeq(rows, (page - 1) * size + 1, Min({page * size, Len(rows)}))

\* A page that is full in a list is the same page of a list that begins with it.
LEMMA FullPageStays ==
    ASSUME NEW S, NEW a \in Seq(S), NEW b \in Seq(S), Len(a) <= Len(b),
           \A i \in 1..Len(a) : a[i] = b[i],
           NEW page \in Nat \ {0}, NEW size \in Nat,
           Len(Cut(a, page, size)) = size
    PROVE  Cut(b, page, size) = Cut(a, page, size)
  <1>1. PICK lo \in Nat, hi \in Nat : lo = (page - 1) * size /\ hi = page * size /\ hi = lo + size
    <2>1. page * size = (page - 1) * size + size
      OBVIOUS
    <2>2. \A p \in Nat : p * size \in Nat
      OBVIOUS
    <2>3. page - 1 \in Nat
      OBVIOUS
    <2> QED BY <2>1, <2>2, <2>3
  <1>2. ASSUME NEW n \in Nat 
        PROVE  /\ Min({hi, n}) \in Nat /\ Min({hi, n}) <= n /\ Min({hi, n}) <= hi
               /\ hi <= n => Min({hi, n}) = hi
    <2>1. hi \in Int /\ n \in Int
      OBVIOUS
    <2>2. /\ Min({hi, n}) \in {hi, n} /\ Min({hi, n}) <= n /\ Min({hi, n}) <= hi
          /\ hi <= n => Min({hi, n}) = hi
      BY <2>1, MinOfTwo
    <2> QED BY <2>2
  <1>l. Len(a) \in Nat /\ Len(b) \in Nat
    OBVIOUS
  <1>3. PICK k \in Nat : k = Min({hi, Len(a)}) /\ k <= Len(a) /\ k <= hi
    BY <1>2, <1>l
  <1>4. PICK m \in Nat : m = Min({hi, Len(b)}) /\ m <= Len(b) /\ m <= hi
    BY <1>2, <1>l
  <1>5. Len(SubSeq(a, lo + 1, k)) = size
    BY <1>1, <1>3 DEF Cut
  <1>6. Len(SubSeq(a, lo + 1, k)) = IF lo + 1 <= k THEN k - (lo + 1) + 1 ELSE 0
    <2>1. \A i \in (lo + 1)..k : a[i] \in S
      BY <1>3
    <2> QED BY <2>1, SubSeqProperties
  <1>7. CASE size = 0
    <2>1. k < lo + 1 /\ m < lo + 1
      BY <1>1, <1>3, <1>4, <1>7
    <2>2. SubSeq(a, lo + 1, k) = <<>> /\ SubSeq(b, lo + 1, m) = <<>>
      BY <2>1, SubSeqEmpty
    <2> QED BY <1>1, <1>3, <1>4, <2>2 DEF Cut
  <1>8. CASE size # 0
    <2>0. size = IF lo + 1 <= k THEN k - (lo + 1) + 1 ELSE 0
      BY <1>5, <1>6
    <2>1. k = hi
      <3>1. hi = lo + size /\ k <= hi
        BY <1>1, <1>3
      <3>2. lo + 1 <= k /\ size = k - (lo + 1) + 1
        BY <1>8, <2>0
      <3> QED BY <3>1, <3>2
    <2>2. m = hi
      BY <1>2, <1>3, <1>4, <2>1
    <2>3. hi <= Len(a) /\ hi <= Len(b) /\ \A i \in 1..hi : a[i] = b[i]
      BY <1>3, <2>1
    <2>4. \A n \in Nat \ {0} : SubSeq(a, n, hi) = SubSeq(b, n, hi)
      BY <2>3, SubSeqAgree
    <2>5. SubSeq(a, lo + 1, hi) = SubSeq(b, lo + 1, hi)
      BY <2>4
    <2> QED BY <1>1, <1>3, <1>4, <2>1, <2>2, <2>5 DEF Cut
  <1> QED BY <1>7, <1>8

\* Only the audit step writes to the log, and it writes one line at its end.
LEMMA LogAppends ==
    ASSUME Typed, [Next]_vars
    PROVE  \/ UNCHANGED audit
           \/ \E e \in Questions : audit' = Append(audit, e)
  <1>1. ASSUME LogQueryEvent PROVE \E e \in Questions : audit' = Append(audit, e)
    <2>1. Event(current) \in Questions
      BY <1>1 DEF LogQueryEvent, Typed, CurrentInv, Request, Event, Questions
    <2> QED BY <1>1, <2>1 DEF LogQueryEvent
  <1> QED BY <1>1
        DEF Next, Handler, WidgetAsk, WidgetSend, PortalAsk, Receive, Accept, Drop, Search,
            HistorySet, Return, Raise, Restart, server, vars

\* Whoever reads the log page by page, or exports it, while questions are being
\* answered misses no line and sees none twice (admin-api main.py 131-150).
THEOREM FullPagesNeverChange == Spec => FullPagesStay
  <1> DEFINE Stays(log) ==
        \A users \in {Clients, Widgets, Portals} :
           /\ IsPrefix(Export(audit, users), Export(log, users))
           /\ \A size \in PageSizes, page \in 1..Len(audit) :
                 LET now == Page(audit, users, page, size) IN
                 Len(now) = size => Page(log, users, page, size) = now
  <1>1. ASSUME Typed, NEW e \in Questions PROVE Stays(Append(audit, e))
    <2> DEFINE log == Append(audit, e)
    <2>1. audit \in Seq(Questions) /\ log \in Seq(Questions)
      BY <1>1 DEF Typed, TypeOK
    <2>2. ASSUME NEW users \in {Clients, Widgets, Portals}
          PROVE  /\ IsPrefix(Export(audit, users), Export(log, users))
                 /\ \A size \in PageSizes, page \in 1..Len(audit) :
                       LET now == Page(audit, users, page, size) IN
                       Len(now) = size => Page(log, users, page, size) = now
      <3> DEFINE a == Matching(audit, users)
                 b == Matching(log, users)
      <3>1. a \in Seq(Questions) /\ b \in Seq(Questions)
        <4> HIDE DEF log
        <4> QED BY <2>1, MatchingIs
      <3>2. Len(a) <= Len(b) /\ \A n \in 1..Len(a) : a[n] = b[n]
        BY <2>1, MatchingGrows
      <3>3. IsPrefix(a, b)
        <4> HIDE DEF a, b
        <4> QED BY <3>1, <3>2, PrefixIs
      <3>4. ASSUME NEW size \in PageSizes, NEW page \in 1..Len(audit),
                   Len(Page(audit, users, page, size)) = size
            PROVE  Page(log, users, page, size) = Page(audit, users, page, size)
        <4>1. size \in Nat /\ page \in Nat \ {0}
          BY <2>1, ChatAssumption
        <4>2. Page(audit, users, page, size) = Cut(a, page, size)
          BY DEF Page, Cut
        <4>3. Page(log, users, page, size) = Cut(b, page, size)
          BY DEF Page, Cut
        <4> HIDE DEF a, b, log
        <4>4. Cut(b, page, size) = Cut(a, page, size)
          BY <3>1, <3>2, <3>4, <4>1, <4>2, FullPageStays
        <4> QED BY <4>2, <4>3, <4>4
      <3> QED BY <3>3, <3>4 DEF Export
    <2> QED BY <2>2
  <1>2. Typed /\ [Next]_vars => [Stays(audit')]_audit
    <2> SUFFICES ASSUME Typed, [Next]_vars, audit' # audit PROVE Stays(audit')
      OBVIOUS
    <2>1. PICK e \in Questions : audit' = Append(audit, e)
      BY LogAppends
    <2>2. Stays(Append(audit, e))
      BY <1>1
    <2> HIDE DEF Stays
    <2> QED BY <2>1, <2>2
  <1>3. Typed /\ [Next]_vars =>
          [\A users \in {Clients, Widgets, Portals} :
              /\ IsPrefix(Export(audit, users), Export(audit', users))
              /\ \A size \in PageSizes, page \in 1..Len(audit) :
                    LET now == Page(audit, users, page, size) IN
                    Len(now) = size => Page(audit', users, page, size) = now]_audit
    BY <1>2
  <1> QED BY <1>3, AlwaysTyped, PTL DEF Spec, FullPagesStay

-----------------------------------------------------------------------------
(* The ranking and the confidence flag.                                    *)

\* Sorted returns the hits it is given, one with the highest score first.
LEMMA SortedIs ==
    ASSUME NEW S, NEW hits \in Seq(S), \A h \in S : h.score \in Int
    PROVE  /\ Sorted(hits) \in Seq(S)
           /\ Len(Sorted(hits)) = Len(hits)
           /\ \A n \in 1..Len(hits) : Sorted(hits)[n].score <= Sorted(hits)[1].score
  <1> DEFINE D == DOMAIN hits
             before(i, j) == \/ hits[i].score > hits[j].score
                             \/ hits[i].score = hits[j].score /\ i < j
             R == {p \in D \X D : before(p[1], p[2])}
             At(n) == CHOOSE i \in D : Cardinality({j \in D : before(j, i)}) = n - 1
  <1>1. D = 1..Len(hits) /\ Len(hits) \in Nat
    OBVIOUS
  <1>2. IsFiniteSet(D) /\ Cardinality(D) = Len(hits)
    <2>1. \A n \in Nat : IsFiniteSet(1..n) /\ Cardinality(1..n) = n
      <3>1. \A n \in Nat : (IF 1 > n THEN 0 ELSE n - 1 + 1) = n
        OBVIOUS
      <3> QED BY <3>1, FS_Interval
    <2> QED BY <1>1, <2>1
  <1>3. \A i \in D : i \in Int /\ hits[i] \in S /\ hits[i].score \in Int
    BY <1>1
  <1>4. ASSUME NEW i \in D, NEW j \in D PROVE <<i, j>> \in R <=> before(i, j)
    OBVIOUS
  <1>5. Orders(R, D)
    <2>1. /\ \A i \in D : ~before(i, i)
          /\ \A i, j \in D : i # j => before(i, j) \/ before(j, i)
      BY <1>3
    <2>2. \A i, j, k \in D : before(i, j) /\ before(j, k) => before(i, k)
      BY <1>3
    <2> HIDE DEF R, D, before
    <2> QED BY <1>4, <2>1, <2>2 DEF Orders
  <1>6. ASSUME NEW i \in D PROVE Earlier(R, D, i) = {j \in D : before(j, i)}
    <2> HIDE DEF R, D
    <2> QED BY <1>4 DEF Earlier
  <1>7. ASSUME NEW n \in 1..Len(hits)
        PROVE  At(n) \in D /\ Cardinality({j \in D : before(j, At(n))}) = n - 1
    <2>1. \E i \in D : Cardinality(Earlier(R, D, i)) = n - 1
      <3> HIDE DEF R, D
      <3> QED BY <1>2, <1>5, NthExists
    <2>2. \E i \in D : Cardinality({j \in D : before(j, i)}) = n - 1
      BY <1>6, <2>1
    <2> QED BY <2>2
  <1>8. Sorted(hits) = [n \in D |-> hits[At(n)]]
    BY DEF Sorted
  <1>9. \A n \in 1..Len(hits) : At(n) \in D /\ Sorted(hits)[n] = hits[At(n)]
    BY <1>1, <1>7, <1>8
  <1>10. Sorted(hits) \in Seq(S) /\ Len(Sorted(hits)) = Len(hits)
    <2> HIDE DEF At, D
    <2>1. \A n \in D : hits[At(n)] \in S
      BY <1>1, <1>3, <1>9
    <2> QED BY <1>1, <1>8, <2>1
  <1>11. ASSUME NEW n \in 1..Len(hits)
         PROVE  Sorted(hits)[n].score <= Sorted(hits)[1].score
    <2>1. 1 \in 1..Len(hits)
      BY <1>1
    <2>2. {j \in D : before(j, At(1))} = {}
      <3> DEFINE E == {j \in D : before(j, At(1))}
      <3>1. Cardinality(E) = 1 - 1
        BY <1>7, <2>1
      <3>2. E \in SUBSET D
        OBVIOUS
      <3> HIDE DEF E
      <3>3. IsFiniteSet(E)
        BY <1>2, <3>2, FS_Subset
      <3>4. E = {}
        BY <3>1, <3>3, FS_EmptySet
      <3> QED BY <3>4 DEF E
    <2>3. At(1) \in D /\ At(n) \in D
      BY <1>9, <2>1
    <2> HIDE DEF At, D
    <2>4. ~before(At(n), At(1))
      BY <2>2, <2>3
    <2>5. hits[At(n)].score <= hits[At(1)].score
      BY <1>3, <2>3, <2>4
    <2> QED BY <1>9, <2>1, <2>5
  <1> QED BY <1>10, <1>11

\* What a chunk can earn in six places of the lists.
Little == 6 * (Unit \div RRFOffset)

\* The places of a chunk in a list.
Places(list, c) == {i \in DOMAIN list : list[i].chunk = c}

\* A list as SearchAssumption has it.
Found(list) ==
    /\ list \in Seq(Range(list))
    /\ \A i \in DOMAIN list :
          /\ Cardinality(Places(list, list[i].chunk)) <= 3
          /\ \E l \in list[i].chunk.lines : l.words # {}

\* A chunk has at most three places in a list, six in the two of them.
LEMMA PlacesOfList ==
    ASSUME NEW list, Found(list), NEW c
    PROVE  /\ IsFiniteSet(Places(list, c))
           /\ Cardinality(Places(list, c)) \in 0..3
  <1>1. DOMAIN list = 1..Len(list) /\ Len(list) \in Nat
    BY DEF Found
  <1>2. IsFiniteSet(DOMAIN list)
    BY <1>1, FS_Interval
  <1>3. Places(list, c) \in SUBSET (DOMAIN list)
    BY DEF Places
  <1>4. IsFiniteSet(Places(list, c)) /\ Cardinality(Places(list, c)) \in Nat
    BY <1>2, <1>3, FS_Subset, FS_CardinalityType
  <1>5. CASE Places(list, c) = {}
    BY <1>4, <1>5, FS_EmptySet
  <1>6. CASE Places(list, c) # {}
    <2>1. PICK i \in DOMAIN list : c = list[i].chunk
      BY <1>6 DEF Places
    <2>2. Cardinality(Places(list, c)) <= 3
      BY <2>1 DEF Found
    <2> QED BY <1>4, <2>2
  <1> QED BY <1>5, <1>6

LEMMA PlacesOfBoth ==
    ASSUME NEW dense, NEW sparse, Found(dense), Found(sparse), NEW c
    PROVE  /\ IsFiniteSet(Places(dense \o sparse, c))
           /\ Cardinality(Places(dense \o sparse, c)) \in 0..6
  <1> DEFINE hits == dense \o sparse
             n == Len(dense)
             P == Places(dense, c)
             Q == Places(sparse, c)
             U == {i \in Places(hits, c) : i > n}
             f == [j \in Q |-> j + n]
  <1>1. /\ DOMAIN dense = 1..n /\ n \in Nat
        /\ DOMAIN sparse = 1..Len(sparse) /\ Len(sparse) \in Nat
        /\ DOMAIN hits = 1..(n + Len(sparse))
        /\ \A i \in 1..n : hits[i] = dense[i]
        /\ \A i \in (n + 1)..(n + Len(sparse)) : hits[i] = sparse[i - n]
    BY DEF Found
  <1> HIDE DEF hits, n
  <1>2. \A i \in DOMAIN hits : i <= n => i \in 1..n
    BY <1>1
  <1>3. Places(hits, c) = P \cup U
    BY <1>1, <1>2 DEF Places
  <1>4. f \in Surjection(Q, U)
    <2>1. ASSUME NEW j \in Q PROVE j + n \in U
      BY <1>1 DEF Places
    <2>2. ASSUME NEW i \in U PROVE i - n \in Q /\ (i - n) + n = i
      BY <1>1 DEF Places
    <2> HIDE DEF U, Q
    <2>3. f \in [Q -> U]
      BY <2>1
    <2>4. \A i \in U : \E j \in Q : f[j] = i
      BY <2>2
    <2> QED BY <2>3, <2>4 DEF Surjection
  <1>5. IsFiniteSet(P) /\ Cardinality(P) \in 0..3 /\ IsFiniteSet(Q) /\ Cardinality(Q) \in 0..3
    BY PlacesOfList
  <1> HIDE DEF P, Q, U, f
  <1>6. IsFiniteSet(U) /\ Cardinality(U) <= Cardinality(Q) /\ Cardinality(U) \in Nat
    BY <1>4, <1>5, FS_Surjection, FS_CardinalityType
  <1>7. /\ IsFiniteSet(P \cup U) /\ Cardinality(P \cup U) \in Nat
        /\ Cardinality(P \cup U) = Cardinality(P) + Cardinality(U) - Cardinality(P \cap U)
    BY <1>5, <1>6, FS_Union, FS_CardinalityType
  <1>8. Cardinality(P \cap U) \in Nat
    BY <1>5, FS_Intersection, FS_CardinalityType
  <1>9. Cardinality(P \cup U) \in 0..6
    BY <1>5, <1>6, <1>7, <1>8
  <1> QED BY <1>3, <1>7, <1>9 DEF hits

\* The place behind the offset earns no more than the offset allows.
LEMMA EarnedIs ==
    ASSUME NEW r \in Nat
    PROVE  /\ Unit \div (RRFOffset + r) \in Int
           /\ Unit \div (RRFOffset + r) <= Unit \div RRFOffset
  <1>1. \A d \in Nat : d >= 60 => 1000000 \div d \in Nat /\ d * (1000000 \div d) <= 1000000
    BY SMT
  <1>2. 60 + r \in Nat /\ 60 + r >= 60
    OBVIOUS
  <1>3. 1000000 \div (60 + r) \in Nat /\ (60 + r) * (1000000 \div (60 + r)) <= 1000000
    BY SMT, <1>1, <1>2
  <1>4. 1000000 \div (60 + r) <= 16666
    <2>1. PICK q \in Nat : q = 1000000 \div (60 + r) /\ (60 + r) * q <= 1000000
      BY SMT, <1>3
    <2>2. (60 + r) * q = 60 * q + r * q /\ r * q >= 0
      BY SMT
    <2>3. q <= 16666
      BY SMT, <2>1, <2>2
    <2> QED BY SMT, <2>1, <2>3
  <1>5. 1000000 \div 60 = 16666
    BY SMT
  <1> QED BY SMT, <1>3, <1>4, <1>5 DEF Unit, RRFOffset

\* The fused list: the chunks of the two lists, none with more than it can earn.
LEMMA FusedIs ==
    ASSUME NEW dense, NEW sparse, Found(dense), Found(sparse)
    PROVE  Fused(dense, sparse) \in
              Seq([chunk : {h.chunk : h \in Range(dense) \cup Range(sparse)},
                   score : {x \in Int : x <= Little}])
  <1> DEFINE hits == dense \o sparse
             rank(i) == IF i <= Len(dense) THEN i ELSE i - Len(dense)
             earned == [i \in DOMAIN hits |-> Unit \div (RRFOffset + rank(i))]
             rrf(c) == SumFunctionOnSet(earned, Places(hits, c))
             firsts == {i \in DOMAIN hits : i = Min(Places(hits, hits[i].chunk))}
             merged == [n \in 1..Cardinality(firsts) |->
                          LET c == hits[Nth(firsts, n)].chunk
                          IN [chunk |-> c, score |-> rrf(c)]]
             Chunks == {h.chunk : h \in Range(dense) \cup Range(sparse)}
             Scores == {x \in Int : x <= Little}
  <1>1. /\ DOMAIN hits = 1..Len(hits) /\ Len(hits) \in Nat
        /\ \A i \in DOMAIN hits : hits[i] \in Range(dense) \cup Range(sparse)
        /\ \A i \in DOMAIN hits : rank(i) \in Nat
    BY DEF Found, Range
  <1>2. Fused(dense, sparse) = Sorted(merged)
    BY DEF Fused, Places
  <1>3. ASSUME NEW c PROVE rrf(c) \in Scores
    <2>1. /\ IsFiniteSet(Places(hits, c)) /\ Cardinality(Places(hits, c)) \in 0..6
          /\ Places(hits, c) \subseteq DOMAIN hits
      <3>1. Places(hits, c) \subseteq DOMAIN hits
        BY DEF Places
      <3>2. IsFiniteSet(Places(hits, c)) /\ Cardinality(Places(hits, c)) \in 0..6
        BY PlacesOfBoth
      <3> QED BY <3>1, <3>2
    <2>2. \A i \in DOMAIN hits : earned[i] \in Int /\ earned[i] <= Unit \div RRFOffset
      <3>1. ASSUME NEW i \in DOMAIN hits PROVE earned[i] = Unit \div (RRFOffset + rank(i))
        OBVIOUS
      <3> HIDE DEF earned, rank, hits
      <3> QED BY <1>1, <3>1, EarnedIs
    <2>3. Unit \div RRFOffset \in Int /\ Unit \div RRFOffset = 16666
      BY SMT DEF Unit, RRFOffset
    <2> HIDE DEF earned, hits
    <2>4. /\ SumFunctionOnSet(earned, Places(hits, c)) \in Int
          /\ SumFunctionOnSet(earned, Places(hits, c))
                <= (Unit \div RRFOffset) * Cardinality(Places(hits, c))
      BY <2>1, <2>2, <2>3, SumBound
    <2> QED BY SMT, <2>1, <2>3, <2>4 DEF Little
  <1>4. IsFiniteSet(firsts) /\ firsts \subseteq Int /\ firsts \subseteq DOMAIN hits
    <2>1. IsFiniteSet(DOMAIN hits)
      <3> HIDE DEF hits
      <3> QED BY <1>1, FS_Interval
    <2>2. firsts \in SUBSET (DOMAIN hits)
      OBVIOUS
    <2> HIDE DEF firsts, hits
    <2>3. IsFiniteSet(firsts)
      BY <2>1, <2>2, FS_Subset
    <2> QED BY <1>1, <2>2, <2>3
  <1>5. Cardinality(firsts) \in Nat
    <2> HIDE DEF firsts
    <2> QED BY <1>4, FS_CardinalityType
  <1>6. ASSUME NEW n \in 1..Cardinality(firsts)
        PROVE  hits[Nth(firsts, n)].chunk \in Chunks
    <2>1. Nth(firsts, n) \in DOMAIN hits
      <3> HIDE DEF firsts, hits
      <3> QED BY <1>4, NthIs
    <2>2. hits[Nth(firsts, n)] \in Range(dense) \cup Range(sparse)
      BY <1>1, <2>1
    <2> QED BY <2>2
  <1> DEFINE H == [chunk : Chunks, score : Scores]
  <1>7. merged \in Seq(H) /\ \A h \in H : h.score \in Int
    <2> HIDE DEF firsts, hits, Chunks, Scores, rrf
    <2>1. ASSUME NEW n \in 1..Cardinality(firsts) PROVE merged[n] \in H
      BY <1>3, <1>6
    <2>2. merged \in [1..Cardinality(firsts) -> H]
      BY <2>1
    <2>3. merged \in Seq(H)
      <3> HIDE DEF H
      <3>1. \A k \in Nat : \A g \in [1..k -> H] : g \in Seq(H)
        OBVIOUS
      <3> QED BY <1>5, <2>2, <3>1
    <2>4. \A h \in H : h.score \in Int
      BY DEF Scores
    <2> QED BY <2>3, <2>4
  <1>8. Sorted(merged) \in Seq(H)
    <2> HIDE DEF merged, H
    <2> QED BY <1>7, SortedIs
  <1> QED BY <1>2, <1>8

\* The score the reranker gives a hit.
Score(question, h) ==
    LET terms == Terms(question)
        size == Max({Cardinality(terms), 1})
        overlap(words) == Cardinality(terms \cap words)
    IN h.score + (Unit * overlap(ContentTerms(h.chunk))) \div size
               + (3 * Unit * overlap(Terms(h.chunk.title))) \div (2 * size)

\* A hit that shares no word with the question keeps the score it came with.
LEMMA ScoreIs ==
    ASSUME NEW question, IsFiniteSet(question), NEW h, h.score \in Int
    PROVE  /\ Score(question, h) \in Int
           /\ ~Supports(question, h) => Score(question, h) = h.score
  <1> DEFINE terms == Terms(question)
             content == Cardinality(terms \cap ContentTerms(h.chunk))
             title == Cardinality(terms \cap Terms(h.chunk.title))
             size == Max({Cardinality(terms), 1})
  <1>1. IsFiniteSet(terms)
    BY FS_Difference DEF Terms
  <1> HIDE DEF terms
  <1>2. content \in Nat /\ title \in Nat /\ Cardinality(terms) \in Nat
    BY <1>1, FS_Intersection, FS_CardinalityType
  <1>3. size \in Nat /\ size >= 1
    <2>0. Cardinality(terms) \in Int /\ 1 \in Int
      BY <1>2
    <2>1. Max({Cardinality(terms), 1}) \in {Cardinality(terms), 1}
          /\ Max({Cardinality(terms), 1}) >= 1
      BY <2>0, MaxOfTwo
    <2> QED BY <1>2, <2>1
  <1>4. Score(question, h) = h.score + (Unit * content) \div size
                                     + (3 * Unit * title) \div (2 * size)
    BY DEF Score, terms
  <1>5. ~Supports(question, h) => content = 0 /\ title = 0
    <2> SUFFICES ASSUME ~Supports(question, h) PROVE content = 0 /\ title = 0
      OBVIOUS
    <2>1. terms \cap ContentTerms(h.chunk) = {} /\ terms \cap Terms(h.chunk.title) = {}
      BY DEF Supports, terms
    <2> QED BY <2>1, FS_EmptySet
  <1> HIDE DEF content, title, size
  <1>6. \A a \in Int, d \in Nat : d >= 1 => a \div d \in Int
    BY SMT
  <1>7. \A d \in Nat : d >= 1 => 0 \div d = 0
    BY SMT
  <1>8. /\ Unit * content \in Int /\ 3 * Unit * title \in Int
        /\ 2 * size \in Nat /\ 2 * size >= 1
        /\ content = 0 => Unit * content = 0
        /\ title = 0 => 3 * Unit * title = 0
    BY SMT, <1>2, <1>3 DEF Unit
  <1>9. /\ (Unit * content) \div size \in Int
        /\ (3 * Unit * title) \div (2 * size) \in Int
    BY SMT, <1>3, <1>6, <1>8
  <1>10. content = 0 /\ title = 0 => Score(question, h) = h.score
    BY SMT, <1>3, <1>4, <1>7, <1>8
  <1> QED BY SMT, <1>4, <1>5, <1>9, <1>10

\* What the reranker returns of a list of hits: at most TopN of them with their
\* new scores, one with the highest score first.
LEMMA RerankedIs ==
    ASSUME NEW question, IsFiniteSet(question),
           NEW S, \A h \in S : h.score \in Int, NEW list \in Seq(S)
    PROVE  LET hits == Reranked(question, list) IN
           /\ hits \in Seq({[chunk |-> h.chunk, score |-> Score(question, h)] : h \in S})
           /\ \A n \in 1..Len(hits) : hits[n].score <= hits[1].score
  <1> DEFINE new(h) == [chunk |-> h.chunk, score |-> Score(question, h)]
             scored == [i \in DOMAIN list |-> new(list[i])]
             T == {new(h) : h \in S}
             ranked == Sorted(scored)
             last == Min({TopN, Len(ranked)})
             hits == SubSeq(ranked, 1, last)
  <1>1. DOMAIN list = 1..Len(list) /\ Len(list) \in Nat /\ \A i \in DOMAIN list : list[i] \in S
    OBVIOUS
  <1>2. scored \in Seq(T)
    <2>1. \A i \in DOMAIN list : new(list[i]) \in T
      BY <1>1
    <2> HIDE DEF new, T
    <2>2. scored \in [1..Len(list) -> T]
      BY <1>1, <2>1
    <2>3. \A k \in Nat : \A g \in [1..k -> T] : g \in Seq(T)
      OBVIOUS
    <2> HIDE DEF scored
    <2> QED BY <1>1, <2>2, <2>3
  <1>3. \A h \in T : h.score \in Int
    BY ScoreIs
  <1>4. /\ ranked \in Seq(T) /\ Len(ranked) \in Nat
        /\ \A n \in 1..Len(ranked) : ranked[n].score <= ranked[1].score
    <2> HIDE DEF scored, T
    <2>1. /\ Sorted(scored) \in Seq(T) /\ Len(Sorted(scored)) = Len(scored)
          /\ \A n \in 1..Len(scored) : Sorted(scored)[n].score <= Sorted(scored)[1].score
      BY <1>2, <1>3, SortedIs
    <2> QED BY <1>2, <2>1
  <1> HIDE DEF ranked, scored
  <1>5. last \in Nat /\ last <= Len(ranked)
    <2>1. TopN \in Nat /\ Len(ranked) \in Nat /\ TopN \in Int /\ Len(ranked) \in Int
      BY <1>4 DEF TopN
    <2>2. Min({TopN, Len(ranked)}) \in {TopN, Len(ranked)}
          /\ Min({TopN, Len(ranked)}) <= Len(ranked)
      BY <2>1, MinOfTwo
    <2> QED BY <2>1, <2>2
  <1> HIDE DEF last, T
  <1>6. /\ hits \in Seq(T) /\ Len(hits) = last /\ \A i \in 1..last : hits[i] = ranked[i]
    <2>1. \A i \in 1..last : ranked[i] \in T
      BY <1>4, <1>5
    <2>2. /\ hits \in Seq(T)
          /\ Len(hits) = IF 1 <= last THEN last - 1 + 1 ELSE 0
          /\ \A i \in 1..(last - 1 + 1) : hits[i] = ranked[1 + i - 1]
      BY <1>5, <2>1, SubSeqProperties
    <2>3. \A i \in 1..last : i \in 1..(last - 1 + 1) /\ 1 + i - 1 = i
      BY <1>5
    <2> HIDE DEF hits
    <2> QED BY <1>5, <2>2, <2>3
  <1>7. \A n \in 1..Len(hits) : hits[n].score <= hits[1].score
    <2> HIDE DEF hits
    <2>1. \A n \in 1..last : 1 \in 1..last /\ n \in 1..Len(ranked)
      BY <1>4, <1>5
    <2> QED BY <1>4, <1>6, <2>1
  <1>8. Reranked(question, list) = hits
    BY DEF Reranked, Score, ranked, scored, last
  <1> QED BY <1>6, <1>7, <1>8 DEF T

\* The lists of a search are as SearchAssumption has them.
LEMMA FoundLists ==
    ASSUME NEW s \in Searches
    PROVE  IsFiniteSet(s.question) /\ Found(s.dense) /\ Found(s.sparse)
  BY SearchAssumption DEF Found, Places

\* A search in both ways whose answer is not flagged has a first hit that
\* shares a word with the question, and words of it are in the context of any
\* size: what a chunk earns by its places is not a fifth of the threshold.
LEMMA OutcomeHonest ==
    ASSUME NEW s \in Searches, NEW n \in ContextSizes,
           s.mode = "hybrid", ~Outcome(s, n).flagged
    PROVE  Outcome(s, n).supported /\ (Outcome(s, n).language = "de" => Outcome(s, n).grounded)
  <1> DEFINE q == s.question
             list == Fused(s.dense, s.sparse)
             hits == Searched(s)
             C == {h.chunk : h \in Range(s.dense) \cup Range(s.sparse)}
             H == [chunk : C, score : {x \in Int : x <= Little}]
             T == {[chunk |-> h.chunk, score |-> Score(q, h)] : h \in H}
  <1>0. /\ Outcome(s, n).flagged = Flagged(hits) /\ Outcome(s, n).language = s.language
        /\ Outcome(s, n).supported = (hits # <<>> /\ Supports(q, hits[1]))
        /\ Outcome(s, n).grounded =
              (hits # <<>> /\
               Words(hits[1]) \cap Evidence(Prompt(Context(hits, n), s.language)) # {})
    BY DEF Outcome
  <1>1. hits = Reranked(q, list)
    BY DEF Searched
  <1>2. list \in Seq(H) /\ \A h \in H : h.score \in Int
    BY FoundLists, FusedIs
  <1>3. hits \in Seq(T) /\ \A m \in 1..Len(hits) : hits[m].score <= hits[1].score
    <2>1. IsFiniteSet(q)
      BY FoundLists
    <2> HIDE DEF q, list, H, hits
    <2>2. LET r == Reranked(q, list) IN
          /\ r \in Seq({[chunk |-> h.chunk, score |-> Score(q, h)] : h \in H})
          /\ \A m \in 1..Len(r) : r[m].score <= r[1].score
      BY <1>2, <2>1, RerankedIs
    <2> QED BY <1>1, <2>2
  <1> HIDE DEF hits, list, q
  <1>4. ~Flagged(hits)
    BY <1>0
  <1>5. /\ Len(hits) \in Nat /\ Len(hits) >= 1 /\ DOMAIN hits = 1..Len(hits)
        /\ 1 \in 1..Len(hits) /\ hits # <<>>
    <2>1. hits # <<>>
      BY <1>4 DEF Flagged
    <2> HIDE DEF T
    <2> QED BY <1>3, <2>1
  <1>6. \A m \in 1..Len(hits) : \E h \in H :
           hits[m].chunk = h.chunk /\ hits[m].score = Score(q, h)
    <2>1. \A m \in 1..Len(hits) : hits[m] \in T
      <3> HIDE DEF T
      <3> QED BY <1>3
    <2> QED BY <2>1
  <1>7. \A m \in 1..Len(hits) : hits[m].score \in Int /\ hits[m].chunk \in C
    <2>1. \A h \in H : Score(q, h) \in Int /\ h.chunk \in C
      BY FoundLists, ScoreIs DEF q
    <2> HIDE DEF H, C
    <2> QED BY <1>6, <2>1
  <1>8. ASSUME ~Supports(q, hits[1]) PROVE FALSE
    <2>1. PICK h \in H : hits[1].chunk = h.chunk /\ hits[1].score = Score(q, h)
      BY <1>5, <1>6
    <2>2. ~Supports(q, h)
      BY <1>8, <2>1 DEF Supports
    <2>3. Score(q, h) = h.score
      BY <2>2, FoundLists, ScoreIs DEF q
    <2>4. h.score <= Little /\ h.score \in Int
      OBVIOUS
    <2>5. Little = 99996 /\ Threshold = 500000
      BY SMT DEF Little, Threshold, Unit, RRFOffset
    <2>6. \A m \in 1..Len(hits) : hits[m].score \in Int /\ hits[m].score <= 99996
      BY SMT, <1>3, <1>5, <1>7, <2>1, <2>3, <2>4, <2>5
    <2> DEFINE scores == [i \in DOMAIN hits |-> hits[i].score]
    <2>7. \A i \in 1..Len(hits) : scores[i] \in Int /\ scores[i] <= 99996
      BY SMT, <1>5, <2>6
    <2>8. DOMAIN scores = 1..Len(hits) /\ IsFiniteSet(1..Len(hits))
          /\ Cardinality(1..Len(hits)) = Len(hits)
      <3>1. \A m \in Nat : (IF 1 > m THEN 0 ELSE m - 1 + 1) = m
        OBVIOUS
      <3>2. \A m \in Nat : IsFiniteSet(1..m) /\ Cardinality(1..m) = m
        BY <3>1, FS_Interval
      <3> QED BY <1>5, <3>2
    <2>9. Total(hits) = SumFunctionOnSet(scores, DOMAIN scores)
      BY DEF Total, SumFunction
    <2> HIDE DEF scores
    <2>b. PICK B \in Int : B = 99996
      BY SMT
    <2>c. \A i \in 1..Len(hits) : scores[i] \in Int /\ scores[i] <= B
      BY SMT, <2>7, <2>b
    <2>d. /\ SumFunctionOnSet(scores, 1..Len(hits)) \in Int
          /\ SumFunctionOnSet(scores, 1..Len(hits)) <= B * Cardinality(1..Len(hits))
      BY <2>8, <2>c, SumBound
    <2>10. /\ SumFunctionOnSet(scores, 1..Len(hits)) \in Int
           /\ SumFunctionOnSet(scores, 1..Len(hits)) <= 99996 * Cardinality(1..Len(hits))
      BY SMT, <2>b, <2>d
    <2>11. Total(hits) \in Int /\ Total(hits) <= 99996 * Len(hits)
      BY SMT, <2>8, <2>9, <2>10
    <2>12. ~(Total(hits) < Threshold * Len(hits))
      BY <1>4 DEF Flagged
    <2> QED BY SMT, <1>5, <2>5, <2>11, <2>12
  <1>9. ASSUME s.language = "de"
        PROVE  Words(hits[1]) \cap Evidence(Prompt(Context(hits, n), s.language)) # {}
    <2> DEFINE p == Prompt(Context(hits, n), s.language)
    <2>1. p.label = "Kontext" /\ p.context = Context(hits, n)
      BY <1>9 DEF Prompt, Label
    <2>2. 1 \in DOMAIN Context(hits, n) /\ Context(hits, n)[1] = hits[1]
      <3>1. PICK k \in Int : k = Min({n, Len(hits)}) /\ 1 <= k /\ k <= Len(hits)
        <4>1. n \in Int /\ 1 <= n
          BY ContextAssumption
        <4>2. \A a, b \in Int : Min({a, b}) \in {a, b} /\ Min({a, b}) <= b
          BY MinOfTwo
        <4>3. Len(hits) \in Int
          BY <1>5
        <4>4. Min({n, Len(hits)}) \in {n, Len(hits)} /\ Min({n, Len(hits)}) <= Len(hits)
          BY <4>1, <4>2, <4>3
        <4> QED BY <1>5, <4>1, <4>3, <4>4
      <3> HIDE DEF T
      <3>2. \A i \in 1..k : hits[i] \in T
        BY <1>3, <1>5, <3>1
      <3>3. \A a, b \in Int : (\A i \in a..b : hits[i] \in T) =>
               /\ SubSeq(hits, a, b) \in Seq(T)
               /\ Len(SubSeq(hits, a, b)) = IF a <= b THEN b - a + 1 ELSE 0
               /\ \A i \in 1..(b - a + 1) : SubSeq(hits, a, b)[i] = hits[a + i - 1]
        BY SubSeqProperties
      <3>4. PICK one \in Int : one = 1
        OBVIOUS
      <3>5. /\ SubSeq(hits, one, k) \in Seq(T)
            /\ Len(SubSeq(hits, one, k)) = IF one <= k THEN k - one + 1 ELSE 0
            /\ \A i \in 1..(k - one + 1) : SubSeq(hits, one, k)[i] = hits[one + i - 1]
        BY <3>2, <3>3, <3>4
      <3>6. k - one + 1 = k /\ one <= k /\ one \in 1..k /\ one + one - 1 = one
        BY <3>1, <3>4
      <3>7. Len(SubSeq(hits, one, k)) = k /\ SubSeq(hits, one, k)[one] = hits[one]
        BY <3>5, <3>6
      <3>8. one \in DOMAIN SubSeq(hits, one, k)
        BY <3>5, <3>6, <3>7
      <3>9. Context(hits, n) = SubSeq(hits, one, k)
        BY <3>1, <3>4 DEF Context
      <3> QED BY <3>4, <3>7, <3>8, <3>9
    <2>3. PICK l \in hits[1].chunk.lines : l.words # {}
      <3>1. PICK h \in Range(s.dense) \cup Range(s.sparse) : hits[1].chunk = h.chunk
        BY <1>5, <1>7
      <3>2. \A f \in {s.dense, s.sparse} : \A g \in Range(f) : \E m \in g.chunk.lines : m.words # {}
        BY FoundLists DEF Found, Range
      <3> QED BY <3>1, <3>2
    <2>4. PICK w : w \in l.words
      BY <2>3
    <2>5. w \in Words(hits[1])
      BY <2>3, <2>4 DEF Words
    <2>6. Evidence(p) = UNION {Words(Context(hits, n)[i]) : i \in DOMAIN Context(hits, n)}
      <3> HIDE DEF p
      <3> QED BY <2>1 DEF Evidence
    <2>7. w \in Evidence(p)
      <3> HIDE DEF p
      <3>1. Words(Context(hits, n)[1]) \subseteq Evidence(p)
        BY <2>2, <2>6
      <3> QED BY <2>2, <2>5, <3>1
    <2> QED BY <2>5, <2>7
  <1> QED BY <1>0, <1>5, <1>8, <1>9

\* Behind the search the handler holds the outcome of one.
ResultInv == pc = "audit" => result \in Outcomes

LEMMA InitResult == Init => ResultInv
  BY DEF Init, ResultInv

LEMMA StepResult == ResultInv /\ [Next]_vars => ResultInv'
  BY DEF ResultInv, Next, Handler, WidgetAsk, WidgetSend, PortalAsk, Receive, Accept, Drop, Search,
         LogQueryEvent, HistorySet, Return, Raise, Restart, Leave, server, vars

\* No hybrid answer passes unflagged whose first hit has nothing to do with the
\* question, and a German one is given text of that hit, for every size of the
\* context (main.py 101-114, retrieval.py, reranker.py).
THEOREM FlagIsHonest == Spec => []FlagHonest
  <1>1. ResultInv => FlagHonest
    <2> SUFFICES ASSUME ResultInv, pc = "audit", result.mode = "hybrid", ~result.flagged
                 PROVE  result.supported /\ (result.language = "de" => result.grounded)
      BY DEF FlagHonest
    <2>1. PICK s \in Searches, n \in ContextSizes : result = Outcome(s, n)
      BY DEF ResultInv, Outcomes
    <2>2. s.mode = "hybrid"
      BY <2>1 DEF Outcome
    <2> QED BY <2>1, <2>2, OutcomeHonest
  <1> QED BY <1>1, InitResult, StepResult, PTL DEF Spec
=============================================================================
