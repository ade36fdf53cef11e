-------------------------- MODULE AdminUsersProofs --------------------------
(***************************************************************************)
(* What the log, the listings and the roles can be relied on for, with any *)
(* number of operators, accounts, names, roles and requests, whichever     *)
(* calls to Keycloak fail.                                                 *)
(***************************************************************************)
EXTENDS AdminUsers, FunctionTheorems, FiniteSetTheorems, TLAPS

\* Where a request can be.
Stations ==
    [audit |-> {"read", "done"}, summary |-> {"read", "done"},
     list |-> {"token", "users", "roles", "done"},
     create |-> {"token", "post", "search", "role", "map", "log", "done"},
     delete |-> {"token", "delete", "log", "done"}]

StationInv ==
    \A o \in Operators :
        /\ job[o].at \in Stations[job[o].kind]
        /\ job[o].kind = "create" => job[o].name \in Emails /\ job[o].role \in Wanted
        /\ job[o].kind = "delete" => job[o].user \in Ids
        /\ job[o].at = "map" => job[o].role \in RealmRoles

Typed == TypeOK /\ StationInv

-----------------------------------------------------------------------------
(* Types.                                                                  *)

LEMMA KindsAre == DOMAIN Endpoint = {"audit", "summary", "list", "create", "delete"}
  BY DEF Endpoint

\* The answers of the two gates.
LEMMA GateAnswers ==
    ASSUME NEW endpoint, NEW token, NEW namespace, NEW env
    PROVE  Admitted(endpoint, token, namespace, env) \in {200, 401, 403, 500}
  <1>1. Decoded(token, env) \in {200, 401, 500}
    BY DEF Decoded
  <1>2. RequireRoles(Endpoint[endpoint].roles, token, namespace, env) \in {200, 401, 403, 500}
    BY <1>1 DEF RequireRoles
  <1> QED BY <1>2 DEF Admitted

LEMMA NewJob ==
    ASSUME NEW kind \in DOMAIN Endpoint, NEW l \in Credentials, NEW name \in Emails \cup {None},
           NEW role \in Wanted \cup {None}, NEW user \in Nat
    PROVE  LET r == New(kind, l, name, role, user) IN
           /\ r \in Job
           /\ r.kind = kind /\ r.name = name /\ r.role = role /\ r.user = user
           /\ r.at = IF kind \in Reads THEN "read" ELSE "token"
  <1>1. <<>> \in Seq(Nat) /\ <<>> \in Seq(Item)
    OBVIOUS
  <1> QED BY <1>1 DEF New, NoId, Job, Points, Calling

LEMMA NewType ==
    ASSUME TypeOK, NEW r \in NewRequests
    PROVE  /\ r \in Job
           /\ r.at # "done" /\ r.at # "map" /\ r.at \in Stations[r.kind]
           /\ r.kind = "create" => r.name \in Emails /\ r.role \in Wanted
           /\ r.kind = "delete" => r.user \in Ids
  <1>1. NoId \in Nat /\ Ids \subseteq Nat
    BY DEF NoId, TypeOK, Ids
  <1>2. CASE \E kind \in Reads \cup {"list"}, l \in Credentials :
                r = New(kind, l, None, None, NoId)
    BY <1>1, <1>2, KindsAre, NewJob DEF Reads, Stations
  <1>3. CASE \E l \in Credentials, id \in Ids : r = New("delete", l, None, None, id)
    <2>1. PICK l \in Credentials, id \in Ids : r = New("delete", l, None, None, id)
      BY <1>3
    <2>2. r \in Job /\ r.kind = "delete" /\ r.user = id /\ r.at = "token"
      BY <1>1, <2>1, KindsAre, NewJob DEF Reads
    <2> QED BY <2>2 DEF Stations
  <1>4. CASE \E l \in Credentials, n \in Emails, w \in Wanted : r = New("create", l, n, w, NoId)
    BY <1>1, <1>4, KindsAre, NewJob DEF Reads, Stations
  <1> QED BY <1>2, <1>3, <1>4 DEF NewRequests

\* Changing a field of a job.
LEMMA JobAt == ASSUME NEW r \in Job, NEW at \in Points PROVE [r EXCEPT !.at = at] \in Job
  BY DEF Job

LEMMA JobStatus == ASSUME NEW r \in Job, NEW status \in Nat PROVE [r EXCEPT !.status = status] \in Job
  BY DEF Job

LEMMA JobUser == ASSUME NEW r \in Job, NEW user \in Nat PROVE [r EXCEPT !.user = user] \in Job
  BY DEF Job

LEMMA JobMade == ASSUME NEW r \in Job, NEW made \in Nat PROVE [r EXCEPT !.made = made] \in Job
  BY DEF Job

LEMMA JobTodo == ASSUME NEW r \in Job, NEW todo \in Seq(Nat) PROVE [r EXCEPT !.todo = todo] \in Job
  BY DEF Job

LEMMA PointsAre == Points = {"done", "log", "read", "token", "post", "search", "role", "map",
                             "delete", "users", "roles"}
  BY DEF Points, Calling

LEMMA InitTyped == Init => Typed
  <1> SUFFICES ASSUME Init PROVE Typed
    OBVIOUS
  <1>1. PICK l \in Credentials :
            job = [o \in Operators |-> [New("list", l, None, None, NoId) EXCEPT !.at = "done"]]
    BY DEF Init
  <1> DEFINE r == New("list", l, None, None, NoId)
  <1>2. r \in Job /\ r.kind = "list"
    <2>1. "list" \in DOMAIN Endpoint /\ NoId \in Nat
      BY KindsAre DEF NoId
    <2> QED BY <2>1, NewJob
  <1> HIDE DEF r
  <1>3. [r EXCEPT !.at = "done"] \in Job /\ [r EXCEPT !.at = "done"].at = "done"
        /\ [r EXCEPT !.at = "done"].kind = "list"
    <2>1. [r EXCEPT !.at = "done"] \in Job
      BY <1>2, JobAt, PointsAre
    <2> QED BY <1>2, <2>1 DEF Job
  <1>4. job = [o \in Operators |-> [r EXCEPT !.at = "done"]]
    BY <1>1 DEF r
  <1>5. job \in [Operators -> Job] /\ \A o \in Operators : job[o].at = "done" /\ job[o].kind = "list"
    BY <1>3, <1>4
  <1>6. StationInv
    BY <1>5, KindsAre DEF StationInv, Stations
  <1>7. TypeOK
    BY <1>5, AdminAssumption DEF Init, TypeOK, Ids
  <1> QED BY <1>6, <1>7 DEF Typed

\* Accounts are numbered 1, 2, ...
LEMMA IdsAre == TypeOK => Ids = 1..Len(names) /\ Len(names) \in Nat /\ IsFiniteSet(Ids)
  <1> SUFFICES ASSUME TypeOK PROVE Ids = 1..Len(names) /\ Len(names) \in Nat /\ IsFiniteSet(Ids)
    OBVIOUS
  <1>1. Ids = 1..Len(names) /\ Len(names) \in Nat
    BY DEF TypeOK, Ids
  <1>2. IsFiniteSet(1..Len(names))
    BY <1>1, FS_Interval
  <1> QED BY <1>1, <1>2

LEMMA ListingType ==
    ASSUME TypeOK, NEW ids \in SUBSET Ids, NEW list \in Listings(ids)
    PROVE  /\ list \in Seq(Nat)
           /\ \A i \in DOMAIN list : list[i] \in ids
  <1> DEFINE n == Cardinality(ids)
  <1>1. n \in Nat
    BY IdsAre, FS_Subset, FS_CardinalityType
  <1>2. list \in [1..n -> ids]
    BY DEF Listings
  <1>3. ids \subseteq Nat
    BY IdsAre
  <1>4. list \in [1..n -> Nat]
    BY <1>2, <1>3
  <1> HIDE DEF n
  <1>5. list \in Seq(Nat)
    BY <1>1, <1>4
  <1> QED BY <1>2, <1>5

-----------------------------------------------------------------------------
(* The steps of a handler change the job of their operator; only a         *)
(* deletion touches others, and of those only `excuse'.                    *)

\* The job of operator o is r now, the others are as they were.
Becomes(o, r) == job' = [job EXCEPT ![o] = r]

\* What no step of a handler changes in a job.
SameRequest(r, s) == r.kind = s.kind /\ r.login = s.login /\ r.name = s.name /\ r.role = s.role

LEMMA JobStep ==
    ASSUME Typed, NEW o \in Operators, NEW r \in Job, Becomes(o, r),
           SameRequest(r, job[o]), r.at \in Stations[r.kind],
           r.kind = "delete" => r.user = job[o].user,
           r.at = "map" => r.role \in RealmRoles,
           Ids \subseteq Ids'
    PROVE  job' \in [Operators -> Job] /\ StationInv'
  <1>1. job' \in [Operators -> Job]
    BY DEF Becomes, Typed, TypeOK
  <1>2. ASSUME NEW p \in Operators PROVE job'[p] = IF p = o THEN r ELSE job[p]
    BY DEF Becomes, Typed, TypeOK
  <1>3. StationInv'
    BY <1>2 DEF Typed, StationInv, SameRequest
  <1> QED BY <1>1, <1>3

LEMMA BreakIs ==
    ASSUME TypeOK, NEW o \in Operators
    PROVE  /\ Broken(o) \in Job
           /\ SameRequest(Broken(o), job[o]) /\ Broken(o).user = job[o].user
           /\ Broken(o).at = "done" /\ Broken(o).status = 500 /\ Broken(o).excuse = "call"
           /\ Break(o) => Becomes(o, Broken(o))
  <1>1. job[o] \in Job
    BY DEF TypeOK
  <1>2. Broken(o) \in Job
    <2>1. PICK status \in Nat : status = 500
      OBVIOUS
    <2>2. PICK excuse \in {None, "call", "gone"} : excuse = "call"
      OBVIOUS
    <2>3. [job[o] EXCEPT !.at = "done", !.status = status, !.excuse = excuse] \in Job
      BY <1>1 DEF Job, Points
    <2> QED BY <2>1, <2>2, <2>3 DEF Broken
  <1>3. /\ SameRequest(Broken(o), job[o]) /\ Broken(o).user = job[o].user
        /\ Broken(o).at = "done" /\ Broken(o).status = 500 /\ Broken(o).excuse = "call"
    BY <1>1 DEF Broken, SameRequest, Job
  <1>4. Break(o) => Becomes(o, Broken(o))
    BY DEF Break, Becomes
  <1> QED BY <1>2, <1>3, <1>4

LEMMA AnswerIs ==
    ASSUME TypeOK, NEW o \in Operators, NEW status \in Nat, Answer(o, status)
    PROVE  LET r == [job[o] EXCEPT !.at = "done", !.status = status]
           IN  r \in Job /\ Becomes(o, r)
  <1>1. job[o] \in Job
    BY DEF TypeOK
  <1>2. [[job[o] EXCEPT !.at = "done"] EXCEPT !.status = status] \in Job
    BY <1>1, JobAt, JobStatus, PointsAre
  <1>3. [[job[o] EXCEPT !.at = "done"] EXCEPT !.status = status]
            = [job[o] EXCEPT !.at = "done", !.status = status]
    BY <1>1 DEF Job
  <1> QED BY <1>2, <1>3 DEF Answer, Becomes, TypeOK

LEMMA GotoIs ==
    ASSUME TypeOK, NEW o \in Operators, NEW at \in Points, Goto(o, at)
    PROVE  LET r == [job[o] EXCEPT !.at = at]
           IN  r \in Job /\ Becomes(o, r)
  <1>1. job[o] \in Job
    BY DEF TypeOK
  <1>2. [job[o] EXCEPT !.at = at] \in Job
    BY <1>1, JobAt
  <1> QED BY <1>1, <1>2 DEF Goto, Becomes, TypeOK

LEMMA AlwaysDone == \A kind \in DOMAIN Endpoint : "done" \in Stations[kind]
  BY KindsAre DEF Stations

\* A call that raises.
LEMMA BreakTyped ==
    ASSUME Typed, NEW o \in Operators, Break(o), Ids \subseteq Ids'
    PROVE  job' \in [Operators -> Job] /\ StationInv'
  <1>1. job[o].kind \in DOMAIN Endpoint
    BY DEF Typed, TypeOK, Job
  <1> QED BY <1>1, BreakIs, JobStep, AlwaysDone DEF Typed, SameRequest

\* An answer that ends the request.
LEMMA AnswerTyped ==
    ASSUME Typed, NEW o \in Operators, NEW status \in Nat, Answer(o, status), Ids \subseteq Ids'
    PROVE  job' \in [Operators -> Job] /\ StationInv'
  <1>1. job[o] \in Job
    BY DEF Typed, TypeOK
  <1> DEFINE r == [job[o] EXCEPT !.at = "done", !.status = status]
  <1>2. r \in Job /\ Becomes(o, r)
    BY AnswerIs DEF Typed
  <1>3. SameRequest(r, job[o]) /\ r.user = job[o].user /\ r.at = "done"
    BY <1>1 DEF SameRequest, Job
  <1> HIDE DEF r
  <1>4. r.at \in Stations[r.kind]
    BY <1>1, <1>3, AlwaysDone DEF SameRequest, Job
  <1> QED BY <1>2, <1>3, <1>4, JobStep

\* The next call.
LEMMA GotoTyped ==
    ASSUME Typed, NEW o \in Operators, NEW at \in Stations[job[o].kind], Goto(o, at),
           at = "map" => job[o].role \in RealmRoles, Ids \subseteq Ids'
    PROVE  job' \in [Operators -> Job] /\ StationInv'
  <1>1. job[o] \in Job
    BY DEF Typed, TypeOK
  <1>2. at \in Points
    BY <1>1, KindsAre DEF Stations, Points, Calling, Job
  <1> DEFINE r == [job[o] EXCEPT !.at = at]
  <1>3. r \in Job /\ Becomes(o, r)
    BY <1>2, GotoIs DEF Typed
  <1>4. SameRequest(r, job[o]) /\ r.user = job[o].user /\ r.at = at
    BY <1>1 DEF SameRequest, Job
  <1> HIDE DEF r
  <1> QED BY <1>3, <1>4, JobStep DEF SameRequest

LEMMA StepTyped == Typed /\ [Next]_vars => Typed'
  <1> SUFFICES ASSUME Typed, [Next]_vars PROVE Typed'
    OBVIOUS
  <1>k. \A o \in Operators : job[o] \in Job /\ job[o].kind \in DOMAIN Endpoint
            /\ job[o].at \in Stations[job[o].kind]
    BY DEF Typed, TypeOK, StationInv, Job
  <1>1. ASSUME NEW o \in Operators, Arrive(o) PROVE Typed'
    <2>1. PICK r \in NewRequests :
            LET gate == Admitted(r.kind, r.login.token, r.login.namespace, Env) IN
            IF gate = 200
            THEN /\ job' = [job EXCEPT ![o] = r]
                 /\ asked' = IF r.kind = "create" THEN asked \cup {<<r.name, r.role>>}
                                               ELSE asked
            ELSE /\ job' = [job EXCEPT ![o] = [r EXCEPT !.at = "done", !.status = gate]]
                 /\ UNCHANGED asked
      BY <1>1 DEF Arrive
    <2> DEFINE gate == Admitted(r.kind, r.login.token, r.login.namespace, Env)
               s == [r EXCEPT !.at = "done", !.status = gate]
    <2>2. gate \in Nat
      BY GateAnswers
    <2>3. /\ r \in Job /\ r.at # "map" /\ r.at \in Stations[r.kind]
          /\ r.kind = "create" => r.name \in Emails /\ r.role \in Wanted
          /\ r.kind = "delete" => r.user \in Ids
      BY NewType DEF Typed
    <2> HIDE DEF gate
    <2>4. s \in Job /\ s.kind = r.kind /\ s.name = r.name /\ s.role = r.role /\ s.user = r.user
          /\ s.at = "done"
      BY <2>2, <2>3 DEF Job, Points
    <2>5. s.at \in Stations[s.kind]
      BY <2>3, <2>4, AlwaysDone DEF Job
    <2>6. UNCHANGED <<accounts, names, log>> /\ sent' \in 0..MaxRequests
      BY <1>1, AdminAssumption DEF Arrive, Typed, TypeOK
    <2> HIDE DEF s
    <2>7. ASSUME NEW j \in Job, job' = [job EXCEPT ![o] = j], j = r \/ j = s
          PROVE  job' \in [Operators -> Job] /\ StationInv'
      <3>1. job' \in [Operators -> Job] /\ \A p \in Operators :
               job'[p] = IF p = o THEN j ELSE job[p]
        BY <2>7 DEF Typed, TypeOK
      <3> QED BY <2>3, <2>4, <2>5, <2>6, <2>7, <3>1 DEF Typed, StationInv, Ids
    <2>8. asked' \subseteq Emails \X Wanted
      BY <2>1, <2>3 DEF Typed, TypeOK
    <2>9. job' \in [Operators -> Job] /\ StationInv'
      BY <2>1, <2>3, <2>4, <2>7 DEF gate, s
    <2> QED BY <2>6, <2>8, <2>9 DEF Typed, TypeOK, Ids
  <1>2. ASSUME NEW o \in Operators, Read(o) \/ AdminToken(o) \/ GetRole(o) PROVE Typed'
    <2>1. UNCHANGED <<accounts, names, log, sent, asked>>
      BY <1>2 DEF Read, AdminToken, GetRole
    <2>2. Ids \subseteq Ids'
      BY <2>1 DEF Ids
    <2>3. CASE Break(o)
      BY <2>1, <2>2, <2>3, BreakTyped DEF Typed, TypeOK, Ids
    <2>4. CASE Answer(o, 200) \/ Answer(o, 500)
      BY <2>1, <2>2, <2>4, AnswerTyped DEF Typed, TypeOK, Ids
    <2>5. ASSUME NEW at \in Stations[job[o].kind], Goto(o, at),
                 at = "map" => job[o].role \in RealmRoles
          PROVE  Typed'
      BY <2>1, <2>2, <2>5, GotoTyped DEF Typed, TypeOK, Ids
    <2>6. CASE AdminToken(o) /\ ~Break(o)
      <3> DEFINE at == CASE job[o].kind = "create" -> "post"
                         [] job[o].kind = "delete" -> "delete"
                         [] OTHER -> "users"
      <3>1. Goto(o, at) /\ job[o].at = "token"
        BY <2>6 DEF AdminToken
      <3>2. at \in Stations[job[o].kind] /\ at # "map"
        BY <1>k, <3>1, KindsAre DEF Stations
      <3> HIDE DEF at
      <3> QED BY <2>5, <3>1, <3>2
    <2>7. CASE GetRole(o) /\ job[o].role \in RealmRoles /\ Goto(o, "map")
      <3>1. "map" \in Stations[job[o].kind]
        BY <1>k, <2>7, KindsAre DEF GetRole, Stations
      <3> QED BY <2>5, <2>7, <3>1
    <2> QED BY <1>2, <2>3, <2>4, <2>6, <2>7 DEF Read, AdminToken, GetRole
  <1>3. ASSUME NEW o \in Operators, PostUser(o) PROVE Typed'
    <2> DEFINE id == Len(names) + 1
    <2>1. UNCHANGED <<log, sent, asked>>
      BY <1>3 DEF PostUser
    <2>2. CASE UNCHANGED <<accounts, names>>
      <3>1. Ids \subseteq Ids'
        BY <2>2 DEF Ids
      <3>2. Break(o) \/ Answer(o, 409)
        BY <1>3, <2>2, IdsAre DEF PostUser, Typed, TypeOK
      <3> QED BY <2>1, <2>2, <3>1, <3>2, BreakTyped, AnswerTyped DEF Typed, TypeOK, Ids
    <2>3. CASE /\ names' = Append(names, job[o].name)
               /\ accounts' = [i \in DOMAIN accounts \cup {id} |->
                     IF i = id THEN [name |-> job[o].name, roles |-> {}] ELSE accounts[i]]
               /\ \/ job' = [job EXCEPT ![o].at = "search", ![o].made = id]
                  \/ Break(o)
      <3>1. job[o].at = "post" /\ job[o].kind = "create" /\ job[o].name \in Emails
        BY <1>3, <1>k, KindsAre DEF PostUser, Stations, Typed, StationInv
      <3>2. Len(names) \in Nat /\ Ids = 1..Len(names) /\ names \in Seq(Emails)
        BY IdsAre DEF Typed, TypeOK
      <3>3. names' \in Seq(Emails) /\ Ids' = 1..id /\ id \in Nat
        BY <2>3, <3>1, <3>2 DEF Ids
      <3>4. Ids \subseteq Ids'
        BY <3>2, <3>3
      <3>5. DOMAIN accounts' \subseteq Ids'
        BY <2>3, <3>2, <3>3 DEF Typed, TypeOK
      <3>6. \A i \in DOMAIN accounts' : accounts'[i] \in [name : Emails, roles : SUBSET RealmRoles]
        BY <2>3, <3>1 DEF Typed, TypeOK
      <3>7. job' \in [Operators -> Job] /\ StationInv'
        <4>1. CASE Break(o)
          BY <3>4, <4>1, BreakTyped
        <4>2. CASE job' = [job EXCEPT ![o].at = "search", ![o].made = id]
          <5> DEFINE r == [job[o] EXCEPT !.at = "search", !.made = id]
          <5>1. r \in Job
            <6>1. [[job[o] EXCEPT !.at = "search"] EXCEPT !.made = id] \in Job
              BY <1>k, <3>3, JobAt, JobMade, PointsAre
            <6>2. [[job[o] EXCEPT !.at = "search"] EXCEPT !.made = id] = r
              BY <1>k DEF Job
            <6> QED BY <6>1, <6>2
          <5>2. Becomes(o, r)
            BY <4>2 DEF Becomes
          <5>3. SameRequest(r, job[o]) /\ r.user = job[o].user /\ r.at = "search"
            BY <1>k DEF SameRequest, Job
          <5>4. "search" \in Stations["create"]
            BY DEF Stations
          <5> HIDE DEF r
          <5> QED BY <3>1, <3>4, <5>1, <5>2, <5>3, <5>4, JobStep DEF SameRequest
        <4> QED BY <2>3, <4>1, <4>2
      <3> QED BY <2>1, <3>3, <3>5, <3>6, <3>7 DEF Typed, TypeOK
    <2> QED BY <1>3, <2>2, <2>3 DEF PostUser
  <1>4. ASSUME NEW o \in Operators, SearchUser(o) PROVE Typed'
    <2>1. UNCHANGED <<accounts, names, log, sent, asked>> /\ Ids \subseteq Ids'
      BY <1>4 DEF SearchUser, Ids
    <2>2. CASE Break(o) \/ Answer(o, 500)
      BY <2>1, <2>2, BreakTyped, AnswerTyped DEF Typed, TypeOK, Ids
    <2>3. ASSUME NEW list \in Listings(Hits(job[o].name)), list # <<>>,
                 job' = [job EXCEPT ![o].at = "role", ![o].user = list[1]]
          PROVE  Typed'
      <3>1. list \in Seq(Nat)
        BY <2>3, ListingType DEF Hits, Typed, TypeOK
      <3>2. list[1] \in Nat
        BY <2>3, <3>1
      <3>3. job[o].at = "search" /\ job[o].kind = "create"
        BY <1>4, <1>k, KindsAre DEF SearchUser, Stations
      <3> DEFINE r == [job[o] EXCEPT !.at = "role", !.user = list[1]]
      <3>4. r \in Job
        <4>1. [[job[o] EXCEPT !.at = "role"] EXCEPT !.user = list[1]] \in Job
          BY <1>k, <3>2, JobAt, JobUser, PointsAre
        <4>2. [[job[o] EXCEPT !.at = "role"] EXCEPT !.user = list[1]] = r
          BY <1>k DEF Job
        <4> QED BY <4>1, <4>2
      <3>5. Becomes(o, r)
        BY <2>3 DEF Becomes
      <3>6. SameRequest(r, job[o]) /\ r.at = "role" /\ "role" \in Stations["create"]
        BY <1>k DEF SameRequest, Job, Stations
      <3> HIDE DEF r
      <3>7. job' \in [Operators -> Job] /\ StationInv'
        BY <2>1, <3>3, <3>4, <3>5, <3>6, JobStep DEF SameRequest
      <3> QED BY <2>1, <3>7 DEF Typed, TypeOK, Ids
    <2> QED BY <1>4, <2>2, <2>3 DEF SearchUser
  <1>5. ASSUME NEW o \in Operators, MapRole(o) PROVE Typed'
    <2>1. UNCHANGED <<names, log, sent, asked>> /\ Ids \subseteq Ids'
      BY <1>5 DEF MapRole, Ids
    <2>2. job[o].at = "map" /\ job[o].kind = "create" /\ job[o].role \in RealmRoles
      BY <1>5, <1>k, KindsAre DEF MapRole, Stations, Typed, StationInv
    <2>3. "log" \in Stations["create"]
      BY DEF Stations
    <2>4. job' \in [Operators -> Job] /\ StationInv'
      BY <1>5, <2>1, <2>2, <2>3, BreakTyped, GotoTyped DEF MapRole
    <2>5. /\ DOMAIN accounts' = DOMAIN accounts
          /\ \A i \in DOMAIN accounts : accounts'[i] \in [name : Emails, roles : SUBSET RealmRoles]
      BY <1>5, <2>2 DEF MapRole, Grant, Typed, TypeOK
    <2> QED BY <2>1, <2>4, <2>5 DEF Typed, TypeOK, Ids
  <1>6. ASSUME NEW o \in Operators, DeleteUser(o) PROVE Typed'
    <2>1. UNCHANGED <<names, log, sent, asked>> /\ Ids \subseteq Ids'
      BY <1>6 DEF DeleteUser, Ids
    <2>2. job[o].at = "delete" /\ job[o].kind = "delete"
      BY <1>6, <1>k, KindsAre DEF DeleteUser, Stations
    <2>3. CASE UNCHANGED accounts /\ (Break(o) \/ Answer(o, 404))
      BY <2>1, <2>3, BreakTyped, AnswerTyped DEF Typed, TypeOK, Ids
    <2>4. ASSUME accounts' = [i \in DOMAIN accounts \ {job[o].user} |-> accounts[i]],
                 NEW r \in {[job[o] EXCEPT !.at = "log"], Broken(o)},
                 job' = [p \in Operators |->
                    IF p = o THEN r
                    ELSE IF \E i \in DOMAIN job[p].todo : job[p].todo[i] = job[o].user
                         THEN [job[p] EXCEPT !.excuse = "gone"] ELSE job[p]]
          PROVE  Typed'
      <3>1. r \in Job /\ SameRequest(r, job[o]) /\ r.user = job[o].user /\ r.at \in {"log", "done"}
        <4>1. CASE r = Broken(o)
          BY <4>1, BreakIs DEF Typed
        <4>2. CASE r = [job[o] EXCEPT !.at = "log"]
          BY <1>k, <4>2 DEF Job, Points, SameRequest
        <4> QED BY <4>1, <4>2
      <3>2. ASSUME NEW p \in Operators
            PROVE  LET s == [job[p] EXCEPT !.excuse = "gone"] IN
                   s \in Job /\ SameRequest(s, job[p]) /\ s.user = job[p].user /\ s.at = job[p].at
        BY <1>k DEF Job, SameRequest
      <3>3. job' \in [Operators -> Job]
        BY <1>k, <2>4, <3>1, <3>2
      <3>4. ASSUME NEW p \in Operators
            PROVE  /\ SameRequest(job'[p], job[p]) /\ job'[p].user = job[p].user
                   /\ p # o => job'[p].at = job[p].at
                   /\ p = o => job'[p].at \in {"log", "done"}
        BY <2>4, <3>1, <3>2 DEF SameRequest
      <3>5. {"log", "done"} \subseteq Stations["delete"]
        BY DEF Stations
      <3>6. StationInv'
        BY <2>1, <2>2, <3>4, <3>5 DEF Typed, StationInv, SameRequest
      <3> QED BY <2>1, <2>4, <3>3, <3>6 DEF Typed, TypeOK, Ids
    <2> QED BY <1>6, <2>3, <2>4 DEF DeleteUser
  <1>7. ASSUME NEW o \in Operators, ListUsers(o) PROVE Typed'
    <2>1. UNCHANGED <<accounts, names, log, sent, asked>> /\ Ids \subseteq Ids'
      BY <1>7 DEF ListUsers, Ids
    <2>2. CASE Break(o)
      BY <2>1, <2>2, BreakTyped DEF Typed, TypeOK, Ids
    <2>3. ASSUME NEW list \in Listed, job' = [job EXCEPT ![o].at = "roles", ![o].todo = list]
          PROVE  Typed'
      <3>1. list \in Seq(Nat)
        BY ListingType DEF Listed, Typed, TypeOK
      <3>2. job[o].at = "users" /\ job[o].kind = "list"
        BY <1>7, <1>k, KindsAre DEF ListUsers, Stations
      <3> DEFINE r == [job[o] EXCEPT !.at = "roles", !.todo = list]
      <3>3. r \in Job
        <4>1. [[job[o] EXCEPT !.at = "roles"] EXCEPT !.todo = list] \in Job
          BY <1>k, <3>1, JobAt, JobTodo, PointsAre
        <4>2. [[job[o] EXCEPT !.at = "roles"] EXCEPT !.todo = list] = r
          BY <1>k DEF Job
        <4> QED BY <4>1, <4>2
      <3>4. Becomes(o, r)
        BY <2>3 DEF Becomes
      <3>5. SameRequest(r, job[o]) /\ r.at = "roles" /\ r.user = job[o].user
            /\ "roles" \in Stations["list"]
        BY <1>k DEF SameRequest, Job, Stations
      <3> HIDE DEF r
      <3>6. job' \in [Operators -> Job] /\ StationInv'
        BY <2>1, <3>2, <3>3, <3>4, <3>5, JobStep DEF SameRequest
      <3> QED BY <2>1, <3>6 DEF Typed, TypeOK, Ids
    <2> QED BY <1>7, <2>2, <2>3 DEF ListUsers
  <1>8. ASSUME NEW o \in Operators, ListRoles(o) PROVE Typed'
    <2>1. UNCHANGED <<accounts, names, log, sent, asked>> /\ Ids \subseteq Ids'
      BY <1>8 DEF ListRoles, Ids
    <2>2. CASE Break(o) \/ Answer(o, 200) \/ Answer(o, 500)
      BY <2>1, <2>2, BreakTyped, AnswerTyped DEF Typed, TypeOK, Ids
    <2> DEFINE id == Head(job[o].todo)
               item == [id |-> id, roles |-> accounts[id].roles]
    <2>3. CASE /\ job[o].todo # <<>> /\ id \in DOMAIN accounts
               /\ job' = [job EXCEPT ![o].todo = Tail(@), ![o].items = Append(@, item)]
      <3>1. job[o].todo \in Seq(Nat) /\ job[o].items \in Seq(Item)
        BY <1>k DEF Job
      <3>2. Tail(job[o].todo) \in Seq(Nat) /\ id \in Nat
        BY <2>3, <3>1
      <3>3. item \in Item
        BY <2>3, <3>2 DEF Item, Typed, TypeOK
      <3> DEFINE items == Append(job[o].items, item)
                 todo == Tail(job[o].todo)
      <3>4. items \in Seq(Item)
        BY <3>1, <3>3
      <3> DEFINE r == [job[o] EXCEPT !.todo = todo, !.items = items]
      <3>5. Becomes(o, r)
        BY <2>3 DEF Becomes
      <3>a. todo \in Seq(Nat)
        BY <3>2
      <3> HIDE DEF items, todo
      <3>6. r \in Job
        BY <1>k, <3>a, <3>4 DEF Job
      <3>7. SameRequest(r, job[o]) /\ r.at = job[o].at /\ r.user = job[o].user
        BY <1>k DEF SameRequest, Job
      <3> HIDE DEF r
      <3>8. job' \in [Operators -> Job] /\ StationInv'
        BY <1>k, <2>1, <3>5, <3>6, <3>7, JobStep DEF SameRequest, Typed, StationInv
      <3> QED BY <2>1, <3>8 DEF Typed, TypeOK, Ids
    <2>4. \/ Answer(o, 200)
          \/ /\ job[o].todo # <<>> /\ id \in DOMAIN accounts
             /\ job' = [job EXCEPT ![o].todo = Tail(@), ![o].items = Append(@, item)]
          \/ Answer(o, 500)
          \/ Break(o)
      BY <1>8 DEF ListRoles
    <2> QED BY <2>2, <2>3, <2>4
  <1>9. ASSUME NEW o \in Operators, LogAdminEvent(o) PROVE Typed'
    <2>1. UNCHANGED <<accounts, names, sent, asked>> /\ Ids \subseteq Ids'
      BY <1>9 DEF LogAdminEvent, Ids
    <2>2. job' \in [Operators -> Job] /\ StationInv'
      BY <1>9, <2>1, BreakTyped, AnswerTyped DEF LogAdminEvent
    <2>3. Entry(o) \in Line
      BY <1>k DEF Entry, Line, Job, NoId
    <2>4. log' \in Seq(Line)
      <3>1. log \in Seq(Line) /\ Append(log, Entry(o)) \in Seq(Line)
        BY <2>3 DEF Typed, TypeOK
      <3>2. log' = Append(log, Entry(o)) \/ log' = log
        BY <1>9 DEF LogAdminEvent
      <3> QED BY <3>1, <3>2
    <2> QED BY <2>1, <2>2, <2>4 DEF Typed, TypeOK, Ids
  <1>10. CASE UNCHANGED vars
    BY <1>10 DEF vars, Typed, TypeOK, StationInv, Ids
  <1> QED BY <1>1, <1>2, <1>3, <1>4, <1>5, <1>6, <1>7, <1>8, <1>9, <1>10 DEF Next, Handle

\* The types of Keycloak's accounts, the requests and the log.
THEOREM TypeCorrect == Spec => []TypeOK
  <1>1. Typed => TypeOK
    BY DEF Typed
  <1> QED BY <1>1, InitTyped, StepTyped, PTL DEF Spec

LEMMA AlwaysTyped == Spec => []Typed
  BY InitTyped, StepTyped, PTL DEF Spec

-----------------------------------------------------------------------------
(* What a step of a handler leaves as it is.                               *)

Untouched(r, s) ==
    /\ SameRequest(r, s)
    /\ r.at = s.at /\ r.status = s.status /\ r.user = s.user /\ r.made = s.made
    /\ r.todo = s.todo
    /\ r.excuse \in {s.excuse, "gone"}

\* The steps that end a request and the ones that go on with it.
Ends(o) ==
    \/ Break(o)
    \/ \E status \in {200, 404, 409, 500} : Answer(o, status)

LEMMA EndsAre ==
    ASSUME Typed, NEW o \in Operators, Ends(o)
    PROVE  /\ \A p \in Operators : p # o => job'[p] = job[p]
           /\ SameRequest(job'[o], job[o]) /\ job'[o].at = "done"
           /\ job'[o].user = job[o].user
           /\ \/ job'[o].status = 500 /\ job'[o].excuse = "call"
              \/ \E status \in {200, 404, 409, 500} :
                    Answer(o, status) /\ job'[o].status = status /\ job'[o].excuse = job[o].excuse
  <1>1. job \in [Operators -> Job] /\ job[o] \in Job
    BY DEF Typed, TypeOK
  <1>2. CASE Break(o)
    <2>1. job' = [job EXCEPT ![o] = Broken(o)]
      BY <1>2 DEF Break
    <2> QED BY <1>1, <2>1, BreakIs DEF Typed
  <1>3. ASSUME NEW status \in {200, 404, 409, 500}, Answer(o, status)
        PROVE  /\ \A p \in Operators : p # o => job'[p] = job[p]
               /\ SameRequest(job'[o], job[o]) /\ job'[o].at = "done"
               /\ job'[o].user = job[o].user
               /\ job'[o].status = status /\ job'[o].excuse = job[o].excuse
    BY <1>1, <1>3 DEF Answer, SameRequest, Job
  <1> QED BY <1>2, <1>3 DEF Ends

LEMMA GoesOn ==
    ASSUME Typed, NEW o \in Operators, NEW at, Goto(o, at)
    PROVE  /\ \A p \in Operators : p # o => job'[p] = job[p]
           /\ job'[o].at = at /\ SameRequest(job'[o], job[o])
           /\ job'[o].user = job[o].user /\ job'[o].made = job[o].made
           /\ job'[o].todo = job[o].todo /\ job'[o].excuse = job[o].excuse
           /\ job'[o].status = job[o].status
  <1>1. job \in [Operators -> Job] /\ job[o] \in Job
    BY DEF Typed, TypeOK
  <1> QED BY <1>1 DEF Goto, SameRequest, Job

LEMMA PostGoes ==
    ASSUME Typed, NEW o \in Operators, NEW id,
           job' = [job EXCEPT ![o].at = "search", ![o].made = id]
    PROVE  /\ \A p \in Operators : p # o => job'[p] = job[p]
           /\ job'[o].at = "search" /\ SameRequest(job'[o], job[o])
           /\ job'[o].made = id
  <1>1. job \in [Operators -> Job] /\ job[o] \in Job
    BY DEF Typed, TypeOK
  <1> QED BY <1>1 DEF SameRequest, Job

LEMMA SearchGoes ==
    ASSUME Typed, NEW o \in Operators, NEW id,
           job' = [job EXCEPT ![o].at = "role", ![o].user = id]
    PROVE  /\ \A p \in Operators : p # o => job'[p] = job[p]
           /\ job'[o].at = "role" /\ SameRequest(job'[o], job[o])
           /\ job'[o].user = id /\ job'[o].made = job[o].made
  <1>1. job \in [Operators -> Job] /\ job[o] \in Job
    BY DEF Typed, TypeOK
  <1> QED BY <1>1 DEF SameRequest, Job

LEMMA ListGoes ==
    ASSUME Typed, NEW o \in Operators, ListUsers(o) \/ ListRoles(o), ~Ends(o)
    PROVE  /\ \A p \in Operators : p # o => job'[p] = job[p]
           /\ job'[o].at = "roles" /\ SameRequest(job'[o], job[o])
           /\ job'[o].excuse = job[o].excuse
           /\ \/ ListUsers(o) /\ job'[o].todo \in Listed
              \/ /\ ListRoles(o) /\ job[o].todo # <<>>
                 /\ job'[o].todo = Tail(job[o].todo)
  <1>1. job \in [Operators -> Job] /\ job[o] \in Job
    BY DEF Typed, TypeOK
  <1>2. CASE ListUsers(o)
    <2>1. PICK list \in Listed : job' = [job EXCEPT ![o].at = "roles", ![o].todo = list]
      BY <1>2 DEF ListUsers, Ends
    <2> QED BY <1>1, <1>2, <2>1 DEF SameRequest, Job
  <1>3. CASE ListRoles(o)
    <2>1. job[o].at = "roles"
      BY <1>3 DEF ListRoles
    <2>2. ~Break(o) /\ ~Answer(o, 200) /\ ~Answer(o, 500)
      BY DEF Ends
    <2>3. /\ job[o].todo # <<>>
          /\ job' = [job EXCEPT ![o].todo = Tail(@),
                  ![o].items = Append(@, [id |-> Head(job[o].todo),
                                          roles |-> accounts[Head(job[o].todo)].roles])]
      BY <1>3, <2>2 DEF ListRoles
    <2> QED BY <1>1, <1>3, <2>1, <2>3 DEF SameRequest, Job
  <1> QED BY <1>2, <1>3

\* A deletion Keycloak carries out.
Deletes(o) ==
    /\ job[o].user \in DOMAIN accounts
    /\ accounts' = [i \in DOMAIN accounts \ {job[o].user} |-> accounts[i]]

LEMMA DeleteGoes ==
    ASSUME Typed, NEW o \in Operators, DeleteUser(o), ~(Ends(o) /\ UNCHANGED accounts)
    PROVE  /\ Deletes(o)
           /\ job[o].kind = "delete" /\ job[o].at = "delete"
           /\ SameRequest(job'[o], job[o]) /\ job'[o].user = job[o].user
           /\ \/ job'[o].at = "log"
              \/ job'[o].at = "done" /\ job'[o].status = 500
           /\ \A p \in Operators : p # o =>
                 /\ Untouched(job'[p], job[p])
                 /\ (\E i \in DOMAIN job[p].todo : job[p].todo[i] = job[o].user)
                        => job'[p].excuse = "gone"
  <1>1. job \in [Operators -> Job] /\ \A p \in Operators : job[p] \in Job
    BY DEF Typed, TypeOK
  <1>2. job[o].kind = "delete" /\ job[o].at = "delete"
    <2>1. job[o].at \in Stations[job[o].kind] /\ job[o].kind \in DOMAIN Endpoint
      BY <1>1 DEF Typed, StationInv, Job
    <2> QED BY <2>1, KindsAre DEF DeleteUser, Stations
  <1>3. PICK r \in {[job[o] EXCEPT !.at = "log"], Broken(o)} :
           job' = [p \in Operators |->
                IF p = o THEN r
                ELSE IF \E i \in DOMAIN job[p].todo : job[p].todo[i] = job[o].user
                     THEN [job[p] EXCEPT !.excuse = "gone"] ELSE job[p]]
    BY DEF DeleteUser, Ends
  <1>4. Deletes(o)
    BY DEF DeleteUser, Ends, Deletes
  <1>5. /\ SameRequest(r, job[o]) /\ r.user = job[o].user
        /\ r.at = "log" \/ (r.at = "done" /\ r.status = 500)
    <2>1. CASE r = Broken(o)
      BY <2>1, BreakIs DEF Typed
    <2>2. CASE r = [job[o] EXCEPT !.at = "log"]
      BY <1>1, <2>2 DEF Job, SameRequest
    <2> QED BY <2>1, <2>2
  <1>6. ASSUME NEW p \in Operators, p # o
        PROVE  /\ Untouched(job'[p], job[p])
               /\ (\E i \in DOMAIN job[p].todo : job[p].todo[i] = job[o].user)
                      => job'[p].excuse = "gone"
    BY <1>1, <1>3, <1>6 DEF Untouched, SameRequest, Job
  <1> QED BY <1>2, <1>3, <1>4, <1>5, <1>6

\* A request that the gates refuse is done, one they admit starts.
LEMMA ArriveIs ==
    ASSUME Typed, NEW o \in Operators, Arrive(o)
    PROVE  /\ UNCHANGED <<accounts, names, log>> /\ asked \subseteq asked'
           /\ \A p \in Operators : p # o => job'[p] = job[p]
           /\ \/ /\ job'[o].at \in {"read", "token"}
                 /\ job'[o].kind = "create" => <<job'[o].name, job'[o].role>> \in asked'
              \/ /\ job'[o].at = "done"
                 /\ job'[o].status # 200
                 /\ job'[o].status = Admitted(job'[o].kind, job'[o].login.token,
                                              job'[o].login.namespace, Env)
  <1>1. job \in [Operators -> Job]
    BY DEF Typed, TypeOK
  <1>2. PICK r \in NewRequests :
            LET gate == Admitted(r.kind, r.login.token, r.login.namespace, Env) IN
            IF gate = 200
            THEN /\ job' = [job EXCEPT ![o] = r]
                 /\ asked' = IF r.kind = "create" THEN asked \cup {<<r.name, r.role>>}
                                               ELSE asked
            ELSE /\ job' = [job EXCEPT ![o] = [r EXCEPT !.at = "done", !.status = gate]]
                 /\ UNCHANGED asked
    BY DEF Arrive
  <1> DEFINE gate == Admitted(r.kind, r.login.token, r.login.namespace, Env)
             s == [r EXCEPT !.at = "done", !.status = gate]
  <1>3. r \in Job /\ r.at \in {"read", "token"}
    <2>1. r \in Job /\ r.at \in Stations[r.kind] /\ r.at # "done"
      BY NewType DEF Typed
    <2>2. r.at = IF r.kind \in Reads THEN "read" ELSE "token"
      BY DEF NewRequests, New
    <2> QED BY <2>1, <2>2
  <1>4. UNCHANGED <<accounts, names, log>>
    BY DEF Arrive
  <1>5. CASE gate = 200
    <2>1. job' = [job EXCEPT ![o] = r]
      BY <1>2, <1>5
    <2>2. asked' = IF r.kind = "create" THEN asked \cup {<<r.name, r.role>>} ELSE asked
      BY <1>2, <1>5
    <2>3. job'[o] = r /\ \A p \in Operators : p # o => job'[p] = job[p]
      BY <1>1, <2>1
    <2> QED BY <1>3, <1>4, <2>2, <2>3
  <1>6. CASE gate # 200
    <2>1. job' = [job EXCEPT ![o] = s] /\ asked' = asked
      BY <1>2, <1>6
    <2>2. job'[o] = s /\ \A p \in Operators : p # o => job'[p] = job[p]
      BY <1>1, <2>1
    <2> HIDE DEF gate
    <2>3. s.at = "done" /\ s.status = gate /\ s.kind = r.kind /\ s.login = r.login
      BY <1>3 DEF Job
    <2> HIDE DEF s
    <2>4. job'[o].status = Admitted(job'[o].kind, job'[o].login.token,
                                    job'[o].login.namespace, Env)
      BY <2>2, <2>3 DEF gate
    <2> QED BY <1>4, <1>6, <2>1, <2>2, <2>3, <2>4
  <1> QED BY <1>5, <1>6

-----------------------------------------------------------------------------
(* Roles.                                                                  *)

\* An account keeps its name; the account a creation works on has a name the
\* search found; what is being created was asked for.
RoleInv ==
    /\ \A id \in DOMAIN accounts : accounts[id].name = names[id]
    /\ \A o \in Operators :
          /\ job[o].kind = "create" /\ job[o].at # "done" => <<job[o].name, job[o].role>> \in asked
          /\ job[o].at \in {"role", "map"} =>
                job[o].user \in Ids /\ <<job[o].name, names[job[o].user]>> \in Within
    /\ RolesAskedFor

LEMMA InitRoles == Init => RoleInv
  <1> SUFFICES ASSUME Init PROVE RoleInv
    OBVIOUS
  <1>1. \A o \in Operators : job[o].at = "done"
    BY DEF Init, New
  <1>2. DOMAIN accounts = {}
    BY DEF Init
  <1> QED BY <1>1, <1>2 DEF RoleInv, RolesAskedFor

\* Steps that change neither accounts nor the account a creation works on.
LEMMA RolesStay ==
    ASSUME RoleInv, UNCHANGED <<accounts, names, asked>>,
           \A p \in Operators :
              /\ SameRequest(job'[p], job[p])
              /\ job'[p].at # "done" => job[p].at # "done"
              /\ job'[p].at \in {"role", "map"} =>
                    job[p].at \in {"role", "map"} /\ job'[p].user = job[p].user
    PROVE  RoleInv'
  BY DEF RoleInv, RolesAskedFor, SameRequest, Ids

LEMMA StepRoles == Typed /\ RoleInv /\ [Next]_vars => RoleInv'
  <1> SUFFICES ASSUME Typed, RoleInv, [Next]_vars PROVE RoleInv'
    OBVIOUS
  <1>k. \A o \in Operators : job[o].at \in Stations[job[o].kind] /\ job[o].kind \in DOMAIN Endpoint
    BY DEF Typed, TypeOK, StationInv, Job
  <1>i. Ids = 1..Len(names) /\ Len(names) \in Nat /\ DOMAIN accounts \subseteq Ids
    BY IdsAre DEF Typed, TypeOK
  <1>s. \A p \in Operators : SameRequest(job[p], job[p])
    BY DEF SameRequest
  <1>1. ASSUME NEW o \in Operators, Arrive(o) PROVE RoleInv'
    <2>1. /\ UNCHANGED <<accounts, names, log>> /\ asked \subseteq asked'
          /\ \A p \in Operators : p # o => job'[p] = job[p]
          /\ job'[o].at \notin {"role", "map"}
          /\ job'[o].kind = "create" /\ job'[o].at # "done"
                => <<job'[o].name, job'[o].role>> \in asked'
      BY <1>1, ArriveIs
    <2>2. Ids' = Ids
      BY <2>1 DEF Ids
    <2>3. RolesAskedFor'
      BY <2>1 DEF RoleInv, RolesAskedFor
    <2>4. ASSUME NEW p \in Operators
          PROVE  /\ job'[p].kind = "create" /\ job'[p].at # "done"
                       => <<job'[p].name, job'[p].role>> \in asked'
                 /\ job'[p].at \in {"role", "map"} =>
                       job'[p].user \in Ids' /\ <<job'[p].name, names'[job'[p].user]>> \in Within
      <3>1. CASE p = o
        BY <2>1, <3>1
      <3>2. CASE p # o
        BY <2>1, <2>2, <3>2 DEF RoleInv
      <3> QED BY <3>1, <3>2
    <2> QED BY <2>1, <2>3, <2>4 DEF RoleInv
  <1>2. ASSUME NEW o \in Operators, Ends(o), UNCHANGED <<accounts, names, asked>> PROVE RoleInv'
    BY <1>2, <1>s, EndsAre, RolesStay
  <1>3. ASSUME NEW o \in Operators, AdminToken(o), ~Ends(o) PROVE RoleInv'
    <2> DEFINE at == CASE job[o].kind = "create" -> "post"
                       [] job[o].kind = "delete" -> "delete"
                       [] OTHER -> "users"
    <2>1. Goto(o, at) /\ job[o].at = "token" /\ UNCHANGED <<accounts, names, asked>>
      BY <1>3 DEF AdminToken, Ends
    <2>2. at \notin {"role", "map"}
      OBVIOUS
    <2> HIDE DEF at
    <2> QED BY <1>s, <2>1, <2>2, GoesOn, RolesStay
  <1>4. ASSUME NEW o \in Operators, PostUser(o), ~(Ends(o) /\ UNCHANGED <<accounts, names>>)
        PROVE  RoleInv'
    <2> DEFINE id == Len(names) + 1
    <2>1. /\ job[o].at = "post" /\ UNCHANGED asked
          /\ names' = Append(names, job[o].name)
          /\ accounts' = [i \in DOMAIN accounts \cup {id} |->
                IF i = id THEN [name |-> job[o].name, roles |-> {}] ELSE accounts[i]]
          /\ job' = [job EXCEPT ![o].at = "search", ![o].made = id] \/ Break(o)
      BY <1>4 DEF PostUser, Ends
    <2>2. /\ \A p \in Operators : p # o => job'[p] = job[p]
          /\ SameRequest(job'[o], job[o]) /\ job'[o].at \in {"search", "done"}
      <3>1. CASE Break(o)
        BY <3>1, EndsAre DEF Ends
      <3>2. CASE job' = [job EXCEPT ![o].at = "search", ![o].made = id]
        BY <3>2, PostGoes
      <3> QED BY <2>1, <3>1, <3>2
    <2>3. \A i \in Ids : i \in Ids' /\ names'[i] = names[i]
      BY <1>i, <2>1 DEF Ids, Typed, TypeOK
    <2>4. id \notin Ids /\ names'[id] = job[o].name
      BY <1>i, <2>1 DEF Typed, TypeOK
    <2>5. \A i \in DOMAIN accounts' : accounts'[i].name = names'[i]
      BY <1>i, <2>1, <2>3, <2>4 DEF RoleInv
    <2>6. RolesAskedFor'
      BY <1>i, <2>1, <2>4 DEF RoleInv, RolesAskedFor
    <2>7. ASSUME NEW p \in Operators
          PROVE  /\ job'[p].kind = "create" /\ job'[p].at # "done"
                       => <<job'[p].name, job'[p].role>> \in asked'
                 /\ job'[p].at \in {"role", "map"} =>
                       job'[p].user \in Ids' /\ <<job'[p].name, names'[job'[p].user]>> \in Within
      <3>1. CASE p = o
        BY <2>1, <2>2, <3>1 DEF RoleInv, SameRequest
      <3>2. CASE p # o
        <4>1. job'[p] = job[p] /\ asked' = asked
          BY <2>1, <2>2, <3>2
        <4>2. /\ job[p].kind = "create" /\ job[p].at # "done" => <<job[p].name, job[p].role>> \in asked
              /\ job[p].at \in {"role", "map"} =>
                    job[p].user \in Ids /\ <<job[p].name, names[job[p].user]>> \in Within
          BY DEF RoleInv
        <4> QED BY <2>3, <4>1, <4>2
      <3> QED BY <3>1, <3>2
    <2> QED BY <2>5, <2>6, <2>7 DEF RoleInv
  <1>5. ASSUME NEW o \in Operators, SearchUser(o), ~Ends(o) PROVE RoleInv'
    <2>1. job[o].at = "search" /\ UNCHANGED <<accounts, names, asked>>
      BY <1>5 DEF SearchUser
    <2>2. PICK list \in Listings(Hits(job[o].name)) :
             list # <<>> /\ job' = [job EXCEPT ![o].at = "role", ![o].user = list[1]]
      BY <1>5 DEF SearchUser, Ends
    <2>3. list[1] \in Hits(job[o].name)
      <3>1. Hits(job[o].name) \subseteq Ids
        BY <1>i DEF Hits
      <3>2. list \in Seq(Nat) /\ \A i \in DOMAIN list : list[i] \in Hits(job[o].name)
        BY <3>1, ListingType DEF Typed
      <3> QED BY <2>2, <3>2
    <2>4. list[1] \in Ids /\ <<job[o].name, names[list[1]]>> \in Within
      BY <1>i, <2>3 DEF Hits, RoleInv
    <2>5. /\ \A p \in Operators : p # o => job'[p] = job[p]
          /\ job'[o].at = "role" /\ SameRequest(job'[o], job[o]) /\ job'[o].user = list[1]
      BY <2>2, SearchGoes
    <2>6. RolesAskedFor' /\ Ids' = Ids
      BY <2>1 DEF RoleInv, RolesAskedFor, Ids
    <2>7. ASSUME NEW p \in Operators
          PROVE  /\ job'[p].kind = "create" /\ job'[p].at # "done"
                       => <<job'[p].name, job'[p].role>> \in asked'
                 /\ job'[p].at \in {"role", "map"} =>
                       job'[p].user \in Ids' /\ <<job'[p].name, names'[job'[p].user]>> \in Within
      <3>1. CASE p = o
        BY <2>1, <2>4, <2>5, <2>6, <3>1 DEF RoleInv, SameRequest
      <3>2. CASE p # o
        BY <2>1, <2>5, <2>6, <3>2 DEF RoleInv
      <3> QED BY <3>1, <3>2
    <2> QED BY <2>1, <2>6, <2>7 DEF RoleInv
  <1>6. ASSUME NEW o \in Operators, GetRole(o), ~Ends(o) PROVE RoleInv'
    <2>1. Goto(o, "map") /\ job[o].at = "role" /\ UNCHANGED <<accounts, names, asked>>
      BY <1>6 DEF GetRole, Ends
    <2> QED BY <1>s, <2>1, GoesOn, RolesStay
  <1>7. ASSUME NEW o \in Operators, MapRole(o) PROVE RoleInv'
    <2> DEFINE id == job[o].user
    <2>1. job[o].at = "map" /\ job[o].kind = "create" /\ UNCHANGED <<names, asked>>
      BY <1>7, <1>k, KindsAre DEF MapRole, Stations
    <2>2. \/ UNCHANGED accounts
          \/ /\ id \in DOMAIN accounts
             /\ accounts' = [accounts EXCEPT ![id].roles = @ \cup {job[o].role}]
      BY <1>7 DEF MapRole, Grant
    <2>3. \A p \in Operators :
              /\ SameRequest(job'[p], job[p])
              /\ job'[p].at # "done" => job[p].at # "done"
              /\ job'[p].at \in {"role", "map"} =>
                    job[p].at \in {"role", "map"} /\ job'[p].user = job[p].user
      BY <1>7, <1>s, <2>1, GoesOn, EndsAre DEF MapRole, Ends
    <2>4. CASE UNCHANGED accounts
      BY <2>1, <2>3, <2>4, RolesStay
    <2>5. CASE /\ id \in DOMAIN accounts
               /\ accounts' = [accounts EXCEPT ![id].roles = @ \cup {job[o].role}]
      <3>1. DOMAIN accounts' = DOMAIN accounts
        BY <2>5
      <3>2. \A i \in DOMAIN accounts :
               /\ accounts'[i].name = accounts[i].name
               /\ i # id => accounts'[i].roles = accounts[i].roles
               /\ i = id => accounts'[i].roles = accounts[i].roles \cup {job[o].role}
        BY <2>5 DEF Typed, TypeOK
      <3>3. /\ job[o].name \in Emails
            /\ <<job[o].name, accounts[id].name>> \in Within
            /\ <<job[o].name, job[o].role>> \in asked
        BY <2>1, <2>5 DEF RoleInv, Typed, StationInv
      <3>4. RolesAskedFor'
        <4>1. ASSUME NEW i \in DOMAIN accounts, NEW r \in accounts'[i].roles
              PROVE  \E n \in Emails : <<n, accounts[i].name>> \in Within /\ <<n, r>> \in asked
          <5>1. CASE r \in accounts[i].roles
            BY <5>1 DEF RoleInv, RolesAskedFor
          <5>2. CASE r \notin accounts[i].roles
            <6>1. i = id /\ r = job[o].role
              BY <3>2, <5>2
            <6> QED BY <3>3, <6>1
          <5> QED BY <5>1, <5>2
        <4> QED BY <2>1, <3>1, <3>2, <4>1 DEF RolesAskedFor
      <3> QED BY <2>1, <2>3, <3>1, <3>2, <3>4 DEF RoleInv, SameRequest, Ids
    <2> QED BY <2>2, <2>4, <2>5
  <1>8. ASSUME NEW o \in Operators, DeleteUser(o), ~(Ends(o) /\ UNCHANGED accounts)
        PROVE  RoleInv'
    <2>1. UNCHANGED <<names, asked>>
      BY <1>8 DEF DeleteUser
    <2>2. \A i \in DOMAIN accounts' : i \in DOMAIN accounts /\ accounts'[i] = accounts[i]
      <3>1. accounts' = [i \in DOMAIN accounts \ {job[o].user} |-> accounts[i]]
        <4>1. Deletes(o)
          BY <1>8, DeleteGoes
        <4> QED BY <4>1 DEF Deletes
      <3> QED BY <3>1
    <2>3. \A p \in Operators : /\ SameRequest(job'[p], job[p])
                               /\ job'[p].at # "done" => job[p].at # "done"
                               /\ job'[p].at \in {"role", "map"} =>
                                    job[p].at \in {"role", "map"} /\ job'[p].user = job[p].user
      BY <1>8, DeleteGoes DEF Untouched
    <2> QED BY <2>1, <2>2, <2>3 DEF RoleInv, RolesAskedFor, SameRequest, Ids
  <1>9. ASSUME NEW o \in Operators, ListUsers(o) \/ ListRoles(o), ~Ends(o) PROVE RoleInv'
    <2>1. UNCHANGED <<accounts, names, asked>> /\ job[o].at # "done"
      BY <1>9 DEF ListUsers, ListRoles
    <2> QED BY <1>9, <1>s, <2>1, ListGoes, RolesStay
  <1>10. CASE UNCHANGED vars
    BY <1>10 DEF vars, RoleInv, RolesAskedFor, Ids
  <1>11. ASSUME NEW o \in Operators, Read(o) \/ LogAdminEvent(o) PROVE RoleInv'
    <2>1. UNCHANGED <<accounts, names, asked>> /\ Ends(o)
      BY <1>11 DEF Read, LogAdminEvent, Ends
    <2> QED BY <1>2, <2>1
  <1>12. ASSUME NEW o \in Operators, Ends(o), Handle(o), ~UNCHANGED <<accounts, names, asked>>
         PROVE  PostUser(o) \/ MapRole(o) \/ DeleteUser(o)
    BY <1>12 DEF Handle, Read, AdminToken, SearchUser, GetRole, ListUsers, ListRoles, LogAdminEvent
  <1>13. ASSUME NEW o \in Operators, PostUser(o) \/ DeleteUser(o) PROVE UNCHANGED asked
    BY <1>13 DEF PostUser, DeleteUser
  <1>14. ASSUME NEW o \in Operators, DeleteUser(o) PROVE UNCHANGED names
    BY <1>14 DEF DeleteUser
  <1> QED BY <1>1, <1>2, <1>3, <1>4, <1>5, <1>6, <1>7, <1>8, <1>9, <1>10, <1>11, <1>12, <1>13, <1>14
        DEF Next, Handle

\* No account has a role that nobody asked for by its name or by a part of it:
\* the search for the new account's number is by part of the name and nobody
\* looks at what it found (main.py 224-240).
THEOREM RolesWereAskedFor == Spec => []RolesAskedFor
  <1>1. RoleInv => RolesAskedFor
    BY DEF RoleInv
  <1> QED BY <1>1, AlwaysTyped, InitRoles, StepRoles, PTL DEF Spec
-----------------------------------------------------------------------------
(* Listings.                                                               *)

\* The accounts a listing has still to ask about exist, unless one it has not
\* reached is deleted.
ListInv ==
    /\ \A o \in Operators :
          job[o].kind = "list" /\ job[o].at = "roles" /\ job[o].excuse = None
              => \A i \in DOMAIN job[o].todo : job[o].todo[i] \in DOMAIN accounts
    /\ ListingAbortsOnlyIf

\* One job's part of the invariant, which is all a step has to keep.
ListingFine(r, known) ==
    /\ r.kind = "list" /\ r.at = "roles" /\ r.excuse = None
           => \A i \in DOMAIN r.todo : r.todo[i] \in known
    /\ r.kind = "list" /\ r.at = "done" /\ r.status = 500
           => \/ r.excuse # None
              \/ Admitted("list", r.login.token, r.login.namespace, Env) = 500

LEMMA ListInvIs == ListInv <=> \A o \in Operators : ListingFine(job[o], DOMAIN accounts)
  BY DEF ListInv, ListingAbortsOnlyIf, ListingFine

LEMMA InitList == Init => ListInv
  <1> SUFFICES ASSUME Init PROVE ListInv
    OBVIOUS
  <1>1. \A o \in Operators : job[o].at = "done" /\ job[o].status = 200
    BY DEF Init, New
  <1> QED BY <1>1 DEF ListInv, ListingAbortsOnlyIf

LEMMA FineLonger ==
    ASSUME NEW r, NEW known, NEW more, known \subseteq more, ListingFine(r, known)
    PROVE  ListingFine(r, more)
  BY DEF ListingFine

LEMMA NoneIsNoFault == None # "call" /\ None # "gone"
  BY DEF None

\* Every step but a deletion leaves the other jobs and the existing accounts.
LEMMA HandleIs ==
    ASSUME Typed, NEW o \in Operators, Handle(o), ~DeleteUser(o)
    PROVE  /\ \A p \in Operators : p # o => job'[p] = job[p]
           /\ SameRequest(job'[o], job[o])
           /\ DOMAIN accounts \subseteq DOMAIN accounts'
  <1>1. CASE Ends(o)
    <2>1. DOMAIN accounts \subseteq DOMAIN accounts'
      BY DEF Handle, Read, AdminToken, PostUser, SearchUser, GetRole, MapRole, Grant,
             ListUsers, ListRoles, LogAdminEvent
    <2> QED BY <1>1, <2>1, EndsAre
  <1>2. CASE ~Ends(o)
    <2>1. ASSUME NEW at, Goto(o, at), UNCHANGED accounts \/ DOMAIN accounts' = DOMAIN accounts
          PROVE  /\ \A p \in Operators : p # o => job'[p] = job[p]
                 /\ SameRequest(job'[o], job[o])
                 /\ DOMAIN accounts \subseteq DOMAIN accounts'
      BY <2>1, GoesOn
    <2>2. CASE AdminToken(o)
      BY <1>2, <2>1, <2>2 DEF AdminToken, Ends
    <2>3. CASE GetRole(o)
      BY <1>2, <2>1, <2>3 DEF GetRole, Ends
    <2>4. CASE MapRole(o)
      BY <1>2, <2>1, <2>4 DEF MapRole, Grant, Ends
    <2>5. CASE PostUser(o)
      <3>1. job' = [job EXCEPT ![o].at = "search", ![o].made = Len(names) + 1]
        BY <1>2, <2>5 DEF PostUser, Ends
      <3>2. DOMAIN accounts \subseteq DOMAIN accounts'
        BY <2>5 DEF PostUser
      <3> QED BY <3>1, <3>2, PostGoes
    <2>6. CASE SearchUser(o)
      <3>1. UNCHANGED accounts /\ \E id : job' = [job EXCEPT ![o].at = "role", ![o].user = id]
        <4>1. ~Break(o) /\ ~Answer(o, 500)
          BY <1>2 DEF Ends
        <4> QED BY <2>6, <4>1 DEF SearchUser
      <3> QED BY <3>1, SearchGoes
    <2>7. CASE ListUsers(o) \/ ListRoles(o)
      BY <1>2, <2>7, ListGoes DEF ListUsers, ListRoles
    <2> QED BY <1>2, <2>2, <2>3, <2>4, <2>5, <2>6, <2>7 DEF Handle, Read, LogAdminEvent, Ends
  <1> QED BY <1>1, <1>2

\* A step of a listing.
LEMMA ListingStep ==
    ASSUME Typed, ListInv, NEW o \in Operators, Handle(o), job[o].kind = "list"
    PROVE  /\ ListingFine(job'[o], DOMAIN accounts)
           /\ UNCHANGED accounts
           /\ \A p \in Operators : p # o => job'[p] = job[p]
  <1>k. job[o] \in Job /\ job[o].at \in {"token", "users", "roles", "done"}
    BY DEF Typed, TypeOK, StationInv, Stations
  <1>f. ListingFine(job[o], DOMAIN accounts)
    BY ListInvIs
  <1>1. AdminToken(o) \/ ListUsers(o) \/ ListRoles(o)
    BY <1>k DEF Handle, Read, PostUser, SearchUser, GetRole, MapRole, DeleteUser, LogAdminEvent
  <1>2. UNCHANGED accounts
    BY <1>1 DEF AdminToken, ListUsers, ListRoles
  <1>3. \A p \in Operators : p # o => job'[p] = job[p]
    <2>1. ~DeleteUser(o)
      BY <1>k DEF DeleteUser
    <2> QED BY <2>1, HandleIs
  <1>4. CASE Break(o)
    <2>1. job'[o] = Broken(o)
      BY <1>4 DEF Break, Typed, TypeOK
    <2> QED BY <1>2, <1>3, <2>1, BreakIs, NoneIsNoFault DEF ListingFine, Typed
  <1>5. CASE AdminToken(o) /\ ~Break(o)
    <2>1. Goto(o, "users")
      BY <1>5 DEF AdminToken
    <2>2. job'[o].at = "users"
      BY <2>1, GoesOn
    <2> QED BY <1>2, <1>3, <2>2 DEF ListingFine
  <1>6. CASE ListUsers(o) /\ ~Break(o)
    <2>1. PICK list \in Listed : job' = [job EXCEPT ![o].at = "roles", ![o].todo = list]
      BY <1>6 DEF ListUsers
    <2>2. \A i \in DOMAIN list : list[i] \in DOMAIN accounts
      BY ListingType DEF Listed, Typed, TypeOK
    <2>3. job'[o].todo = list /\ job'[o].at = "roles"
      BY <1>k, <2>1 DEF Typed, TypeOK, Job
    <2> QED BY <1>2, <1>3, <2>2, <2>3 DEF ListingFine
  <1>7. CASE ListRoles(o) /\ ~Break(o)
    <2> DEFINE todo == job[o].todo
               items == Append(job[o].items,
                               [id |-> Head(todo), roles |-> accounts[Head(todo)].roles])
    <2>1. todo \in Seq(Nat) /\ job[o].at = "roles"
      BY <1>k, <1>7 DEF Job, ListRoles
    <2>2. CASE Answer(o, 200)
      <3>1. job'[o].status = 200 /\ job'[o].at = "done"
        BY <1>k, <2>2 DEF Answer, Typed, TypeOK, Job
      <3> QED BY <1>2, <1>3, <3>1 DEF ListingFine
    <2>3. CASE todo # <<>> /\ Head(todo) \notin DOMAIN accounts /\ Answer(o, 500)
      <3>1. 1 \in DOMAIN todo /\ todo[1] = Head(todo)
        BY <2>1, <2>3
      <3>2. job[o].excuse # None
        BY <1>f, <2>1, <2>3, <3>1 DEF ListingFine
      <3>3. job'[o].at = "done" /\ job'[o].excuse = job[o].excuse
        BY <1>k, <2>3 DEF Answer, Typed, TypeOK, Job
      <3> QED BY <1>2, <1>3, <3>2, <3>3 DEF ListingFine
    <2>4. CASE todo # <<>> /\ job' = [job EXCEPT ![o].todo = Tail(@), ![o].items = items]
      <3> HIDE DEF items
      <3>1. /\ job'[o].at = "roles" /\ job'[o].kind = "list"
            /\ job'[o].excuse = job[o].excuse /\ job'[o].todo = Tail(todo)
        BY <1>k, <2>1, <2>4 DEF Typed, TypeOK, Job
      <3>2. \A i \in DOMAIN Tail(todo) : i + 1 \in DOMAIN todo /\ Tail(todo)[i] = todo[i + 1]
        BY <2>1, <2>4
      <3> QED BY <1>2, <1>3, <1>f, <2>1, <3>1, <3>2 DEF ListingFine
    <2> QED BY <1>7, <2>2, <2>3, <2>4 DEF ListRoles
  <1> QED BY <1>1, <1>4, <1>5, <1>6, <1>7

LEMMA StepList == Typed /\ ListInv /\ [Next]_vars => ListInv'
  <1> SUFFICES ASSUME Typed, ListInv, [Next]_vars PROVE ListInv'
    OBVIOUS
  <1>f. \A p \in Operators : ListingFine(job[p], DOMAIN accounts)
    BY ListInvIs
  <1>g. (\A p \in Operators : ListingFine(job'[p], DOMAIN accounts')) => ListInv'
    BY DEF ListInv, ListingAbortsOnlyIf, ListingFine
  <1>m. ASSUME NEW o \in Operators, DOMAIN accounts \subseteq DOMAIN accounts',
               \A p \in Operators : p # o => job'[p] = job[p],
               ListingFine(job'[o], DOMAIN accounts')
        PROVE  ListInv'
    <2>1. ASSUME NEW p \in Operators PROVE ListingFine(job'[p], DOMAIN accounts')
      BY <1>f, <1>m, FineLonger
    <2> QED BY <1>g, <2>1
  <1>1. ASSUME NEW o \in Operators, Arrive(o) PROVE ListInv'
    <2>1. ListingFine(job'[o], DOMAIN accounts')
      <3>1. CASE job'[o].at \in {"read", "token"}
        BY <3>1 DEF ListingFine
      <3>2. CASE job'[o].status = Admitted(job'[o].kind, job'[o].login.token,
                                           job'[o].login.namespace, Env)
        <4>1. CASE job'[o].kind = "list"
          <5>1. job'[o].status = Admitted("list", job'[o].login.token, job'[o].login.namespace, Env)
            BY <3>2, <4>1
          <5>2. job'[o].at # "roles"
            BY <1>1, ArriveIs
          <5> QED BY <5>1, <5>2 DEF ListingFine
        <4>2. CASE job'[o].kind # "list"
          BY <4>2 DEF ListingFine
        <4> QED BY <4>1, <4>2
      <3> QED BY <1>1, <3>1, <3>2, ArriveIs
    <2> QED BY <1>1, <1>m, <2>1, ArriveIs
  <1>2. ASSUME NEW o \in Operators, Handle(o), job[o].kind = "list" PROVE ListInv'
    BY <1>2, <1>m, ListingStep
  <1>3. ASSUME NEW o \in Operators, Handle(o), job[o].kind # "list", ~DeleteUser(o) PROVE ListInv'
    <2>1. job'[o].kind # "list"
      BY <1>3, HandleIs DEF SameRequest
    <2>2. ListingFine(job'[o], DOMAIN accounts')
      BY <2>1 DEF ListingFine
    <2> QED BY <1>3, <1>m, <2>2, HandleIs
  <1>4. ASSUME NEW o \in Operators, DeleteUser(o) PROVE ListInv'
    <2>1. job[o].kind = "delete"
      <3>1. job[o].at \in Stations[job[o].kind] /\ job[o].kind \in DOMAIN Endpoint
        BY DEF Typed, TypeOK, StationInv, Job
      <3> QED BY <1>4, <3>1, KindsAre DEF DeleteUser, Stations
    <2>2. CASE Ends(o) /\ UNCHANGED accounts
      <3>1. job'[o].kind # "list"
        BY <2>1, <2>2, EndsAre DEF SameRequest
      <3>2. ListingFine(job'[o], DOMAIN accounts')
        BY <3>1 DEF ListingFine
      <3> QED BY <1>m, <2>2, <3>2, EndsAre
    <2>3. CASE ~(Ends(o) /\ UNCHANGED accounts)
      <3>1. ASSUME NEW p \in Operators PROVE ListingFine(job'[p], DOMAIN accounts')
        <4>1. CASE p = o
          <5>1. job'[p].kind # "list"
            BY <1>4, <2>1, <2>3, <4>1, DeleteGoes DEF SameRequest
          <5> QED BY <5>1 DEF ListingFine
        <4>2. CASE p # o
          <5>1. /\ Untouched(job'[p], job[p])
                /\ (\E i \in DOMAIN job[p].todo : job[p].todo[i] = job[o].user)
                       => job'[p].excuse = "gone"
            BY <1>4, <2>3, <4>2, DeleteGoes
          <5>2. DOMAIN accounts' = DOMAIN accounts \ {job[o].user}
            <6>1. Deletes(o)
              BY <1>4, <2>3, DeleteGoes
            <6> QED BY <6>1 DEF Deletes
          <5>3. CASE job'[p].excuse = None
            <6>1. job[p].excuse = None /\ \A i \in DOMAIN job[p].todo : job[p].todo[i] # job[o].user
              BY <5>1, <5>3, NoneIsNoFault DEF Untouched
            <6> QED BY <1>f, <5>1, <5>2, <5>3, <6>1 DEF ListingFine, Untouched, SameRequest
          <5>4. CASE job'[p].excuse # None
            BY <5>4 DEF ListingFine
          <5> QED BY <5>3, <5>4
        <4> QED BY <4>1, <4>2
      <3> QED BY <1>g, <3>1
    <2> QED BY <2>2, <2>3
  <1>5. CASE UNCHANGED vars
    BY <1>5 DEF vars, ListInv, ListingAbortsOnlyIf
  <1> QED BY <1>1, <1>2, <1>3, <1>4, <1>5 DEF Next

\* The work of other operators breaks a listing off only by deleting an account
\* between the listing and the reading of its roles (main.py 178-203).
THEOREM ListingsAbortOnlyIf == Spec => []ListingAbortsOnlyIf
  <1>1. ListInv => ListingAbortsOnlyIf
    BY DEF ListInv
  <1> QED BY <1>1, AlwaysTyped, InitList, StepList, PTL DEF Spec
-----------------------------------------------------------------------------
(* The log.                                                                *)

Creations == {i \in DOMAIN log : log[i].action = "create_user"}
Deletions == {i \in DOMAIN log : log[i].action = "delete_user"}

\* Requests with an account made, or unmade, that they have not logged yet.
Creates(r) == r.kind = "create" /\ r.at \in {"search", "role", "map", "log"}
Removes(r) == r.kind = "delete" /\ r.at = "log"
Succeeds(r) == r.kind \in {"create", "delete"} /\ r.at = "done" /\ r.status = 200

\* A success is in the log.
SuccessInv ==
    \A o \in Operators : Succeeds(job[o]) =>
        /\ job[o].kind = "create" => Created(job[o].name) # {}
        /\ job[o].kind = "delete" => Deleted(job[o].user) # {}

\* An account is unmade once: by one request, whether logged or not.
DeletionInv ==
    /\ \A i \in Deletions : log[i].user \in Ids \ DOMAIN accounts
    /\ \A i, j \in Deletions : log[i].user = log[j].user => i = j
    /\ \A o \in Operators : Removes(job[o]) =>
          /\ job[o].user \in Ids \ DOMAIN accounts
          /\ \A i \in Deletions : log[i].user # job[o].user
    /\ \A o, p \in Operators : Removes(job[o]) /\ Removes(job[p]) /\ o # p
          => job[o].user # job[p].user

\* A request under way made an account of its own.
MadeInv ==
    /\ \A o \in Operators : Creates(job[o]) =>
          job[o].made \in Ids /\ names[job[o].made] = job[o].name
    /\ \A o, p \in Operators : Creates(job[o]) /\ Creates(job[p]) /\ o # p
          => job[o].made # job[p].made

\* f finds for each line an account that was made for it and no other line.
Credits(f) ==
    /\ \A i, j \in Creations : f[i] = f[j] => i = j
    /\ \A i \in Creations : names[f[i]] = log[i].name
    /\ \A o \in Operators : Creates(job[o]) => \A i \in Creations : f[i] # job[o].made

LogInv ==
    /\ SuccessInv
    /\ DeletionInv
    /\ MadeInv
    /\ \E f \in [Creations -> Ids] : Credits(f)

LEMMA InitLog == Init => LogInv
  <1> SUFFICES ASSUME Init PROVE LogInv
    OBVIOUS
  <1>1. \A o \in Operators : job[o].at = "done" /\ job[o].kind = "list"
    BY DEF Init, New
  <1>2. Creations = {} /\ Deletions = {}
    BY DEF Init, Creations, Deletions
  <1>3. [i \in Creations |-> NoId] \in [Creations -> Ids]
    BY <1>2
  <1>4. Credits([i \in Creations |-> NoId])
    BY <1>1, <1>2 DEF Credits, Creates
  <1>5. SuccessInv /\ DeletionInv /\ MadeInv
    BY <1>1, <1>2 DEF SuccessInv, DeletionInv, MadeInv, Succeeds, Creates, Removes
  <1> QED BY <1>3, <1>4, <1>5 DEF LogInv

\* A job that makes, unmakes and concludes nothing.
Calm(r, s) ==
    /\ SameRequest(r, s)
    /\ Creates(r) => Creates(s) /\ r.made = s.made
    /\ Removes(r) => Removes(s) /\ r.user = s.user
    /\ Succeeds(r) => Succeeds(s) /\ r.user = s.user

LEMMA CalmSame == \A r : Calm(r, r)
  BY DEF Calm, SameRequest

LEMMA LogStays ==
    ASSUME LogInv, UNCHANGED <<names, log>>, DOMAIN accounts' = DOMAIN accounts,
           \A p \in Operators : Calm(job'[p], job[p])
    PROVE  LogInv'
  <1>1. UNCHANGED <<Ids, Creations, Deletions>>
    BY DEF Ids, Creations, Deletions
  <1>2. \A p \in Operators : /\ Creates(job'[p]) => Creates(job[p]) /\ job'[p].made = job[p].made
                             /\ Removes(job'[p]) => Removes(job[p]) /\ job'[p].user = job[p].user
                             /\ job'[p].name = job[p].name /\ job'[p].kind = job[p].kind
                             /\ Succeeds(job'[p]) => Succeeds(job[p]) /\ job'[p].user = job[p].user
    BY DEF Calm, SameRequest
  <1>3. \A n, id : Created(n)' = Created(n) /\ Deleted(id)' = Deleted(id)
    BY DEF Created, Deleted
  <1>4. SuccessInv'
    BY <1>2, <1>3 DEF LogInv, SuccessInv
  <1>5. DeletionInv'
    BY <1>1, <1>2 DEF LogInv, DeletionInv
  <1>6. MadeInv'
    BY <1>1, <1>2 DEF LogInv, MadeInv
  <1>7. \E f \in [Creations -> Ids]' : Credits(f)'
    <2>1. PICK f \in [Creations -> Ids] : Credits(f)
      BY DEF LogInv
    <2>2. Credits(f)'
      BY <1>1, <1>2, <2>1 DEF Credits
    <2> QED BY <1>1, <2>2
  <1> QED BY <1>4, <1>5, <1>6, <1>7 DEF LogInv

\* The steps that make, unmake or conclude something.
Makes(o) == PostUser(o) /\ names' = Append(names, job[o].name)
Unmakes(o) == DeleteUser(o) /\ ~(Ends(o) /\ UNCHANGED accounts)

LEMMA CalmStep ==
    ASSUME Typed, NEW o \in Operators, Handle(o), ~Makes(o), ~Unmakes(o),
           ~(LogAdminEvent(o) /\ ~Break(o))
    PROVE  /\ UNCHANGED <<names, log>> /\ DOMAIN accounts' = DOMAIN accounts
           /\ \A p \in Operators : Calm(job'[p], job[p])
  <1>k. job[o] \in Job /\ job[o].kind \in DOMAIN Endpoint /\ job[o].at \in Stations[job[o].kind]
    BY DEF Typed, TypeOK, StationInv, Job
  <1>1. ASSUME Break(o) PROVE \A p \in Operators : Calm(job'[p], job[p])
    <2>1. job'[o] = Broken(o) /\ \A p \in Operators : p # o => job'[p] = job[p]
      BY <1>1 DEF Break, Typed, TypeOK
    <2>2. Calm(Broken(o), job[o])
      BY BreakIs DEF Typed, Calm, Creates, Removes, Succeeds
    <2> QED BY <2>1, <2>2, CalmSame
  <1>2. ASSUME NEW status, Answer(o, status), status # 200 \/ job[o].kind \notin {"create", "delete"}
        PROVE  \A p \in Operators : Calm(job'[p], job[p])
    <2>1. /\ SameRequest(job'[o], job[o]) /\ job'[o].at = "done" /\ job'[o].status = status
          /\ \A p \in Operators : p # o => job'[p] = job[p]
      BY <1>k, <1>2 DEF Answer, SameRequest, Typed, TypeOK, Job
    <2>2. Calm(job'[o], job[o])
      BY <1>2, <2>1 DEF Calm, SameRequest, Creates, Removes, Succeeds
    <2> QED BY <2>1, <2>2, CalmSame
  <1>3. ASSUME NEW at, Goto(o, at), at # "done",
               at \in {"search", "role", "map", "log"} => Creates(job[o])
        PROVE  \A p \in Operators : Calm(job'[p], job[p])
    <2>1. /\ SameRequest(job'[o], job[o]) /\ job'[o].at = at /\ job'[o].made = job[o].made
          /\ \A p \in Operators : p # o => job'[p] = job[p]
      BY <1>3, GoesOn
    <2>2. Calm(job'[o], job[o])
      BY <1>3, <2>1 DEF Calm, SameRequest, Creates, Removes, Succeeds
    <2> QED BY <2>1, <2>2, CalmSame
  <1>4. CASE Read(o)
    <2>1. job[o].kind \in {"audit", "summary"}
      BY <1>k, <1>4, KindsAre DEF Read, Stations
    <2>2. UNCHANGED <<names, log, accounts>> /\ (Answer(o, 200) \/ Break(o))
      BY <1>4 DEF Read
    <2> QED BY <1>1, <1>2, <2>1, <2>2
  <1>5. CASE AdminToken(o)
    <2> DEFINE at == CASE job[o].kind = "create" -> "post"
                       [] job[o].kind = "delete" -> "delete"
                       [] OTHER -> "users"
    <2>1. UNCHANGED <<names, log, accounts>> /\ (Goto(o, at) \/ Break(o))
      BY <1>5 DEF AdminToken
    <2>2. at \notin {"done", "search", "role", "map", "log"}
      OBVIOUS
    <2> HIDE DEF at
    <2> QED BY <1>1, <1>3, <2>1, <2>2
  <1>6. CASE PostUser(o)
    <2>1. UNCHANGED <<names, log, accounts>> /\ (Answer(o, 409) \/ Break(o))
      BY <1>6 DEF PostUser, Makes
    <2> QED BY <1>1, <1>2, <2>1
  <1>7. CASE SearchUser(o)
    <2>1. UNCHANGED <<names, log, accounts>> /\ job[o].at = "search"
      BY <1>7 DEF SearchUser
    <2>2. job[o].kind = "create"
      BY <1>k, <2>1, KindsAre DEF Stations
    <2>3. CASE Break(o) \/ Answer(o, 500)
      BY <1>1, <1>2, <2>1, <2>3
    <2>4. ASSUME NEW id, job' = [job EXCEPT ![o].at = "role", ![o].user = id]
          PROVE  \A p \in Operators : Calm(job'[p], job[p])
      <3>1. /\ SameRequest(job'[o], job[o]) /\ job'[o].at = "role" /\ job'[o].made = job[o].made
            /\ \A p \in Operators : p # o => job'[p] = job[p]
        BY <2>4, SearchGoes
      <3>2. Calm(job'[o], job[o])
        BY <2>1, <2>2, <3>1 DEF Calm, SameRequest, Creates, Removes, Succeeds
      <3> QED BY <3>1, <3>2, CalmSame
    <2> QED BY <1>7, <2>1, <2>3, <2>4 DEF SearchUser
  <1>8. CASE GetRole(o)
    <2>1. UNCHANGED <<names, log, accounts>> /\ job[o].at = "role"
      BY <1>8 DEF GetRole
    <2>2. Creates(job[o])
      BY <1>k, <2>1, KindsAre DEF Stations, Creates
    <2> QED BY <1>1, <1>2, <1>3, <1>8, <2>1, <2>2 DEF GetRole
  <1>9. CASE MapRole(o)
    <2>1. UNCHANGED <<names, log>> /\ job[o].at = "map" /\ (Goto(o, "log") \/ Break(o))
      BY <1>9 DEF MapRole
    <2>2. Creates(job[o])
      BY <1>k, <2>1, KindsAre DEF Stations, Creates
    <2>3. DOMAIN accounts' = DOMAIN accounts
      BY <1>9 DEF MapRole, Grant
    <2> QED BY <1>1, <1>3, <2>1, <2>2, <2>3
  <1>10. CASE DeleteUser(o)
    <2>1. UNCHANGED <<names, log, accounts>> /\ Ends(o)
      BY <1>10 DEF DeleteUser, Unmakes
    <2>2. Answer(o, 404) \/ Break(o)
      <3>1. ASSUME job[o].user \in DOMAIN accounts,
                   accounts' = [i \in DOMAIN accounts \ {job[o].user} |-> accounts[i]]
            PROVE  FALSE
        <4>1. DOMAIN accounts' # DOMAIN accounts
          BY <3>1
        <4> QED BY <2>1, <4>1
      <3> QED BY <1>10, <3>1 DEF DeleteUser
    <2> QED BY <1>1, <1>2, <2>1, <2>2
  <1>11. CASE ListUsers(o) \/ ListRoles(o)
    <2>1. UNCHANGED <<names, log, accounts>>
      BY <1>11 DEF ListUsers, ListRoles
    <2>2. job[o].kind = "list"
      BY <1>k, <1>11, KindsAre DEF ListUsers, ListRoles, Stations
    <2>3. ~DeleteUser(o)
      BY <1>11 DEF ListUsers, ListRoles, DeleteUser
    <2>4. SameRequest(job'[o], job[o]) /\ \A p \in Operators : p # o => job'[p] = job[p]
      BY <2>3, HandleIs
    <2>5. Calm(job'[o], job[o])
      BY <2>2, <2>4 DEF Calm, SameRequest, Creates, Removes, Succeeds
    <2> QED BY <2>1, <2>4, <2>5, CalmSame
  <1>12. CASE LogAdminEvent(o)
    <2>1. Break(o) /\ UNCHANGED <<names, accounts>>
      BY <1>12 DEF LogAdminEvent
    <2>2. UNCHANGED log
      <3>1. ~Answer(o, 200)
        <4>1. Answer(o, 200) => job'[o].status = 200
          BY <1>k DEF Answer, Typed, TypeOK, Job
        <4>2. job'[o].status = 500
          BY <2>1, BreakIs DEF Break, Typed, TypeOK
        <4> QED BY <4>1, <4>2
      <3> QED BY <1>12, <3>1 DEF LogAdminEvent
    <2> QED BY <1>1, <2>1, <2>2
  <1> QED BY <1>4, <1>5, <1>6, <1>7, <1>8, <1>9, <1>10, <1>11, <1>12 DEF Handle

\* Keycloak makes an account, and the request goes on or breaks.
LEMMA StepMakes == ASSUME Typed, LogInv, NEW o \in Operators, Makes(o) PROVE LogInv'
  <1> DEFINE id == Len(names) + 1
  <1>k. /\ job[o] \in Job /\ job[o].kind = "create" /\ job[o].at = "post"
        /\ job[o].name \in Emails /\ names \in Seq(Emails)
    <2>1. job[o] \in Job /\ job[o].kind \in DOMAIN Endpoint /\ job[o].at \in Stations[job[o].kind]
      BY DEF Typed, TypeOK, StationInv, Job
    <2>2. job[o].at = "post"
      BY DEF Makes, PostUser
    <2>3. job[o].kind = "create"
      BY <2>1, <2>2, KindsAre DEF Stations
    <2>4. job[o].name \in Emails
      BY <2>3 DEF Typed, StationInv
    <2> QED BY <2>1, <2>2, <2>3, <2>4 DEF Typed, TypeOK
  <1>i. Ids = 1..Len(names) /\ Len(names) \in Nat
    BY IdsAre DEF Typed
  <1>1. names' = Append(names, job[o].name)
    BY DEF Makes
  <1>2. /\ UNCHANGED log
        /\ accounts' = [i \in DOMAIN accounts \cup {id} |->
              IF i = id THEN [name |-> job[o].name, roles |-> {}] ELSE accounts[i]]
        /\ job' = [job EXCEPT ![o].at = "search", ![o].made = id] \/ Break(o)
    <2>1. ~UNCHANGED <<accounts, names>>
      <3>1. Len(names') = id
        BY <1>k, <1>1
      <3> QED BY <1>i, <3>1
    <2> QED BY <2>1 DEF Makes, PostUser
  <1>3. /\ \A i \in Ids : i \in Ids' /\ names'[i] = names[i]
        /\ id \in Ids' /\ id \notin Ids /\ names'[id] = job[o].name
        /\ \A i \in Ids \ DOMAIN accounts : i \in Ids' \ DOMAIN accounts'
    BY <1>k, <1>i, <1>1, <1>2 DEF Ids
  <1>4. /\ \A p \in Operators : p # o => job'[p] = job[p]
        /\ job'[o].at \in {"search", "done"} /\ SameRequest(job'[o], job[o])
        /\ Creates(job'[o]) => job'[o].made = id
        /\ ~Removes(job'[o]) /\ ~Succeeds(job'[o])
    <2>1. CASE Break(o)
      <3>1. job'[o] = Broken(o) /\ \A p \in Operators : p # o => job'[p] = job[p]
        BY <2>1 DEF Break, Typed, TypeOK
      <3> QED BY <3>1, BreakIs DEF Typed, Creates, Removes, Succeeds
    <2>2. CASE job' = [job EXCEPT ![o].at = "search", ![o].made = id]
      BY <2>2, PostGoes DEF Creates, Removes, Succeeds
    <2> QED BY <1>2, <2>1, <2>2
  <1> HIDE DEF id
  <1>5. UNCHANGED <<Creations, Deletions>> /\ \A n, i : Created(n)' = Created(n) /\ Deleted(i)' = Deleted(i)
    BY <1>2 DEF Creations, Deletions, Created, Deleted
  <1>6. SuccessInv'
    <2>1. \A p \in Operators : Succeeds(job'[p]) => job'[p] = job[p]
      BY <1>4
    <2> QED BY <1>5, <2>1 DEF LogInv, SuccessInv
  <1>7. DeletionInv'
    <2>1. \A p \in Operators : Removes(job'[p]) => job'[p] = job[p]
      BY <1>4
    <2>2. \A i \in Deletions : log'[i] = log[i]
      BY <1>2
    <2>3. \A i \in Deletions : log[i].user \in Ids' \ DOMAIN accounts'
      BY <1>3 DEF LogInv, DeletionInv
    <2>4. \A p \in Operators : Removes(job'[p]) =>
             /\ job'[p].user \in Ids' \ DOMAIN accounts'
             /\ \A i \in Deletions : log[i].user # job'[p].user
      BY <1>3, <2>1 DEF LogInv, DeletionInv
    <2>5. \A p, q \in Operators : Removes(job'[p]) /\ Removes(job'[q]) /\ p # q
             => job'[p].user # job'[q].user
      BY <2>1 DEF LogInv, DeletionInv
    <2> QED BY <1>2, <1>5, <2>3, <2>4, <2>5 DEF LogInv, DeletionInv
  <1>8. MadeInv'
    <2>1. ASSUME NEW p \in Operators, Creates(job'[p])
          PROVE  job'[p].made \in Ids' /\ names'[job'[p].made] = job'[p].name
      <3>1. CASE p = o
        BY <1>3, <1>4, <2>1, <3>1 DEF SameRequest
      <3>2. CASE p # o
        BY <1>3, <1>4, <2>1, <3>2 DEF LogInv, MadeInv
      <3> QED BY <3>1, <3>2
    <2>2. ASSUME NEW p \in Operators, NEW q \in Operators,
                 Creates(job'[p]), Creates(job'[q]), p # q
          PROVE  job'[p].made # job'[q].made
      BY <1>3, <1>4, <2>2 DEF LogInv, MadeInv
    <2> QED BY <2>1, <2>2 DEF MadeInv
  <1>9. \E f \in [Creations -> Ids]' : Credits(f)'
    <2>1. PICK f \in [Creations -> Ids] : Credits(f)
      BY DEF LogInv
    <2>2. f \in [Creations -> Ids]'
      BY <1>3, <1>5
    <2>3. \A i \in Creations : f[i] \in Ids
      OBVIOUS
    <2>4. ASSUME NEW p \in Operators, Creates(job'[p]), NEW i \in Creations
          PROVE  f[i] # job'[p].made
      BY <1>3, <1>4, <2>1, <2>3, <2>4 DEF Credits
    <2>5. Credits(f)'
      BY <1>2, <1>3, <1>5, <2>1, <2>3, <2>4 DEF Credits
    <2> QED BY <2>2, <2>5
  <1> QED BY <1>6, <1>7, <1>8, <1>9 DEF LogInv

\* Keycloak deletes an account.
LEMMA StepUnmakes == ASSUME Typed, LogInv, NEW o \in Operators, Unmakes(o) PROVE LogInv'
  <1> DEFINE id == job[o].user
  <1>1. /\ id \in DOMAIN accounts /\ DOMAIN accounts' = DOMAIN accounts \ {id}
        /\ job[o].kind = "delete" /\ job[o].at = "delete"
        /\ SameRequest(job'[o], job[o]) /\ job'[o].user = id
        /\ ~Creates(job'[o]) /\ ~Succeeds(job'[o])
    <2>1. /\ Deletes(o) /\ job[o].kind = "delete" /\ job[o].at = "delete"
          /\ SameRequest(job'[o], job[o]) /\ job'[o].user = id
          /\ job'[o].at = "log" \/ (job'[o].at = "done" /\ job'[o].status = 500)
      BY DeleteGoes DEF Unmakes
    <2> QED BY <2>1 DEF Deletes, SameRequest, Creates, Succeeds
  <1>2. ASSUME NEW p \in Operators, p # o PROVE Calm(job'[p], job[p]) /\ job'[p].user = job[p].user
    <2>1. Untouched(job'[p], job[p])
      BY <1>2, DeleteGoes DEF Unmakes
    <2> QED BY <2>1 DEF Untouched, SameRequest, Calm, Creates, Removes, Succeeds
  <1>3. UNCHANGED <<names, log>>
    BY DEF Unmakes, DeleteUser
  <1>4. UNCHANGED <<Ids, Creations, Deletions>>
        /\ \A n, i : Created(n)' = Created(n) /\ Deleted(i)' = Deleted(i)
    BY <1>3 DEF Ids, Creations, Deletions, Created, Deleted
  <1>5. DOMAIN accounts \subseteq Ids
    BY DEF Typed, TypeOK
  <1> HIDE DEF id
  <1>6. SuccessInv'
    BY <1>1, <1>2, <1>4 DEF LogInv, SuccessInv, Calm, SameRequest
  <1>7. DeletionInv'
    <2>1. \A i \in Deletions : log[i].user \in Ids \ DOMAIN accounts' /\ log[i].user # id
      BY <1>1 DEF LogInv, DeletionInv
    <2>2. ASSUME NEW p \in Operators, Removes(job'[p])
          PROVE  /\ job'[p].user \in Ids \ DOMAIN accounts'
                 /\ \A i \in Deletions : log[i].user # job'[p].user
      <3>1. CASE p = o
        BY <1>1, <1>5, <2>1, <3>1
      <3>2. CASE p # o
        BY <1>1, <1>2, <2>2, <3>2 DEF LogInv, DeletionInv, Calm
      <3> QED BY <3>1, <3>2
    <2>3. ASSUME NEW p \in Operators, p # o, Removes(job'[p]) PROVE job'[p].user # id
      BY <1>1, <1>2, <2>3 DEF LogInv, DeletionInv, Calm
    <2>4. ASSUME NEW p \in Operators, NEW q \in Operators,
                 Removes(job'[p]), Removes(job'[q]), p # q
          PROVE  job'[p].user # job'[q].user
      <3>1. CASE p = o
        BY <1>1, <2>3, <2>4, <3>1
      <3>2. CASE q = o
        BY <1>1, <2>3, <2>4, <3>2
      <3>3. CASE p # o /\ q # o
        BY <1>2, <2>4, <3>3 DEF LogInv, DeletionInv, Calm
      <3> QED BY <3>1, <3>2, <3>3
    <2> QED BY <1>3, <1>4, <2>1, <2>2, <2>4 DEF LogInv, DeletionInv
  <1>8. \A p \in Operators : Creates(job'[p]) =>
           Creates(job[p]) /\ job'[p].made = job[p].made /\ job'[p].name = job[p].name
    BY <1>1, <1>2 DEF Calm, SameRequest
  <1>9. MadeInv'
    BY <1>3, <1>4, <1>8 DEF LogInv, MadeInv
  <1>10. \E f \in [Creations -> Ids]' : Credits(f)'
    <2>1. PICK f \in [Creations -> Ids] : Credits(f)
      BY DEF LogInv
    <2>2. Credits(f)'
      BY <1>3, <1>4, <1>8, <2>1 DEF Credits
    <2> QED BY <1>4, <2>2
  <1> QED BY <1>6, <1>7, <1>9, <1>10 DEF LogInv

\* The line is written and the operator answered.
LEMMA StepLogs ==
    ASSUME Typed, LogInv, NEW o \in Operators, LogAdminEvent(o), ~Break(o)
    PROVE  LogInv'
  <1>1. /\ job[o].at = "log" /\ log' = Append(log, Entry(o)) /\ Answer(o, 200)
        /\ UNCHANGED <<accounts, names>>
    BY DEF LogAdminEvent
  <1>2. job[o] \in Job /\ job[o].kind \in {"create", "delete"} /\ log \in Seq(Line)
    <2>1. job[o] \in Job /\ job[o].kind \in DOMAIN Endpoint /\ job[o].at \in Stations[job[o].kind]
      BY DEF Typed, TypeOK, StationInv, Job
    <2>2. job[o].kind \in {"create", "delete"}
      BY <1>1, <2>1, KindsAre DEF Stations
    <2> QED BY <2>1, <2>2 DEF Typed, TypeOK
  <1>3. /\ \A p \in Operators : p # o => job'[p] = job[p]
        /\ SameRequest(job'[o], job[o]) /\ job'[o].at = "done" /\ job'[o].user = job[o].user
    BY <1>1, <1>2 DEF Answer, SameRequest, Typed, TypeOK, Job
  <1> DEFINE last == Len(log) + 1
  <1>4. /\ DOMAIN log' = DOMAIN log \cup {last} /\ last \notin DOMAIN log
        /\ log'[last] = Entry(o) /\ \A i \in DOMAIN log : log'[i] = log[i]
    <2>1. Len(log) \in Nat /\ DOMAIN log = 1..Len(log)
      BY <1>2
    <2> QED BY <1>1, <1>2, <2>1
  <1> HIDE DEF last
  <1>5. Ids' = Ids
    BY <1>1 DEF Ids
  <1>6. /\ job[o].kind = "create" => /\ Entry(o).action = "create_user"
                                     /\ Entry(o).name = job[o].name
        /\ job[o].kind = "delete" => /\ Entry(o).action = "delete_user"
                                     /\ Entry(o).user = job[o].user
    BY DEF Entry
  <1>7. SuccessInv'
    <2>1. ASSUME NEW p \in Operators, Succeeds(job'[p])
          PROVE  /\ job'[p].kind = "create" => Created(job[p].name)' # {}
                 /\ job'[p].kind = "delete" => Deleted(job[p].user)' # {}
      <3>1. CASE p = o
        <4>1. job[o].kind = "create" => last \in Created(job[o].name)'
          BY <1>3, <1>4, <1>6 DEF Created, SameRequest
        <4>2. job[o].kind = "delete" => last \in Deleted(job[o].user)'
          BY <1>3, <1>4, <1>6 DEF Deleted, SameRequest
        <4> QED BY <1>3, <3>1, <4>1, <4>2 DEF SameRequest
      <3>2. CASE p # o
        <4>1. job'[p] = job[p] /\ Succeeds(job[p])
          BY <1>3, <2>1, <3>2
        <4>2. /\ job[p].kind = "create" => Created(job[p].name) # {}
              /\ job[p].kind = "delete" => Deleted(job[p].user) # {}
          BY <4>1 DEF LogInv, SuccessInv
        <4>3. Created(job[p].name) \subseteq Created(job[p].name)'
          BY <1>4, <4>1 DEF Created
        <4>4. Deleted(job[p].user) \subseteq Deleted(job[p].user)'
          BY <1>4, <4>1 DEF Deleted
        <4> QED BY <4>1, <4>2, <4>3, <4>4
      <3> QED BY <3>1, <3>2
    <2> QED BY <2>1 DEF SuccessInv
  <1>8. CASE job[o].kind = "create"
    <2>1. Creations' = Creations \cup {last} /\ Deletions' = Deletions
          /\ last \notin Creations /\ log'[last].name = job[o].name
          /\ (\A i \in Creations : log'[i] = log[i]) /\ (\A i \in Deletions : log'[i] = log[i])
      BY <1>4, <1>6, <1>8 DEF Creations, Deletions
    <2>2. Creates(job[o])
      BY <1>1, <1>8 DEF Creates
    <2>3. ASSUME NEW p \in Operators, Creates(job'[p]) \/ Removes(job'[p])
          PROVE  p # o /\ job'[p] = job[p]
      BY <1>3, <2>3 DEF Creates, Removes
    <2>4. DeletionInv'
      <3>1. \A i \in Deletions : log'[i].user \in Ids \ DOMAIN accounts
        BY <2>1 DEF LogInv, DeletionInv
      <3>2. \A i, j \in Deletions : log'[i].user = log'[j].user => i = j
        BY <2>1 DEF LogInv, DeletionInv
      <3>3. \A p \in Operators : Removes(job'[p]) =>
              /\ job'[p].user \in Ids \ DOMAIN accounts
              /\ \A i \in Deletions : log'[i].user # job'[p].user
        BY <2>1, <2>3 DEF LogInv, DeletionInv
      <3>4. \A p, q \in Operators : Removes(job'[p]) /\ Removes(job'[q]) /\ p # q
              => job'[p].user # job'[q].user
        BY <2>3 DEF LogInv, DeletionInv
      <3> QED BY <1>1, <1>5, <2>1, <3>1, <3>2, <3>3, <3>4 DEF DeletionInv
    <2>5. MadeInv'
      BY <1>1, <1>5, <2>3 DEF LogInv, MadeInv
    <2>6. PICK f \in [Creations -> Ids] : Credits(f)
      BY DEF LogInv
    <2>7. job[o].made \in Ids /\ names[job[o].made] = job[o].name
      BY <2>2 DEF LogInv, MadeInv
    <2>8. \E h \in [Creations \cup {last} -> Ids] :
              h[last] = job[o].made /\ \A i \in Creations : h[i] = f[i]
      <3> DEFINE h == [i \in Creations \cup {last} |-> IF i = last THEN job[o].made ELSE f[i]]
      <3>1. h \in [Creations \cup {last} -> Ids]
        BY <2>7
      <3>2. h[last] = job[o].made /\ \A i \in Creations : h[i] = f[i]
        BY <2>1
      <3> QED BY <3>1, <3>2
    <2>9. PICK g \in [Creations \cup {last} -> Ids] :
              g[last] = job[o].made /\ \A i \in Creations : g[i] = f[i]
      BY <2>8
    <2>10. \A i, j \in Creations \cup {last} : g[i] = g[j] => i = j
      BY <2>2, <2>6, <2>9 DEF Credits
    <2>11. \A i \in Creations \cup {last} : names[g[i]] = log'[i].name
      BY <2>1, <2>6, <2>7, <2>9 DEF Credits
    <2>12. ASSUME NEW p \in Operators, Creates(job'[p]), NEW i \in Creations \cup {last}
           PROVE  g[i] # job'[p].made
      <3>1. p # o /\ job'[p] = job[p]
        BY <2>3, <2>12
      <3>2. CASE i = last
        BY <2>2, <2>9, <2>12, <3>1, <3>2 DEF LogInv, MadeInv
      <3>3. CASE i \in Creations
        BY <2>6, <2>9, <2>12, <3>1, <3>3 DEF Credits
      <3> QED BY <3>2, <3>3
    <2>13. Credits(g)'
      BY <1>1, <2>1, <2>10, <2>11, <2>12 DEF Credits
    <2>14. g \in [Creations -> Ids]'
      BY <1>5, <2>1
    <2> QED BY <1>7, <2>4, <2>5, <2>13, <2>14 DEF LogInv
  <1>9. CASE job[o].kind = "delete"
    <2>1. Deletions' = Deletions \cup {last} /\ Creations' = Creations
          /\ last \notin Deletions /\ log'[last].user = job[o].user
          /\ (\A i \in Creations : log'[i] = log[i]) /\ (\A i \in Deletions : log'[i] = log[i])
      BY <1>4, <1>6, <1>9 DEF Creations, Deletions
    <2>2. Removes(job[o])
      BY <1>1, <1>9 DEF Removes
    <2>3. ASSUME NEW p \in Operators, Creates(job'[p]) \/ Removes(job'[p])
          PROVE  p # o /\ job'[p] = job[p]
      BY <1>3, <2>3 DEF Creates, Removes
    <2>4. /\ job[o].user \in Ids \ DOMAIN accounts
          /\ \A i \in Deletions : log[i].user # job[o].user
      BY <2>2 DEF LogInv, DeletionInv
    <2>5. DeletionInv'
      <3>1. \A i \in Deletions \cup {last} : log'[i].user \in Ids \ DOMAIN accounts
        BY <2>1, <2>4 DEF LogInv, DeletionInv
      <3>2. \A i, j \in Deletions \cup {last} : log'[i].user = log'[j].user => i = j
        BY <2>1, <2>4 DEF LogInv, DeletionInv
      <3>3. ASSUME NEW p \in Operators, Removes(job'[p])
            PROVE  /\ job'[p].user \in Ids \ DOMAIN accounts
                   /\ \A i \in Deletions \cup {last} : log'[i].user # job'[p].user
        BY <2>1, <2>2, <2>3, <3>3 DEF LogInv, DeletionInv
      <3>4. \A p, q \in Operators : Removes(job'[p]) /\ Removes(job'[q]) /\ p # q
              => job'[p].user # job'[q].user
        BY <2>3 DEF LogInv, DeletionInv
      <3> QED BY <1>1, <1>5, <2>1, <3>1, <3>2, <3>3, <3>4 DEF DeletionInv
    <2>6. MadeInv'
      BY <1>1, <1>5, <2>3 DEF LogInv, MadeInv
    <2>7. PICK f \in [Creations -> Ids] : Credits(f)
      BY DEF LogInv
    <2>8. Credits(f)'
      <3>1. \A i \in Creations : names'[f[i]] = log'[i].name
        BY <1>1, <2>1, <2>7 DEF Credits
      <3>2. \A p \in Operators : Creates(job'[p]) => \A i \in Creations : f[i] # job'[p].made
        BY <2>3, <2>7 DEF Credits
      <3> QED BY <2>1, <2>7, <3>1, <3>2 DEF Credits
    <2> QED BY <1>5, <1>7, <2>1, <2>5, <2>6, <2>8 DEF LogInv
  <1> QED BY <1>2, <1>8, <1>9

LEMMA StepLog == Typed /\ LogInv /\ [Next]_vars => LogInv'
  <1> SUFFICES ASSUME Typed, LogInv, [Next]_vars PROVE LogInv'
    OBVIOUS
  <1>1. ASSUME NEW o \in Operators, Arrive(o) PROVE LogInv'
    <2>1. /\ UNCHANGED <<accounts, names, log>>
          /\ \A p \in Operators : p # o => job'[p] = job[p]
          /\ ~Creates(job'[o]) /\ ~Removes(job'[o]) /\ ~Succeeds(job'[o])
      <3>1. UNCHANGED <<accounts, names, log>> /\ \A p \in Operators : p # o => job'[p] = job[p]
        BY <1>1, ArriveIs
      <3>2. CASE job'[o].at \in {"read", "token"}
        BY <3>1, <3>2 DEF Creates, Removes, Succeeds
      <3>3. CASE job'[o].at = "done" /\ job'[o].status # 200
        BY <3>1, <3>3 DEF Creates, Removes, Succeeds
      <3> QED BY <1>1, <3>2, <3>3, ArriveIs
    <2>2. \A p \in Operators : Creates(job'[p]) \/ Removes(job'[p]) \/ Succeeds(job'[p])
             => job'[p] = job[p]
      BY <2>1
    <2>3. UNCHANGED <<Ids, Creations, Deletions>>
          /\ \A n, i : Created(n)' = Created(n) /\ Deleted(i)' = Deleted(i)
      BY <2>1 DEF Ids, Creations, Deletions, Created, Deleted
    <2>4. SuccessInv'
      BY <2>2, <2>3 DEF LogInv, SuccessInv
    <2>5. DeletionInv'
      BY <2>1, <2>2, <2>3 DEF LogInv, DeletionInv
    <2>6. MadeInv'
      BY <2>1, <2>2, <2>3 DEF LogInv, MadeInv
    <2>7. PICK f \in [Creations -> Ids] : Credits(f)
      BY DEF LogInv
    <2>8. Credits(f)'
      BY <2>1, <2>2, <2>3, <2>7 DEF Credits
    <2> QED BY <2>3, <2>4, <2>5, <2>6, <2>8 DEF LogInv
  <1>2. ASSUME NEW o \in Operators, Handle(o) PROVE LogInv'
    BY <1>2, CalmStep, LogStays, StepMakes, StepUnmakes, StepLogs
  <1>3. CASE UNCHANGED vars
    BY <1>3, CalmSame, LogStays DEF vars
  <1> QED BY <1>1, <1>2, <1>3 DEF Next

\* What the invariant says in numbers.
LEMMA LogCounts == ASSUME Typed, LogInv PROVE LogTruthful
  <1>1. \A o \in Operators : job[o].at = "done" /\ job[o].status = 200 =>
          /\ job[o].kind = "create" => Created(job[o].name) # {}
          /\ job[o].kind = "delete" => Deleted(job[o].user) # {}
    BY DEF LogInv, SuccessInv, Succeeds
  <1>2. ASSUME NEW id \in Ids
        PROVE  Cardinality(Deleted(id)) <= IF id \in DOMAIN accounts THEN 0 ELSE 1
    <2>1. Deleted(id) = {i \in Deletions : log[i].user = id}
      BY DEF Deleted, Deletions
    <2>2. CASE Deleted(id) = {}
      BY <2>2, FS_EmptySet
    <2>3. CASE Deleted(id) # {}
      <3>1. PICK i : i \in Deleted(id)
        BY <2>3
      <3>2. Deleted(id) = {i} /\ id \notin DOMAIN accounts
        BY <2>1, <3>1 DEF LogInv, DeletionInv
      <3> QED BY <3>2, FS_Singleton
    <2> QED BY <2>2, <2>3
  <1>3. ASSUME NEW n \in Emails
        PROVE  Cardinality(Created(n)) <= Cardinality({id \in Ids : names[id] = n})
    <2> DEFINE of == {id \in Ids : names[id] = n}
    <2>1. PICK f \in [Creations -> Ids] : Credits(f)
      BY DEF LogInv
    <2>2. Created(n) = {i \in Creations : log[i].name = n}
      BY DEF Created, Creations
    <2> DEFINE g == [i \in Created(n) |-> f[i]]
    <2>3. g \in [Created(n) -> of]
      BY <2>1, <2>2 DEF Credits
    <2>4. \A i, j \in Created(n) : g[i] = g[j] => i = j
      BY <2>1, <2>2 DEF Credits
    <2>5. IsFiniteSet(of)
      BY IdsAre, FS_Subset DEF Typed
    <2> HIDE DEF g, of
    <2>6. g \in Injection(Created(n), of)
      BY <2>3, <2>4, Fun_IsInj
    <2>7. Cardinality(Created(n)) <= Cardinality(of)
      BY <2>5, <2>6, FS_Injection
    <2> QED BY <2>7 DEF of
  <1> QED BY <1>1, <1>2, <1>3 DEF LogTruthful

\* The audit log and Keycloak agree whatever calls fail and however the
\* operators' requests interleave (main.py 206-266).
THEOREM LogIsTruthful == Spec => []LogTruthful
  <1>1. Typed /\ LogInv => LogTruthful
    BY LogCounts
  <1> QED BY <1>1, AlwaysTyped, InitLog, StepLog, PTL DEF Spec
=============================================================================
