----------------------------- MODULE AdminUsers -----------------------------
(***************************************************************************)
(* User administration (admin-api/main.py): several operators list, create *)
(* and delete accounts.  The handlers are asynchronous and every one makes *)
(* a series of calls to Keycloak, so they interleave at each await; there  *)
(* is no transaction around a series, any call may fail, and a failed call *)
(* may have been carried out all the same.                                 *)
(*                                                                         *)
(* Keycloak is external: accounts are numbered as it creates them, a user  *)
(* name is taken once, and a search by name answers every account whose    *)
(* name contains the text, in the order of the names.                      *)
(***************************************************************************)
EXTENDS Access, Sequences, FiniteSets

CONSTANTS
    Operators,     \* open pages of the admin portal
    Names,         \* e-mail addresses, as the sequence Keycloak sorts them into
    Within,        \* pairs <<n, m>> of names such that n is part of m
    RealmRoles,    \* roles Keycloak knows
    Wanted,        \* roles a form may ask for
    Credentials,   \* [token, namespace] of the requests
    Env,           \* environment of the process, see Access
    MaxRequests,   \* bound of the model: requests of all operators together
    Faults         \* Keycloak calls and log writes may fail

Emails == {Names[i] : i \in DOMAIN Names}

ASSUME AdminAssumption ==
    /\ Names \in Seq(STRING)
    /\ \A i, j \in DOMAIN Names : i # j => Names[i] # Names[j]
    /\ Within \subseteq Emails \X Emails
    /\ \A n \in Emails : <<n, n>> \in Within
    /\ RealmRoles \subseteq STRING
    /\ Wanted \subseteq STRING
    /\ MaxRequests \in Nat
    /\ Faults \in BOOLEAN

VARIABLES
    accounts,   \* Keycloak: account number -> [name, roles]
    names,      \* the names of all accounts ever, in the order of their numbers
    job,        \* the request each operator has under way, or its last one
    log,        \* the lines of admin-*.log, in order
    sent,       \* requests sent so far
    asked       \* pairs <<name, role>> of the create requests so far (history)

vars == <<accounts, names, job, log, sent, asked>>

Ids == DOMAIN names
NoId == 0
Reads == {"audit", "summary"}   \* the pages of the log and of its figures
Calling == {"read", "token", "post", "search", "role", "map", "delete", "users", "roles"}
Points == {"done", "log"} \cup Calling
Line == [action : {"create_user", "delete_user"}, name : Emails \cup {None},
         user : Nat, role : Wanted \cup {None}]
Item == [id : Nat, roles : SUBSET RealmRoles]
Job == [at : Points, kind : DOMAIN Endpoint, login : Credentials, status : Nat,
        name : Emails \cup {None}, role : Wanted \cup {None},
        user : Nat,                \* the account the handler works on
        made : Nat,                \* the account its POST created (history)
        todo : Seq(Nat), items : Seq(Item),
        excuse : {None, "call", "gone"}]   \* a call failed, or an account that was
                                           \* still to be asked about went (history)

TypeOK ==
    /\ names \in Seq(Emails)
    /\ DOMAIN accounts \subseteq Ids
    /\ \A id \in DOMAIN accounts : accounts[id] \in [name : Emails, roles : SUBSET RealmRoles]
    /\ job \in [Operators -> Job]
    /\ log \in Seq(Line)
    /\ sent \in 0..MaxRequests
    /\ asked \subseteq Emails \X Wanted

\* A request as it starts; only a create names a name and a role, only a delete
\* an account.
New(kind, login, name, role, user) ==
    [at |-> IF kind \in Reads THEN "read" ELSE "token", kind |-> kind,
     login |-> login, status |-> 200, name |-> name,
     role |-> role, user |-> user, made |-> NoId, todo |-> <<>>, items |-> <<>>,
     excuse |-> None]

NewRequests ==
    {New(kind, l, None, None, NoId) : kind \in Reads \cup {"list"}, l \in Credentials}
    \cup {New("delete", l, None, None, id) : l \in Credentials, id \in Ids}
    \cup {New("create", l, n, r, NoId) : l \in Credentials, n \in Emails, r \in Wanted}

Init ==
    /\ accounts = <<>>
    /\ names = <<>>
    /\ \E l \in Credentials :
          job = [o \in Operators |-> [New("list", l, None, None, NoId) EXCEPT !.at = "done"]]
    /\ log = <<>>
    /\ sent = 0
    /\ asked = {}

-----------------------------------------------------------------------------
(* Keycloak.                                                               *)

Held(name) == {id \in DOMAIN accounts : accounts[id].name = name}

\* Mutant: the search forgets the name.
Hits_All(name) == DOMAIN accounts

\* GET users?username=: the name is a part of the account's name.
Hits(name) == {id \in DOMAIN accounts : <<name, accounts[id].name>> \in Within}

Position(id) == CHOOSE i \in DOMAIN Names : Names[i] = accounts[id].name

\* A set of accounts, listed in the order of their names.
Listings(ids) ==
    {s \in [1..Cardinality(ids) -> ids] :
        \A i, j \in DOMAIN s : i < j => Position(s[i]) < Position(s[j])}

Grant(id, role) ==
    accounts' = [accounts EXCEPT ![id].roles = @ \cup {role}]

-----------------------------------------------------------------------------
(* The handlers.  Goto and Answer end a step of the job of operator o.     *)

Goto(o, at) == job' = [job EXCEPT ![o].at = at]
Answer(o, status) == job' = [job EXCEPT ![o].at = "done", ![o].status = status]

\* A call raises: a timeout, or a status raise_for_status refuses.  The
\* exception leaves the handler.
Broken(o) == [job[o] EXCEPT !.at = "done", !.status = 500, !.excuse = "call"]

Break(o) ==
    /\ Faults
    /\ job' = [job EXCEPT ![o] = Broken(o)]

\* An operator sends a request; the gates answer it or the handler starts.
Arrive(o) ==
    /\ job[o].at = "done"
    /\ sent < MaxRequests
    /\ sent' = sent + 1
    /\ \E r \in NewRequests :
          LET gate == Admitted(r.kind, r.login.token, r.login.namespace, Env) IN
          IF gate = 200
          THEN /\ job' = [job EXCEPT ![o] = r]
               /\ asked' = IF r.kind = "create" THEN asked \cup {<<r.name, r.role>>}
                                             ELSE asked
          ELSE /\ job' = [job EXCEPT ![o] = [r EXCEPT !.at = "done", !.status = gate]]
               /\ UNCHANGED asked
    /\ UNCHANGED <<accounts, names, log>>

\* get_audit and metrics_summary never await: files and collections are read in
\* one go, and any of the reads may raise.
Read(o) ==
    /\ job[o].at = "read"
    /\ Answer(o, 200) \/ Break(o)
    /\ UNCHANGED <<accounts, names, log, sent, asked>>

\* _admin_token, the first call of all the others.
AdminToken(o) ==
    /\ job[o].at = "token"
    /\ \/ Goto(o, CASE job[o].kind = "create" -> "post"
                    [] job[o].kind = "delete" -> "delete"
                    [] OTHER -> "users")
       \/ Break(o)
    /\ UNCHANGED <<accounts, names, log, sent, asked>>

\* main.py:211-223.  A taken name is answered with Keycloak's 409; a POST that
\* times out may have created the account.
PostUser(o) ==
    LET id == Len(names) + 1
        name == job[o].name IN
    /\ job[o].at = "post"
    /\ \/ /\ Held(name) # {}
          /\ Answer(o, 409)
          /\ UNCHANGED <<accounts, names>>
       \/ /\ Held(name) = {}
          /\ names' = Append(names, name)
          /\ accounts' = [i \in DOMAIN accounts \cup {id} |->
                  IF i = id THEN [name |-> name, roles |-> {}] ELSE accounts[i]]
          /\ \/ job' = [job EXCEPT ![o].at = "search", ![o].made = id]
             \/ Break(o)
       \/ /\ Break(o)
          /\ UNCHANGED <<accounts, names>>
    /\ UNCHANGED <<log, sent, asked>>

\* main.py:224-229.  The first hit is taken, whatever its name; without a hit
\* [0] raises.
SearchUser(o) ==
    LET hits == Hits(job[o].name) IN
    /\ job[o].at = "search"
    /\ \/ \E list \in Listings(hits) :
             /\ list # <<>>
             /\ job' = [job EXCEPT ![o].at = "role", ![o].user = list[1]]
       \/ /\ hits = {}
          /\ Answer(o, 500)
       \/ Break(o)
    /\ UNCHANGED <<accounts, names, log, sent, asked>>

\* Mutant: the status of the role's GET is not looked at.
GetRole_Unchecked(o) ==
    /\ job[o].at = "role"
    /\ Goto(o, "map") \/ Break(o)
    /\ UNCHANGED <<accounts, names, log, sent, asked>>

\* main.py:230-235: an unknown role is a 404, which raise_for_status raises.
GetRole(o) ==
    /\ job[o].at = "role"
    /\ \/ job[o].role \in RealmRoles /\ Goto(o, "map")
       \/ job[o].role \notin RealmRoles /\ Answer(o, 500)
       \/ Break(o)
    /\ UNCHANGED <<accounts, names, log, sent, asked>>

\* main.py:236-240.  Nobody looks at the status of this answer.
MapRole(o) ==
    LET id == job[o].user IN
    /\ job[o].at = "map"
    /\ \/ id \in DOMAIN accounts /\ Grant(id, job[o].role)
       \/ (id \notin DOMAIN accounts \/ Faults) /\ UNCHANGED accounts
    /\ \/ Goto(o, "log")
       \/ Break(o)
    /\ UNCHANGED <<names, log, sent, asked>>

\* Mutant: a 404 counts as done.
DeleteUser_Lenient(o) ==
    LET id == job[o].user IN
    /\ job[o].at = "delete"
    /\ accounts' = [i \in DOMAIN accounts \ {id} |-> accounts[i]]
    /\ job' = [p \in Operators |->
          IF p = o THEN [job[p] EXCEPT !.at = "log"] ELSE [job[p] EXCEPT !.excuse = "gone"]]
    /\ UNCHANGED <<names, log, sent, asked>>

\* main.py:254-260.  A listing under way loses an account it has yet to ask
\* about.
DeleteUser(o) ==
    LET id == job[o].user
        listed(p) == \E i \in DOMAIN job[p].todo : job[p].todo[i] = id IN
    /\ job[o].at = "delete"
    /\ \/ /\ id \in DOMAIN accounts
          /\ accounts' = [i \in DOMAIN accounts \ {id} |-> accounts[i]]
          /\ \E r \in {[job[o] EXCEPT !.at = "log"]} \cup (IF Faults THEN {Broken(o)} ELSE {}) :
             job' = [p \in Operators |->
                IF p = o THEN r
                ELSE IF listed(p) THEN [job[p] EXCEPT !.excuse = "gone"] ELSE job[p]]
       \/ /\ id \notin DOMAIN accounts
          /\ Answer(o, 404)
          /\ UNCHANGED accounts
       \/ /\ Break(o)
          /\ UNCHANGED accounts
    /\ UNCHANGED <<names, log, sent, asked>>

\* Mutant: every account there ever was is asked about.
Listed_Stale == {[i \in Ids |-> i]}

Listed == Listings(DOMAIN accounts)

\* main.py:178-184.
ListUsers(o) ==
    /\ job[o].at = "users"
    /\ \/ \E list \in Listed : job' = [job EXCEPT ![o].at = "roles", ![o].todo = list]
       \/ Break(o)
    /\ UNCHANGED <<accounts, names, log, sent, asked>>

\* main.py:186-203: one call for each account of the list; a 404 is raised.
ListRoles(o) ==
    LET todo == job[o].todo
        id == Head(todo) IN
    /\ job[o].at = "roles"
    /\ \/ /\ todo = <<>>
          /\ Answer(o, 200)
       \/ /\ todo # <<>> /\ id \in DOMAIN accounts
          /\ job' = [job EXCEPT ![o].todo = Tail(@),
                         ![o].items = Append(@, [id |-> id, roles |-> accounts[id].roles])]
       \/ /\ todo # <<>> /\ id \notin DOMAIN accounts
          /\ Answer(o, 500)
       \/ Break(o)
    /\ UNCHANGED <<accounts, names, log, sent, asked>>

Entry(o) ==
    IF job[o].kind = "create"
    THEN [action |-> "create_user", name |-> job[o].name, user |-> NoId,
          role |-> job[o].role]
    ELSE [action |-> "delete_user", name |-> None, user |-> job[o].user, role |-> None]

\* main.py:27-41, 241-247 and 261-266: the line, then the answer.  The change
\* stands when the write fails.
LogAdminEvent(o) ==
    /\ job[o].at = "log"
    /\ \/ log' = Append(log, Entry(o)) /\ Answer(o, 200)
       \/ Break(o) /\ UNCHANGED log
    /\ UNCHANGED <<accounts, names, sent, asked>>

Handle(o) ==
    \/ Read(o) \/ AdminToken(o) \/ PostUser(o) \/ SearchUser(o) \/ GetRole(o) \/ MapRole(o)
    \/ DeleteUser(o) \/ ListUsers(o) \/ ListRoles(o) \/ LogAdminEvent(o)

Next == \E o \in Operators : Arrive(o) \/ Handle(o)

Spec == Init /\ [][Next]_vars

-----------------------------------------------------------------------------
Created(name) == {i \in DOMAIN log : log[i].action = "create_user" /\ log[i].name = name}
Deleted(id) == {i \in DOMAIN log : log[i].action = "delete_user" /\ log[i].user = id}

\* The log and the accounts tell the same story, whatever failed on the way: a
\* success shown to an operator is in the log, a deletion is logged at most
\* once and only of an account that is gone for good, and a name is not logged
\* as created more often than Keycloak created it.
LogTruthful ==
    /\ \A o \in Operators : job[o].at = "done" /\ job[o].status = 200 =>
          /\ job[o].kind = "create" => Created(job[o].name) # {}
          /\ job[o].kind = "delete" => Deleted(job[o].user) # {}
    /\ \A id \in Ids : Cardinality(Deleted(id)) <= IF id \in DOMAIN accounts THEN 0 ELSE 1
    /\ \A n \in Emails :
          Cardinality(Created(n)) <= Cardinality({id \in Ids : names[id] = n})

\* A listing breaks off for the work of others only when an account it has
\* listed is deleted before it has asked for its roles; apart from that only if a
\* call of its own fails or the token check itself ends in an exception.
ListingAbortsOnlyIf ==
    \A o \in Operators :
        job[o].kind = "list" /\ job[o].at = "done" /\ job[o].status = 500
            => \/ job[o].excuse # None
               \/ Admitted("list", job[o].login.token, job[o].login.namespace, Env) = 500

\* No account has a role nobody asked for: it was asked for it by its own name
\* or by one its name contains.
RolesAskedFor ==
    \A id \in DOMAIN accounts : \A r \in accounts[id].roles :
        \E n \in Emails : <<n, accounts[id].name>> \in Within /\ <<n, r>> \in asked
=============================================================================
