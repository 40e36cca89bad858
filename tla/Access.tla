------------------------------- MODULE Access -------------------------------
(***************************************************************************)
(* internal/api: who may do what.  A request passes logMiddleware and      *)
(* authMiddleware to its handler, which for the records of a collection    *)
(* reads the collection's rules, checks them, and acts; the rules may be   *)
(* changed, and the collection dropped and made again, between any two of  *)
(* these steps.  The event stream decides by the same rules who receives   *)
(* an event.                                                               *)
(*                                                                         *)
(* What the operations do is left to the modules of the services.          *)
(***************************************************************************)
EXTENDS Schema, FiniteSets

CONSTANTS
    Admin, User, Nobody,    \* who asks: the last has no valid token
    Coll,                   \* collections of users
    Internal,               \* collections whose name starts with _
    FilesCollection,        \* the one of package files, among Internal
    Request,                \* requests in progress
    Path, Method,           \* the paths and methods that are asked for
    MaxRequests,            \* bound: requests
    MaxChanges              \* bound: changes of rules

Asker == {Admin, User, Nobody}

Paths == {"health", "login", "register", "me", "password", "collections", "collection",
          "records", "record", "kv", "files", "file", "stats", "logs", "realtime"}

Methods == {"GET", "POST", "PUT", "PATCH", "DELETE"}

AccessAssumption ==
    /\ Nobody \notin {Admin, User}
    /\ Path \subseteq Paths /\ Method \subseteq Methods
    /\ FilesCollection \in Internal
    /\ MaxRequests \in Nat /\ MaxChanges \in Nat

VARIABLES
    rules,      \* of each collection, or those of NoMeta when there is none
    exists,     \* the collections there are
    req,        \* the requests
    log,        \* the entries of the request log, as a set
    answers,    \* history: what requests were told
    seen,       \* history: rules in force since a request arrived
    requests, changes

vars == <<rules, exists, req, log, answers, seen, requests, changes>>

Idle == [pc |-> "idle", n |-> 0, user |-> Nobody, path |-> "health", method |-> "GET",
         coll |-> FilesCollection, meta |-> NoMeta.rules, status |-> 0]

Init ==
    /\ rules = [c \in Coll |-> NoMeta.rules] /\ exists = {}
    /\ req = [r \in Request |-> Idle]
    /\ log = {} /\ answers = {} /\ seen = [r \in Request |-> {}]
    /\ requests = 0 /\ changes = 0

----------------------------------------------------------------------------
(* Definitions named X_Y are variants of X with the mistake Y, which the   *)
(* properties are there to notice; no other definition uses them.          *)

routePolicy_NewRoutesOpen(path, method) ==
    CASE path \in {"health", "login", "register", "records", "record"} -> "public"
      [] path \in {"kv", "stats"} -> "admin"
      [] path = "collections" /\ method = "POST" -> "admin"
      [] path = "collection" /\ method \in {"PATCH", "DELETE"} -> "admin"
      [] path = "file" /\ method = "DELETE" -> "admin"
      [] OTHER -> "authed"

\* What it takes to get to the handler; records have rules of their own.
routePolicy(path, method) ==
    CASE path \in {"health", "login", "register", "records", "record"} -> "public"
      [] path \in {"kv", "stats", "logs"} -> "admin"
      [] path = "collections" /\ method = "POST" -> "admin"
      [] path = "collection" /\ method \in {"PATCH", "DELETE"} -> "admin"
      [] path \in {"files", "file"} /\ method = "DELETE" -> "admin"
      [] OTHER -> "authed"

\* Who passes a policy or a rule, and what the others are told.
Verdict(level, user) ==
    IF level = "public" THEN 0
    ELSE IF user = Nobody THEN 401
    ELSE IF level = "admin" /\ user # Admin THEN 403
    ELSE 0

authMiddleware(path, method, user) == Verdict(routePolicy(path, method), user)

enforceRule(rule, user) == Verdict(Normalize(rule), user)

\* The methods a handler knows; any other is answered with 405.
Handled(path) ==
    CASE path = "health" -> Methods
      [] path \in {"login", "register", "password"} -> {"POST"}
      [] path \in {"me", "stats", "logs", "realtime"} -> {"GET"}
      [] path \in {"collections", "records", "files"} -> {"GET", "POST"}
      [] path \in {"collection", "record"} -> {"GET", "PATCH", "DELETE"}
      [] path = "kv" -> {"GET", "PUT", "DELETE"}
      [] path = "file" -> {"GET", "DELETE"}

OfRecords == {"records", "record"}

\* handleRecords and handleRecord: the rule that goes with the method.
RuleFor(path, method) ==
    CASE path = "records" /\ method = "GET" -> "list"
      [] path = "records" /\ method = "POST" -> "create"
      [] path = "record" /\ method = "GET" -> "view"
      [] path = "record" /\ method = "PATCH" -> "update"
      [] path = "record" /\ method = "DELETE" -> "delete"

\* How the operation may end: with success, a body that is no good or too
\* large, a refusal of the service, or an error.
Outcomes == {200, 201, 400, 404, 413, 500}

----------------------------------------------------------------------------
(* A request.                                                              *)

At(r, pc) == req[r].pc = pc

Goto(r, pc) == req' = [req EXCEPT ![r].pc = pc]

\* The handler, or a middleware before it, has answered.
Answer(r, status) ==
    /\ req' = [req EXCEPT ![r].pc = "log", ![r].status = status]
    /\ answers' = answers \cup {<<req[r].n, req[r].path, status>>}

Arrive(r, user, path, method, c) ==
    /\ At(r, "idle") /\ requests < MaxRequests
    /\ requests' = requests + 1
    /\ req' = [req EXCEPT ![r] = [Idle EXCEPT
          !.pc = "auth", !.n = requests + 1, !.user = user, !.path = path,
          !.method = method, !.coll = c]]
    /\ seen' = [seen EXCEPT ![r] = IF c \in exists THEN {rules[c]} ELSE {}]
    /\ UNCHANGED <<rules, exists, log, answers, changes>>

Authenticate(r) ==
    LET verdict == authMiddleware(req[r].path, req[r].method, req[r].user)
    IN  /\ At(r, "auth")
        /\ IF verdict # 0 THEN Answer(r, verdict)
           ELSE Goto(r, IF req[r].path \in OfRecords THEN "meta" ELSE "handle")
                /\ UNCHANGED answers
        /\ UNCHANGED <<rules, exists, log, seen, requests, changes>>

\* A handler without rules looks at the method.
Handle(r) ==
    /\ At(r, "handle")
    /\ IF req[r].method \notin Handled(req[r].path) THEN Answer(r, 405)
       ELSE Goto(r, "act") /\ UNCHANGED answers
    /\ UNCHANGED <<rules, exists, log, seen, requests, changes>>

\* handleRecords and handleRecord: an internal collection is refused, the
\* metadata of another one is read.
LoadMeta(r) ==
    LET c == req[r].coll
    IN  /\ At(r, "meta")
        /\ IF c \in Internal THEN Answer(r, 403)
           ELSE IF c \notin exists THEN Answer(r, 404)
           ELSE /\ req' = [req EXCEPT ![r].pc = "rule", ![r].meta = rules[c]]
                /\ UNCHANGED answers
        /\ UNCHANGED <<rules, exists, log, seen, requests, changes>>

\* The rule of what was read.
Enforce(r) ==
    /\ At(r, "rule")
    /\ IF req[r].method \notin Handled(req[r].path) THEN Answer(r, 405)
       ELSE LET verdict ==
                    enforceRule(req[r].meta[RuleFor(req[r].path, req[r].method)], req[r].user)
            IN  IF verdict # 0 THEN Answer(r, verdict) ELSE Goto(r, "act") /\ UNCHANGED answers
    /\ UNCHANGED <<rules, exists, log, seen, requests, changes>>

\* The body is read, and the service called.
Act(r) ==
    /\ At(r, "act")
    /\ \E status \in Outcomes : Answer(r, status)
    /\ UNCHANGED <<rules, exists, log, seen, requests, changes>>

\* logMiddleware, after the others: every request but those for the stream.
Log(r) ==
    /\ At(r, "log")
    /\ log' = IF req[r].path = "realtime" THEN log
              ELSE log \cup {<<req[r].n, req[r].path, req[r].status>>}
    /\ req' = [req EXCEPT ![r] = Idle] /\ seen' = [seen EXCEPT ![r] = {}]
    /\ UNCHANGED <<rules, exists, answers, requests, changes>>

----------------------------------------------------------------------------
(* The schema meanwhile, changed by an admin or by the user interface.     *)

NowSeen(c) ==
    seen' = [r \in Request |->
        IF req[r].pc # "idle" /\ req[r].coll = c /\ c \in exists'
        THEN seen[r] \cup {rules'[c]} ELSE seen[r]]

\* CreateCollection: rules that are not given are made "authed".
Create(c, rule) ==
    /\ c \notin exists /\ changes < MaxChanges
    /\ changes' = changes + 1
    /\ exists' = exists \cup {c}
    /\ rules' = [rules EXCEPT ![c] = [n \in RuleName |-> Normalize(rule)]]
    /\ NowSeen(c)
    /\ UNCHANGED <<req, log, answers, requests>>

\* UpdateCollection of one rule.
ChangeRule(c, name, rule) ==
    /\ c \in exists /\ changes < MaxChanges
    /\ changes' = changes + 1
    /\ rules' = [rules EXCEPT ![c][name] = Normalize(rule)]
    /\ UNCHANGED exists
    /\ NowSeen(c)
    /\ UNCHANGED <<req, log, answers, requests>>

Drop(c) ==
    /\ c \in exists
    /\ exists' = exists \ {c} /\ rules' = [rules EXCEPT ![c] = NoMeta.rules]
    /\ UNCHANGED <<req, log, answers, seen, requests, changes>>

Next ==
    \/ \E r \in Request :
          \/ \E user \in Asker, path \in Path, method \in Method :
                \E c \in (IF path \in OfRecords THEN Coll \cup Internal ELSE {FilesCollection}) :
                    Arrive(r, user, path, method, c)
          \/ Authenticate(r) \/ Handle(r) \/ LoadMeta(r) \/ Enforce(r) \/ Act(r) \/ Log(r)
    \/ \E c \in Coll, rule \in StoredRule :
          Create(c, rule) \/ \E name \in RuleName : ChangeRule(c, name, rule)
    \/ \E c \in Coll : Drop(c)

Spec == Init /\ [][Next]_vars

----------------------------------------------------------------------------
(* The event stream.                                                       *)

ruleAllows(rule, user) ==
    CASE Normalize(rule) = "public" -> TRUE
      [] Normalize(rule) = "authed" -> user # Nobody
      [] Normalize(rule) = "admin" -> user = Admin

canReceive_ByListRule(user, c) ==
    \/ user = Admin \/ c = FilesCollection
    \/ c \in exists /\ ruleAllows(rules[c]["list"], user)

\* Events that are about no collection: those of the request log.
NoCollection == ""

\* Whether a connected user gets an event of collection c.  Those of no
\* collection and of the internal ones, which are never in exists, go to
\* admins only.
canReceive(user, c) ==
    \/ user = Admin
    \/ c = FilesCollection
    \/ c \in exists /\ ruleAllows(rules[c]["list"], user) /\ ruleAllows(rules[c]["view"], user)

----------------------------------------------------------------------------
(* Properties.                                                             *)

\* The column "Policy" of the table in docs/rest-api.md.
Documented(path, method) ==
    CASE path \in {"health", "register", "login"} -> "public"
      [] path \in {"me", "password", "files", "realtime"} -> "authed"
      [] path = "collections" -> (IF method = "POST" THEN "admin" ELSE "authed")
      [] path = "collection" -> (IF method = "GET" THEN "authed" ELSE "admin")
      [] path = "file" -> (IF method = "GET" THEN "authed" ELSE "admin")
      [] path \in {"kv", "logs", "stats"} -> "admin"

May(level, user) ==
    CASE level = "public" -> TRUE
      [] level = "authed" -> user \in {User, Admin}
      [] level = "admin" -> user = Admin

\* A request acts only with the rights the table documents; on records, with
\* those of a rule that was in force, in a collection that was there, at some
\* moment since the request arrived.
ActsWithinRights ==
    \A r \in Request : At(r, "act") =>
        IF req[r].path \in OfRecords
        THEN /\ req[r].coll \in Coll
             /\ \E m \in seen[r] : May(Normalize(m[RuleFor(req[r].path, req[r].method)]), req[r].user)
        ELSE May(Documented(req[r].path, req[r].method), req[r].user)

\* Whether REST would answer this user's request for what an event carries.
ReadsOverREST(user, c) ==
    \/ authMiddleware(IF c = NoCollection THEN "logs" ELSE "kv", "GET", user) = 0
    \/ c = FilesCollection /\ authMiddleware("file", "GET", user) = 0
    \/ /\ c \in exists
       /\ \A path \in OfRecords :
            /\ authMiddleware(path, "GET", user) = 0
            /\ enforceRule(rules[c][IF path = "records" THEN "list" ELSE "view"], user) = 0

\* A connected user gets an event if and only if REST would let that user
\* read it, whatever the rules are (canReceive, docs/realtime.md).
StreamAgreesWithREST ==
    \A user \in {Admin, User}, c \in Coll \cup Internal \cup {NoCollection} :
        canReceive(user, c) <=> ReadsOverREST(user, c)

\* Every request that was answered, refused ones included, has one entry in
\* the log with the status it was told (the order of the middlewares).
AnswersAreLogged ==
    LET entering == {<<req[r].n, req[r].path, req[r].status>> : r \in {q \in Request : At(q, "log")}}
    IN  {a \in answers : a[2] # "realtime"} = log \cup {e \in entering : e[2] # "realtime"}

\* Both, for every request.
RequestsAreRight == ActsWithinRights /\ AnswersAreLogged

----------------------------------------------------------------------------
(* What a document or a comment says and the code does not do: TLC refutes *)
(* each of these statements.                                               *)

\* docs/collections.md: internal collections are always admin-only over the
\* API; an admin, then, is not refused.
InternalIsForAdmins ==
    \A r \in Request :
        At(r, "log") /\ req[r].path \in OfRecords /\ req[r].coll \in Internal /\ req[r].user = Admin
            => req[r].status # 403
=============================================================================
