------------------------------ MODULE RestRequests ------------------------------
(***************************************************************************)
(* The REST API of src/app.ts under /api/v1: the stages a request passes   *)
(* (limiter, token, role, the route's limiter, validation, handler) and    *)
(* what the handlers do to the rows.  Nothing between the first limiter    *)
(* and the answer waits for I/O, so a request is one step; the rows are    *)
(* also written by others (the session manager, the listeners).            *)
(***************************************************************************)
EXTENDS Naturals, FiniteSets

CONSTANTS
  User,        \* accounts whose tokens are sent; each has an address of its own
  Row,         \* session names
  ApiMax,      \* apiLimiter: max, for an address
  SessionMax,  \* sessionLimiter: max, for a user
  MessageMax   \* messageLimiter: max, for a user

ASSUME RestAssumption == {ApiMax, SessionMax, MessageMax} \subseteq Nat

VARIABLES
  role,       \* role of each user's row; "inactive" by its status, "none" without a row
  row,        \* status of each session row, or "absent"
  children,   \* sessions with messages, conversations or contacts
  referenced, \* sessions that analytics rows refer to
  reconnect,  \* auto_reconnect of each row
  taken,      \* the limiters' counts, up to where they refuse
  answer,     \* the answer given last
  creations   \* history: sessions each user has created in this window

rowsOfApi == <<row, children, referenced, reconnect>>
restVars == <<role, rowsOfApi, taken, answer, creations>>

Roles == {"admin", "agent", "viewer"}
Staff == {"admin", "agent"}
Limiters == {"api", "session", "message"}

Route(name, roles, limiter, validated) ==
  [name |-> name, roles |-> roles, limiter |-> limiter, validated |-> validated]

\* session.routes.ts; a GET needs a token and no role ("get" is also stats and qr).
SessionRoutes ==
  {Route("create", Staff, "session", TRUE), Route("list", Roles, "none", FALSE),
   Route("get", Roles, "none", FALSE), Route("update", Staff, "none", TRUE),
   Route("delete", {"admin"}, "none", FALSE), Route("start", Staff, "none", FALSE),
   Route("stop", Staff, "none", FALSE)}

\* message.routes.ts
MessageRoutes ==
  {Route("messages", Roles, "none", TRUE), Route("sendText", Staff, "message", TRUE),
   Route("unread", Roles, "none", FALSE)}

Routes == SessionRoutes \cup MessageRoutes

RestInit ==
  /\ role \in [User -> Roles]
  /\ row = [n \in Row |-> "absent"]
  /\ children = {} /\ referenced = {}
  /\ reconnect = [n \in Row |-> TRUE]
  /\ taken = [l \in Limiters |-> [u \in User |-> 0]]
  /\ answer = [code |-> 200, user |-> "nobody"]
  /\ creations = [u \in User |-> 0]

\* authenticate and authorize, by the row as it is now, not as when the token was made.
Authorized(u, route) == role[u] \in route.roles

MaxOf(l) == CASE l = "api" -> ApiMax [] l = "session" -> SessionMax
              [] l = "message" -> MessageMax [] OTHER -> 0

\* Mutant: the request that reaches the limit is still let through.
WithinInclusive(l, u) == l = "none" \/ taken[l][u] <= MaxOf(l)

Within(l, u) == l = "none" \/ taken[l][u] < MaxOf(l)

\* The stage that answers instead of the handler, "none" if none does.
Refusal(u, route, valid) ==
  IF ~Within("api", u) THEN 429
  ELSE IF role[u] \in {"none", "inactive"} THEN 401
  ELSE IF ~Authorized(u, route) THEN 403
  ELSE IF ~Within(route.limiter, u) THEN 429
  ELSE IF route.validated /\ ~valid THEN 400
  ELSE 0

\* The limiters that have counted the request by then.
Counted(u, route) ==
  {"api"} \cup (IF Within("api", u) /\ Authorized(u, route) THEN {route.limiter} ELSE {})

\* SessionModel.delete: the rows that refer to the session go first; the last DELETE
\* throws while analytics rows refer to it, and what went is gone.
Delete(n) ==
  /\ children' = children \ {n}
  /\ row' = IF n \in referenced THEN row ELSE [row EXCEPT ![n] = "absent"]

\* What a handler answers.
Result(route, n) ==
  CASE route.name = "create" -> IF row[n] = "absent" THEN 201 ELSE 409
    [] route.name = "delete" -> IF row[n] # "absent" /\ n \in referenced THEN 500 ELSE 200
    [] route.name \in {"list", "sendText"} -> 200
    [] OTHER                 -> IF row[n] = "absent" THEN 404 ELSE 200

\* Mutant: the row is written before it is looked for.
HandlesBlindly(route, n) ==
  /\ row' = CASE route.name = "create" -> [row EXCEPT ![n] = "disconnected"]
              [] route.name = "start"  -> [row EXCEPT ![n] = "connecting"]
              [] OTHER                 -> row
  /\ UNCHANGED <<children, referenced, reconnect>>

\* What a handler does.  `update` reads the field auto_reconnect, which no validator
\* knows; sendText sends nothing.
Handles(route, n) ==
  /\ IF route.name = "delete" THEN Delete(n)
     ELSE /\ UNCHANGED children
          /\ row' = IF Result(route, n) >= 400 THEN row
                    ELSE CASE route.name \in {"create", "stop"} -> [row EXCEPT ![n] = "disconnected"]
                           [] route.name = "start" -> [row EXCEPT ![n] = "connecting"]
                           [] OTHER -> row
  /\ IF Result(route, n) < 400 /\ route.name \in {"create", "update"}
     THEN \E b \in BOOLEAN : reconnect' = [reconnect EXCEPT ![n] = b]
     ELSE UNCHANGED reconnect
  /\ UNCHANGED referenced

\* A request of a route.
Request(u, route, n, valid) ==
  LET refusal == Refusal(u, route, valid) IN
  /\ taken' = [l \in Limiters |-> [taken[l] EXCEPT ![u] =
                 IF l \in Counted(u, route) /\ @ < MaxOf(l) THEN @ + 1 ELSE @]]
  /\ IF refusal # 0
     THEN UNCHANGED rowsOfApi
     ELSE Handles(route, n)
  /\ answer' = [code |-> IF refusal # 0 THEN refusal ELSE Result(route, n),
                user |-> u]
  /\ creations' = IF refusal = 0 /\ route.name = "create" /\ Result(route, n) = 201
                  THEN [creations EXCEPT ![u] = @ + 1] ELSE creations
  /\ UNCHANGED role

\* UserModel.update and delete.
ChangeRole(u, r) ==
  /\ role' = [role EXCEPT ![u] = r]
  /\ UNCHANGED <<rowsOfApi, taken, answer, creations>>

\* The listeners and AnalyticsService store rows under a session.
RowsArrive(n) ==
  /\ row[n] # "absent"
  /\ \/ children' = children \cup {n} /\ UNCHANGED referenced
     \/ referenced' = referenced \cup {n} /\ UNCHANGED children
  /\ UNCHANGED <<role, row, reconnect, taken, answer, creations>>

\* The stores are emptied; the windows of the limiters are taken to end together.
Reset ==
  /\ taken' = [l \in Limiters |-> [u \in User |-> 0]]
  /\ creations' = [u \in User |-> 0]
  /\ UNCHANGED <<role, rowsOfApi, answer>>

RestNext ==
  \/ \E u \in User, route \in Routes, n \in Row, valid \in BOOLEAN : Request(u, route, n, valid)
  \/ \E u \in User, r \in Roles \cup {"inactive"} : ChangeRole(u, r)
  \/ \E n \in Row : RowsArrive(n)
  \/ Reset

RestSpec == RestInit /\ [][RestNext]_restVars

-----------------------------------------------------------------------------
RestTypeOK ==
  /\ role \in [User -> Roles \cup {"inactive", "none"}]
  /\ row \in [Row -> {"absent", "disconnected", "connecting"}]
  /\ children \subseteq Row /\ referenced \subseteq Row
  /\ reconnect \in [Row -> BOOLEAN]
  /\ \A l \in Limiters, u \in User : taken[l][u] \in 0 .. MaxOf(l)
  /\ answer.code \in {200, 201, 400, 401, 403, 404, 409, 429, 500}
  /\ creations \in [User -> Nat]

\* No row lies under a session that is gone, although the deletes are no transaction.
NoRowsWithoutSession == \A n \in children \cup referenced : row[n] # "absent"

\* A user creates no more sessions in a window than the limiter says, whatever else the
\* user is refused meanwhile.
CreationsAreLimited == \A u \in User : creations[u] <= SessionMax

\* A request that is refused, by any stage or by its handler, changes no session row and
\* takes no rows from under a session, but for the delete that fails half way (500): it
\* leaves the session without them.
RefusedChangesNothing ==
  [][answer'.code >= 400 =>
       /\ UNCHANGED <<row, reconnect>>
       /\ answer'.code = 500 \/ children \subseteq children']_restVars

\* Sessions come, go and change by requests of those whose row gives them the role at
\* that time, although their token was made when it may have been another.
ChangedByStaff ==
  [][row' # row => LET u == answer'.user IN
       /\ role[u] \in Staff
       /\ (\E n \in Row : row[n] # "absent" /\ row'[n] = "absent") => role[u] = "admin"]_restVars

\* The session rows, what lies under them and the limiters' counts agree.
RestIsSound == RestTypeOK /\ NoRowsWithoutSession /\ CreationsAreLimited
=================================================================================
