--------------------------------- MODULE Server ---------------------------------
(***************************************************************************)
(* The HTTP side of the server, as the router composes it: every request   *)
(* passes the rate limit (whose counter is the subject of RateLimit), the  *)
(* protected ones pass the token check, and then a handler of AuthService, *)
(* of RoomService or of the WebSocket gate runs, one call to Redis or to   *)
(* the database at a time, beside the other requests.  What a call has     *)
(* done is done before the request is answered: a crash in between leaves  *)
(* the row, and the client without an answer.  App.Start begins to accept  *)
(* requests; App.Shutdown, or a crash, ends it; the process is started     *)
(* again over the same database.                                           *)
(*                                                                         *)
(* The primary key of a row is its place in its table.  A token is named   *)
(* by the login request it was given to; it expires when it likes.         *)
(***************************************************************************)
EXTENDS Naturals, Sequences, FiniteSets

CONSTANTS
    Requests,
    Names, Passwords,
    Emails,       \* the empty one included
    NoEmail,      \* the empty one: the field may be left out of the request
    Before,       \* what table users may hold when the server is first started
    Scenarios,    \* what the clients may ask for in one behaviour
    Codes,        \* invite codes of six characters
    EmptyCode,    \* the empty string
    NoToken,      \* no token, or one this server never signed
    MaxAttempts,  \* attempts at an unused code (10 in the code)
    MaxFaults     \* bound: failures of calls and crashes

Protected == {"create", "join", "connect"}

\* A request: its route, and what a registration or a login carries.
Form == [kind : {"register", "login"} \cup Protected,
         name : Names, password : Passwords, email : Emails]

ASSUME ScenariosAssumption == Scenarios \subseteq [Requests -> Form]
ASSUME AccountsAssumption ==
    Before \subseteq Seq([name : Names, password : Passwords, email : Emails])
ASSUME TokenAssumption == NoToken \notin Requests
ASSUME CodesAssumption == EmptyCode \notin Codes
ASSUME BoundsAssumption == MaxAttempts \in Nat \ {0} /\ MaxFaults \in Nat

VARIABLES
    form,      \* the requests of this behaviour
    users,     \* table users, in the order of the keys
    rooms,     \* table rooms
    pc,        \* per request: what it is about to do, or how it ended
    who,       \* per request: the user_id of its token, 0 if it has none
    attempts,  \* per request: the codes generateUniqueInviteCode has tried
    chosen,    \* per request: the code it has tested and is about to use
    answer,    \* per request: what its handler answers, once that is settled
    expired,   \* the tokens that have expired
    app,       \* how far App.Start or App.Shutdown has come
    clientsOpen, \* the clients of asynq and Redis are not closed
    overdue,   \* the Shutdown of the HTTP server gave up waiting
    faults     \* failures so far (bounded by MaxFaults)

tableVars   == <<users, rooms>>
tokenVars   == <<form, expired>>
roomVars    == <<attempts, chosen>>
appVars     == <<app, clientsOpen, overdue>>
vars == <<tokenVars, tableVars, pc, who, roomVars, answer, appVars, faults>>

User == [name : Names, password : Passwords, email : Emails]
Room == [code : Codes, creator : Nat \ {0}]

\* `id` and `code` are of the row found or made; the gate's `id` is the room asked for.
Answer   == [status : {"none", "ok", "upgraded", "taken", "denied", "unknown", "refused",
                       "error"},
             id : Nat, code : Codes \cup {EmptyCode}]
NoAnswer == [status |-> "none", id |-> 0, code |-> EmptyCode]
Calls    == {"limit", "token", "service", "insert", "reply"}

\* The variables keep their types; no request tries more codes than maxAttempts.
TypeOK ==
    /\ form \in Scenarios
    /\ users \in Seq(User)
    /\ rooms \in Seq(Room)
    /\ pc \in [Requests -> {"new", "answered", "died"} \cup Calls]
    /\ who \in [Requests -> Nat]
    /\ attempts \in [Requests -> 0 .. MaxAttempts]
    /\ chosen \in [Requests -> Codes \cup {EmptyCode}]
    /\ answer \in [Requests -> Answer]
    /\ expired \in SUBSET Requests
    /\ app \in {"serving", "stopping", "draining", "drained", "closed", "exited"}
    /\ clientsOpen \in BOOLEAN /\ overdue \in BOOLEAN
    /\ faults \in 0 .. MaxFaults

Init ==
    /\ form \in Scenarios
    /\ users \in Before /\ rooms = <<>>
    /\ pc = [q \in Requests |-> "new"]
    /\ who = [q \in Requests |-> 0]
    /\ attempts = [q \in Requests |-> 0]
    /\ chosen = [q \in Requests |-> EmptyCode]
    /\ answer = [q \in Requests |-> NoAnswer]
    /\ expired = {}
    /\ app = "serving" /\ clientsOpen = TRUE /\ overdue = FALSE
    /\ faults = 0

Goto(q, call) == pc' = [pc EXCEPT ![q] = call]
\* A handler settles its answer; it is sent by a step of its own, Respond.
Reply(q, status, id, code) ==
    /\ Goto(q, "reply")
    /\ answer' = [answer EXCEPT ![q] = [status |-> status, id |-> id, code |-> code]]
Refuse(q, status) == Reply(q, status, 0, EmptyCode)
Fault == faults < MaxFaults /\ faults' = faults + 1

\* The goroutine of a request runs until the process exits.
Running == app # "exited"
InFlight == {q \in Requests : pc[q] \in Calls}

\* The router takes a request while the listener is open.
Accept(q) ==
    /\ app \in {"serving", "stopping"}
    /\ pc[q] = "new"
    /\ Goto(q, "limit")
    /\ UNCHANGED <<tableVars, who, roomVars, answer, tokenVars, appVars, faults>>

NextCall(q) == IF form[q].kind \in Protected THEN "token" ELSE "service"

\* The rate limit asks Redis and lets the request pass, or it answers 429, or 500 when Redis
\* fails, as every call does once the client is closed: the request is refused unheard.
Limit(q) ==
    /\ Running
    /\ pc[q] = "limit"
    /\ \/ clientsOpen /\ Goto(q, NextCall(q)) /\ UNCHANGED answer
       \/ Refuse(q, "refused")
    /\ UNCHANGED <<tableVars, who, roomVars, tokenVars, appVars, faults>>

\* c.JSON, the last step of every handler.
Respond(q) ==
    /\ Running
    /\ pc[q] = "reply"
    /\ Goto(q, "answered")
    /\ UNCHANGED <<tableVars, who, roomVars, answer, tokenVars, appVars, faults>>

--------------------------------------------------------------------------------
(***************************************************************************)
(* Auth: the Authorization header.                                         *)
(***************************************************************************)
\* What the clients know: the answers that were sent.
Told == {q \in Requests : pc[q] = "answered"}
Done(q, kind) == q \in Told /\ form[q].kind = kind /\ answer[q].status = "ok"

\* The tokens Login has given out.
Tokens == {t \in Requests : Done(t, "login")}

Verified(t) == t \in Tokens \ expired

Authenticate(q) ==
    /\ Running
    /\ pc[q] = "token"
    /\ \E t \in Tokens \cup {NoToken} :
           IF Verified(t)
           THEN /\ who' = [who EXCEPT ![q] = answer[t].id]
                /\ Goto(q, "service")
                /\ UNCHANGED answer
           ELSE Refuse(q, "denied") /\ UNCHANGED who
    /\ UNCHANGED <<tableVars, roomVars, tokenVars, appVars, faults>>

ExpireToken(t) ==
    /\ t \in Tokens \ expired
    /\ expired' = expired \cup {t}
    /\ UNCHANGED <<form, tableVars, pc, who, roomVars, answer, appVars, faults>>

\* The body does not bind to the handler's struct, or the room is no number: 400.
BadInput(q) ==
    /\ Running
    /\ pc[q] = "service" /\ form[q].kind # "create"
    /\ Refuse(q, "refused")
    /\ UNCHANGED <<tableVars, who, roomVars, tokenVars, appVars, faults>>

--------------------------------------------------------------------------------
(***************************************************************************)
(* AuthService.                                                            *)
(***************************************************************************)
Account(q) == [name |-> form[q].name, password |-> form[q].password, email |-> form[q].email]

TakenByName(q) == \E i \in 1 .. Len(users) :   \* slip: the e-mail has no unique index
                      users[i].name = form[q].name
\* The unique indexes of the table, which take the empty e-mail for one like another.
Taken(q) == \E i \in 1 .. Len(users) :
                users[i].name = form[q].name \/ users[i].email = form[q].email

Register(q) ==
    /\ Running
    /\ pc[q] = "service" /\ form[q].kind = "register"
    /\ IF Taken(q)
       THEN Refuse(q, "taken") /\ UNCHANGED users
       ELSE /\ users' = Append(users, Account(q))
            /\ Reply(q, "ok", Len(users) + 1, EmptyCode)
    /\ UNCHANGED <<rooms, who, roomVars, tokenVars, appVars, faults>>

AnyPassword(q, i) == users[i].name = form[q].name      \* slip: checkPassword not called
Matches(q, i) == users[i].name = form[q].name /\ users[i].password = form[q].password

\* FindByUsername and checkPassword; not to be found and not to match are one answer.
Login(q) ==
    /\ Running
    /\ pc[q] = "service" /\ form[q].kind = "login"
    /\ \/ \E i \in 1 .. Len(users) : Matches(q, i) /\ Reply(q, "ok", i, EmptyCode)
       \/ /\ \A i \in 1 .. Len(users) : ~Matches(q, i)
          /\ Refuse(q, "denied")
    /\ UNCHANGED <<tableVars, who, roomVars, tokenVars, appVars, faults>>

--------------------------------------------------------------------------------
(***************************************************************************)
(* RoomService.                                                            *)
(***************************************************************************)
InUse(k) == \E i \in 1 .. Len(rooms) : rooms[i].code = k

AttemptsLeftLate(q) == attempts[q] <= MaxAttempts   \* slip: off by one
AttemptsLeft(q) == attempts[q] < MaxAttempts

Uncounted(q) == UNCHANGED attempts                  \* slip: the loop is not bounded
CountAttempt(q) == attempts' = [attempts EXCEPT ![q] = @ + 1]

\* One round of generateUniqueInviteCode.
TryCode(q) ==
    /\ Running
    /\ pc[q] = "service" /\ form[q].kind = "create"
    /\ AttemptsLeft(q)
    /\ CountAttempt(q)
    /\ \E k \in Codes :
           IF InUse(k)
           THEN UNCHANGED <<chosen, pc>>
           ELSE chosen' = [chosen EXCEPT ![q] = k] /\ Goto(q, "insert")
    /\ UNCHANGED <<tableVars, who, answer, tokenVars, appVars, faults>>

OutOfAttempts(q) ==
    /\ Running
    /\ pc[q] = "service" /\ form[q].kind = "create"
    /\ ~AttemptsLeft(q)
    /\ Refuse(q, "error")
    /\ UNCHANGED <<tableVars, who, roomVars, tokenVars, appVars, faults>>

NeverDuplicate(k) == FALSE              \* slip: the column has no unique index
Duplicate(k) == InUse(k)

\* Save.  Another request may have taken the code since it was tested.
SaveRoom(q) ==
    /\ Running
    /\ pc[q] = "insert"
    /\ IF Duplicate(chosen[q])
       THEN Refuse(q, "error") /\ UNCHANGED rooms
       ELSE /\ rooms' = Append(rooms, [code |-> chosen[q], creator |-> who[q]])
            /\ Reply(q, "ok", Len(rooms) + 1, chosen[q])
    /\ UNCHANGED <<users, who, roomVars, tokenVars, appVars, faults>>

\* FindByInviteCode: the first row with the code.
Find(k) == {i \in 1 .. Len(rooms) : /\ rooms[i].code = k
                                    /\ \A j \in 1 .. i - 1 : rooms[j].code # k}

JoinRoom(q) ==
    /\ Running
    /\ pc[q] = "service" /\ form[q].kind = "join"
    /\ \E k \in Codes : IF Find(k) = {}
                        THEN Refuse(q, "unknown")
                        ELSE \E i \in Find(k) : Reply(q, "ok", i, k)
    /\ UNCHANGED <<tableVars, who, roomVars, tokenVars, appVars, faults>>

\* HandleConnection up to the upgrade: the room is looked up by the empty code, whatever
\* room was asked for.
HandleConnection(q) ==
    /\ Running
    /\ pc[q] = "service" /\ form[q].kind = "connect"
    /\ \E r \in 0 .. Len(rooms) :       \* the room of the URL, 0 for one there is not
           Reply(q, IF Find(EmptyCode) = {} THEN "error" ELSE "upgraded", r, EmptyCode)
    /\ UNCHANGED <<tableVars, who, roomVars, tokenVars, appVars, faults>>

--------------------------------------------------------------------------------
(***************************************************************************)
(* Failures of the database.                                               *)
(***************************************************************************)
AnswerAnyway(q) ==                      \* slip: the error of Save is only logged
    Reply(q, "ok", IF form[q].kind = "register" THEN Len(users) + 1 ELSE Len(rooms) + 1,
          chosen[q])
ReportFailure(q) == Refuse(q, IF form[q].kind = "login" THEN "denied" ELSE "error")

\* The call fails, and what it was to store may be stored all the same.
DatabaseFails(q) ==
    /\ Running /\ Fault
    /\ pc[q] \in {"service", "insert"}
    /\ ReportFailure(q)
    /\ users' \in {users} \cup (IF form[q].kind = "register" /\ ~Taken(q)
                                THEN {Append(users, Account(q))} ELSE {})
    /\ rooms' \in {rooms} \cup (IF pc[q] = "insert" /\ ~Duplicate(chosen[q])
                                THEN {Append(rooms, [code |-> chosen[q], creator |-> who[q]])}
                                ELSE {})
    /\ UNCHANGED <<who, roomVars, tokenVars, appVars>>

--------------------------------------------------------------------------------
(***************************************************************************)
(* The life of the process: main, App.Start and App.Shutdown.              *)
(***************************************************************************)
AppStep(from, to) == app = from /\ app' = to

\* A signal: the subscriptions and the worker are stopped first; requests still come.
StopBackground ==
    /\ AppStep("serving", "stopping")
    /\ UNCHANGED <<tableVars, pc, who, roomVars, answer, tokenVars, clientsOpen, overdue,
                   faults>>

StopListening ==
    /\ AppStep("stopping", "draining")
    /\ UNCHANGED <<tableVars, pc, who, roomVars, answer, tokenVars, clientsOpen, overdue,
                   faults>>

NoneLeft == InFlight = {}

\* HttpServer.Shutdown returns when no request is left, or with an error after 10 seconds.
Drain ==
    /\ AppStep("draining", "drained")
    /\ \/ NoneLeft /\ UNCHANGED <<overdue, faults>>
       \/ Fault /\ overdue' = TRUE
    /\ UNCHANGED <<tableVars, pc, who, roomVars, answer, tokenVars, clientsOpen>>

WhileDraining == "draining"             \* slip: the clients are closed before the server
WhenDrained == "drained"

\* Close of the two clients, whatever HttpServer.Shutdown returned.
CloseClients ==
    /\ AppStep(WhenDrained, "closed")
    /\ clientsOpen' = FALSE
    /\ UNCHANGED <<tableVars, pc, who, roomVars, answer, tokenVars, overdue, faults>>

\* main returns, or the process crashes: whatever was under way is gone, answers that were
\* not sent among it; the tables stay as they are.
Exit ==
    /\ \/ app = "closed" /\ UNCHANGED faults
       \/ app # "exited" /\ Fault
    /\ app' = "exited"
    /\ pc' = [q \in Requests |-> IF q \in InFlight THEN "died" ELSE pc[q]]
    /\ UNCHANGED <<tableVars, who, roomVars, answer, tokenVars, clientsOpen, overdue>>

Restart ==
    /\ AppStep("exited", "serving")
    /\ clientsOpen' = TRUE /\ overdue' = FALSE
    /\ UNCHANGED <<tableVars, pc, who, roomVars, answer, tokenVars, faults>>

--------------------------------------------------------------------------------
Handler(q) == \/ Limit(q) \/ Authenticate(q) \/ BadInput(q) \/ Register(q) \/ Login(q)
              \/ TryCode(q) \/ OutOfAttempts(q) \/ SaveRoom(q)
              \/ JoinRoom(q) \/ HandleConnection(q) \/ Respond(q)
Life       == StopBackground \/ StopListening \/ Drain \/ CloseClients \/ Exit \/ Restart

Next == \/ \E q \in Requests : \/ Accept(q) \/ Handler(q) \/ DatabaseFails(q)
                               \/ ExpireToken(q)
        \/ Life

Spec == Init /\ [][Next]_vars

\* The goroutine of a request is scheduled, and its calls return.
FairSpec == Spec /\ \A q \in Requests : WF_vars(Handler(q))

--------------------------------------------------------------------------------
(***************************************************************************)
(* Properties.                                                             *)
(***************************************************************************)
\* Whoever joins with the code a creator was given is sent to the creator's room, however
\* many rooms were created at once and whatever failed since: between the test of a code
\* and the insertion another request may take it, and only the index notices.
InviteLeadsHome ==
    \A p, q \in Requests :
        Done(p, "create") /\ Done(q, "join") /\ answer[p].code = answer[q].code
            => answer[p].id = answer[q].id

ProvedPassword(u) ==
    \E q \in Requests : /\ Done(q, "login") /\ answer[q].id = u
                        /\ u \in 1 .. Len(users)
                        /\ users[u].name = form[q].name
                        /\ users[u].password = form[q].password

\* Every room belongs to an account whose password somebody presented: no sequence of
\* requests, refusals and restarts makes a room for a user who never logged in.
CreatorProvedPassword == \A i \in 1 .. Len(rooms) : ProvedPassword(rooms[i].creator)

\* What a client was told it has is in the database, under the key it was told, for ever:
\* no failure is taken for a success, and no two clients were given one row.
AnsweredIsStored ==
    \A q \in Requests :
        /\ Done(q, "register") =>
               answer[q].id \in 1 .. Len(users) /\ users[answer[q].id] = Account(q)
        /\ Done(q, "create") =>
               /\ answer[q].id \in 1 .. Len(rooms)
               /\ rooms[answer[q].id] = [code |-> answer[q].code, creator |-> who[q]]

\* No request is under way, at the rate limit or further, with the clients of Redis and asynq
\* closed, unless HttpServer.Shutdown gave up waiting for it: the listener is shut, the
\* requests are waited for, and only then are the clients closed.
OrderlyStopCutsNothing == ~clientsOpen /\ InFlight # {} => overdue

\* Every request that was accepted is answered, however many rooms are created beside it,
\* unless the process ends first.  A request is made once, and there are finitely many: none
\* is under way for ever just when there comes a time when none is under way.
EveryRequestAnswered == InFlight # {} ~> InFlight = {}

\* The calls of a request, the tests that are out of date by the time of the insertion, the
\* failures and the restarts cannot be told from requests that each take effect in one
\* instant, with the answer that is sent later, or never when the process ends first.
Promise == INSTANCE Registry WITH outcome <- answer, told <- Told
RegistrySpec == Promise!Spec

--------------------------------------------------------------------------------
(***************************************************************************)
(* What the documentation says, and the code does not do.                  *)
(***************************************************************************)
\* README.md:318-320: a client with a valid token connects to /ws/room/{roomId}, roomId
\* being the room it wants to join; handler.go:104: "verify that the room exists".
ExistingRoomAdmits ==
    \A q \in Requests :
        q \in Told /\ form[q].kind = "connect" /\ answer[q].id \in 1 .. Len(rooms)
            => answer[q].status = "upgraded"
================================================================================
