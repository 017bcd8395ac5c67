----------------------------- MODULE Server_proofs -----------------------------
(***************************************************************************)
(* The HTTP side of the server is correct for any number of requests, any  *)
(* combination of them and any bounds: every answer is right when it is    *)
(* settled, and stays so until it is sent and after, as the tables only    *)
(* grow.                                                                   *)
(***************************************************************************)
EXTENDS Server, TLAPS

USE ScenariosAssumption, AccountsAssumption, TokenAssumption, CodesAssumption, BoundsAssumption

\* Where a request is in the router says what it has passed: one whose answer is settled
\* calls nothing more, and whoever reaches a handler of a room has a user.
Settled == {"reply", "answered", "died"}
StepInv ==
    \A q \in Requests :
        /\ answer[q].status = "ok" => pc[q] \in Settled
        /\ pc[q] = "insert" => form[q].kind = "create" /\ chosen[q] \in Codes
        /\ pc[q] \in {"service", "insert"} /\ form[q].kind \in Protected => who[q] # 0

\* An answer is right: it tells of the row that was stored, or found.  It is so before it is
\* sent, and when it never is.
Succeeds(q, kind) == form[q].kind = kind /\ answer[q].status = "ok"
Right(q) ==
    /\ Succeeds(q, "register") =>
           answer[q].id \in 1 .. Len(users) /\ users[answer[q].id] = Account(q)
    /\ Succeeds(q, "login") =>
           answer[q].id \in 1 .. Len(users) /\ Matches(q, answer[q].id)
    /\ Succeeds(q, "create") =>
           /\ answer[q].id \in 1 .. Len(rooms)
           /\ rooms[answer[q].id] = [code |-> answer[q].code, creator |-> who[q]]
    /\ Succeeds(q, "join") =>
           answer[q].id \in 1 .. Len(rooms) /\ rooms[answer[q].id].code = answer[q].code
AnswersRight == \A q \in Requests : Right(q)

CodesDiffer == \A i, j \in 1 .. Len(rooms) : rooms[i].code = rooms[j].code => i = j

\* The user of a token is one whose password was presented.
UsersProved ==
    \A q \in Requests, u \in Nat \ {0} : who[q] = u => ProvedPassword(u)

\* The clients are closed last, and nothing runs then or the drain gave up.
StopInv == /\ ~clientsOpen => app \in {"closed", "exited"}
           /\ app = "exited" => InFlight = {}
           /\ app \in {"drained", "closed"} => overdue \/ InFlight = {}

Inv == /\ TypeOK /\ StepInv /\ AnswersRight /\ CodesDiffer
       /\ UsersProved /\ CreatorProvedPassword /\ StopInv

LEMMA InitInv == Init => Inv
<1> SUFFICES ASSUME Init PROVE Inv
  OBVIOUS
<1>1. NoAnswer \in Answer /\ NoAnswer.status # "ok"
  BY DEF NoAnswer, Answer
<1>2. TypeOK
  <2>1. /\ rooms \in Seq(Room)
        /\ attempts \in [Requests -> 0 .. MaxAttempts] /\ faults \in 0 .. MaxFaults
    BY DEF Init
  <2>3. users \in Seq(User)
    BY DEF Init, User
  <2>2. pc \in [Requests -> {"new", "answered", "died"} \cup Calls]
    BY DEF Init
  <2> QED
    BY <1>1, <2>1, <2>2, <2>3 DEF Init, TypeOK
<1>3. StepInv /\ AnswersRight
  BY <1>1 DEF Init, StepInv, AnswersRight, Right, Succeeds
<1>4. CodesDiffer /\ CreatorProvedPassword
  BY DEF Init, CodesDiffer, CreatorProvedPassword
<1> QED
  BY <1>2, <1>3, <1>4 DEF Init, Inv, UsersProved, StopInv, InFlight, Calls

--------------------------------------------------------------------------------
(***************************************************************************)
(* Types.                                                                  *)
(***************************************************************************)
LEMMA AppendType == ASSUME NEW S, NEW s \in Seq(S), NEW e \in S PROVE Append(s, e) \in Seq(S)
  OBVIOUS

LEMMA FormType == TypeOK => form \in [Requests -> Form]
  BY DEF TypeOK

LEMMA AccountType == ASSUME TypeOK, NEW q \in Requests PROVE Account(q) \in User
  BY FormType DEF Account, User, Form

Statuses == {"none", "ok", "upgraded", "taken", "denied", "unknown", "refused", "error"}

LEMMA ReplyType ==
  ASSUME TypeOK, NEW q \in Requests, NEW status \in Statuses, NEW id \in Nat,
         NEW code \in Codes \cup {EmptyCode}, Reply(q, status, id, code)
  PROVE  /\ pc' \in [Requests -> {"new", "answered", "died"} \cup Calls]
         /\ answer' \in [Requests -> Answer]
<1>1. [status |-> status, id |-> id, code |-> code] \in Answer
  BY DEF Answer, Statuses
<1>2. answer \in [Requests -> Answer]
  BY DEF TypeOK
<1> QED
  BY <1>1, <1>2 DEF Reply, Goto, Calls, TypeOK

LEMMA RefuseType ==
  ASSUME TypeOK, NEW q \in Requests, NEW status \in Statuses, Refuse(q, status)
  PROVE  /\ pc' \in [Requests -> {"new", "answered", "died"} \cup Calls]
         /\ answer' \in [Requests -> Answer]
  BY ReplyType DEF Refuse

LEMMA TypeNext == TypeOK /\ StepInv /\ [Next]_vars => TypeOK'
<1> SUFFICES ASSUME TypeOK, StepInv, [Next]_vars PROVE TypeOK'
  OBVIOUS
<1> DEFINE Answered == /\ pc' \in [Requests -> {"new", "answered", "died"} \cup Calls]
                       /\ answer' \in [Requests -> Answer]
<1> USE DEF tableVars, tokenVars, roomVars, appVars
<1>1. CASE UNCHANGED vars
  BY <1>1 DEF vars, TypeOK
<1>2. ASSUME NEW q \in Requests, Accept(q) \/ Limit(q) \/ Respond(q) PROVE TypeOK'
  <2>1. Answered
    <3>1. CASE Refuse(q, "refused")
      BY <3>1, RefuseType DEF Statuses
    <3>2. ASSUME NEW call \in {"limit", "answered", NextCall(q)}, Goto(q, call),
                 UNCHANGED answer
          PROVE  Answered
      BY <3>2 DEF Goto, NextCall, Calls, TypeOK
    <3> QED
      BY <1>2, <3>1, <3>2 DEF Accept, Limit, Respond
  <2> QED
    BY <1>2, <2>1 DEF Accept, Limit, Respond, TypeOK
<1>3. ASSUME NEW q \in Requests, Authenticate(q) PROVE TypeOK'
  <2>1. PICK t \in Tokens \cup {NoToken} :
            IF Verified(t)
            THEN /\ who' = [who EXCEPT ![q] = answer[t].id]
                 /\ Goto(q, "service")
                 /\ UNCHANGED answer
            ELSE Refuse(q, "denied") /\ UNCHANGED who
    BY <1>3 DEF Authenticate
  <2>2. CASE Verified(t)
    <3>1. answer[t].id \in Nat
      BY <2>2 DEF Verified, Tokens, TypeOK, Answer
    <3> QED
      BY <1>3, <2>1, <2>2, <3>1 DEF Authenticate, Goto, Calls, TypeOK
  <2>3. CASE ~Verified(t)
    <3>1. Answered
      BY <2>1, <2>3, RefuseType DEF Statuses
    <3> QED
      BY <1>3, <2>1, <2>3, <3>1 DEF Authenticate, TypeOK
  <2> QED
    BY <2>2, <2>3
<1>4. ASSUME NEW q \in Requests, Register(q) PROVE TypeOK'
  <2>1. Answered
    <3>1. Len(users) + 1 \in Nat /\ EmptyCode \in Codes \cup {EmptyCode}
      BY DEF TypeOK
    <3>2. CASE Refuse(q, "taken")
      BY <3>2, RefuseType DEF Statuses
    <3>3. CASE Reply(q, "ok", Len(users) + 1, EmptyCode)
      BY <3>1, <3>3, ReplyType DEF Statuses
    <3> QED
      BY <1>4, <3>2, <3>3 DEF Register
  <2>2. users' \in Seq(User)
    <3>1. users \in Seq(User)
      BY DEF TypeOK
    <3> QED
      BY <1>4, <3>1, AccountType, AppendType DEF Register
  <2> QED
    BY <1>4, <2>1, <2>2 DEF Register, TypeOK
<1>5. ASSUME NEW q \in Requests, Login(q) PROVE TypeOK'
  <2>1. Answered
    <3>1. ASSUME NEW i \in 1 .. Len(users), Reply(q, "ok", i, EmptyCode) PROVE Answered
      BY <3>1, ReplyType DEF Statuses, TypeOK
    <3>2. CASE Refuse(q, "denied")
      BY <3>2, RefuseType DEF Statuses
    <3> QED
      BY <1>5, <3>1, <3>2 DEF Login
  <2> QED
    BY <1>5, <2>1 DEF Login, TypeOK
<1>6. ASSUME NEW q \in Requests, TryCode(q) PROVE TypeOK'
  <2>1. attempts' \in [Requests -> 0 .. MaxAttempts]
    BY <1>6 DEF TryCode, AttemptsLeft, CountAttempt, TypeOK
  <2>2. /\ pc' \in [Requests -> {"new", "answered", "died"} \cup Calls]
        /\ chosen' \in [Requests -> Codes \cup {EmptyCode}]
    <3>1. PICK k \in Codes :
              IF InUse(k) THEN UNCHANGED <<chosen, pc>>
              ELSE chosen' = [chosen EXCEPT ![q] = k] /\ Goto(q, "insert")
      BY <1>6 DEF TryCode
    <3>2. CASE InUse(k)
      BY <3>1, <3>2 DEF TypeOK
    <3>3. CASE ~InUse(k)
      <4>1. /\ pc \in [Requests -> {"new", "answered", "died"} \cup Calls]
            /\ chosen \in [Requests -> Codes \cup {EmptyCode}]
        BY DEF TypeOK
      <4>2. pc' = [pc EXCEPT ![q] = "insert"] /\ chosen' = [chosen EXCEPT ![q] = k]
        BY <3>1, <3>3 DEF Goto
      <4> QED
        BY <4>1, <4>2 DEF Calls
    <3> QED
      BY <3>2, <3>3
  <2> QED
    BY <1>6, <2>1, <2>2 DEF TryCode, TypeOK
<1>7. ASSUME NEW q \in Requests, BadInput(q) \/ OutOfAttempts(q) PROVE TypeOK'
  <2>1. Answered
    BY <1>7, RefuseType DEF BadInput, OutOfAttempts, Statuses
  <2> QED
    BY <1>7, <2>1 DEF BadInput, OutOfAttempts, TypeOK
<1>8. ASSUME NEW q \in Requests, pc[q] = "insert"
      PROVE  [code |-> chosen[q], creator |-> who[q]] \in Room
  <2>1. chosen[q] \in Codes /\ form[q].kind = "create"
    BY <1>8 DEF StepInv
  <2>2. who[q] # 0
    BY <1>8, <2>1 DEF StepInv, Protected
  <2> QED
    BY <2>1, <2>2 DEF TypeOK, Room
<1>9. ASSUME NEW q \in Requests, SaveRoom(q) PROVE TypeOK'
  <2>1. Answered
    <3>1. Len(rooms) + 1 \in Nat /\ chosen[q] \in Codes \cup {EmptyCode}
      BY DEF TypeOK
    <3>2. CASE Refuse(q, "error")
      BY <3>2, RefuseType DEF Statuses
    <3>3. CASE Reply(q, "ok", Len(rooms) + 1, chosen[q])
      BY <3>1, <3>3, ReplyType DEF Statuses
    <3> QED
      BY <1>9, <3>2, <3>3 DEF SaveRoom
  <2>2. rooms' \in Seq(Room)
    <3>1. rooms \in Seq(Room)
      BY DEF TypeOK
    <3> QED
      BY <1>8, <1>9, <3>1, AppendType DEF SaveRoom
  <2> QED
    BY <1>9, <2>1, <2>2 DEF SaveRoom, TypeOK
<1>10. ASSUME NEW q \in Requests, JoinRoom(q) PROVE TypeOK'
  <2>1. Answered
    <3>1. ASSUME NEW k \in Codes, NEW i \in Find(k), Reply(q, "ok", i, k) PROVE Answered
      BY <3>1, ReplyType DEF Statuses, Find, TypeOK
    <3>2. CASE Refuse(q, "unknown")
      BY <3>2, RefuseType DEF Statuses
    <3> QED
      BY <1>10, <3>1, <3>2 DEF JoinRoom
  <2> QED
    BY <1>10, <2>1 DEF JoinRoom, TypeOK
<1>11. ASSUME NEW q \in Requests, HandleConnection(q) PROVE TypeOK'
  <2>1. Answered
    <3>1. PICK r \in 0 .. Len(rooms) :
              Reply(q, IF Find(EmptyCode) = {} THEN "error" ELSE "upgraded", r, EmptyCode)
      BY <1>11 DEF HandleConnection
    <3>2. r \in Nat /\ (IF Find(EmptyCode) = {} THEN "error" ELSE "upgraded") \in Statuses
      BY DEF TypeOK, Statuses
    <3> QED
      BY <3>1, <3>2, ReplyType
  <2> QED
    BY <1>11, <2>1 DEF HandleConnection, TypeOK
<1>12. ASSUME NEW q \in Requests, DatabaseFails(q) PROVE TypeOK'
  <2>1. users' \in Seq(User) /\ rooms' \in Seq(Room)
    <3>1. users' \in {users, Append(users, Account(q))}
      BY <1>12 DEF DatabaseFails
    <3>2. rooms' = rooms \/ (/\ pc[q] = "insert"
                            /\ rooms' = Append(rooms, [code |-> chosen[q],
                                                       creator |-> who[q]]))
      BY <1>12 DEF DatabaseFails
    <3>3. users \in Seq(User) /\ rooms \in Seq(Room)
      BY DEF TypeOK
    <3>4. users' \in Seq(User)
      BY <3>1, <3>3, AccountType, AppendType
    <3>5. rooms' \in Seq(Room)
      BY <1>8, <3>2, <3>3, AppendType
    <3> QED
      BY <3>4, <3>5
  <2>2. Answered
    BY <1>12, RefuseType DEF DatabaseFails, ReportFailure, Statuses
  <2> QED
    BY <1>12, <2>1, <2>2 DEF DatabaseFails, Fault, TypeOK
<1>13. ASSUME NEW q \in Requests, ExpireToken(q) PROVE TypeOK'
  BY <1>13 DEF ExpireToken, Tokens, TypeOK
<1>14. CASE Life
  <2>1. /\ pc' \in [Requests -> {"new", "answered", "died"} \cup Calls]
        /\ faults' \in 0 .. MaxFaults
    BY <1>14 DEF Life, StopBackground, StopListening, Drain, CloseClients, Exit, Restart,
                 Fault, TypeOK
  <2>2. /\ app' \in {"serving", "stopping", "draining", "drained", "closed", "exited"}
        /\ clientsOpen' \in BOOLEAN /\ overdue' \in BOOLEAN
    BY <1>14 DEF Life, StopBackground, StopListening, Drain, CloseClients, Exit, Restart,
                 AppStep, WhenDrained, TypeOK
  <2>3. UNCHANGED <<tableVars, who, roomVars, answer, tokenVars>>
    BY <1>14 DEF Life, StopBackground, StopListening, Drain, CloseClients, Exit, Restart
  <2> QED
    BY <2>1, <2>2, <2>3 DEF TypeOK
<1> QED
  BY <1>1, <1>2, <1>3, <1>4, <1>5, <1>6, <1>7, <1>9, <1>10, <1>11, <1>12, <1>13, <1>14
     DEF Next, Handler

--------------------------------------------------------------------------------
(***************************************************************************)
(* What a step does to the tables, the answers and the users of requests.  *)
(***************************************************************************)
NewRoom(q) == [code |-> chosen[q], creator |-> who[q]]
UsersGrow == users' = users \/ \E a \in User : users' = Append(users, a)
RoomsGrow ==
    \/ rooms' = rooms
    \/ \E q \in Requests : /\ pc[q] = "insert" /\ ~InUse(chosen[q])
                            /\ rooms' = Append(rooms, NewRoom(q))

LEMMA TablesNext == TypeOK /\ [Next]_vars => UsersGrow /\ RoomsGrow
<1> SUFFICES ASSUME TypeOK, [Next]_vars PROVE UsersGrow /\ RoomsGrow
  OBVIOUS
<1>1. ASSUME UNCHANGED tableVars PROVE UsersGrow /\ RoomsGrow
  BY <1>1 DEF tableVars, UsersGrow, RoomsGrow
<1>2. ASSUME NEW q \in Requests, Register(q) PROVE UsersGrow /\ RoomsGrow
  BY <1>2, AccountType DEF Register, UsersGrow, RoomsGrow
<1>3. ASSUME NEW q \in Requests, SaveRoom(q) PROVE UsersGrow /\ RoomsGrow
  BY <1>3 DEF SaveRoom, Duplicate, UsersGrow, RoomsGrow, NewRoom
<1>4. ASSUME NEW q \in Requests, DatabaseFails(q) PROVE UsersGrow /\ RoomsGrow
  <2>1. users' \in {users, Append(users, Account(q))}
    BY <1>4 DEF DatabaseFails
  <2>2. rooms' = rooms \/ (/\ pc[q] = "insert" /\ ~InUse(chosen[q])
                          /\ rooms' = Append(rooms, NewRoom(q)))
    BY <1>4 DEF DatabaseFails, Duplicate, NewRoom
  <2>3. UsersGrow
    BY <2>1, AccountType DEF UsersGrow
  <2> QED
    BY <2>2, <2>3 DEF RoomsGrow
<1> QED
  BY <1>1, <1>2, <1>3, <1>4
     DEF Next, Handler, Life, Accept, Limit, Respond, Authenticate, BadInput, Login, TryCode,
         OutOfAttempts, JoinRoom, HandleConnection, ExpireToken, StopBackground,
         StopListening, Drain, CloseClients, Exit, Restart, vars

\* Rows stay where they are.
LEMMA AppendKeeps ==
  ASSUME NEW S, NEW s \in Seq(S), NEW e \in S
  PROVE  /\ Len(Append(s, e)) = Len(s) + 1
         /\ Append(s, e)[Len(s) + 1] = e
         /\ \A i \in 1 .. Len(s) : Append(s, e)[i] = s[i]
  OBVIOUS

LEMMA RowsStay ==
  ASSUME TypeOK, StepInv, [Next]_vars
  PROVE  /\ \A i \in 1 .. Len(users) : i \in 1 .. Len(users)' /\ users'[i] = users[i]
         /\ \A i \in 1 .. Len(rooms) : i \in 1 .. Len(rooms)' /\ rooms'[i] = rooms[i]
<1>1. users \in Seq(User) /\ rooms \in Seq(Room)
  BY DEF TypeOK
<1>2. \A q \in Requests : pc[q] = "insert" => NewRoom(q) \in Room
  <2> SUFFICES ASSUME NEW q \in Requests, pc[q] = "insert" PROVE NewRoom(q) \in Room
    OBVIOUS
  <2>1. chosen[q] \in Codes /\ who[q] # 0
    BY DEF StepInv, Protected
  <2> QED
    BY <2>1 DEF TypeOK, Room, NewRoom
<1>3. Len(users) \in Nat /\ Len(rooms) \in Nat
  BY <1>1
<1>4. \A i \in 1 .. Len(users) : i \in 1 .. Len(users)' /\ users'[i] = users[i]
  <2>1. CASE users' = users
    BY <2>1
  <2>2. ASSUME NEW a \in User, users' = Append(users, a)
        PROVE  \A i \in 1 .. Len(users) : i \in 1 .. Len(users)' /\ users'[i] = users[i]
    <3>1. Len(users)' = Len(users) + 1 /\ \A i \in 1 .. Len(users) : users'[i] = users[i]
      BY <1>1, <2>2, AppendKeeps
    <3> QED
      BY <1>3, <3>1
  <2> QED
    BY <2>1, <2>2, TablesNext DEF UsersGrow
<1>5. \A i \in 1 .. Len(rooms) : i \in 1 .. Len(rooms)' /\ rooms'[i] = rooms[i]
  <2>1. CASE rooms' = rooms
    BY <2>1
  <2>2. ASSUME NEW a \in Room, rooms' = Append(rooms, a)
        PROVE  \A i \in 1 .. Len(rooms) : i \in 1 .. Len(rooms)' /\ rooms'[i] = rooms[i]
    <3>1. Len(rooms)' = Len(rooms) + 1 /\ \A i \in 1 .. Len(rooms) : rooms'[i] = rooms[i]
      BY <1>1, <2>2, AppendKeeps
    <3> QED
      BY <1>3, <3>1
  <2> QED
    BY <1>2, <2>1, <2>2, TablesNext DEF RoomsGrow
<1> QED
  BY <1>4, <1>5

\* A request keeps its answer and, once it has one, its user.
Keeps(q) == answer'[q] = answer[q] /\ (pc[q] \in Settled => who'[q] = who[q])
AnswersStepwise ==
    \A q \in Requests : Keeps(q) \/ (answer[q].status # "ok" /\ Right(q)')

LEMMA FormStays == [Next]_vars => form' = form
  BY DEF Next, Handler, Life, Accept, Limit, Respond, Authenticate, BadInput, Register, Login,
         TryCode, OutOfAttempts, SaveRoom, JoinRoom, HandleConnection, DatabaseFails,
         ExpireToken, StopBackground, StopListening, Drain, CloseClients, Exit, Restart, vars,
         tokenVars

\* A refusal is right, as it promises nothing.
LEMMA RefusalRight ==
  ASSUME TypeOK, StepInv, NEW q \in Requests, NEW status, status # "ok", Refuse(q, status),
         pc[q] \notin Settled
  PROVE  /\ answer[q].status # "ok" /\ Right(q)'
         /\ \A p \in Requests \ {q} : answer'[p] = answer[p]
<1>1. answer'[q].status = status /\ \A p \in Requests \ {q} : answer'[p] = answer[p]
  BY DEF Refuse, Reply, TypeOK
<1> QED
  BY <1>1 DEF Right, Succeeds, StepInv

LEMMA AnswersNext == TypeOK /\ StepInv /\ [Next]_vars => AnswersStepwise
<1> SUFFICES ASSUME TypeOK, StepInv, [Next]_vars PROVE AnswersStepwise
  OBVIOUS
<1> USE FormStays DEF Settled
<1>1. ASSUME UNCHANGED <<answer, who>> PROVE AnswersStepwise
  BY <1>1 DEF AnswersStepwise, Keeps
<1>2. ASSUME NEW q \in Requests, NEW status, status # "ok", Refuse(q, status),
             pc[q] \notin Settled, who' = who
      PROVE  AnswersStepwise
  BY <1>2, RefusalRight DEF AnswersStepwise, Keeps
<1>3. ASSUME NEW q \in Requests, Accept(q) \/ Limit(q) \/ Respond(q) PROVE AnswersStepwise
  BY <1>1, <1>2, <1>3 DEF Accept, Limit, Respond
<1>4. ASSUME NEW q \in Requests, Authenticate(q) PROVE AnswersStepwise
  <2>1. CASE Refuse(q, "denied") /\ UNCHANGED who
    BY <1>2, <1>4, <2>1 DEF Authenticate
  <2>2. CASE UNCHANGED answer /\ \E t \in Requests : who' = [who EXCEPT ![q] = answer[t].id]
    BY <1>4, <2>2 DEF Authenticate, AnswersStepwise, Keeps, TypeOK
  <2> QED
    BY <1>4, <2>1, <2>2 DEF Authenticate, Verified, Tokens
<1>5. ASSUME NEW q \in Requests, NEW id, NEW code, Reply(q, "ok", id, code),
             pc[q] \notin Settled, who' = who, Right(q)'
      PROVE  AnswersStepwise
  BY <1>5 DEF Reply, AnswersStepwise, Keeps, StepInv, TypeOK
<1>6. ASSUME NEW q \in Requests, NEW id, NEW code, Reply(q, "ok", id, code)
      PROVE  answer'[q].status = "ok" /\ answer'[q].id = id /\ answer'[q].code = code
  BY <1>6 DEF Reply, TypeOK
<1>7. ASSUME NEW q \in Requests, Register(q) PROVE AnswersStepwise
  <2>1. CASE Taken(q)
    BY <1>2, <1>7, <2>1 DEF Register
  <2>2. CASE ~Taken(q)
    <3>1. users' = Append(users, Account(q)) /\ Reply(q, "ok", Len(users) + 1, EmptyCode)
      BY <1>7, <2>2 DEF Register
    <3>2. Len(users) + 1 \in 1 .. Len(users)' /\ users'[Len(users) + 1] = Account(q)
      BY <3>1, AccountType, AppendKeeps DEF TypeOK
    <3>3. Account(q)' = Account(q) /\ form'[q].kind = "register"
      BY <1>7 DEF Account, Register
    <3>4. Right(q)'
      BY <1>6, <3>1, <3>2, <3>3 DEF Right, Succeeds
    <3> QED
      BY <1>5, <1>7, <3>1, <3>4 DEF Register
  <2> QED
    BY <2>1, <2>2
<1>8. ASSUME NEW q \in Requests, Login(q) PROVE AnswersStepwise
  <2>1. CASE Refuse(q, "denied")
    BY <1>2, <1>8, <2>1 DEF Login
  <2>2. ASSUME NEW i \in 1 .. Len(users), Matches(q, i), Reply(q, "ok", i, EmptyCode)
        PROVE  AnswersStepwise
    <3>1. form'[q].kind = "login" /\ users' = users
      BY <1>8 DEF Login, tableVars
    <3>2. Right(q)'
      BY <1>6, <2>2, <3>1 DEF Right, Succeeds, Matches
    <3> QED
      BY <1>5, <1>8, <2>2, <3>2 DEF Login
  <2> QED
    BY <1>8, <2>1, <2>2 DEF Login
<1>9. ASSUME NEW q \in Requests, BadInput(q) \/ OutOfAttempts(q) PROVE AnswersStepwise
  BY <1>2, <1>9 DEF BadInput, OutOfAttempts
<1>10. ASSUME NEW q \in Requests, SaveRoom(q) PROVE AnswersStepwise
  <2>1. CASE Duplicate(chosen[q])
    BY <1>2, <1>10, <2>1 DEF SaveRoom
  <2>2. CASE ~Duplicate(chosen[q])
    <3>1. rooms' = Append(rooms, NewRoom(q)) /\ Reply(q, "ok", Len(rooms) + 1, chosen[q])
      BY <1>10, <2>2 DEF SaveRoom, NewRoom
    <3>2. NewRoom(q) \in Room
      BY <1>10 DEF SaveRoom, StepInv, NewRoom, Room, Protected, TypeOK
    <3>3. Len(rooms) + 1 \in 1 .. Len(rooms)' /\ rooms'[Len(rooms) + 1] = NewRoom(q)
      BY <3>1, <3>2, AppendKeeps DEF TypeOK
    <3>4. form'[q].kind = "create" /\ who' = who
      BY <1>10 DEF SaveRoom, StepInv
    <3>5. Right(q)'
      BY <1>6, <3>1, <3>3, <3>4 DEF Right, Succeeds, NewRoom
    <3> QED
      BY <1>5, <1>10, <3>1, <3>4, <3>5 DEF SaveRoom
  <2> QED
    BY <2>1, <2>2
<1>11. ASSUME NEW q \in Requests, JoinRoom(q) PROVE AnswersStepwise
  <2>1. CASE Refuse(q, "unknown")
    BY <1>2, <1>11, <2>1 DEF JoinRoom
  <2>2. ASSUME NEW k \in Codes, NEW i \in Find(k), Reply(q, "ok", i, k) PROVE AnswersStepwise
    <3>1. form'[q].kind = "join" /\ rooms' = rooms
      BY <1>11 DEF JoinRoom, tableVars
    <3>2. Right(q)'
      BY <1>6, <2>2, <3>1 DEF Right, Succeeds, Find
    <3> QED
      BY <1>5, <1>11, <2>2, <3>2 DEF JoinRoom
  <2> QED
    BY <1>11, <2>1, <2>2 DEF JoinRoom
<1>12. ASSUME NEW q \in Requests, HandleConnection(q) PROVE AnswersStepwise
  <2>1. PICK r : Reply(q, IF Find(EmptyCode) = {} THEN "error" ELSE "upgraded", r, EmptyCode)
    BY <1>12 DEF HandleConnection
  <2>2. answer'[q].status # "ok" /\ \A p \in Requests \ {q} : answer'[p] = answer[p]
    BY <2>1 DEF Reply, TypeOK
  <2>3. Right(q)' /\ answer[q].status # "ok" /\ who' = who
    BY <1>12, <2>2 DEF Right, Succeeds, StepInv, HandleConnection
  <2> QED
    BY <2>2, <2>3 DEF AnswersStepwise, Keeps
<1>13. ASSUME NEW q \in Requests, DatabaseFails(q) PROVE AnswersStepwise
  BY <1>2, <1>13 DEF DatabaseFails, ReportFailure
<1> QED
  BY <1>1, <1>3, <1>4, <1>7, <1>8, <1>9, <1>10, <1>11, <1>12, <1>13
     DEF Next, Handler, Life, TryCode, ExpireToken, StopBackground, StopListening, Drain,
         CloseClients, Exit, Restart, vars

--------------------------------------------------------------------------------
(***************************************************************************)
(* The invariant is inductive.                                             *)
(***************************************************************************)
LEMMA StepNext == TypeOK /\ StepInv /\ AnswersRight /\ [Next]_vars => StepInv'
<1> SUFFICES ASSUME TypeOK, StepInv, AnswersRight, [Next]_vars, NEW p \in Requests
             PROVE  /\ answer'[p].status = "ok" => pc'[p] \in Settled
                    /\ pc'[p] = "insert" => form[p].kind = "create" /\ chosen'[p] \in Codes
                    /\ pc'[p] \in {"service", "insert"} /\ form[p].kind \in Protected
                           => who'[p] # 0
  BY FormStays DEF StepInv
<1> DEFINE Goal == /\ answer'[p].status = "ok" => pc'[p] \in Settled
                   /\ pc'[p] = "insert" => form[p].kind = "create" /\ chosen'[p] \in Codes
                   /\ pc'[p] \in {"service", "insert"} /\ form[p].kind \in Protected
                          => who'[p] # 0
<1> USE DEF Settled
<1>1. ASSUME UNCHANGED <<pc, answer, chosen, who>> PROVE Goal
  BY <1>1 DEF StepInv
\* Whoever answers changes its own answer only, and ends.
<1>2. ASSUME NEW q \in Requests, NEW status, NEW id, NEW code, Reply(q, status, id, code),
             UNCHANGED <<chosen, who>>
      PROVE  Goal
  <2>1. pc' = [pc EXCEPT ![q] = "reply"] /\ (p # q => answer'[p] = answer[p])
    BY <1>2 DEF Reply, Goto, TypeOK
  <2> QED
    BY <1>2, <2>1 DEF StepInv, TypeOK
<1>3. ASSUME NEW q \in Requests, Accept(q) \/ Limit(q) \/ Respond(q) PROVE Goal
  <2>1. CASE Refuse(q, "refused") /\ ~Accept(q) /\ ~Respond(q)
    BY <1>2, <1>3, <2>1 DEF Limit, Refuse, roomVars
  <2>2. ASSUME NEW call \in {"limit", "answered", NextCall(q)}, Goto(q, call),
               UNCHANGED <<answer, chosen, who>>,
               pc[q] \in {"new", "limit"} \/ call = "answered",
               pc[q] = "limit" \/ call # NextCall(q)
        PROVE  Goal
    <3>1. pc'[p] = IF p = q THEN call ELSE pc[p]
      BY <2>2 DEF Goto, TypeOK
    <3>2. call = "answered" \/ answer[q].status # "ok"
      BY <2>2 DEF StepInv
    <3> QED
      BY <2>2, <3>1, <3>2 DEF NextCall, StepInv
  <2>3. CASE Accept(q)
    BY <2>2, <2>3 DEF Accept, roomVars, NextCall
  <2>4. CASE Respond(q)
    BY <2>2, <2>4 DEF Respond, roomVars, NextCall
  <2>5. CASE Limit(q) /\ ~Refuse(q, "refused")
    BY <2>2, <2>5 DEF Limit, roomVars
  <2> QED
    BY <1>3, <2>1, <2>3, <2>4, <2>5
<1>4. ASSUME NEW q \in Requests, Authenticate(q) PROVE Goal
  <2>1. CASE Refuse(q, "denied") /\ UNCHANGED who
    BY <1>2, <1>4, <2>1 DEF Authenticate, Refuse, roomVars
  <2>2. ASSUME NEW t \in Tokens, who' = [who EXCEPT ![q] = answer[t].id],
               Goto(q, "service"), UNCHANGED answer
        PROVE  Goal
    <3>1. /\ pc'[p] = IF p = q THEN "service" ELSE pc[p]
          /\ who'[p] = IF p = q THEN answer[t].id ELSE who[p]
      BY <2>2 DEF Goto, TypeOK
    <3>2. answer[t].id # 0
      <4>1. Right(t) /\ Succeeds(t, "login")
        BY <2>2 DEF Tokens, Done, Succeeds, AnswersRight
      <4> QED
        BY <4>1 DEF Right, TypeOK
    <3>3. answer[q].status # "ok" /\ chosen' = chosen
      BY <1>4 DEF Authenticate, StepInv, roomVars
    <3> QED
      BY <2>2, <3>1, <3>2, <3>3 DEF StepInv
  <2> QED
    BY <1>4, <2>1, <2>2 DEF Authenticate, Verified
<1>5. ASSUME NEW q \in Requests, BadInput(q) \/ Register(q) \/ Login(q) \/ OutOfAttempts(q)
                                 \/ SaveRoom(q) \/ JoinRoom(q) \/ HandleConnection(q)
                                 \/ DatabaseFails(q)
      PROVE  Goal
  <2>1. \E status, id, code : Reply(q, status, id, code)
    BY <1>5 DEF BadInput, Register, Login, OutOfAttempts, SaveRoom, JoinRoom,
                HandleConnection, DatabaseFails, ReportFailure, Refuse
  <2>2. UNCHANGED <<chosen, who>>
    BY <1>5 DEF BadInput, Register, Login, OutOfAttempts, SaveRoom, JoinRoom,
                HandleConnection, DatabaseFails, roomVars
  <2> QED
    BY <1>2, <2>1, <2>2
<1>6. ASSUME NEW q \in Requests, TryCode(q) PROVE Goal
  <2>1. PICK k \in Codes :
            IF InUse(k) THEN UNCHANGED <<chosen, pc>>
            ELSE chosen' = [chosen EXCEPT ![q] = k] /\ Goto(q, "insert")
    BY <1>6 DEF TryCode
  <2>2. CASE InUse(k)
    BY <1>1, <1>6, <2>1, <2>2 DEF TryCode
  <2>3. CASE ~InUse(k)
    <3>1. /\ pc'[p] = IF p = q THEN "insert" ELSE pc[p]
          /\ chosen'[p] = IF p = q THEN k ELSE chosen[p]
      BY <2>1, <2>3 DEF Goto, TypeOK
    <3> QED
      BY <1>6, <3>1 DEF TryCode, StepInv
  <2> QED
    BY <2>2, <2>3
<1>7. CASE Exit
  <2>1. pc'[p] = (IF p \in InFlight THEN "died" ELSE pc[p]) /\ UNCHANGED <<answer, chosen, who>>
    BY <1>7 DEF Exit, roomVars
  <2> QED
    BY <2>1 DEF StepInv
<1> QED
  BY <1>1, <1>3, <1>4, <1>5, <1>6, <1>7
     DEF Next, Handler, Life, ExpireToken, StopBackground, StopListening, Drain,
         CloseClients, Restart, vars, roomVars

\* An answer that was right stays so, as rows stay where they are.
LEMMA RightNext == Inv /\ [Next]_vars => AnswersRight'
<1> SUFFICES ASSUME Inv, [Next]_vars, NEW q \in Requests PROVE Right(q)'
  BY DEF AnswersRight
<1> USE DEF Inv
<1>1. CASE Keeps(q)
  <2>1. Right(q) /\ (answer[q].status = "ok" => who'[q] = who[q])
    BY <1>1 DEF AnswersRight, Keeps, StepInv
  <2>2. form' = form /\ answer'[q] = answer[q]
    BY <1>1, FormStays DEF Keeps
  <2>3. CASE answer[q].status # "ok"
    BY <2>2, <2>3 DEF Right, Succeeds
  <2>4. CASE answer[q].status = "ok"
    <3>1. /\ \A k \in 1 .. Len(users) : k \in 1 .. Len(users)' /\ users'[k] = users[k]
          /\ \A k \in 1 .. Len(rooms) : k \in 1 .. Len(rooms)' /\ rooms'[k] = rooms[k]
      BY RowsStay
    <3> QED
      BY <2>1, <2>2, <2>4, <3>1 DEF Right, Succeeds, Account, Matches
  <2> QED
    BY <2>3, <2>4
<1>2. CASE ~Keeps(q)
  BY <1>2, AnswersNext DEF AnswersStepwise
<1> QED
  BY <1>1, <1>2

\* A code in use is not given out again: the index refuses it.
LEMMA CodesNext == Inv /\ [Next]_vars => CodesDiffer'
<1> SUFFICES ASSUME Inv, [Next]_vars PROVE CodesDiffer'
  OBVIOUS
<1> USE DEF Inv
<1>1. CASE rooms' = rooms
  BY <1>1 DEF CodesDiffer
<1>2. ASSUME NEW q \in Requests, pc[q] = "insert", ~InUse(chosen[q]),
             rooms' = Append(rooms, NewRoom(q))
      PROVE  CodesDiffer'
  <2>1. NewRoom(q) \in Room /\ rooms \in Seq(Room)
    BY <1>2 DEF StepInv, NewRoom, Room, Protected, TypeOK
  <2>2. /\ Len(rooms') = Len(rooms) + 1 /\ Len(rooms) \in Nat
        /\ rooms'[Len(rooms) + 1].code = chosen[q]
        /\ \A k \in 1 .. Len(rooms) : rooms'[k] = rooms[k]
    BY <1>2, <2>1, AppendKeeps DEF NewRoom
  <2>3. \A k \in 1 .. Len(rooms) : rooms[k].code # chosen[q]
    BY <1>2 DEF InUse
  <2> QED
    BY <2>2, <2>3 DEF CodesDiffer
<1> QED
  BY <1>1, <1>2, TablesNext DEF RoomsGrow

\* Who is told stays told, and only Respond tells.
LEMMA GotoTells ==
  ASSUME TypeOK, NEW q \in Requests, NEW call, Goto(q, call), pc[q] # "answered"
  PROVE  Told' = IF call = "answered" THEN Told \cup {q} ELSE Told
<1>1. \A p \in Requests : pc'[p] = IF p = q THEN call ELSE pc[p]
  BY DEF Goto, TypeOK
<1> QED
  BY <1>1 DEF Told

LEMMA ToldNext ==
  ASSUME TypeOK, [Next]_vars
  PROVE  Told' = Told \/ \E q \in Requests : Respond(q) /\ Told' = Told \cup {q}
<1>1. CASE UNCHANGED pc
  BY <1>1 DEF Told
<1>2. ASSUME NEW q \in Requests, NEW call, call # "answered", Goto(q, call),
             pc[q] # "answered"
      PROVE  Told' = Told
  BY <1>2, GotoTells
<1>3. ASSUME NEW q \in Requests, Respond(q) PROVE Told' = Told \cup {q}
  BY <1>3, GotoTells DEF Respond
<1>4. CASE Exit
  <2>1. \A p \in Requests : pc'[p] = IF p \in InFlight THEN "died" ELSE pc[p]
    BY <1>4 DEF Exit
  <2> QED
    BY <2>1 DEF Told, InFlight, Calls
<1>5. ASSUME NEW q \in Requests, Accept(q) \/ Limit(q) \/ Authenticate(q) \/ TryCode(q)
      PROVE  Told' = Told
  <2>1. \/ UNCHANGED pc
        \/ \E call : call # "answered" /\ Goto(q, call) /\ pc[q] # "answered"
    BY <1>5 DEF Accept, Limit, NextCall, Authenticate, TryCode, Refuse, Reply
  <2> QED
    BY <1>1, <1>2, <2>1 DEF Told
<1>6. ASSUME NEW q \in Requests, BadInput(q) \/ Register(q) \/ Login(q) \/ OutOfAttempts(q)
                                 \/ SaveRoom(q) \/ JoinRoom(q) \/ HandleConnection(q)
                                 \/ DatabaseFails(q)
      PROVE  Told' = Told
  <2>1. Goto(q, "reply") /\ pc[q] # "answered"
    BY <1>6 DEF BadInput, Register, Login, OutOfAttempts, SaveRoom, JoinRoom,
                HandleConnection, DatabaseFails, ReportFailure, Refuse, Reply
  <2> QED
    BY <1>2, <2>1
<1> QED
  BY <1>1, <1>3, <1>4, <1>5, <1>6
     DEF Next, Handler, Life, ExpireToken, StopBackground, StopListening, Drain,
         CloseClients, Restart, vars

\* A password once presented stays presented.
LEMMA ProofStays == ASSUME Inv, [Next]_vars, NEW u, ProvedPassword(u) PROVE ProvedPassword(u)'
<1> USE DEF Inv
<1>1. PICK q \in Requests : /\ Done(q, "login") /\ answer[q].id = u
                            /\ u \in 1 .. Len(users)
                            /\ users[u].name = form[q].name
                            /\ users[u].password = form[q].password
  BY DEF ProvedPassword
<1>2. answer'[q] = answer[q] /\ form' = form
  BY <1>1, AnswersNext, FormStays DEF AnswersStepwise, Keeps, Done
<1>3. u \in 1 .. Len(users)' /\ users'[u] = users[u]
  BY <1>1, RowsStay
<1>4. q \in Told'
  BY <1>1, ToldNext DEF Done
<1>5. Done(q, "login")'
  BY <1>1, <1>2, <1>4 DEF Done
<1> QED
  BY <1>1, <1>2, <1>3, <1>5 DEF ProvedPassword

\* The user of a token is the one whose password its login presented.
LEMMA TokenIsProof ==
  ASSUME AnswersRight, NEW t \in Tokens, NEW u, u = answer[t].id PROVE ProvedPassword(u)
  BY DEF AnswersRight, Right, Tokens, Done, Succeeds, Matches, ProvedPassword

LEMMA UsersNext == Inv /\ [Next]_vars => UsersProved'
<1> SUFFICES ASSUME Inv, [Next]_vars, NEW p \in Requests, NEW u \in Nat \ {0}, who'[p] = u
             PROVE  ProvedPassword(u)'
  BY DEF UsersProved
<1> USE DEF Inv
<1>1. CASE who' = who
  BY <1>1, ProofStays DEF UsersProved
<1>2. ASSUME NEW q \in Requests, NEW t \in Tokens, who' = [who EXCEPT ![q] = answer[t].id]
      PROVE  ProvedPassword(u)'
  <2>1. u = who[p] \/ u = answer[t].id
    BY <1>2 DEF TypeOK
  <2>2. ProvedPassword(u)
    BY <2>1, TokenIsProof DEF UsersProved
  <2> QED
    BY <2>2, ProofStays
<1>3. \/ who' = who
      \/ \E q \in Requests : \E t \in Tokens : who' = [who EXCEPT ![q] = answer[t].id]
  BY DEF Next, Handler, Life, Accept, Limit, Respond, Authenticate, Verified, BadInput,
         Register, Login, TryCode, OutOfAttempts, SaveRoom, JoinRoom, HandleConnection,
         DatabaseFails, ExpireToken, StopBackground, StopListening, Drain, CloseClients,
         Exit, Restart, vars
<1> QED
  BY <1>1, <1>2, <1>3

LEMMA CreatorsNext == Inv /\ [Next]_vars => CreatorProvedPassword'
<1> SUFFICES ASSUME Inv, [Next]_vars,
                    NEW i \in 1 .. Len(rooms)', NEW u, rooms'[i].creator = u
             PROVE  ProvedPassword(u)'
  BY DEF CreatorProvedPassword, ProvedPassword
<1> USE DEF Inv
<1>1. CASE rooms' = rooms
  <2>1. ProvedPassword(u)
    BY <1>1 DEF CreatorProvedPassword, ProvedPassword
  <2> QED
    BY <2>1, ProofStays
<1>2. ASSUME NEW q \in Requests, pc[q] = "insert", rooms' = Append(rooms, NewRoom(q))
      PROVE  ProvedPassword(u)'
  <2>1. NewRoom(q) \in Room /\ rooms \in Seq(Room)
    BY <1>2 DEF StepInv, NewRoom, Room, Protected, TypeOK
  <2>2. /\ Len(rooms)' = Len(rooms) + 1 /\ Len(rooms) \in Nat
        /\ rooms'[Len(rooms) + 1] = NewRoom(q)
        /\ \A k \in 1 .. Len(rooms) : rooms'[k] = rooms[k]
    BY <1>2, <2>1, AppendKeeps
  <2>3. who[q] \in Nat \ {0}
    BY <1>2 DEF StepInv, Protected, TypeOK
  <2>4. CASE i = Len(rooms) + 1
    <3>1. u = who[q]
      BY <2>2, <2>4 DEF NewRoom
    <3>2. ProvedPassword(u)
      BY <2>3, <3>1 DEF UsersProved
    <3> QED
      BY <3>2, ProofStays
  <2>5. CASE i \in 1 .. Len(rooms)
    <3>1. ProvedPassword(u)
      BY <2>2, <2>5 DEF CreatorProvedPassword, ProvedPassword
    <3> QED
      BY <3>1, ProofStays
  <2> QED
    BY <2>2, <2>4, <2>5
<1> QED
  BY <1>1, <1>2, TablesNext DEF RoomsGrow

\* From the end of the drain to the next start nothing is accepted.
LEMMA StopNext == Inv /\ [Next]_vars => StopInv'
<1> SUFFICES ASSUME TypeOK, StopInv, [Next]_vars PROVE StopInv'
  BY DEF Inv
<1> USE DEF StopInv
<1>1. CASE UNCHANGED <<pc, appVars>>
  BY <1>1 DEF appVars, InFlight
<1>2. ASSUME NEW q \in Requests, Accept(q) PROVE StopInv'
  BY <1>2 DEF Accept, appVars
<1>3. ASSUME NEW q \in Requests, Handler(q) \/ DatabaseFails(q) PROVE StopInv'
  <2>1. Running /\ UNCHANGED appVars /\ pc[q] \in Calls
    BY <1>3 DEF Handler, Limit, Respond, Authenticate, BadInput, Register, Login, TryCode,
                OutOfAttempts, SaveRoom, JoinRoom, HandleConnection, DatabaseFails, Calls
  <2>2. q \in InFlight
    BY <2>1 DEF InFlight
  <2> QED
    BY <2>1, <2>2 DEF Running, appVars
<1>4. CASE Exit
  <2>1. InFlight' = {}
    <3>1. \A p \in Requests : pc'[p] = IF p \in InFlight THEN "died" ELSE pc[p]
      BY <1>4 DEF Exit
    <3> QED
      BY <3>1 DEF InFlight, Calls
  <2> QED
    BY <1>4, <2>1 DEF Exit
<1>5. CASE StopBackground \/ StopListening \/ Drain \/ CloseClients \/ Restart
  BY <1>5 DEF StopBackground, StopListening, Drain, NoneLeft, CloseClients, WhenDrained,
              Restart, AppStep, InFlight
<1> QED
  BY <1>1, <1>2, <1>3, <1>4, <1>5 DEF Next, Life, ExpireToken, vars

LEMMA InvNext == Inv /\ [Next]_vars => Inv'
  BY TypeNext, StepNext, RightNext, CodesNext, UsersNext, CreatorsNext, StopNext DEF Inv

LEMMA SpecInv == Spec => []Inv
  BY InitInv, InvNext, PTL DEF Spec

--------------------------------------------------------------------------------
(***************************************************************************)
(* The refinement of Registry: a request takes effect when its answer is   *)
(* settled, its client knows when the answer is sent, and every other step *)
(* changes nothing of what Registry has.                                   *)
(***************************************************************************)
Undecided == {"new", "limit", "token", "service", "insert"}
AnsweredOnce ==
    \A q \in Requests : /\ pc[q] \in Undecided => answer[q] = NoAnswer
                        /\ pc[q] = "reply" => answer[q].status # "none"

LEMMA OnceNext == TypeOK /\ AnsweredOnce /\ [Next]_vars => AnsweredOnce'
<1> SUFFICES ASSUME TypeOK, AnsweredOnce, [Next]_vars, NEW p \in Requests
             PROVE  /\ pc'[p] \in Undecided => answer'[p] = NoAnswer
                    /\ pc'[p] = "reply" => answer'[p].status # "none"
  BY DEF AnsweredOnce, NoAnswer
<1> DEFINE Goal == /\ pc'[p] \in Undecided => answer'[p] = NoAnswer
                   /\ pc'[p] = "reply" => answer'[p].status # "none"
<1> USE DEF Undecided
<1>1. ASSUME NEW q \in Requests, NEW status, NEW id, NEW code, Reply(q, status, id, code),
             status # "none"
      PROVE  Goal
  <2>1. /\ pc'[p] = IF p = q THEN "reply" ELSE pc[p]
        /\ answer'[q].status = status /\ (p # q => answer'[p] = answer[p])
    BY <1>1 DEF Reply, Goto, TypeOK
  <2> QED BY <1>1, <2>1 DEF AnsweredOnce
<1>2. ASSUME NEW q \in Requests, NEW call, Goto(q, call), UNCHANGED answer,
             call = "answered" \/ (pc[q] \in Undecided /\ call # "reply")
      PROVE  Goal
  <2>1. pc'[p] = IF p = q THEN call ELSE pc[p]
    BY <1>2 DEF Goto, TypeOK
  <2> QED BY <1>2, <2>1 DEF AnsweredOnce
<1>3. ASSUME UNCHANGED answer, pc'[p] = pc[p] \/ pc'[p] = "died" PROVE Goal
  BY <1>3 DEF AnsweredOnce
<1>4. ASSUME NEW q \in Requests, Accept(q) \/ Limit(q) \/ Respond(q) \/ Authenticate(q)
      PROVE  Goal
  <2>1. \/ \E status, id, code : Reply(q, status, id, code) /\ status # "none"
        \/ /\ UNCHANGED answer
           /\ \E call : /\ Goto(q, call)
                        /\ \/ call = "answered"
                           \/ pc[q] \in Undecided /\ call # "reply"
    BY <1>4 DEF Accept, Limit, NextCall, Respond, Authenticate, Refuse
  <2> QED BY <1>1, <1>2, <2>1
<1>5. ASSUME NEW q \in Requests, BadInput(q) \/ Register(q) \/ Login(q) \/ OutOfAttempts(q)
                                 \/ SaveRoom(q) \/ JoinRoom(q) \/ HandleConnection(q)
                                 \/ DatabaseFails(q)
      PROVE  Goal
  <2>1. \E status, id, code : Reply(q, status, id, code) /\ status # "none"
    BY <1>5 DEF BadInput, Register, Login, OutOfAttempts, SaveRoom, JoinRoom,
                HandleConnection, DatabaseFails, ReportFailure, Refuse
  <2> QED BY <1>1, <2>1
<1>6. ASSUME NEW q \in Requests, TryCode(q) PROVE Goal
  <2>1. UNCHANGED answer /\ pc[q] = "service" /\ (UNCHANGED pc \/ Goto(q, "insert"))
    BY <1>6 DEF TryCode
  <2> QED BY <1>2, <1>3, <2>1
<1>7. CASE Exit
  <2>1. UNCHANGED answer /\ pc'[p] = IF p \in InFlight THEN "died" ELSE pc[p]
    BY <1>7 DEF Exit
  <2> QED BY <1>3, <2>1
<1> QED
  BY <1>3, <1>4, <1>5, <1>6, <1>7
     DEF Next, Handler, Life, ExpireToken, StopBackground, StopListening, Drain,
         CloseClients, Restart, vars

LEMMA InvOnce == Spec => [](Inv /\ AnsweredOnce)
<1>1. Init => AnsweredOnce
  BY DEF Init, AnsweredOnce
<1>2. Inv /\ AnsweredOnce /\ [Next]_vars => AnsweredOnce'
  BY OnceNext DEF Inv
<1> QED BY <1>1, <1>2, SpecInv, PTL DEF Spec

\* An answer settled at one of its steps is one Registry lets the request have.
LEMMA ReplySettles ==
  ASSUME TypeOK, AnsweredOnce, NEW q \in Requests, pc[q] \in Undecided,
         NEW status, NEW id, NEW code, Reply(q, status, id, code)
  PROVE  Promise!Settle(q, status, id, code)
<1>1. Told' = Told
  BY GotoTells DEF Reply, Undecided
<1> QED
  BY <1>1 DEF AnsweredOnce, Reply, Promise!Settle, NoAnswer, Promise!NoAnswer

\* Whoever reaches the service of a room has logged in.
LEMMA UserLoggedIn ==
  ASSUME Inv, NEW q \in Requests, pc[q] \in {"service", "insert"}, form[q].kind \in Protected
  PROVE  who[q] \in Promise!LoggedIn
<1>1. who[q] \in Nat \ {0}
  BY DEF Inv, TypeOK, StepInv
<1>2. ProvedPassword(who[q])
  BY <1>1 DEF Inv, UsersProved
<1>3. PICK t \in Requests : Done(t, "login") /\ answer[t].id = who[q]
  BY <1>2 DEF ProvedPassword
<1> QED BY <1>3 DEF Done, Promise!LoggedIn

\* A refusal without a reason may come at any time, whatever it stored.
LEMMA RefusalFails ==
  ASSUME TypeOK, AnsweredOnce, NEW q \in Requests, pc[q] \in Undecided,
         NEW status \in {"denied", "refused", "error"}, Refuse(q, status),
         UNCHANGED tokenVars, UNCHANGED tableVars
  PROVE  Promise!Next
<1>1. Promise!Settle(q, status, 0, EmptyCode)
  BY ReplySettles DEF Refuse
<1>2. Promise!Fail(q)
  BY <1>1 DEF Promise!Fail, tableVars
<1> QED BY <1>2 DEF Promise!Next, tokenVars

\* The insertion of a room is where it is created; its code, tested before, is free now.
LEMMA RoomIsAdded ==
  ASSUME Inv, NEW q \in Requests, pc[q] = "insert", ~Duplicate(chosen[q]),
         rooms' = Append(rooms, NewRoom(q)), UNCHANGED users
  PROVE  Promise!AddRoom(q, chosen[q]) /\ chosen[q] \in Codes
<1>1. form[q].kind = "create" /\ chosen[q] \in Codes
  BY DEF Inv, StepInv
<1>2. who[q] \in Promise!LoggedIn
  BY <1>1, UserLoggedIn DEF Protected
<1> QED BY <1>1, <1>2 DEF Promise!AddRoom, Promise!CodeTaken, Duplicate, InUse, NewRoom

LEMMA UserIsAdded ==
  ASSUME NEW q \in Requests, form[q].kind = "register", ~Taken(q),
         users' = Append(users, Account(q)), UNCHANGED rooms
  PROVE  Promise!AddUser(q)
  BY DEF Promise!AddUser, Promise!NameTaken, Taken, Account

\* No code is twice in the table: a row that has it is the first that has it.
LEMMA RowsAreFound ==
  ASSUME Inv, NEW k, Find(k) = {}
  PROVE  ~Promise!CodeTaken(k)
<1> SUFFICES ASSUME NEW i \in 1 .. Len(rooms), rooms[i].code = k PROVE FALSE
  BY DEF Promise!CodeTaken
<1>1. ASSUME NEW j \in 1 .. i - 1 PROVE rooms[j].code # k
  <2>1. j \in 1 .. Len(rooms) /\ j # i
    BY DEF Inv, TypeOK
  <2> QED BY <2>1 DEF Inv, CodesDiffer
<1> QED BY <1>1 DEF Find

LEMMA HandlerRefines ==
  ASSUME Inv, AnsweredOnce, NEW q \in Requests, Handler(q)
  PROVE  Promise!Next \/ UNCHANGED Promise!vars
<1> USE DEF Inv, Undecided, tableVars, tokenVars
<1>1. CASE Authenticate(q) \/ Limit(q)
  <2>1. UNCHANGED <<tableVars, tokenVars>> /\ pc[q] \in Undecided
    BY <1>1 DEF Authenticate, Limit
  <2>2. CASE Refuse(q, "denied") \/ Refuse(q, "refused")
    BY <2>1, <2>2, RefusalFails
  <2>3. CASE UNCHANGED answer /\ \E call : call # "answered" /\ Goto(q, call)
    <3>1. Told' = Told
      BY <2>1, <2>3, GotoTells
    <3> QED BY <2>1, <2>3, <3>1 DEF Promise!vars
  <2> QED BY <1>1, <2>2, <2>3 DEF Authenticate, Limit, NextCall
<1>2. CASE BadInput(q) \/ OutOfAttempts(q)
  <2>1. Refuse(q, "refused") \/ Refuse(q, "error")
    BY <1>2 DEF BadInput, OutOfAttempts
  <2>2. UNCHANGED <<tableVars, tokenVars>> /\ pc[q] \in Undecided
    BY <1>2 DEF BadInput, OutOfAttempts
  <2> QED BY <2>1, <2>2, RefusalFails
<1>3. CASE Register(q)
  <2>1. pc[q] \in Undecided /\ form[q].kind = "register" /\ UNCHANGED <<rooms, form>>
    BY <1>3 DEF Register
  <2>2. CASE Taken(q)
    <3>1. Promise!Settle(q, "taken", 0, EmptyCode) /\ UNCHANGED users
      BY <1>3, <2>1, <2>2, ReplySettles DEF Register, Refuse
    <3>2. Promise!RefuseTaken(q) \/ Promise!RefuseNoEmail(q)
      BY <2>1, <2>2, <3>1
         DEF Promise!RefuseTaken, Promise!RefuseNoEmail, Promise!NameTaken,
             Promise!NoEmailTaken, Taken
    <3> QED BY <2>1, <3>2 DEF Promise!Next
  <2>3. CASE ~Taken(q)
    <3>1. Promise!Settle(q, "ok", Len(users) + 1, EmptyCode)
      BY <1>3, <2>1, <2>3, ReplySettles DEF Register
    <3>2. Promise!AddUser(q)
      BY <1>3, <2>1, <2>3, UserIsAdded DEF Register
    <3> QED BY <2>1, <3>1, <3>2 DEF Promise!Register, Promise!Next
  <2> QED BY <2>2, <2>3
<1>4. CASE Login(q)
  <2>1. pc[q] \in Undecided /\ form[q].kind = "login" /\ UNCHANGED <<users, rooms, form>>
    BY <1>4 DEF Login
  <2>2. ASSUME NEW i \in 1 .. Len(users), Matches(q, i), Reply(q, "ok", i, EmptyCode)
        PROVE  Promise!Next
    <3>1. Promise!Settle(q, "ok", i, EmptyCode)
      BY <2>1, <2>2, ReplySettles
    <3>2. Promise!Login(q)
      BY <2>1, <2>2, <3>1 DEF Promise!Login, Matches
    <3> QED BY <2>1, <3>2 DEF Promise!Next
  <2>3. CASE Refuse(q, "denied")
    BY <1>4, <2>1, <2>3, RefusalFails DEF Login
  <2> QED BY <1>4, <2>2, <2>3 DEF Login
<1>5. CASE TryCode(q)
  <2>1. Told' = Told
    <3>1. UNCHANGED pc \/ (Goto(q, "insert") /\ pc[q] # "answered")
      BY <1>5 DEF TryCode
    <3> QED BY <3>1, GotoTells DEF Told
  <2> QED BY <1>5, <2>1 DEF TryCode, Promise!vars
<1>6. CASE SaveRoom(q)
  <2>1. pc[q] = "insert" /\ UNCHANGED <<users, form, tokenVars>>
    BY <1>6 DEF SaveRoom
  <2>2. CASE Duplicate(chosen[q])
    BY <1>6, <2>1, <2>2, RefusalFails DEF SaveRoom
  <2>3. CASE ~Duplicate(chosen[q])
    <3>1. rooms' = Append(rooms, NewRoom(q)) /\ Reply(q, "ok", Len(rooms) + 1, chosen[q])
      BY <1>6, <2>3 DEF SaveRoom, NewRoom
    <3>2. Promise!Settle(q, "ok", Len(rooms) + 1, chosen[q])
      BY <2>1, <3>1, ReplySettles
    <3>3. Promise!AddRoom(q, chosen[q]) /\ chosen[q] \in Codes
      BY <2>1, <2>3, <3>1, RoomIsAdded
    <3>4. Promise!Create(q)
      BY <3>2, <3>3 DEF Promise!Create
    <3> QED BY <2>1, <3>4 DEF Promise!Next
  <2> QED BY <2>2, <2>3
<1>7. CASE JoinRoom(q)
  <2>1. pc[q] = "service" /\ form[q].kind = "join" /\ UNCHANGED <<users, rooms, form>>
    BY <1>7 DEF JoinRoom
  <2>2. PICK k \in Codes : IF Find(k) = {} THEN Refuse(q, "unknown")
                           ELSE \E i \in Find(k) : Reply(q, "ok", i, k)
    BY <1>7 DEF JoinRoom
  <2>3. CASE Find(k) = {}
    <3>1. Promise!Settle(q, "unknown", 0, EmptyCode)
      BY <2>1, <2>2, <2>3, ReplySettles DEF Refuse
    <3>2. Promise!RefuseUnknown(q)
      BY <2>1, <2>3, <3>1, RowsAreFound DEF Promise!RefuseUnknown
    <3> QED BY <2>1, <3>2 DEF Promise!Next
  <2>4. ASSUME NEW i \in Find(k), Reply(q, "ok", i, k) PROVE Promise!Next
    <3>1. i \in 1 .. Len(rooms) /\ rooms[i].code = k
      BY DEF Find
    <3>2. Promise!Settle(q, "ok", i, rooms[i].code)
      BY <2>1, <2>4, <3>1, ReplySettles
    <3>3. Promise!LoggedIn # {}
      BY <2>1, UserLoggedIn DEF Protected
    <3>4. Promise!Join(q)
      BY <2>1, <3>1, <3>2, <3>3 DEF Promise!Join
    <3> QED BY <2>1, <3>4 DEF Promise!Next
  <2> QED BY <2>2, <2>3, <2>4
<1>8. CASE HandleConnection(q)
  <2>1. pc[q] = "service" /\ form[q].kind = "connect" /\ UNCHANGED <<users, rooms, form>>
    BY <1>8 DEF HandleConnection
  <2>2. PICK r \in 0 .. Len(rooms) :
            Reply(q, IF Find(EmptyCode) = {} THEN "error" ELSE "upgraded", r, EmptyCode)
    BY <1>8 DEF HandleConnection
  <2>3. PICK status \in {"upgraded", "error"} : Reply(q, status, r, EmptyCode)
    BY <2>2
  <2>4. Promise!Settle(q, status, r, EmptyCode)
    BY <2>1, <2>3, ReplySettles
  <2>5. Promise!Connect(q)
    BY <2>1, <2>4 DEF Promise!Connect
  <2> QED BY <2>1, <2>5 DEF Promise!Next
<1>9. CASE Respond(q)
  <2>1. Told' = Told \cup {q} /\ q \notin Told
    BY <1>9, GotoTells DEF Respond, Told
  <2>2. answer[q] # Promise!NoAnswer
    BY <1>9 DEF Respond, AnsweredOnce, Promise!NoAnswer
  <2>3. Promise!Tell(q) /\ UNCHANGED form
    BY <1>9, <2>1, <2>2 DEF Respond, Promise!Tell
  <2> QED BY <2>3 DEF Promise!Next
<1> QED
  BY <1>1, <1>2, <1>3, <1>4, <1>5, <1>6, <1>7, <1>8, <1>9 DEF Handler

\* A call that failed was made, or not.
LEMMA FailureRefines ==
  ASSUME Inv, AnsweredOnce, NEW q \in Requests, DatabaseFails(q)
  PROVE  Promise!Next
<1>1. pc[q] \in {"service", "insert"} /\ UNCHANGED form
  BY DEF DatabaseFails, tokenVars
<1>2. \E status \in {"denied", "refused", "error"} : Promise!Settle(q, status, 0, EmptyCode)
  <2>1. PICK status \in {"denied", "refused", "error"} : Reply(q, status, 0, EmptyCode)
    BY DEF DatabaseFails, ReportFailure, Refuse
  <2> QED BY <1>1, <2>1, ReplySettles DEF Inv, Undecided
<1>3. \/ UNCHANGED users
      \/ form[q].kind = "register" /\ ~Taken(q) /\ users' = Append(users, Account(q))
  BY DEF DatabaseFails
<1>4. \/ UNCHANGED rooms
      \/ pc[q] = "insert" /\ ~Duplicate(chosen[q]) /\ rooms' = Append(rooms, NewRoom(q))
  BY DEF DatabaseFails, NewRoom
<1>5. pc[q] = "insert" => form[q].kind # "register"
  BY DEF Inv, StepInv
<1>6. Promise!Fail(q)
  <2>1. CASE UNCHANGED <<users, rooms>>
    BY <1>2, <2>1 DEF Promise!Fail
  <2>2. CASE UNCHANGED rooms /\ ~UNCHANGED users
    BY <1>2, <1>3, <2>2, UserIsAdded DEF Promise!Fail
  <2>3. CASE ~UNCHANGED rooms
    <3>1. UNCHANGED users
      BY <1>3, <1>4, <1>5, <2>3
    <3> QED BY <1>2, <1>4, <2>3, <3>1, RoomIsAdded DEF Promise!Fail
  <2> QED BY <2>1, <2>2, <2>3
<1> QED BY <1>1, <1>6 DEF Promise!Next

LEMMA RegistryNext == Inv /\ AnsweredOnce /\ [Next]_vars => [Promise!Next]_Promise!vars
<1> SUFFICES ASSUME Inv, AnsweredOnce, [Next]_vars
             PROVE  Promise!Next \/ UNCHANGED Promise!vars
  OBVIOUS
<1>1. ASSUME Told' = Told, UNCHANGED <<form, users, rooms, answer>>
      PROVE  UNCHANGED Promise!vars
  BY <1>1 DEF Promise!vars
<1>2. ASSUME NEW q \in Requests, Accept(q) PROVE UNCHANGED Promise!vars
  <2>1. Told' = Told
    BY <1>2, GotoTells DEF Accept, Inv
  <2> QED BY <1>1, <1>2, <2>1 DEF Accept, tableVars, tokenVars
<1>3. CASE UNCHANGED vars \/ Life \/ \E q \in Requests : ExpireToken(q)
  <2>1. UNCHANGED <<form, users, rooms, answer>>
    BY <1>3 DEF vars, tableVars, tokenVars, Life, ExpireToken, StopBackground,
                StopListening, Drain, CloseClients, Exit, Restart
  <2>2. CASE UNCHANGED pc
    BY <1>1, <2>1, <2>2 DEF Told
  <2>3. CASE Exit
    <3>1. \A p \in Requests : pc'[p] = IF p \in InFlight THEN "died" ELSE pc[p]
      BY <2>3 DEF Exit
    <3>2. Told' = Told
      BY <3>1 DEF Told, InFlight, Calls
    <3> QED BY <1>1, <2>1, <3>2
  <2> QED
    BY <1>3, <2>2, <2>3 DEF vars, Life, ExpireToken, StopBackground, StopListening, Drain,
                            CloseClients, Restart
<1> QED BY <1>2, <1>3, HandlerRefines, FailureRefines DEF Next

--------------------------------------------------------------------------------
(***************************************************************************)
(* The theorems.                                                           *)
(***************************************************************************)
\* The variables keep their types, and no request tries more than MaxAttempts codes.
THEOREM TypeCorrect == Spec => []TypeOK
<1>1. Inv => TypeOK
  BY DEF Inv
<1> QED
  BY <1>1, SpecInv, PTL

\* Whoever joins with the code a creator was given gets to the creator's room.
THEOREM InvitesLeadHome == Spec => []InviteLeadsHome
<1>1. Inv => InviteLeadsHome
  <2> SUFFICES ASSUME AnswersRight, CodesDiffer,
                      NEW p \in Requests, NEW q \in Requests,
                      Done(p, "create"), Done(q, "join"), answer[p].code = answer[q].code
               PROVE  answer[p].id = answer[q].id
    BY DEF Inv, InviteLeadsHome
  <2>1. /\ answer[p].id \in 1 .. Len(rooms) /\ answer[q].id \in 1 .. Len(rooms)
        /\ rooms[answer[p].id].code = rooms[answer[q].id].code
    <3>1. /\ answer[p].id \in 1 .. Len(rooms)
          /\ rooms[answer[p].id] = [code |-> answer[p].code, creator |-> who[p]]
      BY DEF AnswersRight, Right, Done, Succeeds
    <3>2. /\ answer[q].id \in 1 .. Len(rooms)
          /\ rooms[answer[q].id].code = answer[q].code
      BY DEF AnswersRight, Right, Done, Succeeds
    <3> QED
      BY <3>1, <3>2
  <2> QED
    BY <2>1 DEF CodesDiffer
<1> QED
  BY <1>1, SpecInv, PTL

\* Every room belongs to an account whose password was presented.
THEOREM CreatorsProvedPassword == Spec => []CreatorProvedPassword
<1>1. Inv => CreatorProvedPassword
  BY DEF Inv
<1> QED
  BY <1>1, SpecInv, PTL

\* What a client was told it has is in the database.
THEOREM AnswersAreStored == Spec => []AnsweredIsStored
<1>1. Inv => AnsweredIsStored
  BY DEF Inv, AnswersRight, Right, AnsweredIsStored, Done, Succeeds
<1> QED
  BY <1>1, SpecInv, PTL

\* No request is under way with the clients closed, unless Shutdown gave up waiting for it.
THEOREM OrderlyStops == Spec => []OrderlyStopCutsNothing
<1>1. Inv => OrderlyStopCutsNothing
  BY DEF Inv, StopInv, OrderlyStopCutsNothing
<1> QED
  BY <1>1, SpecInv, PTL

\* The server implements Registry: each request takes effect in one instant, and its client
\* is told what came of it, later or never.
THEOREM ImplementsRegistry == Spec => RegistrySpec
<1>1. Init => Promise!Init
  BY DEF Init, Promise!Init, NoAnswer, Promise!NoAnswer, Told
<1> QED BY <1>1, RegistryNext, InvOnce, PTL DEF Spec, RegistrySpec, Promise!Spec
================================================================================
