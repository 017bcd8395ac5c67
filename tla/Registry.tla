-------------------------------- MODULE Registry --------------------------------
(***************************************************************************)
(* What accounts and rooms promise to the clients: every request takes     *)
(* effect in one instant, with an outcome its client is told later, or     *)
(* never.  A name, an e-mail and an invite code are given out once, a room *)
(* belongs to somebody who was told to have logged in, a code leads to its *)
(* room, and who is told that something is taken or unknown is told the    *)
(* truth, one case excepted.  A request may fail, and what it asked for    *)
(* may be stored all the same.                                             *)
(***************************************************************************)
EXTENDS Naturals, Sequences

CONSTANTS Requests, Scenarios, Before, Codes, EmptyCode, NoEmail

VARIABLES
    form,    \* what the requests ask for
    users,   \* the accounts
    rooms,   \* the rooms
    outcome, \* per request: what came of it
    told     \* the requests whose clients know the outcome

vars == <<form, users, rooms, outcome, told>>

NoAnswer == [status |-> "none", id |-> 0, code |-> EmptyCode]

Init ==
    /\ form \in Scenarios
    /\ users \in Before /\ rooms = <<>>
    /\ outcome = [q \in Requests |-> NoAnswer]
    /\ told = {}

\* A request takes effect once.
Settle(q, status, id, code) ==
    /\ outcome[q] = NoAnswer
    /\ outcome' = [outcome EXCEPT ![q] = [status |-> status, id |-> id, code |-> code]]
    /\ UNCHANGED told

\* The client hears of it, once, and not before.
Tell(q) ==
    /\ outcome[q] # NoAnswer /\ q \notin told
    /\ told' = told \cup {q}
    /\ UNCHANGED <<users, rooms, outcome>>

\* The name has an account, or an e-mail that was given has one.
NameTaken(q) ==
    \E i \in 1 .. Len(users) :
        \/ users[i].name = form[q].name
        \/ form[q].email # NoEmail /\ users[i].email = form[q].email
NoEmailTaken(q) ==
    form[q].email = NoEmail /\ \E i \in 1 .. Len(users) : users[i].email = NoEmail
CodeTaken(k) == \E i \in 1 .. Len(rooms) : rooms[i].code = k

\* Whoever was told to have logged in.
LoggedIn == {outcome[t].id : t \in {t \in told : /\ form[t].kind = "login"
                                                 /\ outcome[t].status = "ok"}}

AddUser(q) ==
    /\ form[q].kind = "register" /\ ~NameTaken(q)
    /\ users' = Append(users, [name |-> form[q].name, password |-> form[q].password,
                               email |-> form[q].email])
    /\ UNCHANGED rooms

AddRoom(q, k) ==
    /\ form[q].kind = "create" /\ ~CodeTaken(k)
    /\ \E u \in LoggedIn : rooms' = Append(rooms, [code |-> k, creator |-> u])
    /\ UNCHANGED users

Register(q) == AddUser(q) /\ Settle(q, "ok", Len(users) + 1, EmptyCode)

Login(q) ==
    /\ form[q].kind = "login"
    /\ \E i \in 1 .. Len(users) : /\ users[i].name = form[q].name
                                  /\ users[i].password = form[q].password
                                  /\ Settle(q, "ok", i, EmptyCode)
    /\ UNCHANGED <<users, rooms>>

Create(q) == \E k \in Codes : AddRoom(q, k) /\ Settle(q, "ok", Len(rooms) + 1, k)

\* Only those who have logged in ask for a room.
Join(q) ==
    /\ form[q].kind = "join" /\ LoggedIn # {}
    /\ \E i \in 1 .. Len(rooms) : Settle(q, "ok", i, rooms[i].code)
    /\ UNCHANGED <<users, rooms>>

RefuseTaken(q) ==
    /\ form[q].kind = "register" /\ NameTaken(q)
    /\ Settle(q, "taken", 0, EmptyCode)
    /\ UNCHANGED <<users, rooms>>

\* The case that is not the truth: the empty e-mail is a value like the others to the
\* database, so a second account without one is refused as if its name were taken, where
\* auth.go:28 has the e-mail optional.
RefuseNoEmail(q) ==
    /\ form[q].kind = "register" /\ NoEmailTaken(q)
    /\ Settle(q, "taken", 0, EmptyCode)
    /\ UNCHANGED <<users, rooms>>

RefuseUnknown(q) ==
    /\ form[q].kind = "join" /\ \E k \in Codes : ~CodeTaken(k)
    /\ Settle(q, "unknown", 0, EmptyCode)
    /\ UNCHANGED <<users, rooms>>

\* The gate of the WebSocket promises nothing here.
Connect(q) ==
    /\ form[q].kind = "connect"
    /\ \E status \in {"upgraded", "error"}, r \in 0 .. Len(rooms) :
           Settle(q, status, r, EmptyCode)
    /\ UNCHANGED <<users, rooms>>

Fail(q) ==
    /\ \E status \in {"denied", "refused", "error"} : Settle(q, status, 0, EmptyCode)
    /\ \/ UNCHANGED <<users, rooms>>
       \/ AddUser(q)
       \/ \E k \in Codes : AddRoom(q, k)

Next == /\ \E q \in Requests : \/ Register(q) \/ Login(q) \/ Create(q) \/ Join(q)
                               \/ RefuseTaken(q) \/ RefuseNoEmail(q) \/ RefuseUnknown(q)
                               \/ Connect(q) \/ Fail(q) \/ Tell(q)
        /\ UNCHANGED form

Spec == Init /\ [][Next]_vars
================================================================================
