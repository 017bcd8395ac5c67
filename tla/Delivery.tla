-------------------------------- MODULE Delivery --------------------------------
(***************************************************************************)
(* One room served by several instances of the server, which share Redis   *)
(* and the database and nothing else: who hears of which action.  Each     *)
(* instance has a hub, with a subscription loop while it has clients in    *)
(* the room; actions travel from one to all through Redis's PUBLISH.       *)
(*                                                                         *)
(* The hubs are those of Subscriptions, which Hub is shown to implement, an *)
(* instance for a group; to their steps this module adds what Redis sends  *)
(* the loops and what becomes of it.  The ways a connection ends are one   *)
(* step, and so is what a handler does before it publishes.  A message is  *)
(* named by its place in `published`.  A client comes at most once.        *)
(***************************************************************************)
EXTENDS Naturals, Sequences

CONSTANTS
    Servers,
    Clients, ServerOf,   \* connections, and the instance each is connected to
    Users, UserOf,
    Actions, AuthorOf,   \* edits, and the connection each is sent on
    NoLoop,              \* not a client
    MaxFaults            \* bound: failed calls, full channels, crashes

ASSUME ClientsAssumption ==
    ServerOf \in [Clients -> Servers] /\ UserOf \in [Clients -> Users]
ASSUME AuthorsAssumption == AuthorOf \in [Actions -> Clients]
ASSUME NoLoopAssumption  == NoLoop \notin Clients
ASSUME FaultsAssumption  == MaxFaults \in Nat

VARIABLES
    client,     \* a connection is away, in the room, or gone
    entry,      \* Hub.roomSubscriptions of each instance: a loop, or NoLoop
    loop,       \* phase of the subscription loop a client's registration started
    cancelled,  \* the loops whose context was cancelled
    inbox,      \* per loop: messages Redis has sent it and it has not forwarded
    edit,       \* per action: whether its handler has yet to publish it
    published,  \* everything published in the room, in Redis's order
    heard,      \* per client: the messages put in its channel, and by which loop
    due,        \* per client: the messages published while it could hear them
    excused,    \* per client: those a full channel or a lost subscription cost it
    faults      \* failures so far (bounded by MaxFaults)

loopVars == <<entry, loop, cancelled, inbox>>
editVars == <<edit, published>>
hearVars == <<heard, due, excused>>
vars == <<client, loopVars, editVars, hearVars, faults>>

Places == 1 .. Len(published)

\* The types of the variables: every message a loop or a client has was published, and an
\* entry of Hub.roomSubscriptions is that of a loop of the instance which has not ended.
TypeOK ==
    /\ client \in [Clients -> {"away", "in", "gone"}]
    /\ entry \in [Servers -> Clients \cup {NoLoop}]
    /\ loop \in [Clients -> {"none", "subscribing", "listening", "leaving", "stopped"}]
    /\ cancelled \in SUBSET Clients
    /\ inbox \in [Clients -> Seq(Places)]
    /\ edit \in [Actions -> {"new", "handled", "done"}]
    /\ published \in Seq(Actions)
    /\ heard \in [Clients -> Seq([loop : Clients, at : Places])]
    /\ due \in [Clients -> SUBSET Places]
    /\ excused \in [Clients -> SUBSET Places]
    /\ faults \in 0 .. MaxFaults
    /\ \A s \in Servers : entry[s] # NoLoop =>
           ServerOf[entry[s]] = s /\ loop[entry[s]] \notin {"none", "stopped"}

Init ==
    /\ client = [c \in Clients |-> "away"]
    /\ entry = [s \in Servers |-> NoLoop]
    /\ loop = [c \in Clients |-> "none"]
    /\ cancelled = {}
    /\ inbox = [c \in Clients |-> <<>>]
    /\ edit = [x \in Actions |-> "new"]
    /\ published = <<>>
    /\ heard = [c \in Clients |-> <<>>]
    /\ due = [c \in Clients |-> {}]
    /\ excused = [c \in Clients |-> {}]
    /\ faults = 0

Fault == faults < MaxFaults /\ faults' = faults + 1

--------------------------------------------------------------------------------
(***************************************************************************)
(* The hub of an instance: who is in the room, and its subscription.       *)
(***************************************************************************)
Subscription == INSTANCE Subscriptions WITH
    Groups <- Servers, GroupOf <- ServerOf, stopped <- {}

Members(s) == Subscription!Members(s)

\* What was noted of clients that leave matters no more.
Forget(D) ==
    /\ heard' = [c \in Clients |-> IF c \in D THEN <<>> ELSE heard[c]]
    /\ due' = [c \in Clients |-> IF c \in D THEN {} ELSE due[c]]
    /\ excused' = [c \in Clients |-> IF c \in D THEN {} ELSE excused[c]]

\* registerClient: the first one starts the subscription, unless there is an entry.
Register(c) ==
    /\ Subscription!Register(c)
    /\ UNCHANGED <<inbox, editVars, hearVars, faults>>

\* unregisterClient: the last one stops the subscription, if there is an entry.
Unregister(c) ==
    /\ Subscription!Unregister(c)
    /\ Forget({c})
    /\ UNCHANGED <<inbox, editVars, faults>>

Subscribed(g) ==
    /\ Subscription!Subscribed(g)
    /\ UNCHANGED <<inbox, editVars, hearVars, faults>>

\* What is lost with the inbox of a loop is lost for those who could hear.
LoseInbox(g) ==
    /\ Fault
    /\ inbox' = [inbox EXCEPT ![g] = <<>>]
    /\ excused' = [c \in Clients |->
                      IF c \in Members(ServerOf[g])
                      THEN excused[c] \cup {inbox[g][i] : i \in DOMAIN inbox[g]}
                      ELSE excused[c]]

\* The context was cancelled; or the attempt to subscribe failed, or the channel was closed.
LoopReturns(g) ==
    /\ Subscription!LoopReturns(g)
    /\ \/ /\ g \in cancelled
          /\ inbox' = [inbox EXCEPT ![g] = <<>>]
          /\ UNCHANGED <<excused, faults>>
       \/ LoseInbox(g)
    /\ UNCHANGED <<editVars, heard, due>>

\* go-redis loses the connection to Redis and subscribes again, on the same channel.
Resubscribe(g) ==
    /\ loop[g] = "listening"
    /\ LoseInbox(g)
    /\ UNCHANGED <<client, entry, loop, cancelled, editVars, heard, due>>

LoopExits(g) ==
    /\ Subscription!LoopExits(g)
    /\ UNCHANGED <<inbox, editVars, hearVars, faults>>

\* The process ends: its connections, its goroutines and what they had in hand are gone.
Crash(s) ==
    /\ Fault
    /\ Subscription!Crash(s)
    /\ Forget(Members(s))
    /\ inbox' = [g \in Clients |-> IF ServerOf[g] = s THEN <<>> ELSE inbox[g]]
    /\ edit' = [x \in Actions |-> IF ServerOf[AuthorOf[x]] = s /\ edit[x] # "new"
                                 THEN "done" ELSE edit[x]]
    /\ UNCHANGED published

--------------------------------------------------------------------------------
(***************************************************************************)
(* An action: handleClientAction, on its author's instance.                *)
(***************************************************************************)
\* Read by ReadPump, validated and applied.
Handle(x) ==
    /\ client[AuthorOf[x]] = "in"
    /\ edit[x] = "new"
    /\ edit' = [edit EXCEPT ![x] = "handled"]
    /\ UNCHANGED <<client, loopVars, published, hearVars, faults>>

Listening(g) == loop[g] = "listening"
OnThisServer(x) ==                       \* slip: broadcast by the hub, not through Redis
    {g \in Clients : Listening(g) /\ ServerOf[g] = ServerOf[AuthorOf[x]]}
Subscribers(x) == {g \in Clients : Listening(g)}

\* Those who can hear: in the room, on an instance that listens and will go on to, and
\* not connections of the author's user.
CanHear(x) ==
    {c \in Clients : /\ client[c] = "in"
                     /\ UserOf[c] # UserOf[AuthorOf[x]]
                     /\ \E g \in Clients : /\ Listening(g) /\ g \notin cancelled
                                           /\ ServerOf[g] = ServerOf[c]}

\* Redis executes a PUBLISH: the message goes to whoever listens, and is kept nowhere.
Deliver(x) ==
    /\ published' = Append(published, x)
    /\ inbox' = [g \in Clients |-> IF g \in Subscribers(x)
                                   THEN Append(inbox[g], Len(published) + 1)
                                   ELSE inbox[g]]
    /\ due' = [c \in Clients |-> IF c \in CanHear(x)
                                 THEN due[c] \cup {Len(published) + 1} ELSE due[c]]

\* PublishAction, by the handler.  It is done when it has its reply.  When the reply is
\* lost the Redis client sends the command again, so that Redis executes it once more, or
\* gives up.  A failure, of it or of a call before it, is told to the author at most.
Publish(x) ==
    /\ edit[x] = "handled"
    /\ \/ Deliver(x) /\ edit' = [edit EXCEPT ![x] = "done"] /\ UNCHANGED faults
       \/ Deliver(x) /\ Fault /\ UNCHANGED edit
       \/ Fault /\ edit' = [edit EXCEPT ![x] = "done"] /\ UNCHANGED <<published, inbox, due>>
    /\ UNCHANGED <<client, entry, loop, cancelled, heard, excused>>

\* Everyone in the room but the connections of the author's user.
Receivers(g) ==
    {c \in Members(ServerOf[g]) : UserOf[c] # UserOf[AuthorOf[published[Head(inbox[g])]]]}

PeekMessage(g) == UNCHANGED inbox        \* slip: the message stays in the channel
TakeMessage(g) == inbox' = [inbox EXCEPT ![g] = Tail(@)]

\* A send to a client whose channel is full is dropped.  The select of a cancelled loop
\* may still take a message.
ForwardAction(g) ==
    /\ Listening(g) /\ inbox[g] # <<>>
    /\ \E full \in SUBSET Receivers(g) :
           /\ \/ full = {} /\ UNCHANGED faults
              \/ full # {} /\ Fault
           /\ heard' = [c \in Clients |->
                           IF c \in Receivers(g) \ full
                           THEN Append(heard[c], [loop |-> g, at |-> Head(inbox[g])])
                           ELSE heard[c]]
           /\ excused' = [c \in Clients |-> IF c \in full
                                            THEN excused[c] \cup {Head(inbox[g])}
                                            ELSE excused[c]]
    /\ TakeMessage(g)
    /\ UNCHANGED <<client, entry, loop, cancelled, editVars, due>>

--------------------------------------------------------------------------------
Connection(c) == Register(c) \/ Unregister(c)
Loop(g)       == \/ Subscribed(g) \/ ForwardAction(g) \/ Resubscribe(g)
                 \/ LoopReturns(g) \/ LoopExits(g)

Next == \/ \E c \in Clients : Connection(c) \/ Loop(c)
        \/ \E x \in Actions : Handle(x) \/ Publish(x)
        \/ \E s \in Servers : Crash(s)

Spec == Init /\ [][Next]_vars

\* A subscription loop that has a message is scheduled.
FairSpec == Spec /\ \A g \in Clients : WF_vars(ForwardAction(g))

--------------------------------------------------------------------------------
(***************************************************************************)
(* Properties.                                                             *)
(***************************************************************************)
Heard(c) == {heard[c][i].at : i \in DOMAIN heard[c]}
Settled(c, m) == m \in Heard(c) \cup excused[c] \/ client[c] # "in"

\* Whoever was in the room and could hear an action when it was published has heard it, or
\* still has it coming on a loop of its instance that nobody cancels: no coming and going
\* of others, on this instance or another, takes it away.
DueIsUnderWay ==
    \A c \in Clients : \A m \in due[c] :
        Settled(c, m) \/ \E g \in Clients : /\ ServerOf[g] = ServerOf[c]
                                            /\ Listening(g) /\ g \notin cancelled
                                            /\ \E i \in DOMAIN inbox[g] : inbox[g][i] = m

\* Each loop tells a client every message at most once, and in the order in which Redis took
\* them: from one loop a client hears an action twice only if Redis executed its PUBLISH
\* twice, and hears a message twice, or late, only if two loops of its instance overlap.
HeardInOrder ==
    \A c \in Clients : \A i, j \in DOMAIN heard[c] :
        i < j /\ heard[c][i].loop = heard[c][j].loop => heard[c][i].at < heard[c][j].at

\* A client that has something coming catches up while it stays: what it could hear arrives,
\* unless a channel is full or its instance's subscription is lost.
Awaited(c) == {m \in due[c] : ~Settled(c, m)}
DueArrives == \A c \in Clients : Awaited(c) # {} ~> Awaited(c) = {}
================================================================================
