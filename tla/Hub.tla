---------------------------------- MODULE Hub ----------------------------------
(***************************************************************************)
(* The WebSocket hub of src/internal/hub: the event loop that owns the map *)
(* of rooms, the two pumps of every connection, the goroutines the loop    *)
(* starts (initial snapshot, action handler, Redis cleanup), one Redis     *)
(* subscription loop per occupied room, and the periodic reaper.           *)
(*                                                                         *)
(* A connection (a Client in the code) is a member of Clients; it connects  *)
(* at most once, to RoomOf[c], for the user UserOf[c].  An incarnation of  *)
(* roomSubscribeLoop is named by the client whose registration started it: *)
(* a registration starts at most one.  Locks are not variables: every      *)
(* section under roomsMu or subMu is one atomic step here, none is nested  *)
(* in another, and none blocks while it holds the lock.                    *)
(***************************************************************************)
EXTENDS Naturals, Sequences, FiniteSets

CONSTANTS
    Clients,     \* WebSocket connections
    Rooms,       \* room identifiers
    Users,       \* user identifiers
    RoomOf,      \* the room a connection asks for
    UserOf,      \* the user a connection authenticated as
    ChanCap,     \* capacity of Hub.messageChan (512 in the code)
    SendCap,     \* capacity of Client.send (256 in the code)
    MaxActions,  \* bound: messages all peers send, together
    Faults,      \* what this instance's environment does: see FaultsAssumption
    NoClient     \* not a connection

ASSUME RoomOfAssumption   == RoomOf \in [Clients -> Rooms]
ASSUME UserOfAssumption   == UserOf \in [Clients -> Users]
ASSUME CapAssumption      == ChanCap \in Nat \ {0} /\ SendCap \in Nat \ {0}
ASSUME BoundAssumption    == MaxActions \in Nat
ASSUME NoClientAssumption == NoClient \notin Clients
\* "lost": peers vanish without closing; "redis": Redis breaks a subscription;
\* "tick": the reaper's ticker fires; "shutdown": App.Shutdown begins.
ASSUME FaultsAssumption   == Faults \subseteq {"lost", "redis", "tick", "shutdown"}

VARIABLES
    messageChan,   \* Hub.messageChan, a FIFO of [type, client]
    hub,           \* where Hub.Run is: receiving, or between two locked sections
    rooms,         \* Hub.rooms; {} stands for "no entry"
    subs,          \* Hub.roomSubscriptions: whose cancel function is stored, or NoClient
    loop,          \* phase of the subscription loop a client's registration started
    cancelled,     \* the loops whose context was cancelled
    stopping,      \* whether StopAllSubscriptions was called
    inbox,         \* published actions a loop has not forwarded yet (their authors)
    sendLen,       \* number of messages buffered in Client.send
    sendClosed,    \* the clients whose send channel is closed
    conn,          \* the socket: "up", "lost" (peer gone, not noticed), "closed"
    readPump,      \* state of Client.ReadPump
    writePump,     \* state of Client.WritePump
    snapshotting,  \* clients with a sendInitialSnapshot goroutine under way
    handling,      \* number of handleClientAction goroutines per client
    toPing,        \* performClientCleanup: clients still to ping
    toUnregister,  \* performClientCleanup: clients that failed their ping
    cleanups,      \* number of pending CleanupRoomState goroutines per room
    roomState,     \* the rooms that have state in Redis
    sent,          \* messages sent by the peers so far (bounded by MaxActions)
    panic          \* the goroutine whose panic ended the process, or "none"

queueVars  == <<messageChan, hub>>
subVars    == <<subs, loop, cancelled, stopping, inbox>>
sendVars   == <<sendLen, sendClosed>>
pumpVars   == <<conn, readPump, writePump>>
taskVars   == <<snapshotting, handling, cleanups>>
reaperVars == <<toPing, toUnregister>>
vars == <<queueVars, rooms, subVars, sendVars, pumpVars, taskVars, reaperVars,
          roomState, sent, panic>>

Message  == [type : {"register", "unregister", "action"}, client : Clients]
HubState == [op : {"subscribe", "unsubscribe"}, client : Clients]
                \cup {[op |-> "receive", client |-> NoClient]}
Receiving == [op |-> "receive", client |-> NoClient]

Room(c) == RoomOf[c]
Members == UNION {rooms[r] : r \in Rooms}

\* The types of the variables: clients are kept under the room they asked for, and no channel
\* of the code holds more than its capacity.
TypeOK ==
    /\ messageChan \in Seq(Message) /\ Len(messageChan) <= ChanCap
    /\ hub \in HubState
    /\ rooms \in [Rooms -> SUBSET Clients]
    /\ \A r \in Rooms : \A c \in rooms[r] : Room(c) = r
    /\ subs \in [Rooms -> Clients \cup {NoClient}]
    /\ loop \in [Clients -> {"none", "subscribing", "listening", "leaving", "stopped"}]
    /\ cancelled \in SUBSET Clients
    /\ stopping \in BOOLEAN
    /\ inbox \in [Clients -> Seq(Users)]
    /\ sendLen \in [Clients -> 0 .. SendCap]
    /\ sendClosed \in SUBSET Clients
    /\ conn \in [Clients -> {"up", "lost", "closed"}]
    /\ readPump \in [Clients -> {"off", "refused", "reading", "leaving", "done", "timedout"}]
    /\ writePump \in [Clients -> {"off", "running", "done"}]
    /\ snapshotting \in SUBSET Clients
    /\ handling \in [Clients -> Nat]
    /\ toPing \in SUBSET Clients
    /\ toUnregister \in SUBSET Clients
    /\ cleanups \in [Rooms -> Nat]
    /\ roomState \in SUBSET Rooms
    /\ sent \in 0 .. MaxActions
    /\ panic \in {"none", "forward", "snapshot", "handler"}

Init ==
    /\ messageChan = <<>>
    /\ hub = Receiving
    /\ rooms = [r \in Rooms |-> {}]
    /\ subs = [r \in Rooms |-> NoClient]
    /\ loop = [c \in Clients |-> "none"]
    /\ cancelled = {}
    /\ stopping = FALSE
    /\ inbox = [c \in Clients |-> <<>>]
    /\ sendLen = [c \in Clients |-> 0]
    /\ sendClosed = {}
    /\ conn = [c \in Clients |-> "up"]
    /\ readPump = [c \in Clients |-> "off"]
    /\ writePump = [c \in Clients |-> "off"]
    /\ snapshotting = {}
    /\ handling = [c \in Clients |-> 0]
    /\ toPing = {}
    /\ toUnregister = {}
    /\ cleanups = [r \in Rooms |-> 0]
    /\ roomState = {}
    /\ sent = 0
    /\ panic = "none"

\* A panic in any goroutine ends the process.
Running == panic = "none"

--------------------------------------------------------------------------------
(***************************************************************************)
(* The channels.                                                           *)
(***************************************************************************)
ChannelFullLate == Len(messageChan) > ChanCap       \* slip: one message too late
ChannelFull == Len(messageChan) = ChanCap

EnqueueFirst(type, c) ==                            \* slip: a newer message overtakes
    messageChan' = <<[type |-> type, client |-> c]>> \o messageChan
Enqueue(type, c) ==
    messageChan' = Append(messageChan, [type |-> type, client |-> c])

(***************************************************************************)
(* select { case client.send <- m: default: } : dropped when the buffer is *)
(* full, but a send on a closed channel panics whatever the select says.   *)
(* `who` is the goroutine that sends, `targets` whom it sends one message. *)
(***************************************************************************)
Offer(targets, who) ==
    IF targets \cap sendClosed # {}
    THEN panic' = who /\ UNCHANGED sendLen
    ELSE /\ sendLen' = [c \in Clients |->
                            IF c \in targets /\ sendLen[c] < SendCap
                            THEN sendLen[c] + 1 ELSE sendLen[c]]
         /\ UNCHANGED panic

ConnStaysOpen(c) == UNCHANGED conn                  \* slip: conn.Close() forgotten
CloseConn(c) == conn' = [conn EXCEPT ![c] = "closed"]

--------------------------------------------------------------------------------
(***************************************************************************)
(* The connection: HandleConnection once the upgrade succeeded, the peer   *)
(* and the two pumps.                                                      *)
(***************************************************************************)
Connect(c) ==
    /\ Running
    /\ readPump[c] = "off"
    /\ ~ChannelFull
    /\ Enqueue("register", c)
    /\ readPump' = [readPump EXCEPT ![c] = "reading"]
    /\ writePump' = [writePump EXCEPT ![c] = "running"]
    /\ UNCHANGED <<hub, rooms, subVars, sendVars, conn, taskVars, reaperVars,
                   roomState, sent, panic>>

Refuse(c) ==
    /\ Running
    /\ readPump[c] = "off"
    /\ ChannelFull
    /\ readPump' = [readPump EXCEPT ![c] = "refused"]
    /\ CloseConn(c)
    /\ UNCHANGED <<queueVars, rooms, subVars, sendVars, writePump, taskVars,
                   reaperVars, roomState, sent, panic>>

\* The network loses the peer; reads and writes fail some time later.
LosePeer(c) ==
    /\ Running
    /\ "lost" \in Faults
    /\ readPump[c] = "reading" /\ conn[c] = "up"
    /\ conn' = [conn EXCEPT ![c] = "lost"]
    /\ UNCHANGED <<queueVars, rooms, subVars, sendVars, readPump, writePump, taskVars,
                   reaperVars, roomState, sent, panic>>

\* A text message arrives: a non-blocking send to the hub, dropped when it is full.
ReadAction(c) ==
    /\ Running
    /\ readPump[c] = "reading" /\ conn[c] # "closed"
    /\ sent < MaxActions
    /\ sent' = sent + 1
    /\ IF ChannelFull THEN UNCHANGED messageChan ELSE Enqueue("action", c)
    /\ UNCHANGED <<hub, rooms, subVars, sendVars, pumpVars, taskVars, reaperVars,
                   roomState, panic>>

\* ReadMessage returns an error: the peer closed or broke the protocol ...
PeerEnds(c) ==
    /\ Running
    /\ readPump[c] = "reading" /\ conn[c] = "up"
    /\ readPump' = [readPump EXCEPT ![c] = "leaving"]
    /\ UNCHANGED <<queueVars, rooms, subVars, sendVars, conn, writePump, taskVars,
                   reaperVars, roomState, sent, panic>>

\* ... or the socket is dead (read deadline, or closed by the other pump).
ReadFails(c) ==
    /\ Running
    /\ readPump[c] = "reading" /\ conn[c] # "up"
    /\ readPump' = [readPump EXCEPT ![c] = "leaving"]
    /\ UNCHANGED <<queueVars, rooms, subVars, sendVars, conn, writePump, taskVars,
                   reaperVars, roomState, sent, panic>>

\* The deferred exit: wait up to a second for room in the channel, then give up.
LeaveReadPump(c) ==
    /\ Running
    /\ readPump[c] = "leaving"
    /\ \/ /\ ~ChannelFull
          /\ Enqueue("unregister", c)
          /\ readPump' = [readPump EXCEPT ![c] = "done"]
       \/ /\ ChannelFull
          /\ readPump' = [readPump EXCEPT ![c] = "timedout"]
          /\ UNCHANGED messageChan
    /\ CloseConn(c)
    /\ UNCHANGED <<hub, rooms, subVars, sendVars, writePump, taskVars, reaperVars,
                   roomState, sent, panic>>

WriteMessage(c) ==
    /\ Running
    /\ writePump[c] = "running" /\ conn[c] # "closed"
    /\ sendLen[c] > 0
    /\ sendLen' = [sendLen EXCEPT ![c] = @ - 1]
    /\ UNCHANGED <<queueVars, rooms, subVars, sendClosed, pumpVars, taskVars, reaperVars,
                   roomState, sent, panic>>

\* The hub closed the channel, or a write or the periodic ping failed.
LeaveWritePump(c) ==
    /\ Running
    /\ writePump[c] = "running"
    /\ \/ c \in sendClosed /\ sendLen[c] = 0
       \/ conn[c] # "up"
    /\ writePump' = [writePump EXCEPT ![c] = "done"]
    /\ CloseConn(c)
    /\ UNCHANGED <<queueVars, rooms, subVars, sendVars, readPump, taskVars, reaperVars,
                   roomState, sent, panic>>

--------------------------------------------------------------------------------
(***************************************************************************)
(* Hub.Run.  registerClient and unregisterClient release roomsMu before    *)
(* they take subMu, so each is two steps of the loop.                      *)
(***************************************************************************)
Head1 == Head(messageChan)
Dequeue == messageChan' = Tail(messageChan)

FirstInRoomLate(c) == Cardinality(rooms[Room(c)]) = 1   \* slip: counted before the insert
FirstInRoom(c) == rooms[Room(c)] \cup {c} = {c}

\* registerClient up to roomsMu.Unlock (and to the end, when it is not the first).
Register(c) ==
    /\ Running
    /\ hub = Receiving
    /\ messageChan # <<>> /\ Head1 = [type |-> "register", client |-> c]
    /\ Dequeue
    /\ rooms' = [rooms EXCEPT ![Room(c)] = @ \cup {c}]
    /\ IF FirstInRoom(c)
       THEN hub' = [op |-> "subscribe", client |-> c] /\ UNCHANGED snapshotting
       ELSE snapshotting' = snapshotting \cup {c} /\ UNCHANGED hub
    /\ UNCHANGED <<subVars, sendVars, pumpVars, handling, cleanups, reaperVars, roomState,
                   sent, panic>>

\* startRoomSubscription, then `go h.sendInitialSnapshot(client)`.
StartRoomSubscription(c) ==
    /\ Running
    /\ hub = [op |-> "subscribe", client |-> c]
    /\ IF subs[Room(c)] = NoClient
       THEN /\ subs' = [subs EXCEPT ![Room(c)] = c]
            /\ loop' = [loop EXCEPT ![c] = "subscribing"]
       ELSE UNCHANGED <<subs, loop>>
    /\ snapshotting' = snapshotting \cup {c}
    /\ hub' = Receiving
    /\ UNCHANGED <<messageChan, rooms, cancelled, stopping, inbox, sendVars, pumpVars, handling,
                   cleanups, reaperVars, roomState, sent, panic>>

AlwaysLast(c) == TRUE                               \* slip: len(roomClients) not tested
LastInRoom(c) == rooms[Room(c)] = {c}

KeepInMap(c) == UNCHANGED rooms                     \* slip: delete(roomClients, client) lost
DeleteFromMap(c) == rooms' = [rooms EXCEPT ![Room(c)] = @ \ {c}]

\* unregisterClient up to roomsMu.Unlock.  The select takes one buffered message
\* if there is one, and closes the channel only if there is none.
Unregister(c) ==
    /\ Running
    /\ hub = Receiving
    /\ messageChan # <<>> /\ Head1 = [type |-> "unregister", client |-> c]
    /\ Dequeue
    /\ IF c \in rooms[Room(c)]
       THEN /\ DeleteFromMap(c)
            /\ IF sendLen[c] > 0
               THEN sendLen' = [sendLen EXCEPT ![c] = @ - 1] /\ UNCHANGED sendClosed
               ELSE sendClosed' = sendClosed \cup {c} /\ UNCHANGED sendLen
            /\ hub' = IF LastInRoom(c) THEN [op |-> "unsubscribe", client |-> c] ELSE hub
       ELSE UNCHANGED <<rooms, sendVars, hub>>
    /\ UNCHANGED <<subVars, pumpVars, taskVars, reaperVars, roomState, sent, panic>>

\* slip: the loop is cancelled but its entry is left in the map
CancelSubscriptionOnly(r) ==
    /\ cancelled' = cancelled \cup ({subs[r]} \ {NoClient})
    /\ UNCHANGED subs
\* slip: the entry is deleted but its cancel function is never called
ForgetSubscription(r) ==
    /\ subs' = [subs EXCEPT ![r] = NoClient]
    /\ UNCHANGED cancelled
CancelSubscription(r) ==
    /\ cancelled' = cancelled \cup ({subs[r]} \ {NoClient})
    /\ subs' = [subs EXCEPT ![r] = NoClient]

\* stopRoomSubscription, then the goroutine that will call CleanupRoomState.
StopRoomSubscription(c) ==
    /\ Running
    /\ hub = [op |-> "unsubscribe", client |-> c]
    /\ CancelSubscription(Room(c))
    /\ cleanups' = [cleanups EXCEPT ![Room(c)] = @ + 1]
    /\ hub' = Receiving
    /\ UNCHANGED <<messageChan, rooms, loop, stopping, inbox, sendVars, pumpVars, snapshotting,
                   handling, reaperVars, roomState, sent, panic>>

\* The first thing App.Shutdown does; the event loop and the clients go on.
StopAllSubscriptions ==
    /\ Running
    /\ "shutdown" \in Faults /\ ~stopping
    /\ stopping' = TRUE
    /\ cancelled' = cancelled \cup ({subs[r] : r \in Rooms} \ {NoClient})
    /\ subs' = [r \in Rooms |-> NoClient]
    /\ UNCHANGED <<queueVars, rooms, loop, inbox, sendVars, pumpVars, taskVars, reaperVars,
                   roomState, sent, panic>>

\* case "action": go h.handleClientAction(msg)
SpawnHandler(c) ==
    /\ Running
    /\ hub = Receiving
    /\ messageChan # <<>> /\ Head1 = [type |-> "action", client |-> c]
    /\ Dequeue
    /\ handling' = [handling EXCEPT ![c] = @ + 1]
    /\ UNCHANGED <<hub, rooms, subVars, sendVars, pumpVars, snapshotting, cleanups,
                   reaperVars, roomState, sent, panic>>

HubStep ==
    \E c \in Clients : \/ Register(c) \/ StartRoomSubscription(c)
                       \/ Unregister(c) \/ StopRoomSubscription(c)
                       \/ SpawnHandler(c)

--------------------------------------------------------------------------------
(***************************************************************************)
(* The goroutines the loop started.                                        *)
(***************************************************************************)
\* Snapshot or error message, one is sent; the client may have left meanwhile.
SendInitialSnapshot(c) ==
    /\ Running
    /\ c \in snapshotting
    /\ snapshotting' = snapshotting \ {c}
    /\ Offer({c}, "snapshot")
    /\ UNCHANGED <<queueVars, rooms, subVars, sendClosed, pumpVars, handling, cleanups,
                   reaperVars, roomState, sent>>

\* ProcessIncomingAction wrote the room's state and published the action, so that every
\* loop listening on the room's channel has it in its inbox; a failed PUBLISH is only
\* logged.  What the call does step by step is the subject of ActionPipeline.
HandleAction(c) ==
    /\ Running
    /\ handling[c] > 0
    /\ handling' = [handling EXCEPT ![c] = @ - 1]
    /\ roomState' = roomState \cup {Room(c)}
    /\ \/ inbox' = [g \in Clients |->
                       IF loop[g] = "listening" /\ Room(g) = Room(c)
                       THEN Append(inbox[g], UserOf[c]) ELSE inbox[g]]
       \/ UNCHANGED inbox
    /\ UNCHANGED <<queueVars, rooms, subs, loop, cancelled, stopping, sendVars, pumpVars,
                   snapshotting, cleanups, reaperVars, sent, panic>>

\* ProcessIncomingAction failed, perhaps after it had written to Redis: an error message
\* goes to the sender.
RejectAction(c) ==
    /\ Running
    /\ handling[c] > 0
    /\ handling' = [handling EXCEPT ![c] = @ - 1]
    /\ roomState' \in {roomState, roomState \cup {Room(c)}}
    /\ Offer({c}, "handler")
    /\ UNCHANGED <<queueVars, rooms, subVars, sendClosed, pumpVars, snapshotting,
                   cleanups, reaperVars, sent>>

\* CleanupRoomState deletes the room's keys, or fails and is only logged.
CleanupRoomState(r) ==
    /\ Running
    /\ cleanups[r] > 0
    /\ cleanups' = [cleanups EXCEPT ![r] = @ - 1]
    /\ roomState' \in {roomState \ {r}, roomState}
    /\ UNCHANGED <<queueVars, rooms, subVars, sendVars, pumpVars, snapshotting, handling,
                   reaperVars, sent, panic>>

--------------------------------------------------------------------------------
(***************************************************************************)
(* roomSubscribeLoop.                                                      *)
(***************************************************************************)
\* Redis has the subscription: from here on the loop gets what is published.
Subscribed(g) ==
    /\ Running
    /\ loop[g] = "subscribing"
    /\ loop' = [loop EXCEPT ![g] = "listening"]
    /\ UNCHANGED <<queueVars, rooms, subs, cancelled, stopping, inbox, sendVars, pumpVars,
                   taskVars, reaperVars, roomState, sent, panic>>

\* Everyone in the room but the connections of the author, under roomsMu.RLock.
Receivers(g, author) == {c \in rooms[Room(g)] : UserOf[c] # author}

ForwardAction(g) ==
    /\ Running
    /\ loop[g] = "listening" /\ inbox[g] # <<>>
    /\ inbox' = [inbox EXCEPT ![g] = Tail(@)]
    /\ Offer(Receivers(g, Head(inbox[g])), "forward")
    /\ UNCHANGED <<queueVars, rooms, subs, loop, cancelled, stopping, sendClosed, pumpVars,
                   taskVars, reaperVars, roomState, sent>>

\* The context was cancelled, Receive failed, or Redis closed the channel.
LoopReturns(g) ==
    /\ Running
    /\ loop[g] \in {"subscribing", "listening"}
    /\ g \in cancelled \/ "redis" \in Faults
    /\ loop' = [loop EXCEPT ![g] = "leaving"]
    /\ inbox' = [inbox EXCEPT ![g] = <<>>]
    /\ UNCHANGED <<queueVars, rooms, subs, cancelled, stopping, sendVars, pumpVars, taskVars,
                   reaperVars, roomState, sent, panic>>

\* The last thing the goroutine does, whoever the room's entry belongs to by now.
LoopExits(g) ==
    /\ Running
    /\ loop[g] = "leaving"
    /\ loop' = [loop EXCEPT ![g] = "stopped"]
    /\ subs' = [subs EXCEPT ![Room(g)] = NoClient]
    /\ UNCHANGED <<queueVars, rooms, cancelled, stopping, inbox, sendVars, pumpVars, taskVars,
                   reaperVars, roomState, sent, panic>>

--------------------------------------------------------------------------------
(***************************************************************************)
(* performClientCleanup: copy the client list, ping every one, then queue  *)
(* an unregister for each that failed, dropped when the channel is full.   *)
(***************************************************************************)
Tick ==
    /\ Running
    /\ "tick" \in Faults
    /\ toPing = {} /\ toUnregister = {} /\ Members # {}
    /\ toPing' = Members
    /\ UNCHANGED <<queueVars, rooms, subVars, sendVars, pumpVars, taskVars, toUnregister,
                   roomState, sent, panic>>

IgnoreFailedPing(c) == UNCHANGED toUnregister       \* slip: the failure is only logged
MarkInactive(c) == toUnregister' = toUnregister \cup {c}

Ping(c) ==
    /\ Running
    /\ c \in toPing
    /\ toPing' = toPing \ {c}
    /\ \/ conn[c] # "closed" /\ UNCHANGED toUnregister
       \/ conn[c] # "up" /\ MarkInactive(c)
    /\ UNCHANGED <<queueVars, rooms, subVars, sendVars, pumpVars, taskVars, roomState,
                   sent, panic>>

QueueUnregister(c) ==
    /\ Running
    /\ toPing = {} /\ c \in toUnregister
    /\ toUnregister' = toUnregister \ {c}
    /\ IF ChannelFull THEN UNCHANGED messageChan ELSE Enqueue("unregister", c)
    /\ UNCHANGED <<hub, rooms, subVars, sendVars, pumpVars, taskVars, toPing, roomState,
                   sent, panic>>

--------------------------------------------------------------------------------
Connection(c) == \/ Connect(c) \/ Refuse(c) \/ LosePeer(c) \/ ReadAction(c)
                 \/ PeerEnds(c) \/ ReadFails(c) \/ LeaveReadPump(c)
                 \/ WriteMessage(c) \/ LeaveWritePump(c)
Goroutine(c)  == SendInitialSnapshot(c) \/ HandleAction(c) \/ RejectAction(c)
Subscriber(g) == Subscribed(g) \/ ForwardAction(g) \/ LoopReturns(g) \/ LoopExits(g)
Reaper        == Tick \/ \E c \in Clients : Ping(c) \/ QueueUnregister(c)

Next == \/ HubStep \/ StopAllSubscriptions
        \/ \E c \in Clients : Connection(c) \/ Goroutine(c) \/ Subscriber(c)
        \/ \E r \in Rooms : CleanupRoomState(r)
        \/ Reaper

Spec == Init /\ [][Next]_vars

\* The goroutines of the process are scheduled: the event loop, the reaper on its
\* ticker, and a connection's pumps once their socket or channel is dead.  Peers and
\* Redis owe nothing.
Fairness ==
    /\ WF_vars(HubStep)
    /\ WF_vars(Reaper)
    /\ \A c \in Clients : /\ WF_vars(ReadFails(c) \/ LeaveReadPump(c))
                          /\ WF_vars(LeaveWritePump(c))
FairSpec == Spec /\ Fairness

--------------------------------------------------------------------------------
(***************************************************************************)
(* Properties.                                                             *)
(***************************************************************************)
\* roomSubscribeLoop sends to Client.send under roomsMu, and unregisterClient closes it
\* only after taking the client out of the map under the same lock: broadcasting an
\* action never hits a closed channel, however leaving and broadcasting interleave.
BroadcastNeverPanics == panic # "forward"

\* The cancel function stored for a room belongs to a loop of that room which nobody
\* cancelled and which has not ended: "already subscribed" is never concluded from the
\* entry of a dead loop (startRoomSubscription returns early on it).
EntryIsLive ==
    \A r \in Rooms : subs[r] # NoClient =>
        /\ Room(subs[r]) = r
        /\ subs[r] \notin cancelled
        /\ loop[subs[r]] \in {"subscribing", "listening", "leaving"}

\* While clients are in a room and the event loop is not just about to subscribe, some
\* loop started for the room was never cancelled: leaving, rejoining and the late exit
\* of old loops never take the subscription away from the clients; only Redis and the
\* shutdown can.
OccupiedRoomSubscribed ==
    \A r \in Rooms :
        ~stopping /\ rooms[r] # {} /\ ~(hub.op = "subscribe" /\ Room(hub.client) = r)
            => \E g \in Clients : Room(g) = r /\ loop[g] # "none" /\ g \notin cancelled

\* registerClient and unregisterClient, which decide under one lock and act under another,
\* amount to one step each: whatever comes between, the room's subscription is what the
\* abstract hub of Subscriptions would make of it.  A client counts as registered once its
\* loop was started, where it is the first, and as unregistered once it was cancelled.
Came(c)  == readPump[c] \notin {"off", "refused"}
Taken(c) == /\ Came(c)
            /\ \A i \in 1 .. Len(messageChan) :
                   messageChan[i] # [type |-> "register", client |-> c]
Standing == [c \in Clients |->
    IF ~Taken(c) \/ hub = [op |-> "subscribe", client |-> c] THEN "away"
    ELSE IF c \in rooms[Room(c)] \/ hub = [op |-> "unsubscribe", client |-> c] THEN "in"
    ELSE "gone"]
Subscription == INSTANCE Subscriptions WITH
    Groups <- Rooms, GroupOf <- RoomOf, NoLoop <- NoClient,
    client <- Standing, entry <- subs, stopped <- IF stopping THEN Rooms ELSE {}
SubscriptionSpec == Subscription!Spec

\* The one way to a loop that nobody cancelled and nobody can (EmptyRoomUnsubscribed): an
\* older loop of the room ends late and its deferred delete, in that very step, takes the
\* entry of its successor.  Joining, leaving, the shutdown and Redis never do it.
StraysFollowExits == Subscription!StraysFollowExits

\* A connection whose ReadPump handed over its unregister message is still in the room
\* only while that message is in the channel: register and unregister are processed in
\* the order they were queued, so nobody is registered after having left.
NoGhosts ==
    \A c \in Members : readPump[c] = "done" =>
        \E i \in 1 .. Len(messageChan) :
            messageChan[i] = [type |-> "unregister", client |-> c]

\* A step that cancels a room's subscription finds the room empty: no step of
\* registerClient comes between the emptiness test and the cancellation.  Only the one call
\* of StopAllSubscriptions does not look.
CancelOnlyWhenEmpty ==
    [][stopping' = stopping =>
           \A g \in Clients : g \in cancelled' \ cancelled => rooms[Room(g)] = {}]_vars

\* A connection whose ReadPump ended, even one whose unregister message timed out on a
\* full channel, is eventually out of its room: the reaper finds it.
GhostsReaped ==
    \A c \in Clients : readPump[c] \in {"done", "timedout"}
                           ~> (c \notin Members \/ panic # "none")

\* The pumps end together, whichever ends first, even when unregisterClient took a
\* buffered message instead of closing the channel: no goroutine is left behind.
PumpsEndTogether ==
    \A c \in Clients :
        /\ readPump[c] \in {"done", "timedout"} ~> (writePump[c] = "done" \/ panic # "none")
        /\ writePump[c] = "done"
               ~> (readPump[c] \in {"done", "timedout"} \/ panic # "none")

--------------------------------------------------------------------------------
(***************************************************************************)
(* What comments of the code say, and the code does not do.                *)
(***************************************************************************)
\* hub.go:392-397, 416-422, 450-455: a send that cannot be made is logged and the
\* message dropped, because the client may already be gone.
SendIsSafe == panic = "none"

\* hub.go:245: "if the room is empty, stop the room's subscription".
EmptyRoomUnsubscribed ==
    \A r \in Rooms :
        rooms[r] = {} /\ hub = Receiving
            => \A g \in Clients : Room(g) = r /\ loop[g] \in {"subscribing", "listening"}
                                      => g \in cancelled

\* hub.go:252: "if the room is empty, clean up its Redis state".
OnlyEmptyRoomsCleaned ==
    [][\A r \in Rooms : r \in roomState \ roomState' => rooms[r] = {}]_vars
================================================================================
