------------------------------- MODULE Hub_proofs -------------------------------
(***************************************************************************)
(* The safety of the hub, for any number of connections, rooms, users and  *)
(* any capacity of the channels.                                           *)
(***************************************************************************)
EXTENDS Hub, SequenceTheorems, TLAPS

USE RoomOfAssumption, UserOfAssumption, CapAssumption, BoundAssumption,
    NoClientAssumption, FaultsAssumption

Reg(c)   == [type |-> "register", client |-> c]
Unreg(c) == [type |-> "unregister", client |-> c]

--------------------------------------------------------------------------------
(***************************************************************************)
(* The channel of the hub.                                                 *)
(***************************************************************************)
\* Enqueue appends one message, within the capacity when the channel is not full.
LEMMA EnqueueAppends ==
    ASSUME TypeOK, ~ChannelFull, NEW c \in Clients,
           NEW type \in {"register", "unregister", "action"}, Enqueue(type, c)
    PROVE  /\ messageChan' \in Seq(Message)
           /\ Len(messageChan) \in Nat
           /\ Len(messageChan') = Len(messageChan) + 1
           /\ Len(messageChan') <= ChanCap
           /\ \A i \in 1 .. Len(messageChan) : messageChan'[i] = messageChan[i]
           /\ messageChan'[Len(messageChan) + 1] = [type |-> type, client |-> c]
<1>1. [type |-> type, client |-> c] \in Message
  BY DEF Message
<1> QED BY <1>1 DEF TypeOK, ChannelFull, Enqueue

\* Dequeue takes the first message and moves the others up.
LEMMA DequeueShifts ==
    ASSUME TypeOK, messageChan # <<>>, Dequeue
    PROVE  /\ messageChan' \in Seq(Message)
           /\ Len(messageChan) \in Nat
           /\ Len(messageChan') = Len(messageChan) - 1
           /\ Len(messageChan') <= ChanCap
           /\ 1 \in 1 .. Len(messageChan) /\ Head1 = messageChan[1]
           /\ \A i \in 1 .. Len(messageChan') : /\ i + 1 \in 1 .. Len(messageChan)
                                                /\ messageChan'[i] = messageChan[i + 1]
  BY DEF TypeOK, Dequeue, Head1

\* A send to clients keeps the buffers within their capacity.
LEMMA OfferType ==
    ASSUME TypeOK, NEW T, NEW who \in {"forward", "snapshot", "handler"}, Offer(T, who)
    PROVE  /\ sendLen' \in [Clients -> 0 .. SendCap]
           /\ panic' \in {"none", "forward", "snapshot", "handler"}
<1>1. CASE T \cap sendClosed # {}
  BY <1>1 DEF TypeOK, Offer
<1>2. CASE T \cap sendClosed = {}
  <2>1. \A c \in Clients : (IF c \in T /\ sendLen[c] < SendCap
                           THEN sendLen[c] + 1 ELSE sendLen[c]) \in 0 .. SendCap
    BY DEF TypeOK
  <2>2. /\ sendLen' = [c \in Clients |-> IF c \in T /\ sendLen[c] < SendCap
                                         THEN sendLen[c] + 1 ELSE sendLen[c]]
        /\ panic' = panic
    BY <1>2 DEF Offer
  <2>3. sendLen' \in [Clients -> 0 .. SendCap]
    BY <2>1, <2>2
  <2> QED BY <2>2, <2>3 DEF TypeOK
<1> QED BY <1>1, <1>2

--------------------------------------------------------------------------------
(***************************************************************************)
(* Types.                                                                  *)
(***************************************************************************)
LEMMA InitType == Init => TypeOK
<1> SUFFICES ASSUME Init PROVE TypeOK
  OBVIOUS
<1>1. messageChan \in Seq(Message) /\ Len(messageChan) <= ChanCap
  BY DEF Init
<1>2. inbox \in [Clients -> Seq(Users)]
  BY DEF Init
<1>3. hub \in HubState /\ stopping \in BOOLEAN
  BY DEF Init, HubState, Receiving
<1> QED BY <1>1, <1>2, <1>3 DEF Init, TypeOK

LEMMA ConnectionType == ASSUME TypeOK, NEW c \in Clients, Connection(c) PROVE TypeOK'
<1> USE DEF TypeOK, subVars, sendVars, taskVars, reaperVars, queueVars, pumpVars
<1>1. CASE Connect(c)
  BY <1>1, EnqueueAppends DEF Connect
<1>2. CASE Refuse(c)
  BY <1>2 DEF Refuse, CloseConn
<1>3. CASE LosePeer(c)
  BY <1>3 DEF LosePeer
<1>4. CASE ReadAction(c)
  <2>1. messageChan' \in Seq(Message) /\ Len(messageChan') <= ChanCap
    BY <1>4, EnqueueAppends DEF ReadAction
  <2>2. sent' \in 0 .. MaxActions
    BY <1>4 DEF ReadAction
  <2> QED BY <1>4, <2>1, <2>2 DEF ReadAction
<1>5. CASE PeerEnds(c)
  BY <1>5 DEF PeerEnds
<1>6. CASE ReadFails(c)
  BY <1>6 DEF ReadFails
<1>7. CASE LeaveReadPump(c)
  <2>1. messageChan' \in Seq(Message) /\ Len(messageChan') <= ChanCap
    BY <1>7, EnqueueAppends DEF LeaveReadPump
  <2>2. readPump' = [readPump EXCEPT ![c] = "done"]
          \/ readPump' = [readPump EXCEPT ![c] = "timedout"]
    BY <1>7 DEF LeaveReadPump
  <2>3. /\ conn' = [conn EXCEPT ![c] = "closed"]
        /\ UNCHANGED <<hub, rooms, subVars, sendVars, writePump, taskVars, reaperVars,
                       roomState, sent, panic>>
    BY <1>7 DEF LeaveReadPump, CloseConn
  <2> QED BY <2>1, <2>2, <2>3
<1>8. CASE WriteMessage(c)
  BY <1>8 DEF WriteMessage
<1>9. CASE LeaveWritePump(c)
  BY <1>9 DEF LeaveWritePump, CloseConn
<1> QED BY <1>1, <1>2, <1>3, <1>4, <1>5, <1>6, <1>7, <1>8, <1>9 DEF Connection

LEMMA HubStepType == ASSUME TypeOK, HubStep PROVE TypeOK'
<1> USE DEF TypeOK, subVars, sendVars, taskVars, reaperVars, queueVars, pumpVars,
            HubState, Receiving, Room
<1> PICK c \in Clients : \/ Register(c) \/ StartRoomSubscription(c) \/ Unregister(c)
                         \/ StopRoomSubscription(c) \/ SpawnHandler(c)
  BY DEF HubStep
<1>1. CASE Register(c)
  <2>1. messageChan' \in Seq(Message) /\ Len(messageChan') <= ChanCap
    BY <1>1, DequeueShifts DEF Register
  <2>2. rooms' = [rooms EXCEPT ![RoomOf[c]] = rooms[RoomOf[c]] \cup {c}]
    BY <1>1 DEF Register
  <2>3. rooms' \in [Rooms -> SUBSET Clients]
    BY <2>2
  <2>4. \A r \in Rooms : \A d \in rooms'[r] : RoomOf[d] = r
    BY <2>2
  <2>5. hub' \in HubState /\ snapshotting' \in SUBSET Clients
    BY <1>1 DEF Register
  <2>6. UNCHANGED <<subVars, sendVars, pumpVars, handling, cleanups, reaperVars, roomState,
                    sent, panic>>
    BY <1>1 DEF Register
  <2> QED BY <2>1, <2>3, <2>4, <2>5, <2>6
<1>2. CASE StartRoomSubscription(c)
  <2>1. subs' \in [Rooms -> Clients \cup {NoClient}]
    BY <1>2 DEF StartRoomSubscription
  <2>2. loop' \in [Clients -> {"none", "subscribing", "listening", "leaving", "stopped"}]
    <3>1. loop' = loop \/ loop' = [loop EXCEPT ![c] = "subscribing"]
      BY <1>2 DEF StartRoomSubscription
    <3> QED BY <3>1
  <2>3. hub' \in HubState /\ snapshotting' \in SUBSET Clients
    BY <1>2 DEF StartRoomSubscription
  <2>4. UNCHANGED <<messageChan, rooms, cancelled, stopping, inbox, sendVars, pumpVars, handling,
                    cleanups, reaperVars, roomState, sent, panic>>
    BY <1>2 DEF StartRoomSubscription
  <2> QED BY <2>1, <2>2, <2>3, <2>4
<1>3. CASE Unregister(c)
  <2>1. messageChan' \in Seq(Message) /\ Len(messageChan') <= ChanCap
    BY <1>3, DequeueShifts DEF Unregister
  <2>2. /\ rooms' \in [Rooms -> SUBSET Clients]
        /\ \A r \in Rooms : \A d \in rooms'[r] : RoomOf[d] = r
    <3>1. CASE c \in rooms[RoomOf[c]]
      <4>1. rooms' = [rooms EXCEPT ![RoomOf[c]] = rooms[RoomOf[c]] \ {c}]
        BY <1>3, <3>1 DEF Unregister, DeleteFromMap
      <4>2. rooms[RoomOf[c]] \ {c} \in SUBSET Clients
        OBVIOUS
      <4>3. rooms' \in [Rooms -> SUBSET Clients]
        BY <4>1, <4>2
      <4>4. \A r \in Rooms : rooms'[r] \subseteq rooms[r]
        BY <4>1
      <4> QED BY <4>3, <4>4
    <3>2. CASE c \notin rooms[RoomOf[c]]
      BY <1>3, <3>2 DEF Unregister
    <3> QED BY <3>1, <3>2
  <2>3. sendLen' \in [Clients -> 0 .. SendCap] /\ sendClosed' \in SUBSET Clients
    <3>1. CASE sendLen[c] > 0
      BY <1>3, <3>1 DEF Unregister
    <3>2. CASE ~(sendLen[c] > 0)
      BY <1>3, <3>2 DEF Unregister
    <3> QED BY <3>1, <3>2
  <2>4. hub' = hub \/ hub' = [op |-> "unsubscribe", client |-> c]
    BY <1>3 DEF Unregister
  <2>5. UNCHANGED <<subVars, pumpVars, taskVars, reaperVars, roomState, sent, panic>>
    BY <1>3 DEF Unregister
  <2>6. hub' \in HubState
    BY <2>4
  <2> QED BY <2>1, <2>2, <2>3, <2>5, <2>6
<1>4. CASE StopRoomSubscription(c)
  BY <1>4 DEF StopRoomSubscription, CancelSubscription
<1>5. CASE SpawnHandler(c)
  <2>1. messageChan' \in Seq(Message) /\ Len(messageChan') <= ChanCap
    BY <1>5, DequeueShifts DEF SpawnHandler
  <2>2. handling' \in [Clients -> Nat]
    BY <1>5 DEF SpawnHandler
  <2> QED BY <1>5, <2>1, <2>2 DEF SpawnHandler
<1> QED BY <1>1, <1>2, <1>3, <1>4, <1>5

LEMMA GoroutineType == ASSUME TypeOK, NEW c \in Clients, Goroutine(c) PROVE TypeOK'
<1> USE DEF TypeOK, subVars, sendVars, taskVars, reaperVars, queueVars, pumpVars, Room
<1>1. CASE SendInitialSnapshot(c)
  BY <1>1, OfferType DEF SendInitialSnapshot
<1>2. CASE HandleAction(c)
  <2>1. handling' \in [Clients -> Nat]
    BY <1>2 DEF HandleAction
  <2>2. inbox' \in [Clients -> Seq(Users)]
    <3>1. UserOf[c] \in Users
      OBVIOUS
    <3>2. CASE inbox' = [g \in Clients |->
                            IF loop[g] = "listening" /\ RoomOf[g] = RoomOf[c]
                            THEN Append(inbox[g], UserOf[c]) ELSE inbox[g]]
      BY <3>1, <3>2
    <3> QED BY <1>2, <3>2 DEF HandleAction
  <2> QED BY <1>2, <2>1, <2>2 DEF HandleAction
<1>3. CASE RejectAction(c)
  <2>1. handling' \in [Clients -> Nat]
    BY <1>3 DEF RejectAction
  <2>2. roomState' \in SUBSET Rooms
    BY <1>3 DEF RejectAction
  <2> QED BY <1>3, <2>1, <2>2, OfferType DEF RejectAction
<1> QED BY <1>1, <1>2, <1>3 DEF Goroutine

LEMMA SubscriberType == ASSUME TypeOK, NEW g \in Clients, Subscriber(g) PROVE TypeOK'
<1> USE DEF TypeOK, subVars, sendVars, taskVars, reaperVars, queueVars, pumpVars, Room
<1>1. CASE Subscribed(g)
  BY <1>1 DEF Subscribed
<1>2. CASE ForwardAction(g)
  <2>1. inbox' \in [Clients -> Seq(Users)]
    BY <1>2 DEF ForwardAction
  <2>2. /\ sendLen' \in [Clients -> 0 .. SendCap]
        /\ panic' \in {"none", "forward", "snapshot", "handler"}
    BY <1>2, OfferType DEF ForwardAction
  <2> QED BY <1>2, <2>1, <2>2 DEF ForwardAction
<1>3. CASE LoopReturns(g)
  BY <1>3 DEF LoopReturns
<1>4. CASE LoopExits(g)
  BY <1>4 DEF LoopExits
<1> QED BY <1>1, <1>2, <1>3, <1>4 DEF Subscriber

LEMMA ReaperType == ASSUME TypeOK, Reaper PROVE TypeOK'
<1> USE DEF TypeOK, subVars, sendVars, taskVars, reaperVars, queueVars, pumpVars
<1>1. CASE Tick
  BY <1>1 DEF Tick, Members
<1>2. ASSUME NEW c \in Clients, Ping(c) PROVE TypeOK'
  BY <1>2 DEF Ping, MarkInactive
<1>3. ASSUME NEW c \in Clients, QueueUnregister(c) PROVE TypeOK'
  BY <1>3, EnqueueAppends DEF QueueUnregister
<1> QED BY <1>1, <1>2, <1>3 DEF Reaper

LEMMA CleanupType == ASSUME TypeOK, NEW r \in Rooms, CleanupRoomState(r) PROVE TypeOK'
  BY DEF CleanupRoomState, TypeOK, subVars, sendVars, taskVars, reaperVars, queueVars,
         pumpVars

LEMMA StopAllType == ASSUME TypeOK, StopAllSubscriptions PROVE TypeOK'
<1> USE DEF TypeOK, subVars, sendVars, taskVars, reaperVars, queueVars, pumpVars
<1>1. /\ subs' \in [Rooms -> Clients \cup {NoClient}]
      /\ cancelled' \in SUBSET Clients
      /\ stopping' \in BOOLEAN
  BY DEF StopAllSubscriptions
<1>2. UNCHANGED <<queueVars, rooms, loop, inbox, sendVars, pumpVars, taskVars, reaperVars,
                  roomState, sent, panic>>
  BY DEF StopAllSubscriptions
<1> QED BY <1>1, <1>2

LEMMA TypeOKNext == TypeOK /\ [Next]_vars => TypeOK'
<1> SUFFICES ASSUME TypeOK, [Next]_vars PROVE TypeOK'
  OBVIOUS
<1>1. CASE UNCHANGED vars
  BY <1>1 DEF TypeOK, vars, subVars, sendVars, taskVars, reaperVars, queueVars, pumpVars
<1> QED BY <1>1, ConnectionType, HubStepType, GoroutineType, SubscriberType, ReaperType,
           CleanupType, StopAllType DEF Next

\* The variables keep their types and the channels their capacities.
THEOREM TypeCorrect == Spec => []TypeOK
  BY InitType, TypeOKNext, PTL DEF Spec

--------------------------------------------------------------------------------
(***************************************************************************)
(* Who joins, leaves and is closed.  A registration is queued at most once *)
(* and is followed by the client's unregistration once its ReadPump is     *)
(* done; whoever is registered, or about to be, is not closed.             *)
(***************************************************************************)
Joined(c) == c \in rooms[Room(c)]

Positions == 1 .. Len(messageChan)

RegisteredOnce ==
    \A i, j \in Positions, c \in Clients :
        messageChan[i] = Reg(c) /\ messageChan[j] = Reg(c) => i = j
ComesOnlyOnce ==
    /\ \A c \in Clients : ~Came(c) => ~Joined(c) /\ c \notin sendClosed
    /\ \A i \in Positions, c \in Clients :
           messageChan[i] = Reg(c) => Came(c) /\ ~Joined(c) /\ c \notin sendClosed
    /\ \A c \in Clients : Joined(c) => c \notin sendClosed
LeavesAfterJoining ==
    \A c \in Clients : readPump[c] = "done" =>
        /\ \A i \in Positions : messageChan[i] = Reg(c) =>
              \E j \in Positions : i < j /\ messageChan[j] = Unreg(c)
        /\ Joined(c) => \E j \in Positions : messageChan[j] = Unreg(c)

JoinInv == RegisteredOnce /\ ComesOnlyOnce /\ LeavesAfterJoining

LEMMA MessagesDiffer ==
    /\ \A c, d \in Clients : Reg(c) = Reg(d) => c = d
    /\ \A c, d \in Clients : Unreg(c) = Unreg(d) => c = d
    /\ \A c, d \in Clients : Reg(c) # Unreg(d)
<1>1. \A c \in Clients : Reg(c).client = c /\ Unreg(c).client = c
                         /\ Reg(c).type = "register" /\ Unreg(c).type = "unregister"
  BY DEF Reg, Unreg
<1> QED BY <1>1

\* Steps that change neither the channel nor who is registered or closed.
LEMMA JoinKept ==
    ASSUME TypeOK, JoinInv, UNCHANGED <<messageChan, rooms, sendClosed>>,
           \A c \in Clients : /\ Came(c) => Came(c)'
                              /\ readPump'[c] = "done" => readPump[c] = "done"
    PROVE  JoinInv'
  BY DEF JoinInv, RegisteredOnce, ComesOnlyOnce, LeavesAfterJoining, Joined, Positions

\* Steps that append a message other than a registration.
LEMMA JoinAppended ==
    ASSUME TypeOK, JoinInv, ~ChannelFull, NEW c \in Clients,
           NEW type \in {"unregister", "action"}, Enqueue(type, c),
           UNCHANGED <<rooms, sendClosed>>,
           \A d \in Clients : Came(d) => Came(d)',
           \A d \in Clients : readPump'[d] = "done" =>
                                readPump[d] = "done" \/ (d = c /\ type = "unregister")
    PROVE  JoinInv'
<1> DEFINE m == [type |-> type, client |-> c]
           n == Len(messageChan) + 1
<1>1. /\ n \in Positions' /\ Positions' = 1 .. n /\ messageChan'[n] = m
      /\ \A i \in Positions : i \in Positions' /\ i < n /\ messageChan'[i] = messageChan[i]
  <2>1. type \in {"register", "unregister", "action"}
    OBVIOUS
  <2>2. /\ Len(messageChan) \in Nat /\ Len(messageChan') = n /\ messageChan'[n] = m
        /\ \A i \in 1 .. Len(messageChan) : messageChan'[i] = messageChan[i]
    BY <2>1, EnqueueAppends
  <2> QED BY <2>2 DEF Positions
<1>2. \A d \in Clients : Reg(d) # m
  <2>1. \A d \in Clients : Reg(d).type = "register" /\ m.type = type
    BY DEF Reg
  <2> QED BY <2>1
<1>3. \A i \in Positions' : i \in Positions \/ i = n
  BY <1>1 DEF TypeOK, Positions
<1> HIDE DEF m, n
<1>4. \A i \in Positions', d \in Clients :
          messageChan'[i] = Reg(d) => i \in Positions /\ messageChan[i] = Reg(d)
  BY <1>1, <1>2, <1>3
<1>5. RegisteredOnce'
  BY <1>4 DEF JoinInv, RegisteredOnce
<1>6. ComesOnlyOnce'
  BY <1>4 DEF JoinInv, ComesOnlyOnce, Joined
<1>7. LeavesAfterJoining'
  <2> SUFFICES ASSUME NEW d \in Clients, readPump'[d] = "done"
               PROVE  /\ \A i \in Positions' : messageChan'[i] = Reg(d) =>
                            \E j \in Positions' : i < j /\ messageChan'[j] = Unreg(d)
                      /\ Joined(d)' => \E j \in Positions' : messageChan'[j] = Unreg(d)
    BY DEF LeavesAfterJoining
  <2>1. CASE d = c /\ type = "unregister"
    <3>1. messageChan'[n] = Unreg(d) /\ n \in Positions'
      BY <1>1, <2>1 DEF Unreg, m
    <3> QED BY <1>1, <1>4, <3>1
  <2>2. CASE readPump[d] = "done"
    BY <1>1, <1>4, <2>2 DEF JoinInv, LeavesAfterJoining, Joined
  <2> QED BY <2>1, <2>2
<1> QED BY <1>5, <1>6, <1>7 DEF JoinInv

\* A first registration: the client was never heard of.
LEMMA JoinConnected == ASSUME TypeOK, JoinInv, NEW c \in Clients, Connect(c) PROVE JoinInv'
<1> DEFINE n == Len(messageChan) + 1
<1>1. /\ n \in Positions' /\ Positions' = 1 .. n /\ messageChan'[n] = Reg(c)
      /\ \A i \in Positions : i \in Positions' /\ i < n /\ messageChan'[i] = messageChan[i]
  <2>1. /\ Len(messageChan) \in Nat /\ Len(messageChan') = n /\ messageChan'[n] = Reg(c)
        /\ \A i \in 1 .. Len(messageChan) : messageChan'[i] = messageChan[i]
    BY EnqueueAppends DEF Connect, Reg
  <2> QED BY <2>1 DEF Positions
<1>2. \A i \in Positions' : i \in Positions \/ i = n
  BY <1>1 DEF TypeOK, Positions
<1> HIDE DEF n
<1>3. /\ UNCHANGED <<rooms, sendClosed>>
      /\ readPump[c] = "off" /\ ~Came(c) /\ readPump'[c] = "reading"
      /\ \A d \in Clients \ {c} : readPump'[d] = readPump[d]
  BY DEF Connect, Came, TypeOK, sendVars
<1>4. \A i \in Positions : messageChan[i] # Reg(c)
  BY <1>3 DEF JoinInv, ComesOnlyOnce
<1>5. ASSUME NEW i \in Positions', NEW d \in Clients, messageChan'[i] = Reg(d)
      PROVE  \/ i = n /\ d = c
             \/ d # c /\ i \in Positions /\ messageChan[i] = Reg(d)
  <2>1. CASE i = n
    <3>1. Reg(d) = Reg(c)
      BY <1>1, <1>5, <2>1
    <3> QED BY <2>1, <3>1, MessagesDiffer
  <2>2. CASE i \in Positions
    BY <1>1, <1>4, <1>5, <2>2
  <2> QED BY <1>2, <2>1, <2>2
<1>6. RegisteredOnce'
  BY <1>5 DEF JoinInv, RegisteredOnce
<1>7. ComesOnlyOnce'
  BY <1>3, <1>5 DEF JoinInv, ComesOnlyOnce, Joined, Came
<1>8. LeavesAfterJoining'
  BY <1>1, <1>3, <1>5 DEF JoinInv, LeavesAfterJoining, Joined
<1> QED BY <1>6, <1>7, <1>8 DEF JoinInv

LEMMA DequeuedPositions ==
    ASSUME TypeOK, messageChan # <<>>, Dequeue
    PROVE  /\ 1 \in Positions /\ Head1 = messageChan[1]
           /\ \A i \in Positions' : i + 1 \in Positions
                                    /\ messageChan'[i] = messageChan[i + 1]
           /\ \A j \in Positions : j > 1 => \E k \in Positions' :
                                               k + 1 = j /\ messageChan'[k] = messageChan[j]
<1>1. ASSUME NEW j \in Positions, j > 1
      PROVE  /\ j - 1 \in Positions' /\ (j - 1) + 1 = j
             /\ messageChan'[j - 1] = messageChan[j]
  BY <1>1, DequeueShifts DEF Positions
<1>2. \A i \in Positions' : i + 1 \in Positions /\ messageChan'[i] = messageChan[i + 1]
  BY DequeueShifts DEF Positions
<1> QED BY <1>1, <1>2, DequeueShifts DEF Positions

\* Taking the first message, when it registers nobody and changes no room.
LEMMA JoinDequeued ==
    ASSUME TypeOK, JoinInv, messageChan # <<>>, Dequeue,
           UNCHANGED <<sendClosed, readPump, rooms>>,
           \A c \in Clients : Head1 = Unreg(c) => ~Joined(c)
    PROVE  JoinInv'
<1>1. /\ 1 \in Positions /\ Head1 = messageChan[1]
      /\ \A i \in Positions' : i + 1 \in Positions /\ messageChan'[i] = messageChan[i + 1]
  BY DequeuedPositions
<1>2. \A j \in Positions : j > 1 => \E k \in Positions' :
                                      k + 1 = j /\ messageChan'[k] = messageChan[j]
  BY DequeuedPositions
<1>3. Positions \subseteq Nat /\ Positions' \subseteq Nat
  BY DEF Positions
<1>4. RegisteredOnce'
  BY <1>1, <1>3 DEF JoinInv, RegisteredOnce
<1>5. ComesOnlyOnce'
  BY <1>1 DEF JoinInv, ComesOnlyOnce, Joined, Came
<1>6. LeavesAfterJoining'
  <2> SUFFICES ASSUME NEW c \in Clients, readPump[c] = "done"
               PROVE  /\ \A i \in Positions' : messageChan'[i] = Reg(c) =>
                            \E j \in Positions' : i < j /\ messageChan'[j] = Unreg(c)
                      /\ Joined(c) => \E j \in Positions' : messageChan'[j] = Unreg(c)
    BY DEF LeavesAfterJoining, Joined
  <2>1. ASSUME NEW i \in Positions', messageChan'[i] = Reg(c)
        PROVE  \E j \in Positions' : i < j /\ messageChan'[j] = Unreg(c)
    <3>1. PICK j \in Positions : i + 1 < j /\ messageChan[j] = Unreg(c)
      BY <1>1, <2>1 DEF JoinInv, LeavesAfterJoining
    <3> QED BY <1>2, <1>3, <3>1
  <2>2. ASSUME Joined(c) PROVE \E j \in Positions' : messageChan'[j] = Unreg(c)
    <3>1. PICK j \in Positions : messageChan[j] = Unreg(c)
      BY <2>2 DEF JoinInv, LeavesAfterJoining
    <3>2. j # 1
      BY <1>1, <2>2, <3>1
    <3> QED BY <1>2, <1>3, <3>1, <3>2 DEF Positions
  <2> QED BY <2>1, <2>2
<1> QED BY <1>4, <1>5, <1>6 DEF JoinInv

\* registerClient: the registration was the only one, so the client is in the room from
\* here on, is not closed, and its unregistration, if there is one, is still queued.
LEMMA JoinRegistered == ASSUME TypeOK, JoinInv, NEW c \in Clients, Register(c) PROVE JoinInv'
<1>1. /\ 1 \in Positions /\ messageChan[1] = Reg(c)
      /\ \A i \in Positions' : i + 1 \in Positions /\ messageChan'[i] = messageChan[i + 1]
      /\ \A j \in Positions : j > 1 => \E k \in Positions' :
                                          k + 1 = j /\ messageChan'[k] = messageChan[j]
  BY DequeuedPositions DEF Register, Reg
<1>2. Positions \subseteq Nat /\ Positions' \subseteq Nat
  BY DEF Positions
<1>3. /\ UNCHANGED <<sendClosed, readPump>>
      /\ Joined(c)'
      /\ \A d \in Clients \ {c} : Joined(d)' = Joined(d)
  BY DEF Register, Joined, TypeOK, Room, sendVars, pumpVars
<1>4. /\ Came(c) /\ c \notin sendClosed
      /\ \A i \in Positions' : messageChan'[i] # Reg(c)
  <2>1. Came(c) /\ c \notin sendClosed
    BY <1>1 DEF JoinInv, ComesOnlyOnce
  <2>2. ASSUME NEW i \in Positions', messageChan'[i] = Reg(c) PROVE FALSE
    <3>1. i + 1 \in Positions /\ messageChan[i + 1] = Reg(c)
      BY <1>1, <2>2
    <3>2. i + 1 = 1
      BY <1>1, <3>1 DEF JoinInv, RegisteredOnce
    <3> QED BY <3>2 DEF Positions
  <2> QED BY <2>1, <2>2
<1>5. RegisteredOnce'
  BY <1>1, <1>2 DEF JoinInv, RegisteredOnce
<1>6. ComesOnlyOnce'
  BY <1>1, <1>3, <1>4 DEF JoinInv, ComesOnlyOnce, Came
<1>7. LeavesAfterJoining'
  <2> SUFFICES ASSUME NEW d \in Clients, readPump[d] = "done"
               PROVE  /\ \A i \in Positions' : messageChan'[i] = Reg(d) =>
                            \E j \in Positions' : i < j /\ messageChan'[j] = Unreg(d)
                      /\ Joined(d)' => \E j \in Positions' : messageChan'[j] = Unreg(d)
    BY <1>3 DEF LeavesAfterJoining
  <2>1. ASSUME NEW i \in Positions', messageChan'[i] = Reg(d)
        PROVE  \E j \in Positions' : i < j /\ messageChan'[j] = Unreg(d)
    <3>1. PICK j \in Positions : i + 1 < j /\ messageChan[j] = Unreg(d)
      BY <1>1, <2>1 DEF JoinInv, LeavesAfterJoining
    <3> QED BY <1>1, <1>2, <3>1
  <2>2. ASSUME Joined(d)' PROVE \E j \in Positions' : messageChan'[j] = Unreg(d)
    <3>1. PICK j \in Positions : messageChan[j] = Unreg(d)
      BY <1>1, <1>3, <2>2 DEF JoinInv, LeavesAfterJoining
    <3>2. j # 1
      BY <1>1, <3>1, MessagesDiffer
    <3> QED BY <1>1, <1>2, <3>1, <3>2 DEF Positions
  <2> QED BY <2>1, <2>2
<1> QED BY <1>5, <1>6, <1>7 DEF JoinInv

\* unregisterClient: whoever is closed was in the room and is taken out of it.
LEMMA JoinUnregistered ==
    ASSUME TypeOK, JoinInv, NEW c \in Clients, Unregister(c) PROVE JoinInv'
<1>1. /\ 1 \in Positions /\ messageChan[1] = Unreg(c)
      /\ \A i \in Positions' : i + 1 \in Positions /\ messageChan'[i] = messageChan[i + 1]
      /\ \A j \in Positions : j > 1 => \E k \in Positions' :
                                          k + 1 = j /\ messageChan'[k] = messageChan[j]
  BY DequeuedPositions DEF Unregister, Unreg
<1>2. Positions \subseteq Nat /\ Positions' \subseteq Nat
  BY DEF Positions
<1>3. /\ UNCHANGED readPump
      /\ ~Joined(c)'
      /\ \A d \in Clients \ {c} : Joined(d)' = Joined(d)
  <2>1. CASE c \in rooms[Room(c)]
    <3>1. rooms' = [rooms EXCEPT ![Room(c)] = rooms[Room(c)] \ {c}] /\ UNCHANGED readPump
      BY <2>1 DEF Unregister, DeleteFromMap, pumpVars
    <3> QED BY <3>1 DEF Joined, TypeOK, Room
  <2>2. CASE c \notin rooms[Room(c)]
    BY <2>2 DEF Unregister, Joined, TypeOK, Room, pumpVars
  <2> QED BY <2>1, <2>2
<1>4. \A d \in Clients : d \in sendClosed' => d \in sendClosed \/ (d = c /\ Joined(c))
  <2>1. CASE c \in rooms[Room(c)]
    <3>1. sendClosed' = sendClosed \/ sendClosed' = sendClosed \cup {c}
      BY <2>1 DEF Unregister
    <3> QED BY <2>1, <3>1 DEF Joined
  <2>2. CASE c \notin rooms[Room(c)]
    BY <2>2 DEF Unregister, sendVars
  <2> QED BY <2>1, <2>2
<1>5. Joined(c) => Came(c) /\ \A i \in Positions : messageChan[i] # Reg(c)
  BY DEF JoinInv, ComesOnlyOnce
<1>6. RegisteredOnce'
  BY <1>1, <1>2 DEF JoinInv, RegisteredOnce
<1>7. ComesOnlyOnce'
  BY <1>1, <1>3, <1>4, <1>5 DEF JoinInv, ComesOnlyOnce, Came
<1>8. LeavesAfterJoining'
  <2> SUFFICES ASSUME NEW d \in Clients, readPump[d] = "done"
               PROVE  /\ \A i \in Positions' : messageChan'[i] = Reg(d) =>
                            \E j \in Positions' : i < j /\ messageChan'[j] = Unreg(d)
                      /\ Joined(d)' => \E j \in Positions' : messageChan'[j] = Unreg(d)
    BY <1>3 DEF LeavesAfterJoining
  <2>1. ASSUME NEW i \in Positions', messageChan'[i] = Reg(d)
        PROVE  \E j \in Positions' : i < j /\ messageChan'[j] = Unreg(d)
    <3>1. PICK j \in Positions : i + 1 < j /\ messageChan[j] = Unreg(d)
      BY <1>1, <2>1 DEF JoinInv, LeavesAfterJoining
    <3> QED BY <1>1, <1>2, <3>1
  <2>2. ASSUME Joined(d)' PROVE \E j \in Positions' : messageChan'[j] = Unreg(d)
    <3>1. d # c /\ Joined(d)
      BY <1>3, <2>2
    <3>2. PICK j \in Positions : messageChan[j] = Unreg(d)
      BY <3>1 DEF JoinInv, LeavesAfterJoining
    <3>3. j # 1
      BY <1>1, <3>1, <3>2, MessagesDiffer
    <3> QED BY <1>1, <1>2, <3>2, <3>3 DEF Positions
  <2> QED BY <2>1, <2>2
<1> QED BY <1>6, <1>7, <1>8 DEF JoinInv

LEMMA InitJoin == Init => JoinInv
  BY DEF Init, JoinInv, RegisteredOnce, ComesOnlyOnce, LeavesAfterJoining, Joined,
         Positions, Room, Came

LEMMA JoinNext == TypeOK /\ JoinInv /\ [Next]_vars => JoinInv'
<1> SUFFICES ASSUME TypeOK, JoinInv, [Next]_vars PROVE JoinInv'
  OBVIOUS
<1> USE DEF queueVars, subVars, sendVars, pumpVars, taskVars, reaperVars, Came
<1>1. ASSUME NEW c \in Clients, Connection(c) PROVE JoinInv'
  <2>1. CASE Connect(c)
    BY <2>1, JoinConnected
  <2>2. CASE Refuse(c) \/ PeerEnds(c) \/ ReadFails(c)
    <3>1. CASE Refuse(c)
      BY <3>1, JoinKept DEF TypeOK, Refuse
    <3>2. CASE PeerEnds(c)
      BY <3>2, JoinKept DEF TypeOK, PeerEnds
    <3>3. CASE ReadFails(c)
      BY <3>3, JoinKept DEF TypeOK, ReadFails
    <3> QED BY <2>2, <3>1, <3>2, <3>3
  <2>3. CASE LosePeer(c) \/ WriteMessage(c) \/ LeaveWritePump(c)
    BY <2>3, JoinKept DEF LosePeer, WriteMessage, LeaveWritePump
  <2>4. CASE ReadAction(c)
    <3>1. CASE ChannelFull
      BY <2>4, <3>1, JoinKept DEF ReadAction
    <3>2. CASE ~ChannelFull
      <4>1. Enqueue("action", c) /\ UNCHANGED <<rooms, sendClosed, readPump>>
        BY <2>4, <3>2 DEF ReadAction
      <4> QED BY <3>2, <4>1, JoinAppended
    <3> QED BY <3>1, <3>2
  <2>5. CASE LeaveReadPump(c)
    <3>1. CASE ChannelFull
      BY <2>5, <3>1, JoinKept DEF LeaveReadPump, TypeOK
    <3>2. CASE ~ChannelFull
      <4>1. Enqueue("unregister", c) /\ UNCHANGED <<rooms, sendClosed>>
            /\ readPump' = [readPump EXCEPT ![c] = "done"]
        BY <2>5, <3>2 DEF LeaveReadPump
      <4>2. \A d \in Clients : /\ Came(d) => Came(d)'
                               /\ readPump'[d] = "done" => readPump[d] = "done" \/ d = c
        BY <4>1 DEF TypeOK
      <4> QED BY <3>2, <4>1, <4>2, JoinAppended
    <3> QED BY <3>1, <3>2
  <2> QED BY <1>1, <2>1, <2>2, <2>3, <2>4, <2>5 DEF Connection
<1>2. ASSUME NEW c \in Clients, \/ Register(c) \/ StartRoomSubscription(c) \/ Unregister(c)
                                \/ StopRoomSubscription(c) \/ SpawnHandler(c)
      PROVE  JoinInv'
  <2>1. CASE Register(c)
    BY <2>1, JoinRegistered
  <2>2. CASE Unregister(c)
    BY <2>2, JoinUnregistered
  <2>3. CASE StartRoomSubscription(c) \/ StopRoomSubscription(c)
    BY <2>3, JoinKept DEF StartRoomSubscription, StopRoomSubscription
  <2>4. CASE SpawnHandler(c)
    <3>1. \A d \in Clients : Head1 # Unreg(d)
      BY <2>4 DEF SpawnHandler, Unreg
    <3> QED BY <2>4, <3>1, JoinDequeued DEF SpawnHandler
  <2> QED BY <1>2, <2>1, <2>2, <2>3, <2>4
<1>3. ASSUME NEW c \in Clients, Goroutine(c) \/ Subscriber(c) PROVE JoinInv'
  BY <1>3, JoinKept DEF Goroutine, Subscriber, SendInitialSnapshot, HandleAction,
                        RejectAction, Subscribed, ForwardAction, LoopReturns, LoopExits
<1>4. ASSUME NEW r \in Rooms, CleanupRoomState(r) PROVE JoinInv'
  BY <1>4, JoinKept DEF CleanupRoomState
<1>5. CASE Reaper
  <2>1. CASE Tick
    BY <2>1, JoinKept DEF Tick
  <2>2. ASSUME NEW c \in Clients, Ping(c) PROVE JoinInv'
    BY <2>2, JoinKept DEF Ping
  <2>3. ASSUME NEW c \in Clients, QueueUnregister(c) PROVE JoinInv'
    <3>1. CASE ChannelFull
      BY <2>3, <3>1, JoinKept DEF QueueUnregister
    <3>2. CASE ~ChannelFull
      BY <2>3, <3>2, JoinAppended DEF QueueUnregister
    <3> QED BY <3>1, <3>2
  <2> QED BY <1>5, <2>1, <2>2, <2>3 DEF Reaper
<1>6. CASE UNCHANGED vars
  BY <1>6, JoinKept DEF vars
<1>7. CASE StopAllSubscriptions
  BY <1>7, JoinKept DEF StopAllSubscriptions
<1> QED BY <1>1, <1>2, <1>3, <1>4, <1>5, <1>6, <1>7 DEF Next, HubStep

LEMMA JoinInvariance == Spec => [](TypeOK /\ JoinInv)
  BY InitType, InitJoin, TypeOKNext, JoinNext, PTL DEF Spec

\* A connection whose ReadPump handed over its unregister message is still in the room
\* only while that message is in the channel.
THEOREM GhostsAreQueued == Spec => []NoGhosts
<1>1. ASSUME TypeOK, JoinInv PROVE NoGhosts
  <2> SUFFICES ASSUME NEW c \in Members, readPump[c] = "done"
               PROVE  \E i \in 1 .. Len(messageChan) :
                          messageChan[i] = [type |-> "unregister", client |-> c]
    BY DEF NoGhosts
  <2>1. c \in Clients /\ Joined(c)
    BY <1>1 DEF Members, Joined, TypeOK
  <2> QED BY <1>1, <2>1 DEF JoinInv, LeavesAfterJoining, Positions, Unreg
<1> QED BY <1>1, JoinInvariance, PTL

\* No broadcast sends to a closed channel: a step that forwards sends to members only.
LEMMA ForwardNext ==
    TypeOK /\ JoinInv /\ BroadcastNeverPanics /\ [Next]_vars => BroadcastNeverPanics'
<1> SUFFICES ASSUME TypeOK, JoinInv, BroadcastNeverPanics, [Next]_vars
             PROVE  BroadcastNeverPanics'
  OBVIOUS
<1> USE DEF BroadcastNeverPanics
<1>1. ASSUME NEW g \in Clients, ForwardAction(g) PROVE BroadcastNeverPanics'
  <2> DEFINE T == Receivers(g, Head(inbox[g]))
  <2>1. T \cap sendClosed = {}
    <3> SUFFICES ASSUME NEW c \in T PROVE c \notin sendClosed
      OBVIOUS
    <3>1. c \in Clients /\ Joined(c)
      BY DEF Receivers, TypeOK, Joined, Room
    <3> QED BY <3>1 DEF JoinInv, ComesOnlyOnce
  <2>2. Offer(T, "forward")
    BY <1>1 DEF ForwardAction
  <2> QED BY <2>1, <2>2 DEF Offer
<1>2. ASSUME NEW c \in Clients, Goroutine(c) PROVE BroadcastNeverPanics'
  BY <1>2 DEF Goroutine, SendInitialSnapshot, HandleAction, RejectAction, Offer
<1>3. ASSUME NEW c \in Clients, Connection(c) PROVE BroadcastNeverPanics'
  BY <1>3 DEF Connection, Connect, Refuse, LosePeer, ReadAction, PeerEnds, ReadFails,
              LeaveReadPump, WriteMessage, LeaveWritePump
<1>4. ASSUME NEW g \in Clients, Subscribed(g) \/ LoopReturns(g) \/ LoopExits(g)
      PROVE  BroadcastNeverPanics'
  BY <1>4 DEF Subscribed, LoopReturns, LoopExits
<1>5. CASE HubStep
  BY <1>5 DEF HubStep, Register, StartRoomSubscription, Unregister, StopRoomSubscription,
              SpawnHandler
<1>6. CASE Reaper \/ \E r \in Rooms : CleanupRoomState(r)
  BY <1>6 DEF Reaper, Tick, Ping, QueueUnregister, CleanupRoomState
<1>7. CASE UNCHANGED vars \/ StopAllSubscriptions
  BY <1>7 DEF vars, StopAllSubscriptions
<1> QED BY <1>1, <1>2, <1>3, <1>4, <1>5, <1>6, <1>7 DEF Next, Subscriber

\* Broadcasting an action never hits a closed send channel.
THEOREM BroadcastIsSafe == Spec => []BroadcastNeverPanics
<1>1. Init => BroadcastNeverPanics
  BY DEF Init, BroadcastNeverPanics
<1> QED BY <1>1, JoinInvariance, ForwardNext, PTL DEF Spec

--------------------------------------------------------------------------------
(***************************************************************************)
(* When a registration is taken, and what the event loop knows between its *)
(* two locked sections: nobody but it changes the map of rooms.            *)
(***************************************************************************)
Subscribing(c)   == [op |-> "subscribe", client |-> c]
Unsubscribing(c) == [op |-> "unsubscribe", client |-> c]

HubKnows ==
    /\ \A c \in Clients : hub = Subscribing(c) => rooms[Room(c)] = {c}
    /\ \A c \in Clients : hub = Unsubscribing(c) => rooms[Room(c)] = {} /\ Taken(c)

Queued(c) == \E i \in Positions : messageChan[i] = Reg(c)

\* Appending a registration queues it; appending anything else queues nobody.
LEMMA QueuedAppended ==
    ASSUME TypeOK, ~ChannelFull, NEW c \in Clients,
           NEW type \in {"register", "unregister", "action"}, Enqueue(type, c)
    PROVE  \A d \in Clients : Queued(d)' <=> Queued(d) \/ (type = "register" /\ d = c)
<1> DEFINE n == Len(messageChan) + 1
<1>1. /\ n \in Positions' /\ messageChan'[n] = [type |-> type, client |-> c]
      /\ \A i \in Positions : i \in Positions' /\ messageChan'[i] = messageChan[i]
      /\ \A i \in Positions' : i \in Positions \/ i = n
  <2>1. /\ Len(messageChan) \in Nat /\ Len(messageChan') = n
        /\ messageChan'[n] = [type |-> type, client |-> c]
        /\ \A i \in 1 .. Len(messageChan) : messageChan'[i] = messageChan[i]
    BY EnqueueAppends
  <2> QED BY <2>1 DEF Positions
<1> HIDE DEF n
<1>2. \A d \in Clients : [type |-> type, client |-> c] = Reg(d)
                            <=> type = "register" /\ d = c
  <2>1. \A d \in Clients : Reg(d).type = "register" /\ Reg(d).client = d
    BY DEF Reg
  <2>2. type = "register" => [type |-> type, client |-> c] = Reg(c)
    BY DEF Reg
  <2> QED BY <2>1, <2>2
<1> QED BY <1>1, <1>2 DEF Queued

\* Taking a message off the channel dequeues nobody but its client.
LEMMA QueuedDequeued ==
    ASSUME TypeOK, messageChan # <<>>, Dequeue, NEW d \in Clients, Head1 # Reg(d)
    PROVE  Queued(d)' <=> Queued(d)
<1>1. ASSUME Queued(d)' PROVE Queued(d)
  BY <1>1, DequeuedPositions DEF Queued
<1>2. ASSUME Queued(d) PROVE Queued(d)'
  <2>1. PICK j \in Positions : messageChan[j] = Reg(d)
    BY <1>2 DEF Queued
  <2>2. j # 1
    BY <2>1, DequeuedPositions
  <2>3. j > 1
    BY <2>2 DEF Positions
  <2> QED BY <2>1, <2>3, DequeuedPositions DEF Queued
<1> QED BY <1>1, <1>2

LEMMA TakenIs == ASSUME NEW c \in Clients PROVE Taken(c) <=> Came(c) /\ ~Queued(c)
  BY DEF Taken, Queued, Positions, Reg

\* A connection's registration is taken once and for all, when registerClient runs.
LEMMA TakenNext ==
    ASSUME TypeOK, JoinInv, [Next]_vars, NEW d \in Clients
    PROVE  /\ Register(d) => ~Taken(d) /\ Taken(d)'
           /\ ~Register(d) => (Taken(d)' <=> Taken(d))
<1> USE DEF queueVars, pumpVars
<1>0. /\ Taken(d) <=> Came(d) /\ ~Queued(d)
      /\ Taken(d)' <=> Came(d)' /\ ~Queued(d)'
  BY DEF Taken, Queued, Positions, Reg
<1>1. ASSUME UNCHANGED messageChan, Came(d)' <=> Came(d) PROVE Taken(d)' <=> Taken(d)
  BY <1>0, <1>1 DEF Queued, Positions
<1>2. ASSUME NEW c \in Clients, Connection(c) PROVE Taken(d)' <=> Taken(d)
  <2>1. CASE Connect(c)
    <3>1. Queued(d)' <=> Queued(d) \/ d = c
      BY <2>1, QueuedAppended DEF Connect
    <3>2. d # c => (Came(d)' <=> Came(d))
      BY <2>1 DEF Connect, Came, TypeOK
    <3>3. ~Came(c)
      BY <2>1 DEF Connect, Came
    <3> QED BY <1>0, <3>1, <3>2, <3>3
  <2>2. CASE ReadAction(c) /\ ~ChannelFull
    <3>1. Enqueue("action", c) /\ UNCHANGED readPump
      BY <2>2 DEF ReadAction
    <3>2. Queued(d)' <=> Queued(d)
      BY <2>2, <3>1, QueuedAppended
    <3> QED BY <1>0, <3>1, <3>2 DEF Came
  <2>3. CASE LeaveReadPump(c) /\ ~ChannelFull
    <3>1. Enqueue("unregister", c) /\ (Came(d)' <=> Came(d))
      BY <2>3 DEF LeaveReadPump, Came, TypeOK
    <3>2. Queued(d)' <=> Queued(d)
      BY <2>3, <3>1, QueuedAppended
    <3> QED BY <1>0, <3>1, <3>2
  <2>4. CASE /\ ~Connect(c)
             /\ (ReadAction(c) \/ LeaveReadPump(c)) => ChannelFull
    <3>1. CASE Refuse(c)
      BY <1>1, <3>1 DEF Refuse, Came, TypeOK
    <3>2. CASE PeerEnds(c) \/ ReadFails(c)
      BY <1>1, <3>2 DEF PeerEnds, ReadFails, Came, TypeOK
    <3>3. CASE LosePeer(c) \/ WriteMessage(c) \/ LeaveWritePump(c)
      BY <1>1, <3>3 DEF LosePeer, WriteMessage, LeaveWritePump, Came
    <3>4. CASE ReadAction(c)
      BY <1>1, <2>4, <3>4 DEF ReadAction, Came
    <3>5. CASE LeaveReadPump(c)
      <4>1. /\ UNCHANGED messageChan
            /\ readPump[c] = "leaving" /\ readPump' = [readPump EXCEPT ![c] = "timedout"]
        BY <2>4, <3>5 DEF LeaveReadPump
      <4> QED BY <1>1, <4>1 DEF Came, TypeOK
    <3> QED BY <1>2, <2>4, <3>1, <3>2, <3>3, <3>4, <3>5 DEF Connection
  <2> QED BY <2>1, <2>2, <2>3, <2>4
<1>3. ASSUME NEW c \in Clients, Register(c)
      PROVE  /\ d = c => ~Taken(d) /\ Taken(d)'
             /\ d # c => (Taken(d)' <=> Taken(d))
  <2>1. /\ Head1 = Reg(c) /\ messageChan # <<>> /\ Dequeue /\ UNCHANGED readPump
        /\ 1 \in Positions /\ messageChan[1] = Reg(c)
    BY <1>3, DequeuedPositions DEF Register, Reg
  <2>2. CASE d # c
    BY <1>0, <2>1, <2>2, MessagesDiffer, QueuedDequeued DEF Came
  <2>3. CASE d = c
    <3>1. ~Taken(c)
      BY <1>0, <2>1, <2>3 DEF Queued
    <3>2. ~Queued(c)'
      <4> SUFFICES ASSUME NEW i \in Positions', messageChan'[i] = Reg(c) PROVE FALSE
        BY DEF Queued
      <4>1. i + 1 \in Positions /\ messageChan[i + 1] = Reg(c)
        BY <2>1, DequeuedPositions
      <4>2. i + 1 = 1
        BY <2>1, <4>1 DEF JoinInv, RegisteredOnce
      <4> QED BY <4>2 DEF Positions
    <3>3. Came(c)'
      BY <2>1 DEF JoinInv, ComesOnlyOnce, Came
    <3> QED BY <1>0, <2>3, <3>1, <3>2, <3>3
  <2> QED BY <2>2, <2>3
<1>4. ASSUME NEW c \in Clients, Unregister(c) \/ SpawnHandler(c)
      PROVE  Taken(d)' <=> Taken(d)
  <2>1. messageChan # <<>> /\ Dequeue /\ Head1 # Reg(d) /\ UNCHANGED readPump
    BY <1>4 DEF Unregister, SpawnHandler, Reg
  <2> QED BY <1>0, <2>1, QueuedDequeued DEF Came
<1>5. ASSUME NEW c \in Clients, StartRoomSubscription(c) \/ StopRoomSubscription(c)
      PROVE  Taken(d)' <=> Taken(d)
  BY <1>1, <1>5 DEF StartRoomSubscription, StopRoomSubscription, Came
<1>6. ASSUME NEW c \in Clients, Goroutine(c) \/ Subscriber(c)
      PROVE  Taken(d)' <=> Taken(d)
  BY <1>1, <1>6 DEF Goroutine, Subscriber, SendInitialSnapshot, HandleAction, RejectAction,
                    Subscribed, ForwardAction, LoopReturns, LoopExits, Came
<1>7. ASSUME Tick \/ (\E c \in Clients : Ping(c)) \/ (\E r \in Rooms : CleanupRoomState(r))
      PROVE  Taken(d)' <=> Taken(d)
  BY <1>1, <1>7 DEF Tick, Ping, CleanupRoomState, Came
<1>8. ASSUME NEW c \in Clients, QueueUnregister(c) PROVE Taken(d)' <=> Taken(d)
  <2>1. UNCHANGED readPump
    BY <1>8 DEF QueueUnregister
  <2>2. CASE ChannelFull
    BY <1>1, <1>8, <2>1, <2>2 DEF QueueUnregister, Came
  <2>3. CASE ~ChannelFull
    <3>1. Enqueue("unregister", c)
      BY <1>8, <2>3 DEF QueueUnregister
    <3>2. Queued(d)' <=> Queued(d)
      BY <2>3, <3>1, QueuedAppended
    <3> QED BY <1>0, <2>1, <3>2 DEF Came
  <2> QED BY <2>2, <2>3
<1>9. ASSUME StopAllSubscriptions \/ UNCHANGED vars PROVE Taken(d)' <=> Taken(d)
  BY <1>1, <1>9 DEF StopAllSubscriptions, vars, Came
<1> QED BY <1>2, <1>3, <1>4, <1>5, <1>6, <1>7, <1>8, <1>9 DEF Next, HubStep, Reaper

LEMMA JoinedIsTaken == ASSUME TypeOK, JoinInv, NEW c \in Clients, Joined(c) PROVE Taken(c)
  BY DEF JoinInv, ComesOnlyOnce, Taken, Positions, Reg

LEMMA HubStatesDiffer ==
    \A c, d \in Clients : /\ Subscribing(c) = Subscribing(d) => c = d
                          /\ Unsubscribing(c) = Unsubscribing(d) => c = d
                          /\ Subscribing(c) # Unsubscribing(d)
                          /\ Receiving # Subscribing(c) /\ Receiving # Unsubscribing(c)
<1>1. \A c \in Clients : /\ Subscribing(c).op = "subscribe" /\ Subscribing(c).client = c
                         /\ Unsubscribing(c).op = "unsubscribe"
                         /\ Unsubscribing(c).client = c
  BY DEF Subscribing, Unsubscribing
<1>2. Receiving.op = "receive"
  BY DEF Receiving
<1> QED BY <1>1, <1>2

LEMMA HubKnowsNext == TypeOK /\ JoinInv /\ HubKnows /\ [Next]_vars => HubKnows'
<1> SUFFICES ASSUME TypeOK, JoinInv, HubKnows, [Next]_vars PROVE HubKnows'
  OBVIOUS
<1>1. \A d \in Clients : Taken(d) => Taken(d)'
  BY TakenNext
<1>2. ASSUME UNCHANGED <<hub, rooms>> PROVE HubKnows'
  BY <1>1, <1>2 DEF HubKnows
<1>3. ASSUME NEW c \in Clients, Register(c) PROVE HubKnows'
  <2>1. /\ hub = Receiving /\ Room(c) \in Rooms
        /\ rooms' = [rooms EXCEPT ![Room(c)] = rooms[Room(c)] \cup {c}]
    BY <1>3 DEF Register, Room
  <2>2. \/ hub' = Receiving
        \/ hub' = Subscribing(c) /\ rooms'[Room(c)] = {c}
    BY <1>3, <2>1 DEF Register, Subscribing, FirstInRoom, TypeOK
  <2> QED BY <2>2, HubStatesDiffer DEF HubKnows
<1>4. ASSUME NEW c \in Clients, Unregister(c) PROVE HubKnows'
  <2>1. CASE ~Joined(c)
    BY <1>2, <1>4, <2>1 DEF Unregister, Joined
  <2>2. CASE Joined(c)
    <3>1. /\ rooms' = [rooms EXCEPT ![Room(c)] = rooms[Room(c)] \ {c}]
          /\ hub' = IF LastInRoom(c) THEN Unsubscribing(c) ELSE Receiving
      BY <1>4, <2>2 DEF Unregister, DeleteFromMap, Unsubscribing, Joined
    <3>2. LastInRoom(c) => rooms'[Room(c)] = {}
      BY <3>1 DEF LastInRoom, TypeOK, Room
    <3>3. Taken(c)'
      BY <1>1, <2>2, JoinedIsTaken
    <3> QED BY <3>1, <3>2, <3>3, HubStatesDiffer DEF HubKnows
  <2> QED BY <2>1, <2>2
<1>5. ASSUME NEW c \in Clients, StartRoomSubscription(c) \/ StopRoomSubscription(c)
      PROVE  HubKnows'
  <2>1. hub' = Receiving
    BY <1>5 DEF StartRoomSubscription, StopRoomSubscription
  <2> QED BY <2>1, HubStatesDiffer DEF HubKnows
<1>6. ASSUME NEW c \in Clients,
             Connection(c) \/ SpawnHandler(c) \/ Goroutine(c) \/ Subscriber(c)
      PROVE  HubKnows'
  <2>1. UNCHANGED <<hub, rooms>>
    BY <1>6 DEF Connection, Connect, Refuse, LosePeer, ReadAction, PeerEnds, ReadFails,
                LeaveReadPump, WriteMessage, LeaveWritePump, SpawnHandler, Goroutine,
                SendInitialSnapshot, HandleAction, RejectAction, Subscriber, Subscribed,
                ForwardAction, LoopReturns, LoopExits, queueVars
  <2> QED BY <1>2, <2>1
<1>7. CASE \/ Reaper \/ StopAllSubscriptions \/ UNCHANGED vars
           \/ \E r \in Rooms : CleanupRoomState(r)
  BY <1>2, <1>7 DEF Reaper, Tick, Ping, QueueUnregister, CleanupRoomState,
                    StopAllSubscriptions, vars, queueVars
<1> QED BY <1>3, <1>4, <1>5, <1>6, <1>7 DEF Next, HubStep

KnowInv == TypeOK /\ JoinInv /\ HubKnows

LEMMA KnowInvariance == Spec => []KnowInv
<1>1. Init => HubKnows
  BY HubStatesDiffer DEF Init, HubKnows
<1> QED BY <1>1, JoinInvariance, HubKnowsNext, PTL DEF Spec, KnowInv

--------------------------------------------------------------------------------
(***************************************************************************)
(* The hub implements Subscriptions.  registerClient takes effect where it *)
(* puts a later client into the map, or starts a first one's loop;         *)
(* unregisterClient where it takes an earlier client out, or cancels the   *)
(* loop of a last one.  Nothing else moves a client, an entry or a loop.   *)
(* What Subscriptions_proofs shows of loops and entries then holds here.   *)
(***************************************************************************)
\* Where a client stands, before and after a step.
Stands(c) == IF ~Taken(c) \/ hub = Subscribing(c) THEN "away"
             ELSE IF Joined(c) \/ hub = Unsubscribing(c) THEN "in" ELSE "gone"

LEMMA StandingIs ==
    /\ Standing = [c \in Clients |-> Stands(c)]
    /\ Standing' = [c \in Clients |-> Stands(c)']
  BY DEF Standing, Stands, Subscribing, Unsubscribing, Joined

\* A step that moves one client at most.
LEMMA StandingMoves ==
    ASSUME NEW c \in Clients, \A d \in Clients \ {c} : Stands(d)' = Stands(d)
    PROVE  /\ Standing' = [Standing EXCEPT ![c] = Stands(c)']
           /\ Stands(c)' = Stands(c) => UNCHANGED Standing
  BY StandingIs

LEMMA SubscriptionKept ==
    ASSUME UNCHANGED <<hub, rooms, subs, loop, cancelled, stopping>>,
           \A d \in Clients : Taken(d)' <=> Taken(d)
    PROVE  UNCHANGED Subscription!vars
<1>1. \A d \in Clients : Stands(d)' = Stands(d)
  BY DEF Stands, Joined
<1> QED BY <1>1, StandingIs DEF Subscription!vars

\* Who stands in a room, seen from the map of rooms.
LEMMA WhoIsIn ==
    ASSUME TypeOK, JoinInv, NEW r \in Rooms
    PROVE  /\ \A d \in Subscription!Members(r) :
                  d \in Clients /\ Room(d) = r /\ (d \in rooms[r] \/ hub = Unsubscribing(d))
           /\ \A d \in rooms[r] : hub # Subscribing(d) => d \in Subscription!Members(r)
<1>1. \A d \in Clients : Standing[d] = Stands(d)
  BY StandingIs
<1>2. \A d \in rooms[r] : d \in Clients /\ Room(d) = r /\ Joined(d)
  BY DEF TypeOK, Joined
<1>3. \A d \in rooms[r] : Taken(d)
  BY <1>2, JoinedIsTaken
<1> QED BY <1>1, <1>2, <1>3 DEF Subscription!Members, Stands, Joined, Room

LEMMA RegisterRefines ==
    ASSUME TypeOK, JoinInv, HubKnows, NEW c \in Clients, Register(c), ~Taken(c), Taken(c)',
           \A d \in Clients \ {c} : Taken(d)' <=> Taken(d)
    PROVE  Subscription!Register(c) \/ UNCHANGED Subscription!vars
<1>1. /\ UNCHANGED <<subs, loop, cancelled, stopping>>
      /\ rooms' = [rooms EXCEPT ![Room(c)] = rooms[Room(c)] \cup {c}]
      /\ hub = Receiving
  BY DEF Register, subVars
<1>2. \/ hub' = Subscribing(c) /\ FirstInRoom(c)
      \/ hub' = Receiving /\ ~FirstInRoom(c)
  BY DEF Register, Subscribing
<1>3. Joined(c)' /\ \A d \in Clients \ {c} : Joined(d)' <=> Joined(d)
  BY <1>1 DEF Joined, TypeOK, Room
<1>4. \A d \in Clients \ {c} : Stands(d)' = Stands(d)
  BY <1>1, <1>2, <1>3, HubStatesDiffer DEF Stands
<1>5. Stands(c) = "away"
  BY DEF Stands
<1>6. CASE FirstInRoom(c)
  <2>1. Stands(c)' = "away"
    BY <1>2, <1>6 DEF Stands
  <2> QED BY <1>1, <1>4, <1>5, <2>1, StandingMoves DEF Subscription!vars
<1>7. CASE ~FirstInRoom(c)
  <2>1. Stands(c)' = "in"
    BY <1>2, <1>3, <1>7, HubStatesDiffer DEF Stands
  <2>2. Standing[c] = "away" /\ Standing' = [Standing EXCEPT ![c] = "in"]
    BY <1>4, <1>5, <2>1, StandingIs, StandingMoves
  <2>3. PICK d \in rooms[Room(c)] : d # c
    BY <1>7 DEF FirstInRoom
  <2>4. d \in Clients /\ Room(c) \in Rooms
    BY <2>3 DEF TypeOK, Room
  <2>5. d \in Subscription!Members(RoomOf[c])
    BY <1>1, <2>3, <2>4, WhoIsIn, HubStatesDiffer DEF Room
  <2> QED BY <1>1, <2>2, <2>5 DEF Subscription!Register
<1> QED BY <1>6, <1>7

LEMMA StartRefines ==
    ASSUME TypeOK, JoinInv, HubKnows, NEW c \in Clients, StartRoomSubscription(c),
           \A d \in Clients : Taken(d)' <=> Taken(d)
    PROVE  Subscription!Register(c)
<1>1. /\ UNCHANGED <<rooms, cancelled, stopping>>
      /\ hub = Subscribing(c) /\ hub' = Receiving
  BY DEF StartRoomSubscription, Subscribing
<1>2. rooms[Room(c)] = {c} /\ Room(c) \in Rooms
  BY <1>1 DEF HubKnows, Room
<1>3. Joined(c) /\ Taken(c)
  BY <1>2, JoinedIsTaken DEF Joined
<1>4. \A d \in Clients \ {c} : Stands(d)' = Stands(d)
  BY <1>1, HubStatesDiffer DEF Stands, Joined
<1>5. Stands(c) = "away" /\ Stands(c)' = "in"
  BY <1>1, <1>3, HubStatesDiffer DEF Stands, Joined
<1>6. Standing[c] = "away" /\ Standing' = [Standing EXCEPT ![c] = "in"]
  BY <1>4, <1>5, StandingIs, StandingMoves
<1>7. Subscription!Members(RoomOf[c]) = {}
  <2> SUFFICES ASSUME NEW d \in Subscription!Members(RoomOf[c]) PROVE FALSE
    OBVIOUS
  <2>1. d = c
    BY <1>1, <1>2, WhoIsIn, HubStatesDiffer DEF Room
  <2> QED BY <1>6, <2>1 DEF Subscription!Members
<1>8. IF subs[RoomOf[c]] = NoClient
      THEN /\ subs' = [subs EXCEPT ![RoomOf[c]] = c]
           /\ loop' = [loop EXCEPT ![c] = "subscribing"]
      ELSE UNCHANGED <<subs, loop>>
  BY DEF StartRoomSubscription, Room
<1> QED BY <1>1, <1>6, <1>7, <1>8 DEF Subscription!Register

LEMMA UnregisterRefines ==
    ASSUME TypeOK, JoinInv, HubKnows, NEW c \in Clients, Unregister(c),
           \A d \in Clients : Taken(d)' <=> Taken(d)
    PROVE  Subscription!Unregister(c) \/ UNCHANGED Subscription!vars
<1>1. UNCHANGED <<subs, loop, cancelled, stopping>> /\ hub = Receiving
  BY DEF Unregister, subVars
<1>2. CASE ~Joined(c)
  <2>1. UNCHANGED <<rooms, hub>>
    BY <1>2 DEF Unregister, Joined
  <2> QED BY <1>1, <2>1, SubscriptionKept
<1>3. CASE Joined(c)
  <2>1. /\ rooms' = [rooms EXCEPT ![Room(c)] = rooms[Room(c)] \ {c}]
        /\ hub' = IF LastInRoom(c) THEN Unsubscribing(c) ELSE Receiving
    BY <1>1, <1>3 DEF Unregister, DeleteFromMap, Unsubscribing, Joined
  <2>2. ~Joined(c)' /\ \A d \in Clients \ {c} : Joined(d)' <=> Joined(d)
    BY <2>1 DEF Joined, TypeOK, Room
  <2>3. \A d \in Clients \ {c} : Stands(d)' = Stands(d)
    BY <1>1, <2>1, <2>2, HubStatesDiffer DEF Stands
  <2>4. Taken(c) /\ Stands(c) = "in"
    BY <1>1, <1>3, JoinedIsTaken, HubStatesDiffer DEF Stands
  <2>5. CASE LastInRoom(c)
    <3>1. Stands(c)' = "in"
      BY <2>1, <2>4, <2>5, HubStatesDiffer DEF Stands
    <3> QED BY <1>1, <2>3, <2>4, <3>1, StandingMoves DEF Subscription!vars
  <2>6. CASE ~LastInRoom(c)
    <3>1. Stands(c)' = "gone"
      BY <2>1, <2>2, <2>4, <2>6, HubStatesDiffer DEF Stands
    <3>2. Standing[c] = "in" /\ Standing' = [Standing EXCEPT ![c] = "gone"]
      BY <2>3, <2>4, <3>1, StandingIs, StandingMoves
    <3>3. PICK d \in rooms[Room(c)] : d # c
      BY <1>3, <2>6 DEF LastInRoom, Joined
    <3>4. d \in Clients /\ Room(c) \in Rooms
      BY <3>3 DEF TypeOK, Room
    <3>5. d \in Subscription!Members(RoomOf[c])
      BY <1>1, <3>3, <3>4, WhoIsIn, HubStatesDiffer DEF Room
    <3> QED BY <1>1, <3>2, <3>3, <3>5 DEF Subscription!Unregister, Subscription!LastInGroup
  <2> QED BY <2>5, <2>6
<1> QED BY <1>2, <1>3

LEMMA StopRefines ==
    ASSUME TypeOK, JoinInv, HubKnows, NEW c \in Clients, StopRoomSubscription(c),
           \A d \in Clients : Taken(d)' <=> Taken(d)
    PROVE  Subscription!Unregister(c)
<1>1. /\ UNCHANGED <<rooms, loop, stopping>>
      /\ hub = Unsubscribing(c) /\ hub' = Receiving
      /\ cancelled' = cancelled \cup ({subs[RoomOf[c]]} \ {NoClient})
      /\ subs' = [subs EXCEPT ![RoomOf[c]] = NoClient]
  BY DEF StopRoomSubscription, CancelSubscription, Unsubscribing, Room
<1>2. rooms[Room(c)] = {} /\ Taken(c) /\ Room(c) \in Rooms
  BY <1>1 DEF HubKnows, Room
<1>3. ~Joined(c)
  BY <1>2 DEF Joined
<1>4. \A d \in Clients \ {c} : Stands(d)' = Stands(d)
  BY <1>1, HubStatesDiffer DEF Stands, Joined
<1>5. Stands(c) = "in" /\ Stands(c)' = "gone"
  BY <1>1, <1>2, <1>3, HubStatesDiffer DEF Stands, Joined
<1>6. Standing[c] = "in" /\ Standing' = [Standing EXCEPT ![c] = "gone"]
  BY <1>4, <1>5, StandingIs, StandingMoves
<1>7. Subscription!Members(RoomOf[c]) = {c}
  <2>1. c \in Subscription!Members(RoomOf[c])
    BY <1>6 DEF Subscription!Members
  <2>2. ASSUME NEW d \in Subscription!Members(RoomOf[c]) PROVE d = c
    BY <1>1, <1>2, WhoIsIn, HubStatesDiffer DEF Room
  <2> QED BY <2>1, <2>2
<1> QED BY <1>1, <1>6, <1>7 DEF Subscription!Unregister, Subscription!LastInGroup

LEMMA SubscriptionNext ==
    TypeOK /\ JoinInv /\ HubKnows /\ [Next]_vars => [Subscription!Next]_(Subscription!vars)
<1> SUFFICES ASSUME TypeOK, JoinInv, HubKnows, [Next]_vars
             PROVE  Subscription!Next \/ UNCHANGED Subscription!vars
  OBVIOUS
<1> USE DEF queueVars, subVars
<1>1. \A d \in Clients : /\ Register(d) => ~Taken(d) /\ Taken(d)'
                         /\ ~Register(d) => (Taken(d)' <=> Taken(d))
  BY TakenNext
<1>2. ASSUME NEW c \in Clients, Register(c)
      PROVE  Subscription!Next \/ UNCHANGED Subscription!vars
  <2>1. \A d \in Clients : Register(d) => d = c
    <3>1. \A d \in Clients : Register(d) => Reg(d) = Head1
      BY DEF Register, Reg
    <3> QED BY <1>2, <3>1, MessagesDiffer
  <2> QED BY <1>1, <1>2, <2>1, RegisterRefines DEF Subscription!Next
<1>3. CASE \A d \in Clients : ~Register(d)
  <2>1. \A d \in Clients : Taken(d)' <=> Taken(d)
    BY <1>1, <1>3
  <2>2. ASSUME NEW c \in Clients, StartRoomSubscription(c) \/ StopRoomSubscription(c)
        PROVE  Subscription!Next
    BY <2>1, <2>2, StartRefines, StopRefines DEF Subscription!Next
  <2>3. ASSUME NEW c \in Clients, Unregister(c)
        PROVE  Subscription!Next \/ UNCHANGED Subscription!vars
    BY <2>1, <2>3, UnregisterRefines DEF Subscription!Next
  <2>4. ASSUME NEW g \in Clients, Subscribed(g) \/ LoopReturns(g) \/ LoopExits(g)
        PROVE  Subscription!Next
    <3>1. UNCHANGED <<hub, rooms, cancelled, stopping>>
      BY <2>4 DEF Subscribed, LoopReturns, LoopExits
    <3>2. UNCHANGED Standing
      BY <2>1, <3>1, StandingIs DEF Stands, Joined
    <3> QED BY <2>4, <3>1, <3>2
            DEF Subscribed, LoopReturns, LoopExits, Room, Subscription!Next,
                Subscription!Subscribed, Subscription!LoopReturns, Subscription!LoopExits,
                Subscription!DeleteEntry
  <2>5. CASE StopAllSubscriptions
    <3>1. UNCHANGED <<hub, rooms>>
      BY <2>5 DEF StopAllSubscriptions
    <3>2. UNCHANGED Standing
      BY <2>1, <3>1, StandingIs DEF Stands, Joined
    <3> QED BY <2>5, <3>2
            DEF StopAllSubscriptions, Subscription!Next, Subscription!StopAll
  <2>6. ASSUME NEW c \in Clients,
               Connection(c) \/ SpawnHandler(c) \/ Goroutine(c) \/ ForwardAction(c)
        PROVE  UNCHANGED Subscription!vars
    <3>1. UNCHANGED <<hub, rooms, subs, loop, cancelled, stopping>>
      BY <2>6 DEF Connection, Connect, Refuse, LosePeer, ReadAction, PeerEnds, ReadFails,
                  LeaveReadPump, WriteMessage, LeaveWritePump, SpawnHandler, Goroutine,
                  SendInitialSnapshot, HandleAction, RejectAction, ForwardAction
    <3> QED BY <2>1, <3>1, SubscriptionKept
  <2>7. CASE Reaper \/ (\E r \in Rooms : CleanupRoomState(r)) \/ UNCHANGED vars
    BY <2>1, <2>7, SubscriptionKept
       DEF Reaper, Tick, Ping, QueueUnregister, CleanupRoomState, vars
  <2> QED BY <1>3, <2>2, <2>3, <2>4, <2>5, <2>6, <2>7 DEF Next, HubStep, Subscriber
<1> QED BY <1>2, <1>3

\* registerClient and unregisterClient amount to one step each: the subscriptions of the
\* hub behave as those of the abstract one.
THEOREM ImplementsSubscriptions == Spec => SubscriptionSpec
<1>1. Init => Subscription!Init
  BY StandingIs
     DEF Init, Stands, Taken, Came, Subscription!Init
<1> QED BY <1>1, KnowInvariance, SubscriptionNext, PTL
        DEF Spec, KnowInv, SubscriptionSpec, Subscription!Spec

SubscriptionProofs == INSTANCE Subscriptions_proofs WITH
    Groups <- Rooms, GroupOf <- RoomOf, NoLoop <- NoClient,
    client <- Standing, entry <- subs, stopped <- IF stopping THEN Rooms ELSE {}

\* What every implementation of Subscriptions has, the hub has.
LEMMA SubscriptionsCorrect ==
    Spec => []SubscriptionProofs!Inv /\ SubscriptionProofs!StraysFollowExits
<1>1. SubscriptionSpec => SubscriptionProofs!Spec
  BY DEF SubscriptionSpec, Subscription!Spec, SubscriptionProofs!Spec,
         Subscription!Init, SubscriptionProofs!Init,
         Subscription!Next, SubscriptionProofs!Next,
         Subscription!vars, SubscriptionProofs!vars,
         Subscription!Register, SubscriptionProofs!Register,
         Subscription!Unregister, SubscriptionProofs!Unregister,
         Subscription!LastInGroup, SubscriptionProofs!LastInGroup,
         Subscription!StopAll, SubscriptionProofs!StopAll,
         Subscription!Crash, SubscriptionProofs!Crash,
         Subscription!Subscribed, SubscriptionProofs!Subscribed,
         Subscription!LoopReturns, SubscriptionProofs!LoopReturns,
         Subscription!LoopExits, SubscriptionProofs!LoopExits,
         Subscription!DeleteEntry, SubscriptionProofs!DeleteEntry,
         Subscription!Members, SubscriptionProofs!Members
<1>2. SubscriptionProofs!ConstantsFit
  BY DEF SubscriptionProofs!ConstantsFit
<1> QED BY <1>1, <1>2, ImplementsSubscriptions, SubscriptionProofs!SubscriptionsCorrect, PTL

SubInv == KnowInv /\ SubscriptionProofs!Inv

LEMMA SubInvariance == Spec => []SubInv
  BY KnowInvariance, SubscriptionsCorrect, PTL DEF SubInv

\* The cancel function stored for a room belongs to a loop of that room which nobody
\* cancelled and which has not ended.
THEOREM EntriesAreLive == Spec => []EntryIsLive
<1>1. SubInv => EntryIsLive
  BY DEF SubInv, SubscriptionProofs!Inv, SubscriptionProofs!EntryIsLive,
         SubscriptionProofs!Alive, EntryIsLive, Room
<1> QED BY <1>1, SubInvariance, PTL

\* While clients are in a room, some loop started for it was never cancelled.
THEOREM OccupiedRoomsKeepALoop == Spec => []OccupiedRoomSubscribed
<1>1. ASSUME SubInv PROVE OccupiedRoomSubscribed
  <2> SUFFICES ASSUME NEW r \in Rooms, ~stopping, rooms[r] # {},
                      ~(hub.op = "subscribe" /\ Room(hub.client) = r)
               PROVE  \E g \in Clients : Room(g) = r /\ loop[g] # "none"
                                         /\ g \notin cancelled
    BY DEF OccupiedRoomSubscribed
  <2>1. PICK c \in rooms[r] : TRUE
    OBVIOUS
  <2>2. c \in Clients /\ Room(c) = r
    BY <1>1 DEF SubInv, KnowInv, TypeOK
  <2>3. hub # Subscribing(c)
    BY <2>2 DEF Subscribing
  <2>4. c \in SubscriptionProofs!Members(r)
    BY <1>1, <2>3, WhoIsIn
       DEF SubInv, KnowInv, Subscription!Members, SubscriptionProofs!Members
  <2> QED BY <1>1, <2>4 DEF SubInv, SubscriptionProofs!Inv,
                            SubscriptionProofs!OccupiedIsSubscribed, Room
<1> QED BY <1>1, SubInvariance, PTL

\* A step that cancels a room's subscription finds the room empty.
THEOREM CancelsOnlyWhenEmpty == Spec => CancelOnlyWhenEmpty
<1>1. ASSUME SubInv, [Next]_vars, stopping' = stopping,
             NEW g \in Clients, g \in cancelled' \ cancelled
      PROVE  rooms[Room(g)] = {}
  <2>1. PICK c \in Clients : StopRoomSubscription(c)
    BY <1>1 DEF Next, HubStep, Register, StartRoomSubscription, Unregister, SpawnHandler,
                StopAllSubscriptions, Connection, Connect, Refuse, LosePeer, ReadAction,
                PeerEnds, ReadFails, LeaveReadPump, WriteMessage, LeaveWritePump, Goroutine,
                SendInitialSnapshot, HandleAction, RejectAction, Subscriber, Subscribed,
                ForwardAction, LoopReturns, LoopExits, Reaper, Tick, Ping, QueueUnregister,
                CleanupRoomState, vars, subVars
  <2>2. g = subs[Room(c)] /\ hub = Unsubscribing(c) /\ Room(c) \in Rooms
    BY <1>1, <2>1 DEF StopRoomSubscription, CancelSubscription, Unsubscribing, Room
  <2>3. Room(g) = Room(c)
    BY <1>1, <2>2 DEF SubInv, SubscriptionProofs!Inv, SubscriptionProofs!EntryIsLive, Room
  <2> QED BY <1>1, <2>2, <2>3 DEF SubInv, KnowInv, HubKnows
<1>2. SubInv /\ [Next]_vars =>
          [stopping' = stopping =>
              \A g \in Clients : g \in cancelled' \ cancelled => rooms[Room(g)] = {}]_vars
  BY <1>1
<1> QED BY <1>2, SubInvariance, PTL DEF Spec, CancelOnlyWhenEmpty

\* A loop that nobody cancelled loses its entry only in the step of the late exit of an older
\* loop of its room.
THEOREM StraysFollow == Spec => StraysFollowExits
<1>1. SubscriptionProofs!StraysFollowExits => StraysFollowExits
  BY DEF StraysFollowExits,
         Subscription!StraysFollowExits, SubscriptionProofs!StraysFollowExits,
         Subscription!LosesEntryToExit, SubscriptionProofs!LosesEntryToExit,
         Subscription!Stray, SubscriptionProofs!Stray,
         Subscription!Alive, SubscriptionProofs!Alive,
         Subscription!vars, SubscriptionProofs!vars
<1> QED BY <1>1, SubscriptionsCorrect, PTL
================================================================================
