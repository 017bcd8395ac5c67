---------------------------- MODULE Delivery_proofs ----------------------------
(***************************************************************************)
(* What a client could hear is under way to it, and each loop tells it     *)
(* things in order, for any number of instances, clients, actions and      *)
(* failures.                                                               *)
(***************************************************************************)
EXTENDS Delivery, TLAPS

USE ClientsAssumption, AuthorsAssumption, NoLoopAssumption, FaultsAssumption

\* The steps of the hub are those of Subscriptions.
USE DEF Subscription!Register, Subscription!Unregister, Subscription!Subscribed,
        Subscription!LoopReturns, Subscription!LoopExits, Subscription!DeleteEntry,
        Subscription!Crash

\* A client that has not come yet has nothing due, and no loop of its name runs.
AwayIsFresh == \A c \in Clients : client[c] = "away" => due[c] = {} /\ loop[c] = "none"

\* Nobody is due an action of its own user.
DueFromOthers ==
    \A c \in Clients : \A m \in due[c] : UserOf[c] # UserOf[AuthorOf[published[m]]]

\* A loop is sent messages in the order of publication, and forwards them in that order.
InboxSorted ==
    \A g \in Clients : \A i, j \in DOMAIN inbox[g] : i < j => inbox[g][i] < inbox[g][j]
HeardBeforeInbox ==
    \A c \in Clients : \A i \in DOMAIN heard[c] :
        \A k \in DOMAIN inbox[heard[c][i].loop] : heard[c][i].at < inbox[heard[c][i].loop][k]

UnderWay(c, m) ==
    Settled(c, m) \/ \E g \in Clients : /\ ServerOf[g] = ServerOf[c]
                                        /\ Listening(g) /\ g \notin cancelled
                                        /\ \E i \in DOMAIN inbox[g] : inbox[g][i] = m

OrderInv == InboxSorted /\ HeardBeforeInbox /\ HeardInOrder
Inv == TypeOK /\ AwayIsFresh /\ DueFromOthers /\ DueIsUnderWay /\ OrderInv

LEMMA InitInv == Init => Inv
<1> SUFFICES ASSUME Init PROVE Inv
  OBVIOUS
<1>1. TypeOK
  BY DEF Init, TypeOK, Places
<1>2. AwayIsFresh /\ DueFromOthers /\ DueIsUnderWay
  BY DEF Init, AwayIsFresh, DueFromOthers, DueIsUnderWay
<1>3. \A c \in Clients : DOMAIN heard[c] = {} /\ DOMAIN inbox[c] = {}
  BY DEF Init
<1>4. OrderInv
  BY <1>3 DEF OrderInv, InboxSorted, HeardBeforeInbox, HeardInOrder
<1> QED
  BY <1>1, <1>2, <1>4 DEF Inv

--------------------------------------------------------------------------------
(***************************************************************************)
(* Sequences.                                                              *)
(***************************************************************************)
LEMMA SeqGrows == ASSUME NEW S, NEW T, S \subseteq T, NEW s \in Seq(S) PROVE s \in Seq(T)
  OBVIOUS

LEMMA RecordsGrow ==
  ASSUME NEW S, NEW T, S \subseteq T, NEW s \in Seq([loop : Clients, at : S])
  PROVE  s \in Seq([loop : Clients, at : T])
<1> DEFINE A == [loop : Clients, at : S]
           B == [loop : Clients, at : T]
<1>1. A \subseteq B /\ s \in Seq(A)
  OBVIOUS
<1> HIDE DEF A, B
<1>2. s \in Seq(B)
  BY <1>1, SeqGrows
<1> QED
  BY <1>2 DEF B

LEMMA AppendIs ==
  ASSUME NEW S, NEW s \in Seq(S), NEW e \in S
  PROVE  /\ Append(s, e) \in Seq(S)
         /\ Len(s) \in Nat /\ Len(Append(s, e)) = Len(s) + 1
         /\ DOMAIN s = 1 .. Len(s) /\ DOMAIN Append(s, e) = 1 .. Len(s) + 1
         /\ \A i \in DOMAIN s : Append(s, e)[i] = s[i]
         /\ Append(s, e)[Len(s) + 1] = e
  OBVIOUS

LEMMA TailIs ==
  ASSUME NEW S, NEW s \in Seq(S), s # <<>>
  PROVE  /\ Tail(s) \in Seq(S) /\ Head(s) \in S /\ Head(s) = s[1] /\ 1 \in DOMAIN s
         /\ Len(s) \in Nat /\ DOMAIN s = 1 .. Len(s) /\ DOMAIN Tail(s) = 1 .. Len(s) - 1
         /\ \A i \in DOMAIN Tail(s) : i + 1 \in DOMAIN s /\ Tail(s)[i] = s[i + 1]
  OBVIOUS

LEMMA SeqIs ==
  ASSUME NEW S, NEW s \in Seq(S)
  PROVE  Len(s) \in Nat /\ DOMAIN s = 1 .. Len(s) /\ \A i \in DOMAIN s : s[i] \in S
  OBVIOUS

LEMMA RecordsAre ==
  ASSUME NEW S, NEW s \in Seq([loop : Clients, at : S])
  PROVE  /\ Len(s) \in Nat /\ DOMAIN s = 1 .. Len(s)
         /\ \A i \in DOMAIN s : s[i].loop \in Clients /\ s[i].at \in S
<1> DEFINE A == [loop : Clients, at : S]
<1>1. s \in Seq(A) /\ \A r \in A : r.loop \in Clients /\ r.at \in S
  OBVIOUS
<1> HIDE DEF A
<1> QED
  BY <1>1, SeqIs

LEMMA EmptyIs == ASSUME NEW S PROVE <<>> \in Seq(S) /\ DOMAIN <<>> = {}
  OBVIOUS

--------------------------------------------------------------------------------
(***************************************************************************)
(* Types.                                                                  *)
(***************************************************************************)
LoopTypes ==
    /\ entry \in [Servers -> Clients \cup {NoLoop}]
    /\ loop \in [Clients -> {"none", "subscribing", "listening", "leaving", "stopped"}]
    /\ cancelled \in SUBSET Clients
    /\ \A s \in Servers : entry[s] # NoLoop =>
           ServerOf[entry[s]] = s /\ loop[entry[s]] \notin {"none", "stopped"}

LEMMA LoseInboxType ==
  ASSUME TypeOK, NEW g \in Clients, LoseInbox(g)
  PROVE  /\ inbox' \in [Clients -> Seq(Places)]
         /\ excused' \in [Clients -> SUBSET Places]
         /\ faults' \in 0 .. MaxFaults
<1>1. {inbox[g][i] : i \in DOMAIN inbox[g]} \in SUBSET Places
  <2>1. inbox[g] \in Seq(Places)
    BY DEF TypeOK
  <2> QED
    BY <2>1, SeqIs
<1>2. <<>> \in Seq(Places)
  BY EmptyIs
<1> QED
  BY <1>1, <1>2 DEF LoseInbox, Fault, TypeOK

\* Those who leave lose what was noted of them, the others nothing.
LEMMA ForgetIs ==
  ASSUME TypeOK, NEW D, Forget(D)
  PROVE  /\ heard' \in [Clients -> Seq([loop : Clients, at : Places])]
         /\ due' \in [Clients -> SUBSET Places] /\ excused' \in [Clients -> SUBSET Places]
         /\ \A c \in Clients :
                IF c \in D THEN heard'[c] = <<>> /\ due'[c] = {} /\ excused'[c] = {}
                ELSE heard'[c] = heard[c] /\ due'[c] = due[c] /\ excused'[c] = excused[c]
<1>1. <<>> \in Seq([loop : Clients, at : Places])
  BY EmptyIs
<1> QED
  BY <1>1 DEF Forget, TypeOK

\* Redis executes the PUBLISH, or nothing happens but to the handler.
LEMMA PublishIs ==
  ASSUME NEW x \in Actions, Publish(x)
  PROVE  /\ Deliver(x) \/ UNCHANGED <<published, inbox, due>>
         /\ UNCHANGED <<client, entry, loop, cancelled, heard, excused>>
  BY DEF Publish

LEMMA TypeNext == Inv /\ [Next]_vars => TypeOK'
<1> SUFFICES ASSUME Inv, [Next]_vars PROVE TypeOK'
  OBVIOUS
<1> USE DEF loopVars, editVars, hearVars
<1>t. TypeOK /\ LoopTypes
  BY DEF Inv, TypeOK, LoopTypes
<1>1. CASE UNCHANGED vars
  BY <1>1, <1>t DEF vars, TypeOK, Places
<1>2. ASSUME NEW c \in Clients, Register(c) PROVE TypeOK'
  <2>1. LoopTypes'
    BY <1>2, <1>t DEF Register, LoopTypes
  <2>2. client' \in [Clients -> {"away", "in", "gone"}]
    BY <1>2, <1>t DEF Register, TypeOK
  <2> QED
    BY <1>2, <1>t, <2>1, <2>2 DEF Register, TypeOK, LoopTypes, Places
<1>3. ASSUME NEW c \in Clients, Unregister(c) PROVE TypeOK'
  <2>1. LoopTypes'
    BY <1>3, <1>t DEF Unregister, LoopTypes
  <2>2. client' \in [Clients -> {"away", "in", "gone"}]
    BY <1>3, <1>t DEF Unregister, TypeOK
  <2>3. /\ heard' \in [Clients -> Seq([loop : Clients, at : Places])]
        /\ due' \in [Clients -> SUBSET Places] /\ excused' \in [Clients -> SUBSET Places]
    BY <1>3, <1>t, ForgetIs DEF Unregister
  <2> QED
    BY <1>3, <1>t, <2>1, <2>2, <2>3 DEF Unregister, TypeOK, LoopTypes, Places
<1>4. ASSUME NEW g \in Clients, Subscribed(g) PROVE TypeOK'
  <2>1. LoopTypes'
    BY <1>4, <1>t DEF Subscribed, LoopTypes
  <2> QED
    BY <1>4, <1>t, <2>1 DEF Subscribed, TypeOK, LoopTypes, Places
<1>5. ASSUME NEW g \in Clients, LoopReturns(g) PROVE TypeOK'
  <2>1. LoopTypes'
    BY <1>5, <1>t DEF LoopReturns, LoopTypes
  <2>2. /\ inbox' \in [Clients -> Seq(Places)]
        /\ excused' \in [Clients -> SUBSET Places]
        /\ faults' \in 0 .. MaxFaults
    <3>1. CASE LoseInbox(g)
      BY <1>t, <3>1, LoseInboxType
    <3>2. CASE inbox' = [inbox EXCEPT ![g] = <<>>] /\ UNCHANGED <<excused, faults>>
      BY <1>t, <3>2, EmptyIs DEF TypeOK
    <3> QED
      BY <1>5, <3>1, <3>2 DEF LoopReturns
  <2> QED
    BY <1>5, <1>t, <2>1, <2>2 DEF LoopReturns, TypeOK, LoopTypes, Places
<1>6. ASSUME NEW g \in Clients, Resubscribe(g) PROVE TypeOK'
  <2>1. LoseInbox(g)
    BY <1>6 DEF Resubscribe
  <2> QED
    BY <1>6, <1>t, <2>1, LoseInboxType DEF Resubscribe, TypeOK, Places
<1>7. ASSUME NEW g \in Clients, LoopExits(g) PROVE TypeOK'
  <2>1. LoopTypes'
    BY <1>7, <1>t DEF LoopExits, LoopTypes
  <2> QED
    BY <1>7, <1>t, <2>1 DEF LoopExits, TypeOK, LoopTypes, Places
<1>8. ASSUME NEW g \in Clients, ForwardAction(g) PROVE TypeOK'
  <2>1. inbox[g] \in Seq(Places) /\ inbox[g] # <<>>
    BY <1>8, <1>t DEF ForwardAction, TypeOK
  <2>2. Head(inbox[g]) \in Places /\ Tail(inbox[g]) \in Seq(Places)
    BY <2>1, TailIs
  <2>3. inbox' \in [Clients -> Seq(Places)]
    BY <1>8, <1>t, <2>2 DEF ForwardAction, TakeMessage, TypeOK
  <2>4. /\ heard' \in [Clients -> Seq([loop : Clients, at : Places])]
        /\ excused' \in [Clients -> SUBSET Places]
        /\ faults' \in 0 .. MaxFaults
    <3>1. PICK full \in SUBSET Receivers(g) :
              /\ \/ full = {} /\ UNCHANGED faults
                 \/ full # {} /\ Fault
              /\ heard' = [c \in Clients |->
                              IF c \in Receivers(g) \ full
                              THEN Append(heard[c], [loop |-> g, at |-> Head(inbox[g])])
                              ELSE heard[c]]
              /\ excused' = [c \in Clients |-> IF c \in full
                                               THEN excused[c] \cup {Head(inbox[g])}
                                               ELSE excused[c]]
      BY <1>8 DEF ForwardAction
    <3>2. [loop |-> g, at |-> Head(inbox[g])] \in [loop : Clients, at : Places]
      BY <2>2
    <3>3. ASSUME NEW c \in Clients
          PROVE  Append(heard[c], [loop |-> g, at |-> Head(inbox[g])])
                     \in Seq([loop : Clients, at : Places])
      <4>1. heard[c] \in Seq([loop : Clients, at : Places])
        BY <1>t DEF TypeOK
      <4> QED
        BY <3>2, <4>1, AppendIs
    <3>4. heard' \in [Clients -> Seq([loop : Clients, at : Places])]
      BY <1>t, <3>1, <3>3 DEF TypeOK
    <3>5. excused' \in [Clients -> SUBSET Places]
      BY <1>t, <2>2, <3>1 DEF TypeOK
    <3>6. faults' \in 0 .. MaxFaults
      BY <1>t, <3>1 DEF TypeOK, Fault
    <3> QED
      BY <3>4, <3>5, <3>6
  <2> QED
    BY <1>8, <1>t, <2>3, <2>4 DEF ForwardAction, TypeOK, Places
<1>9. ASSUME NEW x \in Actions, Handle(x) PROVE TypeOK'
  BY <1>9, <1>t DEF Handle, TypeOK, Places
<1>10. ASSUME NEW x \in Actions, Publish(x) PROVE TypeOK'
  <2>0. /\ edit' = [edit EXCEPT ![x] = "done"] \/ UNCHANGED edit
        /\ Fault \/ UNCHANGED faults
    BY <1>10 DEF Publish
  <2>1. edit' \in [Actions -> {"new", "handled", "done"}]
    <3>1. edit \in [Actions -> {"new", "handled", "done"}]
      BY <1>t DEF TypeOK
    <3> QED
      BY <2>0, <3>1
  <2>f. faults' \in 0 .. MaxFaults
    BY <1>t, <2>0 DEF Fault, TypeOK
  <2>2. CASE UNCHANGED <<published, inbox, due>>
    <3>1. Places' = Places
      BY <2>2 DEF Places
    <3>2. UNCHANGED <<client, entry, loop, cancelled, inbox, published, heard, due, excused>>
      BY <1>10, <2>2, PublishIs
    <3> QED
      BY <1>t, <2>1, <2>f, <3>1, <3>2 DEF TypeOK
  <2>3. CASE Deliver(x)
    <3>1. /\ published' = Append(published, x)
          /\ inbox' = [g \in Clients |-> IF g \in Subscribers(x)
                                         THEN Append(inbox[g], Len(published) + 1)
                                         ELSE inbox[g]]
          /\ due' = [c \in Clients |-> IF c \in CanHear(x)
                                       THEN due[c] \cup {Len(published) + 1} ELSE due[c]]
      BY <2>3 DEF Deliver
    <3>2. published' \in Seq(Actions) /\ Len(published) \in Nat
          /\ Len(published') = Len(published) + 1
      BY <1>t, <3>1, AppendIs DEF TypeOK
    <3>3. Places \subseteq Places' /\ Len(published) + 1 \in Places'
      BY <3>2 DEF Places
    <3>4. inbox' \in [Clients -> Seq(Places')]
      <4>1. ASSUME NEW g \in Clients
            PROVE  /\ inbox[g] \in Seq(Places')
                   /\ Append(inbox[g], Len(published) + 1) \in Seq(Places')
        <5>1. inbox[g] \in Seq(Places)
          BY <1>t DEF TypeOK
        <5>2. inbox[g] \in Seq(Places')
          BY <5>1, <3>3, SeqGrows
        <5> QED
          BY <5>2, <3>3, AppendIs
      <4> QED
        BY <4>1, <3>1
    <3>5. heard' \in [Clients -> Seq([loop : Clients, at : Places'])]
      <4>1. ASSUME NEW c \in Clients
            PROVE  heard[c] \in Seq([loop : Clients, at : Places'])
        <5>1. heard[c] \in Seq([loop : Clients, at : Places])
          BY <1>t DEF TypeOK
        <5> QED
          BY <5>1, <3>3, RecordsGrow
      <4> QED
        BY <1>10, <1>t, <4>1, PublishIs DEF TypeOK
    <3>6. due' \in [Clients -> SUBSET (Places')] /\ excused' \in [Clients -> SUBSET (Places')]
      BY <1>10, <1>t, <3>1, <3>3, PublishIs DEF TypeOK
    <3>7. UNCHANGED <<client, entry, loop, cancelled>>
      BY <1>10, PublishIs
    <3>8. published' \in Seq(Actions)
      BY <3>2
    <3> HIDE DEF loopVars, editVars, hearVars
    <3> QED
      BY <1>t, <2>1, <2>f, <3>4, <3>5, <3>6, <3>7, <3>8 DEF TypeOK
  <2> QED
    BY <1>10, <2>2, <2>3, PublishIs
<1>11. ASSUME NEW s \in Servers, Crash(s) PROVE TypeOK'
  <2>1. LoopTypes'
    BY <1>11, <1>t DEF Crash, LoopTypes
  <2>2. inbox' \in [Clients -> Seq(Places)]
    BY <1>11, <1>t, EmptyIs DEF Crash, TypeOK
  <2>3. client' \in [Clients -> {"away", "in", "gone"}]
        /\ edit' \in [Actions -> {"new", "handled", "done"}]
        /\ faults' \in 0 .. MaxFaults
    BY <1>11, <1>t DEF Crash, Fault, TypeOK
  <2>4. /\ heard' \in [Clients -> Seq([loop : Clients, at : Places])]
        /\ due' \in [Clients -> SUBSET Places] /\ excused' \in [Clients -> SUBSET Places]
    BY <1>11, <1>t, ForgetIs DEF Crash
  <2> QED
    BY <1>11, <1>t, <2>1, <2>2, <2>3, <2>4 DEF Crash, TypeOK, LoopTypes, Places
<1> QED
  BY <1>1, <1>2, <1>3, <1>4, <1>5, <1>6, <1>7, <1>8, <1>9, <1>10, <1>11
  DEF Next, Connection, Loop

--------------------------------------------------------------------------------
(***************************************************************************)
(* Who has come, and who is due what.                                      *)
(***************************************************************************)
LEMMA FreshNext == Inv /\ [Next]_vars => AwayIsFresh'
<1> SUFFICES ASSUME Inv, [Next]_vars, NEW c \in Clients, client'[c] = "away"
             PROVE  due'[c] = {} /\ loop'[c] = "none"
  BY DEF AwayIsFresh
<1> USE DEF loopVars, editVars, hearVars
<1>t. /\ client \in [Clients -> {"away", "in", "gone"}]
      /\ loop \in [Clients -> {"none", "subscribing", "listening", "leaving", "stopped"}]
      /\ due \in [Clients -> SUBSET Places]
      /\ client[c] = "away" => due[c] = {} /\ loop[c] = "none"
  BY DEF Inv, TypeOK, AwayIsFresh
<1>1. CASE UNCHANGED vars
  BY <1>1, <1>t DEF vars
<1>2. ASSUME NEW d \in Clients, Register(d) \/ Unregister(d)
      PROVE  due'[c] = {} /\ loop'[c] = "none"
  <2>1. d # c /\ client[c] = "away"
    BY <1>2, <1>t DEF Register, Unregister
  <2>2. due'[c] = due[c]
    BY <1>2, <2>1 DEF Register, Unregister, Forget
  <2> QED
    BY <1>2, <1>t, <2>1, <2>2 DEF Register, Unregister
<1>3. ASSUME NEW g \in Clients, Loop(g) PROVE due'[c] = {} /\ loop'[c] = "none"
  <2>1. UNCHANGED <<client, due>>
    BY <1>3 DEF Loop, Subscribed, ForwardAction, Resubscribe, LoopReturns, LoopExits
  <2>2. loop'[c] = loop[c]
    BY <1>3, <1>t, <2>1
    DEF Loop, Subscribed, ForwardAction, Resubscribe, LoopReturns, LoopExits
  <2> QED
    BY <1>t, <2>1, <2>2
<1>4. ASSUME NEW x \in Actions, Handle(x) \/ Publish(x) PROVE due'[c] = {} /\ loop'[c] = "none"
  <2>1. UNCHANGED <<client, loop>>
    BY <1>4 DEF Handle, Publish, Deliver
  <2>2. due'[c] = due[c]
    BY <1>4, <1>t, <2>1 DEF Handle, Publish, Deliver, CanHear
  <2> QED
    BY <1>t, <2>1, <2>2
<1>5. ASSUME NEW s \in Servers, Crash(s) PROVE due'[c] = {} /\ loop'[c] = "none"
  BY <1>5, <1>t DEF Crash, Forget, Members, Subscription!Members
<1> QED
  BY <1>1, <1>2, <1>3, <1>4, <1>5 DEF Next, Connection

\* Only a publication makes something due, and it adds no more than its place.
LEMMA DueStep ==
  ASSUME Inv, [Next]_vars
  PROVE  \/ UNCHANGED published /\ \A c \in Clients : due'[c] \subseteq due[c]
         \/ \E x \in Actions : Publish(x) /\ Deliver(x)
<1> USE DEF loopVars, editVars, hearVars
<1>1. ASSUME NEW c \in Clients, Register(c) \/ Loop(c) PROVE UNCHANGED <<published, due>>
  BY <1>1 DEF Loop, Register, Subscribed, ForwardAction, Resubscribe, LoopReturns, LoopExits
<1>2. ASSUME NEW x \in Actions, Handle(x) PROVE UNCHANGED <<published, due>>
  BY <1>2 DEF Handle
<1>3. ASSUME NEW x \in Actions, Publish(x)
      PROVE  UNCHANGED <<published, due>> \/ Deliver(x)
  BY <1>3, PublishIs
<1>4. ASSUME NEW d \in Clients, Unregister(d)
      PROVE  UNCHANGED published /\ \A c \in Clients : due'[c] \subseteq due[c]
  BY <1>4 DEF Unregister, Forget
<1>5. ASSUME NEW s \in Servers, Crash(s)
      PROVE  UNCHANGED published /\ \A c \in Clients : due'[c] \subseteq due[c]
  BY <1>5 DEF Crash, Forget
<1> QED
  BY <1>1, <1>2, <1>3, <1>4, <1>5 DEF Next, Connection, vars

LEMMA Published ==
  ASSUME Inv, NEW x \in Actions, Publish(x), Deliver(x)
  PROVE  /\ Len(published) \in Nat
         /\ \A m \in Places : published'[m] = published[m]
         /\ published'[Len(published) + 1] = x
         /\ inbox' = [g \in Clients |-> IF g \in Subscribers(x)
                                         THEN Append(inbox[g], Len(published) + 1)
                                         ELSE inbox[g]]
         /\ due' = [c \in Clients |-> IF c \in CanHear(x)
                                      THEN due[c] \cup {Len(published) + 1} ELSE due[c]]
<1>1. published \in Seq(Actions)
  BY DEF Inv, TypeOK
<1> QED
  BY <1>1, AppendIs DEF Deliver, Places

LEMMA OthersNext == Inv /\ [Next]_vars => DueFromOthers'
<1> SUFFICES ASSUME Inv, [Next]_vars PROVE DueFromOthers'
  OBVIOUS
<1>t. due \in [Clients -> SUBSET Places] /\ DueFromOthers
  BY DEF Inv, TypeOK
<1>1. CASE UNCHANGED published /\ \A c \in Clients : due'[c] \subseteq due[c]
  BY <1>1, <1>t DEF DueFromOthers
<1>2. ASSUME NEW x \in Actions, Publish(x), Deliver(x)
      PROVE  DueFromOthers'
  <2> SUFFICES ASSUME NEW c \in Clients, NEW m \in due'[c]
               PROVE  UserOf[c] # UserOf[AuthorOf[published'[m]]]
    BY DEF DueFromOthers
  <2>1. CASE m \in due[c]
    <3>1. m \in Places /\ UserOf[c] # UserOf[AuthorOf[published[m]]]
      BY <1>t, <2>1 DEF DueFromOthers
    <3> QED
      BY <1>2, <3>1, Published
  <2>2. CASE m \notin due[c]
    <3>1. c \in CanHear(x) /\ m = Len(published) + 1
      BY <1>2, <2>2, Published
    <3>2. published'[m] = x
      BY <1>2, <3>1, Published
    <3> QED
      BY <3>1, <3>2 DEF CanHear
  <2> QED
    BY <2>1, <2>2
<1> QED
  BY <1>1, <1>2, DueStep

--------------------------------------------------------------------------------
(***************************************************************************)
(* What is due is under way.                                               *)
(***************************************************************************)
\* A loop of the instance that nobody cancels and that has the message.
Carries(g, c, m) ==
    /\ ServerOf[g] = ServerOf[c] /\ Listening(g) /\ g \notin cancelled
    /\ \E i \in DOMAIN inbox[g] : inbox[g][i] = m

LEMMA CarriedIsUnderWay == ASSUME NEW c, NEW m
                           PROVE  UnderWay(c, m) <=> \/ Settled(c, m)
                                                     \/ \E g \in Clients : Carries(g, c, m)
  BY DEF UnderWay, Carries

LEMMA UnderWayRegister ==
  ASSUME Inv, NEW d \in Clients, Register(d), NEW c \in Clients, NEW m \in due'[c]
  PROVE  UnderWay(c, m)'
<1> USE DEF Register, loopVars, editVars, hearVars
<1>1. due' = due /\ UnderWay(c, m)
  BY DEF Inv, DueIsUnderWay, UnderWay
<1>2. c # d /\ loop[d] = "none"
  BY <1>1 DEF Inv, AwayIsFresh
<1>3. client'[c] = client[c]
  BY <1>2 DEF Inv, TypeOK
<1>4. Settled(c, m) => Settled(c, m)'
  BY <1>3 DEF Settled, Heard
<1>5. ASSUME NEW g \in Clients, Carries(g, c, m) PROVE Carries(g, c, m)'
  BY <1>2, <1>5 DEF Carries, Listening, Inv, TypeOK
<1> QED
  BY <1>1, <1>4, <1>5, CarriedIsUnderWay DEF UnderWay, Carries

LEMMA UnderWayUnregister ==
  ASSUME Inv, NEW d \in Clients, Unregister(d), NEW c \in Clients, NEW m \in due'[c]
  PROVE  UnderWay(c, m)'
<1> USE DEF Unregister, Forget, loopVars, editVars, hearVars
<1>1. m \in due[c] /\ UnderWay(c, m)
  BY DEF Inv, DueIsUnderWay, UnderWay
<1>2. CASE c = d
  BY <1>2 DEF UnderWay, Settled, Inv, TypeOK
<1>3. CASE c # d
  <2>1. client'[c] = client[c]
    BY <1>3 DEF Inv, TypeOK
  <2>2. Settled(c, m) => Settled(c, m)'
    BY <2>1 DEF Settled, Heard
  <2>3. CASE ~Subscription!LastInGroup(d)
    BY <1>1, <2>1, <2>3 DEF UnderWay, Settled, Heard, Listening
  <2>4. CASE Subscription!LastInGroup(d)
    <3>1. CASE ServerOf[c] = ServerOf[d]
      BY <1>3, <2>1, <2>4, <3>1 DEF Subscription!LastInGroup, Members, Subscription!Members,
                                    UnderWay, Settled
    <3>2. CASE ServerOf[c] # ServerOf[d]
      <4>1. ASSUME NEW g \in Clients, ServerOf[g] = ServerOf[c], g \notin cancelled
            PROVE  g \notin cancelled'
        BY <2>4, <3>2, <4>1 DEF Inv, TypeOK
      <4>2. ASSUME NEW g \in Clients, Carries(g, c, m) PROVE Carries(g, c, m)'
        BY <4>1, <4>2 DEF Carries, Listening
      <4> QED
        BY <1>1, <2>2, <4>2, CarriedIsUnderWay DEF UnderWay, Carries
    <3> QED
      BY <3>1, <3>2
  <2> QED
    BY <2>3, <2>4
<1> QED
  BY <1>2, <1>3

\* The steps of a loop that forward nothing: what it loses is excused.
LEMMA UnderWayLoop ==
  ASSUME Inv, NEW h \in Clients,
         Subscribed(h) \/ LoopReturns(h) \/ Resubscribe(h) \/ LoopExits(h),
         NEW c \in Clients, NEW m \in due'[c]
  PROVE  UnderWay(c, m)'
<1> USE DEF loopVars, editVars, hearVars
<1>1. due' = due /\ client' = client /\ heard' = heard /\ cancelled' = cancelled
  BY DEF Subscribed, LoopReturns, Resubscribe, LoopExits, LoseInbox
<1>2. UnderWay(c, m)
  BY <1>1 DEF Inv, DueIsUnderWay, UnderWay
<1>3. excused[c] \subseteq excused'[c]
  <2>1. CASE LoseInbox(h)
    BY <2>1 DEF LoseInbox
  <2>2. CASE ~LoseInbox(h)
    BY <2>2 DEF Subscribed, LoopReturns, Resubscribe, LoopExits
  <2> QED
    BY <2>1, <2>2
<1>4. Settled(c, m) => Settled(c, m)'
  BY <1>1, <1>3 DEF Settled, Heard
<1>5. ASSUME NEW g \in Clients, g # h, Carries(g, c, m) PROVE Carries(g, c, m)'
  BY <1>1, <1>5
  DEF Carries, Listening, Subscribed, LoopReturns, Resubscribe, LoopExits, LoseInbox, Inv,
      TypeOK
<1>6. ASSUME Carries(h, c, m), client[c] = "in" PROVE Settled(c, m)'
  <2>1. LoseInbox(h)
    BY <1>6 DEF Carries, Listening, Subscribed, LoopReturns, Resubscribe, LoopExits
  <2>2. c \in Members(ServerOf[h])
    BY <1>6 DEF Carries, Members, Subscription!Members
  <2>3. m \in excused'[c]
    BY <1>6, <2>1, <2>2 DEF Carries, LoseInbox
  <2> QED
    BY <2>3 DEF Settled
<1>7. client[c] # "in" => Settled(c, m)'
  BY <1>1 DEF Settled
<1> QED
  BY <1>2, <1>4, <1>5, <1>6, <1>7, CarriedIsUnderWay DEF UnderWay, Carries

LEMMA UnderWayForward ==
  ASSUME Inv, NEW h \in Clients, ForwardAction(h), NEW c \in Clients, NEW m \in due'[c]
  PROVE  UnderWay(c, m)'
<1> USE DEF loopVars, editVars, hearVars
<1>1. UNCHANGED <<due, client, loop, cancelled, published>>
  BY DEF ForwardAction
<1>2. UnderWay(c, m) /\ UserOf[c] # UserOf[AuthorOf[published[m]]]
  BY <1>1 DEF Inv, DueIsUnderWay, UnderWay, DueFromOthers
<1>3. PICK full \in SUBSET Receivers(h) :
          /\ heard' = [d \in Clients |->
                          IF d \in Receivers(h) \ full
                          THEN Append(heard[d], [loop |-> h, at |-> Head(inbox[h])])
                          ELSE heard[d]]
          /\ excused' = [d \in Clients |-> IF d \in full
                                           THEN excused[d] \cup {Head(inbox[h])}
                                           ELSE excused[d]]
  BY DEF ForwardAction
<1>4. inbox[h] \in Seq(Places) /\ inbox[h] # <<>> /\ inbox'[h] = Tail(inbox[h])
  BY DEF ForwardAction, TakeMessage, Inv, TypeOK
<1>5. heard[c] \in Seq([loop : Clients, at : Places])
  BY DEF Inv, TypeOK
<1>6. [loop |-> h, at |-> Head(inbox[h])] \in [loop : Clients, at : Places]
  BY <1>4, TailIs
<1> DEFINE longer == Append(heard[c], [loop |-> h, at |-> Head(inbox[h])])
<1>7. /\ \A i \in DOMAIN heard[c] : i \in DOMAIN longer /\ longer[i] = heard[c][i]
      /\ \E i \in DOMAIN longer : longer[i].at = Head(inbox[h])
  <2>1. /\ Len(heard[c]) \in Nat /\ DOMAIN heard[c] = 1 .. Len(heard[c])
        /\ DOMAIN longer = 1 .. Len(heard[c]) + 1
        /\ \A i \in DOMAIN heard[c] : longer[i] = heard[c][i]
        /\ longer[Len(heard[c]) + 1] = [loop |-> h, at |-> Head(inbox[h])]
    BY <1>5, <1>6, AppendIs
  <2> HIDE DEF longer
  <2>2. DOMAIN heard[c] \subseteq DOMAIN longer /\ Len(heard[c]) + 1 \in DOMAIN longer
    BY <2>1
  <2>3. longer[Len(heard[c]) + 1].at = Head(inbox[h])
    BY <2>1
  <2> QED
    BY <2>1, <2>2, <2>3
<1> HIDE DEF longer
<1>8. heard'[c] = IF c \in Receivers(h) \ full THEN longer ELSE heard[c]
  BY <1>3 DEF longer
<1>9. Heard(c) \subseteq Heard(c)'
  BY <1>7, <1>8 DEF Heard
<1>10. Settled(c, m) => Settled(c, m)'
  BY <1>1, <1>3, <1>9 DEF Settled
<1>11. ASSUME NEW g \in Clients, g # h, Carries(g, c, m) PROVE Carries(g, c, m)'
  BY <1>1, <1>11 DEF Carries, Listening, ForwardAction, TakeMessage, Inv, TypeOK
<1>12. ASSUME Carries(h, c, m) PROVE Carries(h, c, m)' \/ Settled(c, m)'
  <2>1. PICK i \in DOMAIN inbox[h] : inbox[h][i] = m
    BY <1>12 DEF Carries
  <2>2. CASE i = 1
    <3>1. m = Head(inbox[h])
      BY <1>4, <2>1, <2>2, TailIs
    <3>2. CASE client[c] # "in"
      BY <1>1, <3>2 DEF Settled
    <3>3. CASE client[c] = "in"
      <4>1. c \in Receivers(h)
        BY <1>2, <1>12, <3>1, <3>3 DEF Receivers, Members, Subscription!Members, Carries
      <4>2. CASE c \in full
        BY <1>3, <3>1, <4>2 DEF Settled
      <4>3. CASE c \notin full
        BY <1>7, <1>8, <3>1, <4>1, <4>3 DEF Settled, Heard
      <4> QED
        BY <4>2, <4>3
    <3> QED
      BY <3>2, <3>3
  <2>3. CASE i # 1
    <3>1. i - 1 \in DOMAIN Tail(inbox[h]) /\ Tail(inbox[h])[i - 1] = m
      BY <1>4, <2>1, <2>3, TailIs
    <3> QED
      BY <1>1, <1>4, <1>12, <3>1 DEF Carries, Listening
  <2> QED
    BY <2>2, <2>3
<1> QED
  BY <1>2, <1>10, <1>11, <1>12, CarriedIsUnderWay DEF UnderWay, Carries

LEMMA UnderWayPublish ==
  ASSUME Inv, NEW x \in Actions, Publish(x), Deliver(x),
         NEW c \in Clients, NEW m \in due'[c]
  PROVE  UnderWay(c, m)'
<1> USE DEF loopVars, editVars, hearVars
<1>1. UNCHANGED <<client, loop, cancelled, heard, excused>>
  BY DEF Publish, Deliver
<1>2. Len(published) + 1 \in Nat
  BY Published
<1>3. ASSUME NEW g \in Clients
      PROVE  /\ \A i \in DOMAIN inbox[g] : i \in DOMAIN inbox'[g] /\ inbox'[g][i] = inbox[g][i]
             /\ Listening(g) => \E i \in DOMAIN inbox'[g] : inbox'[g][i] = Len(published) + 1
  <2>1. inbox[g] \in Seq(Places) /\ Places \subseteq Nat
    BY DEF Inv, TypeOK, Places
  <2>2. inbox[g] \in Seq(Nat)
    BY <2>1, SeqGrows
  <2>3. inbox'[g] = IF Listening(g) THEN Append(inbox[g], Len(published) + 1) ELSE inbox[g]
    BY Published DEF Subscribers
  <2>4. CASE Listening(g)
    <3>1. inbox'[g] = Append(inbox[g], Len(published) + 1)
      BY <2>3, <2>4
    <3>2. Len(inbox[g]) + 1 \in 1 .. Len(inbox[g]) + 1
      BY <2>2, SeqIs
    <3>3. DOMAIN inbox[g] \subseteq DOMAIN inbox'[g]
      BY <1>2, <2>2, <3>1, AppendIs
    <3> QED
      BY <1>2, <2>2, <3>1, <3>2, <3>3, AppendIs
  <2> QED
    BY <2>3, <2>4
<1>4. CASE m \in due[c]
  <2>1. UnderWay(c, m)
    BY <1>4 DEF Inv, DueIsUnderWay, UnderWay
  <2>2. Settled(c, m) => Settled(c, m)'
    BY <1>1 DEF Settled, Heard
  <2>3. ASSUME NEW g \in Clients, Carries(g, c, m) PROVE Carries(g, c, m)'
    BY <1>1, <1>3, <2>3 DEF Carries, Listening
  <2> QED
    BY <2>1, <2>2, <2>3, CarriedIsUnderWay DEF UnderWay, Carries
<1>5. CASE m \notin due[c]
  <2>1. c \in CanHear(x) /\ m = Len(published) + 1
    BY <1>5, Published
  <2>2. PICK g \in Clients : Listening(g) /\ g \notin cancelled /\ ServerOf[g] = ServerOf[c]
    BY <2>1 DEF CanHear
  <2>3. Carries(g, c, m)'
    BY <1>1, <1>3, <2>1, <2>2 DEF Carries, Listening
  <2> QED
    BY <2>3 DEF UnderWay, Carries
<1> QED
  BY <1>4, <1>5

LEMMA UnderWayCrash ==
  ASSUME Inv, NEW s \in Servers, Crash(s), NEW c \in Clients, NEW m \in due'[c]
  PROVE  UnderWay(c, m)'
<1> USE DEF Crash, Forget, loopVars, editVars, hearVars
<1>1. m \in due[c] /\ UnderWay(c, m)
  BY DEF Inv, DueIsUnderWay, UnderWay
<1>2. CASE client'[c] # "in"
  BY <1>2 DEF UnderWay, Settled
<1>3. CASE client'[c] = "in"
  <2>1. client[c] = "in" /\ ServerOf[c] # s
    BY <1>3 DEF Members, Subscription!Members, Inv, TypeOK
  <2>2. Settled(c, m) => Settled(c, m)'
    BY <2>1 DEF Settled, Heard
  <2>3. ASSUME NEW g \in Clients, Carries(g, c, m) PROVE Carries(g, c, m)'
    BY <2>1, <2>3 DEF Carries, Listening
  <2> QED
    BY <1>1, <2>2, <2>3, CarriedIsUnderWay DEF UnderWay, Carries
<1> QED
  BY <1>2, <1>3

LEMMA UnderWayNext == Inv /\ [Next]_vars => DueIsUnderWay'
<1> SUFFICES ASSUME Inv, [Next]_vars, NEW c \in Clients, NEW m \in due'[c]
             PROVE  UnderWay(c, m)'
  BY DEF DueIsUnderWay, UnderWay
<1>1. ASSUME UNCHANGED <<client, loopVars, published, hearVars>> PROVE UnderWay(c, m)'
  BY <1>1 DEF loopVars, hearVars, Inv, DueIsUnderWay, UnderWay, Settled, Heard, Listening
<1>2. ASSUME NEW x \in Actions, Handle(x) \/ (Publish(x) /\ ~Deliver(x))
      PROVE UNCHANGED <<client, loopVars, published, hearVars>>
  BY <1>2 DEF Handle, Publish, Deliver, loopVars, hearVars
<1>3. CASE UNCHANGED vars
  BY <1>1, <1>3 DEF vars, loopVars, editVars, hearVars
<1> QED
  BY <1>1, <1>2, <1>3, UnderWayRegister, UnderWayUnregister, UnderWayLoop, UnderWayForward,
     UnderWayPublish, UnderWayCrash
  DEF Next, Connection, Loop

--------------------------------------------------------------------------------
(***************************************************************************)
(* Each loop tells every message at most once, and in order.               *)
(***************************************************************************)
LEMMA OrderKept ==
  ASSUME Inv,
         \A c \in Clients : heard'[c] = heard[c] \/ heard'[c] = <<>>,
         \A g \in Clients : inbox'[g] = inbox[g] \/ inbox'[g] = <<>>
  PROVE  OrderInv'
<1>1. /\ \A g \in Clients : \A i \in DOMAIN inbox'[g] : inbox'[g] = inbox[g]
      /\ \A c \in Clients : \A i \in DOMAIN heard'[c] : heard'[c] = heard[c]
  OBVIOUS
<1>2. ASSUME NEW c \in Clients, NEW i \in DOMAIN heard[c] PROVE heard[c][i].loop \in Clients
  <2>1. heard[c] \in Seq([loop : Clients, at : Places])
    BY DEF Inv, TypeOK
  <2> QED
    BY <2>1, RecordsAre
<1>3. InboxSorted'
  BY <1>1 DEF Inv, OrderInv, InboxSorted
<1>4. HeardInOrder'
  BY <1>1 DEF Inv, OrderInv, HeardInOrder
<1>5. HeardBeforeInbox'
  <2> SUFFICES ASSUME NEW c \in Clients, NEW i \in DOMAIN heard'[c],
                      NEW k \in DOMAIN inbox'[heard'[c][i].loop]
               PROVE  heard'[c][i].at < inbox'[heard'[c][i].loop][k]
    BY DEF HeardBeforeInbox
  <2>1. heard'[c] = heard[c] /\ heard[c][i].loop \in Clients
    BY <1>1, <1>2
  <2>2. inbox'[heard[c][i].loop] = inbox[heard[c][i].loop]
    BY <1>1, <2>1
  <2> QED
    BY <2>1, <2>2 DEF Inv, OrderInv, HeardBeforeInbox
<1> QED
  BY <1>3, <1>4, <1>5 DEF OrderInv

\* The place of a new message is after those of all messages there are.
LEMMA OrderPublish ==
  ASSUME Inv, NEW x \in Actions, Publish(x), Deliver(x)
  PROVE  OrderInv'
<1> DEFINE n == Len(published) + 1
<1>1. heard' = heard /\ n \in Nat
  BY Published DEF Publish, Deliver, hearVars
<1>2. ASSUME NEW g \in Clients
      PROVE  \/ inbox'[g] = inbox[g]
             \/ /\ DOMAIN inbox[g] \subseteq Nat
                /\ \A i \in DOMAIN inbox'[g] :
                      \/ /\ i \in DOMAIN inbox[g] /\ inbox'[g][i] = inbox[g][i]
                         /\ inbox[g][i] \in Places
                      \/ inbox'[g][i] = n /\ \A j \in DOMAIN inbox[g] : j < i
                /\ \A i, j \in DOMAIN inbox'[g] : i < j => i \in DOMAIN inbox[g]
  <2>1. inbox[g] \in Seq(Places) /\ Places \subseteq Nat
    BY DEF Inv, TypeOK, Places
  <2>2. inbox[g] \in Seq(Nat)
    BY <2>1, SeqGrows
  <2>3. inbox'[g] = inbox[g] \/ inbox'[g] = Append(inbox[g], n)
    BY Published
  <2>4. CASE inbox'[g] = Append(inbox[g], n)
    <3>1. /\ Len(inbox[g]) \in Nat /\ DOMAIN inbox[g] = 1 .. Len(inbox[g])
          /\ DOMAIN inbox'[g] = 1 .. Len(inbox[g]) + 1
          /\ inbox'[g][Len(inbox[g]) + 1] = n
          /\ \A i \in DOMAIN inbox[g] : inbox'[g][i] = inbox[g][i]
      BY <1>1, <2>2, <2>4, AppendIs
    <3>2. \A i \in DOMAIN inbox[g] : inbox[g][i] \in Places
      BY <2>1, SeqIs
    <3>3. \A i \in DOMAIN inbox'[g] : i \in DOMAIN inbox[g] \/ i = Len(inbox[g]) + 1
      BY <3>1
    <3> HIDE DEF n
    <3> QED
      BY <3>1, <3>2, <3>3
  <2> QED
    BY <2>3, <2>4
<1>3. \A p \in Places : p < n
  BY Published DEF Places
<1> HIDE DEF n
<1>4. InboxSorted'
  <2> SUFFICES ASSUME NEW g \in Clients, NEW i \in DOMAIN inbox'[g], NEW j \in DOMAIN inbox'[g],
                      i < j
               PROVE  inbox'[g][i] < inbox'[g][j]
    BY DEF InboxSorted
  <2>1. CASE inbox'[g] = inbox[g]
    BY <2>1 DEF Inv, OrderInv, InboxSorted
  <2>2. CASE inbox'[g] # inbox[g]
    <3>1. i \in DOMAIN inbox[g]
      BY <1>2, <2>2
    <3>2. inbox'[g][i] = inbox[g][i] /\ inbox[g][i] \in Places
      BY <1>2, <2>2, <3>1
    <3>3. CASE inbox'[g][j] = n
      BY <1>3, <3>2, <3>3
    <3>4. CASE j \in DOMAIN inbox[g] /\ inbox'[g][j] = inbox[g][j]
      BY <3>1, <3>2, <3>4 DEF Inv, OrderInv, InboxSorted
    <3> QED
      BY <1>2, <2>2, <3>3, <3>4
  <2> QED
    BY <2>1, <2>2
<1>5. HeardBeforeInbox'
  <2> SUFFICES ASSUME NEW c \in Clients, NEW i \in DOMAIN heard[c],
                      NEW k \in DOMAIN inbox'[heard[c][i].loop]
               PROVE  heard[c][i].at < inbox'[heard[c][i].loop][k]
    BY <1>1 DEF HeardBeforeInbox
  <2>1. heard[c][i].loop \in Clients /\ heard[c][i].at \in Places
    <3>1. heard[c] \in Seq([loop : Clients, at : Places])
      BY DEF Inv, TypeOK
    <3> QED
      BY <3>1, RecordsAre
  <2> DEFINE g == heard[c][i].loop
  <2>2. CASE inbox'[g] = inbox[g]
    BY <2>2 DEF Inv, OrderInv, HeardBeforeInbox
  <2>3. CASE inbox'[g] # inbox[g]
    <3>1. CASE inbox'[g][k] = n
      BY <1>3, <2>1, <3>1
    <3>2. CASE k \in DOMAIN inbox[g] /\ inbox'[g][k] = inbox[g][k]
      BY <3>2 DEF Inv, OrderInv, HeardBeforeInbox
    <3> QED
      BY <1>2, <2>1, <2>3, <3>1, <3>2
  <2> QED
    BY <2>2, <2>3
<1> QED
  BY <1>1, <1>4, <1>5 DEF Inv, OrderInv, HeardInOrder

\* A loop forwards its first message, which is after all it has forwarded and before all
\* it still has.
LEMMA OrderForward == ASSUME Inv, NEW h \in Clients, ForwardAction(h) PROVE OrderInv'
<1> DEFINE first == Head(inbox[h])
           entryOf == [loop |-> h, at |-> first]
<1>1. inbox[h] \in Seq(Places) /\ inbox[h] # <<>> /\ Places \subseteq Nat
  BY DEF ForwardAction, Inv, TypeOK, Places
<1>2. /\ inbox'[h] = Tail(inbox[h])
      /\ \A g \in Clients : g # h => inbox'[g] = inbox[g]
  BY DEF ForwardAction, TakeMessage, Inv, TypeOK
<1>3. /\ first \in Places /\ first = inbox[h][1] /\ 1 \in DOMAIN inbox[h]
      /\ DOMAIN inbox[h] \subseteq Nat
      /\ \A i \in DOMAIN inbox'[h] :
             i + 1 \in DOMAIN inbox[h] /\ inbox'[h][i] = inbox[h][i + 1] /\ i \in Nat /\ i >= 1
      /\ \A i \in DOMAIN inbox[h] : inbox[h][i] \in Nat
  <2>1. /\ first \in Places /\ first = inbox[h][1] /\ 1 \in DOMAIN inbox[h]
        /\ Len(inbox[h]) \in Nat /\ DOMAIN inbox[h] = 1 .. Len(inbox[h])
        /\ DOMAIN inbox'[h] = 1 .. Len(inbox[h]) - 1
        /\ \A i \in DOMAIN inbox'[h] :
               i + 1 \in DOMAIN inbox[h] /\ inbox'[h][i] = inbox[h][i + 1]
    BY <1>1, <1>2, TailIs
  <2>2. \A i \in DOMAIN inbox[h] : inbox[h][i] \in Places
    BY <1>1, SeqIs
  <2>3. Places \subseteq Nat
    BY <1>1
  <2>4. \A i \in DOMAIN inbox'[h] : i \in Nat /\ i >= 1
    BY <2>1
  <2>5. DOMAIN inbox[h] \subseteq Nat
    BY <2>1
  <2>6. \A i \in DOMAIN inbox[h] : inbox[h][i] \in Nat
    BY <2>2, <2>3
  <2> QED
    BY <2>1, <2>4, <2>5, <2>6
<1>4. entryOf \in [loop : Clients, at : Places]
  BY <1>3
<1>5. ASSUME NEW c \in Clients
      PROVE  /\ Len(heard[c]) \in Nat /\ DOMAIN heard[c] = 1 .. Len(heard[c])
             /\ \A i \in DOMAIN heard[c] : heard[c][i].loop \in Clients /\ heard[c][i].at \in Nat
             /\ \/ heard'[c] = heard[c]
                \/ /\ DOMAIN heard'[c] = 1 .. Len(heard[c]) + 1
                   /\ heard'[c][Len(heard[c]) + 1] = entryOf
                   /\ \A i \in DOMAIN heard[c] : heard'[c][i] = heard[c][i]
  <2>1. heard[c] \in Seq([loop : Clients, at : Places])
    BY DEF Inv, TypeOK
  <2>2. heard'[c] = heard[c] \/ heard'[c] = Append(heard[c], entryOf)
    BY DEF ForwardAction
  <2>3. /\ Len(heard[c]) \in Nat /\ DOMAIN heard[c] = 1 .. Len(heard[c])
        /\ \A i \in DOMAIN heard[c] : heard[c][i].loop \in Clients /\ heard[c][i].at \in Nat
    BY <1>1, <2>1, RecordsAre
  <2> HIDE DEF entryOf
  <2>4. CASE heard'[c] = Append(heard[c], entryOf)
    BY <1>4, <2>1, <2>3, <2>4, AppendIs
  <2> QED
    BY <2>2, <2>3, <2>4
<1>6. entryOf.loop = h /\ entryOf.at = first
  OBVIOUS
<1> HIDE DEF entryOf, first
<1>7. InboxSorted'
  <2> SUFFICES ASSUME NEW g \in Clients, NEW i \in DOMAIN inbox'[g], NEW j \in DOMAIN inbox'[g],
                      i < j
               PROVE  inbox'[g][i] < inbox'[g][j]
    BY DEF InboxSorted
  <2>1. CASE g = h
    BY <1>3, <2>1 DEF Inv, OrderInv, InboxSorted
  <2>2. CASE g # h
    BY <1>2, <2>2 DEF Inv, OrderInv, InboxSorted
  <2> QED
    BY <2>1, <2>2
<1>8. ASSUME NEW k \in DOMAIN inbox'[h] PROVE first < inbox'[h][k]
  BY <1>3 DEF Inv, OrderInv, InboxSorted
<1>9. HeardBeforeInbox'
  <2> SUFFICES ASSUME NEW c \in Clients, NEW i \in DOMAIN heard'[c],
                      NEW k \in DOMAIN inbox'[heard'[c][i].loop]
               PROVE  heard'[c][i].at < inbox'[heard'[c][i].loop][k]
    BY DEF HeardBeforeInbox
  <2>1. CASE heard'[c][i] = entryOf
    BY <1>6, <1>8, <2>1
  <2>2. CASE i \in DOMAIN heard[c] /\ heard'[c][i] = heard[c][i]
    <3>1. heard[c][i].loop \in Clients
      BY <1>5, <2>2
    <3>2. CASE heard[c][i].loop = h
      <4>1. k \in DOMAIN inbox'[h]
        BY <2>2, <3>2
      <4>2. k + 1 \in DOMAIN inbox[h] /\ inbox'[h][k] = inbox[h][k + 1]
        BY <1>3, <4>1
      <4>3. heard[c][i].at < inbox[h][k + 1]
        BY <2>2, <3>2, <4>2 DEF Inv, OrderInv, HeardBeforeInbox
      <4> QED
        BY <2>2, <3>2, <4>2, <4>3
    <3>3. CASE heard[c][i].loop # h
      BY <1>2, <2>2, <3>1, <3>3 DEF Inv, OrderInv, HeardBeforeInbox
    <3> QED
      BY <3>2, <3>3
  <2>3. i \in DOMAIN heard[c] \/ heard'[c][i] = entryOf
    BY <1>5
  <2> QED
    BY <1>5, <2>1, <2>2, <2>3
<1>10. HeardInOrder'
  <2> SUFFICES ASSUME NEW c \in Clients, NEW i \in DOMAIN heard'[c], NEW j \in DOMAIN heard'[c],
                      i < j, heard'[c][i].loop = heard'[c][j].loop
               PROVE  heard'[c][i].at < heard'[c][j].at
    BY DEF HeardInOrder
  <2>1. CASE heard'[c] = heard[c]
    BY <2>1 DEF Inv, OrderInv, HeardInOrder
  <2>2. CASE heard'[c] # heard[c]
    <3>1. i \in DOMAIN heard[c] /\ heard'[c][i] = heard[c][i]
      BY <1>5, <2>2
    <3>4. heard'[c][j] = entryOf \/ (j \in DOMAIN heard[c] /\ heard'[c][j] = heard[c][j])
      BY <1>5, <2>2
    <3>2. CASE heard'[c][j] = entryOf
      <4>1. heard[c][i].loop = h /\ heard'[c][j].at = first
        BY <1>6, <3>1, <3>2
      <4>2. heard[c][i].at < inbox[h][1]
        BY <1>3, <3>1, <4>1 DEF Inv, OrderInv, HeardBeforeInbox
      <4> QED
        BY <1>3, <3>1, <4>1, <4>2
    <3>3. CASE j \in DOMAIN heard[c] /\ heard'[c][j] = heard[c][j]
      BY <3>1, <3>3 DEF Inv, OrderInv, HeardInOrder
    <3> QED
      BY <3>2, <3>3, <3>4
  <2> QED
    BY <2>1, <2>2
<1> QED
  BY <1>7, <1>9, <1>10 DEF OrderInv

LEMMA OrderNext == Inv /\ [Next]_vars => OrderInv'
<1> SUFFICES ASSUME Inv, [Next]_vars PROVE OrderInv'
  OBVIOUS
<1> USE DEF loopVars, editVars, hearVars
<1>t. inbox \in [Clients -> Seq(Places)]
  BY DEF Inv, TypeOK
<1>1. CASE UNCHANGED vars
  BY <1>1, OrderKept DEF vars
<1>2. ASSUME NEW c \in Clients, Connection(c) PROVE OrderInv'
  <2>1. /\ UNCHANGED inbox
        /\ \A d \in Clients : heard'[d] = heard[d] \/ heard'[d] = <<>>
    BY <1>2 DEF Connection, Register, Unregister, Forget
  <2> QED
    BY <2>1, OrderKept
<1>3. ASSUME NEW g \in Clients,
             Subscribed(g) \/ LoopReturns(g) \/ Resubscribe(g) \/ LoopExits(g)
      PROVE  OrderInv'
  <2>1. /\ UNCHANGED heard
        /\ \A h \in Clients : inbox'[h] = inbox[h] \/ inbox'[h] = <<>>
    BY <1>3, <1>t DEF Subscribed, LoopReturns, Resubscribe, LoopExits, LoseInbox
  <2> QED
    BY <2>1, OrderKept
<1>4. ASSUME NEW x \in Actions, Handle(x) \/ Publish(x) PROVE OrderInv'
  <2>1. CASE Publish(x) /\ Deliver(x)
    BY <2>1, OrderPublish
  <2>2. CASE ~(Publish(x) /\ Deliver(x))
    <3>1. UNCHANGED <<inbox, heard>>
      BY <1>4, <2>2, PublishIs DEF Handle
    <3> QED
      BY <3>1, OrderKept
  <2> QED
    BY <2>1, <2>2
<1>5. ASSUME NEW s \in Servers, Crash(s) PROVE OrderInv'
  <2>1. /\ \A c \in Clients : heard'[c] = heard[c] \/ heard'[c] = <<>>
        /\ \A h \in Clients : inbox'[h] = inbox[h] \/ inbox'[h] = <<>>
    BY <1>5, <1>t DEF Crash, Forget
  <2> QED
    BY <2>1, OrderKept
<1> QED
  BY <1>1, <1>2, <1>3, <1>4, <1>5, OrderForward DEF Next, Loop

--------------------------------------------------------------------------------
LEMMA InvNext == Inv /\ [Next]_vars => Inv'
  BY TypeNext, FreshNext, OthersNext, UnderWayNext, OrderNext DEF Inv

LEMMA InvAlways == Spec => []Inv
<1>1. Inv /\ [Next]_vars => Inv'
  BY InvNext
<1> QED
  BY InitInv, <1>1, PTL DEF Spec

\* The variables keep their types, and an entry of Hub.roomSubscriptions is that of a loop
\* that runs.
THEOREM TypeCorrect == Spec => []TypeOK
<1>1. Inv => TypeOK
  BY DEF Inv
<1> QED
  BY InvAlways, <1>1, PTL

\* An action that a client could hear when it was published is never taken from it by the
\* coming and going of others, on any instance.
THEOREM DueStaysUnderWay == Spec => []DueIsUnderWay
<1>1. Inv => DueIsUnderWay
  BY DEF Inv
<1> QED
  BY InvAlways, <1>1, PTL

\* A loop tells a client every message at most once, in the order in which Redis took them.
THEOREM LoopsTellInOrder == Spec => []HeardInOrder
<1>1. Inv => HeardInOrder
  BY DEF Inv, OrderInv
<1> QED
  BY InvAlways, <1>1, PTL
================================================================================
