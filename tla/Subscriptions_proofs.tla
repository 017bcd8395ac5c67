--------------------------- MODULE Subscriptions_proofs ---------------------------
(***************************************************************************)
(* What Subscriptions promises, for any number of clients and groups: the  *)
(* three properties hold together, once it is added that only who has come *)
(* has a loop and only a loop is cancelled.                                *)
(***************************************************************************)
EXTENDS Subscriptions, TLAPS

USE DEF ConstantsFit

StartedByComers == /\ \A c \in Clients : loop[c] # "none" => client[c] # "away"
                   /\ \A c \in cancelled : loop[c] # "none"

Inv == TypeOK /\ StartedByComers /\ EntryIsLive /\ OccupiedIsSubscribed

LEMMA InitInv == ConstantsFit /\ Init => Inv
  BY DEF Init, Inv, TypeOK, Alive, StartedByComers, EntryIsLive, OccupiedIsSubscribed,
         Members

LEMMA TypeOKNext == ConstantsFit /\ TypeOK /\ [Next]_vars => TypeOK'
<1> SUFFICES ASSUME ConstantsFit, TypeOK, [Next]_vars PROVE TypeOK'
  OBVIOUS
<1> USE DEF TypeOK, Alive
<1>1. ASSUME NEW c \in Clients, Register(c) \/ Unregister(c) PROVE TypeOK'
  BY <1>1 DEF Register, Unregister, LastInGroup
<1>2. ASSUME NEW g \in Clients, Subscribed(g) \/ LoopReturns(g) \/ LoopExits(g)
      PROVE  TypeOK'
  BY <1>2 DEF Subscribed, LoopReturns, LoopExits, DeleteEntry
<1>3. CASE StopAll
  BY <1>3 DEF StopAll
<1>4. ASSUME NEW G \in Groups, Crash(G) PROVE TypeOK'
  BY <1>4 DEF Crash
<1>5. CASE UNCHANGED vars
  BY <1>5 DEF vars
<1> QED BY <1>1, <1>2, <1>3, <1>4, <1>5 DEF Next

\* The first to come starts a loop nobody has heard of; an entry it finds serves it.
LEMMA RegisterInv == ASSUME ConstantsFit, Inv, NEW c \in Clients, Register(c) PROVE Inv'
<1> USE DEF Inv, TypeOK
<1>1. TypeOK'
  BY TypeOKNext DEF Next
<1>2. UNCHANGED <<cancelled, stopped>> /\ GroupOf[c] \in Groups
      /\ client' = [client EXCEPT ![c] = "in"] /\ client[c] = "away"
  BY DEF Register
<1>3. loop[c] = "none" /\ c \notin cancelled
  BY <1>2 DEF StartedByComers
<1>4. ASSUME NEW G \in Groups, Members(G)' # {}, Members(G) = {} PROVE G = GroupOf[c]
  BY <1>2, <1>4 DEF Members
<1>5. CASE UNCHANGED <<entry, loop>>
  <2>1. Members(GroupOf[c]) # {} \/ entry[GroupOf[c]] # NoLoop
    BY <1>2, <1>3, <1>5 DEF Register, Alive
  <2>2. StartedByComers' /\ EntryIsLive'
    BY <1>2, <1>5 DEF StartedByComers, EntryIsLive
  <2>3. ASSUME NEW G \in Groups \ stopped, Members(G)' # {}
        PROVE  \E g \in Clients : GroupOf[g] = G /\ loop[g] # "none" /\ g \notin cancelled
    <3>1. CASE Members(G) # {}
      BY <3>1 DEF OccupiedIsSubscribed
    <3>2. CASE Members(G) = {}
      <4>1. G = GroupOf[c] /\ entry[G] # NoLoop
        BY <1>4, <2>1, <2>3, <3>2
      <4> QED BY <1>2, <4>1 DEF EntryIsLive, Alive
    <3> QED BY <3>1, <3>2
  <2> QED BY <1>1, <1>2, <1>5, <2>2, <2>3 DEF OccupiedIsSubscribed
<1>6. CASE ~UNCHANGED <<entry, loop>>
  <2>1. /\ entry[GroupOf[c]] = NoLoop
        /\ entry' = [entry EXCEPT ![GroupOf[c]] = c]
        /\ loop' = [loop EXCEPT ![c] = "subscribing"]
    BY <1>6 DEF Register
  <2>2. StartedByComers'
    BY <1>2, <2>1 DEF StartedByComers
  <2>3. EntryIsLive'
    BY <1>2, <1>3, <2>1 DEF EntryIsLive, Alive
  <2>4. OccupiedIsSubscribed'
    <3>1. ASSUME NEW G \in Groups \ stopped, Members(G)' # {}
          PROVE  \E g \in Clients : GroupOf[g] = G /\ loop'[g] # "none" /\ g \notin cancelled
      <4>1. CASE G = GroupOf[c]
        BY <1>3, <2>1, <4>1
      <4>2. CASE G # GroupOf[c]
        <5>1. PICK g \in Clients : GroupOf[g] = G /\ loop[g] # "none" /\ g \notin cancelled
          BY <1>4, <3>1, <4>2 DEF OccupiedIsSubscribed
        <5> QED BY <2>1, <5>1
      <4> QED BY <4>1, <4>2
    <3> QED BY <1>2, <3>1 DEF OccupiedIsSubscribed
  <2> QED BY <1>1, <2>2, <2>3, <2>4
<1> QED BY <1>5, <1>6

\* Only the last to leave cancels a loop, and then nobody is left who would miss it.
LEMMA UnregisterInv ==
    ASSUME ConstantsFit, Inv, NEW c \in Clients, Unregister(c)
    PROVE  /\ Inv'
           /\ \A g \in cancelled' \ cancelled : Members(GroupOf[g])' = {}
<1> USE DEF Inv, TypeOK
<1>1. TypeOK'
  BY TypeOKNext DEF Next
<1>2. UNCHANGED <<loop, stopped>> /\ GroupOf[c] \in Groups
      /\ client' = [client EXCEPT ![c] = "gone"] /\ client[c] = "in"
  BY DEF Unregister, LastInGroup
<1>3. \A G \in Groups : Members(G)' \subseteq Members(G)
  BY <1>2 DEF Members
<1>4. CASE Members(GroupOf[c]) # {c}
  <2>1. UNCHANGED <<cancelled, entry>>
    BY <1>4 DEF Unregister, LastInGroup
  <2> QED BY <1>1, <1>2, <1>3, <2>1
          DEF StartedByComers, EntryIsLive, OccupiedIsSubscribed
<1>5. CASE Members(GroupOf[c]) = {c}
  <2>1. /\ cancelled' = cancelled \cup ({entry[GroupOf[c]]} \ {NoLoop})
        /\ entry' = [entry EXCEPT ![GroupOf[c]] = NoLoop]
    BY <1>5 DEF Unregister, LastInGroup
  <2>2. Members(GroupOf[c])' = {}
    BY <1>2, <1>5 DEF Members
  <2>3. ASSUME NEW g \in cancelled' \ cancelled
        PROVE  g = entry[GroupOf[c]] /\ GroupOf[g] = GroupOf[c] /\ loop[g] \in Alive
    BY <1>2, <2>1, <2>3 DEF EntryIsLive
  <2>4. StartedByComers'
    BY <1>2, <2>1, <2>3 DEF StartedByComers, Alive
  <2>5. EntryIsLive'
    BY <1>2, <2>1, <2>3 DEF EntryIsLive
  <2>6. OccupiedIsSubscribed'
    <3>1. ASSUME NEW G \in Groups \ stopped, Members(G)' # {}
          PROVE  \E g \in Clients : GroupOf[g] = G /\ loop[g] # "none" /\ g \notin cancelled'
      <4>1. PICK g \in Clients : GroupOf[g] = G /\ loop[g] # "none" /\ g \notin cancelled
        BY <1>3, <3>1 DEF OccupiedIsSubscribed
      <4> QED BY <2>2, <2>3, <3>1, <4>1
    <3> QED BY <1>2, <3>1 DEF OccupiedIsSubscribed
  <2> QED BY <1>1, <2>2, <2>3, <2>4, <2>5, <2>6
<1> QED BY <1>4, <1>5

\* A loop that ends leaves its successor, if there is one, without an entry.
LEMMA LoopInv ==
    ASSUME ConstantsFit, Inv, NEW g \in Clients, Subscribed(g) \/ LoopReturns(g) \/ LoopExits(g)
    PROVE  Inv' /\ UNCHANGED cancelled
<1> USE DEF Inv, TypeOK
<1>1. TypeOK'
  BY TypeOKNext DEF Next
<1>2. /\ UNCHANGED <<client, cancelled, stopped>> /\ GroupOf[g] \in Groups
      /\ loop[g] # "none" /\ loop'[g] # "none"
      /\ \A h \in Clients \ {g} : loop'[h] = loop[h]
  BY DEF Subscribed, LoopReturns, LoopExits, DeleteEntry
<1>3. StartedByComers' /\ OccupiedIsSubscribed'
  BY <1>2 DEF StartedByComers, OccupiedIsSubscribed, Members
<1>4. CASE Subscribed(g) \/ LoopReturns(g)
  <2>1. UNCHANGED entry /\ loop[g] \in Alive /\ loop'[g] \in Alive
    BY <1>4 DEF Subscribed, LoopReturns, Alive
  <2>2. EntryIsLive'
    BY <1>2, <2>1 DEF EntryIsLive
  <2> QED BY <1>1, <1>2, <1>3, <2>2
<1>5. CASE LoopExits(g)
  <2>1. /\ entry' = [entry EXCEPT ![GroupOf[g]] = NoLoop]
        /\ loop' = [loop EXCEPT ![g] = "stopped"]
    BY <1>5 DEF LoopExits, DeleteEntry
  <2>2. EntryIsLive'
    <3>1. ASSUME NEW G \in Groups, entry'[G] # NoLoop
          PROVE  G # GroupOf[g] /\ entry'[G] = entry[G] /\ entry[G] \in Clients \ {g}
      BY <2>1, <3>1 DEF EntryIsLive
    <3> QED BY <1>2, <3>1 DEF EntryIsLive
  <2> QED BY <1>1, <1>2, <1>3, <2>2
<1> QED BY <1>4, <1>5

LEMMA StopAllInv == ASSUME ConstantsFit, Inv, StopAll PROVE Inv'
<1> USE DEF Inv, TypeOK
<1>1. TypeOK'
  BY TypeOKNext DEF Next
<1>2. /\ UNCHANGED <<client, loop>> /\ stopped' = Groups
      /\ cancelled' = cancelled \cup ({entry[G] : G \in Groups} \ {NoLoop})
      /\ entry' = [G \in Groups |-> NoLoop]
  BY DEF StopAll
<1>3. StartedByComers'
  BY <1>2 DEF StartedByComers, EntryIsLive, Alive
<1>4. EntryIsLive' /\ OccupiedIsSubscribed'
  BY <1>2 DEF EntryIsLive, OccupiedIsSubscribed
<1> QED BY <1>1, <1>3, <1>4

LEMMA CrashInv == ASSUME ConstantsFit, Inv, NEW G \in Groups, Crash(G) PROVE Inv'
<1> USE DEF Inv, TypeOK
<1>1. TypeOK'
  BY TypeOKNext DEF Next
<1>2. /\ UNCHANGED <<cancelled, stopped>>
      /\ client' = [c \in Clients |-> IF c \in Members(G) THEN "gone" ELSE client[c]]
      /\ entry' = [entry EXCEPT ![G] = NoLoop]
      /\ loop' = [g \in Clients |-> IF GroupOf[g] = G /\ loop[g] # "none"
                                   THEN "stopped" ELSE loop[g]]
  BY DEF Crash
<1>3. StartedByComers'
  BY <1>2 DEF StartedByComers
<1>4. EntryIsLive'
  BY <1>2 DEF EntryIsLive
<1>5. OccupiedIsSubscribed'
  <2>1. ASSUME NEW H \in Groups, Members(H)' # {} PROVE Members(H) # {}
    BY <1>2, <2>1 DEF Members
  <2>2. \A c \in Clients : loop[c] # "none" => loop'[c] # "none"
    BY <1>2
  <2> QED BY <1>2, <2>1, <2>2 DEF OccupiedIsSubscribed
<1> QED BY <1>1, <1>3, <1>4, <1>5

LEMMA NextInv == ConstantsFit /\ Inv /\ [Next]_vars => Inv'
<1> SUFFICES ASSUME ConstantsFit, Inv, [Next]_vars PROVE Inv'
  OBVIOUS
<1>1. CASE UNCHANGED vars
  BY <1>1 DEF vars, Inv, TypeOK, StartedByComers, EntryIsLive, OccupiedIsSubscribed,
              Members
<1> QED BY <1>1, RegisterInv, UnregisterInv, LoopInv, StopAllInv, CrashInv DEF Next

\* A step that makes a loop stray is the exit of another.
StrayStep(g) == ~Stray(g) /\ Stray(g)' => LosesEntryToExit(g)

LEMMA StrayNext ==
    ASSUME ConstantsFit, TypeOK, [Next]_vars, NEW g \in Clients
    PROVE  StrayStep(g)
<1> USE DEF TypeOK, Stray, StrayStep, LosesEntryToExit
<1>1. ASSUME NEW c \in Clients, Register(c) PROVE StrayStep(g)
  BY <1>1 DEF Register, Alive
<1>2. ASSUME NEW c \in Clients, Unregister(c) PROVE StrayStep(g)
  BY <1>2 DEF Unregister, LastInGroup
<1>3. ASSUME NEW h \in Clients, Subscribed(h) \/ LoopReturns(h) PROVE StrayStep(g)
  BY <1>3 DEF Subscribed, LoopReturns, Alive
<1>4. ASSUME NEW h \in Clients, LoopExits(h) PROVE StrayStep(g)
  <2>1. CASE g = h
    BY <1>4, <2>1 DEF LoopExits, DeleteEntry, Alive
  <2>2. CASE g # h
    BY <1>4, <2>2 DEF LoopExits, DeleteEntry
  <2> QED BY <2>1, <2>2
<1>5. CASE StopAll
  BY <1>5 DEF StopAll
<1>6. ASSUME NEW G \in Groups, Crash(G) PROVE StrayStep(g)
  BY <1>6 DEF Crash, Alive
<1>7. CASE UNCHANGED vars
  BY <1>7 DEF vars
<1> QED BY <1>1, <1>2, <1>3, <1>4, <1>5, <1>6, <1>7 DEF Next

\* Entries are live, occupied groups keep a loop, and a loop is lost only in the late exit
\* of an older one: whoever implements Subscriptions has all three.
THEOREM SubscriptionsCorrect == ConstantsFit /\ Spec => []Inv /\ StraysFollowExits
<1> SUFFICES ASSUME ConstantsFit PROVE Spec => []Inv /\ StraysFollowExits
  OBVIOUS
<1>1. Init => Inv
  BY InitInv
<1>2. Inv /\ [Next]_vars => Inv'
  BY NextInv
<1>3. Inv /\ [Next]_vars =>
        [\A g \in Clients : ~Stray(g) /\ Stray(g)' => LosesEntryToExit(g)]_vars
  BY StrayNext DEF Inv, StrayStep
<1> QED BY <1>1, <1>2, <1>3, PTL DEF Spec, StraysFollowExits
================================================================================
