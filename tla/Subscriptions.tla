------------------------------ MODULE Subscriptions ------------------------------
(***************************************************************************)
(* What the hub promises of its subscriptions to Redis, as if              *)
(* registerClient and unregisterClient were one step each.  Clients come   *)
(* to a group and leave it, once; the first to come starts a loop, the     *)
(* last to leave cancels it.  A loop is named by the client that started   *)
(* it, and removes the group's entry when it ends, whosever that is.       *)
(*                                                                         *)
(* A group is what shares a subscription: a room of one hub, whose two     *)
(* locked sections Hub shows to amount to these steps, or the clients that *)
(* an instance has in a room, where Delivery is built from them.           *)
(***************************************************************************)
CONSTANTS Clients, Groups, GroupOf, NoLoop

\* What whoever instantiates this module has to see to.
ConstantsFit == GroupOf \in [Clients -> Groups] /\ NoLoop \notin Clients

VARIABLES
    client,     \* a client is away, in its group, or gone
    entry,      \* per group: the loop whose cancel function is stored, or NoLoop
    loop,       \* phase of the loop a client started
    cancelled,  \* the loops that were cancelled
    stopped     \* the groups whose subscription was ended by order

vars == <<client, entry, loop, cancelled, stopped>>

Alive == {"subscribing", "listening", "leaving"}

\* The types of the variables.
TypeOK ==
    /\ client \in [Clients -> {"away", "in", "gone"}]
    /\ entry \in [Groups -> Clients \cup {NoLoop}]
    /\ loop \in [Clients -> {"none", "stopped"} \cup Alive]
    /\ cancelled \in SUBSET Clients
    /\ stopped \in SUBSET Groups

Init ==
    /\ client = [c \in Clients |-> "away"]
    /\ entry = [G \in Groups |-> NoLoop]
    /\ loop = [c \in Clients |-> "none"]
    /\ cancelled = {}
    /\ stopped = {}

Members(G) == {c \in Clients : client[c] = "in" /\ GroupOf[c] = G}

Register(c) ==
    /\ client[c] = "away"
    /\ client' = [client EXCEPT ![c] = "in"]
    /\ IF Members(GroupOf[c]) = {} /\ entry[GroupOf[c]] = NoLoop
       THEN /\ entry' = [entry EXCEPT ![GroupOf[c]] = c]
            /\ loop' = [loop EXCEPT ![c] = "subscribing"]
       ELSE UNCHANGED <<entry, loop>>
    /\ UNCHANGED <<cancelled, stopped>>

AlwaysLast(c) == TRUE                    \* slip: len(roomClients) not tested
LastInGroup(c) == Members(GroupOf[c]) = {c}

Unregister(c) ==
    /\ client[c] = "in"
    /\ client' = [client EXCEPT ![c] = "gone"]
    /\ IF LastInGroup(c)
       THEN /\ cancelled' = cancelled \cup ({entry[GroupOf[c]]} \ {NoLoop})
            /\ entry' = [entry EXCEPT ![GroupOf[c]] = NoLoop]
       ELSE UNCHANGED <<cancelled, entry>>
    /\ UNCHANGED <<loop, stopped>>

\* The loops of all groups are cancelled, whoever is in them.
StopAll ==
    /\ cancelled' = cancelled \cup ({entry[G] : G \in Groups} \ {NoLoop})
    /\ entry' = [G \in Groups |-> NoLoop]
    /\ stopped' = Groups
    /\ UNCHANGED <<client, loop>>

\* Whoever serves the group is gone, and all it had with it.
Crash(G) ==
    /\ client' = [c \in Clients |-> IF c \in Members(G) THEN "gone" ELSE client[c]]
    /\ entry' = [entry EXCEPT ![G] = NoLoop]
    /\ loop' = [g \in Clients |-> IF GroupOf[g] = G /\ loop[g] # "none"
                                 THEN "stopped" ELSE loop[g]]
    /\ UNCHANGED <<cancelled, stopped>>

Subscribed(g) ==
    /\ loop[g] = "subscribing"
    /\ loop' = [loop EXCEPT ![g] = "listening"]
    /\ UNCHANGED <<client, entry, cancelled, stopped>>

\* Cancelled or not: Redis may end a loop as well.
LoopReturns(g) ==
    /\ loop[g] \in {"subscribing", "listening"}
    /\ loop' = [loop EXCEPT ![g] = "leaving"]
    /\ UNCHANGED <<client, entry, cancelled, stopped>>

KeepEntry(g) == UNCHANGED entry          \* slip: the entry of the loop is left behind
DeleteEntry(g) == entry' = [entry EXCEPT ![GroupOf[g]] = NoLoop]

\* The last thing the goroutine does, whosever the entry is by now.
LoopExits(g) ==
    /\ loop[g] = "leaving"
    /\ loop' = [loop EXCEPT ![g] = "stopped"]
    /\ DeleteEntry(g)
    /\ UNCHANGED <<client, cancelled, stopped>>

Next == \/ \E c \in Clients : \/ Register(c) \/ Unregister(c)
                              \/ Subscribed(c) \/ LoopReturns(c) \/ LoopExits(c)
        \/ StopAll \/ \E G \in Groups : Crash(G)

Spec == Init /\ [][Next]_vars

--------------------------------------------------------------------------------
(***************************************************************************)
(* What follows for whoever implements it.                                 *)
(***************************************************************************)
\* The loop whose cancel function is stored serves the group, was not cancelled and has
\* not ended.
EntryIsLive ==
    \A G \in Groups : entry[G] # NoLoop =>
        GroupOf[entry[G]] = G /\ entry[G] \notin cancelled /\ loop[entry[G]] \in Alive

\* While somebody is in a group, one of its loops was never cancelled, unless all were
\* ended by order.
OccupiedIsSubscribed ==
    \A G \in Groups \ stopped : Members(G) # {} =>
        \E g \in Clients : GroupOf[g] = G /\ loop[g] # "none" /\ g \notin cancelled

\* A stray loop is one that nobody cancelled and nobody can: its entry is gone.
Stray(g) == loop[g] \in Alive /\ g \notin cancelled /\ entry[GroupOf[g]] # g

\* An older loop of the group, which had lost the entry to g, ends, and removes g's.
LosesEntryToExit(g) ==
    /\ entry[GroupOf[g]] = g
    /\ \E h \in Clients \ {g} :
          GroupOf[h] = GroupOf[g] /\ loop[h] = "leaving" /\ loop'[h] = "stopped"

\* A loop strays in one way: in the very step of the late exit of an older loop, which
\* removes the entry of its successor.  Neither the last to leave, nor the next to come, nor
\* a shutdown makes a stray.
StraysFollowExits ==
    [][\A g \in Clients : ~Stray(g) /\ Stray(g)' => LosesEntryToExit(g)]_vars
================================================================================
