------------------------------- MODULE MCDelivery -------------------------------
(***************************************************************************)
(* Small instances of Delivery: a client on one instance, two on another,  *)
(* one of them a second tab of the first one's user.                       *)
(***************************************************************************)
EXTENDS Delivery

CONSTANTS s1, s2, ann1, ann2, bob, x, y, Ann, Bob

MCServerOf == [c \in Clients |-> IF c = ann1 THEN s1 ELSE s2]
MCUserOf   == [c \in Clients |-> IF c = bob THEN Bob ELSE Ann]
MCAuthorOf == [a \in Actions |-> IF a = x THEN ann1 ELSE bob]
================================================================================
