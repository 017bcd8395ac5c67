--------------------------------- MODULE MCHub ---------------------------------
(***************************************************************************)
(* Small instances of Hub: every connection asks for the same room, each   *)
(* for a user of its own, so that all of them are interchangeable.         *)
(***************************************************************************)
EXTENDS Hub, TLC

CONSTANT TheRoom

MCRooms  == {TheRoom}
MCRoomOf == [c \in Clients |-> TheRoom]
MCUserOf == [c \in Clients |-> c]

Symmetry == Permutations(Clients)
================================================================================
