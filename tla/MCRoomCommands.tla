--------------------------- MODULE MCRoomCommands ---------------------------
(* Instances of RoomCommands for TLC. *)
EXTENDS RoomCommands, TLC

CONSTANTS a, b, r1, r2, r3

(* One Room object in each of two processes. *)
MCOwnerOfPair == (r1 :> a) @@ (r3 :> b)
(* Two Room objects of one process, which may overlap. *)
MCOwnerOfSiblings == (r1 :> a) @@ (r2 :> a)

=============================================================================
