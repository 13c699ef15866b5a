---------------------------- MODULE MCRoomClock ----------------------------
(* Instances of RoomClock for TLC. *)
EXTENDS RoomClock
=============================================================================
