--------------------------- MODULE MCRoomPresence ---------------------------
(* Instances of RoomPresence for TLC. *)
EXTENDS RoomPresence
=============================================================================
