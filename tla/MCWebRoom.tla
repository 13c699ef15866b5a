----------------------------- MODULE MCWebRoom -----------------------------
(* Instances of WebRoom for TLC. *)
EXTENDS WebRoom
=============================================================================
