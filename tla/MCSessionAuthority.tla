------------------------- MODULE MCSessionAuthority -------------------------
(* Instances of SessionAuthority for TLC. *)
EXTENDS SessionAuthority, TLC

CONSTANTS c, p, q

(* The creator cannot be paid a pot of two stakes under MaxAccountCoin 4. *)
RichCreator == (c :> 4) @@ (p :> 2)
NothingWon == [u \in Users |-> 0]
EvenCoins == (c :> 1) @@ (p :> 1) @@ (q :> 1)
=============================================================================
