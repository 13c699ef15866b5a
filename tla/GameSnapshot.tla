---------------------------- MODULE GameSnapshot ----------------------------
(***************************************************************************)
(* The durable form of a match                                             *)
(* (packages/game-core/src/serialization/gameplay-snapshot.ts).            *)
(*                                                                         *)
(* Whatever is about to be committed is serialized, and serializing reads  *)
(* the result back: every field is checked for its type and width, then    *)
(* the aggregate's own invariants.  A snapshot that cannot be read back is *)
(* never written.  JSON, the checksum and the random source's checkpoint   *)
(* are left out.                                                           *)
(***************************************************************************)
EXTENDS GameAggregate

(* The widths of the fields are those of the types of the aggregate. *)
hydratePlayer(player) == player \in Player
hydrateProperty(property) == property \in Property

hydrateTerms(terms) == terms \in Terms

hydrateTrade(trade) ==
  /\ DOMAIN trade = {"proposer", "receiver", "terms"}
  /\ {trade.proposer, trade.receiver} \subseteq 0 .. GAMEPLAY_POLICY.maximumPlayers - 1
  /\ hydrateTerms(trade.terms)

DiceRoll == [dice : (1 .. 6) \X (1 .. 6), total : 2 .. 12, isDoubles : BOOLEAN]
hydrateDice(roll) == roll = None \/ roll \in DiceRoll

(* Neither a roll nor an end is null. *)
ASSUME NullAssumption == None \notin DiceRoll /\ None \notin Outcome

(* A finished match has no clock and no seat on turn; the fields of a turn depend on its phase. *)
hydrateTurn(turn, lifecycle) ==
  turn \in Turn /\ (lifecycle = "finished" <=> turn.phase = "finished")

hydrateTerminal(terminal) ==
  /\ DOMAIN terminal = {"reason", "winner", "ranking"} /\ terminal.reason \in EndReasons
  /\ terminal.winner \in Seats /\ DOMAIN terminal.ranking \subseteq Seats
  /\ \A s \in DOMAIN terminal.ranking :
       /\ terminal.ranking[s].rank \in 1 .. GAMEPLAY_POLICY.maximumPlayers
       /\ terminal.ranking[s].netWorth \in 0 .. MAX_MATCH_CASH

hydrateGameplayState(g) ==
  /\ g.stateVersion \in 1 .. MAX_STATE_VERSION
  /\ \A s \in Seats : hydratePlayer(g.players[s])
  /\ \A p \in Positions : hydrateProperty(g.properties[p])
  /\ g.bankCash \in 0 .. MAX_MATCH_CASH
  /\ g.housesRemaining \in 0 .. GAMEPLAY_POLICY.totalHouses
  /\ g.hotelsRemaining \in 0 .. GAMEPLAY_POLICY.totalHotels
  /\ \A i \in DOMAIN g.activeTrades : hydrateTrade(g.activeTrades[i])
  /\ hydrateDice(g.lastDice) /\ hydrateTurn(g.turn, g.lifecycle)
  /\ g.terminal # None => hydrateTerminal(g.terminal)
  /\ IF g.lifecycle = "inProgress" THEN isValidActive(g) ELSE isValidFinished(g)
=============================================================================
