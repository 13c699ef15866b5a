---------------------------- MODULE PublicState ----------------------------
(***************************************************************************)
(* What the room publishes of a running or finished match                  *)
(* (apps/game-server/src/rooms/game-room-state.ts) and what the contract   *)
(* between server and client lets through                                  *)
(* (packages/game-contracts/src/state/gameplay-state.ts).                  *)
(*                                                                         *)
(* The room publishes after it has committed.  A state the contract does   *)
(* not admit makes publishing throw in the room, and a client that gets    *)
(* one gives its connection up.  The contract was written on its own: it   *)
(* repeats some rules of the aggregate's validity, leaves out others and   *)
(* adds limits.  Seats stand for the ids of the players on them, and       *)
(* limits that are equal numbers in both places are the policy's here.     *)
(***************************************************************************)
EXTENDS GameRules

(* A property the kind of trade does not have is published as null, cash as zero. *)
PublicTrade(trade) ==
  [tradeType |-> tradeType(trade.terms), proposerId |-> trade.proposer,
   receiverId |-> trade.receiver, terms |-> trade.terms]

PublicSeat(g, s) ==
  [player |-> g.players[s], ownedPropertyPositions |-> ownedPropertyPositions(g.properties, s)]

(* Only ownable spaces carry an owner and buildings. *)
PublicSpace(g, p) ==
  IF isOwnableSpace(p)
    THEN [kind |-> BOARD_SPACES[p].propertyType, ownerId |-> g.properties[p].owner,
          houses |-> g.properties[p].houses, hasHotel |-> g.properties[p].hasHotel]
    ELSE [kind |-> BOARD_SPACES[p].propertyType]

(* The phase with what it is about: a property, a deck or a kind of tax. *)
PublicTurn(turn) ==
  LET about == CASE turn.phase \in {"awaitingPropertyDecision", "awaitingRentPayment"} -> turn.at
                 [] turn.phase = "awaitingCardDraw" -> BOARD_SPACES[turn.at].propertyType
                 [] turn.phase = "awaitingTaxPayment" ->
                      IF turn.at = GAMEPLAY_POLICY.mevTax.position THEN "mev" ELSE "priorityFee"
                 [] OTHER -> None
  IN [phase |-> turn.phase, currentSeat |-> turn.seat, about |-> about]

PublishedTerminal ==
  [reason : EndReasons, winnerId : Seats,
   ranking : Seq([rank : Nat, player : Seats, netWorth : Nat])]

(* Nor is what is published of an end. *)
ASSUME TerminalAssumption == None \notin PublishedTerminal

PublicTerminal(terminal) ==
  IF terminal = None THEN None
  ELSE [reason |-> terminal.reason, winnerId |-> terminal.winner,
        ranking |-> wireRanking(terminal.ranking)]

publicGameplayState(g) ==
  [stateVersion |-> g.stateVersion,
   seats |-> [s \in Seats |-> PublicSeat(g, s)],
   board |-> [p \in Positions |-> PublicSpace(g, p)],
   turn |-> PublicTurn(g.turn),
   activeTrades |-> [i \in DOMAIN g.activeTrades |-> PublicTrade(g.activeTrades[i])],
   lastDice |-> IF g.lastDice = None THEN None ELSE wireDice(g.lastDice),
   terminal |-> PublicTerminal(g.terminal)]

-----------------------------------------------------------------------------
(* The contract *)

GameplayPlayerPublicStateSchema(seat) ==
  seat.player \in Player /\ seat.ownedPropertyPositions \subseteq Positions

OwnableSpacePublicStateSchema(space) ==
  /\ space.houses \in 0 .. MaxHouses /\ space.hasHotel \in BOOLEAN
  /\ space.kind # "street" => space.houses = 0 /\ ~space.hasHotel
  /\ space.hasHotel => space.houses = 0
  /\ space.ownerId = None => space.houses = 0 /\ ~space.hasHotel

BoardSpacePublicStateSchema(space) ==
  IF space.kind \in {"street", "railroad", "utility"} THEN OwnableSpacePublicStateSchema(space)
  ELSE space.kind \in {"tax", "chance", "communityChest", "corner"}

GameplayTurnStateSchema(turn) ==
  CASE turn.phase \in {"awaitingPropertyDecision", "awaitingRentPayment"} -> turn.about \in Positions
    [] turn.phase = "awaitingCardDraw" -> turn.about \in {"chance", "communityChest"}
    [] turn.phase = "awaitingTaxPayment" -> turn.about \in {"mev", "priorityFee"}
    [] OTHER -> turn.phase \in {"awaitingRoll", "awaitingBankruptcy", "awaitingEndTurn", "finished"}

(* Stricter than validTerms where a kind of trade must have cash on one side only. *)
TradePublicStateSchema(trade) ==
  LET terms == trade.terms IN
  /\ trade.proposerId # trade.receiverId
  /\ terms.offeredProperty # None => terms.offeredProperty # terms.requestedProperty
  /\ CASE trade.tradeType = "moneyOnly" -> terms.offeredCash # 0 \/ terms.requestedCash # 0
       [] trade.tradeType = "propertyOnly" ->
            /\ terms.offeredCash = 0 /\ terms.requestedCash = 0
            /\ terms.offeredProperty # None \/ terms.requestedProperty # None
       [] trade.tradeType = "moneyForProperty" ->
            terms.requestedCash = 0 /\ terms.offeredProperty = None
       [] trade.tradeType = "propertyForMoney" ->
            terms.offeredCash = 0 /\ terms.requestedProperty = None

GameplayTerminalStateSchema(terminal) ==
  /\ terminal.reason \in EndReasons /\ terminal.ranking # <<>>
  /\ terminal.ranking[1].player = terminal.winnerId
  /\ \A i \in DOMAIN terminal.ranking :
       TerminalRankingEntrySchema(terminal.ranking[i]) /\ terminal.ranking[i].rank = i
  /\ \A i, j \in DOMAIN terminal.ranking :
       terminal.ranking[i].player = terminal.ranking[j].player => i = j

GameplayPublicStateSchema(pub) ==
  /\ pub.stateVersion \in 0 .. MAX_STATE_VERSION
  /\ \A s \in DOMAIN pub.seats :
       /\ GameplayPlayerPublicStateSchema(pub.seats[s])
       /\ pub.seats[s].ownedPropertyPositions =
            {p \in DOMAIN pub.board : "ownerId" \in DOMAIN pub.board[p] /\ pub.board[p].ownerId = s}
  /\ \A p \in DOMAIN pub.board :
       /\ BoardSpacePublicStateSchema(pub.board[p])
       /\ "ownerId" \in DOMAIN pub.board[p] => pub.board[p].ownerId \in DOMAIN pub.seats \cup {None}
  /\ GameplayTurnStateSchema(pub.turn)
  /\ pub.turn.phase # "finished" =>
       /\ pub.turn.currentSeat \in DOMAIN pub.seats
       /\ pub.seats[pub.turn.currentSeat].player.status = "active"
  /\ Len(pub.activeTrades) <= GAMEPLAY_POLICY.maximumActiveTrades
  /\ \A i \in DOMAIN pub.activeTrades :
       /\ TradePublicStateSchema(pub.activeTrades[i])
       /\ {pub.activeTrades[i].proposerId, pub.activeTrades[i].receiverId} \subseteq DOMAIN pub.seats
  /\ pub.lastDice # None => DiceResultSchema(pub.lastDice)
  /\ pub.turn.phase = "finished" <=> pub.terminal # None
  /\ pub.terminal # None => GameplayTerminalStateSchema(pub.terminal)

(* Whatever the rules accept and the room commits can be published and read by every client: the *)
(* rules' own validity check and the contract, which limit different things, agree on every      *)
(* state a match gets into.                                                                      *)
PublishedStateIsReadable == GameplayPublicStateSchema(publicGameplayState(game))
=============================================================================
