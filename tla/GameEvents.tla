----------------------------- MODULE GameEvents -----------------------------
(***************************************************************************)
(* The events of a match: what a command reports besides its new state     *)
(* (packages/game-core/src/events/domain-event.ts), how the room puts it   *)
(* on the wire (gameplayPayload of commands/command-handler.ts) and what   *)
(* the contract lets through                                               *)
(* (packages/game-contracts/src/realtime/gameplay-events.ts).              *)
(*                                                                         *)
(* The room parses every event against the contract before it commits the  *)
(* command, so an event the contract does not admit loses the command.     *)
(* Seats stand for the ids of the players on them; ids and times of        *)
(* events are left out.  Numbers that are equal in rules and contract are  *)
(* the policy's.                                                           *)
(***************************************************************************)
EXTENDS GameSnapshot

(* The kind of a trade is part of it in the code; here its terms tell. *)
tradeType(terms) ==
  CASE terms.offeredCash > 0 /\ terms.requestedProperty # None -> "moneyForProperty"
    [] terms.requestedCash > 0 /\ terms.offeredProperty # None -> "propertyForMoney"
    [] terms.offeredProperty = None /\ terms.requestedProperty = None -> "moneyOnly"
    [] OTHER -> "propertyOnly"

-----------------------------------------------------------------------------
(* Events of the rules *)

Rolled(seat, roll) == [type |-> "diceRolled", player |-> seat, dice |-> roll]

Moved(seat, from, movement, salary) ==
  [type |-> "playerMoved", player |-> seat, from |-> from, to |-> movement.to,
   passedGo |-> movement.passedGo, salaryCollected |-> salary]

JailEntered(seat, reason) == [type |-> "jailEntered", player |-> seat, reason |-> reason]
JailExited(seat, method) == [type |-> "jailExited", player |-> seat, method |-> method]

CardDrawn(seat, deck, card) ==
  [type |-> "cardDrawn", player |-> seat, deck |-> deck, cardId |-> card.id, effect |-> card.effect]

PropertyDecided(type, seat, p, price) ==
  [type |-> type, player |-> seat, position |-> p, price |-> price]

RentPaid(payer, owner, p, amount) ==
  [type |-> "rentPaid", player |-> payer, owner |-> owner, position |-> p, amount |-> amount]

BuildingBuilt(seat, p, buildingType, houses, cost) ==
  [type |-> "buildingBuilt", player |-> seat, position |-> p, buildingType |-> buildingType,
   houseCount |-> houses, cost |-> cost]
BuildingSold(seat, p, buildingType, salePrice) ==
  [type |-> "buildingSold", player |-> seat, position |-> p, buildingType |-> buildingType,
   salePrice |-> salePrice]

TaxPaid(seat, taxKind, tax) ==
  [type |-> "taxPaid", player |-> seat, position |-> tax.position, taxKind |-> taxKind,
   amount |-> tax.amount]

PlayerBankrupt(seat, liquidationValue, cashTransferred) ==
  [type |-> "playerBankrupt", player |-> seat, liquidationValue |-> liquidationValue,
   cashTransferred |-> cashTransferred]

TradeCreated(trade) ==
  [type |-> "tradeCreated", tradeType |-> tradeType(trade.terms), player |-> trade.proposer,
   receiver |-> trade.receiver, terms |-> trade.terms]
TradeAccepted(trade) ==
  [type |-> "tradeAccepted", player |-> trade.proposer, receiver |-> trade.receiver]
TradeEnded(type, seat) == [type |-> type, player |-> seat]
TradesExpired(k) == [i \in 1 .. k |-> [type |-> "tradeExpired"]]

TimeoutPenalty(seat, missedTurns) ==
  [type |-> "timeoutPenalty", player |-> seat, missedTurns |-> missedTurns]
TimeoutForfeit(seat, missedTurns) ==
  [type |-> "timeoutForfeit", player |-> seat, totalMissedTurns |-> missedTurns]
ForcedTurnEnd(seat, next) == [type |-> "forcedTurnEnd", player |-> seat, next |-> next]

(* The end of a match: the result, and who is entitled to the stakes. *)
terminalEvents(terminal) ==
  <<[type |-> "gameEnded", reason |-> terminal.reason, player |-> terminal.winner,
     ranking |-> terminal.ranking],
    [type |-> "settlementEntitled", player |-> terminal.winner, reason |-> terminal.reason]>>

-----------------------------------------------------------------------------
(* On the wire *)

wireDice(roll) ==
  [dieOne |-> roll.dice[1], dieTwo |-> roll.dice[2], total |-> roll.total,
   isDoubles |-> roll.isDoubles]

(* The best first, each with his seat. *)
wireRanking(ranking) ==
  [r \in 1 .. Cardinality(DOMAIN ranking) |->
    LET seat == CHOOSE s \in DOMAIN ranking : ranking[s].rank = r
    IN [rank |-> r, player |-> seat, netWorth |-> ranking[seat].netWorth]]

gameplayPayload(event) ==
  CASE event.type = "diceRolled" -> [event EXCEPT !.dice = wireDice(@)]
    [] event.type = "gameEnded" -> [event EXCEPT !.ranking = wireRanking(@)]
    [] OTHER -> event

-----------------------------------------------------------------------------
(* The contract *)

(* A decimal without a sign. *)
InMatchCash(amount) == amount \in Nat

DiceResultSchema(dice) ==
  /\ dice.dieOne \in 1 .. 6 /\ dice.dieTwo \in 1 .. 6
  /\ dice.total = dice.dieOne + dice.dieTwo
  /\ dice.isDoubles <=> dice.dieOne = dice.dieTwo

(* The contract knows which effect each card of a deck has. *)
ContractEffects(deck) ==
  IF deck = "chance" THEN <<"moveToNearest", "money", "money", "move", "getOutOfJailFree">>
  ELSE <<"collectFromPlayers", "money", "move", "repairFree", "money">>

(* The decks are the contract's, and an absolute destination is a space. *)
ASSUME DecksAssumption ==
  /\ \A card \in CHANCE_CARDS : card.effect = ContractEffects("chance")[card.id]
  /\ \A card \in COMMUNITY_CHEST_CARDS :
       /\ card.effect = ContractEffects("communityChest")[card.id]
       /\ card.effect = "move" => card.amount \in Positions

cardDrawnEvent(event) ==
  /\ event.deck \in {"chance", "communityChest"} /\ event.cardId \in 1 .. 5
  /\ event.effect = ContractEffects(event.deck)[event.cardId]

(* The fields a kind of trade does not have must be empty, the others filled. *)
tradeCreatedEvent(event) ==
  LET terms == event.terms
      offersProperty == terms.offeredProperty # None
      requestsProperty == terms.requestedProperty # None
  IN /\ InMatchCash(terms.offeredCash) /\ InMatchCash(terms.requestedCash)
     /\ {terms.offeredProperty, terms.requestedProperty} \subseteq Positions \cup {None}
     /\ CASE event.tradeType = "moneyOnly" ->
               ~offersProperty /\ ~requestsProperty
               /\ (terms.offeredCash # 0 \/ terms.requestedCash # 0)
          [] event.tradeType = "propertyOnly" ->
               terms.offeredCash = 0 /\ terms.requestedCash = 0
               /\ (offersProperty \/ requestsProperty)
          [] event.tradeType = "moneyForProperty" ->
               terms.offeredCash # 0 /\ terms.requestedCash = 0
               /\ ~offersProperty /\ requestsProperty
          [] event.tradeType = "propertyForMoney" ->
               terms.offeredCash = 0 /\ terms.requestedCash # 0
               /\ offersProperty /\ ~requestsProperty

TerminalRankingEntrySchema(entry) ==
  /\ entry.rank \in 1 .. GAMEPLAY_POLICY.maximumPlayers /\ entry.player \in Seats
  /\ InMatchCash(entry.netWorth)

GameplayEventPayloadSchema(event) ==
  /\ "player" \in DOMAIN event => event.player \in Seats
  /\ "position" \in DOMAIN event => event.position \in Positions
  /\ "receiver" \in DOMAIN event => event.receiver \in Seats
  /\ CASE event.type = "diceRolled" -> DiceResultSchema(event.dice)
       [] event.type = "playerMoved" ->
            {event.from, event.to} \subseteq Positions /\ InMatchCash(event.salaryCollected)
       [] event.type \in {"propertyPurchased", "propertyDeclined"} -> InMatchCash(event.price)
       [] event.type = "rentPaid" -> event.owner \in Seats /\ InMatchCash(event.amount)
       [] event.type = "buildingBuilt" -> event.houseCount \in 0 .. MaxHouses /\ InMatchCash(event.cost)
       [] event.type = "buildingSold" -> InMatchCash(event.salePrice)
       [] event.type = "cardDrawn" -> cardDrawnEvent(event)
       [] event.type = "jailEntered" -> event.reason \in {"space", "threeDoubles"}
       [] event.type = "jailExited" -> event.method \in {"doubles", "fine", "card"}
       [] event.type = "taxPaid" -> event.taxKind \in {"mev", "priorityFee"} /\ InMatchCash(event.amount)
       [] event.type = "tradeCreated" -> tradeCreatedEvent(event)
       [] event.type = "playerBankrupt" ->
            InMatchCash(event.liquidationValue) /\ InMatchCash(event.cashTransferred)
       [] event.type = "timeoutPenalty" -> event.missedTurns \in 1 .. GAMEPLAY_POLICY.maximumMissedTurns
       [] event.type = "timeoutForfeit" ->
            event.totalMissedTurns = GAMEPLAY_POLICY.maximumMissedTurns
       [] event.type = "forcedTurnEnd" -> event.next \in Seats
       [] event.type = "gameEnded" ->
            /\ event.reason \in EndReasons /\ event.ranking # <<>>
            /\ \A i \in DOMAIN event.ranking : TerminalRankingEntrySchema(event.ranking[i])
       [] event.type = "settlementEntitled" -> event.reason \in EndReasons
       [] OTHER -> event.type \in {"tradeAccepted", "tradeRejected", "tradeCancelled", "tradeExpired"}

(* An acknowledgement names at most this many events. *)
MaxEvents == 32

(* A command that expires every waiting trade and makes or ends one can still be acknowledged. *)
ASSUME TradesAssumption == GAMEPLAY_POLICY.maximumActiveTrades < MaxEvents

CommandAcknowledgementSchema(events) == Len(events) <= MaxEvents

(* What the handler builds of the events of a command. *)
gameplayEvents(events) == [i \in DOMAIN events |-> gameplayPayload(events[i])]

Reportable(events) ==
  \E payloads \in {gameplayEvents(events)} :
    /\ CommandAcknowledgementSchema(payloads)
    /\ \A i \in DOMAIN payloads : GameplayEventPayloadSchema(payloads[i])
=============================================================================
