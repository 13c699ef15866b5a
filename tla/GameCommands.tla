---------------------------- MODULE GameCommands ----------------------------
(***************************************************************************)
(* From a message of a player to the rules: the contract of commands       *)
(* (packages/game-contracts/src/realtime/gameplay-commands.ts), their      *)
(* conversion in the room (commands/command-handler.ts) and the one entry  *)
(* point of the rules that sends each kind of command to its transition    *)
(* (packages/game-core/src/rules/gameplay-transition.ts), where its shape  *)
(* and its sender are judged once more.                                    *)
(*                                                                         *)
(* A command is a record of its type and the fields of its payload.  Its   *)
(* version is left out: these are commands meant for the present state.    *)
(* A trade is named by its place among the open ones.  Commands of the     *)
(* room itself (timers, expiry) are the actions of GameRules.              *)
(***************************************************************************)
EXTENDS PublicState

-----------------------------------------------------------------------------
(* The contract: every object is strict *)

Fields(c) == DOMAIN c \ {"type"}

GameplayTurnCommand == {"rollDice", "endTurn"}
GameplayJailCommand == {"payJailFine", "useJailCard"}
GameplayCardCommand == {"drawChanceCard", "drawCommunityChestCard"}
TaxCommand == {"payMevTax", "payPriorityFeeTax"}
PositionedGameplayCommand == {"buyProperty", "declineProperty", "payRent", "buildHouse", "buildHotel"}
GameplayPropertyCommand == PositionedGameplayCommand \cup TaxCommand \cup {"sellBuilding"}
TradeDecisionGameplayCommand == {"acceptTrade", "rejectTrade", "cancelTrade"}
GameplayTradeCommand == TradeDecisionGameplayCommand \cup {"createTrade"}

EmptyCommands ==
  GameplayTurnCommand \cup GameplayJailCommand \cup GameplayCardCommand \cup TaxCommand
  \cup {"declareBankruptcy"}

emptyPlayerCommand(c) == Fields(c) = {}
positionedPlayerCommand(c) == Fields(c) = {"position"} /\ c.position \in Positions
SellBuildingCommandSchema(c) ==
  /\ Fields(c) = {"position", "buildingType"} /\ c.position \in Positions
  /\ c.buildingType \in {"house", "hotel"}
tradeDecisionCommand(c) == Fields(c) = {"tradeId"}

positiveCash(cash) == InMatchCash(cash) /\ cash # 0

tradePayload(c) ==
  LET HasTerms(terms) == Fields(c) = {"tradeType", "receiverId"} \cup terms
      AtMost(p) == p \in Positions \cup {None}
  IN CASE c.tradeType = "moneyOnly" ->
            /\ HasTerms({"offeredCash", "requestedCash"})
            /\ InMatchCash(c.offeredCash) /\ InMatchCash(c.requestedCash)
            /\ c.offeredCash # 0 \/ c.requestedCash # 0
       [] c.tradeType = "propertyOnly" ->
            /\ HasTerms({"offeredPropertyPosition", "requestedPropertyPosition"})
            /\ AtMost(c.offeredPropertyPosition) /\ AtMost(c.requestedPropertyPosition)
            /\ c.offeredPropertyPosition # c.requestedPropertyPosition
       [] c.tradeType = "moneyForProperty" ->
            /\ HasTerms({"offeredCash", "requestedPropertyPosition"})
            /\ positiveCash(c.offeredCash) /\ c.requestedPropertyPosition \in Positions
       [] c.tradeType = "propertyForMoney" ->
            /\ HasTerms({"offeredPropertyPosition", "requestedCash"})
            /\ c.offeredPropertyPosition \in Positions /\ positiveCash(c.requestedCash)

PlayerGameplayCommandSchema(c) ==
  CASE c.type \in EmptyCommands -> emptyPlayerCommand(c)
    [] c.type \in PositionedGameplayCommand -> positionedPlayerCommand(c)
    [] c.type = "sellBuilding" -> SellBuildingCommandSchema(c)
    [] c.type \in TradeDecisionGameplayCommand -> tradeDecisionCommand(c)
    [] c.type = "createTrade" -> tradePayload(c)

-----------------------------------------------------------------------------
(* In the room *)

(* Only a new trade is converted: its terms are set apart from its receiver. *)
coreGameplayCommand(c) ==
  IF c.type # "createTrade" THEN c
  ELSE [type |-> c.type, receiverId |-> c.receiverId,
        terms |-> [field \in Fields(c) \ {"receiverId"} |-> c[field]]]

-----------------------------------------------------------------------------
(* In the rules *)

(* The sides of a trade; a kind of trade that has no such field counts as nothing. *)
cashTerms(terms, field) == IF field \in DOMAIN terms THEN terms[field] ELSE 0
propertyTerms(terms, field) == IF field \in DOMAIN terms THEN terms[field] ELSE None

TermsOf(terms) ==
  [offeredCash |-> cashTerms(terms, "offeredCash"),
   requestedCash |-> cashTerms(terms, "requestedCash"),
   offeredProperty |-> propertyTerms(terms, "offeredPropertyPosition"),
   requestedProperty |-> propertyTerms(terms, "requestedPropertyPosition")]

playerActorAuthorized(actor) == actor = Current

transitionGameplayTurn(actor, c) ==
  /\ emptyPlayerCommand(c) /\ playerActorAuthorized(actor)
  /\ \/ c.type = "rollDice" /\ rollDice
     \/ c.type = "endTurn" /\ endTurn

transitionGameplayJail(actor, c) ==
  /\ emptyPlayerCommand(c) /\ playerActorAuthorized(actor)
  /\ \/ c.type = "payJailFine" /\ payJailFine
     \/ c.type = "useJailCard" /\ useJailCard

commandDeck(c) == IF c.type = "drawChanceCard" THEN "chance" ELSE "communityChest"

transitionGameplayCard(actor, c) ==
  /\ emptyPlayerCommand(c) /\ playerActorAuthorized(actor)
  /\ game.turn.phase = "awaitingCardDraw" /\ Deck = commandDeck(c) /\ drawCard

transitionGameplayBankruptcy(actor, c) ==
  emptyPlayerCommand(c) /\ playerActorAuthorized(actor) /\ declareBankruptcy

validPropertyCommand(c) ==
  CASE c.type \in TaxCommand -> emptyPlayerCommand(c)
    [] c.type = "sellBuilding" -> SellBuildingCommandSchema(c)
    [] c.type \in PositionedGameplayCommand -> positionedPlayerCommand(c)

(* What is bought, declined or paid for must be what the player landed on. *)
transitionGameplayProperty(actor, c) ==
  /\ validPropertyCommand(c) /\ playerActorAuthorized(actor) /\ game.bankruptcyRequired = None
  /\ \/ c.type = "buyProperty" /\ game.turn.at = c.position /\ buyProperty
     \/ c.type = "declineProperty" /\ game.turn.at = c.position /\ declineProperty
     \/ c.type = "payRent" /\ game.turn.at = c.position /\ payRent
     \/ c.type = "payMevTax" /\ payMevTax
     \/ c.type = "payPriorityFeeTax" /\ payPriorityFeeTax
     \/ c.type = "buildHouse" /\ c.position \in OwnStreets /\ buildHouse(c.position)
     \/ c.type = "buildHotel" /\ c.position \in OwnStreets /\ buildHotel(c.position)
     \/ /\ c.type = "sellBuilding" /\ c.position \in OwnStreets
        /\ IF c.buildingType = "house" THEN sellHouse(c.position) ELSE sellHotel(c.position)

(* Any player trades, on turn or not; only the receiver answers and only the proposer cancels. *)
transitionGameplayTrade(actor, c) ==
  /\ game.players[actor].status = "active"
  /\ \/ /\ c.type = "createTrade" /\ c.receiverId \in Seats \ {actor}
        /\ \E terms \in {TermsOf(c.terms)} :
             validTerms(terms) /\ createTrade(actor, c.receiverId, terms)
     \/ /\ c.type \in TradeDecisionGameplayCommand /\ c.tradeId \in DOMAIN game.activeTrades
        /\ LET trade == game.activeTrades[c.tradeId] IN
           \/ c.type = "acceptTrade" /\ trade.receiver = actor /\ acceptTrade(c.tradeId)
           \/ c.type = "rejectTrade" /\ trade.receiver = actor /\ rejectTrade(c.tradeId)
           \/ c.type = "cancelTrade" /\ trade.proposer = actor /\ cancelTrade(c.tradeId)

transitionGameplay(actor, c) ==
  /\ game.lifecycle = "inProgress"
  /\ \/ c.type \in GameplayTurnCommand /\ transitionGameplayTurn(actor, c)
     \/ c.type \in GameplayPropertyCommand /\ transitionGameplayProperty(actor, c)
     \/ c.type \in GameplayJailCommand /\ transitionGameplayJail(actor, c)
     \/ c.type \in GameplayCardCommand /\ transitionGameplayCard(actor, c)
     \/ c.type = "declareBankruptcy" /\ transitionGameplayBankruptcy(actor, c)
     \/ c.type \in GameplayTradeCommand /\ transitionGameplayTrade(actor, c)

(* A command that passes the contract, is accepted by the rules and can be stored. *)
Handled(actor, c) ==
  /\ PlayerGameplayCommandSchema(c)
  /\ \E command \in {coreGameplayCommand(c)} :
       ENABLED (transitionGameplay(actor, command) /\ UNCHANGED refused)
=============================================================================
