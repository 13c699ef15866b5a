------------------------------ MODULE WebBoard ------------------------------
(***************************************************************************)
(* The board in the browser (apps/web): how a published state is adapted   *)
(* (services/room-state-adapter.ts, components/providers/game-provider.tsx)*)
(* and which commands its buttons and dialogs then offer                   *)
(* (components/features/game-board).                                       *)
(*                                                                         *)
(* A button sends its command for the version it was drawn from, so the    *)
(* command reaches the rules in the state the player saw or is rejected as *)
(* stale; a control is judged in the state it is drawn from.  One command  *)
(* is in flight at a time.  Prices and costs come from the client's own    *)
(* board data, which module RealBoard compares with the rules' board.      *)
(***************************************************************************)
EXTENDS GameCommands, TLC

(* The commands the buttons send. *)
Command(type) == [type |-> type]
CommandAt(type, position) == [type |-> type, position |-> position]
SellBuilding(position, buildingType) ==
  [type |-> "sellBuilding", position |-> position, buildingType |-> buildingType]
DecideTrade(type, tradeId) == [type |-> type, tradeId |-> tradeId]
If(shown, commands) == IF shown THEN commands ELSE {}

-----------------------------------------------------------------------------
(* The adapted state *)

activeTurnSeat(turn) == IF turn.phase = "finished" THEN 0 ELSE turn.currentSeat

(* What a player has and what is asked of him; nothing is asked of players not on turn. *)
gameplayPlayers(pub) ==
  [s \in DOMAIN pub.seats |->
    LET player == pub.seats[s].player
        Asked(phase) == s = activeTurnSeat(pub.turn) /\ pub.turn.phase = phase
    IN [cashBalance |-> player.cash, inJail |-> player.inJail,
        getOutOfJailCards |-> player.getOutOfJailCards,
        isBankrupt |-> player.status = "eliminated",
        needsPropertyAction |-> Asked("awaitingPropertyDecision"),
        needsBankruptcyCheck |-> Asked("awaitingBankruptcy"),
        pendingPropertyPosition |->
          IF Asked("awaitingPropertyDecision") \/ Asked("awaitingRentPayment")
            THEN pub.turn.about ELSE None,
        pendingSpecialSpacePosition |->
          IF ~Asked("awaitingTaxPayment") THEN None
          ELSE IF pub.turn.about = "mev" THEN GAMEPLAY_POLICY.mevTax.position
          ELSE GAMEPLAY_POLICY.priorityFeeTax.position]]

(* A space that is not a street has the color of the first group. *)
mapProperty(space, p) ==
  LET ownable == "ownerId" \in DOMAIN space
      street == BOARD_SPACES[p].propertyType = "street"
  IN [owner |-> IF ownable THEN space.ownerId ELSE None,
      houses |-> IF ownable THEN space.houses ELSE 0,
      hasHotel |-> ownable /\ space.hasHotel,
      street |-> street, colorGroup |-> IF street THEN BOARD_SPACES[p].colorGroup ELSE "brown",
      price |-> IF ownable THEN BOARD_SPACES[p].price ELSE 0,
      houseCost |-> IF street THEN BOARD_SPACES[p].houseCost ELSE 0]

properties(pub) == [p \in DOMAIN pub.board |-> mapProperty(pub.board[p], p)]

trades(pub) ==
  [i \in DOMAIN pub.activeTrades |->
    [proposer |-> pub.activeTrades[i].proposerId, receiver |-> pub.activeTrades[i].receiverId]]

gameStatus(pub) == IF pub.terminal = None THEN "inProgress" ELSE "finished"

adaptRoomState(pub) ==
  [gameStatus |-> gameStatus(pub), turn |-> pub.turn, players |-> gameplayPlayers(pub),
   properties |-> properties(pub), activeTrades |-> trades(pub)]

currentPlayerId(ui) == IF ui.turn.phase = "finished" THEN None ELSE ui.turn.currentSeat
isCurrentTurn(ui, me) == currentPlayerId(ui) = me /\ ui.gameStatus = "inProgress"

-----------------------------------------------------------------------------
(* The buttons of a turn, for the player who looks at the board *)

showRollDice(ui, me) == isCurrentTurn(ui, me) /\ ui.turn.phase = "awaitingRoll"
showEndTurn(ui, me) == isCurrentTurn(ui, me) /\ ui.turn.phase = "awaitingEndTurn"
showPayJailFine(ui, me) == isCurrentTurn(ui, me) /\ ui.players[me].inJail
JailCardWithoutCards(ui, me) == showPayJailFine(ui, me)
showGetOutOfJailCard(ui, me) == showPayJailFine(ui, me) /\ ui.players[me].getOutOfJailCards > 0

DiceAndJailButtons(ui, me) ==
  If(showRollDice(ui, me), {Command("rollDice")})
  \cup If(showPayJailFine(ui, me) /\ ui.players[me].cashBalance >= GAMEPLAY_POLICY.jailFine,
          {Command("payJailFine")})
  \cup If(showGetOutOfJailCard(ui, me), {Command("useJailCard")})

PropertyActions(ui, me) ==
  LET at == ui.players[me].pendingPropertyPosition IN
  If(isCurrentTurn(ui, me) /\ ui.players[me].needsPropertyAction /\ at # None,
     If(ui.properties[at].owner = None,
        {CommandAt("declineProperty", at)}
        \cup If(ui.players[me].cashBalance >= ui.properties[at].price,
                {CommandAt("buyProperty", at)})))

(* Neither tax button looks at the cash. *)
TaxButtons(ui, me) ==
  LET at == ui.players[me].pendingSpecialSpacePosition IN
  If(isCurrentTurn(ui, me) /\ at = GAMEPLAY_POLICY.mevTax.position, {Command("payMevTax")})
  \cup If(isCurrentTurn(ui, me) /\ at = GAMEPLAY_POLICY.priorityFeeTax.position,
          {Command("payPriorityFeeTax")})

EndTurnButton(ui, me) == If(showEndTurn(ui, me), {Command("endTurn")})

(* Opens by itself for everyone who watches, not for the player on turn alone. *)
CardDrawModal(ui) ==
  If(ui.turn.phase = "awaitingCardDraw",
     {IF ui.turn.about = "chance" THEN Command("drawChanceCard")
      ELSE Command("drawCommunityChestCard")})

BankruptcyButton(ui, me) ==
  If(isCurrentTurn(ui, me) /\ ui.players[me].needsBankruptcyCheck /\ ~ui.players[me].isBankrupt,
     {Command("declareBankruptcy")})

(* A color group counts for the player on turn, a street for the player who looks at it. *)
hasColorGroupMonopoly(ui, owner, colorGroup) ==
  LET group == {p \in DOMAIN ui.properties : ui.properties[p].street
                                             /\ ui.properties[p].colorGroup = colorGroup}
  IN group # {} /\ \A p \in group : ui.properties[p].owner = owner

(* Owner and cash are those of the player on turn, the street is of the player who looks. *)
popoverMonopoly(ui, me, p) ==
  /\ ui.properties[p].street /\ ui.properties[p].owner = me /\ currentPlayerId(ui) # None
  /\ hasColorGroupMonopoly(ui, currentPlayerId(ui), ui.properties[p].colorGroup)
hasEnoughForBuilding(ui, p) ==
  ui.players[currentPlayerId(ui)].cashBalance >= ui.properties[p].houseCost

BuildHouseButton(ui, p) ==
  If(~ui.properties[p].hasHotel /\ ui.properties[p].houses < MaxHouses /\ hasEnoughForBuilding(ui, p),
     {CommandAt("buildHouse", p)})
BuildHotelButton(ui, p) ==
  If(~ui.properties[p].hasHotel /\ ui.properties[p].houses = MaxHouses /\ hasEnoughForBuilding(ui, p),
     {CommandAt("buildHotel", p)})
SellButtons(ui, p) ==
  If(~ui.properties[p].hasHotel /\ ui.properties[p].houses > 0, {SellBuilding(p, "house")})
  \cup If(ui.properties[p].hasHotel, {SellBuilding(p, "hotel")})

(* The popover of a street offers building and selling in every phase of one's own turn. *)
PropertyPopover(ui, me, p) ==
  If(popoverMonopoly(ui, me, p),
     BuildHouseButton(ui, p) \cup BuildHotelButton(ui, p) \cup SellButtons(ui, p))

TurnButtons(ui, me) ==
  DiceAndJailButtons(ui, me) \cup PropertyActions(ui, me) \cup TaxButtons(ui, me)
  \cup EndTurnButton(ui, me) \cup BankruptcyButton(ui, me)

Controls(ui, me) ==
  TurnButtons(ui, me) \cup CardDrawModal(ui)
  \cup UNION {PropertyPopover(ui, me, p) : p \in DOMAIN ui.properties}

-----------------------------------------------------------------------------
(* Trades: the list of them and the dialog that makes them *)

(* A trade is received, or else sent, and concerns nobody but its two parties. *)
TradeItem(ui, me, i) ==
  If(me \in {ui.activeTrades[i].proposer, ui.activeTrades[i].receiver},
     IF ui.activeTrades[i].receiver = me
       THEN {DecideTrade("acceptTrade", i), DecideTrade("rejectTrade", i)}
       ELSE {DecideTrade("cancelTrade", i)})

TradeView(ui, me) == UNION {TradeItem(ui, me, i) : i \in DOMAIN ui.activeTrades}

playerProperties(ui, s) == {p \in DOMAIN ui.properties : ui.properties[p].owner = s}

(* A kind of trade is listed when each of the two has what it takes. *)
availableTradeTypes(ui, me, other) ==
  LET HasMoney(s) == ui.players[s].cashBalance > 0
      HasProperty(s) == playerProperties(ui, s) # {}
  IN If(HasMoney(me) /\ HasMoney(other), {"money-money"})
     \cup If(HasMoney(me) /\ HasProperty(other), {"money-property"})
     \cup If(HasProperty(me) /\ HasMoney(other), {"property-money"})
     \cup If(HasProperty(me) /\ HasProperty(other), {"property-property"})

(* The slider goes in steps of ten and ends at what the one who is to pay has; amounts are *)
(* bounded to those of TradeTerms.                                                         *)
MoneySelection(ui, from) ==
  {money \in {0} \cup UNION {{terms.offeredCash, terms.requestedCash} : terms \in TradeTerms} :
     money <= ui.players[from].cashBalance /\ money % 10 = 0}

PropertyOfAnyone(ui, from) ==
  {None} \cup {p \in DOMAIN ui.properties : ui.properties[p].owner # None}
PropertySelection(ui, from) == {None} \cup playerProperties(ui, from)

(* What can be filled in after a player was picked, for whichever kind of trade is selected. *)
CreateTradeDialog(ui, me, other) ==
  [tradeType : {"money-money", "money-property", "property-money", "property-property"},
   offerMoney : MoneySelection(ui, me), offerProperty : PropertySelection(ui, me),
   requestMoney : MoneySelection(ui, other), requestProperty : PropertySelection(ui, other)]

OffersMoney(form) == form.tradeType \in {"money-money", "money-property"}
RequestsMoney(form) == form.tradeType \in {"money-money", "property-money"}

(* The side of the kind of trade that is selected must be filled in, on either side. *)
isFormValid(form) ==
  /\ IF OffersMoney(form) THEN form.offerMoney > 0 ELSE form.offerProperty # None
  /\ IF RequestsMoney(form) THEN form.requestMoney > 0 ELSE form.requestProperty # None

(* Fields of other kinds of trade may still be filled in and are not sent. *)
handleCreateTrade(form) ==
  [initiator |-> IF OffersMoney(form) THEN [money |-> form.offerMoney, property |-> None]
                 ELSE [money |-> 0, property |-> form.offerProperty],
   target |-> IF RequestsMoney(form) THEN [money |-> form.requestMoney, property |-> None]
              ELSE [money |-> 0, property |-> form.requestProperty]]

(* The kind of trade that is sent follows from what the two sides give. *)
TradeCommand(receiver, initiator, target) ==
  [type |-> "createTrade", receiverId |-> receiver] @@
  IF initiator.property # None /\ target.money # 0
    THEN [tradeType |-> "propertyForMoney", offeredPropertyPosition |-> initiator.property,
          requestedCash |-> target.money]
  ELSE IF target.property # None /\ initiator.money # 0
    THEN [tradeType |-> "moneyForProperty", offeredCash |-> initiator.money,
          requestedPropertyPosition |-> target.property]
  ELSE IF initiator.property # None \/ target.property # None
    THEN [tradeType |-> "propertyOnly", offeredPropertyPosition |-> initiator.property,
          requestedPropertyPosition |-> target.property]
  ELSE [tradeType |-> "moneyOnly", offeredCash |-> initiator.money, requestedCash |-> target.money]

(* Nothing can be sent while no kind of trade is listed at all. *)
NewTrades(ui, me, other) ==
  If(availableTradeTypes(ui, me, other) # {},
     {LET offers == handleCreateTrade(form) IN TradeCommand(other, offers.initiator, offers.target) :
        form \in {f \in CreateTradeDialog(ui, me, other) : isFormValid(f)}})

-----------------------------------------------------------------------------
(* Properties: what the browser offers and what the rules accept *)

Shown == adaptRoomState(publicGameplayState(game))

(* The bounds of the model leave room for another command of a player. *)
CanSend ==
  game.lifecycle = "inProgress" /\ ~silent
  /\ game.stateVersion + QuietVersions < MAX_STATE_VERSION

BuildingCommands ==
  {CommandAt(type, p) : type \in {"buildHouse", "buildHotel"}, p \in Positions}
  \cup {SellBuilding(p, buildingType) : p \in Positions, buildingType \in {"house", "hotel"}}
TurnCommands ==
  {Command(type) : type \in EmptyCommands} \cup BuildingCommands
  \cup {CommandAt(type, p) : type \in PositionedGameplayCommand, p \in Positions}

(* The player on turn, who always has a command the rules accept, is offered each of them but   *)
(* for the rent and a fine he cannot pay; and what he is offered is accepted, but for buildings, *)
(* a fee he cannot pay and a jail card while a bankruptcy waits.  Who cannot pay the priority    *)
(* fee has no command at all and loses the turn to its timer.                                    *)
TurnsCanBePlayed ==
  CanSend =>
    LET offered == Controls(Shown, Current)
        legal == {c \in TurnCommands : Handled(Current, c)}
        feeDue == game.turn.phase = "awaitingTaxPayment"
                  /\ game.turn.at = GAMEPLAY_POLICY.priorityFeeTax.position
                  /\ Me.cash < GAMEPLAY_POLICY.priorityFeeTax.amount
    IN /\ legal = {} => feeDue
       /\ legal \ offered \subseteq
            {CommandAt("payRent", game.turn.at)}
            \cup If(Me.cash < GAMEPLAY_POLICY.jailFine, {Command("payJailFine")})
       /\ offered \ legal \subseteq
            BuildingCommands
            \cup If(feeDue, {Command("payPriorityFeeTax")})
            \cup If(game.turn.phase = "awaitingBankruptcy", {Command("useJailCard")})

(* While no bankruptcy is pending, whoever is shown a button that turns a trade down or takes it *)
(* back can use it, and every trade that can be put together in the dialog passes the contract,  *)
(* the rules and the serialization, up to the limit of open trades.                              *)
TradeButtonsWork ==
  CanSend /\ game.bankruptcyRequired = None =>
    LET ui == Shown IN
    \A me \in Seats :
      /\ \A c \in TradeView(ui, me) : c.type # "acceptTrade" => Handled(me, c)
      /\ HasSlot(game.activeTrades) =>
           \A other \in Seats \ {me} : \A c \in NewTrades(ui, me, other) : Handled(me, c)
=============================================================================
