----------------------------- MODULE GameRules -----------------------------
(***************************************************************************)
(* A match from its start to its end: every gameplay command of            *)
(* packages/game-core (rules/gameplay-transition.ts) as the room applies   *)
(* it (apps/game-server/src/commands/command-handler.ts).                  *)
(*                                                                         *)
(* A command the rules accept yields events and a new aggregate.  Before   *)
(* it commits anything the room checks the events against the contract and *)
(* serializes the aggregate, which validates it; when one of them fails,   *)
(* an accepted command throws and changes nothing.  refused collects the   *)
(* kinds of commands it happens to.                                        *)
(*                                                                         *)
(* Commands carry the state version they were meant for, and one that is   *)
(* stale is rejected: a step is a command that was not.  A command of the  *)
(* wrong actor or phase is rejected without a change and has no step.      *)
(* Dice, cards and the moment a timer fires are choices.  The timer's      *)
(* warnings only note that they were sent and have no step either.         *)
(***************************************************************************)
EXTENDS GameEvents

CONSTANTS
  Dice,          \* pairs the two dice can show
  TradeTerms,    \* bound: terms players offer
  TimeLimited,   \* whether the match has a gameEndAtMs
  QuietVersions  \* bound: versions left for timers once players fall silent

ASSUME DiceAssumption == Dice \subseteq (1 .. 6) \X (1 .. 6)
ASSUME TermsAssumption == \A terms \in TradeTerms : terms \in Terms /\ validTerms(terms)
ASSUME QuietAssumption == TimeLimited \in BOOLEAN /\ QuietVersions \in Nat
(* As on the real board, one roll leads from jail neither to the go-to-jail corner nor past GO. *)
ASSUME JailExitAssumption ==
  \A d \in Dice : LET to == GAMEPLAY_POLICY.jailPosition + d[1] + d[2]
                  IN to < GAMEPLAY_POLICY.boardSize /\ to # GAMEPLAY_POLICY.goToJailPosition

VARIABLES
  game,      \* the aggregate the room holds and has committed
  refused,   \* kinds of accepted commands whose events or result could not be stored
  timeUp,    \* gameEndAtMs has passed
  silent     \* the players have stopped sending commands

vars == <<game, refused, timeUp, silent>>

CommandKinds ==
  {"rollDice", "endTurn", "buyProperty", "declineProperty", "payRent", "payTax", "payMevTax",
   "buildHouse", "buildHotel", "sellBuilding", "payJailFine", "useJailCard", "drawCard",
   "declareBankruptcy", "createTrade", "acceptTrade", "rejectTrade", "cancelTrade",
   "cleanupExpiredTrades", "handleTurnTimeout", "enforceGameTimeLimit"}

Trade ==
  {trade \in [proposer : Seats, receiver : Seats, terms : TradeTerms] : trade.proposer # trade.receiver}

(* The match is one the room can hold. *)
MatchOK ==
  /\ DOMAIN game = DOMAIN initializeGameplayAggregate
  /\ game.lifecycle \in {"inProgress", "finished"}
  /\ game.stateVersion \in 1 .. MAX_STATE_VERSION
  /\ game.players \in [Seats -> Player] /\ game.properties \in [Positions -> Property]
  /\ game.bankCash \in 0 .. MAX_MATCH_CASH
  /\ game.housesRemaining \in Nat /\ game.hotelsRemaining \in Nat
  /\ hydrateTurn(game.turn, game.lifecycle) /\ game.bankruptcyRequired \in Seats \cup {None}
  /\ game.activeTrades \in Seq(Trade)
  /\ Len(game.activeTrades) <= GAMEPLAY_POLICY.maximumActiveTrades
  /\ hydrateDice(game.lastDice)
  /\ game.terminal # None => hydrateTerminal(game.terminal)
  /\ timeUp \in BOOLEAN /\ silent \in BOOLEAN

TypeOK == MatchOK /\ refused \subseteq CommandKinds

Init ==
  /\ game = initializeGameplayAggregate
  /\ refused = {} /\ timeUp = FALSE /\ silent = FALSE

-----------------------------------------------------------------------------
(* Common parts of the commands *)

InProgress == game.lifecycle = "inProgress" /\ game.stateVersion < MAX_STATE_VERSION
Current == game.turn.seat
Me == game.players[Current]

(* A command of the current player in a phase; timers need the versions kept for them. *)
PlayerTurn(phases) ==
  /\ InProgress /\ ~silent /\ game.stateVersion + QuietVersions < MAX_STATE_VERSION
  /\ game.turn.phase \in phases

(* The events are parsed and the result is serialized, which validates it, and committed. *)
Commit(kind, next, events) ==
  \E committed \in {[next EXCEPT !.stateVersion = @ + 1]} :
    /\ IF Reportable(events) /\ hydrateGameplayState(committed)
         THEN game' = committed /\ UNCHANGED refused
         ELSE refused' = refused \cup {kind} /\ UNCHANGED game
    /\ UNCHANGED <<timeUp, silent>>

createClockedGameplayTurn(phase, seat) == [phase |-> phase, seat |-> seat, at |-> None]
Pending(phase, seat, at) == [phase |-> phase, seat |-> seat, at |-> at]

CanAdvance == nextActiveSeat(game.players, Current) # Current
advanceGameplayTurn ==
  createClockedGameplayTurn("awaitingRoll", nextActiveSeat(game.players, Current))

RollAgainOrEnd(again) == IF again THEN "awaitingRoll" ELSE "awaitingEndTurn"

(* The phase a player is in after he came to a position. *)
createGameplayLandingTurn(position, rolledDoubles) ==
  LET type == BOARD_SPACES[position].propertyType
      owner == game.properties[position].owner
  IN CASE isOwnableSpace(position) /\ owner = None ->
            Pending("awaitingPropertyDecision", Current, position)
       [] isOwnableSpace(position) /\ owner \notin {None, Current} ->
            Pending("awaitingRentPayment", Current, position)
       [] type \in {"chance", "communityChest"} -> Pending("awaitingCardDraw", Current, position)
       [] type = "tax" -> Pending("awaitingTaxPayment", Current, position)
       [] OTHER -> createClockedGameplayTurn(RollAgainOrEnd(rolledDoubles), Current)

phaseAfterResolvedAction ==
  createClockedGameplayTurn(RollAgainOrEnd(game.lastDice.isDoubles), Current)

(* The current player cannot pay and has nothing left to do but declare bankruptcy. *)
RequireBankruptcy(g) ==
  [g EXCEPT !.turn = createClockedGameplayTurn("awaitingBankruptcy", Current),
            !.bankruptcyRequired = Current]

-----------------------------------------------------------------------------
(* Rolling and ending the turn (gameplay-turn-transition.ts) *)

RollOf(d) == [dice |-> d, total |-> d[1] + d[2], isDoubles |-> d[1] = d[2]]

Jailed(player) ==
  [player EXCEPT !.position = GAMEPLAY_POLICY.jailPosition, !.inJail = TRUE, !.jailTurns = 0,
                 !.consecutiveDoubles = 0]
Freed(player) ==
  [player EXCEPT !.inJail = FALSE, !.jailTurns = 0, !.consecutiveDoubles = 0]

(* A roll in jail without doubles while jail turns are left. *)
JailRollRemains(roll) ==
  /\ Me.inJail /\ ~roll.isDoubles /\ Me.jailTurns + 1 < GAMEPLAY_POLICY.maximumJailTurns
  /\ CanAdvance
  /\ Commit("rollDice", [game EXCEPT !.players[Current].jailTurns = @ + 1,
                                     !.turn = advanceGameplayTurn, !.lastDice = roll],
            <<Rolled(Current, roll)>>)

FineDue(roll) ==
  /\ Me.inJail /\ ~roll.isDoubles /\ Me.jailTurns + 1 >= GAMEPLAY_POLICY.maximumJailTurns

JailRollBankrupts(roll) ==
  /\ FineDue(roll) /\ Me.cash < GAMEPLAY_POLICY.jailFine
  /\ Commit("rollDice",
       RequireBankruptcy([game EXCEPT !.players[Current] = [Freed(@) EXCEPT !.cash = 0],
                                      !.lastDice = roll]),
       <<Rolled(Current, roll)>>)

(* Doubles, or the fine after the last jail turn; neither gives another roll here. *)
JailRollReleases(roll) ==
  LET fine == IF FineDue(roll) THEN GAMEPLAY_POLICY.jailFine ELSE 0
      movement == moveBy(Me.position, roll.total)
      to == movement.to
  IN /\ Me.inJail /\ (roll.isDoubles \/ FineDue(roll)) /\ Me.cash >= fine
     /\ Commit("rollDice",
          [game EXCEPT !.players[Current] = [Freed(Me) EXCEPT !.cash = @ - fine, !.position = to],
                       !.turn = createGameplayLandingTurn(to, FALSE), !.lastDice = roll],
          <<Rolled(Current, roll),
            JailExited(Current, IF roll.isDoubles THEN "doubles" ELSE "fine"),
            Moved(Current, Me.position, movement, 0)>>)

ThirdDoubles(roll) == roll.isDoubles /\ Me.consecutiveDoubles = 2

RollThirdDoubles(roll) ==
  /\ ~Me.inJail /\ ThirdDoubles(roll) /\ CanAdvance
  /\ Commit("rollDice", [game EXCEPT !.players[Current] = Jailed(@),
                                     !.turn = advanceGameplayTurn, !.lastDice = roll],
            <<Rolled(Current, roll), JailEntered(Current, "threeDoubles")>>)

Salary(movement) == IF movement.passedGo THEN GAMEPLAY_POLICY.passGoSalary ELSE 0

(* The salary for passing GO is kept even when the roll ends on the go-to-jail corner. *)
RollAndMove(roll) ==
  LET movement == moveBy(Me.position, roll.total)
      cash == Me.cash + Salary(movement)
      toJail == movement.to = GAMEPLAY_POLICY.goToJailPosition
      moved == [Me EXCEPT !.cash = cash, !.position = movement.to,
                          !.consecutiveDoubles = IF roll.isDoubles THEN @ + 1 ELSE 0]
      reported == <<Rolled(Current, roll), Moved(Current, Me.position, movement, Salary(movement))>>
  IN /\ ~Me.inJail /\ ~ThirdDoubles(roll) /\ cash <= MAX_MATCH_CASH
     /\ toJail => CanAdvance
     /\ Commit("rollDice",
          IF toJail
            THEN [game EXCEPT !.players[Current] = Jailed(moved),
                              !.turn = advanceGameplayTurn, !.lastDice = roll]
            ELSE [game EXCEPT !.players[Current] = moved, !.lastDice = roll,
                              !.turn = createGameplayLandingTurn(movement.to, roll.isDoubles)],
          IF toJail THEN Append(reported, JailEntered(Current, "space")) ELSE reported)

rollDice ==
  /\ PlayerTurn({"awaitingRoll"})
  /\ \E d \in Dice : LET roll == RollOf(d) IN
       \/ JailRollRemains(roll) \/ JailRollBankrupts(roll) \/ JailRollReleases(roll)
       \/ RollThirdDoubles(roll) \/ RollAndMove(roll)

endTurn ==
  /\ PlayerTurn({"awaitingEndTurn"}) /\ game.bankruptcyRequired = None
  /\ game.lastDice # None /\ CanAdvance
  /\ Commit("endTurn", [game EXCEPT !.players[Current].consecutiveDoubles = 0,
                                    !.turn = advanceGameplayTurn, !.lastDice = None], <<>>)

-----------------------------------------------------------------------------
(* Property, rent and tax (gameplay-property-transition.ts) *)

buyProperty ==
  LET price == BOARD_SPACES[game.turn.at].price IN
  /\ PlayerTurn({"awaitingPropertyDecision"}) /\ game.properties[game.turn.at].owner = None
  /\ Me.cash >= price
  /\ Commit("buyProperty", [game EXCEPT !.players[Current].cash = @ - price,
                                        !.properties[game.turn.at].owner = Current,
                                        !.turn = phaseAfterResolvedAction],
            <<PropertyDecided("propertyPurchased", Current, game.turn.at, price)>>)

declineProperty ==
  /\ PlayerTurn({"awaitingPropertyDecision"}) /\ game.properties[game.turn.at].owner = None
  /\ Commit("declineProperty", [game EXCEPT !.turn = phaseAfterResolvedAction],
            <<PropertyDecided("propertyDeclined", Current, game.turn.at,
                              BOARD_SPACES[game.turn.at].price)>>)

(* The payer's row is written whoever the owner is. *)
PassRent(owner, amount) ==
  [game EXCEPT !.players[owner].cash = @ + amount, !.players[Current].cash = Me.cash - amount]

payRent ==
  LET owner == game.properties[game.turn.at].owner
      amount == calculateRent(game.properties, game.turn.at, game.lastDice.total)
  IN /\ PlayerTurn({"awaitingRentPayment"}) /\ owner \in ActiveSeats(game.players)
     /\ \/ /\ Me.cash < amount
           /\ Commit("payRent", RequireBankruptcy(game), <<>>)
        \/ /\ Me.cash >= amount /\ game.players[owner].cash + amount <= MAX_MATCH_CASH
           /\ Commit("payRent", [PassRent(owner, amount) EXCEPT !.turn = phaseAfterResolvedAction],
                     <<RentPaid(Current, owner, game.turn.at, amount)>>)

PayTax(taxKind, tax) ==
  /\ PlayerTurn({"awaitingTaxPayment"}) /\ game.turn.at = tax.position
  /\ Me.cash >= tax.amount
  /\ Commit("payTax", [game EXCEPT !.players[Current].cash = @ - tax.amount,
                                   !.turn = phaseAfterResolvedAction],
            <<TaxPaid(Current, taxKind, tax)>>)

MevTaxMustBePaid == PayTax("mev", GAMEPLAY_POLICY.mevTax)

(* Only the MEV tax leads to bankruptcy; the other is rejected when it cannot be paid. *)
payMevTax ==
  \/ PayTax("mev", GAMEPLAY_POLICY.mevTax)
  \/ /\ PlayerTurn({"awaitingTaxPayment"}) /\ game.turn.at = GAMEPLAY_POLICY.mevTax.position
     /\ Me.cash < GAMEPLAY_POLICY.mevTax.amount
     /\ Commit("payMevTax", RequireBankruptcy(game), <<>>)

payPriorityFeeTax == PayTax("priorityFee", GAMEPLAY_POLICY.priorityFeeTax)

-----------------------------------------------------------------------------
(* Buildings (building-rules.ts); each keeps the phase and restarts its clock *)

BuildingAction(kind, p, property, houses, hotels, cash, event) ==
  /\ PlayerTurn({"awaitingRoll", "awaitingEndTurn"}) /\ game.bankruptcyRequired = None
  /\ cash \in 0 .. MAX_MATCH_CASH
  /\ Commit(kind, [game EXCEPT !.players[Current].cash = cash, !.properties[p] = property,
                               !.housesRemaining = houses, !.hotelsRemaining = hotels],
            <<event>>)

OwnStreets == {p \in Positions : BOARD_SPACES[p].propertyType = "street"
                                 /\ game.properties[p].owner = Current}
SalePrice(p) == BOARD_SPACES[p].houseCost \div 2

buildHouse(p) ==
  /\ canBuildHouse(game.properties, p, Current) /\ game.housesRemaining >= 1
  /\ BuildingAction("buildHouse", p, [game.properties[p] EXCEPT !.houses = @ + 1],
       game.housesRemaining - 1, game.hotelsRemaining, Me.cash - BOARD_SPACES[p].houseCost,
       BuildingBuilt(Current, p, "house", game.properties[p].houses + 1, BOARD_SPACES[p].houseCost))

buildHotel(p) ==
  /\ game.properties[p].houses = MaxHouses /\ hasMonopoly(game.properties, Current, p)
  /\ game.hotelsRemaining >= 1
  /\ BuildingAction("buildHotel", p, [game.properties[p] EXCEPT !.houses = 0, !.hasHotel = TRUE],
       game.housesRemaining + MaxHouses, game.hotelsRemaining - 1,
       Me.cash - BOARD_SPACES[p].houseCost,
       BuildingBuilt(Current, p, "hotel", 0, BOARD_SPACES[p].houseCost))

sellHouse(p) ==
  /\ canSellHouse(game.properties, p, Current)
  /\ BuildingAction("sellBuilding", p, [game.properties[p] EXCEPT !.houses = @ - 1],
       game.housesRemaining + 1, game.hotelsRemaining, Me.cash + SalePrice(p),
       BuildingSold(Current, p, "house", SalePrice(p)))

sellHotel(p) ==
  /\ game.properties[p].hasHotel /\ game.housesRemaining >= MaxHouses
  /\ BuildingAction("sellBuilding", p,
       [game.properties[p] EXCEPT !.houses = MaxHouses, !.hasHotel = FALSE],
       game.housesRemaining - MaxHouses, game.hotelsRemaining + 1, Me.cash + SalePrice(p),
       BuildingSold(Current, p, "hotel", SalePrice(p)))

Building == \E p \in OwnStreets : buildHouse(p) \/ buildHotel(p) \/ sellHouse(p) \/ sellHotel(p)

-----------------------------------------------------------------------------
(* Jail (gameplay-jail-transition.ts) *)

LeaveJail(kind, player, method) ==
  /\ CanAdvance
  /\ Commit(kind, [game EXCEPT !.players[Current] = Freed(player), !.turn = advanceGameplayTurn,
                               !.lastDice = None], <<JailExited(Current, method)>>)

payJailFine ==
  /\ PlayerTurn({"awaitingRoll"}) /\ Me.inJail
  /\ \/ /\ Me.cash >= GAMEPLAY_POLICY.jailFine
        /\ LeaveJail("payJailFine", [Me EXCEPT !.cash = @ - GAMEPLAY_POLICY.jailFine], "fine")
     \/ /\ Me.cash < GAMEPLAY_POLICY.jailFine
        /\ Commit("payJailFine", RequireBankruptcy([game EXCEPT !.lastDice = None]), <<>>)

useJailCard ==
  /\ PlayerTurn({"awaitingRoll"}) /\ Me.inJail /\ Me.getOutOfJailCards > 0
  /\ LeaveJail("useJailCard", [Me EXCEPT !.getOutOfJailCards = @ - 1], "card")

-----------------------------------------------------------------------------
(* Cards (gameplay-card-transition.ts, card-rules.ts) *)

Deck == BOARD_SPACES[game.turn.at].propertyType

(* The turn goes on where it was, or with the space the card leads to. *)
continuationTurn(position, moved) ==
  IF moved THEN createGameplayLandingTurn(position, game.lastDice.isDoubles)
  ELSE phaseAfterResolvedAction

Drawn(card) == CardDrawn(Current, Deck, card)

(* Every seat that was taken counts as another player, eliminated ones too. *)
CardCash(card) ==
  IF card.effect = "collectFromPlayers" THEN card.amount * (Cardinality(Seats) - 1) ELSE card.amount

CardChangesCash(card) ==
  LET cash == Me.cash + CardCash(card) IN
  /\ card.effect \in {"money", "collectFromPlayers"}
  /\ \/ /\ cash \in 0 .. MAX_MATCH_CASH
        /\ Commit("drawCard", [game EXCEPT !.players[Current].cash = cash,
                                           !.turn = continuationTurn(Me.position, FALSE)],
                  <<Drawn(card)>>)
     \/ /\ cash < 0
        /\ Commit("drawCard", RequireBankruptcy([game EXCEPT !.players[Current].cash = 0]),
                  <<Drawn(card)>>)

CardMovement(card) ==
  IF card.effect = "moveToNearest" THEN moveToNearest(Me.position, NearestTargets)
  ELSE IF Deck = "chance" THEN moveBy(Me.position, card.amount)
  ELSE absoluteMovement(Me.position, card.amount)

CardMoves(card) ==
  LET movement == CardMovement(card)
      cash == Me.cash + Salary(movement)
  IN /\ card.effect \in {"move", "moveToNearest"} /\ cash <= MAX_MATCH_CASH
     /\ Commit("drawCard", [game EXCEPT !.players[Current].cash = cash,
                                        !.players[Current].position = movement.to,
                                        !.turn = continuationTurn(movement.to, TRUE)],
               <<Drawn(card), Moved(Current, Me.position, movement, Salary(movement))>>)

CardIsKept(card) ==
  /\ card.effect = "getOutOfJailFree" /\ Me.getOutOfJailCards < 255
  /\ Commit("drawCard", [game EXCEPT !.players[Current].getOutOfJailCards = @ + 1,
                                     !.turn = continuationTurn(Me.position, FALSE)],
            <<Drawn(card)>>)

CardRepairs(card) ==
  /\ card.effect = "repairFree"
  /\ Commit("drawCard", [game EXCEPT !.turn = continuationTurn(Me.position, FALSE)],
            <<Drawn(card)>>)

drawCard ==
  /\ PlayerTurn({"awaitingCardDraw"})
  /\ \E card \in IF Deck = "chance" THEN CHANCE_CARDS ELSE COMMUNITY_CHEST_CARDS :
       CardChangesCash(card) \/ CardMoves(card) \/ CardIsKept(card) \/ CardRepairs(card)

-----------------------------------------------------------------------------
(* Bankruptcy (bankruptcy-rules.ts, gameplay-bankruptcy-transition.ts) *)

LiquidationValue(g, seat) ==
  MapThenSumSet(
    LAMBDA p : LET houseCost == BOARD_SPACES[p].houseCost IN
      BOARD_SPACES[p].mortgageValue +
      IF g.properties[p].hasHotel THEN (houseCost * (MaxHouses + 1)) \div 2
      ELSE (houseCost \div 2) * g.properties[p].houses,
    ownedPropertyPositions(g.properties, seat))

CanResolve(g, seat) ==
  g.bankCash + LiquidationValue(g, seat) + g.players[seat].cash <= MAX_MATCH_CASH

(* The bank takes the cash, the value of the properties and their buildings. *)
resolveBankruptcy(g, seat) ==
  LET owned == ownedPropertyPositions(g.properties, seat) IN
  [g EXCEPT
     !.bankCash = @ + LiquidationValue(g, seat) + g.players[seat].cash,
     !.properties = [p \in Positions |->
       IF p \in owned THEN [owner |-> None, houses |-> 0, hasHotel |-> FALSE] ELSE @[p]],
     !.housesRemaining = @ + MapThenSumSet(LAMBDA p : g.properties[p].houses, owned),
     !.hotelsRemaining = @ + Cardinality({p \in owned : g.properties[p].hasHotel}),
     !.players[seat] = [@ EXCEPT !.status = "eliminated", !.cash = 0, !.position = 0,
                                 !.inJail = FALSE, !.jailTurns = 0, !.consecutiveDoubles = 0,
                                 !.getOutOfJailCards = 0]]

finishState(g, reason) ==
  [g EXCEPT !.lifecycle = "finished", !.turn = [phase |-> "finished", seat |-> None, at |-> None],
            !.bankruptcyRequired = None, !.activeTrades = <<>>, !.lastDice = None,
            !.terminal = deriveRankedTerminalOutcome(g, reason)]

endConditionMet(g) == Cardinality(ActiveSeats(g.players)) <= 1
MayFinish(g) == endConditionMet(g) => CanRank(g)

TradesKept(seat) == SelectSeq(game.activeTrades, LAMBDA t : seat # t.proposer)
TradesWithout(seat) ==
  LET Kept[i \in 0 .. Len(game.activeTrades)] ==
        IF i = 0 THEN <<>>
        ELSE LET t == game.activeTrades[i] IN
             IF seat \in {t.proposer, t.receiver} THEN Kept[i - 1] ELSE Append(Kept[i - 1], t)
  IN Kept[Len(game.activeTrades)]

(* g is the game after the current player's elimination. *)
ContinueOrFinish(g, reason) ==
  IF endConditionMet(g) THEN finishState(g, reason)
  ELSE [g EXCEPT
          !.turn = createClockedGameplayTurn("awaitingRoll", nextActiveSeat(g.players, Current)),
          !.bankruptcyRequired = None, !.activeTrades = TradesWithout(Current), !.lastDice = None]

BankruptcyEvent == PlayerBankrupt(Current, LiquidationValue(game, Current), Me.cash)
EndingEvents(next, otherwise) ==
  IF next.terminal = None THEN otherwise ELSE terminalEvents(next.terminal)

declareBankruptcy ==
  /\ PlayerTurn({"awaitingBankruptcy"}) /\ game.bankruptcyRequired = Current
  /\ CanResolve(game, Current)
  /\ \E resolved \in {resolveBankruptcy(game, Current)} : MayFinish(resolved) /\
     \E next \in {ContinueOrFinish(resolved, "lastPlayerStanding")} :
       Commit("declareBankruptcy", next, <<BankruptcyEvent>> \o EndingEvents(next, <<>>))

-----------------------------------------------------------------------------
(* Trades (trade-rules.ts, gameplay-trade-transition.ts): any active player, in any phase *)
(* without a pending bankruptcy.  Trades expire in the order they were made, so the ones   *)
(* expired at the time of a command are a prefix, which every trade command drops.         *)

TradesOpen ==
  InProgress /\ ~silent /\ game.bankruptcyRequired = None
  /\ game.stateVersion + QuietVersions < MAX_STATE_VERSION

AnyOwnerWillDo(p, seat) == p # None => game.properties[p].owner # None
validateProperty(p, seat) == p # None => game.properties[p].owner = seat

Drop(k, trades) == SubSeq(trades, k + 1, Len(trades))

SlotAtLimit(trades) == Len(trades) <= GAMEPLAY_POLICY.maximumActiveTrades
HasSlot(trades) == Len(trades) < GAMEPLAY_POLICY.maximumActiveTrades

createTrade(proposer, receiver, terms) ==
  /\ TradesOpen /\ {proposer, receiver} \subseteq ActiveSeats(game.players)
  /\ game.players[proposer].cash >= terms.offeredCash
  /\ validateProperty(terms.offeredProperty, proposer)
  /\ validateProperty(terms.requestedProperty, receiver)
  /\ \E k \in 0 .. Len(game.activeTrades) :
       LET kept == Drop(k, game.activeTrades)
           trade == [proposer |-> proposer, receiver |-> receiver, terms |-> terms]
       IN /\ HasSlot(kept)
          /\ Commit("createTrade", [game EXCEPT !.activeTrades = Append(kept, trade)],
                    Append(TradesExpired(k), TradeCreated(trade)))

(* The trades left once the first k have expired and the i-th is settled. *)
Remaining(k, i) == Drop(k, SubSeq(game.activeTrades, 1, i - 1)) \o Drop(i, game.activeTrades)

acceptTrade(i) ==
  LET trade == game.activeTrades[i]
      terms == trade.terms
      proposer == game.players[trade.proposer]
      receiver == game.players[trade.receiver]
      proposerCash == proposer.cash - terms.offeredCash + terms.requestedCash
      receiverCash == receiver.cash - terms.requestedCash + terms.offeredCash
  IN /\ TradesOpen /\ receiver.status = "active"
     /\ proposer.cash >= terms.offeredCash /\ receiver.cash >= terms.requestedCash
     /\ proposerCash <= MAX_MATCH_CASH /\ receiverCash <= MAX_MATCH_CASH
     /\ validateProperty(terms.offeredProperty, trade.proposer)
     /\ validateProperty(terms.requestedProperty, trade.receiver)
     /\ \E k \in 0 .. i - 1 :
          Commit("acceptTrade",
            [game EXCEPT
               !.players[trade.proposer].cash = proposerCash,
               !.players[trade.receiver].cash = receiverCash,
               !.properties = [p \in Positions |->
                 IF p = terms.offeredProperty THEN [@[p] EXCEPT !.owner = trade.receiver]
                 ELSE IF p = terms.requestedProperty THEN [@[p] EXCEPT !.owner = trade.proposer]
                 ELSE @[p]],
               !.activeTrades = Remaining(k, i)],
            Append(TradesExpired(k), TradeAccepted(trade)))

removeTrade(kind, actor, i, type) ==
  /\ TradesOpen /\ game.players[actor].status = "active"
  /\ \E k \in 0 .. i - 1 :
       Commit(kind, [game EXCEPT !.activeTrades = Remaining(k, i)],
              Append(TradesExpired(k), TradeEnded(type, actor)))

rejectTrade(i) == removeTrade("rejectTrade", game.activeTrades[i].receiver, i, "tradeRejected")
cancelTrade(i) == removeTrade("cancelTrade", game.activeTrades[i].proposer, i, "tradeCancelled")

Trading ==
  \/ \E proposer, receiver \in Seats, terms \in TradeTerms :
       proposer # receiver /\ createTrade(proposer, receiver, terms)
  \/ \E i \in DOMAIN game.activeTrades : acceptTrade(i) \/ rejectTrade(i) \/ cancelTrade(i)

(* The room's own sweep of expired trades; it finds at least one. *)
cleanupExpiredTrades ==
  /\ InProgress /\ game.bankruptcyRequired = None
  /\ \E k \in 1 .. Len(game.activeTrades) :
       Commit("cleanupExpiredTrades", [game EXCEPT !.activeTrades = Drop(k, @)],
              TradesExpired(k))

-----------------------------------------------------------------------------
(* Timers (timeout-rules.ts, gameplay-timeout-transition.ts); all pause while a *)
(* bankruptcy is pending, and the game's own limit goes before the turn's.      *)

TimerRuns == InProgress /\ game.bankruptcyRequired = None

(* The turn ends wherever it is; the doubles rolled in it keep counting. *)
MissTurn(missed) ==
  /\ Me.missedTurns + 1 < GAMEPLAY_POLICY.maximumMissedTurns /\ CanAdvance
  /\ Commit("handleTurnTimeout", [missed EXCEPT !.turn = advanceGameplayTurn, !.lastDice = None],
            <<TimeoutPenalty(Current, Me.missedTurns + 1), ForcedTurnEnd(Current, advanceGameplayTurn.seat)>>)

ForfeitCountedBefore(next) ==
  <<TimeoutPenalty(Current, GAMEPLAY_POLICY.maximumMissedTurns),
    TimeoutForfeit(Current, Me.missedTurns), BankruptcyEvent>>
  \o EndingEvents(next, <<ForcedTurnEnd(Current, next.turn.seat)>>)

ForfeitEvents(next) ==
  <<TimeoutPenalty(Current, GAMEPLAY_POLICY.maximumMissedTurns),
    TimeoutForfeit(Current, GAMEPLAY_POLICY.maximumMissedTurns), BankruptcyEvent>>
  \o EndingEvents(next, <<ForcedTurnEnd(Current, next.turn.seat)>>)

ForfeitTooLate(missed) ==
  /\ Me.missedTurns > GAMEPLAY_POLICY.maximumMissedTurns /\ CanResolve(game, Current)
  /\ \E resolved \in {resolveBankruptcy(missed, Current)} : MayFinish(resolved) /\
     \E next \in {ContinueOrFinish(resolved, "timeoutForfeit")} :
       Commit("handleTurnTimeout", next, ForfeitEvents(next))

Forfeit(missed) ==
  /\ Me.missedTurns + 1 = GAMEPLAY_POLICY.maximumMissedTurns /\ CanResolve(game, Current)
  /\ \E resolved \in {resolveBankruptcy(missed, Current)} : MayFinish(resolved) /\
     \E next \in {ContinueOrFinish(resolved, "timeoutForfeit")} :
       Commit("handleTurnTimeout", next, ForfeitEvents(next))

handleTurnTimeout ==
  /\ TimerRuns /\ ~timeUp
  /\ \E missed \in {[game EXCEPT !.players[Current].missedTurns = @ + 1]} :
       MissTurn(missed) \/ Forfeit(missed)

enforceGameTimeLimit ==
  /\ TimerRuns /\ timeUp /\ CanRank(game)
  /\ \E next \in {finishState(game, "timeLimit")} :
       Commit("enforceGameTimeLimit", next, EndingEvents(next, <<>>))

(* Time passes gameEndAtMs. *)
TimeLimitReached ==
  /\ TimeLimited /\ ~timeUp /\ InProgress
  /\ timeUp' = TRUE /\ UNCHANGED <<game, refused, silent>>

(* From here on players stay connected and send nothing. *)
FallSilent ==
  /\ ~silent /\ InProgress /\ QuietVersions > 0
  /\ silent' = TRUE /\ UNCHANGED <<game, refused, timeUp>>

-----------------------------------------------------------------------------

Next ==
  \/ rollDice \/ endTurn \/ buyProperty \/ declineProperty \/ payRent \/ payMevTax
  \/ payPriorityFeeTax \/ Building \/ payJailFine \/ useJailCard \/ drawCard
  \/ declareBankruptcy \/ Trading \/ cleanupExpiredTrades
  \/ handleTurnTimeout \/ enforceGameTimeLimit \/ TimeLimitReached \/ FallSilent

Spec == Init /\ [][Next]_vars

(* The room clock's one timer fires whenever it is armed, whoever is or is not playing. *)
FairSpec == Spec /\ WF_vars(handleTurnTimeout \/ enforceGameTimeLimit)

-----------------------------------------------------------------------------
(* Properties *)

(* Neither the contract of events nor serialization fails on what the rules accepted, except    *)
(* for an acceptance of a trade: every event is one the contract knows, with amounts it admits, *)
(* buildings and stock add up, owners are active, eliminated players hold nothing, the pending  *)
(* phase fits the space and its owner, and the winner is the richest, after every command.      *)
OnlyTradesAreRefused == refused \subseteq {"acceptTrade"}

(* A property leaves its owner only when he is eliminated or by a trade that was waiting, in    *)
(* which he himself, not an earlier owner, gives it, and which ends with that.                  *)
OwnersConsent ==
  [][\A p \in Positions :
       LET owner == game.properties[p].owner IN
       owner \notin {None, game'.properties[p].owner} =>
         \/ game'.players[owner].status = "eliminated"
         \/ \E i \in DOMAIN game.activeTrades :
              LET trade == game.activeTrades[i] IN
              /\ Len(game'.activeTrades) < Len(game.activeTrades)
              /\ \/ <<owner, p>> = <<trade.proposer, trade.terms.offeredProperty>>
                    /\ game'.properties[p].owner = trade.receiver
                 \/ <<owner, p>> = <<trade.receiver, trade.terms.requestedProperty>>
                    /\ game'.properties[p].owner = trade.proposer]_vars

(* When the cash of a player who is not on turn changes, or a rent is pending, the players'     *)
(* cash together stays what it was: rent and trades move money between players and neither make *)
(* nor lose any, even if the property changes hands before the rent is paid.  Only a player who *)
(* is eliminated while he owes the rent takes his cash out of the game.                         *)
OthersCashIsMatched ==
  [][LET Total(g) == MapThenSumSet(LAMBDA s : g.players[s].cash, Seats) IN
     \/ Total(game') = Total(game)
     \/ /\ \A s \in Seats \ {Current} : game'.players[s].cash = game.players[s].cash
        /\ game.turn.phase = "awaitingRentPayment" => game'.players[Current].status = "eliminated"]_vars

(* Once nobody plays any more, turn timers and the time limit bring the match to its end,       *)
(* unless a bankruptcy is pending.                                                              *)
SilentGamesEnd ==
  silent /\ game.turn.phase # "awaitingBankruptcy" ~> game.lifecycle = "finished"
=============================================================================
