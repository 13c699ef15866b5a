--------------------------- MODULE GameAggregate ---------------------------
(***************************************************************************)
(* The aggregate of a running match and what is derived from it            *)
(* (packages/game-core/src/model/gameplay-aggregate-state.ts and the rule  *)
(* files property-, building-, movement-, bankruptcy-, terminal-rules.ts). *)
(*                                                                         *)
(* Board, decks and policy are parameters, so that a small board with the  *)
(* same kinds of spaces can stand for the forty of BOARD_SPACES.  No       *)
(* command mortgages a property, so the mortgaged flag is left out, and so *)
(* is the free parking pool, which no command touches.                     *)
(***************************************************************************)
EXTENDS Integers, Sequences, FiniteSets, FiniteSetsExt

CONSTANTS
  None,                   \* null
  Seats,                  \* indexes of the seats taken when the match started
  GAMEPLAY_POLICY,
  BOARD_SPACES,           \* space definition of each position
  CHANCE_CARDS,
  COMMUNITY_CHEST_CARDS,
  NearestTargets,         \* positions a moveToNearest card looks for
  MAX_MATCH_CASH,
  MAX_STATE_VERSION

Positions == 0 .. GAMEPLAY_POLICY.boardSize - 1

Effects ==
  {"money", "move", "moveToNearest", "getOutOfJailFree", "collectFromPlayers", "repairFree"}
SpaceTypes == {"street", "railroad", "utility", "tax", "chance", "communityChest", "corner"}
TaxPositions == {GAMEPLAY_POLICY.mevTax.position, GAMEPLAY_POLICY.priorityFeeTax.position}
Cards == CHANCE_CARDS \cup COMMUNITY_CHEST_CARDS
MaxHouses == GAMEPLAY_POLICY.maximumHousesPerProperty

ASSUME SeatsAssumption ==
  /\ Seats \subseteq 0 .. GAMEPLAY_POLICY.maximumPlayers - 1
  /\ IsFiniteSet(Seats) /\ Cardinality(Seats) >= GAMEPLAY_POLICY.minimumPlayers
  /\ 0 \in Seats /\ None \notin Seats
ASSUME BoardAssumption ==
  /\ DOMAIN BOARD_SPACES = Positions
  /\ NearestTargets \subseteq Positions /\ NearestTargets # {}
  /\ GAMEPLAY_POLICY.jailPosition \in Positions
  /\ BOARD_SPACES[GAMEPLAY_POLICY.jailPosition].propertyType = "corner"
  /\ \A p \in Positions :
       LET space == BOARD_SPACES[p] IN
       /\ space.propertyType \in SpaceTypes
       /\ {space.price, space.houseCost, space.mortgageValue} \subseteq Nat
       /\ space.propertyType = "street" => space.rent \in Seq(Nat) /\ Len(space.rent) = MaxHouses + 2
       /\ space.propertyType = "tax" => p \in TaxPositions
  /\ Cardinality({p \in Positions : BOARD_SPACES[p].propertyType = "railroad"}) <= 4
ASSUME CardsAssumption ==
  \A card \in Cards : card.id \in 1 .. 5 /\ card.effect \in Effects /\ card.amount \in Int
ASSUME LimitsAssumption == {MAX_STATE_VERSION, MAX_MATCH_CASH} \subseteq Nat \ {0}
ASSUME PolicyAssumption ==
  /\ GAMEPLAY_POLICY.boardSize \in Nat \ {0} /\ None \notin Positions
  /\ {GAMEPLAY_POLICY.maximumPlayers, GAMEPLAY_POLICY.maximumActiveTrades,
      GAMEPLAY_POLICY.totalHouses, GAMEPLAY_POLICY.totalHotels,
      GAMEPLAY_POLICY.maximumMissedTurns, GAMEPLAY_POLICY.passGoSalary, GAMEPLAY_POLICY.jailFine,
      GAMEPLAY_POLICY.mevTax.amount, GAMEPLAY_POLICY.priorityFeeTax.amount} \subseteq Nat
  /\ {MaxHouses, GAMEPLAY_POLICY.maximumJailTurns} \subseteq Nat \ {0}
  /\ GAMEPLAY_POLICY.minimumPlayers \in Nat \ {0, 1}
  /\ {GAMEPLAY_POLICY.startingMatchCash, GAMEPLAY_POLICY.startingBankCash} \subseteq 0 .. MAX_MATCH_CASH

-----------------------------------------------------------------------------
(* Types *)

Player ==
  [status : {"active", "eliminated"}, cash : 0 .. MAX_MATCH_CASH, position : Positions,
   inJail : BOOLEAN, jailTurns : 0 .. GAMEPLAY_POLICY.maximumJailTurns,
   consecutiveDoubles : 0 .. 2, missedTurns : 0 .. GAMEPLAY_POLICY.maximumMissedTurns,
   getOutOfJailCards : 0 .. 255]

Property == [owner : Seats \cup {None}, houses : 0 .. MaxHouses, hasHotel : BOOLEAN]

(* The phases in which the current player owes an answer about the space he landed on. *)
PendingPhases ==
  {"awaitingPropertyDecision", "awaitingRentPayment", "awaitingCardDraw", "awaitingTaxPayment"}

(* at is the position a pending phase is about; the deck and the kind of tax follow from it. *)
Turn ==
  [phase : PendingPhases, seat : Seats, at : Positions] \cup
  [phase : {"awaitingRoll", "awaitingBankruptcy", "awaitingEndTurn"}, seat : Seats, at : {None}] \cup
  [phase : {"finished"}, seat : {None}, at : {None}]

EndReasons == {"lastPlayerStanding", "timeLimit", "timeoutForfeit"}

Terms ==
  [offeredCash : 0 .. MAX_MATCH_CASH, requestedCash : 0 .. MAX_MATCH_CASH,
   offeredProperty : Positions \cup {None}, requestedProperty : Positions \cup {None}]

-----------------------------------------------------------------------------
(* Properties and rent *)

isOwnableSpace(p) == BOARD_SPACES[p].propertyType \in {"street", "railroad", "utility"}

ownedPropertyPositions(properties, seat) == {p \in Positions : properties[p].owner = seat}

ColorGroup(p) == {q \in Positions : BOARD_SPACES[q].colorGroup = BOARD_SPACES[p].colorGroup}

hasMonopoly(properties, seat, p) ==
  /\ BOARD_SPACES[p].propertyType = "street"
  /\ \A q \in ColorGroup(p) : properties[q].owner = seat

OwnedOfType(properties, seat, type) ==
  Cardinality({p \in ownedPropertyPositions(properties, seat) : BOARD_SPACES[p].propertyType = type})

(* rent has the base rent first, the rent for each number of houses, and the hotel's last. *)
calculateRent(properties, p, diceTotal) ==
  LET property == properties[p]
      space == BOARD_SPACES[p]
  IN CASE space.propertyType = "street" ->
            IF property.hasHotel THEN space.rent[MaxHouses + 2]
            ELSE IF property.houses > 0 THEN space.rent[property.houses + 1]
            ELSE space.rent[1] * (IF hasMonopoly(properties, property.owner, p) THEN 2 ELSE 1)
       [] space.propertyType = "railroad" ->
            <<25, 50, 100, 200>>[OwnedOfType(properties, property.owner, "railroad")]
       [] space.propertyType = "utility" ->
            diceTotal * (IF OwnedOfType(properties, property.owner, "utility") = 2 THEN 10 ELSE 4)

canBuildHouse(properties, p, seat) ==
  /\ hasMonopoly(properties, seat, p) /\ ~properties[p].hasHotel
  /\ properties[p].houses < MaxHouses
  /\ \A q \in ColorGroup(p) : properties[p].houses <= properties[q].houses

canSellHouse(properties, p, seat) ==
  /\ hasMonopoly(properties, seat, p) /\ ~properties[p].hasHotel /\ properties[p].houses > 0
  /\ \A q \in ColorGroup(p) : properties[p].houses >= properties[q].houses

-----------------------------------------------------------------------------
(* Movement *)

moveBy(position, spaces) ==
  [to |-> (position + spaces) % GAMEPLAY_POLICY.boardSize,
   passedGo |-> spaces > 0 /\ position + spaces >= GAMEPLAY_POLICY.boardSize]

(* The closest target strictly ahead. *)
moveToNearest(position, targets) ==
  moveBy(position, Min({IF t > position THEN t - position
                        ELSE GAMEPLAY_POLICY.boardSize + t - position : t \in targets}))

absoluteMovement(position, destination) ==
  [to |-> destination, passedGo |-> destination < position \/ destination = 0]

-----------------------------------------------------------------------------
(* Seats, net worth and the winner *)

ActiveSeats(players) == {s \in Seats : players[s].status = "active"}

nextActiveSeat(players, seat) ==
  LET Seat(offset) == (seat + offset) % GAMEPLAY_POLICY.maximumPlayers
  IN Seat(Min({o \in 1 .. GAMEPLAY_POLICY.maximumPlayers : Seat(o) \in ActiveSeats(players)}))

(* A hotel counts as the houses it replaced and one more. *)
BuildingCount(property) == IF property.hasHotel THEN MaxHouses + 1 ELSE property.houses

calculatePlayerNetWorth(g, seat) ==
  g.players[seat].cash +
  MapThenSumSet(LAMBDA p : BOARD_SPACES[p].mortgageValue +
                           BOARD_SPACES[p].houseCost * BuildingCount(g.properties[p]),
                ownedPropertyPositions(g.properties, seat))

(* Who is ahead of whom: the highest net worth first, the lowest seat among equals. *)
Ranking(g) ==
  LET worth == [s \in ActiveSeats(g.players) |-> calculatePlayerNetWorth(g, s)]
      Ahead(t, s) == worth[t] > worth[s] \/ (worth[t] = worth[s] /\ t < s)
  IN [s \in DOMAIN worth |-> [rank |-> 1 + Cardinality({t \in DOMAIN worth : Ahead(t, s)}),
                              netWorth |-> worth[s]]]

First(ranking) == CHOOSE s \in DOMAIN ranking : ranking[s].rank = 1

(* A net worth that does not fit the amounts of a match cannot be ranked. *)
CanRank(g) == \A s \in ActiveSeats(g.players) : calculatePlayerNetWorth(g, s) <= MAX_MATCH_CASH

Outcome ==
  [reason : EndReasons, winner : Seats,
   ranking : UNION {[D -> [rank : Nat, netWorth : Nat]] : D \in SUBSET Seats}]

(* The end of the match: who won it, and in which order the others follow. *)
deriveRankedTerminalOutcome(g, reason) ==
  LET ranking == Ranking(g)
  IN [reason |-> reason, winner |-> First(ranking), ranking |-> ranking]

-----------------------------------------------------------------------------
(* Validity of an aggregate, checked before every command and whenever a   *)
(* snapshot is written or read.                                            *)

isValidPropertyStates(properties) ==
  \A p \in Positions :
    LET property == properties[p] IN
    /\ property \in Property
    /\ property.hasHotel => property.houses = 0
    /\ property.houses > 0 \/ property.hasHotel =>
         property.owner # None /\ BOARD_SPACES[p].propertyType = "street"
    /\ property.owner # None => isOwnableSpace(p)

isValidBuildingInventory(g) ==
  /\ g.housesRemaining \in 0 .. GAMEPLAY_POLICY.totalHouses
  /\ g.hotelsRemaining \in 0 .. GAMEPLAY_POLICY.totalHotels
  /\ g.housesRemaining + MapThenSumSet(LAMBDA p : g.properties[p].houses, Positions)
       = GAMEPLAY_POLICY.totalHouses
  /\ g.hotelsRemaining + Cardinality({p \in Positions : g.properties[p].hasHotel})
       = GAMEPLAY_POLICY.totalHotels

validPlayer(player) ==
  /\ player \in Player
  /\ IF player.inJail
       THEN /\ player.position = GAMEPLAY_POLICY.jailPosition
            /\ player.jailTurns < GAMEPLAY_POLICY.maximumJailTurns
            /\ player.consecutiveDoubles = 0
       ELSE player.jailTurns = 0
  /\ player.status = "eliminated" =>
       player = [player EXCEPT !.cash = 0, !.position = 0, !.inJail = FALSE, !.jailTurns = 0,
                               !.consecutiveDoubles = 0, !.getOutOfJailCards = 0]

isValidBankruptcyState(g) ==
  /\ isValidPropertyStates(g.properties) /\ isValidBuildingInventory(g)
  /\ g.bankCash \in 0 .. MAX_MATCH_CASH
  /\ \A s \in Seats : validPlayer(g.players[s])
  /\ \A p \in Positions : g.properties[p].owner \in ActiveSeats(g.players) \cup {None}

AnyOwnerIsPaid(owner, seat) == owner # None
RentIsOwed(owner, seat) == owner \notin {None, seat}

(* The pending phase fits the space the current player stands on and its owner. *)
validPendingPhase(g) ==
  LET seat == g.turn.seat
      position == g.players[seat].position
      owner == g.properties[position].owner
      type == BOARD_SPACES[position].propertyType
  IN CASE g.turn.phase = "awaitingPropertyDecision" ->
            position = g.turn.at /\ isOwnableSpace(position) /\ owner = None
       [] g.turn.phase = "awaitingRentPayment" ->
            position = g.turn.at /\ isOwnableSpace(position) /\ RentIsOwed(owner, seat)
       [] g.turn.phase = "awaitingCardDraw" ->
            type \in {"chance", "communityChest"} /\ type = BOARD_SPACES[g.turn.at].propertyType
       [] g.turn.phase = "awaitingTaxPayment" -> position = g.turn.at /\ position \in TaxPositions
       [] OTHER -> TRUE

(* What a trade may be: money for money, property for property, or one for the other. *)
validTerms(terms) ==
  /\ terms.offeredCash > 0 \/ terms.requestedCash > 0
       \/ terms.offeredProperty # None \/ terms.requestedProperty # None
  /\ terms.offeredProperty # None => terms.offeredCash = 0
  /\ terms.requestedProperty # None => terms.requestedCash = 0
  /\ terms.offeredProperty # None /\ terms.requestedProperty # None =>
       terms.offeredProperty # terms.requestedProperty

validPendingTrade(trade) == trade.proposer # trade.receiver /\ validTerms(trade.terms)

validDice(roll) ==
  roll.total = roll.dice[1] + roll.dice[2] /\ roll.isDoubles = (roll.dice[1] = roll.dice[2])

isValidActive(g) ==
  /\ g.terminal = None
  /\ \A i \in DOMAIN g.activeTrades : validPendingTrade(g.activeTrades[i])
  /\ g.turn.phase # "finished" /\ g.turn.seat \in ActiveSeats(g.players)
  /\ IF g.lastDice = None THEN g.turn.phase \in {"awaitingRoll", "awaitingBankruptcy"}
     ELSE validDice(g.lastDice)
  /\ isValidBankruptcyState(g)
  /\ g.bankruptcyRequired = IF g.turn.phase = "awaitingBankruptcy" THEN g.turn.seat ELSE None
  /\ validPendingPhase(g)

isValidFinished(g) ==
  /\ g.turn.phase = "finished" /\ g.bankruptcyRequired = None
  /\ g.activeTrades = <<>> /\ g.lastDice = None /\ g.terminal # None
  /\ isValidBankruptcyState(g)
  /\ ActiveSeats(g.players) # {}
  /\ g.terminal.reason \in {"lastPlayerStanding", "timeoutForfeit"} =>
       Cardinality(ActiveSeats(g.players)) = 1
  /\ g.terminal.ranking = Ranking(g) /\ g.terminal.winner = First(g.terminal.ranking)

-----------------------------------------------------------------------------
(* The aggregate a started match begins with. *)

initializeGameplayAggregate ==
  [lifecycle |-> "inProgress",
   stateVersion |-> 1,
   players |-> [s \in Seats |->
     [status |-> "active", cash |-> GAMEPLAY_POLICY.startingMatchCash, position |-> 0,
      inJail |-> FALSE, jailTurns |-> 0, consecutiveDoubles |-> 0, missedTurns |-> 0,
      getOutOfJailCards |-> 0]],
   properties |-> [p \in Positions |-> [owner |-> None, houses |-> 0, hasHotel |-> FALSE]],
   bankCash |-> GAMEPLAY_POLICY.startingBankCash,
   housesRemaining |-> GAMEPLAY_POLICY.totalHouses,
   hotelsRemaining |-> GAMEPLAY_POLICY.totalHotels,
   turn |-> [phase |-> "awaitingRoll", seat |-> 0, at |-> None],
   bankruptcyRequired |-> None,
   activeTrades |-> <<>>,
   lastDice |-> None,
   terminal |-> None]
=============================================================================
