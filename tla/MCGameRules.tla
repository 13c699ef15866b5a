---------------------------- MODULE MCGameRules ----------------------------
(* Small boards and policies for checking GameRules. *)
EXTENDS WebBoard, RealBoard

Space(type, group, price, rent, houseCost) ==
  [propertyType |-> type, colorGroup |-> group, price |-> price, rent |-> rent,
   houseCost |-> houseCost, mortgageValue |-> price \div 2]
Corner(type) == Space(type, "none", 0, <<>>, 0)
Street(group, price, rent, houseCost) == Space("street", group, price, rent, houseCost)
Railroad == Space("railroad", "railroad", 200, <<>>, 0)
Utility == Space("utility", "utility", 150, <<>>, 0)

(* The amounts of gameplay-policy.ts, on a board of another size. *)
Policy(size, jail, goToJail, cash) ==
  [boardSize |-> size, jailPosition |-> jail, goToJailPosition |-> goToJail,
   minimumPlayers |-> 2, maximumPlayers |-> 4, maximumActiveTrades |-> 20,
   maximumHousesPerProperty |-> 4, totalHouses |-> 32, totalHotels |-> 12,
   startingMatchCash |-> cash, startingBankCash |-> 1000000, passGoSalary |-> 200, jailFine |-> 50,
   maximumJailTurns |-> 3, maximumMissedTurns |-> 3,
   mevTax |-> [position |-> 4, amount |-> 200], priorityFeeTax |-> [position |-> 10, amount |-> 75]]

Card(id, effect, amount) == [id |-> id, effect |-> effect, amount |-> amount]
NoCards == {}
NoTerms == {}
Brown == Street("brown", 60, <<2, 10, 30, 90, 160, 250>>, 50)

(* The contract's effects of the cards are those of the real decks. *)
ASSUME EffectsAgree ==
  /\ [i \in DOMAIN chanceCards |-> chanceCards[i].effect] = ContractEffects("chance")
  /\ [i \in DOMAIN communityChestCards |-> communityChestCards[i].effect]
       = ContractEffects("communityChest")

(* Every kind of space on twelve positions, and the decks of card-decks.ts.  Two doubles buy a *)
(* color group; buildings are scarce and a builder soon cannot pay what he owes.              *)
TurnPolicy ==
  [Policy(12, 5, 9, 370) EXCEPT !.mevTax.position = 7, !.maximumHousesPerProperty = 2,
                                !.totalHouses = 3, !.totalHotels = 1]
TurnBoard ==
  [p \in 0 .. 11 |->
     CASE p \in {2, 4} -> Street("brown", 60, <<2, 10, 400, 500>>, 50)
       [] p = 3 -> Corner("communityChest")
       [] p = 6 -> Corner("chance")
       [] p \in {7, 10} -> Corner("tax")
       [] p = 8 -> Railroad
       [] p = 11 -> Utility
       [] OTHER -> Corner("corner")]
ChanceCards ==
  {Card(1, "moveToNearest", 1), Card(2, "money", -50), Card(3, "money", 100), Card(4, "move", -3),
   Card(5, "getOutOfJailFree", 0)}
CommunityChestCards ==
  {Card(1, "collectFromPlayers", 50), Card(2, "money", 100), Card(3, "move", 11),
   Card(4, "repairFree", 0), Card(5, "money", -50)}
TurnDice == {<<1, 1>>, <<1, 2>>}

(* A first roll leads to jail or to a card, and nobody can pay the fine before passing GO, or   *)
(* selling the street.                                                                          *)
JailPolicy == [Policy(6, 1, 2, 40) EXCEPT !.maximumActiveTrades = 1]
JailBoard ==
  [p \in 0 .. 5 |-> CASE p = 3 -> Corner("chance")
                     [] p = 5 -> Street("brown", 30, <<2, 10, 30, 90, 160, 250>>, 50)
                     [] OTHER -> Corner("corner")]
JailTerms ==
  {[offeredCash |-> 0, requestedCash |-> 30, offeredProperty |-> 5, requestedProperty |-> None]}
JailChance == {Card(5, "getOutOfJailFree", 0), Card(2, "money", -50)}

(* Two streets of one color that every player comes to; few trades and misses are allowed. *)
TradePolicy ==
  [Policy(8, 1, 7, 130) EXCEPT !.maximumActiveTrades = 2, !.maximumMissedTurns = 2]
TradeBoard == [p \in 0 .. 7 |-> IF p \in {2, 3} THEN Brown ELSE Corner("corner")]
SomeTerms ==
  {[offeredCash |-> 50, requestedCash |-> 0, offeredProperty |-> None, requestedProperty |-> 2],
   [offeredCash |-> 0, requestedCash |-> 0, offeredProperty |-> 2, requestedProperty |-> 3],
   [offeredCash |-> 0, requestedCash |-> 50, offeredProperty |-> 2, requestedProperty |-> None]}
=============================================================================
