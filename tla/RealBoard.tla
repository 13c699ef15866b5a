----------------------------- MODULE RealBoard -----------------------------
(***************************************************************************)
(* The board, decks and amounts the game is really played with, three      *)
(* times over: in the rules (packages/game-core/src/rules), in the         *)
(* contract (packages/game-contracts) and in the client (apps/web/configs).*)
(* Only the rules' copy decides anything; the client draws its buttons and *)
(* tells the players prices, rents and cards from its own.  TLC evaluates  *)
(* the assumptions below, which say where the copies must agree, and those *)
(* the smaller boards of MCGameRules rest on.                              *)
(***************************************************************************)
EXTENDS Integers, Sequences, FiniteSets

-----------------------------------------------------------------------------
(* The rules' copy.  rent: the base, for one to four houses, and for a hotel. *)

Lot(group, price, rent, houseCost, mortgageValue) ==
  [propertyType |-> "street", colorGroup |-> group, price |-> price, rent |-> rent,
   houseCost |-> houseCost, mortgageValue |-> mortgageValue]
Station(type, price, rent, mortgageValue) ==
  [propertyType |-> type, colorGroup |-> type, price |-> price, rent |-> rent,
   houseCost |-> 0, mortgageValue |-> mortgageValue]
Plain(type) ==
  [propertyType |-> type, colorGroup |-> "special", price |-> 0, rent |-> <<0, 0, 0, 0, 0, 0>>,
   houseCost |-> 0, mortgageValue |-> 0]

boardSpaces ==
  <<Plain("corner"), Lot("brown", 60, <<2, 10, 30, 90, 160, 250>>, 50, 30),
    Plain("communityChest"), Lot("brown", 60, <<4, 20, 60, 180, 320, 450>>, 50, 30), Plain("tax"),
    Station("railroad", 200, <<25, 50, 100, 200, 0, 0>>, 100),
    Lot("lightBlue", 100, <<6, 30, 90, 270, 400, 550>>, 50, 50), Plain("chance"),
    Lot("lightBlue", 100, <<6, 30, 90, 270, 400, 550>>, 50, 50),
    Lot("lightBlue", 120, <<8, 40, 100, 300, 450, 600>>, 50, 60), Plain("corner"),
    Lot("pink", 140, <<10, 50, 150, 450, 625, 750>>, 50, 70),
    Station("utility", 150, <<4, 10, 0, 0, 0, 0>>, 75),
    Lot("pink", 140, <<10, 50, 150, 450, 625, 750>>, 100, 70),
    Lot("pink", 160, <<12, 60, 180, 500, 700, 900>>, 100, 80),
    Station("railroad", 200, <<25, 50, 100, 200, 0, 0>>, 100),
    Lot("orange", 180, <<14, 70, 200, 550, 750, 950>>, 100, 90), Plain("communityChest"),
    Lot("orange", 180, <<14, 70, 200, 550, 750, 950>>, 100, 90),
    Lot("orange", 200, <<16, 80, 240, 600, 800, 1000>>, 100, 100), Plain("corner"),
    Lot("red", 220, <<18, 90, 270, 650, 850, 1050>>, 150, 110), Plain("chance"),
    Lot("red", 220, <<18, 90, 270, 650, 850, 1050>>, 150, 110),
    Lot("red", 240, <<20, 100, 300, 750, 950, 1100>>, 150, 120),
    Station("railroad", 200, <<25, 50, 100, 200, 0, 0>>, 100),
    Lot("yellow", 260, <<22, 110, 330, 850, 1050, 1200>>, 150, 120),
    Lot("yellow", 260, <<22, 110, 330, 850, 1050, 1200>>, 150, 130),
    Station("utility", 150, <<4, 10, 0, 0, 0, 0>>, 75),
    Lot("yellow", 280, <<24, 120, 360, 900, 1100, 1300>>, 150, 140), Plain("corner"),
    Lot("green", 300, <<26, 130, 390, 900, 1100, 1300>>, 200, 150),
    Lot("green", 300, <<26, 130, 390, 900, 1100, 1300>>, 200, 150), Plain("communityChest"),
    Lot("green", 320, <<28, 150, 450, 1000, 1200, 1400>>, 200, 160),
    Station("railroad", 200, <<25, 50, 100, 200, 0, 0>>, 100), Plain("chance"),
    Lot("darkBlue", 350, <<35, 175, 500, 1100, 1400, 1500>>, 200, 175), Plain("tax"),
    Lot("darkBlue", 400, <<50, 200, 600, 1200, 1600, 2000>>, 200, 200)>>

RealBoardSpaces == [p \in 0 .. 39 |-> boardSpaces[p + 1]]

COLOR_GROUP_POSITIONS ==
  [brown |-> {1, 3}, lightBlue |-> {6, 8, 9}, pink |-> {11, 13, 14}, orange |-> {16, 18, 19},
   red |-> {21, 23, 24}, yellow |-> {26, 27, 29}, green |-> {31, 32, 34}, darkBlue |-> {37, 39},
   railroad |-> {5, 15, 25, 35}, utility |-> {12, 28}]

RealPolicy ==
  [boardSize |-> 40, jailPosition |-> 10, goToJailPosition |-> 30, freeParkingPosition |-> 20,
   jailFine |-> 50, totalHouses |-> 32, totalHotels |-> 12, maximumHousesPerProperty |-> 4,
   startingBankCash |-> 1000000, mevTax |-> [position |-> 4, amount |-> 200],
   priorityFeeTax |-> [position |-> 38, amount |-> 75]]

RealCard(effect, amount) == [effect |-> effect, amount |-> amount]
chanceCards ==
  <<RealCard("moveToNearest", 1), RealCard("money", -50), RealCard("money", 100),
    RealCard("move", -3), RealCard("getOutOfJailFree", 0)>>
communityChestCards ==
  <<RealCard("collectFromPlayers", 50), RealCard("money", 100), RealCard("move", 20),
    RealCard("repairFree", 0), RealCard("money", -50)>>

(* Where the nearest memecoin property is looked for. *)
MemecoinPositions == {1, 3}

-----------------------------------------------------------------------------
(* The contract's copy *)

expectedKind(p) ==
  CASE p \in {1, 3, 6, 8, 9, 11, 13, 14, 16, 18, 19, 21, 23, 24, 26, 27, 29, 31, 32, 34, 37, 39} ->
         "street"
    [] p \in {5, 15, 25, 35} -> "railroad"
    [] p \in {12, 28} -> "utility"
    [] p \in {4, 38} -> "tax"
    [] p \in {7, 22, 36} -> "chance"
    [] p \in {2, 17, 33} -> "communityChest"
    [] OTHER -> "corner"

-----------------------------------------------------------------------------
(* The client's copy *)

PropertySpace(group, price, base, withGroup, buildings, houseCost, hotelCost, mortgageValue) ==
  [type |-> "property", colorGroup |-> group, price |-> price, baseRent |-> base,
   rentWithColorGroup |-> withGroup, rentWithBuildings |-> buildings, houseCost |-> houseCost,
   hotelCost |-> hotelCost, mortgageValue |-> mortgageValue]
RailroadSpace(price, rent, mortgageValue) ==
  [type |-> "railroad", price |-> price, rent |-> rent, mortgageValue |-> mortgageValue]
UtilitySpace(price, multiplier, mortgageValue) ==
  [type |-> "utility", price |-> price, rent |-> multiplier, mortgageValue |-> mortgageValue]
TaxSpace(taxAmount) == [type |-> "tax", taxAmount |-> taxAmount]
OtherSpace(type) == [type |-> type]

boardDataBottom ==
  <<OtherSpace("corner"), PropertySpace("brown", 60, 2, 4, <<10, 30, 90, 160, 250>>, 50, 50, 30),
    OtherSpace("community-chest"),
    PropertySpace("brown", 60, 4, 8, <<20, 60, 180, 320, 450>>, 50, 50, 30), TaxSpace(200),
    RailroadSpace(200, <<25, 50, 100, 200>>, 100),
    PropertySpace("lightBlue", 100, 6, 12, <<30, 90, 270, 400, 550>>, 50, 50, 50),
    OtherSpace("chance"),
    PropertySpace("lightBlue", 100, 6, 12, <<30, 90, 270, 400, 550>>, 50, 50, 50),
    PropertySpace("lightBlue", 120, 8, 16, <<40, 100, 300, 450, 600>>, 50, 50, 60)>>

boardDataLeft ==
  <<OtherSpace("corner"),
    PropertySpace("pink", 140, 10, 20, <<50, 150, 450, 625, 750>>, 50, 50, 70),
    UtilitySpace(150, <<4, 10>>, 75),
    PropertySpace("pink", 140, 10, 20, <<50, 150, 450, 625, 750>>, 100, 100, 70),
    PropertySpace("pink", 160, 12, 24, <<60, 180, 500, 700, 900>>, 100, 100, 80),
    RailroadSpace(200, <<25, 50, 100, 200>>, 100),
    PropertySpace("orange", 180, 14, 28, <<70, 200, 550, 750, 950>>, 100, 100, 90),
    OtherSpace("community-chest"),
    PropertySpace("orange", 180, 14, 28, <<70, 200, 550, 750, 950>>, 100, 100, 90),
    PropertySpace("orange", 200, 16, 32, <<80, 240, 600, 800, 1000>>, 100, 100, 100)>>

boardDataTop ==
  <<OtherSpace("corner"),
    PropertySpace("red", 220, 18, 36, <<90, 270, 650, 850, 1050>>, 150, 150, 110),
    OtherSpace("chance"),
    PropertySpace("red", 220, 18, 36, <<90, 270, 650, 850, 1050>>, 150, 150, 110),
    PropertySpace("red", 240, 20, 40, <<100, 300, 750, 950, 1100>>, 150, 150, 120),
    RailroadSpace(200, <<25, 50, 100, 200>>, 100),
    PropertySpace("yellow", 260, 22, 40, <<110, 330, 850, 1050, 1200>>, 150, 150, 120),
    PropertySpace("yellow", 260, 22, 44, <<110, 330, 850, 1050, 1200>>, 150, 150, 130),
    UtilitySpace(150, <<4, 10>>, 75),
    PropertySpace("yellow", 280, 24, 48, <<120, 360, 900, 1100, 1300>>, 150, 150, 140)>>

boardDataRight ==
  <<OtherSpace("corner"),
    PropertySpace("green", 300, 26, 52, <<130, 390, 900, 1100, 1300>>, 200, 200, 150),
    PropertySpace("green", 300, 26, 52, <<130, 390, 900, 1100, 1300>>, 200, 200, 150),
    OtherSpace("community-chest"),
    PropertySpace("green", 320, 28, 56, <<150, 450, 1000, 1200, 1400>>, 200, 200, 160),
    RailroadSpace(200, <<25, 50, 100, 200>>, 100), OtherSpace("chance"),
    PropertySpace("darkBlue", 350, 35, 70, <<175, 500, 1100, 1400, 1500>>, 200, 200, 175),
    TaxSpace(75),
    PropertySpace("darkBlue", 400, 50, 100, <<200, 600, 1200, 1600, 2000>>, 200, 200, 200)>>

boardData == boardDataBottom \o boardDataLeft \o boardDataTop \o boardDataRight

colorGroups ==
  [brown |-> {1, 3}, lightBlue |-> {6, 8, 9}, pink |-> {11, 13, 14}, orange |-> {16, 18, 19},
   red |-> {21, 23, 24}, yellow |-> {26, 27, 29}, green |-> {31, 32, 34}, darkBlue |-> {37, 39}]

MEV_TAX_POSITION == 4
PRIORITY_FEE_TAX_POSITION == 38
JAIL_FINE == 50

WebCard(action, value) == [action |-> action, value |-> value]
surpriseCards ==
  <<WebCard("advance-to-nearest-memecoin", 0), WebCard("pay-money", 50),
    WebCard("collect-money", 100), WebCard("move-back", -3), WebCard("get-out-of-jail", 0)>>
treasureCards ==
  <<WebCard("collect-from-players", 50), WebCard("collect-money", 100),
    WebCard("advance-to-free-parking", 0), WebCard("repair-free", 0), WebCard("pay-money", 50)>>

-----------------------------------------------------------------------------
(* Agreement *)

(* What a card of the client's says the rules will do. *)
Announces(card) ==
  CASE card.action = "pay-money" -> RealCard("money", -card.value)
    [] card.action = "collect-money" -> RealCard("money", card.value)
    [] card.action = "collect-from-players" -> RealCard("collectFromPlayers", card.value)
    [] card.action = "move-back" -> RealCard("move", card.value)
    [] card.action = "advance-to-free-parking" -> RealCard("move", RealPolicy.freeParkingPosition)
    [] card.action = "advance-to-nearest-memecoin" -> RealCard("moveToNearest", 1)
    [] card.action = "get-out-of-jail" -> RealCard("getOutOfJailFree", 0)
    [] card.action = "repair-free" -> RealCard("repairFree", 0)

(* The client's name for the kind of a space. *)
WebType(type) ==
  CASE type = "street" -> "property" [] type = "communityChest" -> "community-chest" [] OTHER -> type

ASSUME KindsAgree ==
  \A p \in 0 .. 39 :
    /\ RealBoardSpaces[p].propertyType = expectedKind(p)
    /\ boardData[p + 1].type = WebType(expectedKind(p))

(* A player is told what he will pay and be paid, with one exception: the street at position 26 *)
(* shows 40 for the full color group, where the rules take twice the base rent, 44.             *)
ASSUME PricesAgree ==
  \A p \in 0 .. 39 :
    LET real == RealBoardSpaces[p]
        shown == boardData[p + 1]
    IN CASE real.propertyType = "street" ->
              /\ shown.colorGroup = real.colorGroup /\ shown.price = real.price
              /\ <<shown.baseRent>> \o shown.rentWithBuildings = real.rent
              /\ shown.rentWithColorGroup = 2 * real.rent[1] <=> p # 26
              /\ {shown.houseCost, shown.hotelCost} = {real.houseCost}
              /\ shown.mortgageValue = real.mortgageValue
         [] real.propertyType \in {"railroad", "utility"} ->
              /\ shown.price = real.price /\ shown.mortgageValue = real.mortgageValue
              /\ shown.rent = SubSeq(real.rent, 1, Len(shown.rent))
         [] real.propertyType = "tax" ->
              shown.taxAmount = (IF p = RealPolicy.mevTax.position THEN RealPolicy.mevTax
                                 ELSE RealPolicy.priorityFeeTax).amount
         [] OTHER -> TRUE

ASSUME CardsAgree ==
  /\ [i \in DOMAIN surpriseCards |-> Announces(surpriseCards[i])] = chanceCards
  /\ [i \in DOMAIN treasureCards |-> Announces(treasureCards[i])] = communityChestCards

ASSUME AmountsAgree ==
  /\ MEV_TAX_POSITION = RealPolicy.mevTax.position /\ JAIL_FINE = RealPolicy.jailFine
  /\ PRIORITY_FEE_TAX_POSITION = RealPolicy.priorityFeeTax.position

(* A color group is the same set of spaces in the list of groups and on the board, in both copies. *)
ASSUME GroupsAgree ==
  /\ \A group \in DOMAIN COLOR_GROUP_POSITIONS :
       COLOR_GROUP_POSITIONS[group] = {p \in 0 .. 39 : RealBoardSpaces[p].colorGroup = group}
  /\ \A group \in DOMAIN colorGroups : colorGroups[group] = COLOR_GROUP_POSITIONS[group]

(* What the smaller boards assume: the jail is a corner, one roll leads from it neither to the    *)
(* go-to-jail corner nor past GO, no card leads there either, every tax space has its tax, and    *)
(* the rents of a table have an entry for every number of buildings.                              *)
ASSUME SmallBoardsFit ==
  LET jail == RealPolicy.jailPosition
      From(type) == {p \in 0 .. 39 : RealBoardSpaces[p].propertyType = type}
  IN /\ RealBoardSpaces[jail].propertyType = "corner"
     /\ \A total \in 2 .. 12 : jail + total < 40 /\ jail + total # RealPolicy.goToJailPosition
     /\ RealPolicy.goToJailPosition \notin
          {(p - 3) % 40 : p \in From("chance")} \cup MemecoinPositions \cup {RealPolicy.freeParkingPosition}
     /\ From("tax") = {RealPolicy.mevTax.position, RealPolicy.priorityFeeTax.position}
     /\ \A p \in From("street") : Len(RealBoardSpaces[p].rent) = RealPolicy.maximumHousesPerProperty + 2
     /\ Cardinality(COLOR_GROUP_POSITIONS.railroad) = 4 /\ Cardinality(COLOR_GROUP_POSITIONS.utility) = 2
=============================================================================
