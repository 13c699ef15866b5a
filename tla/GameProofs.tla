----------------------------- MODULE GameProofs -----------------------------
(***************************************************************************)
(* Proofs about a match (GameRules) and the room it is played in           *)
(* (GameLobby).                                                            *)
(***************************************************************************)
EXTENDS GameLobby, SequenceTheorems, FiniteSetTheorems, TLAPS

-----------------------------------------------------------------------------
(* Sums.  The community modules' fold is a recursive function on the       *)
(* subsets of a set; what it computes is shown by least counterexamples.   *)

LEMMA LeastElement ==
  ASSUME NEW T \in SUBSET Nat, T # {}
  PROVE  \E m \in T : \A k \in T : m <= k
<1>1. IsWellFoundedOn(OpToRel(<, Nat), Nat)
  BY NatLessThanWellFounded
<1>2. PICK m \in T : \A k \in T : ~(<<k, m>> \in OpToRel(<, Nat))
  BY <1>1, WFMin
<1>3. \A k \in T : ~(k < m)
  BY <1>2 DEF OpToRel
<1>4. QED
  BY <1>3

Pick(s) == CHOOSE x \in s : TRUE

LEMMA PickIn ==
  ASSUME NEW s, s # {}
  PROVE  Pick(s) \in s
<1>1. \E x \in s : TRUE
  OBVIOUS
<1>2. QED
  BY <1>1, Zenon DEF Pick

Summand(h, f, s) == IF s = {} THEN 0 ELSE h[Pick(s)] + f[s \ {Pick(s)}]

(* The fold over the subsets of S, and the fold up to a size. *)
IsSum(S, h, f) == f = [s \in SUBSET S |-> Summand(h, f, s)]
SumFcn(S, h) == CHOOSE f : IsSum(S, h, f)
UpTo(S, n) == {s \in SUBSET S : Cardinality(s) <= n}
FoldsUpTo(S, h, n) == \E f : f = [s \in UpTo(S, n) |-> Summand(h, f, s)]

LEMMA FoldExists ==
  ASSUME NEW S, IsFiniteSet(S), NEW h, NEW n \in Nat
  PROVE  FoldsUpTo(S, h, n)
<1> DEFINE Bad == {k \in Nat : ~FoldsUpTo(S, h, k)}
<1>1. SUFFICES ASSUME Bad # {} PROVE FALSE
  OBVIOUS
<1>2. PICK m \in Bad : \A k \in Bad : m <= k
  BY <1>1, LeastElement
<1>3. \A s \in SUBSET S : IsFiniteSet(s) /\ Cardinality(s) \in Nat
  BY FS_Subset, FS_CardinalityType
<1>4. CASE m = 0
  <2>1. UpTo(S, 0) = {{}}
    BY <1>3, FS_EmptySet DEF UpTo
  <2>2. PICK f : f = [s \in UpTo(S, 0) |-> 0]
    OBVIOUS
  <2>3. f = [s \in UpTo(S, 0) |-> Summand(h, f, s)]
    BY <2>1, <2>2 DEF Summand
  <2>4. QED
    BY <1>2, <1>4, <2>3 DEF FoldsUpTo
<1>5. CASE m # 0
  <2>1. m - 1 \in Nat /\ m - 1 \notin Bad
    BY <1>2, <1>5
  <2>2. FoldsUpTo(S, h, m - 1)
    BY <2>1
  <2>3. PICK g : g = [s \in UpTo(S, m - 1) |-> Summand(h, g, s)]
    BY <2>2 DEF FoldsUpTo
  <2>4. PICK f : f = [s \in UpTo(S, m) |-> Summand(h, g, s)]
    OBVIOUS
  <2>5. ASSUME NEW s \in UpTo(S, m)
        PROVE  Summand(h, g, s) = Summand(h, f, s)
    <3>1. CASE s = {}
      BY <3>1 DEF Summand
    <3>2. CASE s # {}
      <4>1. PICK t : t = s \ {Pick(s)}
        OBVIOUS
      <4>2. s \in SUBSET S /\ Cardinality(s) <= m /\ Pick(s) \in s
        BY <3>2, PickIn DEF UpTo
      <4>3. Cardinality(t) = Cardinality(s) - 1
        BY <1>3, <4>1, <4>2, FS_RemoveElement
      <4>4. t \in SUBSET S /\ Cardinality(t) <= m - 1 /\ Cardinality(t) <= m
        BY <1>2, <1>3, <4>1, <4>2, <4>3
      <4>5. t \in UpTo(S, m - 1) /\ t \in UpTo(S, m)
        BY <4>4 DEF UpTo
      <4>6. g[t] = Summand(h, g, t) /\ f[t] = Summand(h, g, t)
        BY <2>3, <2>4, <4>5
      <4>7. g[t] = f[t]
        BY <4>6
      <4>8. QED
        BY <3>2, <4>1, <4>7 DEF Summand
    <3>3. QED
      BY <3>1, <3>2
  <2>6. f = [s \in UpTo(S, m) |-> Summand(h, f, s)]
    BY <2>4, <2>5
  <2>7. QED
    BY <1>2, <2>6 DEF FoldsUpTo
<1>6. QED
  BY <1>4, <1>5

LEMMA SumEquation ==
  ASSUME NEW S, IsFiniteSet(S), NEW h
  PROVE  IsSum(S, h, SumFcn(S, h))
<1>1. Cardinality(S) \in Nat
  BY FS_CardinalityType
<1>2. UpTo(S, Cardinality(S)) = SUBSET S
  <2>1. \A s \in SUBSET S : Cardinality(s) <= Cardinality(S)
    BY FS_Subset
  <2>2. QED
    BY <2>1 DEF UpTo
<1>3. \E f : IsSum(S, h, f)
  <2>1. FoldsUpTo(S, h, Cardinality(S))
    BY <1>1, FoldExists
  <2>2. PICK f : f = [s \in UpTo(S, Cardinality(S)) |-> Summand(h, f, s)]
    BY <2>1, Zenon DEF FoldsUpTo
  <2>3. IsSum(S, h, f)
    BY <1>2, <2>2, Zenon DEF IsSum
  <2>4. QED
    BY <2>3, Zenon
<1>4. QED
  BY <1>3, Zenon DEF SumFcn

(* What MapThenSumSet adds up. *)
LEMMA SumUnfolds ==
  ASSUME NEW S, NEW h
  PROVE  MapThenSumSet(LAMBDA s : h[s], S) = SumFcn(S, h)[S]
BY DEF MapThenSumSet, MapThenFoldSet, SumFcn, IsSum, Summand, Pick

LEMMA SumStep ==
  ASSUME NEW S, IsFiniteSet(S), NEW h, NEW s \in SUBSET S
  PROVE  SumFcn(S, h)[s] = IF s = {} THEN 0 ELSE h[Pick(s)] + SumFcn(S, h)[s \ {Pick(s)}]
<1>1. IsSum(S, h, SumFcn(S, h))
  BY SumEquation
<1>2. PICK f : f = SumFcn(S, h)
  OBVIOUS
<1>3. f = [t \in SUBSET S |-> Summand(h, f, t)]
  BY <1>1, <1>2, Zenon DEF IsSum
<1>4. f[s] = Summand(h, f, s)
  BY <1>3
<1>5. QED
  BY <1>2, <1>4 DEF Summand

LEMMA SumOfNone ==
  ASSUME NEW S, IsFiniteSet(S), NEW h
  PROVE  SumFcn(S, h)[{}] = 0
<1>1. {} \in SUBSET S
  OBVIOUS
<1>2. QED
  BY <1>1, SumStep

(* One summand changes: so does the sum over the subsets it is in. *)
LEMMA SumChanges ==
  ASSUME NEW S, IsFiniteSet(S), NEW h \in [S -> Int], NEW k \in [S -> Int], NEW a \in S,
         \A x \in S \ {a} : k[x] = h[x], NEW s \in SUBSET S
  PROVE  /\ SumFcn(S, h)[s] \in Int
         /\ SumFcn(S, k)[s] = SumFcn(S, h)[s] + (IF a \in s THEN k[a] - h[a] ELSE 0)
<1> DEFINE Good(t) == /\ SumFcn(S, h)[t] \in Int
                      /\ SumFcn(S, k)[t] = SumFcn(S, h)[t] + (IF a \in t THEN k[a] - h[a] ELSE 0)
           Bad == {n \in Nat : \E t \in SUBSET S : Cardinality(t) = n /\ ~Good(t)}
<1>1. \A t \in SUBSET S : IsFiniteSet(t) /\ Cardinality(t) \in Nat
  BY FS_Subset, FS_CardinalityType
<1>2. ASSUME Bad # {} PROVE FALSE
  <2>1. PICK m \in Bad : \A n \in Bad : m <= n
    BY <1>2, LeastElement
  <2>2. PICK t \in SUBSET S : Cardinality(t) = m /\ ~Good(t)
    BY <2>1
  <2>3. CASE t = {}
    <3>1. SumFcn(S, h)[t] = 0 /\ SumFcn(S, k)[t] = 0
      BY <2>3, SumStep
    <3>2. QED
      BY <2>2, <2>3, <3>1
  <2>4. CASE t # {}
    <3>1. PICK x \in t : x = Pick(t)
      BY <2>4, PickIn
    <3>2. PICK u \in SUBSET S : u = t \ {x}
      BY <2>2
    <3>3. Cardinality(u) = m - 1 /\ Cardinality(u) \in Nat
      BY <1>1, <2>2, <3>1, <3>2, FS_RemoveElement
    <3>4. Good(u)
      <4>1. Cardinality(u) \notin Bad
        BY <2>1, <3>3
      <4>2. QED
        BY <3>3, <4>1
    <3>5. /\ SumFcn(S, h)[t] = h[x] + SumFcn(S, h)[u]
          /\ SumFcn(S, k)[t] = k[x] + SumFcn(S, k)[u]
      <4>1. SumFcn(S, h)[t] = h[x] + SumFcn(S, h)[t \ {x}]
        BY <2>4, <3>1, SumStep
      <4>2. SumFcn(S, k)[t] = k[x] + SumFcn(S, k)[t \ {x}]
        BY <2>4, <3>1, SumStep
      <4>3. QED
        BY <3>2, <4>1, <4>2
    <3>6. /\ x \in S /\ h[x] \in Int /\ k[x] \in Int /\ h[a] \in Int /\ k[a] \in Int
          /\ x # a => k[x] = h[x]
      BY <2>2, <3>1
    <3>7. PICK hu, ku, ht, kt : /\ hu = SumFcn(S, h)[u] /\ ku = SumFcn(S, k)[u]
                                /\ ht = SumFcn(S, h)[t] /\ kt = SumFcn(S, k)[t]
      BY <3>4
    <3>8. hu \in Int /\ ku = hu + (IF a \in u THEN k[a] - h[a] ELSE 0) /\ ht = h[x] + hu /\ kt = k[x] + ku
      BY <3>4, <3>5, <3>7
    <3>9. ht \in Int /\ kt = ht + (IF a \in t THEN k[a] - h[a] ELSE 0)
      <4>1. CASE x = a
        BY <3>1, <3>2, <3>6, <3>8, <4>1
      <4>2. CASE x # a
        <5>1. a \in u <=> a \in t
          BY <3>2, <4>2
        <5>2. QED
          BY <3>6, <3>8, <4>2, <5>1
      <4>3. QED
        BY <4>1, <4>2
    <3>10. QED
      BY <2>2, <3>7, <3>9
  <2>5. QED
    BY <2>3, <2>4
<1>3. Good(s)
  BY <1>1, <1>2
<1>4. QED
  BY <1>3

(* What one seat loses and another gains leaves the sum as it was. *)
LEMMA SumKept ==
  ASSUME NEW S, IsFiniteSet(S), NEW h \in [S -> Int], NEW k \in [S -> Int], NEW a \in S, NEW b \in S,
         a # b, \A x \in S \ {a, b} : k[x] = h[x], k[a] + k[b] = h[a] + h[b]
  PROVE  SumFcn(S, k)[S] = SumFcn(S, h)[S]
<1>1. PICK j \in [S -> Int] : j = [h EXCEPT ![a] = k[a]]
  OBVIOUS
<1>2. (\A x \in S \ {a} : j[x] = h[x]) /\ j[a] = k[a]
  BY <1>1
<1>3. (\A x \in S \ {b} : k[x] = j[x]) /\ j[b] = h[b]
  BY <1>1
<1>4. S \in SUBSET S
  OBVIOUS
<1>5. /\ SumFcn(S, h)[S] \in Int
      /\ SumFcn(S, j)[S] = SumFcn(S, h)[S] + (IF a \in S THEN j[a] - h[a] ELSE 0)
  BY <1>2, <1>4, SumChanges
<1>6. /\ SumFcn(S, j)[S] \in Int
      /\ SumFcn(S, k)[S] = SumFcn(S, j)[S] + (IF b \in S THEN k[b] - j[b] ELSE 0)
  BY <1>3, <1>4, SumChanges
<1>7. PICK p, q, r : p = SumFcn(S, h)[S] /\ q = SumFcn(S, j)[S] /\ r = SumFcn(S, k)[S]
  BY <1>5, <1>6
<1>8. p \in Int /\ q \in Int /\ q = p + (k[a] - h[a]) /\ r = q + (k[b] - h[b])
  BY <1>2, <1>3, <1>5, <1>6, <1>7
<1>9. r = p
  <2>1. k[a] \in Int /\ k[b] \in Int /\ h[a] \in Int /\ h[b] \in Int
    OBVIOUS
  <2>2. QED
    BY <1>8, <2>1
<1>10. QED
  BY <1>7, <1>9

-----------------------------------------------------------------------------
(* What a command may do to the match *)

FieldNames ==
  {"lifecycle", "stateVersion", "players", "properties", "bankCash", "housesRemaining",
   "hotelsRemaining", "turn", "bankruptcyRequired", "activeTrades", "lastDice", "terminal"}

(* What serialization does not look at; the rest of the types are its own  *)
(* checks.                                                                 *)
Shape(g) ==
  /\ DOMAIN g = FieldNames /\ g.lifecycle \in {"inProgress", "finished"}
  /\ g.players = [s \in Seats |-> g.players[s]]
  /\ g.properties = [p \in Positions |-> g.properties[p]]
  /\ g.activeTrades \in Seq(Trade) /\ Len(g.activeTrades) <= GAMEPLAY_POLICY.maximumActiveTrades

(* A command that is the current player's own business: it takes no        *)
(* property from anyone and nobody else's cash.                            *)
Own(next) ==
  /\ Shape(next)
  /\ \A p \in Positions : game.properties[p].owner \in {None, next.properties[p].owner}
  /\ \A s \in Seats \ {Current} : next.players[s].cash = game.players[s].cash

(* An action property without its box, and most of another one. *)
Consented ==
  \A p \in Positions :
    LET owner == game.properties[p].owner IN
    owner \notin {None, game'.properties[p].owner} =>
      \/ game'.players[owner].status = "eliminated"
      \/ \E i \in DOMAIN game.activeTrades :
           LET trade == game.activeTrades[i] IN
           /\ Len(game'.activeTrades) < Len(game.activeTrades)
           /\ \/ <<owner, p>> = <<trade.proposer, trade.terms.offeredProperty>>
                 /\ game'.properties[p].owner = trade.receiver
              \/ <<owner, p>> = <<trade.receiver, trade.terms.requestedProperty>>
                 /\ game'.properties[p].owner = trade.proposer

Matched ==
  LET Total(g) == MapThenSumSet(LAMBDA s : g.players[s].cash, Seats) IN
  (\E s \in Seats \ {Current} : game'.players[s].cash # game.players[s].cash) =>
    Total(game') = Total(game)

(* Whatever changed was stored, and was read back before that. *)
ReadBack == game' = game \/ hydrateGameplayState(game')

StepOK ==
  MatchOK' /\ refused' \subseteq refused \cup CommandKinds /\ Consented /\ Matched /\ ReadBack

LEMMA InitialNames == DOMAIN initializeGameplayAggregate = FieldNames
BY DEF initializeGameplayAggregate, FieldNames

LEMMA GameShape ==
  ASSUME MatchOK
  PROVE  Shape(game)
BY InitialNames DEF MatchOK, Shape

LEMMA CommitCases ==
  ASSUME NEW kind, NEW next, NEW events, Commit(kind, next, events), DOMAIN next = FieldNames
  PROVE  /\ UNCHANGED <<timeUp, silent>>
         /\ \/ game' = game /\ refused' = refused \cup {kind}
            \/ /\ DOMAIN game' = FieldNames /\ refused' = refused
               /\ game'.lifecycle = next.lifecycle /\ game'.players = next.players
               /\ game'.properties = next.properties /\ game'.activeTrades = next.activeTrades
               /\ Reportable(events) /\ hydrateGameplayState(game')
BY DEF FieldNames, Commit

LEMMA Committed ==
  ASSUME MatchOK, Shape(game'), hydrateGameplayState(game'),
         UNCHANGED <<timeUp, silent>>
  PROVE  MatchOK'
<1>1. game'.players \in [Seats -> Player] /\ game'.properties \in [Positions -> Property]
  BY DEF Shape, hydrateGameplayState, hydratePlayer, hydrateProperty
<1>2. /\ DOMAIN game' = DOMAIN initializeGameplayAggregate
      /\ game'.lifecycle \in {"inProgress", "finished"} /\ game'.activeTrades \in Seq(Trade)
      /\ Len(game'.activeTrades) <= GAMEPLAY_POLICY.maximumActiveTrades
  BY InitialNames DEF Shape
<1>3. game'.bankruptcyRequired \in Seats \cup {None}
  BY <1>2 DEF hydrateGameplayState, isValidActive, isValidFinished, ActiveSeats
<1>4. hydrateTurn(game'.turn, game'.lifecycle)
  BY DEF hydrateGameplayState
<1>5. /\ game'.stateVersion \in 1 .. MAX_STATE_VERSION /\ game'.bankCash \in 0 .. MAX_MATCH_CASH
      /\ game'.housesRemaining \in Nat /\ game'.hotelsRemaining \in Nat
      /\ hydrateDice(game'.lastDice)
      /\ game'.terminal # None => hydrateTerminal(game'.terminal)
  BY PolicyAssumption DEF hydrateGameplayState
<1>6. timeUp' \in BOOLEAN /\ silent' \in BOOLEAN
  BY DEF MatchOK
<1>7. QED
  BY <1>1, <1>2, <1>3, <1>4, <1>5, <1>6 DEF MatchOK

(* A command that does nothing to the match but note its failure. *)
LEMMA NothingChanges ==
  ASSUME MatchOK, game' = game, refused' \subseteq refused \cup CommandKinds, timeUp' \in BOOLEAN, silent' \in BOOLEAN
  PROVE  StepOK
<1>1. MatchOK'
  BY DEF MatchOK
<1>2. Consented
  BY DEF Consented
<1>3. Matched
  BY DEF Matched
<1>4. QED
  BY <1>1, <1>2, <1>3 DEF StepOK, ReadBack

LEMMA OwnCommit ==
  ASSUME MatchOK, NEW kind \in CommandKinds, NEW next, NEW events, Own(next), Commit(kind, next, events)
  PROVE  StepOK
<1>3. DOMAIN next = FieldNames
  BY DEF Own, Shape
<1>4. /\ timeUp' \in BOOLEAN /\ silent' \in BOOLEAN
      /\ UNCHANGED <<timeUp, silent>>
  BY <1>3, CommitCases DEF MatchOK
<1>5. CASE game' = game /\ refused' = refused \cup {kind}
  BY <1>4, <1>5, NothingChanges
<1>6. CASE /\ DOMAIN game' = FieldNames /\ refused' = refused
           /\ game'.lifecycle = next.lifecycle /\ game'.players = next.players
           /\ game'.properties = next.properties /\ game'.activeTrades = next.activeTrades
           /\ hydrateGameplayState(game')
  <2>1. Shape(game')
    BY <1>6 DEF Own, Shape
  <2>2. MatchOK'
    BY <1>4, <1>6, <2>1, Committed
  <2>3. \A p \in Positions : game.properties[p].owner \in {None, game'.properties[p].owner}
    BY <1>6 DEF Own
  <2>4. \A s \in Seats \ {Current} : game'.players[s].cash = game.players[s].cash
    BY <1>6 DEF Own
  <2>5. Consented
    BY <2>3 DEF Consented
  <2>6. Matched
    BY <2>4 DEF Matched
  <2>7. QED
    BY <1>6, <2>2, <2>5, <2>6 DEF StepOK, ReadBack
<1>7. QED
  BY <1>3, <1>5, <1>6, CommitCases

(* The names of the fields, for the steps that only look at some of them. *)
LEMMA GameFields ==
  ASSUME MatchOK
  PROVE  DOMAIN game = FieldNames /\ game.players = [s \in Seats |-> game.players[s]]
BY GameShape DEF Shape

(* The current player's row, the turn, the dice or the bank change. *)
OwnRow(next) ==
  /\ DOMAIN next = FieldNames /\ next.lifecycle = game.lifecycle
  /\ next.properties = game.properties /\ next.activeTrades = game.activeTrades
  /\ next.players = [s \in Seats |-> next.players[s]]
  /\ \A s \in Seats \ {Current} : next.players[s] = game.players[s]

LEMMA RowCommit ==
  ASSUME MatchOK, NEW kind \in CommandKinds, NEW next, NEW events, OwnRow(next), Commit(kind, next, events)
  PROVE  StepOK
<1>1. Shape(game)
  BY GameShape
<1>2. Own(next)
  BY <1>1 DEF Own, OwnRow, Shape
<1>3. QED
  BY <1>2, OwnCommit

-----------------------------------------------------------------------------
(* Commands of the player on turn *)

LEMMA JailRollRemainsOK ==
  ASSUME MatchOK, NEW roll, JailRollRemains(roll)
  PROVE  StepOK
<1>1. PICK next : next = [game EXCEPT !.players[Current].jailTurns = @ + 1,
                                     !.turn = advanceGameplayTurn, !.lastDice = roll]
  OBVIOUS
<1>2. OwnRow(next)
  BY <1>1, GameFields DEF OwnRow, FieldNames
<1>3. PICK events : Commit("rollDice", next, events)
  BY <1>1 DEF JailRollRemains
<1>4. "rollDice" \in CommandKinds
  BY DEF CommandKinds
<1>5. QED
  BY <1>2, <1>3, <1>4, RowCommit

LEMMA JailRollBankruptsOK ==
  ASSUME MatchOK, NEW roll, JailRollBankrupts(roll)
  PROVE  StepOK
<1>1. PICK next : next = RequireBankruptcy([game EXCEPT !.players[Current] = [Freed(@) EXCEPT !.cash = 0],
                                                       !.lastDice = roll])
  OBVIOUS
<1>2. OwnRow(next)
  BY <1>1, GameFields DEF OwnRow, FieldNames, RequireBankruptcy
<1>3. PICK events : Commit("rollDice", next, events)
  BY <1>1 DEF JailRollBankrupts
<1>4. "rollDice" \in CommandKinds
  BY DEF CommandKinds
<1>5. QED
  BY <1>2, <1>3, <1>4, RowCommit

LEMMA RollThirdDoublesOK ==
  ASSUME MatchOK, NEW roll, RollThirdDoubles(roll)
  PROVE  StepOK
<1>1. PICK next : next = [game EXCEPT !.players[Current] = Jailed(@),
                                     !.turn = advanceGameplayTurn, !.lastDice = roll]
  OBVIOUS
<1>2. OwnRow(next)
  BY <1>1, GameFields DEF OwnRow, FieldNames
<1>3. PICK events : Commit("rollDice", next, events)
  BY <1>1 DEF RollThirdDoubles
<1>4. "rollDice" \in CommandKinds
  BY DEF CommandKinds
<1>5. QED
  BY <1>2, <1>3, <1>4, RowCommit

LEMMA EndTurnOK ==
  ASSUME MatchOK, endTurn
  PROVE  StepOK
<1>1. PICK next : next = [game EXCEPT !.players[Current].consecutiveDoubles = 0,
                                     !.turn = advanceGameplayTurn, !.lastDice = None]
  OBVIOUS
<1>2. OwnRow(next)
  BY <1>1, GameFields DEF OwnRow, FieldNames
<1>3. PICK events : Commit("endTurn", next, events)
  BY <1>1 DEF endTurn
<1>4. "endTurn" \in CommandKinds
  BY DEF CommandKinds
<1>5. QED
  BY <1>2, <1>3, <1>4, RowCommit

LEMMA DeclinePropertyOK ==
  ASSUME MatchOK, declineProperty
  PROVE  StepOK
<1>1. PICK next : next = [game EXCEPT !.turn = phaseAfterResolvedAction]
  OBVIOUS
<1>2. OwnRow(next)
  BY <1>1, GameFields DEF OwnRow, FieldNames
<1>3. PICK events : Commit("declineProperty", next, events)
  BY <1>1 DEF declineProperty
<1>4. "declineProperty" \in CommandKinds
  BY DEF CommandKinds
<1>5. QED
  BY <1>2, <1>3, <1>4, RowCommit

LEMMA PayTaxOK ==
  ASSUME MatchOK, NEW taxKind, NEW tax, PayTax(taxKind, tax)
  PROVE  StepOK
<1>1. PICK next : next = [game EXCEPT !.players[Current].cash = @ - tax.amount,
                                     !.turn = phaseAfterResolvedAction]
  OBVIOUS
<1>2. OwnRow(next)
  BY <1>1, GameFields DEF OwnRow, FieldNames
<1>3. PICK events : Commit("payTax", next, events)
  BY <1>1 DEF PayTax
<1>4. "payTax" \in CommandKinds
  BY DEF CommandKinds
<1>5. QED
  BY <1>2, <1>3, <1>4, RowCommit

LEMMA JailRollReleasesOK ==
  ASSUME MatchOK, NEW roll, JailRollReleases(roll)
  PROVE  StepOK
<1>1. PICK next : next = [game EXCEPT
         !.players[Current] =
           [Freed(Me) EXCEPT !.cash = @ - (IF FineDue(roll) THEN GAMEPLAY_POLICY.jailFine ELSE 0),
                             !.position = moveBy(Me.position, roll.total).to],
         !.turn = createGameplayLandingTurn(moveBy(Me.position, roll.total).to, FALSE),
         !.lastDice = roll]
  OBVIOUS
<1>2. OwnRow(next)
  BY <1>1, GameFields DEF OwnRow, FieldNames
<1>3. PICK events : Commit("rollDice", next, events)
  BY <1>1 DEF JailRollReleases
<1>4. "rollDice" \in CommandKinds
  BY DEF CommandKinds
<1>5. QED
  BY <1>2, <1>3, <1>4, RowCommit

LEMMA LeaveJailOK ==
  ASSUME MatchOK, NEW kind \in CommandKinds, NEW player, NEW method, LeaveJail(kind, player, method)
  PROVE  StepOK
<1>1. PICK next : next = [game EXCEPT !.players[Current] = Freed(player),
                                  !.turn = advanceGameplayTurn, !.lastDice = None]
  OBVIOUS
<1>2. OwnRow(next)
  BY <1>1, GameFields DEF OwnRow, FieldNames
<1>3. PICK events : Commit(kind, next, events)
  BY <1>1 DEF LeaveJail
<1>4. QED
  BY <1>2, <1>3, RowCommit

LEMMA CardMovesOK ==
  ASSUME MatchOK, NEW card, CardMoves(card)
  PROVE  StepOK
<1>1. PICK next : next = [game EXCEPT
         !.players[Current].cash = Me.cash + Salary(CardMovement(card)),
         !.players[Current].position = CardMovement(card).to,
         !.turn = continuationTurn(CardMovement(card).to, TRUE)]
  OBVIOUS
<1>2. OwnRow(next)
  BY <1>1, GameFields DEF OwnRow, FieldNames
<1>3. PICK events : Commit("drawCard", next, events)
  BY <1>1 DEF CardMoves
<1>4. "drawCard" \in CommandKinds
  BY DEF CommandKinds
<1>5. QED
  BY <1>2, <1>3, <1>4, RowCommit

LEMMA CardIsKeptOK ==
  ASSUME MatchOK, NEW card, CardIsKept(card)
  PROVE  StepOK
<1>1. PICK next : next = [game EXCEPT !.players[Current].getOutOfJailCards = @ + 1,
                                     !.turn = continuationTurn(Me.position, FALSE)]
  OBVIOUS
<1>2. OwnRow(next)
  BY <1>1, GameFields DEF OwnRow, FieldNames
<1>3. PICK events : Commit("drawCard", next, events)
  BY <1>1 DEF CardIsKept
<1>4. "drawCard" \in CommandKinds
  BY DEF CommandKinds
<1>5. QED
  BY <1>2, <1>3, <1>4, RowCommit

LEMMA CardRepairsOK ==
  ASSUME MatchOK, NEW card, CardRepairs(card)
  PROVE  StepOK
<1>1. PICK next : next = [game EXCEPT !.turn = continuationTurn(Me.position, FALSE)]
  OBVIOUS
<1>2. OwnRow(next)
  BY <1>1, GameFields DEF OwnRow, FieldNames
<1>3. PICK events : Commit("drawCard", next, events)
  BY <1>1 DEF CardRepairs
<1>4. "drawCard" \in CommandKinds
  BY DEF CommandKinds
<1>5. QED
  BY <1>2, <1>3, <1>4, RowCommit

LEMMA CardChangesCashOK ==
  ASSUME MatchOK, NEW card, CardChangesCash(card)
  PROVE  StepOK
<1>1. PICK paid : paid = [game EXCEPT !.players[Current].cash = Me.cash + CardCash(card),
                                      !.turn = continuationTurn(Me.position, FALSE)]
  OBVIOUS
<1>2. PICK broke : broke = RequireBankruptcy([game EXCEPT !.players[Current].cash = 0])
  OBVIOUS
<1>3. OwnRow(paid)
  BY <1>1, GameFields DEF OwnRow, FieldNames
<1>4. OwnRow(broke)
  BY <1>2, GameFields DEF OwnRow, FieldNames, RequireBankruptcy
<1>5. PICK next, events : next \in {paid, broke} /\ Commit("drawCard", next, events)
  BY <1>1, <1>2 DEF CardChangesCash
<1>6. OwnRow(next) /\ "drawCard" \in CommandKinds
  BY <1>3, <1>4, <1>5 DEF CommandKinds
<1>7. QED
  BY <1>5, <1>6, RowCommit

(* A debt that cannot be paid, in whatever command it turns up. *)
LEMMA BankruptcyRequiredOK ==
  ASSUME MatchOK, NEW kind \in CommandKinds, NEW events, Commit(kind, RequireBankruptcy(game), events)
  PROVE  StepOK
<1>1. OwnRow(RequireBankruptcy(game))
  BY GameFields DEF OwnRow, FieldNames, RequireBankruptcy
<1>2. QED
  BY <1>1, RowCommit

LEMMA RollAndMoveOK ==
  ASSUME MatchOK, NEW roll, RollAndMove(roll)
  PROVE  StepOK
<1>1. PICK moved : moved =
        [Me EXCEPT !.cash = Me.cash + Salary(moveBy(Me.position, roll.total)),
                   !.position = moveBy(Me.position, roll.total).to,
                   !.consecutiveDoubles = IF roll.isDoubles THEN @ + 1 ELSE 0]
  OBVIOUS
<1>2. PICK jailed : jailed = [game EXCEPT !.players[Current] = Jailed(moved),
                                          !.turn = advanceGameplayTurn, !.lastDice = roll]
  OBVIOUS
<1>3. PICK landed : landed = [game EXCEPT !.players[Current] = moved, !.lastDice = roll,
        !.turn = createGameplayLandingTurn(moveBy(Me.position, roll.total).to, roll.isDoubles)]
  OBVIOUS
<1>4. OwnRow(jailed)
  BY <1>2, GameFields DEF OwnRow, FieldNames
<1>5. OwnRow(landed)
  BY <1>3, GameFields DEF OwnRow, FieldNames
<1>6. PICK next, events : next \in {jailed, landed} /\ Commit("rollDice", next, events)
  BY <1>1, <1>2, <1>3 DEF RollAndMove
<1>7. OwnRow(next) /\ "rollDice" \in CommandKinds
  BY <1>4, <1>5, <1>6 DEF CommandKinds
<1>8. QED
  BY <1>6, <1>7, RowCommit

LEMMA RollDiceOK ==
  ASSUME MatchOK, rollDice
  PROVE  StepOK
<1>1. PICK roll : \/ JailRollRemains(roll) \/ JailRollBankrupts(roll) \/ JailRollReleases(roll)
                  \/ RollThirdDoubles(roll) \/ RollAndMove(roll)
  BY DEF rollDice
<1>2. QED
  BY <1>1, JailRollRemainsOK, JailRollBankruptsOK, JailRollReleasesOK, RollThirdDoublesOK,
     RollAndMoveOK

LEMMA PayMevTaxOK ==
  ASSUME MatchOK, payMevTax
  PROVE  StepOK
<1>1. CASE PayTax("mev", GAMEPLAY_POLICY.mevTax)
  BY <1>1, PayTaxOK
<1>2. CASE Commit("payMevTax", RequireBankruptcy(game), <<>>)
  <2>1. "payMevTax" \in CommandKinds
    BY DEF CommandKinds
  <2>2. QED
    BY <1>2, <2>1, BankruptcyRequiredOK
<1>3. QED
  BY <1>1, <1>2 DEF payMevTax

LEMMA PayJailFineOK ==
  ASSUME MatchOK, payJailFine
  PROVE  StepOK
<1>1. "payJailFine" \in CommandKinds
  BY DEF CommandKinds
<1>2. CASE LeaveJail("payJailFine", [Me EXCEPT !.cash = @ - GAMEPLAY_POLICY.jailFine], "fine")
  BY <1>1, <1>2, LeaveJailOK
<1>3. CASE Commit("payJailFine", RequireBankruptcy([game EXCEPT !.lastDice = None]), <<>>)
  <2>1. PICK next : next = RequireBankruptcy([game EXCEPT !.lastDice = None])
    OBVIOUS
  <2>2. OwnRow(next)
    BY <2>1, GameFields DEF OwnRow, FieldNames, RequireBankruptcy
  <2>3. QED
    BY <1>1, <1>3, <2>1, <2>2, RowCommit
<1>4. QED
  BY <1>2, <1>3 DEF payJailFine

LEMMA UseJailCardOK ==
  ASSUME MatchOK, useJailCard
  PROVE  StepOK
<1>1. "useJailCard" \in CommandKinds
  BY DEF CommandKinds
<1>2. LeaveJail("useJailCard", [Me EXCEPT !.getOutOfJailCards = @ - 1], "card")
  BY DEF useJailCard
<1>3. QED
  BY <1>1, <1>2, LeaveJailOK

LEMMA DrawCardOK ==
  ASSUME MatchOK, drawCard
  PROVE  StepOK
<1>1. PICK card : CardChangesCash(card) \/ CardMoves(card) \/ CardIsKept(card) \/ CardRepairs(card)
  BY DEF drawCard
<1>2. QED
  BY <1>1, CardChangesCashOK, CardMovesOK, CardIsKeptOK, CardRepairsOK

LEMMA BuyPropertyOK ==
  ASSUME MatchOK, buyProperty
  PROVE  StepOK
<1>1. PICK next : next = [game EXCEPT !.players[Current].cash = @ - BOARD_SPACES[game.turn.at].price,
                                      !.properties[game.turn.at].owner = Current,
                                      !.turn = phaseAfterResolvedAction]
  OBVIOUS
<1>2. Shape(game)
  BY GameShape
<1>3. /\ DOMAIN next = FieldNames /\ next.lifecycle = game.lifecycle
      /\ next.players = [s \in Seats |-> next.players[s]]
      /\ next.activeTrades = game.activeTrades
      /\ \A s \in Seats \ {Current} : next.players[s] = game.players[s]
  BY <1>1, <1>2 DEF Shape, FieldNames
<1>4. /\ next.properties = [p \in Positions |-> next.properties[p]]
      /\ \A p \in Positions \ {game.turn.at} : next.properties[p] = game.properties[p]
  BY <1>1, <1>2 DEF Shape, FieldNames
<1>5. game.properties[game.turn.at].owner = None
  BY DEF buyProperty
<1>6. Own(next)
  BY <1>2, <1>3, <1>4, <1>5 DEF Own, Shape
<1>7. PICK events : Commit("buyProperty", next, events)
  BY <1>1 DEF buyProperty
<1>8. "buyProperty" \in CommandKinds
  BY DEF CommandKinds
<1>9. QED
  BY <1>6, <1>7, <1>8, OwnCommit

(* A building is built or sold: the property keeps its owner. *)
LEMMA BuildingActionOK ==
  ASSUME MatchOK, NEW kind \in CommandKinds, NEW p \in Positions, NEW property, NEW houses, NEW hotels,
         NEW cash, NEW event, property.owner = game.properties[p].owner,
         BuildingAction(kind, p, property, houses, hotels, cash, event)
  PROVE  StepOK
<1>1. PICK next : next = [game EXCEPT !.players[Current].cash = cash, !.properties[p] = property,
                                      !.housesRemaining = houses, !.hotelsRemaining = hotels]
  OBVIOUS
<1>2. Shape(game)
  BY GameShape
<1>3. /\ DOMAIN next = FieldNames /\ next.lifecycle = game.lifecycle
      /\ next.players = [s \in Seats |-> next.players[s]]
      /\ next.activeTrades = game.activeTrades
      /\ \A s \in Seats \ {Current} : next.players[s] = game.players[s]
  BY <1>1, <1>2 DEF Shape, FieldNames
<1>4. /\ next.properties = [q \in Positions |-> next.properties[q]]
      /\ \A q \in Positions : next.properties[q].owner = game.properties[q].owner
  BY <1>1, <1>2 DEF Shape, FieldNames
<1>5. Own(next)
  BY <1>2, <1>3, <1>4 DEF Own, Shape
<1>6. PICK events : Commit(kind, next, events)
  BY <1>1 DEF BuildingAction
<1>7. QED
  BY <1>5, <1>6, OwnCommit

LEMMA BuildingOK ==
  ASSUME MatchOK, Building
  PROVE  StepOK
<1>1. PICK p \in Positions : buildHouse(p) \/ buildHotel(p) \/ sellHouse(p) \/ sellHotel(p)
  BY DEF Building, OwnStreets
<1>2. PICK property : property = game.properties[p]
  OBVIOUS
<1>3. property \in Property
  BY <1>2 DEF MatchOK
<1>4. /\ [property EXCEPT !.houses = @ + 1].owner = property.owner
      /\ [property EXCEPT !.houses = @ - 1].owner = property.owner
      /\ [property EXCEPT !.houses = 0, !.hasHotel = TRUE].owner = property.owner
      /\ [property EXCEPT !.houses = MaxHouses, !.hasHotel = FALSE].owner = property.owner
  BY <1>3 DEF Property
<1>5. {"buildHouse", "buildHotel", "sellBuilding"} \subseteq CommandKinds
  BY DEF CommandKinds
<1>6. PICK kind, after, houses, hotels, cash, event :
        /\ kind \in CommandKinds /\ after.owner = property.owner
        /\ BuildingAction(kind, p, after, houses, hotels, cash, event)
  <2>1. CASE buildHouse(p)
    BY <1>2, <1>4, <1>5, <2>1 DEF buildHouse
  <2>2. CASE buildHotel(p)
    BY <1>2, <1>4, <1>5, <2>2 DEF buildHotel
  <2>3. CASE sellHouse(p)
    BY <1>2, <1>4, <1>5, <2>3 DEF sellHouse
  <2>4. CASE sellHotel(p)
    BY <1>2, <1>4, <1>5, <2>4 DEF sellHotel
  <2>5. QED
    BY <1>1, <2>1, <2>2, <2>3, <2>4
<1>7. QED
  BY <1>2, <1>6, BuildingActionOK

-----------------------------------------------------------------------------
(* Money that passes from one player to another *)

LEMMA SumUnique ==
  ASSUME NEW S, IsFiniteSet(S), NEW h, NEW f, NEW g, IsSum(S, h, f), IsSum(S, h, g),
         NEW s \in SUBSET S
  PROVE  f[s] = g[s]
<1> DEFINE Bad == {n \in Nat : \E t \in SUBSET S : Cardinality(t) = n /\ f[t] # g[t]}
<1>1. \A t \in SUBSET S : IsFiniteSet(t) /\ Cardinality(t) \in Nat
  BY FS_Subset, FS_CardinalityType
<1>2. ASSUME Bad # {} PROVE FALSE
  <2>1. PICK m \in Bad : \A n \in Bad : m <= n
    BY <1>2, LeastElement
  <2>2. PICK t \in SUBSET S : Cardinality(t) = m /\ f[t] # g[t]
    BY <2>1
  <2>3. f[t] = Summand(h, f, t) /\ g[t] = Summand(h, g, t)
    BY <2>2 DEF IsSum
  <2>4. t # {}
    BY <2>2, <2>3 DEF Summand
  <2>5. PICK x \in t : x = Pick(t)
    BY <2>4, PickIn
  <2>6. PICK u \in SUBSET S : u = t \ {x}
    BY <2>2
  <2>7. Cardinality(u) = m - 1 /\ Cardinality(u) \in Nat
    BY <1>1, <2>2, <2>5, <2>6, FS_RemoveElement
  <2>8. Cardinality(u) \notin Bad
    BY <2>1, <2>7
  <2>9. f[u] = g[u]
    BY <2>7, <2>8
  <2>10. f[t] = h[x] + f[u] /\ g[t] = h[x] + g[u]
    BY <2>3, <2>4, <2>5, <2>6 DEF Summand
  <2>11. QED
    BY <2>2, <2>9, <2>10
<1>3. QED
  BY <1>1, <1>2

(* The players' cash together, as OthersCashIsMatched adds it up. *)
IsCash(g, f) ==
  f = [s \in SUBSET Seats |->
         IF s = {} THEN 0 ELSE g.players[Pick(s)].cash + f[s \ {Pick(s)}]]
CashFcn(g) == CHOOSE f : IsCash(g, f)
CashOf(g) == [s \in Seats |-> g.players[s].cash]

LEMMA CashUnfolds ==
  ASSUME NEW g
  PROVE  MapThenSumSet(LAMBDA s : g.players[s].cash, Seats) = CashFcn(g)[Seats]
BY DEF MapThenSumSet, MapThenFoldSet, CashFcn, IsCash, Pick

LEMMA CashIsSum ==
  ASSUME NEW g, NEW f
  PROVE  IsCash(g, f) <=> IsSum(Seats, CashOf(g), f)
<1>1. PICK h : h = CashOf(g)
  OBVIOUS
<1>2. ASSUME NEW s \in SUBSET Seats
      PROVE  Summand(h, f, s) = IF s = {} THEN 0 ELSE g.players[Pick(s)].cash + f[s \ {Pick(s)}]
  <2>1. s # {} => Pick(s) \in Seats
    BY PickIn
  <2>2. s # {} => h[Pick(s)] = g.players[Pick(s)].cash
    BY <1>1, <2>1 DEF CashOf
  <2>3. QED
    BY <2>2 DEF Summand
<1>3. [s \in SUBSET Seats |-> Summand(h, f, s)] =
      [s \in SUBSET Seats |-> IF s = {} THEN 0 ELSE g.players[Pick(s)].cash + f[s \ {Pick(s)}]]
  BY <1>2
<1>4. QED
  BY <1>1, <1>3, Zenon DEF IsCash, IsSum

LEMMA CashIsSummed ==
  ASSUME NEW g
  PROVE  MapThenSumSet(LAMBDA s : g.players[s].cash, Seats) = SumFcn(Seats, CashOf(g))[Seats]
<1>1. IsFiniteSet(Seats) /\ Seats \in SUBSET Seats
  BY SeatsAssumption
<1>2. IsSum(Seats, CashOf(g), SumFcn(Seats, CashOf(g)))
  BY <1>1, SumEquation
<1>3. IsCash(g, SumFcn(Seats, CashOf(g)))
  BY <1>2, CashIsSum
<1>4. IsCash(g, CashFcn(g))
  BY <1>3, Zenon DEF CashFcn
<1>5. IsSum(Seats, CashOf(g), CashFcn(g))
  BY <1>4, CashIsSum
<1>6. CashFcn(g)[Seats] = SumFcn(Seats, CashOf(g))[Seats]
  BY <1>1, <1>2, <1>5, SumUnique
<1>7. QED
  BY <1>6, CashUnfolds

LEMMA TransferMatched ==
  ASSUME MatchOK, MatchOK', NEW a \in Seats, NEW b \in Seats, a # b,
         \A s \in Seats \ {a, b} : game'.players[s].cash = game.players[s].cash,
         game'.players[a].cash + game'.players[b].cash = game.players[a].cash + game.players[b].cash
  PROVE  Matched
<1>1. PICK g, h : g = game /\ h = game'
  OBVIOUS
<1>2. \A s \in Seats : g.players[s].cash \in Int /\ h.players[s].cash \in Int
  BY <1>1 DEF MatchOK, Player
<1>3. PICK k, j : k = CashOf(g) /\ j = CashOf(h)
  OBVIOUS
<1>4. /\ k \in [Seats -> Int] /\ j \in [Seats -> Int] /\ \A s \in Seats \ {a, b} : j[s] = k[s]
      /\ j[a] + j[b] = k[a] + k[b]
  BY <1>1, <1>2, <1>3 DEF CashOf
<1>5. IsFiniteSet(Seats)
  BY SeatsAssumption
<1>6. SumFcn(Seats, j)[Seats] = SumFcn(Seats, k)[Seats]
  BY <1>4, <1>5, SumKept
<1>7. MapThenSumSet(LAMBDA s : h.players[s].cash, Seats) = SumFcn(Seats, j)[Seats]
  BY <1>3, CashIsSummed
<1>8. MapThenSumSet(LAMBDA s : g.players[s].cash, Seats) = SumFcn(Seats, k)[Seats]
  BY <1>3, CashIsSummed
<1>9. MapThenSumSet(LAMBDA s : h.players[s].cash, Seats)
        = MapThenSumSet(LAMBDA s : g.players[s].cash, Seats)
  BY <1>6, <1>7, <1>8
<1>10. QED
  BY <1>1, <1>9 DEF Matched

(* The aggregate a command made has been stored. *)
Stored(next, events) ==
  /\ Reportable(events) /\ game'.players = next.players /\ game'.properties = next.properties
  /\ game'.activeTrades = next.activeTrades

LEMMA CommitOK ==
  ASSUME MatchOK, NEW kind \in CommandKinds, NEW next, NEW events, Shape(next),
         Commit(kind, next, events),
         MatchOK' /\ Stored(next, events) => Consented /\ Matched
  PROVE  StepOK
<1>1. DOMAIN next = FieldNames
  BY DEF Shape
<1>2. timeUp' \in BOOLEAN /\ silent' \in BOOLEAN /\ UNCHANGED <<timeUp, silent>>
  BY <1>1, CommitCases DEF MatchOK
<1>3. CASE game' = game /\ refused' = refused \cup {kind}
  BY <1>2, <1>3, NothingChanges
<1>4. CASE /\ DOMAIN game' = FieldNames /\ refused' = refused
           /\ game'.lifecycle = next.lifecycle /\ game'.players = next.players
           /\ game'.properties = next.properties /\ game'.activeTrades = next.activeTrades
           /\ Reportable(events) /\ hydrateGameplayState(game')
  <2>1. Shape(game')
    BY <1>4 DEF Shape
  <2>2. MatchOK'
    BY <1>2, <1>4, <2>1, Committed
  <2>3. Consented /\ Matched
    BY <1>4, <2>2 DEF Stored
  <2>4. QED
    BY <1>4, <2>2, <2>3 DEF StepOK, ReadBack
<1>5. QED
  BY <1>1, <1>3, <1>4, CommitCases

(* The contract admits no negative rent. *)
LEMMA RentIsNatural ==
  ASSUME NEW payer, NEW owner, NEW p, NEW amount, Reportable(<<RentPaid(payer, owner, p, amount)>>)
  PROVE  amount \in Nat
<1>1. PICK event : event = RentPaid(payer, owner, p, amount)
  OBVIOUS
<1>2. event.type = "rentPaid" /\ event.amount = amount
  BY <1>1 DEF RentPaid
<1>3. gameplayPayload(event) = event
  BY <1>2 DEF gameplayPayload
<1>4. PICK payloads : /\ payloads = gameplayEvents(<<event>>)
                      /\ \A i \in DOMAIN payloads : GameplayEventPayloadSchema(payloads[i])
  BY <1>1 DEF Reportable
<1>5. 1 \in DOMAIN payloads /\ payloads[1] = event
  BY <1>3, <1>4 DEF gameplayEvents
<1>6. GameplayEventPayloadSchema(event)
  BY <1>4, <1>5
<1>7. InMatchCash(event.amount)
  BY <1>2, <1>6 DEF GameplayEventPayloadSchema
<1>8. QED
  BY <1>2, <1>7 DEF InMatchCash

LEMMA PayRentOK ==
  ASSUME MatchOK, payRent
  PROVE  StepOK
<1>1. PICK owner, amount : /\ owner = game.properties[game.turn.at].owner
                           /\ amount = calculateRent(game.properties, game.turn.at, game.lastDice.total)
  OBVIOUS
<1>2. "payRent" \in CommandKinds
  BY DEF CommandKinds
<1>3. CASE Commit("payRent", RequireBankruptcy(game), <<>>)
  BY <1>2, <1>3, BankruptcyRequiredOK
<1>4. CASE Commit("payRent", [PassRent(owner, amount) EXCEPT !.turn = phaseAfterResolvedAction],
                  <<RentPaid(Current, owner, game.turn.at, amount)>>)
  <2>1. PICK next : next = [PassRent(owner, amount) EXCEPT !.turn = phaseAfterResolvedAction]
    OBVIOUS
  <2>2. PICK events : events = <<RentPaid(Current, owner, game.turn.at, amount)>>
    OBVIOUS
  <2>3. owner \in Seats
    BY <1>1 DEF payRent, ActiveSeats
  <2>4. Current \in Seats
    BY DEF payRent, PlayerTurn, MatchOK, hydrateTurn, Turn, Current
  <2>5. Shape(game)
    BY GameShape
  <2>6. /\ DOMAIN next = FieldNames /\ next.lifecycle = game.lifecycle
        /\ next.properties = game.properties /\ next.activeTrades = game.activeTrades
        /\ next.players = [s \in Seats |-> next.players[s]]
    BY <2>1, <2>5 DEF PassRent, Shape, FieldNames
  <2>7. Shape(next)
    BY <2>5, <2>6 DEF Shape
  <2>8. ASSUME MatchOK', Stored(next, events)
        PROVE  Consented /\ Matched
    <3>1. Consented
      BY <2>6, <2>8 DEF Consented, Stored
    <3>2. amount \in Nat
      BY <2>2, <2>8, RentIsNatural DEF Stored
    <3>3. /\ game.players[Current] \in Player /\ game.players[owner] \in Player
          /\ game.players[Current].cash \in Nat /\ game.players[owner].cash \in Nat
      <4>1. game.players \in [Seats -> Player]
        BY DEF MatchOK
      <4>2. game.players[Current] \in Player /\ game.players[owner] \in Player
        BY <2>3, <2>4, <4>1
      <4>3. \A row \in Player : row.cash \in Nat
        BY LimitsAssumption DEF Player
      <4>4. QED
        BY <4>2, <4>3
    <3>4. \A s \in Seats \ {Current, owner} : next.players[s] = game.players[s]
      BY <2>1, <2>5 DEF PassRent, Shape, FieldNames
    <3>5. CASE Current = owner
      <4>1. \A s \in Seats \ {Current} : game'.players[s].cash = game.players[s].cash
        BY <2>8, <3>4, <3>5 DEF Stored
      <4>2. QED
        BY <3>1, <4>1 DEF Matched
    <3>6. CASE Current # owner
      <4>1. /\ next.players[Current].cash = game.players[Current].cash - amount
            /\ next.players[owner].cash = game.players[owner].cash + amount
        BY <2>1, <2>3, <2>4, <2>5, <3>3, <3>6 DEF PassRent, Me, Shape, FieldNames, Player
      <4>2. game'.players[Current].cash + game'.players[owner].cash =
              game.players[Current].cash + game.players[owner].cash
        BY <2>8, <3>2, <3>3, <4>1 DEF Stored
      <4>3. \A s \in Seats \ {Current, owner} : game'.players[s].cash = game.players[s].cash
        BY <2>8, <3>4 DEF Stored
      <4>4. Matched
        BY <2>3, <2>4, <2>8, <3>6, <4>2, <4>3, TransferMatched
      <4>5. QED
        BY <3>1, <4>4
    <3>7. QED
      BY <3>5, <3>6
  <2>9. Commit("payRent", next, events)
    BY <1>4, <2>1, <2>2
  <2>10. QED
    BY <1>2, <2>7, <2>8, <2>9, CommitOK
<1>5. QED
  BY <1>1, <1>3, <1>4 DEF payRent

-----------------------------------------------------------------------------
(* The end of a player or of the match *)

(* g is the match without the current player. *)
Eliminated(g) ==
  /\ DOMAIN g = FieldNames /\ g.lifecycle = game.lifecycle
  /\ g.players = [s \in Seats |-> g.players[s]] /\ g.players[Current].status = "eliminated"
  /\ \A s \in Seats \ {Current} : g.players[s] = game.players[s]
  /\ g.properties = [p \in Positions |-> g.properties[p]]
  /\ \A p \in Positions : game.properties[p].owner \in {Current, g.properties[p].owner}

LEMMA ResolveEliminates ==
  ASSUME MatchOK, Current \in Seats, NEW g, DOMAIN g = FieldNames, g.lifecycle = game.lifecycle,
         g.properties = game.properties, g.players = [s \in Seats |-> g.players[s]],
         DOMAIN g.players[Current] = DOMAIN game.players[Current],
         \A s \in Seats \ {Current} : g.players[s] = game.players[s]
  PROVE  Eliminated(resolveBankruptcy(g, Current))
<1>1. PICK resolved : resolved = resolveBankruptcy(g, Current)
  OBVIOUS
<1>2. Shape(game)
  BY GameShape
<1>3. /\ DOMAIN resolved = FieldNames /\ resolved.lifecycle = game.lifecycle
      /\ resolved.players = [g.players EXCEPT ![Current] =
           [@ EXCEPT !.status = "eliminated", !.cash = 0, !.position = 0, !.inJail = FALSE,
                     !.jailTurns = 0, !.consecutiveDoubles = 0, !.getOutOfJailCards = 0]]
      /\ resolved.properties = [p \in Positions |->
           IF p \in ownedPropertyPositions(g.properties, Current)
             THEN [owner |-> None, houses |-> 0, hasHotel |-> FALSE] ELSE g.properties[p]]
  BY <1>1 DEF resolveBankruptcy, FieldNames
<1>4. "status" \in DOMAIN g.players[Current]
  <2>1. game.players[Current] \in Player
    BY DEF MatchOK
  <2>2. QED
    BY <2>1 DEF Player
<1>5. /\ resolved.players = [s \in Seats |-> resolved.players[s]]
      /\ resolved.players[Current].status = "eliminated"
      /\ \A s \in Seats \ {Current} : resolved.players[s] = game.players[s]
  BY <1>3, <1>4
<1>6. /\ resolved.properties = [p \in Positions |-> resolved.properties[p]]
      /\ \A p \in Positions : game.properties[p].owner \in {Current, resolved.properties[p].owner}
  BY <1>3 DEF ownedPropertyPositions
<1>7. QED
  BY <1>1, <1>3, <1>5, <1>6 DEF Eliminated

(* The trades the eliminated player has no part in, of the first n. *)
KeptBody(seat, f, i) ==
  IF i = 0 THEN <<>>
  ELSE LET t == game.activeTrades[i] IN
       IF seat \in {t.proposer, t.receiver} THEN f[i - 1] ELSE Append(f[i - 1], t)
IsKept(seat, f, n) == f = [i \in 0 .. n |-> KeptBody(seat, f, i)]

LEMMA KeptExists ==
  ASSUME NEW seat, NEW n \in Nat
  PROVE  \E f : IsKept(seat, f, n)
<1> DEFINE Bad == {k \in Nat : ~\E f : IsKept(seat, f, k)}
<1>1. SUFFICES ASSUME Bad # {} PROVE FALSE
  OBVIOUS
<1>2. PICK m \in Bad : \A k \in Bad : m <= k
  BY <1>1, LeastElement
<1>3. CASE m = 0
  <2>1. PICK f : f = [i \in 0 .. 0 |-> <<>>]
    OBVIOUS
  <2>2. f = [i \in 0 .. 0 |-> KeptBody(seat, f, i)]
    BY <2>1 DEF KeptBody
  <2>3. QED
    BY <1>2, <1>3, <2>2 DEF IsKept
<1>4. CASE m # 0
  <2>1. m - 1 \in Nat /\ m - 1 \notin Bad
    BY <1>2, <1>4
  <2>2. PICK g : IsKept(seat, g, m - 1)
    BY <2>1
  <2>3. PICK f : f = [i \in 0 .. m |-> KeptBody(seat, g, i)]
    OBVIOUS
  <2>4. \A i \in 0 .. m - 1 : g[i] = KeptBody(seat, g, i)
    BY <2>2 DEF IsKept
  <2>5. \A i \in 0 .. m - 1 : f[i] = g[i]
    BY <2>1, <2>3, <2>4
  <2>6. ASSUME NEW i \in 0 .. m
        PROVE  KeptBody(seat, g, i) = KeptBody(seat, f, i)
    <3>1. CASE i = 0
      BY <3>1 DEF KeptBody
    <3>2. CASE i # 0
      <4>1. f[i - 1] = g[i - 1]
        BY <2>5, <3>2
      <4>2. QED
        BY <4>1 DEF KeptBody
    <3>3. QED
      BY <3>1, <3>2
  <2>7. f = [i \in 0 .. m |-> KeptBody(seat, f, i)]
    BY <2>3, <2>6
  <2>8. QED
    BY <1>2, <2>7 DEF IsKept
<1>5. QED
  BY <1>3, <1>4

LEMMA KeptTrades ==
  ASSUME MatchOK, NEW seat
  PROVE  /\ TradesWithout(seat) \in Seq(Trade)
         /\ Len(TradesWithout(seat)) <= GAMEPLAY_POLICY.maximumActiveTrades
<1>1. PICK n \in Nat : n = Len(game.activeTrades)
  BY DEF MatchOK
<1>2. PICK f : f = CHOOSE g : IsKept(seat, g, n)
  OBVIOUS
<1>3. IsKept(seat, f, n)
  BY <1>2, KeptExists, Zenon
<1>4. TradesWithout(seat) = f[n]
  BY <1>1, <1>2 DEF TradesWithout, IsKept, KeptBody
<1>5. \A i \in 0 .. n : f[i] = KeptBody(seat, f, i)
  BY <1>3 DEF IsKept
<1>6. \A i \in 1 .. n : game.activeTrades[i] \in Trade
  BY <1>1 DEF MatchOK
<1> DEFINE Good(i) == f[i] \in Seq(Trade) /\ Len(f[i]) <= i
           Bad == {i \in 0 .. n : ~Good(i)}
<1>7. Bad \in SUBSET Nat
  OBVIOUS
<1> HIDE DEF Good, Bad
<1>8. ASSUME Bad # {} PROVE FALSE
  <2>1. PICK m \in Bad : \A k \in Bad : m <= k
    BY <1>8, <1>7, LeastElement
  <2>2. f[m] = KeptBody(seat, f, m)
    BY <1>5, <2>1 DEF Bad
  <2>3. CASE m = 0
    <3>1. f[m] = <<>>
      BY <2>2, <2>3 DEF KeptBody
    <3>2. Good(m)
      BY <2>3, <3>1 DEF Good
    <3>3. QED
      BY <2>1, <3>2 DEF Bad
  <2>4. CASE m # 0
    <3>1. m - 1 \in 0 .. n /\ m \in 1 .. n /\ m - 1 \notin Bad
      BY <2>1, <2>4 DEF Bad
    <3>2. PICK before : before = f[m - 1]
      OBVIOUS
    <3>3. before \in Seq(Trade) /\ Len(before) <= m - 1
      BY <3>1, <3>2 DEF Bad, Good
    <3>4. PICK t \in Trade : t = game.activeTrades[m]
      BY <1>6, <3>1
    <3>5. f[m] \in {before, Append(before, t)}
      BY <2>2, <2>4, <3>2, <3>4 DEF KeptBody
    <3>6. Append(before, t) \in Seq(Trade) /\ Len(Append(before, t)) = Len(before) + 1
      BY <3>3
    <3>7. Good(m)
      <4>1. CASE f[m] = before
        BY <3>1, <3>3, <4>1 DEF Good
      <4>2. CASE f[m] = Append(before, t)
        <5>1. Len(before) \in Nat
          BY <3>3
        <5>2. QED
          BY <3>1, <3>3, <3>6, <4>2, <5>1 DEF Good
      <4>3. QED
        BY <3>5, <4>1, <4>2
    <3>8. QED
      BY <2>1, <3>7 DEF Bad
  <2>5. QED
    BY <2>3, <2>4
<1>9. Good(n)
  BY <1>8 DEF Bad
<1>10. GAMEPLAY_POLICY.maximumActiveTrades \in Nat
  BY PolicyAssumption
<1>11. QED
  BY <1>1, <1>4, <1>9, <1>10 DEF MatchOK, Good

(* The match after an elimination is stored: what was taken was the        *)
(* eliminated player's.                                                    *)
LEMMA EliminationOK ==
  ASSUME MatchOK, NEW kind \in CommandKinds, NEW g, NEW reason, NEW events, Eliminated(g),
         Commit(kind, ContinueOrFinish(g, reason), events)
  PROVE  StepOK
<1>1. PICK next : next = ContinueOrFinish(g, reason)
  OBVIOUS
<1>2. /\ DOMAIN next = FieldNames /\ next.lifecycle \in {game.lifecycle, "finished"}
      /\ next.players = g.players /\ next.properties = g.properties
      /\ next.activeTrades \in {<<>>, TradesWithout(Current)}
  <2>1. CASE endConditionMet(g)
    <3>1. next = finishState(g, reason)
      BY <1>1, <2>1 DEF ContinueOrFinish
    <3>2. QED
      BY <3>1 DEF finishState, Eliminated, FieldNames
  <2>2. CASE ~endConditionMet(g)
    BY <1>1, <2>2 DEF ContinueOrFinish, Eliminated, FieldNames
  <2>3. QED
    BY <2>1, <2>2
<1>3. /\ next.activeTrades \in Seq(Trade)
      /\ Len(next.activeTrades) <= GAMEPLAY_POLICY.maximumActiveTrades
  <2>1. /\ TradesWithout(Current) \in Seq(Trade)
        /\ Len(TradesWithout(Current)) <= GAMEPLAY_POLICY.maximumActiveTrades
    BY KeptTrades
  <2>2. <<>> \in Seq(Trade) /\ Len(<<>>) <= GAMEPLAY_POLICY.maximumActiveTrades
    BY PolicyAssumption
  <2>3. QED
    BY <1>2, <2>1, <2>2
<1>4. game.lifecycle \in {"inProgress", "finished"}
  BY DEF MatchOK
<1>5. Shape(next)
  BY <1>2, <1>3, <1>4 DEF Shape, Eliminated
<1>6. ASSUME MatchOK', Stored(next, events)
      PROVE  Consented /\ Matched
  <2>1. \A p \in Positions : game.properties[p].owner \in {Current, game'.properties[p].owner}
    BY <1>2, <1>6 DEF Stored, Eliminated
  <2>2. game'.players[Current].status = "eliminated"
    BY <1>2, <1>6 DEF Stored, Eliminated
  <2>3. Consented
    BY <2>1, <2>2 DEF Consented
  <2>4. \A s \in Seats \ {Current} : game'.players[s].cash = game.players[s].cash
    BY <1>2, <1>6 DEF Stored, Eliminated
  <2>5. Matched
    BY <2>4 DEF Matched
  <2>6. QED
    BY <2>3, <2>5
<1>7. QED
  BY <1>1, <1>5, <1>6, CommitOK

LEMMA CurrentIsSeated ==
  ASSUME MatchOK, game.turn.phase # "finished"
  PROVE  Current \in Seats /\ game.players[Current] \in Player
BY DEF MatchOK, hydrateTurn, Turn, Current

LEMMA DeclareBankruptcyOK ==
  ASSUME MatchOK, declareBankruptcy
  PROVE  StepOK
<1>1. PICK events :
        Commit("declareBankruptcy", ContinueOrFinish(resolveBankruptcy(game, Current), "lastPlayerStanding"), events)
  BY DEF declareBankruptcy
<1>2. Current \in Seats
  BY CurrentIsSeated DEF declareBankruptcy, PlayerTurn
<1>3. Eliminated(resolveBankruptcy(game, Current))
  BY <1>2, GameShape, ResolveEliminates DEF Shape
<1>4. "declareBankruptcy" \in CommandKinds
  BY DEF CommandKinds
<1>5. QED
  BY <1>1, <1>3, <1>4, EliminationOK

LEMMA ForfeitOK ==
  ASSUME MatchOK, Current \in Seats, NEW missed,
         missed = [game EXCEPT !.players[Current].missedTurns = @ + 1], Forfeit(missed)
  PROVE  StepOK
<1>1. PICK events :
        Commit("handleTurnTimeout", ContinueOrFinish(resolveBankruptcy(missed, Current), "timeoutForfeit"), events)
  BY DEF Forfeit
<1>2. Shape(game)
  BY GameShape
<1>3. /\ DOMAIN missed = FieldNames /\ missed.lifecycle = game.lifecycle
      /\ missed.properties = game.properties /\ missed.players = [s \in Seats |-> missed.players[s]]
      /\ \A s \in Seats \ {Current} : missed.players[s] = game.players[s]
      /\ DOMAIN missed.players[Current] = DOMAIN game.players[Current]
  BY <1>2 DEF Shape, FieldNames
<1>4. Eliminated(resolveBankruptcy(missed, Current))
  BY <1>3, ResolveEliminates
<1>5. "handleTurnTimeout" \in CommandKinds
  BY DEF CommandKinds
<1>6. QED
  BY <1>1, <1>4, <1>5, EliminationOK

LEMMA MissTurnOK ==
  ASSUME MatchOK, NEW missed,
         missed = [game EXCEPT !.players[Current].missedTurns = @ + 1], MissTurn(missed)
  PROVE  StepOK
<1>1. PICK next : next = [missed EXCEPT !.turn = advanceGameplayTurn, !.lastDice = None]
  OBVIOUS
<1>2. OwnRow(next)
  BY <1>1, GameFields DEF OwnRow, FieldNames
<1>3. PICK events : Commit("handleTurnTimeout", next, events)
  BY <1>1 DEF MissTurn
<1>4. "handleTurnTimeout" \in CommandKinds
  BY DEF CommandKinds
<1>5. QED
  BY <1>2, <1>3, <1>4, RowCommit

(* A match that ends keeps its rows and properties. *)
LEMMA EnforceGameTimeLimitOK ==
  ASSUME MatchOK, enforceGameTimeLimit
  PROVE  StepOK
<1>1. PICK next : next = finishState(game, "timeLimit")
  OBVIOUS
<1>2. PICK events : Commit("enforceGameTimeLimit", next, events)
  BY <1>1 DEF enforceGameTimeLimit
<1>3. Shape(game)
  BY GameShape
<1>4. <<>> \in Seq(Trade) /\ Len(<<>>) <= GAMEPLAY_POLICY.maximumActiveTrades
  BY PolicyAssumption
<1>5. /\ DOMAIN next = FieldNames /\ next.lifecycle = "finished" /\ next.activeTrades = <<>>
      /\ next.players = game.players /\ next.properties = game.properties
  BY <1>1, <1>3 DEF finishState, Shape, FieldNames
<1>6. Own(next)
  BY <1>3, <1>4, <1>5 DEF Own, Shape
<1>7. "enforceGameTimeLimit" \in CommandKinds
  BY DEF CommandKinds
<1>8. QED
  BY <1>2, <1>6, <1>7, OwnCommit

LEMMA HandleTurnTimeoutOK ==
  ASSUME MatchOK, handleTurnTimeout
  PROVE  StepOK
<1>1. PICK missed : /\ missed = [game EXCEPT !.players[Current].missedTurns = @ + 1]
                    /\ MissTurn(missed) \/ Forfeit(missed)
  BY DEF handleTurnTimeout
<1>2. game.lifecycle = "inProgress"
  BY DEF handleTurnTimeout, TimerRuns, InProgress
<1>3. Current \in Seats
  BY <1>2, CurrentIsSeated DEF MatchOK, hydrateTurn
<1>4. QED
  BY <1>1, <1>3, MissTurnOK, ForfeitOK

-----------------------------------------------------------------------------
(* Trades *)

LEMMA DroppedTrades ==
  ASSUME NEW T, NEW list \in Seq(T), NEW k \in 0 .. Len(list)
  PROVE  Drop(k, list) \in Seq(T) /\ Len(Drop(k, list)) = Len(list) - k
BY SubSeqProperties DEF Drop

(* A command that only changes which trades wait. *)
LEMMA TradesCommit ==
  ASSUME MatchOK, NEW kind \in CommandKinds, NEW list, NEW events, list \in Seq(Trade),
         Len(list) <= GAMEPLAY_POLICY.maximumActiveTrades,
         Commit(kind, [game EXCEPT !.activeTrades = list], events)
  PROVE  StepOK
<1>1. PICK next : next = [game EXCEPT !.activeTrades = list]
  OBVIOUS
<1>2. Shape(game)
  BY GameShape
<1>3. /\ DOMAIN next = FieldNames /\ next.lifecycle = game.lifecycle
      /\ next.players = game.players /\ next.properties = game.properties
      /\ next.activeTrades = list
  BY <1>1, <1>2 DEF Shape, FieldNames
<1>4. Own(next)
  BY <1>2, <1>3 DEF Own, Shape
<1>5. QED
  BY <1>1, <1>4, OwnCommit

LEMMA CreateTradeOK ==
  ASSUME MatchOK, NEW proposer \in Seats, NEW receiver \in Seats, NEW terms \in TradeTerms,
         proposer # receiver, createTrade(proposer, receiver, terms)
  PROVE  StepOK
<1>1. PICK trade : trade = [proposer |-> proposer, receiver |-> receiver, terms |-> terms]
  OBVIOUS
<1>2. trade \in Trade
  BY <1>1 DEF Trade
<1>3. PICK k, events :
        /\ k \in 0 .. Len(game.activeTrades) /\ HasSlot(Drop(k, game.activeTrades))
        /\ Commit("createTrade", [game EXCEPT !.activeTrades = Append(Drop(k, game.activeTrades), trade)],
                  events)
  BY <1>1 DEF createTrade
<1>4. PICK kept : kept = Drop(k, game.activeTrades)
  OBVIOUS
<1>5. game.activeTrades \in Seq(Trade)
  BY DEF MatchOK
<1>6. kept \in Seq(Trade) /\ Len(kept) < GAMEPLAY_POLICY.maximumActiveTrades
  <2>1. kept \in Seq(Trade)
    BY <1>3, <1>4, <1>5, DroppedTrades
  <2>2. QED
    BY <1>3, <1>4, <2>1 DEF HasSlot
<1>7. PICK list : list = Append(kept, trade)
  OBVIOUS
<1>8. list \in Seq(Trade) /\ Len(list) <= GAMEPLAY_POLICY.maximumActiveTrades
  <2>1. PICK most \in Nat : most = GAMEPLAY_POLICY.maximumActiveTrades
    BY PolicyAssumption
  <2>2. list \in Seq(Trade) /\ Len(list) = Len(kept) + 1
    BY <1>2, <1>6, <1>7, AppendProperties
  <2>3. PICK n \in Nat : n = Len(kept)
    BY <1>6
  <2>4. QED
    BY <1>6, <2>1, <2>2, <2>3
<1>9. "createTrade" \in CommandKinds
  BY DEF CommandKinds
<1>10. Commit("createTrade", [game EXCEPT !.activeTrades = list], events)
  BY <1>3, <1>4, <1>7
<1>11. QED
  BY <1>8, <1>9, <1>10, TradesCommit

LEMMA RemainingTrades ==
  ASSUME MatchOK, NEW i \in DOMAIN game.activeTrades, NEW k \in 0 .. i - 1
  PROVE  Remaining(k, i) \in Seq(Trade) /\ Len(Remaining(k, i)) < Len(game.activeTrades)
<1>1. PICK list \in Seq(Trade) : list = game.activeTrades
  BY DEF MatchOK
<1>2. i \in 1 .. Len(list)
  BY <1>1
<1>3. PICK before : before = SubSeq(list, 1, i - 1)
  OBVIOUS
<1>4. before \in Seq(Trade) /\ Len(before) = i - 1
  BY <1>2, <1>3, SubSeqProperties
<1>5. PICK front, back : front = Drop(k, before) /\ back = Drop(i, list)
  OBVIOUS
<1>6. /\ front \in Seq(Trade) /\ Len(front) = i - 1 - k
      /\ back \in Seq(Trade) /\ Len(back) = Len(list) - i
  <2>1. k \in 0 .. Len(before) /\ i \in 0 .. Len(list)
    BY <1>2, <1>4
  <2>2. front \in Seq(Trade) /\ Len(front) = Len(before) - k
    BY <1>4, <1>5, <2>1, DroppedTrades
  <2>3. back \in Seq(Trade) /\ Len(back) = Len(list) - i
    BY <1>5, <2>1, DroppedTrades
  <2>4. QED
    BY <1>4, <2>2, <2>3
<1>7. front \o back \in Seq(Trade) /\ Len(front \o back) = Len(front) + Len(back)
  BY <1>6, ConcatProperties
<1>8. Remaining(k, i) = front \o back
  BY <1>1, <1>3, <1>5 DEF Remaining
<1>9. QED
  BY <1>1, <1>2, <1>6, <1>7, <1>8

LEMMA RemainingFits ==
  ASSUME MatchOK, NEW list \in Seq(Trade), Len(list) < Len(game.activeTrades)
  PROVE  Len(list) <= GAMEPLAY_POLICY.maximumActiveTrades
<1>1. game.activeTrades \in Seq(Trade) /\ Len(game.activeTrades) <= GAMEPLAY_POLICY.maximumActiveTrades
  BY DEF MatchOK
<1>2. PICK most \in Nat : most = GAMEPLAY_POLICY.maximumActiveTrades
  BY PolicyAssumption
<1>3. PICK n \in Nat : n = Len(game.activeTrades)
  BY <1>1
<1>4. QED
  BY <1>1, <1>2, <1>3

LEMMA RemoveTradeOK ==
  ASSUME MatchOK, NEW kind \in CommandKinds, NEW actor, NEW i \in DOMAIN game.activeTrades, NEW type,
         removeTrade(kind, actor, i, type)
  PROVE  StepOK
<1>1. PICK k, events :
        /\ k \in 0 .. i - 1
        /\ Commit(kind, [game EXCEPT !.activeTrades = Remaining(k, i)], events)
  BY DEF removeTrade
<1>2. PICK list : list = Remaining(k, i)
  OBVIOUS
<1>3. list \in Seq(Trade) /\ Len(list) < Len(game.activeTrades)
  BY <1>1, <1>2, RemainingTrades
<1>4. Len(list) <= GAMEPLAY_POLICY.maximumActiveTrades
  BY <1>3, RemainingFits
<1>5. QED
  BY <1>1, <1>2, <1>3, <1>4, TradesCommit

LEMMA CleanupExpiredTradesOK ==
  ASSUME MatchOK, cleanupExpiredTrades
  PROVE  StepOK
<1>1. PICK k, events :
        /\ k \in 1 .. Len(game.activeTrades)
        /\ Commit("cleanupExpiredTrades", [game EXCEPT !.activeTrades = Drop(k, game.activeTrades)], events)
  BY DEF cleanupExpiredTrades
<1>2. PICK list : list = Drop(k, game.activeTrades)
  OBVIOUS
<1>3. game.activeTrades \in Seq(Trade) /\ k \in 1 .. Len(game.activeTrades)
  BY <1>1 DEF MatchOK
<1>4. list \in Seq(Trade) /\ Len(list) = Len(game.activeTrades) - k
  <2>1. k \in 0 .. Len(game.activeTrades)
    BY <1>3
  <2>2. QED
    BY <1>2, <1>3, <2>1, DroppedTrades
<1>5. Len(list) <= GAMEPLAY_POLICY.maximumActiveTrades
  BY <1>3, <1>4, PolicyAssumption, SMTT(30) DEF MatchOK
<1>6. "cleanupExpiredTrades" \in CommandKinds
  BY DEF CommandKinds
<1>7. QED
  BY <1>1, <1>2, <1>4, <1>5, <1>6, TradesCommit

(* What an accepted trade makes of the properties. *)
Swapped(g, trade) ==
  [p \in Positions |->
     IF p = trade.terms.offeredProperty THEN [g.properties[p] EXCEPT !.owner = trade.receiver]
     ELSE IF p = trade.terms.requestedProperty THEN [g.properties[p] EXCEPT !.owner = trade.proposer]
     ELSE g.properties[p]]

LEMMA AcceptTradeOK ==
  ASSUME MatchOK, NEW i \in DOMAIN game.activeTrades, acceptTrade(i)
  PROVE  StepOK
<1>1. PICK trade \in Trade : trade = game.activeTrades[i]
  BY DEF MatchOK
<1>2. PICK a \in Seats, b \in Seats, terms \in Terms :
        a = trade.proposer /\ b = trade.receiver /\ terms = trade.terms /\ a # b
  BY TermsAssumption DEF Trade
<1>3. PICK offered, requested : offered = terms.offeredCash /\ requested = terms.requestedCash
  OBVIOUS
<1>4. offered \in Int /\ requested \in Int
  BY <1>3 DEF Terms
<1>5. PICK k, events :
        /\ k \in 0 .. i - 1
        /\ Commit("acceptTrade",
             [game EXCEPT !.players[a].cash = game.players[a].cash - offered + requested,
                          !.players[b].cash = game.players[b].cash - requested + offered,
                          !.properties = Swapped(game, trade),
                          !.activeTrades = Remaining(k, i)], events)
  BY <1>1, <1>2, <1>3 DEF acceptTrade, Swapped
<1>6. PICK next : next =
        [game EXCEPT !.players[a].cash = game.players[a].cash - offered + requested,
                     !.players[b].cash = game.players[b].cash - requested + offered,
                     !.properties = Swapped(game, trade),
                     !.activeTrades = Remaining(k, i)]
  OBVIOUS
<1>7. Shape(game)
  BY GameShape
<1>8. /\ DOMAIN next = FieldNames /\ next.lifecycle = game.lifecycle
      /\ next.properties = Swapped(game, trade) /\ next.activeTrades = Remaining(k, i)
      /\ next.players = [s \in Seats |-> next.players[s]]
      /\ \A s \in Seats \ {a, b} : next.players[s] = game.players[s]
  BY <1>6, <1>7 DEF Shape, FieldNames
<1>9. Remaining(k, i) \in Seq(Trade) /\ Len(Remaining(k, i)) < Len(game.activeTrades)
  BY <1>5, RemainingTrades
<1>10. Len(Remaining(k, i)) <= GAMEPLAY_POLICY.maximumActiveTrades
  BY <1>9, RemainingFits
<1>11. next.properties = [p \in Positions |-> next.properties[p]]
  BY <1>8 DEF Swapped
<1>12. Shape(next)
  BY <1>7, <1>8, <1>9, <1>10, <1>11 DEF Shape
<1>13. ASSUME MatchOK', Stored(next, events)
       PROVE  Consented /\ Matched
  <2>1. Consented
    <3>1. ASSUME NEW p \in Positions, game.properties[p].owner \notin {None, game'.properties[p].owner}
          PROVE  \/ p = terms.offeredProperty /\ game.properties[p].owner = a
                    /\ game'.properties[p].owner = b
                 \/ p = terms.requestedProperty /\ game.properties[p].owner = b
                    /\ game'.properties[p].owner = a
      <4>1. p # None
        BY PolicyAssumption
      <4>2. game'.properties[p] = Swapped(game, trade)[p] /\ game.properties[p] \in Property
        BY <1>8, <1>13 DEF Stored, MatchOK
      <4>3. /\ p = terms.offeredProperty => game.properties[p].owner = a
            /\ p = terms.requestedProperty => game.properties[p].owner = b
        <5>1. validateProperty(terms.offeredProperty, a) /\ validateProperty(terms.requestedProperty, b)
          BY <1>1, <1>2 DEF acceptTrade
        <5>2. QED
          BY <4>1, <5>1 DEF validateProperty
      <4>4. PICK property \in Property : property = game.properties[p]
        BY <4>2
      <4>5. /\ [property EXCEPT !.owner = a].owner = a
            /\ [property EXCEPT !.owner = b].owner = b
        BY <4>4 DEF Property
      <4>6. CASE p = terms.offeredProperty
        <5>1. game'.properties[p] = [property EXCEPT !.owner = b]
          BY <1>2, <4>2, <4>4, <4>6 DEF Swapped
        <5>2. QED
          BY <4>3, <4>5, <4>6, <5>1
      <4>7. CASE p # terms.offeredProperty /\ p = terms.requestedProperty
        <5>1. game'.properties[p] = [property EXCEPT !.owner = a]
          BY <1>2, <4>2, <4>4, <4>7 DEF Swapped
        <5>2. QED
          BY <4>3, <4>5, <4>7, <5>1
      <4>8. CASE p # terms.offeredProperty /\ p # terms.requestedProperty
        <5>1. game'.properties[p] = game.properties[p]
          BY <1>2, <4>2, <4>8 DEF Swapped
        <5>2. QED
          BY <3>1, <5>1
      <4>9. QED
        BY <4>6, <4>7, <4>8
    <3>2. Len(game'.activeTrades) < Len(game.activeTrades)
      BY <1>8, <1>9, <1>13 DEF Stored
    <3>3. QED
      BY <1>1, <1>2, <3>1, <3>2 DEF Consented
  <2>2. game.players[a] \in Player /\ game.players[b] \in Player
    BY DEF MatchOK
  <2>3. /\ next.players[a].cash = game.players[a].cash - offered + requested
        /\ next.players[b].cash = game.players[b].cash - requested + offered
    BY <1>2, <1>6, <1>7, <2>2 DEF Shape, FieldNames, Player
  <2>4. game.players[a].cash \in Int /\ game.players[b].cash \in Int
    BY <2>2 DEF Player
  <2>5. game'.players[a].cash + game'.players[b].cash = game.players[a].cash + game.players[b].cash
    BY <1>4, <1>13, <2>3, <2>4 DEF Stored
  <2>6. \A s \in Seats \ {a, b} : game'.players[s].cash = game.players[s].cash
    BY <1>8, <1>13 DEF Stored
  <2>7. Matched
    BY <1>2, <1>13, <2>5, <2>6, TransferMatched
  <2>8. QED
    BY <2>1, <2>7
<1>14. Commit("acceptTrade", next, events) /\ "acceptTrade" \in CommandKinds
  BY <1>5, <1>6 DEF CommandKinds
<1>15. QED
  BY <1>12, <1>13, <1>14, CommitOK

LEMMA TradingOK ==
  ASSUME MatchOK, Trading
  PROVE  StepOK
<1>1. CASE \E proposer, receiver \in Seats, terms \in TradeTerms :
             proposer # receiver /\ createTrade(proposer, receiver, terms)
  BY <1>1, CreateTradeOK
<1>2. ASSUME NEW i \in DOMAIN game.activeTrades, acceptTrade(i) \/ rejectTrade(i) \/ cancelTrade(i)
      PROVE  StepOK
  <2>1. {"rejectTrade", "cancelTrade"} \subseteq CommandKinds
    BY DEF CommandKinds
  <2>2. CASE acceptTrade(i)
    BY <2>2, AcceptTradeOK
  <2>3. CASE rejectTrade(i)
    <3>1. PICK actor, type : removeTrade("rejectTrade", actor, i, type)
      BY <2>3 DEF rejectTrade
    <3>2. QED
      BY <2>1, <3>1, RemoveTradeOK
  <2>4. CASE cancelTrade(i)
    <3>1. PICK actor, type : removeTrade("cancelTrade", actor, i, type)
      BY <2>4 DEF cancelTrade
    <3>2. QED
      BY <2>1, <3>1, RemoveTradeOK
  <2>5. QED
    BY <1>2, <2>2, <2>3, <2>4
<1>3. QED
  BY <1>1, <1>2 DEF Trading

-----------------------------------------------------------------------------
(* The match *)

LEMMA InitialMatch ==
  ASSUME game = initializeGameplayAggregate, timeUp = FALSE, silent = FALSE
  PROVE  MatchOK
<1>1. 0 \in Positions /\ 0 \in Seats
  BY PolicyAssumption, SeatsAssumption DEF Positions
<1>2. game.players \in [Seats -> Player]
  <2>1. PICK player : player =
          [status |-> "active", cash |-> GAMEPLAY_POLICY.startingMatchCash, position |-> 0,
           inJail |-> FALSE, jailTurns |-> 0, consecutiveDoubles |-> 0, missedTurns |-> 0,
           getOutOfJailCards |-> 0]
    OBVIOUS
  <2>2. player \in Player
    BY <1>1, <2>1, PolicyAssumption DEF Player
  <2>3. game.players = [s \in Seats |-> player]
    BY <2>1 DEF initializeGameplayAggregate
  <2>4. QED
    BY <2>2, <2>3
<1>3. game.properties \in [Positions -> Property]
  BY PolicyAssumption DEF initializeGameplayAggregate, Property
<1>4. hydrateTurn(game.turn, game.lifecycle)
  BY <1>1 DEF initializeGameplayAggregate, hydrateTurn, Turn, PendingPhases
<1>5. /\ game.lifecycle = "inProgress" /\ game.stateVersion = 1 /\ game.bankCash = GAMEPLAY_POLICY.startingBankCash
      /\ game.housesRemaining = GAMEPLAY_POLICY.totalHouses /\ game.activeTrades = <<>>
      /\ game.hotelsRemaining = GAMEPLAY_POLICY.totalHotels
      /\ game.bankruptcyRequired = None /\ game.lastDice = None /\ game.terminal = None
  BY DEF initializeGameplayAggregate
<1>6. /\ game.stateVersion \in 1 .. MAX_STATE_VERSION /\ game.bankCash \in 0 .. MAX_MATCH_CASH
      /\ game.housesRemaining \in Nat /\ game.hotelsRemaining \in Nat
  BY <1>5, PolicyAssumption, LimitsAssumption
<1>7. <<>> \in Seq(Trade) /\ Len(<<>>) <= GAMEPLAY_POLICY.maximumActiveTrades
  BY PolicyAssumption
<1>8. hydrateDice(game.lastDice)
  BY <1>5 DEF hydrateDice
<1>9. QED
  BY <1>2, <1>3, <1>4, <1>5, <1>6, <1>7, <1>8 DEF MatchOK

LEMMA NextOK ==
  ASSUME MatchOK, Next
  PROVE  StepOK
<1>1. CASE rollDice
  BY <1>1, RollDiceOK
<1>2. CASE endTurn
  BY <1>2, EndTurnOK
<1>3. CASE buyProperty
  BY <1>3, BuyPropertyOK
<1>4. CASE declineProperty
  BY <1>4, DeclinePropertyOK
<1>5. CASE payRent
  BY <1>5, PayRentOK
<1>6. CASE payMevTax
  BY <1>6, PayMevTaxOK
<1>7. CASE payPriorityFeeTax
  BY <1>7, PayTaxOK DEF payPriorityFeeTax
<1>8. CASE Building
  BY <1>8, BuildingOK
<1>9. CASE payJailFine
  BY <1>9, PayJailFineOK
<1>10. CASE useJailCard
  BY <1>10, UseJailCardOK
<1>11. CASE drawCard
  BY <1>11, DrawCardOK
<1>12. CASE declareBankruptcy
  BY <1>12, DeclareBankruptcyOK
<1>13. CASE Trading
  BY <1>13, TradingOK
<1>14. CASE cleanupExpiredTrades
  BY <1>14, CleanupExpiredTradesOK
<1>15. CASE handleTurnTimeout
  BY <1>15, HandleTurnTimeoutOK
<1>16. CASE enforceGameTimeLimit
  BY <1>16, EnforceGameTimeLimitOK
<1>17. CASE TimeLimitReached
  BY <1>17, NothingChanges DEF TimeLimitReached, MatchOK
<1>18. CASE FallSilent
  BY <1>18, NothingChanges DEF FallSilent, MatchOK
<1>19. QED
  BY <1>1, <1>2, <1>3, <1>4, <1>5, <1>6, <1>7, <1>8, <1>9, <1>10, <1>11, <1>12, <1>13, <1>14,
     <1>15, <1>16, <1>17, <1>18 DEF Next

LEMMA TypeStep ==
  ASSUME TypeOK, [Next]_vars
  PROVE  TypeOK'
<1>1. CASE Next
  BY <1>1, NextOK DEF TypeOK, StepOK
<1>2. CASE UNCHANGED vars
  BY <1>2 DEF vars, TypeOK, MatchOK
<1>3. QED
  BY <1>1, <1>2

(* In every match, whatever is rolled, drawn, traded or missed, rows, properties, bank, stock,   *)
(* turn, dice and waiting trades stay in their ranges, no more trades wait than the policy       *)
(* allows, and there is a seat on turn as long as the match is not over.                         *)
THEOREM GameTypeCorrect == Spec => []TypeOK
<1>1. Init => TypeOK
  <2>1. SUFFICES ASSUME Init PROVE TypeOK
    OBVIOUS
  <2>2. MatchOK
    BY <2>1, InitialMatch DEF Init
  <2>3. QED
    BY <2>1, <2>2 DEF Init, TypeOK
<1>2. TypeOK /\ [Next]_vars => TypeOK'
  BY TypeStep
<1>3. QED
  BY <1>1, <1>2, PTL DEF Spec

-----------------------------------------------------------------------------
(* The room: until the start, its aggregate is the one a start makes *)

RoomOK ==
  /\ MatchOK /\ refused \subseteq CommandKinds \cup LifecycleRoomCommand
  /\ lobby # None => game = initializeGameplayAggregate

LEMMA CommitLobbyKeeps ==
  ASSUME RoomOK, lobby # None, NEW type \in LifecycleRoomCommand, NEW actor, NEW next, NEW now,
         NEW attached, CommitLobby(type, actor, next, now, attached)
  PROVE  /\ game' = game /\ UNCHANGED <<timeUp, silent>>
         /\ refused' \subseteq refused \cup LifecycleRoomCommand
BY DEF CommitLobby, Begin, RoomOK

LEMMA LobbyKeeps ==
  ASSUME RoomOK, Admission \/ AdmissionOfSeated \/ Lifecycle \/ Reload
  PROVE  /\ game' = game /\ UNCHANGED <<timeUp, silent>> /\ lobby # None
         /\ refused' \subseteq refused \cup LifecycleRoomCommand
<1>1. CASE Admission
  <2>1. PICK player, next, now, attached :
          lobby # None /\ CommitLobby("joinGame", player, next, now, attached)
    BY <1>1 DEF Admission, ensureAdmittedPlayer, InLobby
  <2>2. "joinGame" \in LifecycleRoomCommand
    BY DEF LifecycleRoomCommand
  <2>3. QED
    BY <2>1, <2>2, CommitLobbyKeeps
<1>2. CASE Lifecycle
  <2>1. PICK actor \in Users, type \in LifecycleRoomCommand : \E next, now, attached :
          lobby # None /\ CommitLobby(type, actor, next, now, attached)
    BY <1>2 DEF Lifecycle, HandleLifecycle, InLobby
  <2>2. QED
    BY <2>1, CommitLobbyKeeps
<1>3. CASE AdmissionOfSeated
  BY <1>3 DEF AdmissionOfSeated, InLobby, vars
<1>4. CASE Reload
  BY <1>4 DEF Reload, vars
<1>5. QED
  BY <1>1, <1>2, <1>3, <1>4

LEMMA RoomStep ==
  ASSUME RoomOK, [RoomNext]_roomVars
  PROVE  RoomOK' /\ [Consented]_vars /\ [Matched]_vars
<1>1. CASE Admission \/ AdmissionOfSeated \/ Lifecycle \/ Reload
  <2>1. /\ game' = game /\ UNCHANGED <<timeUp, silent>> /\ lobby # None
        /\ refused' \subseteq refused \cup LifecycleRoomCommand
    BY <1>1, LobbyKeeps
  <2>2. RoomOK'
    BY <2>1 DEF RoomOK, MatchOK
  <2>3. Consented /\ Matched
    BY <2>1 DEF Consented, Matched
  <2>4. QED
    BY <2>2, <2>3
<1>2. CASE Match
  <2>1. lobby = None /\ Next /\ lobby' = lobby
    BY <1>2 DEF Match
  <2>2. StepOK
    BY <2>1, NextOK DEF RoomOK
  <2>3. RoomOK'
    BY <2>1, <2>2 DEF RoomOK, StepOK
  <2>4. QED
    BY <2>2, <2>3 DEF StepOK
<1>3. CASE UNCHANGED roomVars
  <2>1. RoomOK' /\ UNCHANGED vars
    BY <1>3 DEF roomVars, vars, RoomOK, MatchOK
  <2>2. QED
    BY <2>1
<1>4. QED
  BY <1>1, <1>2, <1>3 DEF RoomNext

LEMMA RoomInvariant == RoomSpec => []RoomOK
<1>1. RoomInit => RoomOK
  <2>1. SUFFICES ASSUME RoomInit PROVE RoomOK
    OBVIOUS
  <2>2. MatchOK
    BY <2>1, InitialMatch DEF RoomInit, Init
  <2>3. QED
    BY <2>1, <2>2 DEF RoomInit, Init, RoomOK
<1>2. RoomOK /\ [RoomNext]_roomVars => RoomOK'
  BY RoomStep
<1>3. QED
  BY <1>1, <1>2, PTL DEF RoomSpec

(* In every room, from the waiting room on: nobody loses a property but by his own elimination   *)
(* or by a waiting trade in which he himself gives it (resolveBankruptcy, acceptTrade).          *)
THEOREM ConsentCorrect == RoomSpec => OwnersConsent
<1>1. RoomOK /\ [RoomNext]_roomVars => [Consented]_vars
  BY RoomStep
<1>2. RoomSpec => [][Consented]_vars
  BY <1>1, RoomInvariant, PTL DEF RoomSpec
<1>3. QED
  BY <1>2 DEF OwnersConsent, Consented

-----------------------------------------------------------------------------
(* Ranks: of n different things that are ordered, each of 1 .. n has one. *)

AheadOf(D, w, s) == {t \in D : w[t] > w[s] \/ (w[t] = w[s] /\ t < s)}
RankOf(D, w, s) == 1 + Cardinality(AheadOf(D, w, s))

LEMMA RankRange ==
  ASSUME NEW D \in SUBSET Int, IsFiniteSet(D), NEW w \in [D -> Int], NEW s \in D
  PROVE  RankOf(D, w, s) \in 1 .. Cardinality(D) /\ Cardinality(D) \in Nat
<1>1. PICK A : A = AheadOf(D, w, s)
  OBVIOUS
<1>2. A \in SUBSET D /\ s \notin A
  BY <1>1 DEF AheadOf
<1>3. /\ IsFiniteSet(A) /\ Cardinality(A) <= Cardinality(D)
      /\ Cardinality(D) = Cardinality(A) => D = A
  BY <1>2, FS_Subset
<1>4. Cardinality(A) \in Nat /\ Cardinality(D) \in Nat
  BY <1>3, FS_CardinalityType
<1>5. Cardinality(A) < Cardinality(D)
  BY <1>2, <1>3, <1>4
<1>6. QED
  BY <1>1, <1>4, <1>5 DEF RankOf

LEMMA RankOrder ==
  ASSUME NEW D \in SUBSET Int, IsFiniteSet(D), NEW w \in [D -> Int], NEW s \in D, NEW t \in D,
         t \in AheadOf(D, w, s)
  PROVE  RankOf(D, w, t) < RankOf(D, w, s)
<1>1. PICK A, B : A = AheadOf(D, w, s) /\ B = AheadOf(D, w, t)
  OBVIOUS
<1>2. B \in SUBSET A
  <2>1. SUFFICES ASSUME NEW x \in B PROVE x \in A
    OBVIOUS
  <2>2. x \in D /\ (w[x] > w[t] \/ (w[x] = w[t] /\ x < t)) /\ (w[t] > w[s] \/ (w[t] = w[s] /\ t < s))
    BY <1>1, <2>1 DEF AheadOf
  <2>3. /\ w[x] \in Int /\ w[t] \in Int /\ w[s] \in Int
        /\ x \in Int /\ t \in Int /\ s \in Int
    BY <2>2
  <2>4. w[x] > w[s] \/ (w[x] = w[s] /\ x < s)
    BY <2>2, <2>3
  <2>5. QED
    BY <1>1, <2>2, <2>4 DEF AheadOf
<1>3. t \in A /\ t \notin B /\ A \in SUBSET D
  <2>1. w[t] \in Int /\ t \in Int
    OBVIOUS
  <2>2. QED
    BY <1>1, <2>1 DEF AheadOf
<1>4. IsFiniteSet(A) /\ Cardinality(A) \in Nat
  BY <1>3, FS_Subset, FS_CardinalityType
<1>5. IsFiniteSet(B) /\ Cardinality(B) \in Nat /\ Cardinality(B) <= Cardinality(A)
      /\ (Cardinality(A) = Cardinality(B) => A = B)
  BY <1>2, <1>4, FS_Subset, FS_CardinalityType
<1>6. Cardinality(B) < Cardinality(A)
  BY <1>3, <1>4, <1>5
<1>7. QED
  BY <1>1, <1>4, <1>5, <1>6, SMTT(30) DEF RankOf

LEMMA RanksDiffer ==
  ASSUME NEW D \in SUBSET Int, IsFiniteSet(D), NEW w \in [D -> Int], NEW s \in D, NEW t \in D,
         RankOf(D, w, s) = RankOf(D, w, t)
  PROVE  s = t
<1>1. SUFFICES ASSUME s # t PROVE FALSE
  OBVIOUS
<1>2. s \in AheadOf(D, w, t) \/ t \in AheadOf(D, w, s)
  BY <1>1 DEF AheadOf
<1>3. RankOf(D, w, s) \in Int
  BY RankRange
<1>4. RankOf(D, w, s) < RankOf(D, w, t) \/ RankOf(D, w, t) < RankOf(D, w, s)
  BY <1>2, RankOrder
<1>5. QED
  BY <1>3, <1>4

LEMMA RanksFill ==
  ASSUME NEW D \in SUBSET Int, IsFiniteSet(D), NEW w \in [D -> Int], NEW r \in 1 .. Cardinality(D)
  PROVE  \E s \in D : RankOf(D, w, s) = r
<1>1. PICK n, T : n = Cardinality(D) /\ T = 1 .. n
  OBVIOUS
<1>2. n \in Nat
  BY <1>1, FS_CardinalityType
<1>3. IsFiniteSet(T) /\ Cardinality(T) = n
  BY <1>1, <1>2, FS_Interval
<1>4. PICK f : f = [s \in D |-> RankOf(D, w, s)]
  OBVIOUS
<1>5. f \in [D -> T]
  BY <1>1, <1>4, RankRange
<1>6. f \in Injection(D, T)
  BY <1>4, <1>5, RanksDiffer DEF Injection, IsInjective
<1>7. f \in Surjection(D, T)
  BY <1>1, <1>3, <1>6, FS_Injection
<1>8. QED
  BY <1>1, <1>4, <1>7 DEF Surjection

(* The ranking of a finished match, as its terminal has it. *)
LEMMA RankingRanks ==
  ASSUME NEW g
  PROVE  LET D == ActiveSeats(g.players)
             w == [s \in D |-> calculatePlayerNetWorth(g, s)]
         IN Ranking(g) = [s \in D |-> [rank |-> RankOf(D, w, s), netWorth |-> w[s]]]
<1> DEFINE D == ActiveSeats(g.players)
           w == [s \in D |-> calculatePlayerNetWorth(g, s)]
           Ahead(t, s) == w[t] > w[s] \/ (w[t] = w[s] /\ t < s)
<1>1. DOMAIN w = D
  OBVIOUS
<1>2. Ranking(g) = [s \in DOMAIN w |-> [rank |-> 1 + Cardinality({t \in DOMAIN w : Ahead(t, s)}),
                                       netWorth |-> w[s]]]
  BY DEF Ranking
<1>3. \A s : {t \in DOMAIN w : Ahead(t, s)} = AheadOf(D, w, s)
  BY <1>1 DEF AheadOf
<1> HIDE DEF w, Ahead, D
<1>4. QED
  BY <1>1, <1>2, <1>3 DEF RankOf, D, w

(* Each place of the ranking is one seat's. *)
Placed(ranking) ==
  /\ IsFiniteSet(DOMAIN ranking) /\ Cardinality(DOMAIN ranking) \in Nat
  /\ \A s \in DOMAIN ranking : ranking[s].rank \in 1 .. Cardinality(DOMAIN ranking)
  /\ \A s, t \in DOMAIN ranking : ranking[s].rank = ranking[t].rank => s = t
  /\ \A r \in 1 .. Cardinality(DOMAIN ranking) : \E s \in DOMAIN ranking : ranking[s].rank = r

LEMMA SeatsFinite == /\ Seats \in SUBSET Int /\ IsFiniteSet(Seats)
                     /\ \A g : IsFiniteSet(ActiveSeats(g))
<1>1. Seats \in SUBSET Int /\ IsFiniteSet(Seats)
  BY SeatsAssumption
<1>2. \A g : ActiveSeats(g) \in SUBSET Seats
  BY DEF ActiveSeats
<1>3. QED
  BY <1>1, <1>2, FS_Subset

LEMMA RankingPlaces ==
  ASSUME NEW g, \A s \in DOMAIN Ranking(g) : Ranking(g)[s].netWorth \in Int
  PROVE  Placed(Ranking(g)) /\ DOMAIN Ranking(g) = ActiveSeats(g.players)
<1>1. PICK D, w, R : /\ D = ActiveSeats(g.players) /\ w = [s \in D |-> calculatePlayerNetWorth(g, s)]
                     /\ R = Ranking(g)
  OBVIOUS
<1>2. R = [s \in D |-> [rank |-> RankOf(D, w, s), netWorth |-> w[s]]]
  BY <1>1, RankingRanks
<1>3. D \in SUBSET Int /\ IsFiniteSet(D)
  BY <1>1, SeatsFinite DEF ActiveSeats
<1>4. w \in [D -> Int]
  <2>1. \A s \in D : R[s].netWorth = w[s]
    BY <1>2
  <2>2. \A s \in D : w[s] \in Int
    <3>1. DOMAIN R = D /\ \A s \in DOMAIN R : R[s].netWorth \in Int
      BY <1>1, <1>2
    <3>2. QED
      BY <2>1, <3>1
  <2>3. QED
    BY <1>1, <2>2
<1>5. DOMAIN R = D /\ \A s \in D : R[s].rank = RankOf(D, w, s)
  BY <1>2
<1>6. Cardinality(D) \in Nat
  BY <1>3, FS_CardinalityType
<1>7. \A s \in D : RankOf(D, w, s) \in 1 .. Cardinality(D)
  BY <1>3, <1>4, RankRange
<1>8. \A s, t \in D : RankOf(D, w, s) = RankOf(D, w, t) => s = t
  BY <1>3, <1>4, RanksDiffer
<1>9. \A r \in 1 .. Cardinality(D) : \E s \in D : RankOf(D, w, s) = r
  BY <1>3, <1>4, RanksFill
<1>10. Placed(R)
  <2>1. \A s \in D : R[s].rank \in 1 .. Cardinality(D)
    BY <1>5, <1>7
  <2>2. \A s, t \in D : R[s].rank = R[t].rank => s = t
    BY <1>5, <1>8
  <2>3. \A r \in 1 .. Cardinality(D) : \E s \in D : R[s].rank = r
    BY <1>5, <1>9
  <2>4. DOMAIN R = D
    BY <1>5
  <2>5. QED
    BY <1>3, <1>6, <2>1, <2>2, <2>3, <2>4 DEF Placed
<1>11. DOMAIN R = ActiveSeats(g.players)
  BY <1>1, <1>5
<1>12. QED
  BY <1>1, <1>10, <1>11, Zenon

(* What the room puts on the wire of it: the first place is the winner's. *)
LEMMA TerminalIsReadable ==
  ASSUME NEW g, NEW terminal, terminal # None, hydrateTerminal(terminal),
         terminal.ranking = Ranking(g), terminal.winner = First(terminal.ranking),
         ActiveSeats(g.players) # {}
  PROVE  /\ GameplayTerminalStateSchema(PublicTerminal(terminal))
         /\ PublicTerminal(terminal) \in PublishedTerminal
<1>1. PICK R : R = terminal.ranking
  OBVIOUS
<1>2. /\ DOMAIN R \in SUBSET Seats /\ terminal.reason \in EndReasons
      /\ \A s \in DOMAIN R : /\ R[s].rank \in 1 .. GAMEPLAY_POLICY.maximumPlayers
                             /\ R[s].netWorth \in Nat
  BY <1>1 DEF hydrateTerminal
<1>3. Placed(R) /\ DOMAIN R = ActiveSeats(g.players)
  BY <1>1, <1>2, RankingPlaces
<1>4. PICK n : n = Cardinality(DOMAIN R)
  OBVIOUS
<1>5. n \in Nat /\ n # 0
  BY <1>3, <1>4, FS_EmptySet DEF Placed
<1> DEFINE At(r) == CHOOSE s \in DOMAIN R : R[s].rank = r
<1>6. ASSUME NEW r \in 1 .. n
      PROVE  At(r) \in DOMAIN R /\ R[At(r)].rank = r
  <2>1. \E s \in DOMAIN R : R[s].rank = r
    BY <1>3, <1>4 DEF Placed
  <2>2. QED
    BY <2>1, Zenon
<1> HIDE DEF At
<1>7. PICK W : W = [r \in 1 .. n |-> [rank |-> r, player |-> At(r), netWorth |-> R[At(r)].netWorth]]
  OBVIOUS
<1>8. wireRanking(R) = W
  BY <1>4, <1>7 DEF wireRanking, At
<1>9. W # <<>> /\ DOMAIN W = 1 .. n
  <2>1. DOMAIN W = 1 .. n
    BY <1>7
  <2>2. DOMAIN W # {}
    BY <1>5, <2>1
  <2>3. ASSUME W = <<>> PROVE FALSE
    <3>1. DOMAIN W = {}
      BY <2>3
    <3>2. QED
      BY <2>2, <3>1
  <2>4. QED
    BY <2>1, <2>3
<1>10. W[1].player = terminal.winner
  <2>1. 1 \in 1 .. n
    BY <1>5
  <2>2. W[1].player = At(1)
    BY <1>7, <2>1
  <2>3. QED
    BY <1>1, <2>2 DEF First, At
<1>11. ASSUME NEW r \in 1 .. n
       PROVE  TerminalRankingEntrySchema(W[r]) /\ W[r].rank = r
  BY <1>2, <1>6, <1>7 DEF TerminalRankingEntrySchema, InMatchCash
<1>12. ASSUME NEW i \in 1 .. n, NEW j \in 1 .. n, W[i].player = W[j].player
       PROVE  i = j
  BY <1>6, <1>7, <1>12
<1>13. PublicTerminal(terminal) = [reason |-> terminal.reason, winnerId |-> terminal.winner, ranking |-> W]
  BY <1>1, <1>8 DEF PublicTerminal
<1>14. GameplayTerminalStateSchema(PublicTerminal(terminal))
  BY <1>2, <1>9, <1>10, <1>11, <1>12, <1>13 DEF GameplayTerminalStateSchema
<1>15. W \in Seq([rank : Nat, player : Seats, netWorth : Nat])
  <2>1. \A r \in 1 .. n : W[r] \in [rank : Nat, player : Seats, netWorth : Nat]
    BY <1>2, <1>6, <1>7
  <2>2. QED
    BY <1>5, <1>7, <2>1
<1>16. PublicTerminal(terminal) \in PublishedTerminal
  BY <1>2, <1>13, <1>15 DEF PublishedTerminal, hydrateTerminal
<1>17. QED
  BY <1>14, <1>16

-----------------------------------------------------------------------------
(* What the room publishes *)

LEMMA StoredIsValid ==
  ASSUME MatchOK, hydrateGameplayState(game)
  PROVE  /\ isValidBankruptcyState(game) /\ hydrateTurn(game.turn, game.lifecycle)
         /\ game.lifecycle = "inProgress" => isValidActive(game)
         /\ game.lifecycle # "inProgress" => isValidFinished(game)
         /\ game.lifecycle \in {"inProgress", "finished"}
<1>1. game.lifecycle \in {"inProgress", "finished"} /\ hydrateTurn(game.turn, game.lifecycle)
  BY DEF MatchOK
<1>2. /\ game.lifecycle = "inProgress" => isValidActive(game)
      /\ game.lifecycle # "inProgress" => isValidFinished(game)
  BY DEF hydrateGameplayState
<1>3. isValidBankruptcyState(game)
  BY <1>2 DEF isValidActive, isValidFinished
<1>4. QED
  BY <1>1, <1>2, <1>3

LEMMA TradeIsReadable ==
  ASSUME NEW trade \in Trade
  PROVE  TradePublicStateSchema(PublicTrade(trade))
<1>1. PICK terms \in TradeTerms : terms = trade.terms
  BY DEF Trade
<1>2. terms \in Terms /\ validTerms(terms)
  BY TermsAssumption
<1>3. trade.proposer # trade.receiver
  BY DEF Trade
<1>4. PublicTrade(trade) = [tradeType |-> tradeType(terms), proposerId |-> trade.proposer,
                            receiverId |-> trade.receiver, terms |-> terms]
  BY <1>1 DEF PublicTrade
<1>5. terms.offeredCash \in Nat /\ terms.requestedCash \in Nat
  BY <1>2 DEF Terms
<1>6. terms.offeredProperty # None => terms.offeredProperty # terms.requestedProperty
  BY <1>2 DEF validTerms
<1>7. /\ terms.offeredCash > 0 \/ terms.requestedCash > 0
           \/ terms.offeredProperty # None \/ terms.requestedProperty # None
      /\ terms.offeredProperty # None => terms.offeredCash = 0
      /\ terms.requestedProperty # None => terms.requestedCash = 0
  BY <1>2 DEF validTerms
<1>8. CASE terms.offeredCash > 0 /\ terms.requestedProperty # None
  <2>1. terms.requestedCash = 0 /\ terms.offeredProperty = None
    BY <1>5, <1>7, <1>8
  <2>2. tradeType(terms) = "moneyForProperty"
    BY <1>8, <2>1 DEF tradeType
  <2>3. QED
    BY <1>3, <1>4, <1>6, <2>1, <2>2 DEF TradePublicStateSchema
<1>9. CASE terms.requestedCash > 0 /\ terms.offeredProperty # None
  <2>1. ~(terms.offeredCash > 0 /\ terms.requestedProperty # None)
    BY <1>5, <1>7, <1>9
  <2>2. tradeType(terms) = "propertyForMoney"
    BY <1>9, <2>1 DEF tradeType
  <2>3. terms.offeredCash = 0 /\ terms.requestedProperty = None
    BY <1>5, <1>7, <1>9
  <2>4. QED
    BY <1>3, <1>4, <1>6, <2>2, <2>3 DEF TradePublicStateSchema
<1>10. CASE terms.offeredProperty = None /\ terms.requestedProperty = None
  <2>1. tradeType(terms) = "moneyOnly"
    BY <1>10 DEF tradeType
  <2>2. terms.offeredCash # 0 \/ terms.requestedCash # 0
    BY <1>5, <1>7, <1>10
  <2>3. QED
    BY <1>3, <1>4, <1>6, <2>1, <2>2 DEF TradePublicStateSchema
<1>11. CASE /\ ~(terms.offeredCash > 0 /\ terms.requestedProperty # None)
            /\ ~(terms.requestedCash > 0 /\ terms.offeredProperty # None)
            /\ ~(terms.offeredProperty = None /\ terms.requestedProperty = None)
  <2>1. tradeType(terms) = "propertyOnly"
    BY <1>11 DEF tradeType
  <2>2. /\ terms.offeredCash = 0 /\ terms.requestedCash = 0
        /\ terms.offeredProperty # None \/ terms.requestedProperty # None
    BY <1>5, <1>7, <1>11
  <2>3. QED
    BY <1>3, <1>4, <1>6, <2>1, <2>2 DEF TradePublicStateSchema
<1>12. QED
  BY <1>8, <1>9, <1>10, <1>11

LEMMA SpaceIsReadable ==
  ASSUME isValidPropertyStates(game.properties), NEW p \in Positions
  PROVE  /\ BoardSpacePublicStateSchema(PublicSpace(game, p))
         /\ \/ "ownerId" \notin DOMAIN PublicSpace(game, p) /\ game.properties[p].owner = None
            \/ /\ "ownerId" \in DOMAIN PublicSpace(game, p)
               /\ PublicSpace(game, p).ownerId = game.properties[p].owner
<1>1. PICK property : property = game.properties[p]
  OBVIOUS
<1>2. /\ property \in Property
      /\ property.hasHotel => property.houses = 0
      /\ property.houses > 0 \/ property.hasHotel =>
           property.owner # None /\ BOARD_SPACES[p].propertyType = "street"
      /\ property.owner # None => isOwnableSpace(p)
  BY <1>1 DEF isValidPropertyStates
<1>3. property.houses \in 0 .. MaxHouses /\ property.houses \in Nat /\ property.hasHotel \in BOOLEAN
  BY <1>2 DEF Property
<1>4. BOARD_SPACES[p].propertyType \in SpaceTypes
  BY BoardAssumption
<1>5. CASE isOwnableSpace(p)
  <2>1. PublicSpace(game, p) =
          [kind |-> BOARD_SPACES[p].propertyType, ownerId |-> property.owner,
           houses |-> property.houses, hasHotel |-> property.hasHotel]
    BY <1>1, <1>5 DEF PublicSpace
  <2>2. OwnableSpacePublicStateSchema(PublicSpace(game, p))
    BY <1>2, <1>3, <2>1 DEF OwnableSpacePublicStateSchema
  <2>3. QED
    BY <1>1, <1>5, <2>1, <2>2 DEF BoardSpacePublicStateSchema, isOwnableSpace
<1>6. CASE ~isOwnableSpace(p)
  <2>1. PublicSpace(game, p) = [kind |-> BOARD_SPACES[p].propertyType]
    BY <1>6 DEF PublicSpace
  <2>2. QED
    BY <1>1, <1>2, <1>4, <1>6, <2>1 DEF BoardSpacePublicStateSchema, isOwnableSpace, SpaceTypes
<1>7. QED
  BY <1>5, <1>6

LEMMA TurnIsReadable ==
  ASSUME MatchOK, hydrateGameplayState(game)
  PROVE  /\ GameplayTurnStateSchema(PublicTurn(game.turn))
         /\ PublicTurn(game.turn).phase = game.turn.phase
         /\ PublicTurn(game.turn).currentSeat = game.turn.seat
<1>1. PICK turn : turn = game.turn
  OBVIOUS
<1>2. turn \in Turn
  BY <1>1, StoredIsValid DEF hydrateTurn
<1>3. turn.phase \in PendingPhases \cup {"awaitingRoll", "awaitingBankruptcy", "awaitingEndTurn", "finished"}
  BY <1>2 DEF Turn
<1>4. turn.phase \in PendingPhases => turn.at \in Positions
  BY <1>2 DEF Turn, PendingPhases
<1>5. PICK about : PublicTurn(turn) = [phase |-> turn.phase, currentSeat |-> turn.seat, about |-> about]
  BY DEF PublicTurn
<1>6. CASE turn.phase \in {"awaitingPropertyDecision", "awaitingRentPayment"}
  <2>1. PublicTurn(turn).about = turn.at
    BY <1>6 DEF PublicTurn
  <2>2. QED
    BY <1>1, <1>4, <1>5, <1>6, <2>1 DEF GameplayTurnStateSchema, PendingPhases
<1>7. CASE turn.phase = "awaitingCardDraw"
  <2>1. PublicTurn(turn).about = BOARD_SPACES[turn.at].propertyType
    BY <1>7 DEF PublicTurn
  <2>2. game.lifecycle = "inProgress"
    BY <1>1, <1>7, StoredIsValid DEF hydrateTurn
  <2>3. validPendingPhase(game)
    BY <2>2, StoredIsValid DEF isValidActive
  <2>4. BOARD_SPACES[turn.at].propertyType \in {"chance", "communityChest"}
    BY <1>1, <1>7, <2>3 DEF validPendingPhase, RentIsOwed
  <2>5. QED
    BY <1>1, <1>5, <1>7, <2>1, <2>4 DEF GameplayTurnStateSchema
<1>8. CASE turn.phase = "awaitingTaxPayment"
  <2>1. PublicTurn(turn).about \in {"mev", "priorityFee"}
    BY <1>8 DEF PublicTurn
  <2>2. QED
    BY <1>1, <1>5, <1>8, <2>1 DEF GameplayTurnStateSchema
<1>9. CASE turn.phase \in {"awaitingRoll", "awaitingBankruptcy", "awaitingEndTurn", "finished"}
  BY <1>1, <1>5, <1>9 DEF GameplayTurnStateSchema
<1>10. QED
  BY <1>3, <1>6, <1>7, <1>8, <1>9 DEF PendingPhases

LEMMA DiceAreReadable ==
  ASSUME MatchOK, hydrateGameplayState(game), game.lastDice # None
  PROVE  DiceResultSchema(wireDice(game.lastDice))
<1>1. PICK roll : roll = game.lastDice
  OBVIOUS
<1>2. roll \in [dice : (1 .. 6) \X (1 .. 6), total : 2 .. 12, isDoubles : BOOLEAN]
  BY <1>1 DEF hydrateGameplayState, hydrateDice, DiceRoll
<1>3. validDice(roll)
  BY <1>1, StoredIsValid DEF isValidActive, isValidFinished
<1>4. wireDice(roll) = [dieOne |-> roll.dice[1], dieTwo |-> roll.dice[2], total |-> roll.total,
                        isDoubles |-> roll.isDoubles]
  BY DEF wireDice
<1>5. roll.dice[1] \in 1 .. 6 /\ roll.dice[2] \in 1 .. 6
  BY <1>2
<1>6. PICK x, y, wire : x = roll.dice[1] /\ y = roll.dice[2] /\ wire = wireDice(roll)
  OBVIOUS
<1>7. roll.isDoubles = (x = y) /\ roll.total = x + y
  BY <1>3, <1>6, Zenon DEF validDice
<1>8. wire.dieOne = x /\ wire.dieTwo = y /\ wire.total = x + y /\ wire.isDoubles = (x = y)
  <2>1. wire.dieOne = x /\ wire.dieTwo = y /\ wire.total = roll.total /\ wire.isDoubles = roll.isDoubles
    BY <1>4, <1>6
  <2>2. QED
    BY <1>7, <2>1, Zenon
<1>9. wire.isDoubles <=> wire.dieOne = wire.dieTwo
  BY <1>8, Zenon
<1>10. QED
  BY <1>1, <1>5, <1>6, <1>8, <1>9, Zenon DEF DiceResultSchema

LEMMA SeatsAreReadable ==
  ASSUME MatchOK, isValidPropertyStates(game.properties), NEW s \in Seats, NEW pub,
         pub = publicGameplayState(game)
  PROVE  /\ GameplayPlayerPublicStateSchema(pub.seats[s]) /\ pub.seats[s].player = game.players[s]
         /\ pub.seats[s].ownedPropertyPositions =
              {p \in DOMAIN pub.board : "ownerId" \in DOMAIN pub.board[p] /\ pub.board[p].ownerId = s}
<1>1. pub.board = [p \in Positions |-> PublicSpace(game, p)] /\ pub.seats[s] = PublicSeat(game, s)
  BY DEF publicGameplayState
<1>2. /\ pub.seats[s].player = game.players[s]
      /\ pub.seats[s].ownedPropertyPositions = {p \in Positions : game.properties[p].owner = s}
  BY <1>1 DEF PublicSeat, ownedPropertyPositions
<1>3. GameplayPlayerPublicStateSchema(pub.seats[s])
  BY <1>2 DEF GameplayPlayerPublicStateSchema, MatchOK
<1>4. s # None
  BY SeatsAssumption
<1>5. ASSUME NEW p \in Positions
      PROVE  game.properties[p].owner = s <=> "ownerId" \in DOMAIN pub.board[p] /\ pub.board[p].ownerId = s
  <2>1. pub.board[p] = PublicSpace(game, p)
    BY <1>1
  <2>2. QED
    BY <1>4, <2>1, SpaceIsReadable
<1>6. DOMAIN pub.board = Positions
  BY <1>1
<1>7. QED
  BY <1>2, <1>3, <1>5, <1>6

LEMMA StoredIsReadable ==
  ASSUME MatchOK, hydrateGameplayState(game)
  PROVE  PublishedStateIsReadable
<1>1. PICK pub : pub = publicGameplayState(game)
  OBVIOUS
<1>2. isValidPropertyStates(game.properties)
  BY StoredIsValid DEF isValidBankruptcyState
<1>3. pub.stateVersion \in 0 .. MAX_STATE_VERSION
  BY <1>1, LimitsAssumption DEF publicGameplayState, MatchOK
<1>4. /\ DOMAIN pub.seats = Seats /\ DOMAIN pub.board = Positions
      /\ pub.board = [p \in Positions |-> PublicSpace(game, p)]
      /\ pub.turn = PublicTurn(game.turn)
      /\ pub.activeTrades = [i \in DOMAIN game.activeTrades |-> PublicTrade(game.activeTrades[i])]
      /\ pub.lastDice = IF game.lastDice = None THEN None ELSE wireDice(game.lastDice)
      /\ pub.terminal = PublicTerminal(game.terminal)
  BY <1>1 DEF publicGameplayState
<1>5. \A s \in DOMAIN pub.seats :
        /\ GameplayPlayerPublicStateSchema(pub.seats[s])
        /\ pub.seats[s].ownedPropertyPositions =
             {p \in DOMAIN pub.board : "ownerId" \in DOMAIN pub.board[p] /\ pub.board[p].ownerId = s}
  BY <1>1, <1>2, <1>4, SeatsAreReadable
<1>6. \A p \in DOMAIN pub.board :
        /\ BoardSpacePublicStateSchema(pub.board[p])
        /\ "ownerId" \in DOMAIN pub.board[p] => pub.board[p].ownerId \in DOMAIN pub.seats \cup {None}
  <2>1. SUFFICES ASSUME NEW p \in Positions
                 PROVE  /\ BoardSpacePublicStateSchema(pub.board[p])
                        /\ "ownerId" \in DOMAIN pub.board[p] => pub.board[p].ownerId \in Seats \cup {None}
    BY <1>4
  <2>2. pub.board[p] = PublicSpace(game, p)
    BY <1>4
  <2>3. game.properties[p].owner \in Seats \cup {None}
    BY DEF MatchOK, Property
  <2>4. QED
    BY <1>2, <2>1, <2>2, <2>3, SpaceIsReadable
<1>7. GameplayTurnStateSchema(pub.turn) /\ pub.turn.phase = game.turn.phase /\ pub.turn.currentSeat = game.turn.seat
  BY <1>4, TurnIsReadable
<1>8. game.turn.phase = "finished" <=> game.lifecycle = "finished"
  BY StoredIsValid DEF hydrateTurn
<1>9. pub.turn.phase # "finished" =>
        /\ pub.turn.currentSeat \in DOMAIN pub.seats
        /\ pub.seats[pub.turn.currentSeat].player.status = "active"
  <2>1. SUFFICES ASSUME game.lifecycle = "inProgress"
                 PROVE  game.turn.seat \in Seats /\ pub.seats[game.turn.seat].player.status = "active"
    BY <1>4, <1>7, <1>8, StoredIsValid
  <2>2. game.turn.seat \in ActiveSeats(game.players)
    BY <2>1, StoredIsValid DEF isValidActive
  <2>3. game.turn.seat \in Seats /\ game.players[game.turn.seat].status = "active"
    BY <2>2 DEF ActiveSeats
  <2>4. QED
    BY <1>1, <1>2, <2>3, SeatsAreReadable
<1>10. /\ Len(pub.activeTrades) <= GAMEPLAY_POLICY.maximumActiveTrades
       /\ \A i \in DOMAIN pub.activeTrades :
            /\ TradePublicStateSchema(pub.activeTrades[i])
            /\ {pub.activeTrades[i].proposerId, pub.activeTrades[i].receiverId} \subseteq DOMAIN pub.seats
  <2>1. game.activeTrades \in Seq(Trade) /\ Len(game.activeTrades) <= GAMEPLAY_POLICY.maximumActiveTrades
    BY DEF MatchOK
  <2>2. Len(pub.activeTrades) = Len(game.activeTrades) /\ DOMAIN pub.activeTrades = DOMAIN game.activeTrades
    BY <1>4, <2>1
  <2>3. ASSUME NEW i \in DOMAIN game.activeTrades
        PROVE  /\ TradePublicStateSchema(pub.activeTrades[i])
               /\ {pub.activeTrades[i].proposerId, pub.activeTrades[i].receiverId} \subseteq Seats
    <3>1. PICK trade \in Trade : trade = game.activeTrades[i]
      BY <2>1
    <3>2. pub.activeTrades[i] = PublicTrade(trade)
      BY <1>4, <3>1
    <3>3. {PublicTrade(trade).proposerId, PublicTrade(trade).receiverId} \subseteq Seats
      BY DEF PublicTrade, Trade
    <3>4. QED
      BY <3>2, <3>3, TradeIsReadable
  <2>4. QED
    BY <1>4, <2>1, <2>2, <2>3
<1>11. pub.lastDice # None => DiceResultSchema(pub.lastDice)
  BY <1>4, DiceAreReadable
<1>12. game.terminal # None <=> game.lifecycle = "finished"
  BY StoredIsValid DEF isValidActive, isValidFinished
<1>13. /\ pub.terminal # None => game.terminal # None
       /\ game.terminal # None => pub.terminal # None /\ GameplayTerminalStateSchema(pub.terminal)
  <2>1. game.terminal = None => pub.terminal = None
    BY <1>4 DEF PublicTerminal
  <2>2. SUFFICES ASSUME game.terminal # None
                 PROVE  pub.terminal # None /\ GameplayTerminalStateSchema(pub.terminal)
    BY <2>1
  <2>3. /\ ActiveSeats(game.players) # {} /\ game.terminal.ranking = Ranking(game)
        /\ game.terminal.winner = First(game.terminal.ranking)
    BY <1>12, <2>2, StoredIsValid DEF isValidFinished
  <2>4. hydrateTerminal(game.terminal)
    BY <2>2 DEF MatchOK
  <2>5. GameplayTerminalStateSchema(pub.terminal) /\ pub.terminal \in PublishedTerminal
    BY <1>4, <2>2, <2>3, <2>4, TerminalIsReadable
  <2>6. pub.terminal # None
    BY <2>5, TerminalAssumption
  <2>7. QED
    BY <2>5, <2>6
<1>14. /\ pub.turn.phase = "finished" <=> pub.terminal # None
       /\ pub.terminal # None => GameplayTerminalStateSchema(pub.terminal)
  BY <1>7, <1>8, <1>12, <1>13
<1>15. GameplayPublicStateSchema(pub)
  BY <1>3, <1>5, <1>6, <1>7, <1>9, <1>10, <1>11, <1>14, Zenon DEF GameplayPublicStateSchema
<1>16. QED
  BY <1>1, <1>15 DEF PublishedStateIsReadable

-----------------------------------------------------------------------------
(* Sums over parts *)

(* A sum over a set does not depend on the set it is a subset of. *)
LEMMA SumRestricts ==
  ASSUME NEW T, IsFiniteSet(T), NEW S \in SUBSET T, NEW h
  PROVE  SumFcn(S, h)[S] = SumFcn(T, h)[S]
<1>1. PICK f, g : f = SumFcn(T, h) /\ g = [s \in SUBSET S |-> f[s]]
  OBVIOUS
<1>2. IsFiniteSet(S) /\ S \in SUBSET S
  BY FS_Subset
<1>3. IsSum(T, h, f)
  BY <1>1, SumEquation
<1>4. ASSUME NEW s \in SUBSET S
      PROVE  g[s] = Summand(h, g, s)
  <2>1. g[s] = f[s] /\ f[s] = Summand(h, f, s)
    BY <1>1, <1>3 DEF IsSum
  <2>2. s # {} => g[s \ {Pick(s)}] = f[s \ {Pick(s)}]
    BY <1>1
  <2>3. QED
    BY <2>1, <2>2 DEF Summand
<1>5. IsSum(S, h, g)
  BY <1>1, <1>4 DEF IsSum
<1>6. IsSum(S, h, SumFcn(S, h))
  BY <1>2, SumEquation
<1>7. SumFcn(S, h)[S] = g[S]
  BY <1>2, <1>5, <1>6, SumUnique
<1>8. QED
  BY <1>1, <1>2, <1>7

LEMMA SumNatural ==
  ASSUME NEW S, IsFiniteSet(S), NEW h \in [S -> Nat], NEW s \in SUBSET S
  PROVE  SumFcn(S, h)[s] \in Nat
<1> DEFINE Bad == {n \in Nat : \E t \in SUBSET S : Cardinality(t) = n /\ SumFcn(S, h)[t] \notin Nat}
<1>1. \A t \in SUBSET S : IsFiniteSet(t) /\ Cardinality(t) \in Nat
  BY FS_Subset, FS_CardinalityType
<1>2. ASSUME Bad # {} PROVE FALSE
  <2>1. PICK m \in Bad : \A n \in Bad : m <= n
    BY <1>2, LeastElement
  <2>2. PICK t \in SUBSET S : Cardinality(t) = m /\ SumFcn(S, h)[t] \notin Nat
    BY <2>1
  <2>3. t # {}
    <3>1. SumFcn(S, h)[t] = IF t = {} THEN 0 ELSE h[Pick(t)] + SumFcn(S, h)[t \ {Pick(t)}]
      BY <2>2, SumStep
    <3>2. QED
      BY <2>2, <3>1
  <2>4. PICK x \in t : x = Pick(t)
    BY <2>3, PickIn
  <2>5. PICK u \in SUBSET S : u = t \ {x}
    BY <2>2
  <2>6. Cardinality(u) = m - 1 /\ Cardinality(u) \in Nat
    BY <1>1, <2>2, <2>4, <2>5, FS_RemoveElement
  <2>7. Cardinality(u) \notin Bad
    BY <2>1, <2>6
  <2>8. SumFcn(S, h)[u] \in Nat
    BY <2>6, <2>7
  <2>9. SumFcn(S, h)[t] = h[x] + SumFcn(S, h)[u]
    BY <2>3, <2>4, <2>5, SumStep
  <2>10. h[x] \in Nat
    BY <2>2
  <2>11. QED
    BY <2>2, <2>8, <2>9, <2>10
<1>3. QED
  BY <1>1, <1>2

LEMMA SumZero ==
  ASSUME NEW S, IsFiniteSet(S), NEW h, \A x \in S : h[x] = 0
  PROVE  SumFcn(S, h)[S] = 0
<1>1. PICK f : f = [s \in SUBSET S |-> 0]
  OBVIOUS
<1>2. ASSUME NEW s \in SUBSET S
      PROVE  f[s] = Summand(h, f, s)
  <2>1. CASE s = {}
    BY <1>1, <2>1 DEF Summand
  <2>2. CASE s # {}
    <3>1. h[Pick(s)] = 0 /\ f[s \ {Pick(s)}] = 0 /\ f[s] = 0
      BY <1>1, <2>2, PickIn
    <3>2. QED
      BY <2>2, <3>1 DEF Summand
  <2>3. QED
    BY <2>1, <2>2
<1>3. IsSum(S, h, f)
  <2>1. f = [s \in SUBSET S |-> f[s]]
    BY <1>1
  <2>2. QED
    BY <1>2, <2>1 DEF IsSum
<1>4. IsSum(S, h, SumFcn(S, h)) /\ S \in SUBSET S
  BY SumEquation
<1>5. SumFcn(S, h)[S] = f[S]
  BY <1>3, <1>4, SumUnique
<1>6. QED
  BY <1>1, <1>5

-----------------------------------------------------------------------------
(* The houses on the board, as the building inventory adds them up *)

IsHouses(g, S, f) ==
  f = [s \in SUBSET S |->
         IF s = {} THEN 0 ELSE g.properties[Pick(s)].houses + f[s \ {Pick(s)}]]
HousesFcn(g, S) == CHOOSE f : IsHouses(g, S, f)
HousesOn(g, S) == MapThenSumSet(LAMBDA p : g.properties[p].houses, S)
HousesOf(board) == [p \in Positions |-> board[p].houses]

LEMMA HousesUnfold ==
  ASSUME NEW g, NEW S
  PROVE  HousesOn(g, S) = HousesFcn(g, S)[S]
BY DEF HousesOn, MapThenSumSet, MapThenFoldSet, HousesFcn, IsHouses, Pick

LEMMA HousesAreSum ==
  ASSUME NEW g, NEW S \in SUBSET Positions, NEW f
  PROVE  IsHouses(g, S, f) <=> IsSum(S, HousesOf(g.properties), f)
<1>1. PICK h : h = HousesOf(g.properties)
  OBVIOUS
<1>2. ASSUME NEW s \in SUBSET S
      PROVE  Summand(h, f, s) = IF s = {} THEN 0 ELSE g.properties[Pick(s)].houses + f[s \ {Pick(s)}]
  <2>1. s # {} => Pick(s) \in Positions
    BY PickIn
  <2>2. s # {} => h[Pick(s)] = g.properties[Pick(s)].houses
    BY <1>1, <2>1 DEF HousesOf
  <2>3. QED
    BY <2>2 DEF Summand
<1>3. [s \in SUBSET S |-> Summand(h, f, s)] =
      [s \in SUBSET S |-> IF s = {} THEN 0 ELSE g.properties[Pick(s)].houses + f[s \ {Pick(s)}]]
  BY <1>2
<1>4. QED
  BY <1>1, <1>3, Zenon DEF IsHouses, IsSum

LEMMA BoardFinite == IsFiniteSet(Positions) /\ \A S \in SUBSET Positions : IsFiniteSet(S)
<1>1. 0 \in Int /\ GAMEPLAY_POLICY.boardSize - 1 \in Int
  BY PolicyAssumption
<1>2. IsFiniteSet(Positions)
  BY <1>1, FS_Interval DEF Positions
<1>3. QED
  BY <1>2, FS_Subset

LEMMA HousesAreSummed ==
  ASSUME NEW g, NEW S \in SUBSET Positions
  PROVE  HousesOn(g, S) = SumFcn(Positions, HousesOf(g.properties))[S]
<1>1. IsFiniteSet(S) /\ S \in SUBSET S
  BY BoardFinite
<1>2. IsSum(S, HousesOf(g.properties), SumFcn(S, HousesOf(g.properties)))
  BY <1>1, SumEquation
<1>3. IsHouses(g, S, SumFcn(S, HousesOf(g.properties)))
  BY <1>2, HousesAreSum
<1>4. IsHouses(g, S, HousesFcn(g, S))
  BY <1>3, Zenon DEF HousesFcn
<1>5. IsSum(S, HousesOf(g.properties), HousesFcn(g, S))
  BY <1>4, HousesAreSum
<1>6. HousesFcn(g, S)[S] = SumFcn(S, HousesOf(g.properties))[S]
  BY <1>1, <1>2, <1>5, SumUnique
<1>7. SumFcn(S, HousesOf(g.properties))[S] = SumFcn(Positions, HousesOf(g.properties))[S]
  BY BoardFinite, SumRestricts
<1>8. QED
  BY <1>6, <1>7, HousesUnfold

-----------------------------------------------------------------------------
(* The aggregate a match begins with can be stored *)

LEMMA InitialBoard ==
  ASSUME NEW g, g = initializeGameplayAggregate
  PROVE  isValidPropertyStates(g.properties) /\ isValidBuildingInventory(g)
<1>1. g.properties = [p \in Positions |-> [owner |-> None, houses |-> 0, hasHotel |-> FALSE]]
  BY DEF initializeGameplayAggregate
<1>2. g.housesRemaining = GAMEPLAY_POLICY.totalHouses /\ g.hotelsRemaining = GAMEPLAY_POLICY.totalHotels
  BY DEF initializeGameplayAggregate
<1>3. /\ GAMEPLAY_POLICY.totalHouses \in Nat /\ GAMEPLAY_POLICY.totalHotels \in Nat /\ MaxHouses \in Nat
  BY PolicyAssumption
<1>4. isValidPropertyStates(g.properties)
  BY <1>1, <1>3 DEF isValidPropertyStates, Property
<1>5. HousesOn(g, Positions) = 0
  <2>1. \A p \in Positions : HousesOf(g.properties)[p] = 0
    BY <1>1 DEF HousesOf
  <2>2. SumFcn(Positions, HousesOf(g.properties))[Positions] = 0
    BY <2>1, BoardFinite, SumZero
  <2>3. Positions \in SUBSET Positions
    OBVIOUS
  <2>4. QED
    BY <2>2, <2>3, HousesAreSummed
<1>6. Cardinality({p \in Positions : g.properties[p].hasHotel}) = 0
  <2>1. {p \in Positions : g.properties[p].hasHotel} = {}
    BY <1>1
  <2>2. QED
    BY <2>1, FS_EmptySet
<1>7. isValidBuildingInventory(g)
  BY <1>2, <1>3, <1>5, <1>6 DEF isValidBuildingInventory, HousesOn
<1>8. QED
  BY <1>4, <1>7

LEMMA InitialSeats ==
  ASSUME NEW g, g = initializeGameplayAggregate
  PROVE  /\ \A s \in Seats : validPlayer(g.players[s])
         /\ ActiveSeats(g.players) = Seats
<1>1. PICK player : player =
        [status |-> "active", cash |-> GAMEPLAY_POLICY.startingMatchCash, position |-> 0,
         inJail |-> FALSE, jailTurns |-> 0, consecutiveDoubles |-> 0, missedTurns |-> 0,
         getOutOfJailCards |-> 0]
  OBVIOUS
<1>2. g.players = [s \in Seats |-> player]
  BY <1>1 DEF initializeGameplayAggregate
<1>3. 0 \in Positions
  BY PolicyAssumption DEF Positions
<1>4. /\ GAMEPLAY_POLICY.startingMatchCash \in 0 .. MAX_MATCH_CASH
      /\ GAMEPLAY_POLICY.maximumJailTurns \in Nat /\ GAMEPLAY_POLICY.maximumMissedTurns \in Nat
  BY PolicyAssumption
<1>5. player \in Player
  BY <1>1, <1>3, <1>4 DEF Player
<1>6. validPlayer(player)
  BY <1>1, <1>5 DEF validPlayer
<1>7. QED
  BY <1>1, <1>2, <1>6 DEF ActiveSeats

LEMMA InitialIsStorable ==
  ASSUME NEW g, g = initializeGameplayAggregate
  PROVE  hydrateGameplayState(g)
<1>1. /\ g.lifecycle = "inProgress" /\ g.stateVersion = 1 /\ g.bankCash = GAMEPLAY_POLICY.startingBankCash
      /\ g.housesRemaining = GAMEPLAY_POLICY.totalHouses /\ g.activeTrades = <<>>
      /\ g.hotelsRemaining = GAMEPLAY_POLICY.totalHotels
      /\ g.bankruptcyRequired = None /\ g.lastDice = None /\ g.terminal = None
      /\ g.turn = [phase |-> "awaitingRoll", seat |-> 0, at |-> None]
      /\ \A p \in Positions : g.properties[p].owner = None
  BY DEF initializeGameplayAggregate
<1>2. 0 \in Seats
  BY SeatsAssumption
<1>3. /\ GAMEPLAY_POLICY.startingBankCash \in 0 .. MAX_MATCH_CASH
      /\ GAMEPLAY_POLICY.totalHouses \in Nat /\ GAMEPLAY_POLICY.totalHotels \in Nat
  BY PolicyAssumption
<1>4. /\ isValidPropertyStates(g.properties) /\ isValidBuildingInventory(g)
      /\ \A s \in Seats : validPlayer(g.players[s])
      /\ ActiveSeats(g.players) = Seats
  BY InitialBoard, InitialSeats
<1>5. isValidBankruptcyState(g)
  BY <1>1, <1>3, <1>4 DEF isValidBankruptcyState
<1>6. hydrateTurn(g.turn, g.lifecycle)
  BY <1>1, <1>2 DEF hydrateTurn, Turn, PendingPhases
<1>7. validPendingPhase(g)
  BY <1>1 DEF validPendingPhase, RentIsOwed
<1>8. isValidActive(g)
  BY <1>1, <1>2, <1>4, <1>5, <1>7 DEF isValidActive
<1>9. /\ \A s \in Seats : hydratePlayer(g.players[s])
      /\ \A p \in Positions : hydrateProperty(g.properties[p])
  BY <1>4 DEF validPlayer, hydratePlayer, isValidPropertyStates, hydrateProperty
<1>10. hydrateDice(g.lastDice) /\ g.stateVersion \in 1 .. MAX_STATE_VERSION
  BY <1>1, LimitsAssumption DEF hydrateDice
<1>11. QED
  BY <1>1, <1>3, <1>6, <1>8, <1>9, <1>10 DEF hydrateGameplayState

-----------------------------------------------------------------------------
(* The room, with what it has stored *)

StoredOK == RoomOK /\ hydrateGameplayState(game)

LEMMA StoredStep ==
  ASSUME StoredOK, [RoomNext]_roomVars
  PROVE  StoredOK'
<1>1. RoomOK'
  BY RoomStep DEF StoredOK
<1>2. game' = game \/ hydrateGameplayState(game')
  <2>1. CASE Admission \/ AdmissionOfSeated \/ Lifecycle \/ Reload
    BY <2>1, LobbyKeeps DEF StoredOK
  <2>2. CASE Match
    BY <2>2, NextOK DEF Match, StoredOK, RoomOK, StepOK, ReadBack
  <2>3. CASE UNCHANGED roomVars
    BY <2>3 DEF roomVars, vars
  <2>4. QED
    BY <2>1, <2>2, <2>3 DEF RoomNext
<1>3. QED
  BY <1>1, <1>2 DEF StoredOK

LEMMA StoredInvariant == RoomSpec => []StoredOK
<1>1. RoomInit => StoredOK
  <2>1. SUFFICES ASSUME RoomInit PROVE StoredOK
    OBVIOUS
  <2>2. game = initializeGameplayAggregate /\ timeUp = FALSE /\ silent = FALSE /\ refused = {}
    BY <2>1 DEF RoomInit, Init
  <2>3. MatchOK /\ hydrateGameplayState(game)
    BY <2>2, InitialMatch, InitialIsStorable
  <2>4. QED
    BY <2>2, <2>3 DEF StoredOK, RoomOK
<1>2. StoredOK /\ [RoomNext]_roomVars => StoredOK'
  BY StoredStep
<1>3. QED
  BY <1>1, <1>2, PTL DEF RoomSpec

(* In every room, from the start of its match to the end: what the rules' own validity check     *)
(* lets the room commit, the contract lets it publish and every client read (isValidActive...,   *)
(* isValidFinishedGameplayAggregateState against GameplayPublicStateSchema).                      *)
THEOREM PublishedStateCorrect == RoomSpec => []PublishedStateIsReadable
<1>1. StoredOK => PublishedStateIsReadable
  BY StoredIsReadable DEF StoredOK, RoomOK
<1>2. QED
  BY <1>1, StoredInvariant, PTL

-----------------------------------------------------------------------------
(* While a rent is pending *)

Owing == game.turn.phase = "awaitingRentPayment" /\ game.lifecycle = "inProgress"

(* Nobody else's cash changes, and so neither does the payer's. *)
OthersKeep == \A s \in Seats \ {Current} : game'.players[s].cash = game.players[s].cash
PayerKeeps == game'.players[Current].cash = game.players[Current].cash

LEMMA RowsOfCommit ==
  ASSUME NEW kind, NEW next, NEW events, Commit(kind, next, events), DOMAIN next = FieldNames
  PROVE  \/ game'.players = game.players
         \/ game'.players = next.players /\ Reportable(events)
BY CommitCases

LEMMA SamePlayersKeep ==
  ASSUME NEW kind, NEW next, NEW events, Commit(kind, next, events), DOMAIN next = FieldNames,
         next.players = game.players
  PROVE  PayerKeeps
BY RowsOfCommit DEF PayerKeeps

(* The one who is paid is another player: what was stored says so. *)
LEMMA AnotherIsPaid ==
  ASSUME hydrateGameplayState(game), Owing, NEW owner, owner = game.properties[game.turn.at].owner
  PROVE  owner # Current
<1>1. validPendingPhase(game)
  BY DEF hydrateGameplayState, isValidActive, Owing
<1>2. QED
  BY <1>1 DEF validPendingPhase, RentIsOwed, Owing, Current

LEMMA PayRentKeeps ==
  ASSUME MatchOK, hydrateGameplayState(game), Owing, payRent, OthersKeep
  PROVE  PayerKeeps
<1>1. PICK owner, amount : /\ owner = game.properties[game.turn.at].owner
                           /\ amount = calculateRent(game.properties, game.turn.at, game.lastDice.total)
  OBVIOUS
<1>2. CASE Commit("payRent", RequireBankruptcy(game), <<>>)
  <2>1. PICK next : next = RequireBankruptcy(game)
    OBVIOUS
  <2>2. DOMAIN next = FieldNames /\ next.players = game.players
    BY <2>1, GameFields DEF FieldNames, RequireBankruptcy
  <2>3. QED
    BY <1>2, <2>1, <2>2, SamePlayersKeep
<1>3. CASE Commit("payRent", [PassRent(owner, amount) EXCEPT !.turn = phaseAfterResolvedAction],
                  <<RentPaid(Current, owner, game.turn.at, amount)>>)
  <2>1. PICK next : next = [PassRent(owner, amount) EXCEPT !.turn = phaseAfterResolvedAction]
    OBVIOUS
  <2>2. owner \in Seats /\ owner # Current
    BY <1>1, AnotherIsPaid DEF payRent, ActiveSeats
  <2>3. Current \in Seats
    BY DEF payRent, PlayerTurn, MatchOK, hydrateTurn, Turn, Current
  <2>4. Shape(game)
    BY GameShape
  <2>5. DOMAIN next = FieldNames
    BY <2>1, <2>4 DEF PassRent, Shape, FieldNames
  <2>6. game.players[Current] \in Player /\ game.players[owner] \in Player
    BY <2>2, <2>3 DEF MatchOK
  <2>7. /\ next.players[Current].cash = game.players[Current].cash - amount
        /\ next.players[owner].cash = game.players[owner].cash + amount
    BY <2>1, <2>2, <2>3, <2>4, <2>6 DEF PassRent, Me, Shape, FieldNames, Player
  <2>8. CASE game'.players = next.players /\ amount \in Nat
    <3>1. game.players[owner].cash \in Int /\ game.players[Current].cash \in Int
      BY <2>6 DEF Player
    <3>2. game.players[owner].cash + amount = game.players[owner].cash
      BY <2>2, <2>7, <2>8 DEF OthersKeep
    <3>3. amount = 0
      BY <2>8, <3>1, <3>2
    <3>4. QED
      BY <2>7, <2>8, <3>1, <3>3 DEF PayerKeeps
  <2>9. CASE game'.players = game.players
    BY <2>9 DEF PayerKeeps
  <2>10. QED
    BY <1>3, <2>1, <2>5, <2>8, <2>9, RowsOfCommit, RentIsNatural
<1>4. QED
  BY <1>1, <1>2, <1>3 DEF payRent

LEMMA AcceptTradeKeeps ==
  ASSUME MatchOK, NEW i \in DOMAIN game.activeTrades, acceptTrade(i), OthersKeep
  PROVE  PayerKeeps
<1>1. PICK trade \in Trade : trade = game.activeTrades[i]
  BY DEF MatchOK
<1>2. PICK a \in Seats, b \in Seats, terms \in Terms :
        a = trade.proposer /\ b = trade.receiver /\ terms = trade.terms /\ a # b
  BY TermsAssumption DEF Trade
<1>3. PICK offered, requested : offered = terms.offeredCash /\ requested = terms.requestedCash
  OBVIOUS
<1>4. offered \in Int /\ requested \in Int
  BY <1>3 DEF Terms
<1>5. PICK list, events :
        Commit("acceptTrade",
             [game EXCEPT !.players[a].cash = game.players[a].cash - offered + requested,
                          !.players[b].cash = game.players[b].cash - requested + offered,
                          !.properties = Swapped(game, trade),
                          !.activeTrades = list], events)
  BY <1>1, <1>2, <1>3 DEF acceptTrade, Swapped
<1>6. PICK next : next =
        [game EXCEPT !.players[a].cash = game.players[a].cash - offered + requested,
                     !.players[b].cash = game.players[b].cash - requested + offered,
                     !.properties = Swapped(game, trade),
                     !.activeTrades = list]
  OBVIOUS
<1>7. Shape(game)
  BY GameShape
<1>8. /\ DOMAIN next = FieldNames
      /\ \A s \in Seats \ {a, b} : next.players[s] = game.players[s]
  BY <1>6, <1>7 DEF Shape, FieldNames
<1>9. game.players[a] \in Player /\ game.players[b] \in Player
  BY DEF MatchOK
<1>10. /\ next.players[a].cash = game.players[a].cash - offered + requested
       /\ next.players[b].cash = game.players[b].cash - requested + offered
  BY <1>2, <1>6, <1>7, <1>9 DEF Shape, FieldNames, Player
<1>11. game.players[a].cash \in Int /\ game.players[b].cash \in Int
  BY <1>9 DEF Player
<1>12. CASE game'.players = game.players
  BY <1>12 DEF PayerKeeps
<1>13. CASE game'.players = next.players
  <2>1. CASE Current \notin {a, b}
    <3>1. Current \in Seats
      BY CurrentIsSeated DEF acceptTrade, TradesOpen, InProgress, MatchOK, hydrateTurn
    <3>2. QED
      BY <1>8, <1>13, <2>1, <3>1 DEF PayerKeeps
  <2>2. CASE Current = a
    <3>1. offered = requested
      BY <1>2, <1>4, <1>10, <1>11, <1>13, <2>2 DEF OthersKeep
    <3>2. QED
      BY <1>4, <1>10, <1>11, <1>13, <2>2, <3>1 DEF PayerKeeps
  <2>3. CASE Current = b
    <3>1. offered = requested
      BY <1>2, <1>4, <1>10, <1>11, <1>13, <2>3 DEF OthersKeep
    <3>2. QED
      BY <1>4, <1>10, <1>11, <1>13, <2>3, <3>1 DEF PayerKeeps
  <2>4. QED
    BY <2>1, <2>2, <2>3
<1>14. QED
  BY <1>5, <1>6, <1>8, <1>12, <1>13, RowsOfCommit

LEMMA TradeListKeeps ==
  ASSUME MatchOK, NEW kind, NEW list, NEW events, Commit(kind, [game EXCEPT !.activeTrades = list], events)
  PROVE  PayerKeeps
<1>1. PICK next : next = [game EXCEPT !.activeTrades = list]
  OBVIOUS
<1>2. DOMAIN next = FieldNames /\ next.players = game.players
  BY <1>1, GameFields DEF FieldNames
<1>3. QED
  BY <1>1, <1>2, SamePlayersKeep

LEMMA TradingKeeps ==
  ASSUME MatchOK, Trading \/ cleanupExpiredTrades, OthersKeep
  PROVE  PayerKeeps
<1>1. CASE \E proposer, receiver \in Seats, terms \in TradeTerms :
             proposer # receiver /\ createTrade(proposer, receiver, terms)
  <2>1. PICK list, events : Commit("createTrade", [game EXCEPT !.activeTrades = list], events)
    BY <1>1 DEF createTrade
  <2>2. QED
    BY <2>1, TradeListKeeps
<1>2. ASSUME NEW i \in DOMAIN game.activeTrades, rejectTrade(i) \/ cancelTrade(i)
      PROVE  PayerKeeps
  <2>1. PICK kind, list, events : Commit(kind, [game EXCEPT !.activeTrades = list], events)
    BY <1>2 DEF rejectTrade, cancelTrade, removeTrade
  <2>2. QED
    BY <2>1, TradeListKeeps
<1>3. CASE cleanupExpiredTrades
  <2>1. PICK k, events :
          Commit("cleanupExpiredTrades", [game EXCEPT !.activeTrades = Drop(k, game.activeTrades)], events)
    BY <1>3 DEF cleanupExpiredTrades
  <2>2. QED
    BY <2>1, TradeListKeeps
<1>4. QED
  BY <1>1, <1>2, <1>3, AcceptTradeKeeps DEF Trading

(* A turn that is missed, or the end of the match, moves no cash; a forfeit eliminates. *)
LEMMA TimersKeep ==
  ASSUME MatchOK, handleTurnTimeout \/ enforceGameTimeLimit
  PROVE  PayerKeeps \/ game'.players[Current].status = "eliminated"
<1>1. Shape(game)
  BY GameShape
<1>2. CASE enforceGameTimeLimit
  <2>1. PICK next : next = finishState(game, "timeLimit")
    OBVIOUS
  <2>2. PICK events : Commit("enforceGameTimeLimit", next, events)
    BY <1>2, <2>1 DEF enforceGameTimeLimit
  <2>3. DOMAIN next = FieldNames /\ next.players = game.players
    BY <1>1, <2>1 DEF finishState, Shape, FieldNames
  <2>4. QED
    BY <2>2, <2>3, SamePlayersKeep
<1>3. ASSUME NEW missed, missed = [game EXCEPT !.players[Current].missedTurns = @ + 1], Current \in Seats
      PROVE  /\ DOMAIN missed = FieldNames /\ missed.lifecycle = game.lifecycle
             /\ missed.properties = game.properties /\ missed.players = [s \in Seats |-> missed.players[s]]
             /\ \A s \in Seats \ {Current} : missed.players[s] = game.players[s]
             /\ DOMAIN missed.players[Current] = DOMAIN game.players[Current]
  BY <1>1, <1>3 DEF Shape, FieldNames
<1>4. ASSUME handleTurnTimeout
      PROVE  PayerKeeps \/ game'.players[Current].status = "eliminated"
  <2>1. PICK missed : /\ missed = [game EXCEPT !.players[Current].missedTurns = @ + 1]
                      /\ MissTurn(missed) \/ Forfeit(missed)
    BY <1>4 DEF handleTurnTimeout
  <2>2. Current \in Seats
    BY <1>4, CurrentIsSeated DEF handleTurnTimeout, TimerRuns, InProgress, MatchOK, hydrateTurn
  <2>3. CASE MissTurn(missed)
    <3>1. PICK next : next = [missed EXCEPT !.turn = advanceGameplayTurn, !.lastDice = None]
      OBVIOUS
    <3>2. PICK events : Commit("handleTurnTimeout", next, events)
      BY <2>3, <3>1 DEF MissTurn
    <3>3. DOMAIN next = FieldNames /\ next.players = missed.players
      BY <1>3, <2>1, <2>2, <3>1 DEF FieldNames
    <3>4. missed.players[Current].cash = game.players[Current].cash
      <4>1. PICK rows : rows = game.players
        OBVIOUS
      <4>2. rows \in [Seats -> Player]
        BY <4>1 DEF MatchOK
      <4>3. missed.players = [rows EXCEPT ![Current].missedTurns = @ + 1]
        BY <1>1, <2>1, <4>1 DEF Shape, FieldNames
      <4>4. QED
        BY <2>2, <4>1, <4>2, <4>3 DEF Player
    <3>5. QED
      BY <3>2, <3>3, <3>4, RowsOfCommit DEF PayerKeeps
  <2>4. CASE Forfeit(missed)
    <3>1. PICK g, next, events :
            /\ g = resolveBankruptcy(missed, Current) /\ next = ContinueOrFinish(g, "timeoutForfeit")
            /\ Commit("handleTurnTimeout", next, events)
      BY <2>4 DEF Forfeit
    <3>2. Eliminated(g)
      BY <1>3, <2>1, <2>2, <3>1, ResolveEliminates
    <3>3. DOMAIN next = FieldNames /\ next.players = g.players
      BY <3>1, <3>2 DEF ContinueOrFinish, finishState, Eliminated, FieldNames
    <3>4. g.players[Current].status = "eliminated"
      BY <3>2 DEF Eliminated
    <3>5. QED
      BY <3>1, <3>3, <3>4, RowsOfCommit DEF PayerKeeps
  <2>5. QED
    BY <2>1, <2>3, <2>4
<1>5. QED
  BY <1>2, <1>4

LEMMA OwingKeeps ==
  ASSUME MatchOK, hydrateGameplayState(game), Owing, Next, OthersKeep
  PROVE  PayerKeeps \/ game'.players[Current].status = "eliminated"
<1>1. ~rollDice /\ ~endTurn /\ ~buyProperty /\ ~declineProperty
  BY DEF Owing, rollDice, endTurn, buyProperty, declineProperty, PlayerTurn
<1>2. ~payMevTax /\ ~payPriorityFeeTax /\ ~payJailFine /\ ~useJailCard /\ ~drawCard /\ ~declareBankruptcy
  BY DEF Owing, payMevTax, payPriorityFeeTax, PayTax, payJailFine, useJailCard, drawCard,
         declareBankruptcy, PlayerTurn
<1>3. ~Building
  BY DEF Owing, Building, buildHouse, buildHotel, sellHouse, sellHotel, BuildingAction, PlayerTurn
<1>4. CASE TimeLimitReached \/ FallSilent
  BY <1>4 DEF TimeLimitReached, FallSilent, PayerKeeps
<1>5. QED
  BY <1>1, <1>2, <1>3, <1>4, PayRentKeeps, TradingKeeps, TimersKeep DEF Next

(* The action property without its box. *)
PaidOver ==
  LET Total(g) == MapThenSumSet(LAMBDA s : g.players[s].cash, Seats) IN
  \/ Total(game') = Total(game)
  \/ /\ \A s \in Seats \ {Current} : game'.players[s].cash = game.players[s].cash
     /\ game.turn.phase = "awaitingRentPayment" => game'.players[Current].status = "eliminated"

LEMMA SameCash ==
  ASSUME OthersKeep, PayerKeeps
  PROVE  PaidOver
<1>1. PICK g, h : g = game /\ h = game'
  OBVIOUS
<1>2. CashOf(h) = CashOf(g)
  BY <1>1 DEF CashOf, OthersKeep, PayerKeeps
<1>3. MapThenSumSet(LAMBDA s : h.players[s].cash, Seats)
        = MapThenSumSet(LAMBDA s : g.players[s].cash, Seats)
  <2>1. MapThenSumSet(LAMBDA s : h.players[s].cash, Seats) = SumFcn(Seats, CashOf(h))[Seats]
    BY CashIsSummed
  <2>2. MapThenSumSet(LAMBDA s : g.players[s].cash, Seats) = SumFcn(Seats, CashOf(g))[Seats]
    BY CashIsSummed
  <2>3. QED
    BY <1>2, <2>1, <2>2
<1>4. QED
  BY <1>1, <1>3 DEF PaidOver

LEMMA PaidStep ==
  ASSUME StoredOK, [RoomNext]_roomVars
  PROVE  [PaidOver]_vars
<1>1. SUFFICES ASSUME vars' # vars PROVE PaidOver
  OBVIOUS
<1>2. Matched
  BY <1>1, RoomStep DEF StoredOK
<1>3. CASE ~OthersKeep
  BY <1>2, <1>3 DEF Matched, PaidOver, OthersKeep
<1>4. CASE OthersKeep /\ PayerKeeps
  BY <1>4, SameCash
<1>5. CASE OthersKeep /\ game'.players[Current].status = "eliminated"
  BY <1>5 DEF OthersKeep, PaidOver
<1>6. CASE OthersKeep /\ game.turn.phase # "awaitingRentPayment"
  BY <1>6 DEF OthersKeep, PaidOver
<1>7. ASSUME OthersKeep, game.turn.phase = "awaitingRentPayment"
      PROVE  PayerKeeps \/ game'.players[Current].status = "eliminated"
  <2>1. CASE Admission \/ AdmissionOfSeated \/ Lifecycle \/ Reload
    BY <2>1, LobbyKeeps DEF StoredOK, PayerKeeps
  <2>2. CASE Match
    <3>1. MatchOK /\ hydrateGameplayState(game) /\ Next
      BY <2>2 DEF Match, StoredOK, RoomOK
    <3>2. Owing
      BY <1>7, <3>1 DEF Owing, MatchOK, hydrateTurn
    <3>3. QED
      BY <1>7, <3>1, <3>2, OwingKeeps
  <2>3. CASE UNCHANGED roomVars
    BY <2>3 DEF roomVars, vars, PayerKeeps
  <2>4. QED
    BY <2>1, <2>2, <2>3 DEF RoomNext
<1>8. QED
  BY <1>3, <1>4, <1>5, <1>6, <1>7

(* In every room: cash that leaves or reaches a player who is not on turn, or is paid while a    *)
(* rent is pending, reaches or leaves another player to the last unit, whoever owns the property *)
(* by then (payRent, acceptTrade); a pending rent's owner is never the payer, as such a game is  *)
(* not stored (isValidActiveGameplayAggregateState).                                             *)
THEOREM CashCorrect == RoomSpec => OthersCashIsMatched
<1>1. StoredOK /\ [RoomNext]_roomVars => [PaidOver]_vars
  BY PaidStep
<1>2. RoomSpec => [][PaidOver]_vars
  BY <1>1, StoredInvariant, PTL DEF RoomSpec
<1>3. QED
  BY <1>2 DEF OthersCashIsMatched, PaidOver

-----------------------------------------------------------------------------
(* Events the contract admits *)

Admitted(event) == GameplayEventPayloadSchema(gameplayPayload(event))

LEMMA EventsReported ==
  ASSUME NEW n \in 0 .. MaxEvents, NEW events, DOMAIN events = 1 .. n,
         \A i \in 1 .. n : Admitted(events[i])
  PROVE  Reportable(events)
<1>1. PICK payloads : payloads = gameplayEvents(events)
  OBVIOUS
<1>2. payloads = [i \in 1 .. n |-> gameplayPayload(events[i])]
  BY <1>1 DEF gameplayEvents
<1>3. Len(payloads) = n
  BY <1>2 DEF MaxEvents
<1>4. CommandAcknowledgementSchema(payloads)
  BY <1>3 DEF CommandAcknowledgementSchema, MaxEvents
<1>5. \A i \in DOMAIN payloads : GameplayEventPayloadSchema(payloads[i])
  BY <1>2 DEF Admitted
<1>6. QED
  BY <1>1, <1>4, <1>5 DEF Reportable

LEMMA NoEvents == Reportable(<<>>)
<1>1. 0 \in 0 .. MaxEvents /\ DOMAIN <<>> = 1 .. 0 /\ \A i \in 1 .. 0 : Admitted(<<>>[i])
  BY DEF MaxEvents
<1>2. QED
  BY <1>1, EventsReported

LEMMA OneEvent ==
  ASSUME NEW a, Admitted(a)
  PROVE  Reportable(<<a>>)
<1>1. 1 \in 0 .. MaxEvents /\ DOMAIN <<a>> = 1 .. 1 /\ \A i \in 1 .. 1 : Admitted(<<a>>[i])
  BY DEF MaxEvents
<1>2. QED
  BY <1>1, EventsReported

LEMMA TwoEvents ==
  ASSUME NEW a, NEW b, Admitted(a), Admitted(b)
  PROVE  Reportable(<<a, b>>)
<1>1. 2 \in 0 .. MaxEvents /\ DOMAIN <<a, b>> = 1 .. 2 /\ \A i \in 1 .. 2 : Admitted(<<a, b>>[i])
  BY DEF MaxEvents
<1>2. QED
  BY <1>1, EventsReported

LEMMA ThreeEvents ==
  ASSUME NEW a, NEW b, NEW c, Admitted(a), Admitted(b), Admitted(c)
  PROVE  Reportable(<<a, b, c>>)
<1>1. /\ 3 \in 0 .. MaxEvents /\ DOMAIN <<a, b, c>> = 1 .. 3
      /\ \A i \in 1 .. 3 : Admitted(<<a, b, c>>[i])
  BY DEF MaxEvents
<1>2. QED
  BY <1>1, EventsReported

LEMMA RolledAdmitted ==
  ASSUME NEW seat \in Seats, NEW d \in Dice
  PROVE  Admitted(Rolled(seat, RollOf(d)))
<1>1. d \in (1 .. 6) \X (1 .. 6)
  BY DiceAssumption
<1>2. PICK x \in 1 .. 6, y \in 1 .. 6 : d = <<x, y>>
  BY <1>1
<1>3. PICK roll : roll = RollOf(d)
  OBVIOUS
<1>4. roll = [dice |-> <<x, y>>, total |-> x + y, isDoubles |-> x = y]
  BY <1>2, <1>3 DEF RollOf
<1>5. PICK wire : wire = [dieOne |-> x, dieTwo |-> y, total |-> x + y, isDoubles |-> x = y]
  OBVIOUS
<1>6. wireDice(roll) = wire
  BY <1>4, <1>5 DEF wireDice
<1>7. DiceResultSchema(wire)
  BY <1>5, Zenon DEF DiceResultSchema
<1>8. gameplayPayload(Rolled(seat, roll)) = [type |-> "diceRolled", player |-> seat, dice |-> wire]
  BY <1>6 DEF gameplayPayload, Rolled
<1>9. QED
  BY <1>3, <1>7, <1>8 DEF Admitted, GameplayEventPayloadSchema

LEMMA MovedAdmitted ==
  ASSUME NEW seat \in Seats, NEW from \in Positions, NEW movement, movement.to \in Positions,
         NEW salary \in Nat
  PROVE  Admitted(Moved(seat, from, movement, salary))
BY DEF Admitted, GameplayEventPayloadSchema, gameplayPayload, Moved, InMatchCash

LEMMA JailEnteredAdmitted ==
  ASSUME NEW seat \in Seats, NEW reason \in {"space", "threeDoubles"}
  PROVE  Admitted(JailEntered(seat, reason))
BY DEF Admitted, GameplayEventPayloadSchema, gameplayPayload, JailEntered

LEMMA JailExitedAdmitted ==
  ASSUME NEW seat \in Seats, NEW method \in {"doubles", "fine", "card"}
  PROVE  Admitted(JailExited(seat, method))
BY DEF Admitted, GameplayEventPayloadSchema, gameplayPayload, JailExited

LEMMA PropertyDecidedAdmitted ==
  ASSUME NEW type \in {"propertyPurchased", "propertyDeclined"}, NEW seat \in Seats,
         NEW p \in Positions, NEW price \in Nat
  PROVE  Admitted(PropertyDecided(type, seat, p, price))
BY DEF Admitted, GameplayEventPayloadSchema, gameplayPayload, PropertyDecided, InMatchCash

LEMMA RentPaidAdmitted ==
  ASSUME NEW payer \in Seats, NEW owner \in Seats, NEW p \in Positions, NEW amount \in Nat
  PROVE  Admitted(RentPaid(payer, owner, p, amount))
BY DEF Admitted, GameplayEventPayloadSchema, gameplayPayload, RentPaid, InMatchCash

LEMMA BuildingBuiltAdmitted ==
  ASSUME NEW seat \in Seats, NEW p \in Positions, NEW type, NEW houses \in 0 .. MaxHouses, NEW cost \in Nat
  PROVE  Admitted(BuildingBuilt(seat, p, type, houses, cost))
BY DEF Admitted, GameplayEventPayloadSchema, gameplayPayload, BuildingBuilt, InMatchCash

LEMMA BuildingSoldAdmitted ==
  ASSUME NEW seat \in Seats, NEW p \in Positions, NEW type, NEW price \in Nat
  PROVE  Admitted(BuildingSold(seat, p, type, price))
BY DEF Admitted, GameplayEventPayloadSchema, gameplayPayload, BuildingSold, InMatchCash

LEMMA TaxPaidAdmitted ==
  ASSUME NEW seat \in Seats, NEW kind \in {"mev", "priorityFee"}, NEW tax,
         tax.position \in Positions, tax.amount \in Nat
  PROVE  Admitted(TaxPaid(seat, kind, tax))
BY DEF Admitted, GameplayEventPayloadSchema, gameplayPayload, TaxPaid, InMatchCash

LEMMA PlayerBankruptAdmitted ==
  ASSUME NEW seat \in Seats, NEW value \in Nat, NEW cash \in Nat
  PROVE  Admitted(PlayerBankrupt(seat, value, cash))
BY DEF Admitted, GameplayEventPayloadSchema, gameplayPayload, PlayerBankrupt, InMatchCash

LEMMA CardDrawnAdmitted ==
  ASSUME NEW seat \in Seats, NEW deck \in {"chance", "communityChest"}, NEW card,
         card.id \in 1 .. 5, card.effect = ContractEffects(deck)[card.id]
  PROVE  Admitted(CardDrawn(seat, deck, card))
BY DEF Admitted, GameplayEventPayloadSchema, gameplayPayload, CardDrawn, cardDrawnEvent

LEMMA TradeEventsAdmitted ==
  ASSUME NEW seat \in Seats, NEW type \in {"tradeRejected", "tradeCancelled"}
  PROVE  /\ Admitted(TradeEnded(type, seat)) /\ Admitted([type |-> "tradeExpired"])
BY DEF Admitted, GameplayEventPayloadSchema, gameplayPayload, TradeEnded

LEMMA TimeoutEventsAdmitted ==
  ASSUME NEW seat \in Seats, NEW next \in Seats, NEW missed \in 1 .. GAMEPLAY_POLICY.maximumMissedTurns
  PROVE  /\ Admitted(TimeoutPenalty(seat, missed)) /\ Admitted(ForcedTurnEnd(seat, next))
         /\ Admitted(TimeoutForfeit(seat, GAMEPLAY_POLICY.maximumMissedTurns))
BY DEF Admitted, GameplayEventPayloadSchema, gameplayPayload, TimeoutPenalty, TimeoutForfeit, ForcedTurnEnd

-----------------------------------------------------------------------------
(* No command but the acceptance of a trade is refused *)

(* While a match is played, two are in it: the end comes with the last but one's elimination. *)
Contested(g) == g.lifecycle = "inProgress" => Cardinality(ActiveSeats(g.players)) >= 2

Playable == MatchOK /\ hydrateGameplayState(game) /\ Contested(game) /\ OnlyTradesAreRefused

-----------------------------------------------------------------------------
(* Moving and taking turns *)

LEMMA LeastOfNat ==
  ASSUME NEW T \in SUBSET Nat, T # {}
  PROVE  Min(T) \in T
<1>1. \E m \in T : \A k \in T : m <= k
  BY LeastElement
<1>2. QED
  BY <1>1, Zenon DEF Min

LEMMA Residue ==
  ASSUME NEW m \in Nat \ {0}, NEW a \in Int
  PROVE  a % m \in 0 .. m - 1
OBVIOUS

LEMMA MovesToPosition ==
  ASSUME NEW position \in Int, NEW spaces \in Int
  PROVE  moveBy(position, spaces).to \in Positions
<1>1. GAMEPLAY_POLICY.boardSize \in Nat \ {0} /\ position + spaces \in Int
  BY PolicyAssumption
<1>2. (position + spaces) % GAMEPLAY_POLICY.boardSize \in 0 .. GAMEPLAY_POLICY.boardSize - 1
  BY <1>1, Residue
<1>3. QED
  BY <1>2 DEF moveBy, Positions

LEMMA ResidueOfSmall ==
  ASSUME NEW m \in Nat \ {0}, NEW a \in 0 .. m - 1
  PROVE  a % m = a /\ (a + m) % m = a
OBVIOUS

LEMMA NextIsActive ==
  ASSUME NEW players, NEW seat \in Seats, ActiveSeats(players) # {}
  PROVE  nextActiveSeat(players, seat) \in ActiveSeats(players)
<1>1. PICK m : m = GAMEPLAY_POLICY.maximumPlayers
  OBVIOUS
<1>2. m \in Nat
  BY <1>1, PolicyAssumption
<1>3. PICK a \in ActiveSeats(players) : TRUE
  OBVIOUS
<1>4. a \in 0 .. m - 1 /\ seat \in 0 .. m - 1 /\ m \in Nat \ {0}
  BY <1>1, <1>2, <1>3, SeatsAssumption DEF ActiveSeats
<1> DEFINE T == {o \in 1 .. m : (seat + o) % m \in ActiveSeats(players)}
<1>5. PICK o : o = IF a > seat THEN a - seat ELSE a - seat + m
  OBVIOUS
<1>6. o \in 1 .. m /\ (seat + o = a \/ seat + o = a + m)
  BY <1>4, <1>5
<1>7. (seat + o) % m = a
  BY <1>4, <1>6, ResidueOfSmall
<1>8. T # {} /\ T \in SUBSET Nat
  BY <1>2, <1>3, <1>6, <1>7
<1>9. Min(T) \in T
  BY <1>8, LeastOfNat
<1>10. nextActiveSeat(players, seat) = (seat + Min(T)) % m
  BY <1>1 DEF nextActiveSeat
<1>11. QED
  BY <1>9, <1>10

LEMMA NearestIsPosition ==
  ASSUME NEW position \in Positions
  PROVE  moveToNearest(position, NearestTargets).to \in Positions
<1>1. PICK n : n = GAMEPLAY_POLICY.boardSize
  OBVIOUS
<1>2. n \in Nat /\ position \in 0 .. n - 1
  BY <1>1, PolicyAssumption DEF Positions
<1>3. NearestTargets \in SUBSET (0 .. n - 1) /\ NearestTargets # {}
  BY <1>1, BoardAssumption DEF Positions
<1> DEFINE Ahead(t) == IF t > position THEN t - position ELSE n + t - position
           T == {Ahead(t) : t \in NearestTargets}
<1>4. \A t \in NearestTargets : Ahead(t) \in Nat
  <2>1. SUFFICES ASSUME NEW t \in NearestTargets PROVE Ahead(t) \in Nat
    OBVIOUS
  <2>2. t \in 0 .. n - 1
    BY <1>3
  <2>3. QED
    BY <1>2, <2>2
<1>5. Min(T) \in Nat
  <2> HIDE DEF Ahead
  <2>1. T \in SUBSET Nat /\ T # {}
    BY <1>3, <1>4
  <2>2. QED
    BY <2>1, LeastOfNat
<1>6. moveToNearest(position, NearestTargets) = moveBy(position, Min(T))
  BY <1>1 DEF moveToNearest
<1>7. position \in Int /\ Min(T) \in Int
  BY <1>2, <1>5
<1>8. QED
  BY <1>6, <1>7, MovesToPosition

-----------------------------------------------------------------------------
(* What is stored of a match: its validity, field by field *)

HotelsOf(board) == {p \in Positions : board[p].hasHotel}

(* The buildings on the board and in stock are all there are. *)
Stock(board, houses, hotels) ==
  /\ houses \in 0 .. GAMEPLAY_POLICY.totalHouses
  /\ hotels \in 0 .. GAMEPLAY_POLICY.totalHotels
  /\ houses + SumFcn(Positions, HousesOf(board))[Positions] = GAMEPLAY_POLICY.totalHouses
  /\ hotels + Cardinality(HotelsOf(board)) = GAMEPLAY_POLICY.totalHotels

LEMMA InventoryIsStock ==
  ASSUME NEW g
  PROVE  isValidBuildingInventory(g) <=> Stock(g.properties, g.housesRemaining, g.hotelsRemaining)
<1>1. Positions \in SUBSET Positions
  OBVIOUS
<1>2. HousesOn(g, Positions) = SumFcn(Positions, HousesOf(g.properties))[Positions]
  BY <1>1, HousesAreSummed
<1>3. PICK n : n = HousesOn(g, Positions)
  OBVIOUS
<1>4. isValidBuildingInventory(g) <=>
        /\ g.housesRemaining \in 0 .. GAMEPLAY_POLICY.totalHouses
        /\ g.hotelsRemaining \in 0 .. GAMEPLAY_POLICY.totalHotels
        /\ g.housesRemaining + n = GAMEPLAY_POLICY.totalHouses
        /\ g.hotelsRemaining + Cardinality(HotelsOf(g.properties)) = GAMEPLAY_POLICY.totalHotels
  BY <1>3, Zenon DEF isValidBuildingInventory, HousesOn, HotelsOf
<1>5. QED
  BY <1>2, <1>3, <1>4, Zenon DEF Stock

(* The board, the seats and their owners, and whose turn it is and what for. *)
BoardOK(g) ==
  /\ isValidPropertyStates(g.properties) /\ Stock(g.properties, g.housesRemaining, g.hotelsRemaining)
  /\ g.bankCash \in 0 .. MAX_MATCH_CASH
SeatsOK(g) ==
  /\ \A s \in Seats : validPlayer(g.players[s])
  /\ \A p \in Positions : g.properties[p].owner \in ActiveSeats(g.players) \cup {None}
TurnOK(g) ==
  /\ g.turn \in Turn /\ g.turn.phase # "finished" /\ g.turn.seat \in ActiveSeats(g.players)
  /\ hydrateDice(g.lastDice)
  /\ IF g.lastDice = None THEN g.turn.phase \in {"awaitingRoll", "awaitingBankruptcy"}
     ELSE validDice(g.lastDice)
  /\ g.bankruptcyRequired = IF g.turn.phase = "awaitingBankruptcy" THEN g.turn.seat ELSE None
  /\ validPendingPhase(g)
TradesOK(g) ==
  \A i \in DOMAIN g.activeTrades : hydrateTrade(g.activeTrades[i]) /\ validPendingTrade(g.activeTrades[i])

(* What a command makes of a match that goes on. *)
Running(g) ==
  /\ DOMAIN g = FieldNames /\ g.lifecycle = "inProgress" /\ g.terminal = None
  /\ g.stateVersion \in Nat /\ g.stateVersion < MAX_STATE_VERSION
  /\ BoardOK(g) /\ SeatsOK(g) /\ TurnOK(g) /\ TradesOK(g)

LEMMA BankruptcyStateIs ==
  ASSUME NEW g
  PROVE  isValidBankruptcyState(g) <=> BoardOK(g) /\ SeatsOK(g)
BY InventoryIsStock, Zenon DEF isValidBankruptcyState, BoardOK, SeatsOK

LEMMA RunningIsStorable ==
  ASSUME NEW g, Running(g)
  PROVE  hydrateGameplayState([g EXCEPT !.stateVersion = @ + 1])
<1>1. PICK h : h = [g EXCEPT !.stateVersion = @ + 1]
  OBVIOUS
<1>2. /\ h.lifecycle = g.lifecycle /\ h.players = g.players /\ h.properties = g.properties
      /\ h.bankCash = g.bankCash /\ h.housesRemaining = g.housesRemaining
      /\ h.hotelsRemaining = g.hotelsRemaining /\ h.turn = g.turn /\ h.terminal = g.terminal
      /\ h.bankruptcyRequired = g.bankruptcyRequired /\ h.activeTrades = g.activeTrades
      /\ h.lastDice = g.lastDice
  BY <1>1 DEF Running, FieldNames
<1>3. h.stateVersion \in 1 .. MAX_STATE_VERSION
  BY <1>1, LimitsAssumption DEF Running, FieldNames
<1>4. BoardOK(h) /\ SeatsOK(h)
  BY <1>2 DEF Running, BoardOK, SeatsOK
<1>5. validPendingPhase(h)
  BY <1>2 DEF Running, TurnOK, validPendingPhase, RentIsOwed
<1>6. isValidActive(h) /\ hydrateTurn(h.turn, h.lifecycle) /\ hydrateDice(h.lastDice)
  BY <1>2, <1>4, <1>5, BankruptcyStateIs DEF Running, TurnOK, TradesOK, isValidActive, hydrateTurn
<1>7. /\ \A s \in Seats : hydratePlayer(h.players[s])
      /\ \A p \in Positions : hydrateProperty(h.properties[p])
      /\ h.bankCash \in 0 .. MAX_MATCH_CASH
      /\ h.housesRemaining \in 0 .. GAMEPLAY_POLICY.totalHouses
      /\ h.hotelsRemaining \in 0 .. GAMEPLAY_POLICY.totalHotels
  BY <1>4 DEF BoardOK, SeatsOK, Stock, isValidPropertyStates, validPlayer, hydratePlayer, hydrateProperty
<1>8. \A i \in DOMAIN h.activeTrades : hydrateTrade(h.activeTrades[i])
  BY <1>2 DEF Running, TradesOK
<1>9. h.lifecycle = "inProgress" /\ h.terminal = None
  BY <1>2 DEF Running
<1>10. hydrateGameplayState(h)
  BY <1>3, <1>6, <1>7, <1>8, <1>9 DEF hydrateGameplayState
<1>11. QED
  BY <1>1, <1>10

LEMMA TradeCanBeStored ==
  ASSUME NEW trade \in Trade
  PROVE  hydrateTrade(trade) /\ validPendingTrade(trade)
<1>1. trade.terms \in Terms /\ validTerms(trade.terms)
  BY TermsAssumption DEF Trade
<1>2. /\ DOMAIN trade = {"proposer", "receiver", "terms"} /\ {trade.proposer, trade.receiver} \subseteq Seats
      /\ trade.proposer # trade.receiver
  BY DEF Trade
<1>3. QED
  BY <1>1, <1>2, SeatsAssumption DEF hydrateTrade, hydrateTerms, validPendingTrade

LEMMA StoredIsRunning ==
  ASSUME MatchOK, hydrateGameplayState(game), InProgress
  PROVE  Running(game)
<1>1. isValidActive(game) /\ isValidBankruptcyState(game) /\ hydrateTurn(game.turn, game.lifecycle)
  BY StoredIsValid DEF InProgress
<1>2. BoardOK(game) /\ SeatsOK(game)
  BY <1>1, BankruptcyStateIs
<1>3. DOMAIN game = FieldNames /\ game.stateVersion \in Nat /\ hydrateDice(game.lastDice)
  BY GameFields DEF MatchOK
<1>4. TurnOK(game)
  BY <1>1, <1>3 DEF TurnOK, isValidActive, hydrateTurn
<1>5. TradesOK(game)
  BY TradeCanBeStored DEF TradesOK, MatchOK
<1>6. QED
  BY <1>1, <1>2, <1>3, <1>4, <1>5 DEF Running, isValidActive, InProgress

-----------------------------------------------------------------------------
(* A command that is committed *)

(* A match that is played, before a command that its own state does not refuse. *)
Ready == MatchOK /\ hydrateGameplayState(game) /\ Contested(game) /\ InProgress

Played == refused' \subseteq refused \cup {"acceptTrade"} /\ Contested(game')

LEMMA ReadyRuns ==
  ASSUME Ready
  PROVE  /\ Running(game) /\ Cardinality(ActiveSeats(game.players)) >= 2
         /\ Current \in ActiveSeats(game.players) /\ Current \in Seats
         /\ Me \in Player /\ validPlayer(Me) /\ Me.status = "active"
<1>1. Running(game) /\ Cardinality(ActiveSeats(game.players)) >= 2
  BY StoredIsRunning DEF Ready, Contested, InProgress
<1>2. Current \in ActiveSeats(game.players)
  BY <1>1 DEF Running, TurnOK, Current
<1>3. Current \in Seats /\ Me.status = "active"
  BY <1>2 DEF ActiveSeats, Me
<1>4. validPlayer(Me)
  BY <1>1, <1>3 DEF Running, SeatsOK, Me
<1>5. Me \in Player
  BY <1>4 DEF validPlayer
<1>6. QED
  BY <1>1, <1>2, <1>3, <1>4, <1>5

LEMMA RunningPlays ==
  ASSUME NEW kind, NEW next, NEW events, Commit(kind, next, events),
         Reportable(events), Running(next), Cardinality(ActiveSeats(next.players)) >= 2
  PROVE  Played
<1>1. PICK committed : committed = [next EXCEPT !.stateVersion = @ + 1]
  OBVIOUS
<1>2. hydrateGameplayState(committed)
  BY <1>1, RunningIsStorable
<1>3. game' = committed /\ refused' = refused
  BY <1>1, <1>2 DEF Commit
<1>4. game'.players = next.players
  BY <1>1, <1>3 DEF Running, FieldNames
<1>5. QED
  BY <1>3, <1>4 DEF Played, Contested

(* The current player's row changes; he stays in the match. *)
RowOf(next, row) ==
  /\ DOMAIN next = FieldNames /\ next.lifecycle = game.lifecycle /\ next.terminal = game.terminal
  /\ next.stateVersion = game.stateVersion /\ next.activeTrades = game.activeTrades
  /\ next.players = [game.players EXCEPT ![Current] = row]
  /\ row.status = "active"
SameBoard(next) ==
  /\ next.properties = game.properties /\ next.bankCash = game.bankCash
  /\ next.housesRemaining = game.housesRemaining /\ next.hotelsRemaining = game.hotelsRemaining

LEMMA RowKeepsSeats ==
  ASSUME Ready, NEW next, NEW row, RowOf(next, row)
  PROVE  /\ ActiveSeats(next.players) = ActiveSeats(game.players)
         /\ next.players[Current] = row
         /\ \A s \in Seats \ {Current} : next.players[s] = game.players[s]
<1>1. game.players = [s \in Seats |-> game.players[s]]
  BY GameFields DEF Ready
<1>2. Current \in Seats /\ Me.status = "active"
  BY ReadyRuns
<1>3. /\ next.players[Current] = row
      /\ \A s \in Seats \ {Current} : next.players[s] = game.players[s]
  BY <1>1, <1>2 DEF RowOf
<1>4. row.status = "active"
  BY DEF RowOf
<1>5. QED
  BY <1>2, <1>3, <1>4 DEF ActiveSeats, Me

LEMMA RowRuns ==
  ASSUME Ready, NEW next, NEW row, RowOf(next, row), validPlayer(row), BoardOK(next),
         \A p \in Positions : next.properties[p].owner \in ActiveSeats(game.players) \cup {None},
         TurnOK(next)
  PROVE  Running(next) /\ Cardinality(ActiveSeats(next.players)) >= 2
<1>1. Running(game) /\ Cardinality(ActiveSeats(game.players)) >= 2
  BY ReadyRuns
<1>2. /\ ActiveSeats(next.players) = ActiveSeats(game.players)
      /\ next.players[Current] = row
      /\ \A s \in Seats \ {Current} : next.players[s] = game.players[s]
  BY RowKeepsSeats
<1>3. SeatsOK(next)
  <2>1. ASSUME NEW s \in Seats PROVE validPlayer(next.players[s])
    BY <1>1, <1>2 DEF Running, SeatsOK
  <2>2. QED
    BY <1>2, <2>1 DEF SeatsOK
<1>4. TradesOK(next)
  BY <1>1 DEF Running, TradesOK, RowOf
<1>5. QED
  BY <1>1, <1>2, <1>3, <1>4 DEF Running, RowOf

LEMMA RowPlays ==
  ASSUME Ready, NEW kind, NEW next, NEW row, NEW events, Commit(kind, next, events),
         Reportable(events), RowOf(next, row), SameBoard(next), validPlayer(row), TurnOK(next)
  PROVE  Played
<1>1. Running(game)
  BY ReadyRuns
<1>2. /\ BoardOK(next)
      /\ \A p \in Positions : next.properties[p].owner \in ActiveSeats(game.players) \cup {None}
  BY <1>1 DEF SameBoard, Running, BoardOK, SeatsOK
<1>3. Running(next) /\ Cardinality(ActiveSeats(next.players)) >= 2
  BY <1>2, RowRuns
<1>4. QED
  BY <1>3, RunningPlays

(* The turns a command can lead to. *)
LEMMA LandingTurns ==
  ASSUME NEW to, NEW doubles, NEW owner, owner = game.properties[to].owner,
         NEW type, type = BOARD_SPACES[to].propertyType
  PROVE  /\ isOwnableSpace(to) /\ owner = None =>
              createGameplayLandingTurn(to, doubles) = Pending("awaitingPropertyDecision", Current, to)
         /\ isOwnableSpace(to) /\ owner \notin {None, Current} =>
              createGameplayLandingTurn(to, doubles) = Pending("awaitingRentPayment", Current, to)
         /\ type \in {"chance", "communityChest"} =>
              createGameplayLandingTurn(to, doubles) = Pending("awaitingCardDraw", Current, to)
         /\ type = "tax" =>
              createGameplayLandingTurn(to, doubles) = Pending("awaitingTaxPayment", Current, to)
         /\ \/ isOwnableSpace(to) /\ owner = None
            \/ isOwnableSpace(to) /\ owner \notin {None, Current}
            \/ type \in {"chance", "communityChest"} \/ type = "tax"
            \/ createGameplayLandingTurn(to, doubles)
                 = createClockedGameplayTurn(RollAgainOrEnd(doubles), Current)
<1>1. CASE isOwnableSpace(to)
  <2>1. type \notin {"chance", "communityChest"} /\ type # "tax"
    BY <1>1 DEF isOwnableSpace
  <2>2. CASE owner = None
    BY <1>1, <2>1, <2>2 DEF createGameplayLandingTurn
  <2>3. CASE owner \notin {None, Current}
    BY <1>1, <2>1, <2>3 DEF createGameplayLandingTurn
  <2>4. CASE owner # None /\ owner = Current
    BY <1>1, <2>1, <2>4 DEF createGameplayLandingTurn
  <2>5. QED
    BY <2>2, <2>3, <2>4
<1>2. CASE ~isOwnableSpace(to)
  BY <1>2 DEF createGameplayLandingTurn
<1>3. QED
  BY <1>1, <1>2

LEMMA LandingOK ==
  ASSUME Ready, NEW next, NEW row, RowOf(next, row), next.properties = game.properties,
         row.position \in Positions, NEW doubles,
         next.turn = createGameplayLandingTurn(row.position, doubles),
         next.bankruptcyRequired = None, next.lastDice # None, hydrateDice(next.lastDice),
         validDice(next.lastDice)
  PROVE  TurnOK(next)
<1>1. PICK to, owner, type, turn :
        /\ to = row.position /\ owner = game.properties[to].owner
        /\ type = BOARD_SPACES[to].propertyType /\ turn = createGameplayLandingTurn(to, doubles)
  OBVIOUS
<1>2. /\ to \in Positions /\ Current \in Seats /\ Current \in ActiveSeats(next.players)
      /\ next.players[Current] = row
  BY <1>1, ReadyRuns, RowKeepsSeats
<1>3. next.turn = turn
  BY <1>1
<1>4. next.players[Current].position = to /\ next.properties[to].owner = owner
  BY <1>1, <1>2
<1>5. SUFFICES /\ turn \in Turn /\ turn.seat = Current
               /\ turn.phase \notin {"finished", "awaitingBankruptcy"}
               /\ validPendingPhase(next)
  BY <1>2, <1>3 DEF TurnOK
<1>6. CASE isOwnableSpace(to) /\ owner = None
  <2>1. turn = [phase |-> "awaitingPropertyDecision", seat |-> Current, at |-> to]
    <3>1. createGameplayLandingTurn(to, doubles) = Pending("awaitingPropertyDecision", Current, to)
      BY <1>1, <1>6, LandingTurns
    <3>2. QED
      BY <1>1, <3>1 DEF Pending
  <2>2. turn \in Turn
    BY <1>2, <2>1 DEF Turn, PendingPhases
  <2>3. validPendingPhase(next)
    BY <1>3, <1>4, <1>6, <2>1 DEF validPendingPhase, RentIsOwed
  <2>4. QED
    BY <2>1, <2>2, <2>3
<1>7. CASE isOwnableSpace(to) /\ owner \notin {None, Current}
  <2>1. turn = [phase |-> "awaitingRentPayment", seat |-> Current, at |-> to]
    <3>1. createGameplayLandingTurn(to, doubles) = Pending("awaitingRentPayment", Current, to)
      BY <1>1, <1>7, LandingTurns
    <3>2. QED
      BY <1>1, <3>1 DEF Pending
  <2>2. turn \in Turn
    BY <1>2, <2>1 DEF Turn, PendingPhases
  <2>3. validPendingPhase(next)
    BY <1>3, <1>4, <1>7, <2>1 DEF validPendingPhase, RentIsOwed
  <2>4. QED
    BY <2>1, <2>2, <2>3
<1>8. CASE type \in {"chance", "communityChest"}
  <2>1. turn = [phase |-> "awaitingCardDraw", seat |-> Current, at |-> to]
    <3>1. createGameplayLandingTurn(to, doubles) = Pending("awaitingCardDraw", Current, to)
      BY <1>1, <1>8, LandingTurns
    <3>2. QED
      BY <1>1, <3>1 DEF Pending
  <2>2. turn \in Turn
    BY <1>2, <2>1 DEF Turn, PendingPhases
  <2>3. validPendingPhase(next)
    BY <1>1, <1>3, <1>4, <1>8, <2>1 DEF validPendingPhase, RentIsOwed
  <2>4. QED
    BY <2>1, <2>2, <2>3
<1>9. CASE type = "tax"
  <2>1. turn = [phase |-> "awaitingTaxPayment", seat |-> Current, at |-> to]
    <3>1. createGameplayLandingTurn(to, doubles) = Pending("awaitingTaxPayment", Current, to)
      BY <1>1, <1>9, LandingTurns
    <3>2. QED
      BY <1>1, <3>1 DEF Pending
  <2>2. turn \in Turn
    BY <1>2, <2>1 DEF Turn, PendingPhases
  <2>3. to \in TaxPositions
    BY <1>1, <1>2, <1>9, BoardAssumption
  <2>4. validPendingPhase(next)
    BY <1>3, <1>4, <2>1, <2>3 DEF validPendingPhase, RentIsOwed
  <2>5. QED
    BY <2>1, <2>2, <2>4
<1>10. CASE turn = createClockedGameplayTurn(RollAgainOrEnd(doubles), Current)
  <2>1. PICK phase \in {"awaitingRoll", "awaitingEndTurn"} : phase = RollAgainOrEnd(doubles)
    BY DEF RollAgainOrEnd
  <2>2. turn = [phase |-> phase, seat |-> Current, at |-> None]
    BY <1>10, <2>1 DEF createClockedGameplayTurn
  <2>3. turn \in Turn
    BY <1>2, <2>2 DEF Turn, PendingPhases
  <2>4. validPendingPhase(next)
    BY <1>3, <2>2 DEF validPendingPhase, RentIsOwed
  <2>5. QED
    BY <2>2, <2>3, <2>4
<1>11. QED
  BY <1>1, <1>6, <1>7, <1>8, <1>9, <1>10, LandingTurns

(* The turn passes on, or stays with a phase that owes no answer. *)
LEMMA ClockedOK ==
  ASSUME NEW next, NEW seat \in ActiveSeats(next.players), NEW phase \in {"awaitingRoll", "awaitingEndTurn"},
         next.turn = createClockedGameplayTurn(phase, seat), next.bankruptcyRequired = None,
         hydrateDice(next.lastDice), next.lastDice # None => validDice(next.lastDice),
         next.lastDice = None => phase = "awaitingRoll"
  PROVE  TurnOK(next)
<1>1. next.turn = [phase |-> phase, seat |-> seat, at |-> None]
  BY DEF createClockedGameplayTurn
<1>2. seat \in Seats
  BY DEF ActiveSeats
<1>3. next.turn \in Turn
  <2>1. next.turn \in [phase : {"awaitingRoll", "awaitingBankruptcy", "awaitingEndTurn"},
                       seat : Seats, at : {None}]
    BY <1>1, <1>2
  <2>2. QED
    BY <2>1 DEF Turn
<1>4. validPendingPhase(next)
  BY <1>1 DEF validPendingPhase, RentIsOwed
<1>5. QED
  BY <1>1, <1>3, <1>4 DEF TurnOK

LEMMA AdvancedOK ==
  ASSUME Ready, NEW next, NEW row, RowOf(next, row), next.turn = advanceGameplayTurn,
         next.bankruptcyRequired = None, hydrateDice(next.lastDice),
         next.lastDice # None => validDice(next.lastDice)
  PROVE  TurnOK(next) /\ advanceGameplayTurn.seat \in Seats
<1>1. PICK seat : seat = nextActiveSeat(game.players, Current)
  OBVIOUS
<1>2. Current \in ActiveSeats(game.players) /\ Current \in Seats
  BY ReadyRuns
<1>3. ActiveSeats(game.players) # {}
  BY <1>2
<1>4. seat \in ActiveSeats(game.players)
  BY <1>1, <1>2, <1>3, NextIsActive
<1>5. ActiveSeats(next.players) = ActiveSeats(game.players)
  BY RowKeepsSeats
<1>6. seat \in ActiveSeats(next.players) /\ next.turn = createClockedGameplayTurn("awaitingRoll", seat)
  BY <1>1, <1>4, <1>5 DEF advanceGameplayTurn
<1>7. TurnOK(next)
  BY <1>6, ClockedOK
<1>8. advanceGameplayTurn.seat = seat /\ seat \in Seats
  BY <1>1, <1>4 DEF advanceGameplayTurn, createClockedGameplayTurn, ActiveSeats
<1>9. QED
  BY <1>7, <1>8

LEMMA ResolvedTurn ==
  ASSUME Ready, NEW next, Current \in ActiveSeats(next.players),
         next.turn = phaseAfterResolvedAction, next.bankruptcyRequired = None,
         next.lastDice = game.lastDice, game.turn.phase \in PendingPhases
  PROVE  TurnOK(next)
<1>1. PICK phase \in {"awaitingRoll", "awaitingEndTurn"} : phase = RollAgainOrEnd(game.lastDice.isDoubles)
  BY DEF RollAgainOrEnd
<1>2. next.turn = createClockedGameplayTurn(phase, Current)
  BY <1>1 DEF phaseAfterResolvedAction
<1>3. Running(game)
  BY ReadyRuns
<1>4. next.lastDice # None /\ validDice(next.lastDice) /\ hydrateDice(next.lastDice)
  BY <1>3 DEF Running, TurnOK, PendingPhases
<1>5. QED
  BY <1>2, <1>4, ClockedOK

LEMMA ResolvedOK ==
  ASSUME Ready, NEW next, NEW row, RowOf(next, row), next.turn = phaseAfterResolvedAction,
         next.bankruptcyRequired = None, next.lastDice = game.lastDice,
         game.turn.phase \in PendingPhases
  PROVE  TurnOK(next)
<1>1. Current \in ActiveSeats(next.players)
  BY ReadyRuns, RowKeepsSeats
<1>2. QED
  BY <1>1, ResolvedTurn

LEMMA BankruptOK ==
  ASSUME Ready, NEW next, NEW row, RowOf(next, row),
         next.turn = createClockedGameplayTurn("awaitingBankruptcy", Current),
         next.bankruptcyRequired = Current, hydrateDice(next.lastDice),
         next.lastDice # None => validDice(next.lastDice)
  PROVE  TurnOK(next)
<1>1. next.turn = [phase |-> "awaitingBankruptcy", seat |-> Current, at |-> None]
  BY DEF createClockedGameplayTurn
<1>2. Current \in Seats /\ Current \in ActiveSeats(next.players)
  <2>1. Current \in Seats /\ Current \in ActiveSeats(game.players)
    BY ReadyRuns
  <2>2. ActiveSeats(next.players) = ActiveSeats(game.players)
    BY RowKeepsSeats
  <2>3. QED
    BY <2>1, <2>2
<1>3. next.turn \in Turn
  <2>1. next.turn \in [phase : {"awaitingRoll", "awaitingBankruptcy", "awaitingEndTurn"},
                       seat : Seats, at : {None}]
    BY <1>1, <1>2
  <2>2. QED
    BY <2>1 DEF Turn
<1>4. validPendingPhase(next)
  <2>1. /\ next.turn.phase # "awaitingPropertyDecision" /\ next.turn.phase # "awaitingRentPayment"
        /\ next.turn.phase # "awaitingCardDraw" /\ next.turn.phase # "awaitingTaxPayment"
    BY <1>1
  <2>2. QED
    BY <2>1, Zenon DEF validPendingPhase, RentIsOwed
<1>5. QED
  BY <1>1, <1>2, <1>3, <1>4 DEF TurnOK

(* The dice as they were committed, and as they are rolled. *)
LEMMA DiceKept ==
  ASSUME Ready
  PROVE  /\ hydrateDice(game.lastDice)
         /\ game.lastDice # None => validDice(game.lastDice)
         /\ game.turn.phase \in PendingPhases \cup {"awaitingEndTurn"} => game.lastDice # None
         /\ game.turn.phase # "awaitingBankruptcy" <=> game.bankruptcyRequired = None
<1>1. Running(game) /\ Current \in Seats
  BY ReadyRuns
<1>2. Current # None
  BY <1>1, SeatsAssumption
<1>3. QED
  BY <1>1, <1>2 DEF Running, TurnOK, PendingPhases, Current

LEMMA RollIsValid ==
  ASSUME NEW d \in Dice, NEW roll, roll = RollOf(d)
  PROVE  /\ roll # None /\ hydrateDice(roll) /\ validDice(roll)
         /\ roll.total \in 2 .. 12 /\ roll.isDoubles \in BOOLEAN
<1>1. PICK x \in 1 .. 6, y \in 1 .. 6 : d = <<x, y>>
  BY DiceAssumption
<1>2. PICK doubles \in BOOLEAN : doubles = (x = y)
  OBVIOUS
<1>3. roll = [dice |-> <<x, y>>, total |-> x + y, isDoubles |-> doubles]
  BY <1>1, <1>2 DEF RollOf
<1>4. roll \in DiceRoll
  BY <1>3 DEF DiceRoll
<1>5. roll # None
  BY <1>4, NullAssumption
<1>6. roll.total = roll.dice[1] + roll.dice[2]
  BY <1>3
<1>7. roll.isDoubles = (roll.dice[1] = roll.dice[2])
  <2>1. roll.isDoubles = doubles /\ roll.dice[1] = x /\ roll.dice[2] = y
    BY <1>3
  <2>2. QED
    BY <1>2, <2>1, Zenon
<1>8. roll.total \in 2 .. 12 /\ roll.isDoubles \in BOOLEAN
  BY <1>4 DEF DiceRoll
<1>9. QED
  BY <1>4, <1>5, <1>6, <1>7, <1>8 DEF hydrateDice, validDice

-----------------------------------------------------------------------------
(* Rolling the dice and ending the turn *)

LEMMA JailRollRemainsPlays ==
  ASSUME Ready, NEW d \in Dice, NEW roll, roll = RollOf(d), JailRollRemains(roll),
         game.bankruptcyRequired = None
  PROVE  Played
<1>1. PICK next, row, events :
        /\ next = [game EXCEPT !.players[Current].jailTurns = @ + 1,
                               !.turn = advanceGameplayTurn, !.lastDice = roll]
        /\ row = [Me EXCEPT !.jailTurns = @ + 1] /\ events = <<Rolled(Current, roll)>>
  OBVIOUS
<1>2. Current \in Seats /\ Me \in Player /\ validPlayer(Me) /\ Me.status = "active"
  BY ReadyRuns
<1>3. RowOf(next, row) /\ SameBoard(next)
  BY <1>1, <1>2, GameFields DEF Ready, RowOf, SameBoard, FieldNames, Me, Player
<1>4. validPlayer(row)
  BY <1>1, <1>2, PolicyAssumption DEF JailRollRemains, validPlayer, Player
<1>5. TurnOK(next)
  <2>1. /\ next.turn = advanceGameplayTurn /\ next.lastDice = roll
        /\ next.bankruptcyRequired = None
    BY <1>1, GameFields DEF Ready, FieldNames
  <2>2. QED
    BY <1>3, <2>1, RollIsValid, AdvancedOK
<1>6. Reportable(events)
  BY <1>1, <1>2, RolledAdmitted, OneEvent
<1>7. Commit("rollDice", next, events)
  BY <1>1 DEF JailRollRemains
<1>8. QED
  BY <1>3, <1>4, <1>5, <1>6, <1>7, RowPlays

(* The row of a player who is free, and of one who has just come to jail, by its fields. *)
FreeRow(player, cash, position, doubles) ==
  [status |-> player.status, cash |-> cash, position |-> position, inJail |-> FALSE,
   jailTurns |-> 0, consecutiveDoubles |-> doubles, missedTurns |-> player.missedTurns,
   getOutOfJailCards |-> player.getOutOfJailCards]
JailRow(player, cash) ==
  [status |-> player.status, cash |-> cash, position |-> GAMEPLAY_POLICY.jailPosition, inJail |-> TRUE,
   jailTurns |-> 0, consecutiveDoubles |-> 0, missedTurns |-> player.missedTurns,
   getOutOfJailCards |-> player.getOutOfJailCards]

LEMMA RowsOfJail ==
  ASSUME NEW player \in Player
  PROVE  /\ Freed(player) = FreeRow(player, player.cash, player.position, 0)
         /\ Jailed(player) = JailRow(player, player.cash)
<1>1. PICK free, jailed : free = Freed(player) /\ jailed = Jailed(player)
  OBVIOUS
<1>2. free = FreeRow(player, player.cash, player.position, 0)
  <2>1. /\ free.status = player.status /\ free.cash = player.cash /\ free.position = player.position
        /\ free.inJail = FALSE /\ free.jailTurns = 0 /\ free.consecutiveDoubles = 0
        /\ free.missedTurns = player.missedTurns /\ free.getOutOfJailCards = player.getOutOfJailCards
        /\ free = [f \in DOMAIN player |-> free[f]]
    BY <1>1 DEF Player, Freed
  <2>2. QED
    BY <2>1 DEF Player, FreeRow
<1>3. jailed = JailRow(player, player.cash)
  <2>1. /\ jailed.status = player.status /\ jailed.cash = player.cash
        /\ jailed.position = GAMEPLAY_POLICY.jailPosition
        /\ jailed.inJail = TRUE /\ jailed.jailTurns = 0 /\ jailed.consecutiveDoubles = 0
        /\ jailed.missedTurns = player.missedTurns
        /\ jailed.getOutOfJailCards = player.getOutOfJailCards
        /\ jailed = [f \in DOMAIN player |-> jailed[f]]
    BY <1>1 DEF Player, Jailed
  <2>2. QED
    BY <2>1 DEF Player, JailRow
<1>4. QED
  BY <1>1, <1>2, <1>3

LEMMA FieldsMakePlayer ==
  ASSUME NEW player \in Player, NEW row, row = [f \in DOMAIN player |-> row[f]],
         row.status = player.status, row.cash \in 0 .. MAX_MATCH_CASH, row.position \in Positions,
         row.inJail = player.inJail, row.jailTurns = player.jailTurns,
         row.consecutiveDoubles \in 0 .. 2,
         row.missedTurns \in 0 .. GAMEPLAY_POLICY.maximumMissedTurns,
         row.getOutOfJailCards \in 0 .. 255
  PROVE  row \in Player
BY DEF Player

(* The check of a player who is in the match. *)
LEMMA ActiveIsValid ==
  ASSUME NEW row \in Player, row.status = "active",
         \/ row.inJail = FALSE /\ row.jailTurns = 0
         \/ /\ row.inJail = TRUE /\ row.position = GAMEPLAY_POLICY.jailPosition
            /\ row.jailTurns < GAMEPLAY_POLICY.maximumJailTurns /\ row.consecutiveDoubles = 0
  PROVE  validPlayer(row)
<1>1. row.status # "eliminated"
  OBVIOUS
<1>2. IF row.inJail
        THEN /\ row.position = GAMEPLAY_POLICY.jailPosition
             /\ row.jailTurns < GAMEPLAY_POLICY.maximumJailTurns
             /\ row.consecutiveDoubles = 0
        ELSE row.jailTurns = 0
  OBVIOUS
<1>3. QED
  BY <1>1, <1>2, Zenon DEF validPlayer

LEMMA RowIsValid ==
  ASSUME NEW player \in Player, player.status = "active", NEW cash \in 0 .. MAX_MATCH_CASH,
         NEW position \in Positions, NEW doubles \in 0 .. 2
  PROVE  /\ validPlayer(FreeRow(player, cash, position, doubles))
         /\ validPlayer(JailRow(player, cash))
         /\ FreeRow(player, cash, position, doubles) \in Player
<1>1. GAMEPLAY_POLICY.maximumJailTurns \in Nat \ {0} /\ GAMEPLAY_POLICY.jailPosition \in Positions
  BY PolicyAssumption, BoardAssumption
<1>2. PICK free, jailed : /\ free = FreeRow(player, cash, position, doubles)
                          /\ jailed = JailRow(player, cash)
  OBVIOUS
<1>3. /\ free \in Player /\ free.status = "active" /\ free.inJail = FALSE /\ free.jailTurns = 0
  BY <1>1, <1>2 DEF FreeRow, JailRow, Player
<1>4. /\ jailed \in Player /\ jailed.status = "active" /\ jailed.inJail = TRUE
      /\ jailed.position = GAMEPLAY_POLICY.jailPosition
      /\ jailed.jailTurns < GAMEPLAY_POLICY.maximumJailTurns /\ jailed.consecutiveDoubles = 0
  BY <1>1, <1>2 DEF FreeRow, JailRow, Player
<1>5. validPlayer(free)
  BY <1>3, ActiveIsValid
<1>6. validPlayer(jailed)
  BY <1>4, ActiveIsValid
<1>7. QED
  BY <1>2, <1>3, <1>5, <1>6

LEMMA JailRollBankruptsPlays ==
  ASSUME Ready, NEW d \in Dice, NEW roll, roll = RollOf(d), JailRollBankrupts(roll)
  PROVE  Played
<1>1. PICK next, row, events :
        /\ next = RequireBankruptcy([game EXCEPT !.players[Current] = [Freed(@) EXCEPT !.cash = 0],
                                                 !.lastDice = roll])
        /\ row = FreeRow(Me, 0, Me.position, 0) /\ events = <<Rolled(Current, roll)>>
  OBVIOUS
<1>2. Current \in Seats /\ Me \in Player /\ Me.status = "active"
  BY ReadyRuns
<1>3. RowOf(next, row) /\ SameBoard(next)
  <2>1. PICK freed : freed = Freed(Me)
    OBVIOUS
  <2>2. freed = FreeRow(Me, Me.cash, Me.position, 0)
    BY <1>2, <2>1, RowsOfJail
  <2>3. row = [freed EXCEPT !.cash = 0]
    <3>1. PICK edited : edited = [freed EXCEPT !.cash = 0]
      OBVIOUS
    <3>2. /\ edited.status = Me.status /\ edited.cash = 0 /\ edited.position = Me.position
          /\ edited.inJail = FALSE /\ edited.jailTurns = 0 /\ edited.consecutiveDoubles = 0
          /\ edited.missedTurns = Me.missedTurns /\ edited.getOutOfJailCards = Me.getOutOfJailCards
          /\ edited = [f \in DOMAIN freed |-> edited[f]]
      BY <2>2, <3>1 DEF FreeRow
    <3>3. edited = FreeRow(Me, 0, Me.position, 0)
      BY <2>2, <3>2 DEF FreeRow
    <3>4. QED
      BY <1>1, <3>1, <3>3
  <2>4. row.status = "active"
    BY <1>1, <1>2 DEF FreeRow
  <2>5. QED
    BY <1>1, <2>1, <2>3, <2>4, GameFields DEF Ready, RowOf, SameBoard, FieldNames, Me, RequireBankruptcy
<1>4. validPlayer(row)
  <2>1. 0 \in 0 .. MAX_MATCH_CASH /\ Me.position \in Positions /\ 0 \in 0 .. 2
    BY <1>2, LimitsAssumption DEF Player
  <2>2. QED
    BY <1>1, <1>2, <2>1, RowIsValid
<1>5. TurnOK(next)
  <2>1. /\ next.turn = createClockedGameplayTurn("awaitingBankruptcy", Current)
        /\ next.lastDice = roll /\ next.bankruptcyRequired = Current
    BY <1>1, GameFields DEF Ready, FieldNames, RequireBankruptcy
  <2>2. QED
    BY <1>3, <2>1, RollIsValid, BankruptOK
<1>6. Reportable(events)
  BY <1>1, <1>2, RolledAdmitted, OneEvent
<1>7. Commit("rollDice", next, events)
  BY <1>1 DEF JailRollBankrupts
<1>8. QED
  BY <1>3, <1>4, <1>5, <1>6, <1>7, RowPlays

LEMMA JailRollReleasesPlays ==
  ASSUME Ready, NEW d \in Dice, NEW roll, roll = RollOf(d), JailRollReleases(roll),
         game.bankruptcyRequired = None
  PROVE  Played
<1>1. PICK fine, movement, method :
        /\ fine = IF FineDue(roll) THEN GAMEPLAY_POLICY.jailFine ELSE 0
        /\ movement = moveBy(Me.position, roll.total)
        /\ method = IF roll.isDoubles THEN "doubles" ELSE "fine"
  OBVIOUS
<1>2. PICK next, row, events :
        /\ next = [game EXCEPT !.players[Current] = [Freed(Me) EXCEPT !.cash = @ - fine, !.position = movement.to],
                               !.turn = createGameplayLandingTurn(movement.to, FALSE), !.lastDice = roll]
        /\ row = FreeRow(Me, Me.cash - fine, movement.to, 0)
        /\ events = <<Rolled(Current, roll), JailExited(Current, method), Moved(Current, Me.position, movement, 0)>>
  OBVIOUS
<1>3. Current \in Seats /\ Me \in Player /\ validPlayer(Me) /\ Me.status = "active"
  BY ReadyRuns
<1>4. Me.position \in Positions /\ Me.position \in Int /\ Me.cash \in Nat /\ Me.cash <= MAX_MATCH_CASH
  <2>1. Me.position \in Positions /\ Me.cash \in 0 .. MAX_MATCH_CASH
    BY <1>3 DEF Player
  <2>2. Me.position \in Int
    BY <2>1 DEF Positions
  <2>3. Me.cash \in Nat /\ Me.cash <= MAX_MATCH_CASH
    BY <2>1, LimitsAssumption
  <2>4. QED
    BY <2>1, <2>2, <2>3
<1>5. movement.to \in Positions
  <2>1. PICK total : total = roll.total
    OBVIOUS
  <2>2. total \in 2 .. 12
    BY <1>1, <2>1, RollIsValid
  <2>3. total \in Int
    BY <2>2
  <2>4. moveBy(Me.position, total).to \in Positions
    BY <1>4, <2>3, MovesToPosition
  <2>5. QED
    BY <1>1, <2>1, <2>4
<1>6. fine \in Nat /\ fine <= Me.cash
  <2>1. GAMEPLAY_POLICY.jailFine \in Nat
    BY PolicyAssumption
  <2>2. fine \in Nat
    BY <1>1, <2>1
  <2>3. fine <= Me.cash
    BY <1>1, <1>4, <2>2 DEF JailRollReleases
  <2>4. QED
    BY <2>2, <2>3
<1>7. RowOf(next, row) /\ SameBoard(next)
  <2>1. PICK freed : freed = Freed(Me)
    OBVIOUS
  <2>2. freed = FreeRow(Me, Me.cash, Me.position, 0)
    BY <1>3, <2>1, RowsOfJail
  <2>3. PICK edited : edited = [freed EXCEPT !.cash = Me.cash - fine, !.position = movement.to]
    OBVIOUS
  <2>4. row = edited
    <3>1. /\ edited.status = Me.status /\ edited.cash = Me.cash - fine /\ edited.position = movement.to
          /\ edited.inJail = FALSE /\ edited.jailTurns = 0 /\ edited.consecutiveDoubles = 0
          /\ edited.missedTurns = Me.missedTurns /\ edited.getOutOfJailCards = Me.getOutOfJailCards
          /\ edited = [f \in DOMAIN freed |-> edited[f]]
      BY <2>2, <2>3 DEF FreeRow
    <3>2. edited = FreeRow(Me, Me.cash - fine, movement.to, 0)
      BY <2>2, <3>1 DEF FreeRow
    <3>3. QED
      BY <1>2, <3>2
  <2>5. row.status = "active" /\ freed.cash = Me.cash
    BY <1>2, <1>3, <2>2 DEF FreeRow
  <2>6. QED
    BY <1>2, <2>1, <2>3, <2>4, <2>5, GameFields DEF Ready, RowOf, SameBoard, FieldNames
<1>8. row.position = movement.to
  BY <1>2 DEF FreeRow
<1>9. validPlayer(row)
  <2>1. Me.cash - fine \in 0 .. MAX_MATCH_CASH /\ 0 \in 0 .. 2
    BY <1>4, <1>6, LimitsAssumption
  <2>2. QED
    BY <1>2, <1>3, <1>5, <2>1, RowIsValid
<1>10. TurnOK(next)
  <2>1. /\ next.turn = createGameplayLandingTurn(row.position, FALSE) /\ next.lastDice = roll
        /\ next.bankruptcyRequired = None
    BY <1>2, <1>8, GameFields DEF Ready, FieldNames
  <2>2. row.position \in Positions /\ next.properties = game.properties
    BY <1>5, <1>7, <1>8 DEF SameBoard
  <2>3. QED
    BY <1>7, <2>1, <2>2, RollIsValid, LandingOK
<1>11. Reportable(events)
  <2>1. Admitted(Rolled(Current, roll))
    BY <1>3, RolledAdmitted
  <2>2. Admitted(JailExited(Current, method))
    BY <1>1, <1>3, JailExitedAdmitted
  <2>3. Admitted(Moved(Current, Me.position, movement, 0))
    BY <1>3, <1>4, <1>5, MovedAdmitted
  <2>4. QED
    BY <1>2, <2>1, <2>2, <2>3, ThreeEvents
<1>12. Commit("rollDice", next, events)
  BY <1>1, <1>2 DEF JailRollReleases
<1>13. QED
  BY <1>7, <1>9, <1>10, <1>11, <1>12, RowPlays

LEMMA JailedIsValid ==
  ASSUME NEW player \in Player, player.status = "active"
  PROVE  validPlayer(Jailed(player)) /\ Jailed(player).status = "active"
<1>1. player.cash \in 0 .. MAX_MATCH_CASH /\ player.position \in Positions /\ 0 \in 0 .. 2
  BY DEF Player
<1>2. validPlayer(JailRow(player, player.cash))
  BY <1>1, RowIsValid
<1>3. Jailed(player) = JailRow(player, player.cash)
  BY RowsOfJail
<1>4. QED
  BY <1>2, <1>3 DEF JailRow

LEMMA RollThirdDoublesPlays ==
  ASSUME Ready, NEW d \in Dice, NEW roll, roll = RollOf(d), RollThirdDoubles(roll),
         game.bankruptcyRequired = None
  PROVE  Played
<1>1. PICK next, row, events :
        /\ next = [game EXCEPT !.players[Current] = Jailed(@),
                               !.turn = advanceGameplayTurn, !.lastDice = roll]
        /\ row = Jailed(Me)
        /\ events = <<Rolled(Current, roll), JailEntered(Current, "threeDoubles")>>
  OBVIOUS
<1>2. Current \in Seats /\ Me \in Player /\ Me.status = "active"
  BY ReadyRuns
<1>3. validPlayer(row) /\ row.status = "active"
  BY <1>1, <1>2, JailedIsValid
<1>4. RowOf(next, row) /\ SameBoard(next)
  BY <1>1, <1>2, <1>3, GameFields DEF Ready, RowOf, SameBoard, FieldNames, Me
<1>5. TurnOK(next)
  <2>1. /\ next.turn = advanceGameplayTurn /\ next.lastDice = roll
        /\ next.bankruptcyRequired = None
    BY <1>1, GameFields DEF Ready, FieldNames
  <2>2. QED
    BY <1>4, <2>1, RollIsValid, AdvancedOK
<1>6. Reportable(events)
  <2>1. Admitted(JailEntered(Current, "threeDoubles"))
    BY <1>2, JailEnteredAdmitted
  <2>2. QED
    BY <1>1, <1>2, <2>1, RolledAdmitted, TwoEvents
<1>7. Commit("rollDice", next, events)
  BY <1>1 DEF RollThirdDoubles
<1>8. QED
  BY <1>3, <1>4, <1>5, <1>6, <1>7, RowPlays

LEMMA SalaryIsNatural ==
  ASSUME NEW movement
  PROVE  Salary(movement) \in Nat
BY PolicyAssumption DEF Salary

LEMMA RollAndMovePlays ==
  ASSUME Ready, NEW d \in Dice, NEW roll, roll = RollOf(d), RollAndMove(roll),
         game.bankruptcyRequired = None
  PROVE  Played
<1>1. PICK movement, cash, doubles :
        /\ movement = moveBy(Me.position, roll.total) /\ cash = Me.cash + Salary(movement)
        /\ doubles = IF roll.isDoubles THEN Me.consecutiveDoubles + 1 ELSE 0
  OBVIOUS
<1>2. PICK moved, rolled, reached, jailed :
        /\ moved = [Me EXCEPT !.cash = cash, !.position = movement.to, !.consecutiveDoubles = doubles]
        /\ rolled = Rolled(Current, roll)
        /\ reached = Moved(Current, Me.position, movement, Salary(movement))
        /\ jailed = JailEntered(Current, "space")
  OBVIOUS
<1>3. Current \in Seats /\ Me \in Player /\ validPlayer(Me) /\ Me.status = "active"
  BY ReadyRuns
<1>4. /\ Me.position \in Positions /\ Me.position \in Int /\ Me.cash \in Nat
      /\ Me.consecutiveDoubles \in 0 .. 2
  BY <1>3 DEF Player, Positions
<1>5. movement.to \in Positions
  <2>1. roll.total \in Int
    BY RollIsValid
  <2>2. QED
    BY <1>1, <1>4, <2>1, MovesToPosition
<1>6. Salary(movement) \in Nat
  BY SalaryIsNatural
<1>7. Me.inJail = FALSE /\ cash <= MAX_MATCH_CASH /\ ~ThirdDoubles(roll)
  BY <1>1, <1>3 DEF RollAndMove, Player
<1>8. cash \in 0 .. MAX_MATCH_CASH
  BY <1>1, <1>4, <1>6, <1>7, LimitsAssumption
<1>9. doubles \in 0 .. 2
  BY <1>1, <1>4, <1>7 DEF ThirdDoubles
<1>10. Me.jailTurns = 0
  BY <1>3, <1>7 DEF validPlayer
<1>11. /\ moved \in Player /\ moved.status = "active" /\ moved.inJail = FALSE /\ moved.jailTurns = 0
       /\ moved.position = movement.to
  <2>1. /\ moved.status = "active" /\ moved.cash = cash /\ moved.position = movement.to
        /\ moved.inJail = Me.inJail /\ moved.jailTurns = Me.jailTurns
        /\ moved.consecutiveDoubles = doubles
        /\ moved.missedTurns = Me.missedTurns /\ moved.getOutOfJailCards = Me.getOutOfJailCards
        /\ moved = [f \in DOMAIN Me |-> moved[f]]
    BY <1>2, <1>3 DEF Player
  <2>2. /\ Me.missedTurns \in 0 .. GAMEPLAY_POLICY.maximumMissedTurns
        /\ Me.getOutOfJailCards \in 0 .. 255
    BY <1>3 DEF Player
  <2>3. moved \in Player
    BY <1>3, <1>5, <1>8, <1>9, <2>1, <2>2, FieldsMakePlayer
  <2>4. QED
    BY <1>7, <1>10, <2>1, <2>3
<1>12. Admitted(rolled) /\ Admitted(reached) /\ Admitted(jailed)
  <2>1. Admitted(rolled)
    BY <1>2, <1>3, RolledAdmitted
  <2>2. Admitted(reached)
    BY <1>2, <1>3, <1>4, <1>5, <1>6, MovedAdmitted
  <2>3. Admitted(jailed)
    BY <1>2, <1>3, JailEnteredAdmitted
  <2>4. QED
    BY <2>1, <2>2, <2>3
<1>13. CASE movement.to = GAMEPLAY_POLICY.goToJailPosition
  <2>1. PICK next, row, events :
          /\ next = [game EXCEPT !.players[Current] = Jailed(moved),
                                 !.turn = advanceGameplayTurn, !.lastDice = roll]
          /\ row = Jailed(moved) /\ events = <<rolled, reached, jailed>>
    OBVIOUS
  <2>2. validPlayer(row) /\ row.status = "active"
    BY <1>11, <2>1, JailedIsValid
  <2>3. RowOf(next, row) /\ SameBoard(next)
    BY <2>1, <2>2, GameFields DEF Ready, RowOf, SameBoard, FieldNames
  <2>4. /\ next.turn = advanceGameplayTurn /\ next.lastDice = roll
        /\ next.bankruptcyRequired = None
    BY <2>1, GameFields DEF Ready, FieldNames
  <2>5. TurnOK(next)
    BY <2>3, <2>4, RollIsValid, AdvancedOK
  <2>6. Reportable(events)
    BY <1>12, <2>1, ThreeEvents
  <2>7. Commit("rollDice", next, events)
    <3>1. events = Append(<<rolled, reached>>, jailed)
      BY <2>1
    <3>2. QED
      BY <1>1, <1>2, <1>13, <2>1, <3>1 DEF RollAndMove
  <2>8. QED
    BY <2>2, <2>3, <2>5, <2>6, <2>7, RowPlays
<1>14. CASE movement.to # GAMEPLAY_POLICY.goToJailPosition
  <2>1. PICK next, events :
          /\ next = [game EXCEPT !.players[Current] = moved, !.lastDice = roll,
                                 !.turn = createGameplayLandingTurn(movement.to, roll.isDoubles)]
          /\ events = <<rolled, reached>>
    OBVIOUS
  <2>2. validPlayer(moved)
    BY <1>11, ActiveIsValid
  <2>3. RowOf(next, moved) /\ SameBoard(next)
    BY <1>11, <2>1, GameFields DEF Ready, RowOf, SameBoard, FieldNames
  <2>4. /\ next.turn = createGameplayLandingTurn(moved.position, roll.isDoubles)
        /\ next.lastDice = roll /\ next.bankruptcyRequired = None
    BY <1>11, <2>1, GameFields DEF Ready, FieldNames
  <2>5. TurnOK(next)
    <3>1. moved.position \in Positions /\ next.properties = game.properties
      BY <1>5, <1>11, <2>3 DEF SameBoard
    <3>2. QED
      BY <2>3, <2>4, <3>1, RollIsValid, LandingOK
  <2>6. Reportable(events)
    BY <1>12, <2>1, TwoEvents
  <2>7. Commit("rollDice", next, events)
    BY <1>1, <1>2, <1>14, <2>1 DEF RollAndMove
  <2>8. QED
    BY <2>2, <2>3, <2>5, <2>6, <2>7, RowPlays
<1>15. QED
  BY <1>13, <1>14

LEMMA RollDicePlays ==
  ASSUME Ready, rollDice
  PROVE  Played
<1>1. game.turn.phase = "awaitingRoll"
  BY DEF rollDice, PlayerTurn
<1>2. game.bankruptcyRequired = None
  BY <1>1, DiceKept
<1>3. PICK d, roll :
        /\ d \in Dice /\ roll = RollOf(d)
        /\ \/ JailRollRemains(roll) \/ JailRollBankrupts(roll) \/ JailRollReleases(roll)
           \/ RollThirdDoubles(roll) \/ RollAndMove(roll)
  BY DEF rollDice
<1>4. QED
  BY <1>2, <1>3, JailRollRemainsPlays, JailRollBankruptsPlays, JailRollReleasesPlays,
     RollThirdDoublesPlays, RollAndMovePlays

LEMMA EndTurnPlays ==
  ASSUME Ready, endTurn
  PROVE  Played
<1>1. PICK next, row :
        /\ next = [game EXCEPT !.players[Current].consecutiveDoubles = 0,
                               !.turn = advanceGameplayTurn, !.lastDice = None]
        /\ row = [Me EXCEPT !.consecutiveDoubles = 0]
  OBVIOUS
<1>2. Current \in Seats /\ Me \in Player /\ validPlayer(Me) /\ Me.status = "active"
  BY ReadyRuns
<1>3. RowOf(next, row) /\ SameBoard(next)
  BY <1>1, <1>2, GameFields DEF Ready, RowOf, SameBoard, FieldNames, Me, Player
<1>4. validPlayer(row)
  BY <1>1, <1>2 DEF validPlayer, Player
<1>5. TurnOK(next)
  <2>1. /\ next.turn = advanceGameplayTurn /\ next.lastDice = None
        /\ next.bankruptcyRequired = None
    BY <1>1, GameFields DEF Ready, FieldNames, endTurn
  <2>2. hydrateDice(next.lastDice)
    BY <2>1 DEF hydrateDice
  <2>3. QED
    BY <1>3, <2>1, <2>2, AdvancedOK
<1>6. Commit("endTurn", next, <<>>)
  BY <1>1 DEF endTurn
<1>7. QED
  BY <1>3, <1>4, <1>5, <1>6, NoEvents, RowPlays

-----------------------------------------------------------------------------
(* Property, rent and tax *)

(* The answer to a space: the current player pays for it at most what he has. *)
LEMMA RowWithCash ==
  ASSUME NEW before \in Player, validPlayer(before), before.status = "active",
         NEW cash \in 0 .. MAX_MATCH_CASH, NEW row, row = [before EXCEPT !.cash = cash]
  PROVE  validPlayer(row) /\ row.status = "active"
<1>1. row \in Player /\ row.status = "active"
  BY DEF Player
<1>2. /\ row.inJail = before.inJail /\ row.position = before.position
      /\ row.jailTurns = before.jailTurns /\ row.consecutiveDoubles = before.consecutiveDoubles
  BY DEF Player
<1>3. QED
  BY <1>1, <1>2 DEF validPlayer

LEMMA CashRow ==
  ASSUME Ready, NEW cash \in 0 .. MAX_MATCH_CASH, NEW row, row = [Me EXCEPT !.cash = cash]
  PROVE  validPlayer(row) /\ row.status = "active"
<1>1. Me \in Player /\ validPlayer(Me) /\ Me.status = "active"
  BY ReadyRuns
<1>2. QED
  BY <1>1, RowWithCash

(* What a pending phase is about is what its check says of it. *)
LEMMA PendingIs ==
  ASSUME Ready
  PROVE  /\ game.turn \in Turn
         /\ game.turn.phase \in PendingPhases => game.turn.at \in Positions
         /\ game.turn.phase \in {"awaitingPropertyDecision", "awaitingRentPayment"} =>
              isOwnableSpace(game.turn.at)
         /\ game.turn.phase = "awaitingRentPayment" =>
              game.properties[game.turn.at].owner \notin {None, Current}
         /\ game.turn.phase = "awaitingCardDraw" => Deck \in {"chance", "communityChest"}
<1>1. Running(game)
  BY ReadyRuns
<1>2. validPendingPhase(game) /\ game.turn \in Turn
  BY <1>1 DEF Running, TurnOK
<1>3. PICK phase : phase = game.turn.phase
  OBVIOUS
<1>4. phase \in PendingPhases => game.turn.at \in Positions
  BY <1>2, <1>3 DEF Turn, PendingPhases
<1>5. /\ phase \in {"awaitingPropertyDecision", "awaitingRentPayment"} => isOwnableSpace(game.turn.at)
      /\ phase = "awaitingRentPayment" => game.properties[game.turn.at].owner \notin {None, Current}
  <2>1. CASE phase = "awaitingPropertyDecision"
    BY <1>2, <1>3, <2>1 DEF validPendingPhase, RentIsOwed
  <2>2. CASE phase = "awaitingRentPayment"
    BY <1>2, <1>3, <2>2 DEF validPendingPhase, RentIsOwed, Current
  <2>3. QED
    BY <2>1, <2>2
<1>6. phase = "awaitingCardDraw" => Deck \in {"chance", "communityChest"}
  <2>1. CASE phase = "awaitingCardDraw"
    BY <1>2, <1>3, <2>1 DEF validPendingPhase, RentIsOwed, Deck
  <2>2. QED
    BY <2>1
<1>7. QED
  BY <1>2, <1>3, <1>4, <1>5, <1>6

LEMMA DeclinePropertyPlays ==
  ASSUME Ready, declineProperty
  PROVE  Played
<1>1. PICK next, events :
        /\ next = [game EXCEPT !.turn = phaseAfterResolvedAction]
        /\ events = <<PropertyDecided("propertyDeclined", Current, game.turn.at,
                                      BOARD_SPACES[game.turn.at].price)>>
  OBVIOUS
<1>2. Current \in Seats /\ validPlayer(Me) /\ Me.status = "active"
  BY ReadyRuns
<1>3. RowOf(next, Me) /\ SameBoard(next)
  BY <1>1, <1>2, GameFields DEF Ready, RowOf, SameBoard, FieldNames, Me
<1>4. game.turn.phase = "awaitingPropertyDecision"
  BY DEF declineProperty, PlayerTurn
<1>5. TurnOK(next)
  <2>1. /\ next.turn = phaseAfterResolvedAction /\ next.lastDice = game.lastDice
        /\ next.bankruptcyRequired = None
    BY <1>1, <1>4, GameFields, DiceKept DEF Ready, FieldNames
  <2>2. QED
    BY <1>3, <1>4, <2>1, ResolvedOK DEF PendingPhases
<1>6. Reportable(events)
  <2>1. game.turn.at \in Positions
    BY <1>4, PendingIs DEF PendingPhases
  <2>2. BOARD_SPACES[game.turn.at].price \in Nat
    BY <2>1, BoardAssumption
  <2>3. QED
    BY <1>1, <1>2, <2>1, <2>2, PropertyDecidedAdmitted, OneEvent
<1>7. Commit("declineProperty", next, events)
  BY <1>1 DEF declineProperty
<1>8. QED
  BY <1>2, <1>3, <1>5, <1>6, <1>7, RowPlays

(* One space changes hands or is built on. *)
HotelCount(property) == IF property.hasHotel THEN 1 ELSE 0
OneSpace(edited, board, p) == \A q \in Positions \ {p} : edited[q] = board[q]

LEMMA HotelsChange ==
  ASSUME NEW board, NEW edited, NEW p \in Positions, OneSpace(edited, board, p)
  PROVE  /\ Cardinality(HotelsOf(board)) \in Nat /\ Cardinality(HotelsOf(edited)) \in Nat
         /\ Cardinality(HotelsOf(edited)) + HotelCount(board[p])
              = Cardinality(HotelsOf(board)) + HotelCount(edited[p])
<1>1. PICK A : A = HotelsOf(board) \ {p}
  OBVIOUS
<1>2. A \in SUBSET Positions /\ p \notin A
  BY <1>1 DEF HotelsOf
<1>3. IsFiniteSet(A) /\ Cardinality(A) \in Nat
  BY <1>2, BoardFinite, FS_CardinalityType
<1>4. Cardinality(A \cup {p}) = Cardinality(A) + 1
  BY <1>2, <1>3, FS_AddElement
<1>5. HotelsOf(board) = IF board[p].hasHotel THEN A \cup {p} ELSE A
  BY <1>1 DEF HotelsOf
<1>6. HotelsOf(edited) = IF edited[p].hasHotel THEN A \cup {p} ELSE A
  BY <1>1 DEF HotelsOf, OneSpace
<1>7. Cardinality(HotelsOf(board)) = Cardinality(A) + HotelCount(board[p])
  BY <1>3, <1>4, <1>5 DEF HotelCount
<1>8. Cardinality(HotelsOf(edited)) = Cardinality(A) + HotelCount(edited[p])
  BY <1>3, <1>4, <1>6 DEF HotelCount
<1>9. HotelCount(board[p]) \in Nat /\ HotelCount(edited[p]) \in Nat
  BY DEF HotelCount
<1>10. QED
  BY <1>3, <1>7, <1>8, <1>9

validProperty(p, property) ==
  /\ property \in Property
  /\ property.hasHotel => property.houses = 0
  /\ property.houses > 0 \/ property.hasHotel =>
       property.owner # None /\ BOARD_SPACES[p].propertyType = "street"
  /\ property.owner # None => isOwnableSpace(p)

Edited(p, property) == [game.properties EXCEPT ![p] = property]

LEMMA BoardEdited ==
  ASSUME Ready, NEW p \in Positions, NEW property, validProperty(p, property), NEW houses \in Nat, houses + property.houses = game.housesRemaining + game.properties[p].houses,
         NEW hotels \in Nat,
         hotels + HotelCount(property) = game.hotelsRemaining + HotelCount(game.properties[p])
  PROVE  /\ isValidPropertyStates(Edited(p, property)) /\ Stock(Edited(p, property), houses, hotels)
         /\ Edited(p, property)[p] = property /\ OneSpace(Edited(p, property), game.properties, p)
<1>1. game.properties \in [Positions -> Property] /\ property \in Property
  BY DEF Ready, MatchOK, validProperty
<1> PICK edited : edited = Edited(p, property)
  OBVIOUS
<1>2. edited[p] = property /\ \A q \in Positions \ {p} : edited[q] = game.properties[q]
  BY <1>1 DEF Edited
<1>3. Running(game)
  BY ReadyRuns
<1>4. isValidPropertyStates(game.properties)
  BY <1>3 DEF Running, BoardOK
<1>5. isValidPropertyStates(edited)
  <2>1. ASSUME NEW q \in Positions PROVE validProperty(q, edited[q])
    <3>1. CASE q = p
      BY <1>2, <3>1
    <3>2. CASE q # p
      BY <1>2, <1>4, <3>2 DEF isValidPropertyStates, validProperty
    <3>3. QED
      BY <3>1, <3>2
  <2>2. QED
    BY <2>1 DEF isValidPropertyStates, validProperty
<1>6. PICK h, k : h = HousesOf(game.properties) /\ k = HousesOf(edited)
  OBVIOUS
<1>7. /\ h \in [Positions -> Nat] /\ k \in [Positions -> Nat]
      /\ h \in [Positions -> Int] /\ k \in [Positions -> Int]
      /\ \A q \in Positions \ {p} : k[q] = h[q]
      /\ h[p] = game.properties[p].houses /\ k[p] = property.houses
  <2>1. \A q \in Positions : game.properties[q].houses \in Nat /\ edited[q].houses \in Nat
    <3>1. \A row \in Property : row.houses \in Nat
      BY PolicyAssumption DEF Property
    <3>2. \A q \in Positions : game.properties[q] \in Property /\ edited[q] \in Property
      BY <1>1, <1>2
    <3>3. QED
      BY <3>1, <3>2
  <2>2. /\ h = [q \in Positions |-> game.properties[q].houses]
        /\ k = [q \in Positions |-> edited[q].houses]
    BY <1>6 DEF HousesOf
  <2>3. /\ h \in [Positions -> Nat] /\ k \in [Positions -> Nat]
        /\ h \in [Positions -> Int] /\ k \in [Positions -> Int]
    BY <2>1, <2>2
  <2>4. \A q \in Positions \ {p} : k[q] = h[q]
    BY <1>2, <2>2
  <2>5. h[p] = game.properties[p].houses /\ k[p] = property.houses
    BY <1>2, <2>2
  <2>6. QED
    BY <2>3, <2>4, <2>5
<1>8. PICK sum, total : /\ sum = SumFcn(Positions, h)[Positions]
                             /\ total = SumFcn(Positions, k)[Positions]
  OBVIOUS
<1>9. sum \in Nat /\ total \in Nat
  <2>1. Positions \in SUBSET Positions /\ IsFiniteSet(Positions)
    BY BoardFinite
  <2>2. SumFcn(Positions, h)[Positions] \in Nat
    BY <1>7, <2>1, SumNatural
  <2>3. SumFcn(Positions, k)[Positions] \in Nat
    BY <1>7, <2>1, SumNatural
  <2>4. QED
    BY <1>8, <2>2, <2>3
<1>10. total = sum + (k[p] - h[p])
  <2>1. Positions \in SUBSET Positions
    OBVIOUS
  <2>2. SumFcn(Positions, k)[Positions] =
          SumFcn(Positions, h)[Positions] + (IF p \in Positions THEN k[p] - h[p] ELSE 0)
    BY <1>7, <2>1, BoardFinite, SumChanges
  <2>3. SumFcn(Positions, k)[Positions] = SumFcn(Positions, h)[Positions] + (k[p] - h[p])
    BY <2>2
  <2>4. QED
    BY <1>8, <2>3, Zenon
<1>11. Stock(game.properties, game.housesRemaining, game.hotelsRemaining)
  BY <1>3 DEF Running, BoardOK
<1>12. PICK m, n : m = Cardinality(HotelsOf(game.properties)) /\ n = Cardinality(HotelsOf(edited))
  OBVIOUS
<1>13. /\ m \in Nat /\ n \in Nat
       /\ n + HotelCount(game.properties[p]) = m + HotelCount(property)
  <2>1. PICK old : old = game.properties
    OBVIOUS
  <2>2. OneSpace(edited, old, p)
    BY <1>2, <2>1 DEF OneSpace
  <2>3. /\ Cardinality(HotelsOf(old)) \in Nat /\ Cardinality(HotelsOf(edited)) \in Nat
        /\ Cardinality(HotelsOf(edited)) + HotelCount(old[p])
             = Cardinality(HotelsOf(old)) + HotelCount(edited[p])
    BY <2>2, HotelsChange
  <2>4. QED
    BY <1>2, <1>12, <2>1, <2>3, Zenon
<1>14. /\ game.housesRemaining \in Nat /\ game.hotelsRemaining \in Nat
       /\ game.housesRemaining + sum = GAMEPLAY_POLICY.totalHouses
       /\ game.hotelsRemaining + m = GAMEPLAY_POLICY.totalHotels
  BY <1>6, <1>8, <1>11, <1>12 DEF Stock
<1>15. houses + total = GAMEPLAY_POLICY.totalHouses
  <2>1. k[p] \in Nat /\ h[p] \in Nat
    BY <1>7
  <2>2. houses + k[p] = game.housesRemaining + h[p]
    BY <1>7
  <2>3. QED
    BY <1>9, <1>10, <1>14, <2>1, <2>2
<1>16. hotels + n = GAMEPLAY_POLICY.totalHotels
  <2>1. HotelCount(property) \in Nat /\ HotelCount(game.properties[p]) \in Nat
    BY DEF HotelCount
  <2>2. QED
    BY <1>13, <1>14, <2>1
<1>17. Stock(edited, houses, hotels)
  <2>1. houses \in 0 .. GAMEPLAY_POLICY.totalHouses /\ hotels \in 0 .. GAMEPLAY_POLICY.totalHotels
    BY <1>9, <1>13, <1>15, <1>16, PolicyAssumption
  <2>2. QED
    BY <1>6, <1>8, <1>12, <1>15, <1>16, <2>1 DEF Stock
<1>18. QED
  BY <1>2, <1>5, <1>17 DEF OneSpace

(* A command that changes a space besides the current player's row. *)
LEMMA SpacePlays ==
  ASSUME Ready, NEW kind, NEW next, NEW row, NEW events, Commit(kind, next, events),
         Reportable(events), RowOf(next, row), validPlayer(row), TurnOK(next),
         NEW p \in Positions, NEW property, property.owner = Current, OneSpace(next.properties, game.properties, p),
         next.properties[p] = property, next.bankCash = game.bankCash,
         isValidPropertyStates(next.properties),
         Stock(next.properties, next.housesRemaining, next.hotelsRemaining)
  PROVE  Played
<1>1. Running(game) /\ Current \in ActiveSeats(game.players)
  BY ReadyRuns
<1>2. BoardOK(next)
  BY <1>1 DEF BoardOK, Running
<1>3. \A q \in Positions : game.properties[q].owner \in ActiveSeats(game.players) \cup {None}
  BY <1>1 DEF Running, SeatsOK
<1>4. ASSUME NEW q \in Positions
      PROVE  next.properties[q].owner \in ActiveSeats(game.players) \cup {None}
  <2>1. CASE q = p
    BY <1>1, <2>1
  <2>2. CASE q # p
    BY <1>3, <2>2 DEF OneSpace
  <2>3. QED
    BY <2>1, <2>2
<1>5. Running(next) /\ Cardinality(ActiveSeats(next.players)) >= 2
  BY <1>2, <1>4, RowRuns
<1>6. QED
  BY <1>5, RunningPlays

LEMMA BuyPropertyPlays ==
  ASSUME Ready, buyProperty
  PROVE  Played
<1>1. PICK p, price : p = game.turn.at /\ price = BOARD_SPACES[p].price
  OBVIOUS
<1>2. PICK next, row, property, events :
        /\ next = [game EXCEPT !.players[Current].cash = @ - price,
                               !.properties[p].owner = Current, !.turn = phaseAfterResolvedAction]
        /\ row = [Me EXCEPT !.cash = Me.cash - price]
        /\ property = [game.properties[p] EXCEPT !.owner = Current]
        /\ events = <<PropertyDecided("propertyPurchased", Current, p, price)>>
  OBVIOUS
<1>3. /\ Current \in Seats /\ Me \in Player /\ validPlayer(Me) /\ Me.status = "active"
      /\ Running(game)
  BY ReadyRuns
<1>4. game.turn.phase = "awaitingPropertyDecision" /\ Me.cash >= price
  BY <1>1 DEF buyProperty, PlayerTurn
<1>5. p \in Positions /\ isOwnableSpace(p) /\ price \in Nat
  BY <1>1, <1>4, PendingIs, BoardAssumption DEF PendingPhases
<1>6. game.properties \in [Positions -> Property] /\ game.properties[p] \in Property
  BY <1>5 DEF Ready, MatchOK
<1>7. /\ RowOf(next, row) /\ next.properties = [game.properties EXCEPT ![p] = property]
      /\ next.bankCash = game.bankCash /\ next.housesRemaining = game.housesRemaining
      /\ next.hotelsRemaining = game.hotelsRemaining
      /\ next.turn = phaseAfterResolvedAction /\ next.lastDice = game.lastDice
      /\ next.bankruptcyRequired = game.bankruptcyRequired
  BY <1>2, <1>3, GameFields DEF Ready, RowOf, FieldNames, Me, Player
<1>8. validPlayer(row)
  <2>1. Me.cash - price \in 0 .. MAX_MATCH_CASH
    BY <1>3, <1>4, <1>5, LimitsAssumption DEF Player
  <2>2. QED
    BY <1>2, <2>1, CashRow
<1>9. TurnOK(next)
  <2>1. game.bankruptcyRequired = None
    BY <1>4, DiceKept
  <2>2. QED
    BY <1>4, <1>7, <2>1, ResolvedOK DEF PendingPhases
<1>10. /\ isValidPropertyStates(next.properties)
       /\ Stock(next.properties, game.housesRemaining, game.hotelsRemaining)
       /\ next.properties[p] = property
       /\ OneSpace(next.properties, game.properties, p)
  <2>1. /\ property \in Property /\ property.owner = Current
        /\ property.houses = game.properties[p].houses
        /\ property.hasHotel = game.properties[p].hasHotel
    BY <1>2, <1>3, <1>6 DEF Property
  <2>2. isValidPropertyStates(game.properties)
    BY <1>3 DEF Running, BoardOK
  <2>3. validProperty(p, property)
    BY <1>3, <1>5, <2>1, <2>2, SeatsAssumption DEF isValidPropertyStates, validProperty
  <2>4. /\ game.housesRemaining \in Nat /\ game.hotelsRemaining \in Nat
    BY DEF Ready, MatchOK
  <2>5. HotelCount(property) = HotelCount(game.properties[p])
    BY <2>1 DEF HotelCount
  <2>6. /\ isValidPropertyStates(Edited(p, property))
        /\ Stock(Edited(p, property), game.housesRemaining, game.hotelsRemaining)
        /\ Edited(p, property)[p] = property /\ OneSpace(Edited(p, property), game.properties, p)
    <3>1. game.housesRemaining + property.houses = game.housesRemaining + game.properties[p].houses
      BY <2>1
    <3>2. game.hotelsRemaining + HotelCount(property) = game.hotelsRemaining + HotelCount(game.properties[p])
      BY <2>5
    <3>3. QED
      BY <1>5, <2>3, <2>4, <3>1, <3>2, BoardEdited
  <2>7. QED
    BY <1>7, <2>6 DEF Edited
<1>11. property.owner = Current
  BY <1>2, <1>6 DEF Property
<1>12. Reportable(events)
  BY <1>2, <1>3, <1>5, PropertyDecidedAdmitted, OneEvent
<1>13. Commit("buyProperty", next, events)
  BY <1>1, <1>2 DEF buyProperty
<1>14. QED
  BY <1>5, <1>7, <1>8, <1>9, <1>10, <1>11, <1>12, <1>13, SpacePlays

LEMMA PayTaxPlays ==
  ASSUME Ready, NEW taxKind \in {"mev", "priorityFee"}, NEW tax, tax.amount \in Nat, PayTax(taxKind, tax)
  PROVE  Played
<1>1. PICK next, row, events :
        /\ next = [game EXCEPT !.players[Current].cash = @ - tax.amount,
                               !.turn = phaseAfterResolvedAction]
        /\ row = [Me EXCEPT !.cash = Me.cash - tax.amount]
        /\ events = <<TaxPaid(Current, taxKind, tax)>>
  OBVIOUS
<1>2. Current \in Seats /\ Me \in Player /\ validPlayer(Me) /\ Me.status = "active"
  BY ReadyRuns
<1>3. /\ game.turn.phase = "awaitingTaxPayment" /\ game.turn.at = tax.position
      /\ Me.cash >= tax.amount
  BY DEF PayTax, PlayerTurn
<1>4. RowOf(next, row) /\ SameBoard(next)
  BY <1>1, <1>2, GameFields DEF Ready, RowOf, SameBoard, FieldNames, Me, Player
<1>5. validPlayer(row)
  <2>1. Me.cash - tax.amount \in 0 .. MAX_MATCH_CASH
    BY <1>2, <1>3, LimitsAssumption DEF Player
  <2>2. QED
    BY <1>1, <2>1, CashRow
<1>6. TurnOK(next)
  <2>1. /\ next.turn = phaseAfterResolvedAction /\ next.lastDice = game.lastDice
        /\ next.bankruptcyRequired = None
    BY <1>1, <1>3, GameFields, DiceKept DEF Ready, FieldNames
  <2>2. QED
    BY <1>3, <1>4, <2>1, ResolvedOK DEF PendingPhases
<1>7. Reportable(events)
  <2>1. tax.position \in Positions
    BY <1>3, PendingIs DEF PendingPhases
  <2>2. QED
    BY <1>1, <1>2, <2>1, TaxPaidAdmitted, OneEvent
<1>8. PICK kind : Commit(kind, next, events)
  BY <1>1 DEF PayTax
<1>9. QED
  BY <1>4, <1>5, <1>6, <1>7, <1>8, RowPlays

(* A player who cannot pay is left with nothing to do but declare bankruptcy. *)
LEMMA RequiredPlays ==
  ASSUME Ready, NEW g, NEW row, RowOf(g, row), SameBoard(g), validPlayer(row),
         g.lastDice \in {game.lastDice, None},
         NEW kind, NEW events, Reportable(events), Commit(kind, RequireBankruptcy(g), events)
  PROVE  Played
<1>1. PICK next : next = RequireBankruptcy(g)
  OBVIOUS
<1>2. /\ RowOf(next, row) /\ SameBoard(next)
      /\ next.turn = createClockedGameplayTurn("awaitingBankruptcy", Current)
      /\ next.lastDice = g.lastDice /\ next.bankruptcyRequired = Current
  BY <1>1 DEF RequireBankruptcy, RowOf, SameBoard, FieldNames
<1>3. hydrateDice(next.lastDice) /\ (next.lastDice # None => validDice(next.lastDice))
  <2>1. CASE next.lastDice = None
    BY <2>1 DEF hydrateDice
  <2>2. CASE next.lastDice = game.lastDice
    BY <2>2, DiceKept
  <2>3. QED
    BY <1>2, <2>1, <2>2
<1>4. TurnOK(next)
  BY <1>2, <1>3, BankruptOK
<1>5. QED
  BY <1>1, <1>2, <1>4, RowPlays

LEMMA SameRow ==
  ASSUME Ready
  PROVE  RowOf(game, Me) /\ SameBoard(game) /\ validPlayer(Me)
<1>1. Me.status = "active" /\ Current \in Seats /\ validPlayer(Me)
  BY ReadyRuns
<1>2. game.players = [game.players EXCEPT ![Current] = Me]
  BY <1>1, GameFields DEF Ready, Me
<1>3. QED
  BY <1>1, <1>2, GameFields DEF Ready, RowOf, SameBoard

LEMMA PayMevTaxPlays ==
  ASSUME Ready, payMevTax
  PROVE  Played
<1>1. CASE PayTax("mev", GAMEPLAY_POLICY.mevTax)
  <2>1. GAMEPLAY_POLICY.mevTax.amount \in Nat
    BY PolicyAssumption
  <2>2. QED
    BY <1>1, <2>1, PayTaxPlays
<1>2. CASE Commit("payMevTax", RequireBankruptcy(game), <<>>)
  BY <1>2, SameRow, NoEvents, RequiredPlays
<1>3. QED
  BY <1>1, <1>2 DEF payMevTax

LEMMA PayPriorityFeeTaxPlays ==
  ASSUME Ready, payPriorityFeeTax
  PROVE  Played
<1>1. GAMEPLAY_POLICY.priorityFeeTax.amount \in Nat
  BY PolicyAssumption
<1>2. PayTax("priorityFee", GAMEPLAY_POLICY.priorityFeeTax)
  BY DEF payPriorityFeeTax
<1>3. QED
  BY <1>1, <1>2, PayTaxPlays

-----------------------------------------------------------------------------
(* Leaving jail *)

LEMMA LeaveJailPlays ==
  ASSUME Ready, NEW kind, NEW player, NEW method \in {"fine", "card"}, player \in Player,
         player.status = "active", LeaveJail(kind, player, method), game.bankruptcyRequired = None
  PROVE  Played
<1>1. PICK next, row, events :
        /\ next = [game EXCEPT !.players[Current] = Freed(player), !.turn = advanceGameplayTurn,
                               !.lastDice = None]
        /\ row = Freed(player) /\ events = <<JailExited(Current, method)>>
  OBVIOUS
<1>2. Current \in Seats
  BY ReadyRuns
<1>3. validPlayer(row) /\ row.status = "active"
  <2>1. row = FreeRow(player, player.cash, player.position, 0)
    BY <1>1, RowsOfJail
  <2>2. player.cash \in 0 .. MAX_MATCH_CASH /\ player.position \in Positions /\ 0 \in 0 .. 2
    BY DEF Player
  <2>3. QED
    BY <2>1, <2>2, RowIsValid DEF FreeRow
<1>4. RowOf(next, row) /\ SameBoard(next)
  BY <1>1, <1>2, <1>3, GameFields DEF Ready, RowOf, SameBoard, FieldNames
<1>5. TurnOK(next)
  <2>1. /\ next.turn = advanceGameplayTurn /\ next.lastDice = None
        /\ next.bankruptcyRequired = None
    BY <1>1, GameFields DEF Ready, FieldNames
  <2>2. hydrateDice(next.lastDice)
    BY <2>1 DEF hydrateDice
  <2>3. QED
    BY <1>4, <2>1, <2>2, AdvancedOK
<1>6. Reportable(events)
  BY <1>1, <1>2, JailExitedAdmitted, OneEvent
<1>7. Commit(kind, next, events)
  BY <1>1 DEF LeaveJail
<1>8. QED
  BY <1>3, <1>4, <1>5, <1>6, <1>7, RowPlays

LEMMA PayJailFinePlays ==
  ASSUME Ready, payJailFine
  PROVE  Played
<1>1. game.turn.phase = "awaitingRoll"
  BY DEF payJailFine, PlayerTurn
<1>2. game.bankruptcyRequired = None
  BY <1>1, DiceKept
<1>3. Me \in Player /\ Me.status = "active"
  BY ReadyRuns
<1>4. ASSUME Me.cash >= GAMEPLAY_POLICY.jailFine,
             LeaveJail("payJailFine", [Me EXCEPT !.cash = @ - GAMEPLAY_POLICY.jailFine], "fine")
      PROVE  Played
  <2>1. PICK player : player = [Me EXCEPT !.cash = @ - GAMEPLAY_POLICY.jailFine]
    OBVIOUS
  <2>2. Me.cash \in 0 .. MAX_MATCH_CASH /\ GAMEPLAY_POLICY.jailFine \in Nat
    BY <1>3, PolicyAssumption DEF Player
  <2>3. Me.cash - GAMEPLAY_POLICY.jailFine \in 0 .. MAX_MATCH_CASH
    BY <1>4, <2>2, LimitsAssumption
  <2>4. player \in Player /\ player.status = "active"
    BY <1>3, <2>1, <2>3 DEF Player
  <2>5. QED
    BY <1>2, <1>4, <2>1, <2>4, LeaveJailPlays
<1>5. ASSUME Commit("payJailFine", RequireBankruptcy([game EXCEPT !.lastDice = None]), <<>>)
      PROVE  Played
  <2>1. PICK g : g = [game EXCEPT !.lastDice = None]
    OBVIOUS
  <2>2. RowOf(g, Me) /\ SameBoard(g) /\ g.lastDice = None /\ validPlayer(Me)
    BY <2>1, SameRow, GameFields DEF Ready, RowOf, SameBoard, FieldNames
  <2>3. QED
    BY <1>5, <2>1, <2>2, NoEvents, RequiredPlays
<1>6. QED
  BY <1>4, <1>5 DEF payJailFine

LEMMA UseJailCardPlays ==
  ASSUME Ready, useJailCard
  PROVE  Played
<1>1. game.turn.phase = "awaitingRoll" /\ Me.getOutOfJailCards > 0
  BY DEF useJailCard, PlayerTurn
<1>2. game.bankruptcyRequired = None
  BY <1>1, DiceKept
<1>3. Me \in Player /\ Me.status = "active"
  BY ReadyRuns
<1>4. PICK player : player = [Me EXCEPT !.getOutOfJailCards = @ - 1]
  OBVIOUS
<1>5. player \in Player /\ player.status = "active"
  BY <1>1, <1>3, <1>4 DEF Player
<1>6. LeaveJail("useJailCard", player, "card")
  BY <1>4 DEF useJailCard
<1>7. QED
  BY <1>2, <1>5, <1>6, LeaveJailPlays

-----------------------------------------------------------------------------
(* Rent *)

LEMMA OwnedOfTypeRange ==
  ASSUME NEW p \in Positions, BOARD_SPACES[p].propertyType = "railroad"
  PROVE  OwnedOfType(game.properties, game.properties[p].owner, "railroad") \in 1 .. 4
<1>1. PICK all, owned :
        /\ all = {q \in Positions : BOARD_SPACES[q].propertyType = "railroad"}
        /\ owned = {q \in ownedPropertyPositions(game.properties, game.properties[p].owner) :
                      BOARD_SPACES[q].propertyType = "railroad"}
  OBVIOUS
<1>2. all \in SUBSET Positions /\ owned \in SUBSET all /\ p \in owned
  BY <1>1 DEF ownedPropertyPositions
<1>3. IsFiniteSet(all) /\ Cardinality(all) <= 4 /\ Cardinality(all) \in Nat
  BY <1>1, <1>2, BoardFinite, BoardAssumption, FS_CardinalityType
<1>4. IsFiniteSet(owned) /\ Cardinality(owned) <= Cardinality(all) /\ Cardinality(owned) \in Nat
  BY <1>2, <1>3, FS_Subset, FS_CardinalityType
<1>5. Cardinality(owned) # 0
  BY <1>2, <1>4, FS_EmptySet
<1>6. Cardinality(owned) \in 1 .. 4
  BY <1>3, <1>4, <1>5
<1>7. QED
  BY <1>1, <1>6 DEF OwnedOfType

LEMMA RentIsAmount ==
  ASSUME Ready, game.turn.phase = "awaitingRentPayment"
  PROVE  calculateRent(game.properties, game.turn.at, game.lastDice.total) \in Nat
<1>1. PICK p, total, rent, property, space :
        /\ p = game.turn.at /\ total = game.lastDice.total
        /\ rent = calculateRent(game.properties, p, total)
        /\ property = game.properties[p] /\ space = BOARD_SPACES[p]
  OBVIOUS
<1>2. p \in Positions /\ isOwnableSpace(p)
  BY <1>1, PendingIs DEF PendingPhases
<1>3. property \in Property
  BY <1>1, <1>2 DEF Ready, MatchOK
<1>4. total \in Nat
  <2>1. game.lastDice # None /\ hydrateDice(game.lastDice)
    BY DiceKept DEF PendingPhases
  <2>2. QED
    BY <1>1, <2>1 DEF hydrateDice, DiceRoll
<1>5. CASE space.propertyType = "street"
  <2>1. PICK m : m = MaxHouses
    OBVIOUS
  <2>2. m \in Nat /\ m > 0
    BY <2>1, PolicyAssumption
  <2>3. space.rent \in Seq(Nat) /\ Len(space.rent) = m + 2
    BY <1>1, <1>2, <1>5, <2>1, BoardAssumption
  <2>4. property.houses \in 0 .. m
    BY <1>3, <2>1 DEF Property
  <2>5. /\ space.rent[m + 2] \in Nat /\ space.rent[1] \in Nat
        /\ space.rent[property.houses + 1] \in Nat
    BY <2>2, <2>3, <2>4
  <2>6. rent = IF property.hasHotel THEN space.rent[m + 2]
               ELSE IF property.houses > 0 THEN space.rent[property.houses + 1]
               ELSE space.rent[1] * (IF hasMonopoly(game.properties, property.owner, p) THEN 2 ELSE 1)
    BY <1>1, <1>5, <2>1 DEF calculateRent
  <2>7. CASE property.hasHotel \/ property.houses > 0
    BY <1>1, <2>5, <2>6, <2>7
  <2>8. CASE ~property.hasHotel /\ ~(property.houses > 0)
    <3>1. PICK base \in Nat : base = space.rent[1]
      BY <2>5
    <3>2. rent = base * 2 \/ rent = base * 1
      BY <2>6, <2>8, <3>1
    <3>3. rent \in Nat
      BY <3>1, <3>2
    <3>4. QED
      BY <1>1, <3>3
  <2>9. QED
    BY <1>1, <2>7, <2>8
<1>6. CASE space.propertyType = "railroad"
  <2>1. PICK n : n = OwnedOfType(game.properties, property.owner, "railroad")
    OBVIOUS
  <2>2. n \in 1 .. 4
    BY <1>1, <1>2, <1>6, <2>1, OwnedOfTypeRange
  <2>3. rent = <<25, 50, 100, 200>>[n]
    BY <1>1, <1>6, <2>1 DEF calculateRent
  <2>4. QED
    BY <1>1, <2>2, <2>3
<1>7. CASE space.propertyType = "utility"
  <2>1. PICK factor \in Nat :
          factor = IF OwnedOfType(game.properties, property.owner, "utility") = 2 THEN 10 ELSE 4
    OBVIOUS
  <2>2. rent = total * factor
    BY <1>1, <1>7, <2>1 DEF calculateRent
  <2>3. QED
    BY <1>1, <1>4, <2>1, <2>2
<1>8. QED
  BY <1>1, <1>2, <1>5, <1>6, <1>7 DEF isOwnableSpace

(* The row of the one who is paid changes as well. *)
LEMMA PassRentPlays ==
  ASSUME Ready, NEW owner \in ActiveSeats(game.players), owner # Current, NEW amount \in Nat,
         Me.cash >= amount, game.players[owner].cash + amount <= MAX_MATCH_CASH,
         NEW kind, NEW events, Reportable(events), game.turn.phase = "awaitingRentPayment",
         Commit(kind, [PassRent(owner, amount) EXCEPT !.turn = phaseAfterResolvedAction], events)
  PROVE  Played
<1>1. PICK next, row, paid :
        /\ next = [PassRent(owner, amount) EXCEPT !.turn = phaseAfterResolvedAction]
        /\ row = [Me EXCEPT !.cash = Me.cash - amount]
        /\ paid = [game.players[owner] EXCEPT !.cash = game.players[owner].cash + amount]
  OBVIOUS
<1>2. /\ Running(game) /\ Current \in Seats /\ Me \in Player /\ Me.status = "active"
      /\ Cardinality(ActiveSeats(game.players)) >= 2
  BY ReadyRuns
<1>3. owner \in Seats /\ game.players[owner].status = "active"
  BY DEF ActiveSeats
<1>4. validPlayer(game.players[owner]) /\ game.players[owner] \in Player
  BY <1>2, <1>3 DEF Running, SeatsOK, validPlayer
<1>5. validPlayer(row) /\ row.status = "active"
  <2>1. Me.cash - amount \in 0 .. MAX_MATCH_CASH
    BY <1>2, LimitsAssumption DEF Player
  <2>2. QED
    BY <1>1, <2>1, CashRow
<1>6. validPlayer(paid) /\ paid.status = "active"
  <2>1. PICK before : before = game.players[owner]
    OBVIOUS
  <2>2. before.cash + amount \in 0 .. MAX_MATCH_CASH
    BY <1>4, <2>1, LimitsAssumption DEF Player
  <2>3. PICK cash \in 0 .. MAX_MATCH_CASH : cash = before.cash + amount
    BY <2>2
  <2>4. paid = [before EXCEPT !.cash = cash]
    BY <1>1, <2>1, <2>3
  <2>5. before \in Player /\ validPlayer(before) /\ before.status = "active"
    BY <1>3, <1>4, <2>1
  <2>6. QED
    BY <2>4, <2>5, RowWithCash
<1>7. /\ DOMAIN next = FieldNames /\ next.lifecycle = game.lifecycle /\ next.terminal = game.terminal
      /\ next.stateVersion = game.stateVersion /\ next.activeTrades = game.activeTrades
      /\ SameBoard(next) /\ next.turn = phaseAfterResolvedAction
      /\ next.lastDice = game.lastDice /\ next.bankruptcyRequired = game.bankruptcyRequired
      /\ next.players = [game.players EXCEPT ![owner].cash = @ + amount, ![Current].cash = Me.cash - amount]
  BY <1>1, GameFields DEF Ready, FieldNames, SameBoard, PassRent
<1>8. /\ next.players[Current] = row /\ next.players[owner] = paid
      /\ \A s \in Seats \ {Current, owner} : next.players[s] = game.players[s]
  <2>1. PICK players : players = game.players
    OBVIOUS
  <2>2. players = [s \in Seats |-> players[s]] /\ Me = players[Current]
    BY <2>1, GameFields DEF Ready, Me
  <2>3. PICK edited : edited = [players EXCEPT ![owner].cash = @ + amount, ![Current].cash = Me.cash - amount]
    OBVIOUS
  <2>4. /\ edited[Current] = [players[Current] EXCEPT !.cash = players[Current].cash - amount]
        /\ edited[owner] = [players[owner] EXCEPT !.cash = players[owner].cash + amount]
        /\ \A s \in Seats \ {Current, owner} : edited[s] = players[s]
    BY <1>2, <1>3, <2>2, <2>3
  <2>5. next.players = edited
    BY <1>7, <2>1, <2>3, Zenon
  <2>6. row = edited[Current] /\ paid = edited[owner]
    BY <1>1, <2>1, <2>2, <2>4, Zenon
  <2>7. QED
    BY <2>1, <2>4, <2>5, <2>6, Zenon
<1>9. ActiveSeats(next.players) = ActiveSeats(game.players)
  BY <1>2, <1>3, <1>5, <1>6, <1>8 DEF ActiveSeats, Me
<1>10. SeatsOK(next)
  <2>1. ASSUME NEW s \in Seats PROVE validPlayer(next.players[s])
    BY <1>2, <1>5, <1>6, <1>8 DEF Running, SeatsOK
  <2>2. \A p \in Positions : next.properties[p].owner \in ActiveSeats(next.players) \cup {None}
    BY <1>2, <1>7, <1>9 DEF Running, SeatsOK, SameBoard
  <2>3. QED
    BY <2>1, <2>2 DEF SeatsOK
<1>11. TurnOK(next)
  <2>1. Current \in ActiveSeats(next.players) /\ game.bankruptcyRequired = None
    BY <1>9, ReadyRuns, DiceKept
  <2>2. QED
    BY <1>7, <2>1, ResolvedTurn DEF PendingPhases
<1>12. BoardOK(next) /\ TradesOK(next)
  BY <1>2, <1>7 DEF Running, BoardOK, TradesOK, SameBoard
<1>13. Running(next)
  BY <1>2, <1>7, <1>10, <1>11, <1>12 DEF Running
<1>14. Commit(kind, next, events)
  BY <1>1
<1>15. QED
  BY <1>2, <1>9, <1>13, <1>14, RunningPlays

LEMMA PayRentPlays ==
  ASSUME Ready, payRent
  PROVE  Played
<1>1. PICK p, owner, amount :
        /\ p = game.turn.at /\ owner = game.properties[p].owner
        /\ amount = calculateRent(game.properties, p, game.lastDice.total)
  OBVIOUS
<1>2. game.turn.phase = "awaitingRentPayment" /\ owner \in ActiveSeats(game.players)
  BY <1>1 DEF payRent, PlayerTurn
<1>3. amount \in Nat
  BY <1>1, <1>2, RentIsAmount
<1>4. p \in Positions /\ owner # Current
  BY <1>1, <1>2, PendingIs DEF PendingPhases
<1>5. CASE Commit("payRent", RequireBankruptcy(game), <<>>)
  BY <1>5, SameRow, NoEvents, RequiredPlays
<1>6. ASSUME Me.cash >= amount, game.players[owner].cash + amount <= MAX_MATCH_CASH,
             Commit("payRent", [PassRent(owner, amount) EXCEPT !.turn = phaseAfterResolvedAction],
                    <<RentPaid(Current, owner, p, amount)>>)
      PROVE  Played
  <2>1. PICK events : events = <<RentPaid(Current, owner, p, amount)>>
    OBVIOUS
  <2>2. Current \in Seats /\ owner \in Seats
    BY <1>2, ReadyRuns DEF ActiveSeats
  <2>3. Reportable(events)
    BY <1>3, <1>4, <2>1, <2>2, RentPaidAdmitted, OneEvent
  <2>4. Commit("payRent", [PassRent(owner, amount) EXCEPT !.turn = phaseAfterResolvedAction], events)
    BY <1>6, <2>1
  <2>5. QED
    BY <1>2, <1>3, <1>4, <1>6, <2>3, <2>4, PassRentPlays
<1>7. QED
  BY <1>1, <1>5, <1>6 DEF payRent

-----------------------------------------------------------------------------
(* Buildings *)

LEMMA TurnKept ==
  ASSUME Ready, NEW next, Current \in ActiveSeats(next.players), next.turn = game.turn,
         next.lastDice = game.lastDice, next.bankruptcyRequired = game.bankruptcyRequired,
         game.turn.phase \notin PendingPhases
  PROVE  TurnOK(next)
<1>1. TurnOK(game)
  BY ReadyRuns DEF Running
<1>2. validPendingPhase(next)
  BY DEF validPendingPhase, RentIsOwed, PendingPhases
<1>3. QED
  BY <1>1, <1>2 DEF TurnOK, Current

LEMMA BuildingActionPlays ==
  ASSUME Ready, NEW kind, NEW p \in OwnStreets, NEW property, validProperty(p, property),
         property.owner = Current, NEW houses \in Nat, NEW hotels \in Nat, NEW cash, NEW event,
         houses + property.houses = game.housesRemaining + game.properties[p].houses,
         hotels + HotelCount(property) = game.hotelsRemaining + HotelCount(game.properties[p]),
         Admitted(event), BuildingAction(kind, p, property, houses, hotels, cash, event)
  PROVE  Played
<1>1. PICK next, row, events :
        /\ next = [game EXCEPT !.players[Current].cash = cash, !.properties[p] = property,
                               !.housesRemaining = houses, !.hotelsRemaining = hotels]
        /\ row = [Me EXCEPT !.cash = cash] /\ events = <<event>>
  OBVIOUS
<1>2. Current \in Seats /\ Me \in Player
  BY ReadyRuns
<1>3. cash \in 0 .. MAX_MATCH_CASH /\ game.turn.phase \in {"awaitingRoll", "awaitingEndTurn"}
  BY DEF BuildingAction, PlayerTurn
<1>4. validPlayer(row) /\ row.status = "active"
  BY <1>1, <1>3, CashRow
<1>5. /\ RowOf(next, row) /\ next.properties = Edited(p, property)
      /\ next.bankCash = game.bankCash /\ next.housesRemaining = houses
      /\ next.hotelsRemaining = hotels /\ next.turn = game.turn /\ next.lastDice = game.lastDice
      /\ next.bankruptcyRequired = game.bankruptcyRequired
  BY <1>1, <1>2, <1>4, GameFields DEF Ready, RowOf, FieldNames, Me, Edited
<1>6. TurnOK(next)
  <2>1. Current \in ActiveSeats(next.players)
    BY <1>5, ReadyRuns, RowKeepsSeats
  <2>2. game.turn.phase \notin PendingPhases
    BY <1>3 DEF PendingPhases
  <2>3. QED
    BY <1>5, <2>1, <2>2, TurnKept
<1>7. p \in Positions
  BY DEF OwnStreets
<1>8. /\ isValidPropertyStates(next.properties)
      /\ Stock(next.properties, next.housesRemaining, next.hotelsRemaining)
      /\ next.properties[p] = property /\ OneSpace(next.properties, game.properties, p)
  BY <1>5, <1>7, BoardEdited
<1>9. Reportable(events)
  BY <1>1, OneEvent
<1>10. Commit(kind, next, events)
  BY <1>1 DEF BuildingAction
<1>11. QED
  BY <1>4, <1>5, <1>6, <1>7, <1>8, <1>9, <1>10, SpacePlays

(* A street of the current player, and what it costs to build there. *)
LEMMA StreetIs ==
  ASSUME Ready, NEW p \in OwnStreets
  PROVE  /\ p \in Positions /\ BOARD_SPACES[p].propertyType = "street" /\ isOwnableSpace(p)
         /\ game.properties[p] \in Property /\ game.properties[p].owner = Current
         /\ game.properties[p].hasHotel => game.properties[p].houses = 0
         /\ BOARD_SPACES[p].houseCost \in Nat /\ SalePrice(p) \in Nat
         /\ game.housesRemaining \in Nat /\ game.hotelsRemaining \in Nat
         /\ MaxHouses \in Nat /\ MaxHouses > 0
         /\ Current \in Seats /\ Current # None
<1>1. /\ p \in Positions /\ BOARD_SPACES[p].propertyType = "street"
      /\ game.properties[p].owner = Current
  BY DEF OwnStreets
<1>2. Running(game) /\ Current \in Seats
  BY ReadyRuns
<1>3. isValidPropertyStates(game.properties)
  BY <1>2 DEF Running, BoardOK
<1>4. game.properties[p] \in Property /\ (game.properties[p].hasHotel => game.properties[p].houses = 0)
  BY <1>1, <1>3 DEF isValidPropertyStates
<1>5. BOARD_SPACES[p].houseCost \in Nat
  BY <1>1, BoardAssumption
<1>6. SalePrice(p) \in Nat
  BY <1>5 DEF SalePrice
<1>7. game.housesRemaining \in Nat /\ game.hotelsRemaining \in Nat
  BY DEF Ready, MatchOK
<1>8. MaxHouses \in Nat /\ MaxHouses > 0 /\ Current # None
  BY <1>2, PolicyAssumption, SeatsAssumption
<1>9. QED
  BY <1>1, <1>2, <1>4, <1>5, <1>6, <1>7, <1>8 DEF isOwnableSpace

LEMMA HousesMakeProperty ==
  ASSUME Ready, NEW p \in OwnStreets, NEW houses \in 0 .. MaxHouses,
         NEW property, property = [game.properties[p] EXCEPT !.houses = houses],
         game.properties[p].hasHotel = FALSE
  PROVE  /\ validProperty(p, property) /\ property.owner = Current /\ property.houses = houses
         /\ HotelCount(property) = HotelCount(game.properties[p])
<1>1. /\ game.properties[p] \in Property /\ game.properties[p].owner = Current
      /\ Current # None /\ isOwnableSpace(p) /\ BOARD_SPACES[p].propertyType = "street"
  BY StreetIs
<1>2. /\ property \in Property /\ property.owner = Current /\ property.houses = houses
      /\ property.hasHotel = FALSE
  BY <1>1 DEF Property
<1>3. QED
  BY <1>1, <1>2 DEF validProperty, HotelCount

LEMMA BuildHousePlays ==
  ASSUME Ready, NEW p \in OwnStreets, buildHouse(p)
  PROVE  Played
<1>1. PICK before, property, event, cash :
        /\ before = game.properties[p] /\ property = [before EXCEPT !.houses = before.houses + 1]
        /\ event = BuildingBuilt(Current, p, "house", before.houses + 1, BOARD_SPACES[p].houseCost)
        /\ cash = Me.cash - BOARD_SPACES[p].houseCost
  OBVIOUS
<1>2. /\ p \in Positions /\ before \in Property /\ game.housesRemaining \in Nat
      /\ game.hotelsRemaining \in Nat /\ MaxHouses \in Nat /\ Current \in Seats
      /\ BOARD_SPACES[p].houseCost \in Nat
  BY <1>1, StreetIs
<1>3. before.hasHotel = FALSE /\ before.houses < MaxHouses /\ game.housesRemaining >= 1
  BY <1>1, <1>2 DEF buildHouse, canBuildHouse, Property
<1>4. before.houses \in Nat /\ before.houses + 1 \in 0 .. MaxHouses
  BY <1>2, <1>3 DEF Property
<1>5. /\ validProperty(p, property) /\ property.owner = Current /\ property.houses = before.houses + 1
      /\ HotelCount(property) = HotelCount(before)
  BY <1>1, <1>3, <1>4, HousesMakeProperty
<1>6. PICK houses, hotels : houses = game.housesRemaining - 1 /\ hotels = game.hotelsRemaining
  OBVIOUS
<1>7. /\ houses \in Nat /\ hotels \in Nat
      /\ houses + property.houses = game.housesRemaining + game.properties[p].houses
      /\ hotels + HotelCount(property) = game.hotelsRemaining + HotelCount(game.properties[p])
  BY <1>1, <1>2, <1>3, <1>4, <1>5, <1>6
<1>8. Admitted(event)
  BY <1>1, <1>2, <1>4, BuildingBuiltAdmitted
<1>9. BuildingAction("buildHouse", p, property, houses, hotels, cash, event)
  BY <1>1, <1>6 DEF buildHouse
<1>10. QED
  BY <1>5, <1>7, <1>8, <1>9, BuildingActionPlays

LEMMA SellHousePlays ==
  ASSUME Ready, NEW p \in OwnStreets, sellHouse(p)
  PROVE  Played
<1>1. PICK before, property, event, cash :
        /\ before = game.properties[p] /\ property = [before EXCEPT !.houses = before.houses - 1]
        /\ event = BuildingSold(Current, p, "house", SalePrice(p))
        /\ cash = Me.cash + SalePrice(p)
  OBVIOUS
<1>2. /\ p \in Positions /\ before \in Property /\ game.housesRemaining \in Nat
      /\ game.hotelsRemaining \in Nat /\ MaxHouses \in Nat /\ Current \in Seats /\ SalePrice(p) \in Nat
  BY <1>1, StreetIs
<1>3. before.hasHotel = FALSE /\ before.houses > 0
  BY <1>1, <1>2 DEF sellHouse, canSellHouse, Property
<1>4. before.houses \in Nat /\ before.houses - 1 \in 0 .. MaxHouses
  BY <1>2, <1>3 DEF Property
<1>5. /\ validProperty(p, property) /\ property.owner = Current /\ property.houses = before.houses - 1
      /\ HotelCount(property) = HotelCount(before)
  BY <1>1, <1>3, <1>4, HousesMakeProperty
<1>6. PICK houses, hotels : houses = game.housesRemaining + 1 /\ hotels = game.hotelsRemaining
  OBVIOUS
<1>7. /\ houses \in Nat /\ hotels \in Nat
      /\ houses + property.houses = game.housesRemaining + game.properties[p].houses
      /\ hotels + HotelCount(property) = game.hotelsRemaining + HotelCount(game.properties[p])
  BY <1>1, <1>2, <1>3, <1>4, <1>5, <1>6
<1>8. Admitted(event)
  BY <1>1, <1>2, BuildingSoldAdmitted
<1>9. BuildingAction("sellBuilding", p, property, houses, hotels, cash, event)
  BY <1>1, <1>6 DEF sellHouse
<1>10. QED
  BY <1>5, <1>7, <1>8, <1>9, BuildingActionPlays

LEMMA BuildHotelPlays ==
  ASSUME Ready, NEW p \in OwnStreets, buildHotel(p)
  PROVE  Played
<1>1. PICK before, property, event, cash :
        /\ before = game.properties[p] /\ property = [before EXCEPT !.houses = 0, !.hasHotel = TRUE]
        /\ event = BuildingBuilt(Current, p, "hotel", 0, BOARD_SPACES[p].houseCost)
        /\ cash = Me.cash - BOARD_SPACES[p].houseCost
  OBVIOUS
<1>2. /\ p \in Positions /\ before \in Property /\ game.housesRemaining \in Nat
      /\ game.hotelsRemaining \in Nat /\ MaxHouses \in Nat /\ MaxHouses > 0 /\ Current \in Seats
      /\ Current # None /\ before.owner = Current
      /\ BOARD_SPACES[p].houseCost \in Nat /\ isOwnableSpace(p)
      /\ BOARD_SPACES[p].propertyType = "street" /\ (before.hasHotel => before.houses = 0)
  BY <1>1, StreetIs
<1>3. before.houses = MaxHouses /\ game.hotelsRemaining >= 1 /\ before.hasHotel = FALSE
  BY <1>1, <1>2 DEF buildHotel, Property
<1>4. /\ property \in Property /\ property.owner = Current /\ property.houses = 0
      /\ property.hasHotel = TRUE
  <2>1. /\ property.owner = before.owner /\ property.houses = 0 /\ property.hasHotel = TRUE
        /\ property = [f \in DOMAIN before |-> property[f]]
    BY <1>1, <1>2 DEF Property
  <2>2. 0 \in 0 .. MaxHouses
    BY <1>2
  <2>3. QED
    BY <1>2, <2>1, <2>2 DEF Property
<1>5. validProperty(p, property) /\ HotelCount(property) = 1 /\ HotelCount(before) = 0
  BY <1>2, <1>3, <1>4 DEF validProperty, HotelCount
<1>6. PICK houses, hotels :
        houses = game.housesRemaining + MaxHouses /\ hotels = game.hotelsRemaining - 1
  OBVIOUS
<1>7. /\ houses \in Nat /\ hotels \in Nat
      /\ houses + property.houses = game.housesRemaining + game.properties[p].houses
      /\ hotels + HotelCount(property) = game.hotelsRemaining + HotelCount(game.properties[p])
  BY <1>1, <1>2, <1>3, <1>4, <1>5, <1>6
<1>8. Admitted(event)
  <2>1. 0 \in 0 .. MaxHouses
    BY <1>2
  <2>2. QED
    BY <1>1, <1>2, <2>1, BuildingBuiltAdmitted
<1>9. BuildingAction("buildHotel", p, property, houses, hotels, cash, event)
  BY <1>1, <1>6 DEF buildHotel
<1>10. QED
  BY <1>4, <1>5, <1>7, <1>8, <1>9, BuildingActionPlays

LEMMA SellHotelPlays ==
  ASSUME Ready, NEW p \in OwnStreets, sellHotel(p)
  PROVE  Played
<1>1. PICK before, property, event, cash :
        /\ before = game.properties[p]
        /\ property = [before EXCEPT !.houses = MaxHouses, !.hasHotel = FALSE]
        /\ event = BuildingSold(Current, p, "hotel", SalePrice(p))
        /\ cash = Me.cash + SalePrice(p)
  OBVIOUS
<1>2. /\ p \in Positions /\ before \in Property /\ game.housesRemaining \in Nat
      /\ game.hotelsRemaining \in Nat /\ MaxHouses \in Nat /\ MaxHouses > 0 /\ Current \in Seats
      /\ Current # None /\ before.owner = Current /\ SalePrice(p) \in Nat /\ isOwnableSpace(p)
      /\ BOARD_SPACES[p].propertyType = "street" /\ (before.hasHotel => before.houses = 0)
  BY <1>1, StreetIs
<1>3. before.hasHotel /\ before.houses = 0 /\ game.housesRemaining >= MaxHouses
  BY <1>1, <1>2 DEF sellHotel
<1>4. /\ property \in Property /\ property.owner = Current /\ property.houses = MaxHouses
      /\ property.hasHotel = FALSE
  <2>1. /\ property.owner = before.owner /\ property.houses = MaxHouses /\ property.hasHotel = FALSE
        /\ property = [f \in DOMAIN before |-> property[f]]
    BY <1>1, <1>2 DEF Property
  <2>2. MaxHouses \in 0 .. MaxHouses
    BY <1>2
  <2>3. QED
    BY <1>2, <2>1, <2>2 DEF Property
<1>5. validProperty(p, property) /\ HotelCount(property) = 0 /\ HotelCount(before) = 1
  BY <1>2, <1>3, <1>4 DEF validProperty, HotelCount
<1>6. PICK houses, hotels :
        houses = game.housesRemaining - MaxHouses /\ hotels = game.hotelsRemaining + 1
  OBVIOUS
<1>7. /\ houses \in Nat /\ hotels \in Nat
      /\ houses + property.houses = game.housesRemaining + game.properties[p].houses
      /\ hotels + HotelCount(property) = game.hotelsRemaining + HotelCount(game.properties[p])
  BY <1>1, <1>2, <1>3, <1>4, <1>5, <1>6
<1>8. Admitted(event)
  BY <1>1, <1>2, BuildingSoldAdmitted
<1>9. BuildingAction("sellBuilding", p, property, houses, hotels, cash, event)
  BY <1>1, <1>6 DEF sellHotel
<1>10. QED
  BY <1>4, <1>5, <1>7, <1>8, <1>9, BuildingActionPlays

LEMMA BuildingPlays ==
  ASSUME Ready, Building
  PROVE  Played
BY BuildHousePlays, BuildHotelPlays, SellHousePlays, SellHotelPlays DEF Building

-----------------------------------------------------------------------------
(* Cards *)

DeckCards == IF Deck = "chance" THEN CHANCE_CARDS ELSE COMMUNITY_CHEST_CARDS

LEMMA CardIs ==
  ASSUME Ready, game.turn.phase = "awaitingCardDraw", NEW card \in DeckCards
  PROVE  /\ Admitted(Drawn(card)) /\ card.amount \in Int
         /\ Deck # "chance" /\ card.effect = "move" => card.amount \in Positions
<1>1. card \in Cards
  BY DEF DeckCards, Cards
<1>2. card.id \in 1 .. 5 /\ card.amount \in Int
  BY <1>1, CardsAssumption
<1>3. Deck \in {"chance", "communityChest"} /\ Current \in Seats
  BY PendingIs, ReadyRuns
<1>4. card.effect = ContractEffects(Deck)[card.id]
  <2>1. CASE Deck = "chance"
    BY <2>1, DecksAssumption DEF DeckCards
  <2>2. CASE Deck = "communityChest"
    BY <2>2, DecksAssumption DEF DeckCards
  <2>3. QED
    BY <1>3, <2>1, <2>2
<1>5. Admitted(Drawn(card))
  BY <1>2, <1>3, <1>4, CardDrawnAdmitted DEF Drawn
<1>6. Deck # "chance" /\ card.effect = "move" => card.amount \in Positions
  BY DecksAssumption DEF DeckCards
<1>7. QED
  BY <1>2, <1>5, <1>6

(* No draw is waited for in jail: jail is a corner. *)
LEMMA DrawsAreFree ==
  ASSUME Ready, game.turn.phase = "awaitingCardDraw"
  PROVE  Me.inJail = FALSE
<1>1. Me \in Player /\ validPlayer(Me) /\ Running(game)
  BY ReadyRuns
<1>2. PICK position : position = Me.position
  OBVIOUS
<1>3. BOARD_SPACES[position].propertyType \in {"chance", "communityChest"}
  BY <1>1, <1>2 DEF Running, TurnOK, validPendingPhase, RentIsOwed, Me, Current
<1>4. position # GAMEPLAY_POLICY.jailPosition
  BY <1>3, BoardAssumption
<1>5. QED
  BY <1>1, <1>2, <1>4 DEF validPlayer, Player

LEMMA CardChangesCashPlays ==
  ASSUME Ready, game.turn.phase = "awaitingCardDraw", NEW card \in DeckCards, CardChangesCash(card)
  PROVE  Played
<1>1. PICK cash, events : cash = Me.cash + CardCash(card) /\ events = <<Drawn(card)>>
  OBVIOUS
<1>2. Current \in Seats /\ Me \in Player
  BY ReadyRuns
<1>3. Reportable(events)
  BY <1>1, CardIs, OneEvent
<1>4. ASSUME cash \in 0 .. MAX_MATCH_CASH,
             Commit("drawCard", [game EXCEPT !.players[Current].cash = cash,
                                             !.turn = continuationTurn(Me.position, FALSE)], events)
      PROVE  Played
  <2>1. PICK next, row : /\ next = [game EXCEPT !.players[Current].cash = cash,
                                                !.turn = continuationTurn(Me.position, FALSE)]
                         /\ row = [Me EXCEPT !.cash = cash]
    OBVIOUS
  <2>2. validPlayer(row) /\ row.status = "active"
    BY <1>4, <2>1, CashRow
  <2>3. RowOf(next, row) /\ SameBoard(next)
    BY <1>2, <2>1, <2>2, GameFields DEF Ready, RowOf, SameBoard, FieldNames, Me
  <2>4. TurnOK(next)
    <3>1. /\ next.turn = phaseAfterResolvedAction /\ next.lastDice = game.lastDice
          /\ next.bankruptcyRequired = None
      BY <2>1, GameFields, DiceKept DEF Ready, FieldNames, continuationTurn
    <3>2. QED
      BY <2>3, <3>1, ResolvedOK DEF PendingPhases
  <2>5. QED
    BY <1>3, <1>4, <2>1, <2>2, <2>3, <2>4, RowPlays
<1>5. ASSUME Commit("drawCard", RequireBankruptcy([game EXCEPT !.players[Current].cash = 0]), events)
      PROVE  Played
  <2>1. PICK g, row : /\ g = [game EXCEPT !.players[Current].cash = 0] /\ row = [Me EXCEPT !.cash = 0]
    OBVIOUS
  <2>2. validPlayer(row) /\ row.status = "active"
    <3>1. 0 \in 0 .. MAX_MATCH_CASH
      BY LimitsAssumption
    <3>2. QED
      BY <2>1, <3>1, CashRow
  <2>3. RowOf(g, row) /\ SameBoard(g) /\ g.lastDice = game.lastDice
    BY <1>2, <2>1, <2>2, GameFields DEF Ready, RowOf, SameBoard, FieldNames, Me
  <2>4. QED
    BY <1>3, <1>5, <2>1, <2>2, <2>3, RequiredPlays
<1>6. QED
  BY <1>1, <1>4, <1>5 DEF CardChangesCash

LEMMA CardMovesPlays ==
  ASSUME Ready, game.turn.phase = "awaitingCardDraw", NEW card \in DeckCards, CardMoves(card)
  PROVE  Played
<1>1. PICK movement, cash : movement = CardMovement(card) /\ cash = Me.cash + Salary(movement)
  OBVIOUS
<1>2. PICK next, row, drawn, moved :
        /\ next = [game EXCEPT !.players[Current].cash = cash, !.players[Current].position = movement.to,
                               !.turn = continuationTurn(movement.to, TRUE)]
        /\ row = [Me EXCEPT !.cash = cash, !.position = movement.to]
        /\ drawn = Drawn(card) /\ moved = Moved(Current, Me.position, movement, Salary(movement))
  OBVIOUS
<1>3. Current \in Seats /\ Me \in Player /\ validPlayer(Me) /\ Me.status = "active"
  BY ReadyRuns
<1>4. Me.position \in Positions /\ Me.position \in Int /\ Me.cash \in Nat
  BY <1>3 DEF Player, Positions
<1>5. movement.to \in Positions
  <2>1. CASE card.effect = "moveToNearest"
    BY <1>1, <1>4, <2>1, NearestIsPosition DEF CardMovement
  <2>2. CASE card.effect # "moveToNearest" /\ Deck = "chance"
    <3>1. movement = moveBy(Me.position, card.amount) /\ card.amount \in Int
      BY <1>1, <2>2, CardIs DEF CardMovement
    <3>2. QED
      BY <1>4, <3>1, MovesToPosition
  <2>3. CASE card.effect # "moveToNearest" /\ Deck # "chance"
    <3>1. card.effect = "move" /\ movement = absoluteMovement(Me.position, card.amount)
      BY <1>1, <2>3 DEF CardMovement, CardMoves
    <3>2. QED
      BY <2>3, <3>1, CardIs DEF absoluteMovement
  <2>4. QED
    BY <2>1, <2>2, <2>3
<1>6. Salary(movement) \in Nat
  BY SalaryIsNatural
<1>7. cash \in 0 .. MAX_MATCH_CASH
  <2>1. cash <= MAX_MATCH_CASH
    BY <1>1 DEF CardMoves
  <2>2. QED
    BY <1>1, <1>4, <1>6, <2>1, LimitsAssumption
<1>8. Me.inJail = FALSE /\ Me.jailTurns = 0
  BY <1>3, DrawsAreFree DEF validPlayer
<1>9. validPlayer(row) /\ row.status = "active" /\ row.position = movement.to
  <2>1. /\ row.status = "active" /\ row.cash = cash /\ row.position = movement.to
        /\ row.inJail = Me.inJail /\ row.jailTurns = Me.jailTurns
        /\ row.consecutiveDoubles = Me.consecutiveDoubles
        /\ row.missedTurns = Me.missedTurns /\ row.getOutOfJailCards = Me.getOutOfJailCards
        /\ row = [f \in DOMAIN Me |-> row[f]]
    BY <1>2, <1>3 DEF Player
  <2>2. /\ Me.missedTurns \in 0 .. GAMEPLAY_POLICY.maximumMissedTurns
        /\ Me.getOutOfJailCards \in 0 .. 255 /\ Me.consecutiveDoubles \in 0 .. 2
    BY <1>3 DEF Player
  <2>3. row \in Player
    BY <1>3, <1>5, <1>7, <2>1, <2>2, FieldsMakePlayer
  <2>4. row.inJail = FALSE /\ row.jailTurns = 0
    BY <1>8, <2>1
  <2>5. validPlayer(row)
    BY <2>1, <2>3, <2>4, ActiveIsValid
  <2>6. QED
    BY <2>1, <2>5
<1>10. RowOf(next, row) /\ SameBoard(next)
  BY <1>2, <1>3, <1>9, GameFields DEF Ready, RowOf, SameBoard, FieldNames, Me, Player
<1>11. TurnOK(next)
  <2>1. PICK doubles : doubles = game.lastDice.isDoubles
    OBVIOUS
  <2>2. /\ next.turn = createGameplayLandingTurn(row.position, doubles)
        /\ next.lastDice = game.lastDice /\ next.bankruptcyRequired = None
    BY <1>2, <1>9, <2>1, GameFields, DiceKept DEF Ready, FieldNames, continuationTurn
  <2>3. next.lastDice # None /\ hydrateDice(next.lastDice) /\ validDice(next.lastDice)
    BY <2>2, DiceKept DEF PendingPhases
  <2>4. row.position \in Positions /\ next.properties = game.properties
    BY <1>5, <1>9, <1>10 DEF SameBoard
  <2>5. QED
    BY <1>10, <2>2, <2>3, <2>4, LandingOK
<1>12. Reportable(<<drawn, moved>>)
  <2>1. Admitted(drawn)
    BY <1>2, CardIs
  <2>2. Admitted(moved)
    BY <1>2, <1>3, <1>4, <1>5, <1>6, MovedAdmitted
  <2>3. QED
    BY <2>1, <2>2, TwoEvents
<1>13. Commit("drawCard", next, <<drawn, moved>>)
  BY <1>1, <1>2 DEF CardMoves
<1>14. QED
  BY <1>9, <1>10, <1>11, <1>12, <1>13, RowPlays

LEMMA CardIsKeptPlays ==
  ASSUME Ready, game.turn.phase = "awaitingCardDraw", NEW card \in DeckCards, CardIsKept(card)
  PROVE  Played
<1>1. PICK next, row, events :
        /\ next = [game EXCEPT !.players[Current].getOutOfJailCards = @ + 1,
                               !.turn = continuationTurn(Me.position, FALSE)]
        /\ row = [Me EXCEPT !.getOutOfJailCards = Me.getOutOfJailCards + 1]
        /\ events = <<Drawn(card)>>
  OBVIOUS
<1>2. Current \in Seats /\ Me \in Player /\ validPlayer(Me) /\ Me.status = "active"
  BY ReadyRuns
<1>3. validPlayer(row) /\ row.status = "active"
  <2>1. Me.getOutOfJailCards + 1 \in 0 .. 255
    BY <1>2 DEF CardIsKept, Player
  <2>2. QED
    BY <1>1, <1>2, <2>1 DEF validPlayer, Player
<1>4. RowOf(next, row) /\ SameBoard(next)
  BY <1>1, <1>2, <1>3, GameFields DEF Ready, RowOf, SameBoard, FieldNames, Me
<1>5. TurnOK(next)
  <2>1. /\ next.turn = phaseAfterResolvedAction /\ next.lastDice = game.lastDice
        /\ next.bankruptcyRequired = None
    BY <1>1, GameFields, DiceKept DEF Ready, FieldNames, continuationTurn
  <2>2. QED
    BY <1>4, <2>1, ResolvedOK DEF PendingPhases
<1>6. Reportable(events)
  BY <1>1, CardIs, OneEvent
<1>7. Commit("drawCard", next, events)
  BY <1>1 DEF CardIsKept
<1>8. QED
  BY <1>3, <1>4, <1>5, <1>6, <1>7, RowPlays

LEMMA CardRepairsPlays ==
  ASSUME Ready, game.turn.phase = "awaitingCardDraw", NEW card \in DeckCards, CardRepairs(card)
  PROVE  Played
<1>1. PICK next, events :
        /\ next = [game EXCEPT !.turn = continuationTurn(Me.position, FALSE)]
        /\ events = <<Drawn(card)>>
  OBVIOUS
<1>2. RowOf(game, Me) /\ SameBoard(game) /\ validPlayer(Me)
  BY SameRow
<1>3. /\ RowOf(next, Me) /\ SameBoard(next) /\ next.turn = phaseAfterResolvedAction
      /\ next.lastDice = game.lastDice /\ next.bankruptcyRequired = None
  BY <1>1, <1>2, GameFields, DiceKept DEF Ready, RowOf, SameBoard, FieldNames, continuationTurn
<1>4. TurnOK(next)
  BY <1>3, ResolvedOK DEF PendingPhases
<1>5. Reportable(events)
  BY <1>1, CardIs, OneEvent
<1>6. Commit("drawCard", next, events)
  BY <1>1 DEF CardRepairs
<1>7. QED
  BY <1>2, <1>3, <1>4, <1>5, <1>6, RowPlays

LEMMA DrawCardPlays ==
  ASSUME Ready, drawCard
  PROVE  Played
<1>1. game.turn.phase = "awaitingCardDraw"
  BY DEF drawCard, PlayerTurn
<1>2. PICK card \in DeckCards :
        CardChangesCash(card) \/ CardMoves(card) \/ CardIsKept(card) \/ CardRepairs(card)
  BY DEF drawCard, DeckCards
<1>3. QED
  BY <1>1, <1>2, CardChangesCashPlays, CardMovesPlays, CardIsKeptPlays, CardRepairsPlays

-----------------------------------------------------------------------------
(* Sums over parts: whichever summand is taken first *)

LEMMA SumRemove ==
  ASSUME NEW S, IsFiniteSet(S), NEW h \in [S -> Nat], NEW s \in SUBSET S, NEW a \in s
  PROVE  SumFcn(S, h)[s] = h[a] + SumFcn(S, h)[s \ {a}]
<1>1. PICK f : f = SumFcn(S, h)
  OBVIOUS
<1>2. \A t \in SUBSET S : f[t] \in Nat
  BY <1>1, SumNatural
<1>6. \A t \in SUBSET S : IsFiniteSet(t) /\ Cardinality(t) \in Nat
  BY FS_Subset, FS_CardinalityType
<1> DEFINE Good(t) == \A x \in t : f[t] = h[x] + f[t \ {x}]
           Bad == {n \in Nat : \E t \in SUBSET S : Cardinality(t) = n /\ ~Good(t)}
<1>3. ASSUME Bad # {} PROVE FALSE
  <2>1. PICK m \in Bad : \A n \in Bad : m <= n
    BY <1>3, LeastElement
  <2>2. PICK t \in SUBSET S : Cardinality(t) = m /\ ~Good(t)
    BY <2>1
  <2>3. PICK x \in t : f[t] # h[x] + f[t \ {x}]
    BY <2>2
  <2>4. PICK y \in t : y = Pick(t)
    BY PickIn
  <2>5. f[t] = h[y] + f[t \ {y}]
    <3>1. t # {}
      BY <2>4
    <3>2. SumFcn(S, h)[t] = h[y] + SumFcn(S, h)[t \ {y}]
      BY <2>4, <3>1, SumStep
    <3>3. QED
      BY <1>1, <3>2
  <2>6. x # y
    BY <2>3, <2>5
  <2>7. PICK u, v, w : u = t \ {x} /\ v = t \ {y} /\ w = (t \ {x}) \ {y}
    OBVIOUS
  <2>8. /\ u \in SUBSET S /\ v \in SUBSET S /\ w \in SUBSET S /\ y \in u /\ x \in v
        /\ u \ {y} = w /\ v \ {x} = w
    BY <2>6, <2>7
  <2>9. Cardinality(u) = m - 1 /\ Cardinality(v) = m - 1 /\ m - 1 \in Nat
    <3>1. IsFiniteSet(t) /\ Cardinality(u) \in Nat
      BY <1>6, <2>2, <2>8
    <3>2. Cardinality(t \ {x}) = Cardinality(t) - 1 /\ Cardinality(t \ {y}) = Cardinality(t) - 1
      BY <2>3, <2>4, <3>1, FS_RemoveElement
    <3>3. Cardinality(u) = m - 1 /\ Cardinality(v) = m - 1
      BY <2>2, <2>7, <3>2
    <3>4. QED
      BY <3>1, <3>3
  <2>10. m - 1 \notin Bad
    BY <2>1, <2>9
  <2>11. Good(u) /\ Good(v)
    BY <2>8, <2>9, <2>10
  <2>12. f[u] = h[y] + f[w] /\ f[v] = h[x] + f[w]
    BY <2>8, <2>11
  <2>13. f[t] = h[y] + f[v] /\ h[x] \in Nat /\ h[y] \in Nat /\ f[w] \in Nat
    BY <1>2, <2>5, <2>7, <2>8
  <2>14. f[t] = h[x] + f[u]
    BY <2>12, <2>13
  <2>15. QED
    BY <2>3, <2>7, <2>14
<1>4. Good(s)
  BY <1>6, <1>3
<1>5. QED
  BY <1>1, <1>4

(* What is taken from some summands is their sum. *)
LEMMA SumTaken ==
  ASSUME NEW S, IsFiniteSet(S), NEW h \in [S -> Nat], NEW k \in [S -> Nat], NEW A \in SUBSET S,
         \A x \in A : k[x] = 0, \A x \in S \ A : k[x] = h[x]
  PROVE  SumFcn(S, h)[S] = SumFcn(S, k)[S] + SumFcn(S, h)[A]
<1>1. PICK f, g : f = SumFcn(S, h) /\ g = SumFcn(S, k)
  OBVIOUS
<1>2. \A t \in SUBSET S : f[t] \in Nat /\ g[t] \in Nat
  BY <1>1, SumNatural
<1>7. \A t \in SUBSET S : IsFiniteSet(t) /\ Cardinality(t) \in Nat
  BY FS_Subset, FS_CardinalityType
<1> DEFINE Good(t) == f[t] = g[t] + f[t \cap A]
           Bad == {n \in Nat : \E t \in SUBSET S : Cardinality(t) = n /\ ~Good(t)}
<1>3. ASSUME Bad # {} PROVE FALSE
  <2>1. PICK m \in Bad : \A n \in Bad : m <= n
    BY <1>3, LeastElement
  <2>2. PICK t \in SUBSET S : Cardinality(t) = m /\ ~Good(t)
    BY <2>1
  <2>3. CASE t = {}
    <3>1. {} \in SUBSET S /\ {} \cap A = {}
      OBVIOUS
    <3>2. SumFcn(S, h)[t] = 0 /\ SumFcn(S, k)[t] = 0
      <4>1. SumFcn(S, h)[{}] = 0 /\ SumFcn(S, k)[{}] = 0
        BY SumOfNone
      <4>2. QED
        BY <2>3, <4>1
    <3>3. f[t] = 0 /\ g[t] = 0 /\ f[t \cap A] = 0
      BY <1>1, <2>3, <3>1, <3>2
    <3>4. QED
      BY <2>2, <3>3
  <2>4. CASE t # {}
    <3>1. PICK x \in t : TRUE
      BY <2>4
    <3>2. PICK u : u = t \ {x}
      OBVIOUS
    <3>3. u \in SUBSET S /\ Cardinality(u) = m - 1 /\ Cardinality(u) \in Nat
      BY <1>7, <2>2, <3>1, <3>2, FS_RemoveElement
    <3>4. Cardinality(u) \notin Bad
      <4>1. m \in Nat /\ \A n \in Bad : m <= n
        BY <2>1
      <4>2. ~(m <= Cardinality(u))
        BY <3>3, <4>1
      <4>3. QED
        BY <4>1, <4>2
    <3>5. Good(u)
      BY <3>3, <3>4
    <3>6. f[t] = h[x] + f[u] /\ g[t] = k[x] + g[u]
      BY <1>1, <3>1, <3>2, SumRemove
    <3>7. PICK c, d : c = t \cap A /\ d = u \cap A
      OBVIOUS
    <3>8. f[u] = g[u] + f[d]
      BY <3>5, <3>7
    <3>9. /\ f[u] \in Nat /\ g[u] \in Nat /\ f[c] \in Nat /\ f[d] \in Nat
          /\ h[x] \in Nat /\ k[x] \in Nat
      BY <1>2, <3>1, <3>3, <3>7
    <3>10. CASE x \in A
      <4>1. x \in c /\ c \in SUBSET S /\ c \ {x} = d
        BY <3>1, <3>2, <3>7, <3>10
      <4>2. f[c] = h[x] + f[d]
        BY <1>1, <4>1, SumRemove
      <4>3. k[x] = 0
        BY <3>10
      <4>4. f[t] = g[t] + f[c]
        BY <3>6, <3>8, <3>9, <4>2, <4>3
      <4>5. QED
        BY <2>2, <3>7, <4>4
    <3>11. CASE x \notin A
      <4>1. c = d
        BY <3>2, <3>7, <3>11
      <4>2. k[x] = h[x]
        BY <3>1, <3>11
      <4>3. f[t] = g[t] + f[c]
        BY <3>6, <3>8, <3>9, <4>1, <4>2
      <4>4. QED
        BY <2>2, <3>7, <4>3
    <3>12. QED
      BY <3>10, <3>11
  <2>5. QED
    BY <2>3, <2>4
<1>4. Good(S)
  BY <1>7, <1>3
<1>5. S \cap A = A
  OBVIOUS
<1>6. QED
  BY <1>1, <1>4, <1>5

-----------------------------------------------------------------------------
(* What properties are worth: to the bank, and in the ranking *)

Liquidated(property, p) ==
  LET houseCost == BOARD_SPACES[p].houseCost IN
  BOARD_SPACES[p].mortgageValue +
  IF property.hasHotel THEN (houseCost * (MaxHouses + 1)) \div 2
  ELSE (houseCost \div 2) * property.houses
Worth(property, p) ==
  BOARD_SPACES[p].mortgageValue + BOARD_SPACES[p].houseCost * BuildingCount(property)

LiquidationOf(board) == [p \in Positions |-> Liquidated(board[p], p)]
WorthOf(board) == [p \in Positions |-> Worth(board[p], p)]


IsLiquidation(g, S, f) ==
  f = [s \in SUBSET S |->
         IF s = {} THEN 0 ELSE Liquidated(g.properties[Pick(s)], Pick(s)) + f[s \ {Pick(s)}]]
LiquidationFcn(g, S) == CHOOSE f : IsLiquidation(g, S, f)

IsWorth(g, S, f) ==
  f = [s \in SUBSET S |->
         IF s = {} THEN 0 ELSE Worth(g.properties[Pick(s)], Pick(s)) + f[s \ {Pick(s)}]]
WorthFcn(g, S) == CHOOSE f : IsWorth(g, S, f)

LEMMA LiquidationUnfolds ==
  ASSUME NEW g, NEW seat, NEW S, S = ownedPropertyPositions(g.properties, seat)
  PROVE  LiquidationValue(g, seat) = LiquidationFcn(g, S)[S]
BY DEF LiquidationValue, MapThenSumSet, MapThenFoldSet, LiquidationFcn, IsLiquidation, Liquidated, Pick

LEMMA WorthUnfolds ==
  ASSUME NEW g, NEW seat, NEW S, S = ownedPropertyPositions(g.properties, seat)
  PROVE  calculatePlayerNetWorth(g, seat) = g.players[seat].cash + WorthFcn(g, S)[S]
BY DEF calculatePlayerNetWorth, MapThenSumSet, MapThenFoldSet, WorthFcn, IsWorth, Worth, Pick

LEMMA LiquidationIsSum ==
  ASSUME NEW g, NEW S \in SUBSET Positions, NEW f
  PROVE  IsLiquidation(g, S, f) <=> IsSum(S, LiquidationOf(g.properties), f)
<1>1. PICK h : h = LiquidationOf(g.properties)
  OBVIOUS
<1>2. ASSUME NEW s \in SUBSET S
      PROVE  Summand(h, f, s) =
               IF s = {} THEN 0 ELSE Liquidated(g.properties[Pick(s)], Pick(s)) + f[s \ {Pick(s)}]
  <2>1. s # {} => Pick(s) \in Positions
    BY PickIn
  <2>2. s # {} => h[Pick(s)] = Liquidated(g.properties[Pick(s)], Pick(s))
    BY <1>1, <2>1 DEF LiquidationOf
  <2>3. QED
    BY <2>2 DEF Summand
<1>3. [s \in SUBSET S |-> Summand(h, f, s)] =
      [s \in SUBSET S |->
         IF s = {} THEN 0 ELSE Liquidated(g.properties[Pick(s)], Pick(s)) + f[s \ {Pick(s)}]]
  BY <1>2
<1>4. QED
  BY <1>1, <1>3, Zenon DEF IsLiquidation, IsSum

LEMMA WorthIsSum ==
  ASSUME NEW g, NEW S \in SUBSET Positions, NEW f
  PROVE  IsWorth(g, S, f) <=> IsSum(S, WorthOf(g.properties), f)
<1>1. PICK h : h = WorthOf(g.properties)
  OBVIOUS
<1>2. ASSUME NEW s \in SUBSET S
      PROVE  Summand(h, f, s) =
               IF s = {} THEN 0 ELSE Worth(g.properties[Pick(s)], Pick(s)) + f[s \ {Pick(s)}]
  <2>1. s # {} => Pick(s) \in Positions
    BY PickIn
  <2>2. s # {} => h[Pick(s)] = Worth(g.properties[Pick(s)], Pick(s))
    BY <1>1, <2>1 DEF WorthOf
  <2>3. QED
    BY <2>2 DEF Summand
<1>3. [s \in SUBSET S |-> Summand(h, f, s)] =
      [s \in SUBSET S |->
         IF s = {} THEN 0 ELSE Worth(g.properties[Pick(s)], Pick(s)) + f[s \ {Pick(s)}]]
  BY <1>2
<1>4. QED
  BY <1>1, <1>3, Zenon DEF IsWorth, IsSum

LEMMA LiquidationIsSummed ==
  ASSUME NEW g, NEW seat, NEW S, S = ownedPropertyPositions(g.properties, seat)
  PROVE  LiquidationValue(g, seat) = SumFcn(Positions, LiquidationOf(g.properties))[S]
<1>1. S \in SUBSET Positions /\ IsFiniteSet(S) /\ S \in SUBSET S
  BY BoardFinite DEF ownedPropertyPositions
<1>2. IsSum(S, LiquidationOf(g.properties), SumFcn(S, LiquidationOf(g.properties)))
  BY <1>1, SumEquation
<1>3. IsLiquidation(g, S, SumFcn(S, LiquidationOf(g.properties)))
  BY <1>1, <1>2, LiquidationIsSum
<1>4. IsLiquidation(g, S, LiquidationFcn(g, S))
  BY <1>3, Zenon DEF LiquidationFcn
<1>5. IsSum(S, LiquidationOf(g.properties), LiquidationFcn(g, S))
  BY <1>1, <1>4, LiquidationIsSum
<1>6. LiquidationFcn(g, S)[S] = SumFcn(S, LiquidationOf(g.properties))[S]
  BY <1>1, <1>2, <1>5, SumUnique
<1>7. SumFcn(S, LiquidationOf(g.properties))[S] = SumFcn(Positions, LiquidationOf(g.properties))[S]
  BY <1>1, BoardFinite, SumRestricts
<1>8. LiquidationValue(g, seat) = LiquidationFcn(g, S)[S]
  BY LiquidationUnfolds
<1>9. QED
  BY <1>6, <1>7, <1>8

LEMMA WorthIsSummed ==
  ASSUME NEW g, NEW seat, NEW S, S = ownedPropertyPositions(g.properties, seat)
  PROVE  calculatePlayerNetWorth(g, seat) =
           g.players[seat].cash + SumFcn(Positions, WorthOf(g.properties))[S]
<1>1. S \in SUBSET Positions /\ IsFiniteSet(S) /\ S \in SUBSET S
  BY BoardFinite DEF ownedPropertyPositions
<1>2. IsSum(S, WorthOf(g.properties), SumFcn(S, WorthOf(g.properties)))
  BY <1>1, SumEquation
<1>3. IsWorth(g, S, SumFcn(S, WorthOf(g.properties)))
  BY <1>1, <1>2, WorthIsSum
<1>4. IsWorth(g, S, WorthFcn(g, S))
  BY <1>3, Zenon DEF WorthFcn
<1>5. IsSum(S, WorthOf(g.properties), WorthFcn(g, S))
  BY <1>1, <1>4, WorthIsSum
<1>6. WorthFcn(g, S)[S] = SumFcn(S, WorthOf(g.properties))[S]
  BY <1>1, <1>2, <1>5, SumUnique
<1>7. SumFcn(S, WorthOf(g.properties))[S] = SumFcn(Positions, WorthOf(g.properties))[S]
  BY <1>1, BoardFinite, SumRestricts
<1>8. calculatePlayerNetWorth(g, seat) = g.players[seat].cash + WorthFcn(g, S)[S]
  BY WorthUnfolds
<1>9. QED
  BY <1>6, <1>7, <1>8

LEMMA WorthIsNatural ==
  ASSUME NEW g, isValidPropertyStates(g.properties), NEW seat
  PROVE  /\ LiquidationValue(g, seat) \in Nat
         /\ g.players[seat].cash \in Nat => calculatePlayerNetWorth(g, seat) \in Nat
<1>1. ASSUME NEW p \in Positions
      PROVE  Liquidated(g.properties[p], p) \in Nat /\ Worth(g.properties[p], p) \in Nat
  <2>1. PICK property \in Property : property = g.properties[p]
    BY DEF isValidPropertyStates
  <2>2. PICK cost, value \in Nat :
          cost = BOARD_SPACES[p].houseCost /\ value = BOARD_SPACES[p].mortgageValue
    BY BoardAssumption
  <2>3. PICK m \in Nat : m = MaxHouses
    BY PolicyAssumption
  <2>4. property.houses \in Nat /\ property.hasHotel \in BOOLEAN
    BY <2>3 DEF Property
  <2>5. PICK half, all \in Nat : half = cost \div 2 /\ all = (cost * (m + 1)) \div 2
    <3>1. cost \div 2 \in Nat
      OBVIOUS
    <3>2. PICK c \in Nat : c = cost * (m + 1)
      OBVIOUS
    <3>3. c \div 2 \in Nat
      OBVIOUS
    <3>4. QED
      BY <3>1, <3>2, <3>3
  <2>6. half * property.houses \in Nat
    BY <2>4
  <2>7. Liquidated(property, p) = value + IF property.hasHotel THEN all ELSE half * property.houses
    BY <2>2, <2>3, <2>5 DEF Liquidated
  <2>8. PICK n \in Nat : n = BuildingCount(property)
    BY <2>3, <2>4 DEF BuildingCount
  <2>9. cost * n \in Nat
    OBVIOUS
  <2>10. Worth(property, p) = value + cost * n
    BY <2>2, <2>8 DEF Worth
  <2>11. QED
    BY <2>1, <2>6, <2>7, <2>9, <2>10
<1>2. PICK S : S = ownedPropertyPositions(g.properties, seat)
  OBVIOUS
<1>3. S \in SUBSET Positions
  BY <1>2 DEF ownedPropertyPositions
<1>4. PICK h, k : h = LiquidationOf(g.properties) /\ k = WorthOf(g.properties)
  OBVIOUS
<1>5. h \in [Positions -> Nat] /\ k \in [Positions -> Nat]
  BY <1>1, <1>4 DEF LiquidationOf, WorthOf
<1>6. SumFcn(Positions, h)[S] \in Nat /\ SumFcn(Positions, k)[S] \in Nat
  BY <1>3, <1>5, BoardFinite, SumNatural
<1>7. LiquidationValue(g, seat) = SumFcn(Positions, h)[S]
  BY <1>2, <1>4, LiquidationIsSummed
<1>8. calculatePlayerNetWorth(g, seat) = g.players[seat].cash + SumFcn(Positions, k)[S]
  BY <1>2, <1>4, WorthIsSummed
<1>9. QED
  BY <1>6, <1>7, <1>8

LEMMA SameWorth ==
  ASSUME NEW g, NEW h, g.properties = h.properties, NEW seat, g.players[seat].cash = h.players[seat].cash
  PROVE  /\ LiquidationValue(g, seat) = LiquidationValue(h, seat)
         /\ calculatePlayerNetWorth(g, seat) = calculatePlayerNetWorth(h, seat)
<1>1. PICK S, P : S = ownedPropertyPositions(g.properties, seat) /\ P = g.properties
  OBVIOUS
<1>2. S = ownedPropertyPositions(h.properties, seat) /\ P = h.properties
  BY <1>1
<1>3. /\ LiquidationValue(g, seat) = SumFcn(Positions, LiquidationOf(P))[S]
      /\ calculatePlayerNetWorth(g, seat) = g.players[seat].cash + SumFcn(Positions, WorthOf(P))[S]
  BY <1>1, LiquidationIsSummed, WorthIsSummed
<1>4. /\ LiquidationValue(h, seat) = SumFcn(Positions, LiquidationOf(P))[S]
      /\ calculatePlayerNetWorth(h, seat) = h.players[seat].cash + SumFcn(Positions, WorthOf(P))[S]
  BY <1>2, LiquidationIsSummed, WorthIsSummed
<1>5. QED
  BY <1>3, <1>4

-----------------------------------------------------------------------------
(* A bankruptcy, and how the match goes on or ends after it *)

Unowned == [owner |-> None, houses |-> 0, hasHotel |-> FALSE]
Taken(board, owned) == [p \in Positions |-> IF p \in owned THEN Unowned ELSE board[p]]

LEMMA TakenIsValid ==
  ASSUME NEW board, isValidPropertyStates(board), NEW owned, NEW taken, taken = Taken(board, owned)
  PROVE  isValidPropertyStates(taken)
<1>1. Unowned \in Property
  BY PolicyAssumption DEF Unowned, Property
<1>2. ASSUME NEW p \in Positions
      PROVE  validProperty(p, taken[p])
  <2>1. CASE p \in owned
    <3>1. taken[p] = Unowned
      BY <2>1 DEF Taken
    <3>2. validProperty(p, Unowned)
      BY <1>1 DEF validProperty, Unowned
    <3>3. QED
      BY <3>1, <3>2
  <2>2. CASE p \notin owned
    <3>1. taken[p] = board[p]
      BY <2>2 DEF Taken
    <3>2. validProperty(p, board[p])
      BY DEF validProperty, isValidPropertyStates
    <3>3. QED
      BY <3>1, <3>2
  <2>3. QED
    BY <2>1, <2>2
<1>3. QED
  BY <1>2 DEF validProperty, isValidPropertyStates

LEMMA TakenIsStock ==
  ASSUME NEW board, isValidPropertyStates(board), NEW owned \in SUBSET Positions,
         NEW taken, taken = Taken(board, owned), NEW houses, NEW hotels, Stock(board, houses, hotels)
  PROVE  Stock(taken, houses + SumFcn(Positions, HousesOf(board))[owned],
                      hotels + Cardinality({p \in owned : board[p].hasHotel}))
<1>1. PICK h, k : h = HousesOf(board) /\ k = HousesOf(taken)
  OBVIOUS
<1>2. isValidPropertyStates(taken)
  BY TakenIsValid
<1>3. h \in [Positions -> Nat] /\ k \in [Positions -> Nat]
  <2>1. MaxHouses \in Nat
    BY PolicyAssumption
  <2>2. \A p \in Positions : board[p].houses \in Nat /\ taken[p].houses \in Nat
    BY <1>2, <2>1 DEF isValidPropertyStates, Property
  <2>3. QED
    BY <1>1, <2>2 DEF HousesOf
<1>4. \A p \in owned : k[p] = 0
  BY <1>1 DEF HousesOf, Taken, Unowned
<1>5. \A p \in Positions \ owned : k[p] = h[p]
  BY <1>1 DEF HousesOf, Taken
<1>6. PICK f, g, o : /\ f = SumFcn(Positions, h)[Positions] /\ g = SumFcn(Positions, k)[Positions]
                     /\ o = SumFcn(Positions, h)[owned]
  OBVIOUS
<1>7. f = g + o
  BY <1>3, <1>4, <1>5, <1>6, BoardFinite, SumTaken
<1>8. g \in Nat /\ o \in Nat
  BY <1>3, <1>6, BoardFinite, SumNatural
<1>9. PICK H, T : H = HotelsOf(board) /\ T = {p \in owned : board[p].hasHotel}
  OBVIOUS
<1>10. H \in SUBSET Positions /\ T = H \cap owned /\ HotelsOf(taken) = H \ owned
  BY <1>9 DEF HotelsOf, Taken, Unowned
<1>11. /\ IsFiniteSet(H) /\ IsFiniteSet(T) /\ IsFiniteSet(H \ owned)
       /\ Cardinality(H \ owned) = Cardinality(H) - Cardinality(T)
  BY <1>10, BoardFinite, FS_Difference
<1>12. Cardinality(H) \in Nat /\ Cardinality(T) \in Nat /\ Cardinality(H \ owned) \in Nat
  BY <1>11, FS_CardinalityType
<1>13. PICK all, most \in Nat : all = GAMEPLAY_POLICY.totalHouses /\ most = GAMEPLAY_POLICY.totalHotels
  BY PolicyAssumption
<1>14. /\ houses \in 0 .. all /\ hotels \in 0 .. most
       /\ houses + f = all /\ hotels + Cardinality(H) = most
  BY <1>1, <1>6, <1>9, <1>13 DEF Stock
<1>15. /\ houses + o \in 0 .. all /\ houses + o + g = all
  BY <1>7, <1>8, <1>14
<1>16. hotels + Cardinality(T) \in 0 .. most /\ hotels + Cardinality(T) + Cardinality(H \ owned) = most
  BY <1>11, <1>12, <1>14
<1>17. QED
  BY <1>1, <1>6, <1>9, <1>10, <1>13, <1>15, <1>16 DEF Stock

GoneRow(player) ==
  [status |-> "eliminated", cash |-> 0, position |-> 0, inJail |-> FALSE, jailTurns |-> 0,
   consecutiveDoubles |-> 0, missedTurns |-> player.missedTurns, getOutOfJailCards |-> 0]
Gone(player) ==
  [player EXCEPT !.status = "eliminated", !.cash = 0, !.position = 0, !.inJail = FALSE,
                 !.jailTurns = 0, !.consecutiveDoubles = 0, !.getOutOfJailCards = 0]

LEMMA GoneIsValid ==
  ASSUME NEW player \in Player
  PROVE  validPlayer(Gone(player)) /\ Gone(player).status = "eliminated"
<1>1. PICK row : row = GoneRow(player)
  OBVIOUS
<1>2. DOMAIN player = {"status", "cash", "position", "inJail", "jailTurns", "consecutiveDoubles",
                       "missedTurns", "getOutOfJailCards"}
  BY DEF Player
<1>3. Gone(player) = row
  <2>1. PICK gone : gone = Gone(player)
    OBVIOUS
  <2>2. /\ gone.status = "eliminated" /\ gone.cash = 0 /\ gone.position = 0 /\ gone.inJail = FALSE
        /\ gone.jailTurns = 0 /\ gone.consecutiveDoubles = 0 /\ gone.getOutOfJailCards = 0
        /\ gone.missedTurns = player.missedTurns /\ DOMAIN gone = DOMAIN player
        /\ gone = [f \in DOMAIN player |-> gone[f]]
    BY <1>2, <2>1 DEF Gone
  <2>3. gone = row
    BY <1>1, <1>2, <2>2 DEF GoneRow
  <2>4. QED
    BY <2>1, <2>3
<1>4. row \in Player
  <2>1. /\ 0 \in Positions /\ 0 \in 0 .. MAX_MATCH_CASH /\ 0 \in 0 .. GAMEPLAY_POLICY.maximumJailTurns
    BY PolicyAssumption, LimitsAssumption DEF Positions
  <2>2. player.missedTurns \in 0 .. GAMEPLAY_POLICY.maximumMissedTurns
    BY DEF Player
  <2>3. QED
    BY <1>1, <2>1, <2>2 DEF Player, GoneRow
<1>5. row = [row EXCEPT !.cash = 0, !.position = 0, !.inJail = FALSE, !.jailTurns = 0,
                        !.consecutiveDoubles = 0, !.getOutOfJailCards = 0]
  <2>1. PICK same : same = [row EXCEPT !.cash = 0, !.position = 0, !.inJail = FALSE, !.jailTurns = 0,
                                       !.consecutiveDoubles = 0, !.getOutOfJailCards = 0]
    OBVIOUS
  <2>2. DOMAIN row = DOMAIN player
    BY <1>1, <1>2 DEF GoneRow
  <2>3. /\ same.status = "eliminated" /\ same.cash = 0 /\ same.position = 0 /\ same.inJail = FALSE
        /\ same.jailTurns = 0 /\ same.consecutiveDoubles = 0 /\ same.getOutOfJailCards = 0
        /\ same.missedTurns = player.missedTurns
        /\ same = [f \in DOMAIN player |-> same[f]]
    BY <1>1, <1>2, <2>1, <2>2 DEF GoneRow
  <2>4. same = row
    BY <1>1, <1>2, <2>3 DEF GoneRow
  <2>5. QED
    BY <2>1, <2>4
<1>6. validPlayer(row) /\ row.status = "eliminated"
  BY <1>1, <1>4, <1>5 DEF validPlayer, GoneRow
<1>7. QED
  BY <1>3, <1>6

(* The match without the current player: its rows and properties are in order. *)
Survived(r) ==
  /\ DOMAIN r = FieldNames /\ r.lifecycle = "inProgress" /\ r.terminal = None
  /\ r.stateVersion = game.stateVersion /\ r.activeTrades = game.activeTrades
  /\ BoardOK(r) /\ SeatsOK(r)
  /\ ActiveSeats(r.players) = ActiveSeats(game.players) \ {Current}

LEMMA ResolveSurvives ==
  ASSUME Ready, NEW g, NEW row \in Player, RowOf(g, row), SameBoard(g), row.cash = Me.cash,
         CanResolve(game, Current)
  PROVE  Survived(resolveBankruptcy(g, Current))
<1>1. PICK r, owned : r = resolveBankruptcy(g, Current)
                      /\ owned = ownedPropertyPositions(g.properties, Current)
  OBVIOUS
<1>2. Running(game) /\ Current \in Seats /\ Current \in ActiveSeats(game.players) /\ Me \in Player
  BY ReadyRuns
<1>3. /\ ActiveSeats(g.players) = ActiveSeats(game.players) /\ g.players[Current] = row
      /\ \A s \in Seats \ {Current} : g.players[s] = game.players[s]
  BY RowKeepsSeats
<1>4. /\ DOMAIN r = FieldNames /\ r.lifecycle = game.lifecycle /\ r.terminal = game.terminal
      /\ r.stateVersion = game.stateVersion /\ r.activeTrades = game.activeTrades
      /\ r.players = [g.players EXCEPT ![Current] =
           [@ EXCEPT !.status = "eliminated", !.cash = 0, !.position = 0, !.inJail = FALSE,
                     !.jailTurns = 0, !.consecutiveDoubles = 0, !.getOutOfJailCards = 0]]
      /\ r.properties = [p \in Positions |->
           IF p \in owned THEN [owner |-> None, houses |-> 0, hasHotel |-> FALSE] ELSE g.properties[p]]
      /\ r.bankCash = g.bankCash + LiquidationValue(g, Current) + g.players[Current].cash
      /\ r.housesRemaining = g.housesRemaining + MapThenSumSet(LAMBDA p : g.properties[p].houses, owned)
      /\ r.hotelsRemaining = g.hotelsRemaining + Cardinality({p \in owned : g.properties[p].hasHotel})
  BY <1>1 DEF resolveBankruptcy, FieldNames, RowOf
<1>5. DOMAIN g.players = Seats
  <2>1. game.players = [s \in Seats |-> game.players[s]]
    BY GameFields DEF Ready
  <2>2. QED
    BY <2>1 DEF RowOf
<1>6. r.players[Current] = Gone(row) /\ \A s \in Seats \ {Current} : r.players[s] = game.players[s]
  BY <1>2, <1>3, <1>4, <1>5 DEF Gone
<1>7. validPlayer(r.players[Current]) /\ r.players[Current].status = "eliminated"
  BY <1>6, GoneIsValid
<1>8. ActiveSeats(r.players) = ActiveSeats(game.players) \ {Current}
  BY <1>6, <1>7 DEF ActiveSeats
<1>9. BoardOK(r)
  <2>1. PICK board : board = g.properties
    OBVIOUS
  <2>2. /\ isValidPropertyStates(board) /\ Stock(board, g.housesRemaining, g.hotelsRemaining)
        /\ g.bankCash \in 0 .. MAX_MATCH_CASH
    BY <1>2, <2>1 DEF SameBoard, Running, BoardOK
  <2>3. owned \in SUBSET Positions
    BY <1>1 DEF ownedPropertyPositions
  <2>4. r.properties = Taken(board, owned)
    BY <1>4, <2>1 DEF Taken, Unowned
  <2>5. isValidPropertyStates(r.properties)
    BY <2>2, <2>4, TakenIsValid
  <2>6. r.housesRemaining = g.housesRemaining + SumFcn(Positions, HousesOf(board))[owned]
    <3>1. HousesOn(g, owned) = SumFcn(Positions, HousesOf(board))[owned]
      BY <2>1, <2>3, HousesAreSummed
    <3>2. r.housesRemaining = g.housesRemaining + HousesOn(g, owned)
      BY <1>4, Zenon DEF HousesOn
    <3>3. QED
      BY <3>1, <3>2
  <2>7. r.hotelsRemaining = g.hotelsRemaining + Cardinality({p \in owned : board[p].hasHotel})
    BY <1>4, <2>1
  <2>8. Stock(r.properties, r.housesRemaining, r.hotelsRemaining)
    BY <2>2, <2>3, <2>4, <2>6, <2>7, TakenIsStock
  <2>9. r.bankCash \in 0 .. MAX_MATCH_CASH
    <3>1. PICK value \in Nat : value = LiquidationValue(g, Current)
      BY <2>1, <2>2, WorthIsNatural
    <3>2. PICK cash \in Nat : cash = Me.cash
      BY <1>2 DEF Player
    <3>3. g.players[Current].cash = game.players[Current].cash /\ g.properties = game.properties
      BY <1>3 DEF Me, SameBoard
    <3>4. LiquidationValue(g, Current) = LiquidationValue(game, Current)
      BY <3>3, SameWorth
    <3>5. g.bankCash + value + cash <= MAX_MATCH_CASH
      BY <3>1, <3>2, <3>4 DEF CanResolve, SameBoard, Me
    <3>6. r.bankCash = g.bankCash + value + cash
      BY <1>3, <1>4, <3>1, <3>2
    <3>7. MAX_MATCH_CASH \in Nat
      BY LimitsAssumption
    <3>8. QED
      BY <2>2, <3>5, <3>6, <3>7
  <2>10. QED
    BY <2>5, <2>8, <2>9 DEF BoardOK
<1>10. SeatsOK(r)
  <2>1. ASSUME NEW s \in Seats PROVE validPlayer(r.players[s])
    BY <1>2, <1>6, <1>7 DEF Running, SeatsOK
  <2>2. ASSUME NEW p \in Positions PROVE r.properties[p].owner \in ActiveSeats(r.players) \cup {None}
    <3>1. game.properties[p].owner \in ActiveSeats(game.players) \cup {None}
      BY <1>2 DEF Running, SeatsOK
    <3>2. g.properties[p].owner = game.properties[p].owner
      BY DEF SameBoard
    <3>3. CASE p \in owned
      BY <1>4, <3>3
    <3>4. CASE p \notin owned
      <4>1. r.properties[p].owner = game.properties[p].owner /\ game.properties[p].owner # Current
        BY <1>1, <1>4, <3>2, <3>4 DEF ownedPropertyPositions
      <4>2. QED
        BY <1>8, <3>1, <4>1
    <3>5. QED
      BY <3>3, <3>4
  <2>3. QED
    BY <2>1, <2>2 DEF SeatsOK
<1>11. game.lifecycle = "inProgress" /\ game.terminal = None
  BY <1>2 DEF Running
<1>12. Survived(r)
  BY <1>4, <1>8, <1>9, <1>10, <1>11 DEF Survived
<1>13. QED
  BY <1>1, <1>12

(* The ranking of a match that can be ranked, and what it says of its end. *)
LEMMA RankingFits ==
  ASSUME NEW g, BoardOK(g), SeatsOK(g), CanRank(g), ActiveSeats(g.players) # {}
  PROVE  /\ DOMAIN Ranking(g) = ActiveSeats(g.players) /\ First(Ranking(g)) \in Seats
         /\ \A s \in ActiveSeats(g.players) :
              /\ Ranking(g)[s].rank \in 1 .. GAMEPLAY_POLICY.maximumPlayers
              /\ Ranking(g)[s].netWorth \in 0 .. MAX_MATCH_CASH
         /\ Ranking(g) \in [ActiveSeats(g.players) -> [rank : Nat, netWorth : Nat]]
<1>1. PICK D, w, R : /\ D = ActiveSeats(g.players) /\ w = [s \in D |-> calculatePlayerNetWorth(g, s)]
                     /\ R = Ranking(g)
  OBVIOUS
<1>2. R = [s \in D |-> [rank |-> RankOf(D, w, s), netWorth |-> w[s]]]
  BY <1>1, RankingRanks
<1>3. D \in SUBSET Seats /\ D # {}
  BY <1>1 DEF ActiveSeats
<1>4. ASSUME NEW s \in D
      PROVE  R[s].netWorth \in 0 .. MAX_MATCH_CASH
  <2>1. g.players[s].cash \in Nat
    <3>1. g.players[s] \in Player
      BY <1>3 DEF SeatsOK, validPlayer
    <3>2. QED
      BY <3>1, LimitsAssumption DEF Player
  <2>2. PICK worth \in Nat : worth = calculatePlayerNetWorth(g, s)
    BY <2>1, WorthIsNatural DEF BoardOK
  <2>3. worth <= MAX_MATCH_CASH /\ MAX_MATCH_CASH \in Nat
    BY <1>1, <2>2, LimitsAssumption DEF CanRank
  <2>4. R[s].netWorth = worth
    BY <1>1, <1>2, <2>2
  <2>5. QED
    BY <2>3, <2>4
<1>5. DOMAIN R = D
  BY <1>2
<1>6. Placed(R)
  <2>1. \A s \in DOMAIN R : R[s].netWorth \in Int
    BY <1>4, <1>5, LimitsAssumption
  <2>2. QED
    BY <1>1, <2>1, RankingPlaces
<1>7. PICK n \in Nat : n = Cardinality(D)
  BY <1>5, <1>6 DEF Placed
<1>8. n <= GAMEPLAY_POLICY.maximumPlayers /\ 1 <= n
  <2>1. PICK m \in Nat : m = GAMEPLAY_POLICY.maximumPlayers
    BY PolicyAssumption
  <2>2. D \in SUBSET (0 .. m - 1)
    BY <1>3, <2>1, SeatsAssumption
  <2>3. PICK last \in Int : last = m - 1
    BY <2>1
  <2>4. n <= m
    <3>1. IsFiniteSet(0 .. last) /\ Cardinality(0 .. last) = (IF 0 > last THEN 0 ELSE last - 0 + 1)
      BY FS_Interval
    <3>2. Cardinality(0 .. last) = m
      BY <2>1, <2>3, <3>1
    <3>3. D \in SUBSET (0 .. last)
      BY <2>2, <2>3
    <3>4. Cardinality(D) <= Cardinality(0 .. last)
      BY <3>1, <3>3, FS_Subset
    <3>5. QED
      BY <1>7, <3>2, <3>4
  <2>5. n # 0
    BY <1>3, <1>5, <1>6, <1>7, FS_EmptySet DEF Placed
  <2>6. n \in Nat /\ 1 <= n
    BY <1>7, <2>5
  <2>7. QED
    BY <2>1, <2>4, <2>6
<1>9. \A s \in D : R[s].rank \in 1 .. n
  BY <1>5, <1>6, <1>7 DEF Placed
<1>10. First(R) \in D
  <2>1. \E s \in D : R[s].rank = 1
    BY <1>5, <1>6, <1>7, <1>8 DEF Placed
  <2>2. QED
    BY <1>5, <2>1, Zenon DEF First
<1>11. ASSUME NEW s \in D
       PROVE  /\ R[s].rank \in 1 .. GAMEPLAY_POLICY.maximumPlayers
              /\ R[s] \in [rank : Nat, netWorth : Nat]
  <2>1. PICK m \in Nat : m = GAMEPLAY_POLICY.maximumPlayers
    BY PolicyAssumption
  <2>2. R[s].rank \in 1 .. m /\ R[s].rank \in Nat /\ R[s].netWorth \in Nat
    BY <1>4, <1>8, <1>9, <2>1, LimitsAssumption
  <2>3. R[s] = [rank |-> R[s].rank, netWorth |-> R[s].netWorth]
    BY <1>2
  <2>4. QED
    BY <2>1, <2>2, <2>3
<1>12. R \in [D -> [rank : Nat, netWorth : Nat]]
  BY <1>2, <1>5, <1>11
<1>13. QED
  BY <1>1, <1>3, <1>4, <1>5, <1>10, <1>11, <1>12

LEMMA SameRanking ==
  ASSUME NEW g, NEW h, g.players = h.players, g.properties = h.properties
  PROVE  Ranking(g) = Ranking(h) /\ (CanRank(g) <=> CanRank(h))
<1>1. PICK D, w : D = ActiveSeats(g.players) /\ w = [s \in D |-> calculatePlayerNetWorth(g, s)]
  OBVIOUS
<1>2. \A s : calculatePlayerNetWorth(g, s) = calculatePlayerNetWorth(h, s)
  BY SameWorth
<1>3. D = ActiveSeats(h.players)
  BY <1>1
<1>4. w = [s \in D |-> calculatePlayerNetWorth(h, s)]
  BY <1>1, <1>2
<1>5. Ranking(g) = [s \in D |-> [rank |-> RankOf(D, w, s), netWorth |-> w[s]]]
  BY <1>1, RankingRanks
<1>6. Ranking(h) = [s \in D |-> [rank |-> RankOf(D, w, s), netWorth |-> w[s]]]
  BY <1>3, <1>4, RankingRanks
<1>7. CanRank(g) <=> CanRank(h)
  BY <1>1, <1>2, <1>3 DEF CanRank
<1>8. QED
  BY <1>5, <1>6, <1>7

(* A match that may end: what it needs for its result to be stored and reported. *)
Endable(g, reason) ==
  /\ DOMAIN g = FieldNames /\ g.stateVersion \in Nat /\ g.stateVersion < MAX_STATE_VERSION
  /\ BoardOK(g) /\ SeatsOK(g) /\ CanRank(g) /\ ActiveSeats(g.players) # {} /\ reason \in EndReasons
  /\ reason \in {"lastPlayerStanding", "timeoutForfeit"} => Cardinality(ActiveSeats(g.players)) = 1

LEMMA FinishedIsStorable ==
  ASSUME NEW g, NEW reason, Endable(g, reason), NEW next, next = finishState(g, reason)
  PROVE  /\ hydrateGameplayState([next EXCEPT !.stateVersion = @ + 1])
         /\ next.terminal # None /\ next.lifecycle = "finished" /\ DOMAIN next = FieldNames
         /\ Admitted(terminalEvents(next.terminal)[1]) /\ Admitted(terminalEvents(next.terminal)[2])
<1>1. PICK h : h = [next EXCEPT !.stateVersion = @ + 1]
  OBVIOUS
<1>2. PICK T : T = deriveRankedTerminalOutcome(g, reason)
  OBVIOUS
<1>3. /\ h.lifecycle = "finished" /\ h.players = g.players /\ h.properties = g.properties
      /\ h.bankCash = g.bankCash /\ h.housesRemaining = g.housesRemaining
      /\ h.hotelsRemaining = g.hotelsRemaining
      /\ h.turn = [phase |-> "finished", seat |-> None, at |-> None] /\ h.terminal = T
      /\ h.bankruptcyRequired = None /\ h.activeTrades = <<>> /\ h.lastDice = None
      /\ h.stateVersion = g.stateVersion + 1
      /\ next.terminal = T /\ next.lifecycle = "finished" /\ DOMAIN next = FieldNames
  BY <1>1, <1>2 DEF finishState, Endable, FieldNames
<1>4. PICK R : R = Ranking(g)
  OBVIOUS
<1>5. T = [reason |-> reason, winner |-> First(R), ranking |-> R]
  BY <1>2, <1>4 DEF deriveRankedTerminalOutcome
<1>6. /\ DOMAIN R = ActiveSeats(g.players) /\ First(R) \in Seats
      /\ \A s \in ActiveSeats(g.players) : /\ R[s].rank \in 1 .. GAMEPLAY_POLICY.maximumPlayers
                                           /\ R[s].netWorth \in 0 .. MAX_MATCH_CASH
      /\ R \in [ActiveSeats(g.players) -> [rank : Nat, netWorth : Nat]]
  BY <1>4, RankingFits DEF Endable
<1>7. hydrateTerminal(T)
  BY <1>5, <1>6 DEF hydrateTerminal, Endable, ActiveSeats
<1>8. T # None
  <2>1. R \in UNION {[D -> [rank : Nat, netWorth : Nat]] : D \in SUBSET Seats}
    <3>1. ActiveSeats(g.players) \in SUBSET Seats
      BY DEF ActiveSeats
    <3>2. QED
      BY <1>6, <3>1
  <2>2. T \in Outcome
    BY <1>5, <1>6, <2>1 DEF Outcome, Endable
  <2>3. QED
    BY <2>2, NullAssumption
<1>9. Ranking(h) = R
  BY <1>3, <1>4, SameRanking
<1>10. BoardOK(h) /\ SeatsOK(h)
  BY <1>3 DEF Endable, BoardOK, SeatsOK
<1>11. isValidFinished(h)
  <2>1. isValidBankruptcyState(h)
    BY <1>10, BankruptcyStateIs
  <2>2. h.terminal.ranking = Ranking(h) /\ h.terminal.winner = First(h.terminal.ranking)
    BY <1>3, <1>5, <1>9
  <2>3. h.terminal.reason = reason
    BY <1>3, <1>5
  <2>4. QED
    BY <1>3, <1>8, <2>1, <2>2, <2>3 DEF isValidFinished, Endable
<1>12. hydrateTurn(h.turn, h.lifecycle) /\ hydrateDice(h.lastDice)
  BY <1>3 DEF hydrateTurn, hydrateDice, Turn
<1>13. h.stateVersion \in 1 .. MAX_STATE_VERSION
  BY <1>3, LimitsAssumption DEF Endable
<1>14. /\ \A s \in Seats : hydratePlayer(h.players[s])
       /\ \A p \in Positions : hydrateProperty(h.properties[p])
       /\ h.bankCash \in 0 .. MAX_MATCH_CASH
       /\ h.housesRemaining \in 0 .. GAMEPLAY_POLICY.totalHouses
       /\ h.hotelsRemaining \in 0 .. GAMEPLAY_POLICY.totalHotels
  BY <1>10 DEF BoardOK, SeatsOK, Stock, isValidPropertyStates, validPlayer, hydratePlayer, hydrateProperty
<1>15. hydrateGameplayState(h)
  BY <1>3, <1>7, <1>11, <1>12, <1>13, <1>14 DEF hydrateGameplayState
<1>16. GameplayTerminalStateSchema(PublicTerminal(T))
  BY <1>4, <1>5, <1>7, <1>8, TerminalIsReadable DEF Endable
<1>17. PICK W : W = wireRanking(R)
  OBVIOUS
<1>18. /\ reason \in EndReasons /\ W # <<>> /\ \A i \in DOMAIN W : TerminalRankingEntrySchema(W[i])
  BY <1>5, <1>8, <1>16, <1>17 DEF GameplayTerminalStateSchema, PublicTerminal
<1>19. Admitted([type |-> "gameEnded", reason |-> reason, player |-> First(R), ranking |-> R])
  <2>1. gameplayPayload([type |-> "gameEnded", reason |-> reason, player |-> First(R), ranking |-> R]) =
          [type |-> "gameEnded", reason |-> reason, player |-> First(R), ranking |-> W]
    BY <1>17 DEF gameplayPayload
  <2>2. GameplayEventPayloadSchema(
          [type |-> "gameEnded", reason |-> reason, player |-> First(R), ranking |-> W])
    BY <1>6, <1>18 DEF GameplayEventPayloadSchema
  <2>3. QED
    BY <2>1, <2>2 DEF Admitted
<1>20. Admitted([type |-> "settlementEntitled", player |-> First(R), reason |-> reason])
  BY <1>6, <1>18 DEF Admitted, GameplayEventPayloadSchema, gameplayPayload
<1>21. /\ terminalEvents(T)[1] = [type |-> "gameEnded", reason |-> reason, player |-> First(R), ranking |-> R]
       /\ terminalEvents(T)[2] = [type |-> "settlementEntitled", player |-> First(R), reason |-> reason]
  BY <1>5 DEF terminalEvents
<1>22. QED
  BY <1>1, <1>3, <1>8, <1>15, <1>19, <1>20, <1>21

(* Events of which each is admitted, few enough to be acknowledged. *)
LEMMA SequenceReported ==
  ASSUME NEW E, \A e \in E : Admitted(e), NEW events \in Seq(E), Len(events) <= MaxEvents
  PROVE  Reportable(events)
<1>1. PICK n \in Nat : n = Len(events)
  OBVIOUS
<1>2. n \in 0 .. MaxEvents /\ DOMAIN events = 1 .. n
  <2>1. DOMAIN events = 1 .. n
    BY <1>1
  <2>2. MaxEvents \in Nat
    BY DEF MaxEvents
  <2>3. QED
    BY <1>1, <2>1, <2>2
<1>3. \A i \in 1 .. n : Admitted(events[i])
  BY <1>1
<1>4. QED
  BY <1>2, <1>3, EventsReported

LEMMA JoinedReported ==
  ASSUME NEW E, \A e \in E : Admitted(e), NEW a \in Seq(E), NEW b \in Seq(E),
         Len(a) + Len(b) <= MaxEvents
  PROVE  Reportable(a \o b)
<1>1. PICK events : events = a \o b
  OBVIOUS
<1>2. events \in Seq(E) /\ Len(events) = Len(a) + Len(b)
  BY <1>1
<1>3. Reportable(events)
  BY <1>2, SequenceReported
<1>4. QED
  BY <1>1, <1>3

(* A match that has ended and can be stored and reported. *)
Ended(next) ==
  /\ DOMAIN next = FieldNames /\ next.lifecycle = "finished" /\ next.terminal # None
  /\ hydrateGameplayState([next EXCEPT !.stateVersion = @ + 1])
  /\ Admitted(terminalEvents(next.terminal)[1]) /\ Admitted(terminalEvents(next.terminal)[2])

LEMMA EndedPlays ==
  ASSUME NEW kind, NEW next, NEW events, Commit(kind, next, events), Reportable(events), Ended(next)
  PROVE  Played
<1>1. PICK committed : committed = [next EXCEPT !.stateVersion = @ + 1]
  OBVIOUS
<1>2. hydrateGameplayState(committed)
  BY <1>1 DEF Ended
<1>3. game' = committed /\ refused' = refused
  BY <1>1, <1>2 DEF Commit
<1>4. game'.lifecycle = "finished"
  BY <1>1, <1>3 DEF Ended, FieldNames
<1>5. QED
  BY <1>3, <1>4 DEF Played, Contested

GoesOn(next) ==
  Running(next) /\ Cardinality(ActiveSeats(next.players)) >= 2 /\ next.turn.seat \in Seats

LEMMA AfterElimination ==
  ASSUME Ready, NEW r, Survived(r), MayFinish(r),
         NEW reason \in {"lastPlayerStanding", "timeoutForfeit"}, NEW next, next = ContinueOrFinish(r, reason)
  PROVE  Ended(next) \/ GoesOn(next)
<1>1. Running(game) /\ Cardinality(ActiveSeats(game.players)) >= 2 /\ Current \in Seats
      /\ Current \in ActiveSeats(game.players)
  BY ReadyRuns
<1>2. PICK A, n : A = ActiveSeats(r.players) /\ n = Cardinality(A)
  OBVIOUS
<1>3. n \in Nat /\ n >= 1 /\ A # {}
  <2>1. PICK B : B = ActiveSeats(game.players)
    OBVIOUS
  <2>2. IsFiniteSet(B) /\ A = B \ {Current} /\ Current \in B
    BY <1>1, <1>2, <2>1, SeatsFinite DEF Survived
  <2>3. n = Cardinality(B) - 1 /\ Cardinality(B) >= 2
    <3>1. Cardinality(B \ {Current}) = Cardinality(B) - 1
      BY <2>2, FS_RemoveElement
    <3>2. QED
      BY <1>1, <1>2, <2>1, <2>2, <3>1
  <2>4. Cardinality(B) \in Nat
    BY <2>2, FS_CardinalityType
  <2>5. n # 0
    BY <2>3, <2>4
  <2>6. A # {}
    BY <1>2, <2>5, FS_EmptySet
  <2>7. QED
    BY <2>3, <2>4, <2>6
<1>4. game.stateVersion \in Nat /\ game.stateVersion < MAX_STATE_VERSION
  BY <1>1 DEF Running
<1>5. CASE endConditionMet(r)
  <2>1. next = finishState(r, reason)
    BY <1>5 DEF ContinueOrFinish
  <2>2. CanRank(r) /\ n = 1
    BY <1>2, <1>3, <1>5 DEF MayFinish, endConditionMet
  <2>3. Endable(r, reason)
    BY <1>2, <1>3, <1>4, <2>2 DEF Endable, Survived, EndReasons
  <2>4. Ended(next)
    BY <2>1, <2>3, FinishedIsStorable DEF Ended
  <2>5. QED
    BY <2>4
<1>6. CASE ~endConditionMet(r)
  <2>1. PICK seat : seat = nextActiveSeat(r.players, Current)
    OBVIOUS
  <2>2. seat \in A /\ seat \in Seats
    BY <1>1, <1>2, <1>3, <2>1, NextIsActive DEF ActiveSeats
  <2>3. next = [r EXCEPT !.turn = createClockedGameplayTurn("awaitingRoll", seat),
                         !.bankruptcyRequired = None, !.activeTrades = TradesWithout(Current),
                         !.lastDice = None]
    BY <1>6, <2>1 DEF ContinueOrFinish
  <2>4. /\ DOMAIN next = FieldNames /\ next.lifecycle = r.lifecycle /\ next.terminal = r.terminal
        /\ next.stateVersion = r.stateVersion /\ next.players = r.players
        /\ next.properties = r.properties /\ next.bankCash = r.bankCash
        /\ next.housesRemaining = r.housesRemaining /\ next.hotelsRemaining = r.hotelsRemaining
        /\ next.turn = createClockedGameplayTurn("awaitingRoll", seat) /\ next.bankruptcyRequired = None
        /\ next.activeTrades = TradesWithout(Current) /\ next.lastDice = None
    BY <2>3 DEF Survived, FieldNames
  <2>5. TurnOK(next)
    <3>1. seat \in ActiveSeats(next.players) /\ hydrateDice(next.lastDice)
      BY <1>2, <2>2, <2>4 DEF hydrateDice
    <3>2. QED
      BY <2>4, <3>1, ClockedOK
  <2>6. TradesOK(next)
    <3>1. TradesWithout(Current) \in Seq(Trade)
      BY KeptTrades DEF Ready
    <3>2. QED
      BY <2>4, <3>1, TradeCanBeStored DEF TradesOK
  <2>7. BoardOK(next) /\ SeatsOK(next)
    BY <2>4 DEF Survived, BoardOK, SeatsOK
  <2>8. Running(next)
    BY <1>4, <2>4, <2>5, <2>6, <2>7 DEF Running, Survived
  <2>9. Cardinality(ActiveSeats(next.players)) >= 2
    <3>1. ~(n <= 1)
      BY <1>2, <1>6 DEF endConditionMet
    <3>2. ActiveSeats(next.players) = A
      BY <1>2, <2>4
    <3>3. QED
      BY <1>2, <1>3, <3>1, <3>2
  <2>10. next.turn.seat \in Seats
    BY <2>2, <2>4 DEF createClockedGameplayTurn
  <2>11. QED
    BY <2>8, <2>9, <2>10 DEF GoesOn
<1>7. QED
  BY <1>5, <1>6

LEMMA EndingReported ==
  ASSUME NEW next, Ended(next) \/ GoesOn(next), NEW E, \A e \in E : Admitted(e),
         NEW first \in Seq(E), Len(first) <= 3, NEW otherwise,
         GoesOn(next) => otherwise \in Seq(E) /\ Len(otherwise) <= 1
  PROVE  Reportable(first \o EndingEvents(next, otherwise))
<1>1. PICK n \in Nat : n = Len(first) /\ n <= 3
  OBVIOUS
<1>2. CASE next.terminal = None
  <2>1. EndingEvents(next, otherwise) = otherwise
    BY <1>2 DEF EndingEvents
  <2>2. otherwise \in Seq(E) /\ Len(otherwise) <= 1
    BY <1>2 DEF Ended
  <2>3. Len(first) + Len(otherwise) <= MaxEvents
    <3>1. PICK m \in Nat : m = Len(otherwise) /\ m <= 1
      BY <2>2
    <3>2. QED
      BY <1>1, <3>1 DEF MaxEvents
  <2>4. Reportable(first \o otherwise)
    BY <2>2, <2>3, JoinedReported
  <2>5. QED
    BY <2>1, <2>4
<1>3. CASE next.terminal # None
  <2>1. PICK ending : ending = terminalEvents(next.terminal)
    OBVIOUS
  <2>2. EndingEvents(next, otherwise) = ending
    BY <1>3, <2>1 DEF EndingEvents
  <2>3. Admitted(ending[1]) /\ Admitted(ending[2])
    BY <1>3, <2>1 DEF Ended, GoesOn, Running
  <2>4. PICK a, b : ending = <<a, b>>
    BY <2>1 DEF terminalEvents
  <2>5. Admitted(a) /\ Admitted(b)
    BY <2>3, <2>4
  <2>6. PICK F : F = E \cup {a, b}
    OBVIOUS
  <2>7. (\A e \in F : Admitted(e)) /\ first \in Seq(F) /\ ending \in Seq(F) /\ Len(ending) = 2
    <3>1. \A e \in F : Admitted(e)
      BY <2>5, <2>6
    <3>2. first \in Seq(F)
      BY <2>6
    <3>3. ending \in Seq(F) /\ Len(ending) = 2
      BY <2>4, <2>6
    <3>4. QED
      BY <3>1, <3>2, <3>3
  <2>8. Len(first) + Len(ending) <= MaxEvents
    BY <1>1, <2>7 DEF MaxEvents
  <2>9. Reportable(first \o ending)
    BY <2>7, <2>8, JoinedReported
  <2>10. QED
    BY <2>2, <2>9
<1>4. QED
  BY <1>2, <1>3

LEMMA BankruptcyReported ==
  ASSUME Ready
  PROVE  Admitted(BankruptcyEvent)
<1>1. Running(game) /\ Current \in Seats /\ Me \in Player
  BY ReadyRuns
<1>2. LiquidationValue(game, Current) \in Nat
  BY <1>1, WorthIsNatural DEF Running, BoardOK
<1>3. Me.cash \in Nat
  BY <1>1, LimitsAssumption DEF Player
<1>4. QED
  BY <1>1, <1>2, <1>3, PlayerBankruptAdmitted DEF BankruptcyEvent

LEMMA DeclareBankruptcyPlays ==
  ASSUME Ready, declareBankruptcy
  PROVE  Played
<1>1. PICK r, next, events :
        /\ r = resolveBankruptcy(game, Current) /\ MayFinish(r)
        /\ next = ContinueOrFinish(r, "lastPlayerStanding")
        /\ events = <<BankruptcyEvent>> \o EndingEvents(next, <<>>)
        /\ Commit("declareBankruptcy", next, events)
  BY DEF declareBankruptcy
<1>2. CanResolve(game, Current)
  BY DEF declareBankruptcy
<1>3. RowOf(game, Me) /\ SameBoard(game) /\ Me \in Player
  BY SameRow, ReadyRuns
<1>4. Survived(r)
  BY <1>1, <1>2, <1>3, ResolveSurvives
<1>5. Ended(next) \/ GoesOn(next)
  BY <1>1, <1>4, AfterElimination
<1>6. PICK a : a = BankruptcyEvent
  OBVIOUS
<1>7. Reportable(events)
  <2>1. PICK E : E = {a}
    OBVIOUS
  <2>2. \A e \in E : Admitted(e)
    BY <1>6, <2>1, BankruptcyReported
  <2>3. <<a>> \in Seq(E) /\ Len(<<a>>) <= 3 /\ <<>> \in Seq(E) /\ Len(<<>>) <= 1
    BY <2>1
  <2>4. Reportable(<<a>> \o EndingEvents(next, <<>>))
    BY <1>5, <2>2, <2>3, EndingReported
  <2>5. QED
    BY <1>1, <1>6, <2>4
<1>8. QED
  BY <1>1, <1>5, <1>7, EndedPlays, RunningPlays DEF GoesOn

-----------------------------------------------------------------------------
(* Timers *)

LEMMA MissedRow ==
  ASSUME Ready, Me.missedTurns + 1 <= GAMEPLAY_POLICY.maximumMissedTurns,
         NEW missed, missed = [game EXCEPT !.players[Current].missedTurns = @ + 1],
         NEW row, row = [Me EXCEPT !.missedTurns = Me.missedTurns + 1]
  PROVE  /\ row \in Player /\ validPlayer(row) /\ row.cash = Me.cash
         /\ RowOf(missed, row) /\ SameBoard(missed)
         /\ missed.turn = game.turn /\ missed.bankruptcyRequired = game.bankruptcyRequired
         /\ Me.missedTurns + 1 \in 1 .. GAMEPLAY_POLICY.maximumMissedTurns
<1>1. Current \in Seats /\ Me \in Player /\ validPlayer(Me) /\ Me.status = "active"
  BY ReadyRuns
<1>2. PICK m \in Nat : m = GAMEPLAY_POLICY.maximumMissedTurns
  BY PolicyAssumption
<1>3. Me.missedTurns + 1 \in 1 .. m /\ Me.missedTurns + 1 \in 0 .. m
  <2>1. Me.missedTurns \in 0 .. m
    BY <1>1, <1>2 DEF Player
  <2>2. QED
    BY <1>2, <2>1
<1>4. row \in Player
  BY <1>1, <1>2, <1>3 DEF Player
<1>5. /\ row.status = "active" /\ row.cash = Me.cash /\ row.inJail = Me.inJail
      /\ row.position = Me.position /\ row.jailTurns = Me.jailTurns
      /\ row.consecutiveDoubles = Me.consecutiveDoubles
  BY <1>1 DEF Player
<1>6. validPlayer(row)
  BY <1>1, <1>4, <1>5 DEF validPlayer
<1>7. RowOf(missed, row) /\ SameBoard(missed)
  BY <1>1, <1>5, GameFields DEF Ready, RowOf, SameBoard, FieldNames, Me
<1>8. missed.turn = game.turn /\ missed.bankruptcyRequired = game.bankruptcyRequired
  BY GameFields DEF Ready, FieldNames
<1>9. QED
  BY <1>2, <1>3, <1>4, <1>5, <1>6, <1>7, <1>8

LEMMA MissTurnPlays ==
  ASSUME Ready, game.bankruptcyRequired = None, NEW missed,
         missed = [game EXCEPT !.players[Current].missedTurns = @ + 1], MissTurn(missed)
  PROVE  Played
<1>1. PICK next, row, count, events :
        /\ next = [missed EXCEPT !.turn = advanceGameplayTurn, !.lastDice = None]
        /\ row = [Me EXCEPT !.missedTurns = Me.missedTurns + 1] /\ count = Me.missedTurns + 1
        /\ events = <<TimeoutPenalty(Current, count), ForcedTurnEnd(Current, advanceGameplayTurn.seat)>>
  OBVIOUS
<1>2. Current \in Seats
  BY ReadyRuns
<1>3. Me.missedTurns + 1 <= GAMEPLAY_POLICY.maximumMissedTurns
  <2>1. PICK m \in Nat : m = GAMEPLAY_POLICY.maximumMissedTurns
    BY PolicyAssumption
  <2>2. Me.missedTurns \in 0 .. m
    BY <2>1, ReadyRuns DEF Player
  <2>3. QED
    BY <2>1, <2>2 DEF MissTurn
<1>4. /\ validPlayer(row) /\ RowOf(missed, row) /\ SameBoard(missed)
      /\ missed.bankruptcyRequired = None
      /\ count \in 1 .. GAMEPLAY_POLICY.maximumMissedTurns
  BY <1>1, <1>3, MissedRow
<1>5. /\ RowOf(next, row) /\ SameBoard(next) /\ next.turn = advanceGameplayTurn
      /\ next.lastDice = None /\ next.bankruptcyRequired = None
  BY <1>1, <1>4 DEF RowOf, SameBoard, FieldNames
<1>6. TurnOK(next) /\ advanceGameplayTurn.seat \in Seats
  BY <1>5, AdvancedOK DEF hydrateDice
<1>7. Reportable(events)
  <2>1. Admitted(TimeoutPenalty(Current, count))
    BY <1>2, <1>4, TimeoutEventsAdmitted
  <2>2. Admitted(ForcedTurnEnd(Current, advanceGameplayTurn.seat))
    BY <1>2, <1>4, <1>6, TimeoutEventsAdmitted
  <2>3. QED
    BY <1>1, <2>1, <2>2, TwoEvents
<1>8. Commit("handleTurnTimeout", next, events)
  BY <1>1 DEF MissTurn
<1>9. QED
  BY <1>4, <1>5, <1>6, <1>7, <1>8, RowPlays

LEMMA ForfeitPlays ==
  ASSUME Ready, NEW missed, missed = [game EXCEPT !.players[Current].missedTurns = @ + 1], Forfeit(missed)
  PROVE  Played
<1>1. PICK r, next, events :
        /\ r = resolveBankruptcy(missed, Current) /\ MayFinish(r)
        /\ next = ContinueOrFinish(r, "timeoutForfeit") /\ events = ForfeitEvents(next)
        /\ Commit("handleTurnTimeout", next, events)
  BY DEF Forfeit
<1>2. CanResolve(game, Current) /\ Me.missedTurns + 1 = GAMEPLAY_POLICY.maximumMissedTurns
  BY DEF Forfeit
<1>3. PICK m \in Nat : m = GAMEPLAY_POLICY.maximumMissedTurns
  BY PolicyAssumption
<1>4. PICK row : row = [Me EXCEPT !.missedTurns = Me.missedTurns + 1]
  OBVIOUS
<1>5. Me.missedTurns + 1 <= GAMEPLAY_POLICY.maximumMissedTurns
  BY <1>2, <1>3
<1>6. /\ row \in Player /\ row.cash = Me.cash /\ RowOf(missed, row) /\ SameBoard(missed)
      /\ m \in 1 .. m
  BY <1>2, <1>3, <1>4, <1>5, MissedRow
<1>7. Survived(r)
  BY <1>1, <1>2, <1>6, ResolveSurvives
<1>8. Ended(next) \/ GoesOn(next)
  BY <1>1, <1>7, AfterElimination
<1>9. Current \in Seats
  BY ReadyRuns
<1>10. PICK a, b, c, d : /\ a = TimeoutPenalty(Current, m) /\ b = TimeoutForfeit(Current, m)
                         /\ c = BankruptcyEvent /\ d = ForcedTurnEnd(Current, next.turn.seat)
  OBVIOUS
<1>11. Admitted(a) /\ Admitted(b) /\ Admitted(c)
  BY <1>3, <1>6, <1>9, <1>10, TimeoutEventsAdmitted, BankruptcyReported
<1>12. GoesOn(next) => Admitted(d)
  <2>1. SUFFICES ASSUME GoesOn(next) PROVE Admitted(d)
    OBVIOUS
  <2>2. next.turn.seat \in Seats
    BY <2>1 DEF GoesOn
  <2>3. QED
    BY <1>3, <1>6, <1>9, <1>10, <2>2, TimeoutEventsAdmitted
<1>13. Reportable(events)
  <2>1. PICK E : E = IF GoesOn(next) THEN {a, b, c, d} ELSE {a, b, c}
    OBVIOUS
  <2>2. \A e \in E : Admitted(e)
    BY <1>11, <1>12, <2>1
  <2>3. <<a, b, c>> \in Seq(E) /\ Len(<<a, b, c>>) <= 3
    <3>1. a \in E /\ b \in E /\ c \in E
      BY <2>1
    <3>2. QED
      BY <3>1
  <2>4. GoesOn(next) => <<d>> \in Seq(E) /\ Len(<<d>>) <= 1
    BY <2>1
  <2>5. Reportable(<<a, b, c>> \o EndingEvents(next, <<d>>))
    BY <1>8, <2>2, <2>3, <2>4, EndingReported
  <2>6. events = <<a, b, c>> \o EndingEvents(next, <<d>>)
    BY <1>1, <1>3, <1>10 DEF ForfeitEvents
  <2>7. QED
    BY <2>5, <2>6
<1>14. QED
  BY <1>1, <1>8, <1>13, EndedPlays, RunningPlays DEF GoesOn

LEMMA HandleTurnTimeoutPlays ==
  ASSUME Ready, handleTurnTimeout
  PROVE  Played
<1>1. PICK missed : /\ missed = [game EXCEPT !.players[Current].missedTurns = @ + 1]
                    /\ MissTurn(missed) \/ Forfeit(missed)
  BY DEF handleTurnTimeout
<1>2. game.bankruptcyRequired = None
  BY DEF handleTurnTimeout, TimerRuns
<1>3. QED
  BY <1>1, <1>2, MissTurnPlays, ForfeitPlays

LEMMA EnforceGameTimeLimitPlays ==
  ASSUME Ready, enforceGameTimeLimit
  PROVE  Played
<1>1. PICK next, events : /\ next = finishState(game, "timeLimit")
                          /\ events = EndingEvents(next, <<>>)
                          /\ Commit("enforceGameTimeLimit", next, events)
  BY DEF enforceGameTimeLimit
<1>2. Running(game) /\ Cardinality(ActiveSeats(game.players)) >= 2
  BY ReadyRuns
<1>3. ActiveSeats(game.players) # {}
  BY <1>2, FS_EmptySet
<1>4. Endable(game, "timeLimit")
  BY <1>2, <1>3 DEF Endable, Running, EndReasons, enforceGameTimeLimit
<1>5. Ended(next)
  BY <1>1, <1>4, FinishedIsStorable DEF Ended
<1>6. PICK a, b : <<a, b>> = terminalEvents(next.terminal)
  BY DEF terminalEvents
<1>7. events = <<a, b>>
  BY <1>1, <1>5, <1>6 DEF EndingEvents, Ended
<1>8. Admitted(a) /\ Admitted(b)
  <2>1. a = terminalEvents(next.terminal)[1] /\ b = terminalEvents(next.terminal)[2]
    BY <1>6
  <2>2. QED
    BY <1>5, <2>1 DEF Ended
<1>9. Reportable(events)
  BY <1>7, <1>8, TwoEvents
<1>10. QED
  BY <1>1, <1>5, <1>9, EndedPlays

-----------------------------------------------------------------------------
(* Trades *)

LEMMA TradeCreatedAdmitted ==
  ASSUME NEW trade \in Trade
  PROVE  Admitted(TradeCreated(trade))
<1>1. PICK terms \in TradeTerms, proposer \in Seats, receiver \in Seats :
        terms = trade.terms /\ proposer = trade.proposer /\ receiver = trade.receiver
  BY DEF Trade
<1>2. terms \in Terms /\ validTerms(terms)
  BY TermsAssumption
<1>3. terms.offeredCash \in Nat /\ terms.requestedCash \in Nat
      /\ {terms.offeredProperty, terms.requestedProperty} \subseteq Positions \cup {None}
  BY <1>2, LimitsAssumption DEF Terms
<1>4. PICK event : event = [type |-> "tradeCreated", tradeType |-> tradeType(terms),
                            player |-> proposer, receiver |-> receiver, terms |-> terms]
  OBVIOUS
<1>5. gameplayPayload(TradeCreated(trade)) = event
  BY <1>1, <1>4 DEF gameplayPayload, TradeCreated
<1>6. tradeCreatedEvent(event)
  <2>1. event.terms = terms /\ event.tradeType = tradeType(terms)
    BY <1>4
  <2>2. InMatchCash(terms.offeredCash) /\ InMatchCash(terms.requestedCash)
    BY <1>3 DEF InMatchCash
  <2>3. /\ terms.offeredCash > 0 \/ terms.requestedCash > 0
             \/ terms.offeredProperty # None \/ terms.requestedProperty # None
        /\ terms.offeredProperty # None => terms.offeredCash = 0
        /\ terms.requestedProperty # None => terms.requestedCash = 0
    BY <1>2 DEF validTerms
  <2>4. CASE terms.offeredCash > 0 /\ terms.requestedProperty # None
    <3>1. terms.requestedCash = 0 /\ terms.offeredProperty = None /\ terms.offeredCash # 0
      BY <1>3, <2>3, <2>4
    <3>2. tradeType(terms) = "moneyForProperty"
      BY <2>4, <3>1 DEF tradeType
    <3>3. QED
      BY <1>3, <2>1, <2>2, <2>4, <3>1, <3>2 DEF tradeCreatedEvent
  <2>5. CASE terms.requestedCash > 0 /\ terms.offeredProperty # None
    <3>1. ~(terms.offeredCash > 0 /\ terms.requestedProperty # None)
      BY <1>3, <2>3, <2>5
    <3>2. tradeType(terms) = "propertyForMoney"
      BY <2>5, <3>1 DEF tradeType
    <3>3. terms.offeredCash = 0 /\ terms.requestedProperty = None /\ terms.requestedCash # 0
      BY <1>3, <2>3, <2>5
    <3>4. QED
      BY <1>3, <2>1, <2>2, <2>5, <3>2, <3>3 DEF tradeCreatedEvent
  <2>6. CASE terms.offeredProperty = None /\ terms.requestedProperty = None
    <3>1. tradeType(terms) = "moneyOnly"
      BY <2>6 DEF tradeType
    <3>2. terms.offeredCash # 0 \/ terms.requestedCash # 0
      BY <1>3, <2>3, <2>6
    <3>3. QED
      BY <1>3, <2>1, <2>2, <2>6, <3>1, <3>2 DEF tradeCreatedEvent
  <2>7. CASE /\ ~(terms.offeredCash > 0 /\ terms.requestedProperty # None)
             /\ ~(terms.requestedCash > 0 /\ terms.offeredProperty # None)
             /\ ~(terms.offeredProperty = None /\ terms.requestedProperty = None)
    <3>1. tradeType(terms) = "propertyOnly"
      BY <2>7 DEF tradeType
    <3>2. /\ terms.offeredCash = 0 /\ terms.requestedCash = 0
          /\ terms.offeredProperty # None \/ terms.requestedProperty # None
      BY <1>3, <2>3, <2>7
    <3>3. QED
      BY <1>3, <2>1, <2>2, <3>1, <3>2 DEF tradeCreatedEvent
  <2>8. QED
    BY <2>4, <2>5, <2>6, <2>7
<1>7. GameplayEventPayloadSchema(event)
  BY <1>4, <1>6 DEF GameplayEventPayloadSchema
<1>8. QED
  BY <1>5, <1>7 DEF Admitted

(* The trades that expired, and one event more. *)
LEMMA ExpiriesReported ==
  ASSUME Ready, NEW k \in Nat, k <= Len(game.activeTrades), NEW event, Admitted(event)
  PROVE  Reportable(TradesExpired(k)) /\ Reportable(Append(TradesExpired(k), event))
<1>1. PICK n \in Nat : n = Len(game.activeTrades) /\ n <= GAMEPLAY_POLICY.maximumActiveTrades
  BY DEF Ready, MatchOK
<1>2. k + 1 <= MaxEvents /\ k <= MaxEvents
  <2>1. PICK m \in Nat : m = GAMEPLAY_POLICY.maximumActiveTrades
    BY PolicyAssumption
  <2>2. m < MaxEvents /\ MaxEvents \in Nat
    BY <2>1, TradesAssumption DEF MaxEvents
  <2>3. QED
    BY <1>1, <2>1, <2>2
<1>3. PICK expired, E : expired = [type |-> "tradeExpired"] /\ E = {expired, event}
  OBVIOUS
<1>4. \A e \in E : Admitted(e)
  BY <1>3, TradeEventsAdmitted, SeatsAssumption
<1>5. PICK list : list = TradesExpired(k)
  OBVIOUS
<1>6. list \in Seq(E) /\ Len(list) = k
  <2>1. list = [i \in 1 .. k |-> expired]
    BY <1>3, <1>5 DEF TradesExpired
  <2>2. expired \in E
    BY <1>3
  <2>3. QED
    BY <2>1, <2>2
<1>7. Append(list, event) \in Seq(E) /\ Len(Append(list, event)) = k + 1
  BY <1>3, <1>6
<1>8. Reportable(list) /\ Reportable(Append(list, event))
  BY <1>2, <1>4, <1>6, <1>7, SequenceReported
<1>9. QED
  BY <1>5, <1>8

LEMMA TradesPlay ==
  ASSUME Ready, NEW kind, NEW list \in Seq(Trade), NEW events, Reportable(events),
         Commit(kind, [game EXCEPT !.activeTrades = list], events)
  PROVE  Played
<1>1. PICK next : next = [game EXCEPT !.activeTrades = list]
  OBVIOUS
<1>2. Running(game) /\ Cardinality(ActiveSeats(game.players)) >= 2
  BY ReadyRuns
<1>3. /\ DOMAIN next = FieldNames /\ next.lifecycle = game.lifecycle /\ next.terminal = game.terminal
      /\ next.stateVersion = game.stateVersion /\ next.players = game.players
      /\ next.properties = game.properties /\ next.bankCash = game.bankCash
      /\ next.housesRemaining = game.housesRemaining /\ next.hotelsRemaining = game.hotelsRemaining
      /\ next.turn = game.turn /\ next.bankruptcyRequired = game.bankruptcyRequired
      /\ next.lastDice = game.lastDice /\ next.activeTrades = list
  BY <1>1, <1>2 DEF Running, FieldNames
<1>4. BoardOK(next) /\ SeatsOK(next)
  BY <1>2, <1>3 DEF Running, BoardOK, SeatsOK
<1>5. TurnOK(next)
  BY <1>2, <1>3 DEF Running, TurnOK, validPendingPhase, RentIsOwed
<1>6. TradesOK(next)
  BY <1>3, TradeCanBeStored DEF TradesOK
<1>7. Running(next) /\ Cardinality(ActiveSeats(next.players)) >= 2
  BY <1>2, <1>3, <1>4, <1>5, <1>6 DEF Running
<1>8. QED
  BY <1>1, <1>7, RunningPlays

LEMMA CreateTradePlays ==
  ASSUME Ready, NEW proposer \in Seats, NEW receiver \in Seats, NEW terms \in TradeTerms,
         proposer # receiver, createTrade(proposer, receiver, terms)
  PROVE  Played
<1>1. PICK trade : trade = [proposer |-> proposer, receiver |-> receiver, terms |-> terms]
  OBVIOUS
<1>2. trade \in Trade
  BY <1>1 DEF Trade
<1>3. PICK k \in 0 .. Len(game.activeTrades) :
        Commit("createTrade", [game EXCEPT !.activeTrades = Append(Drop(k, game.activeTrades), trade)],
               Append(TradesExpired(k), TradeCreated(trade)))
  BY <1>1 DEF createTrade
<1>4. game.activeTrades \in Seq(Trade) /\ k \in Nat /\ k <= Len(game.activeTrades)
  BY DEF Ready, MatchOK
<1>5. PICK list : list = Append(Drop(k, game.activeTrades), trade)
  OBVIOUS
<1>6. list \in Seq(Trade)
  <2>1. Drop(k, game.activeTrades) \in Seq(Trade)
    BY <1>4, DroppedTrades
  <2>2. QED
    BY <1>2, <1>5, <2>1
<1>7. PICK events : events = Append(TradesExpired(k), TradeCreated(trade))
  OBVIOUS
<1>8. Reportable(events)
  BY <1>2, <1>4, <1>7, TradeCreatedAdmitted, ExpiriesReported
<1>9. Commit("createTrade", [game EXCEPT !.activeTrades = list], events)
  BY <1>3, <1>5, <1>7
<1>10. QED
  BY <1>6, <1>8, <1>9, TradesPlay

LEMMA RemoveTradePlays ==
  ASSUME Ready, NEW kind, NEW actor \in Seats, NEW i \in DOMAIN game.activeTrades,
         NEW type \in {"tradeRejected", "tradeCancelled"}, removeTrade(kind, actor, i, type)
  PROVE  Played
<1>1. PICK k \in 0 .. i - 1 :
        Commit(kind, [game EXCEPT !.activeTrades = Remaining(k, i)],
               Append(TradesExpired(k), TradeEnded(type, actor)))
  BY DEF removeTrade
<1>2. game.activeTrades \in Seq(Trade) /\ MatchOK
  BY DEF Ready, MatchOK
<1>3. k \in Nat /\ k <= Len(game.activeTrades)
  BY <1>2
<1>4. PICK list, events : list = Remaining(k, i) /\ events = Append(TradesExpired(k), TradeEnded(type, actor))
  OBVIOUS
<1>5. list \in Seq(Trade)
  BY <1>2, <1>4, RemainingTrades
<1>6. Reportable(events)
  BY <1>3, <1>4, TradeEventsAdmitted, ExpiriesReported
<1>7. Commit(kind, [game EXCEPT !.activeTrades = list], events)
  BY <1>1, <1>4
<1>8. QED
  BY <1>5, <1>6, <1>7, TradesPlay

LEMMA CleanupExpiredTradesPlays ==
  ASSUME Ready, cleanupExpiredTrades
  PROVE  Played
<1>1. PICK k \in 1 .. Len(game.activeTrades) :
        Commit("cleanupExpiredTrades", [game EXCEPT !.activeTrades = Drop(k, game.activeTrades)],
               TradesExpired(k))
  BY DEF cleanupExpiredTrades
<1>2. game.activeTrades \in Seq(Trade) /\ k \in 1 .. Len(game.activeTrades)
  BY DEF Ready, MatchOK
<1>3. k \in Nat /\ k <= Len(game.activeTrades) /\ k \in 0 .. Len(game.activeTrades)
  BY <1>2
<1>4. PICK list, events : list = Drop(k, game.activeTrades) /\ events = TradesExpired(k)
  OBVIOUS
<1>5. list \in Seq(Trade)
  BY <1>2, <1>3, <1>4, DroppedTrades
<1>6. Reportable(events)
  BY <1>3, <1>4, TradeEventsAdmitted, ExpiriesReported, SeatsAssumption
<1>7. Commit("cleanupExpiredTrades", [game EXCEPT !.activeTrades = list], events)
  BY <1>1, <1>4
<1>8. QED
  BY <1>5, <1>6, <1>7, TradesPlay

(* A trade that is accepted may be refused, but it leaves everyone in the match. *)
LEMMA AcceptTradePlays ==
  ASSUME Ready, NEW i \in DOMAIN game.activeTrades, acceptTrade(i)
  PROVE  Played
<1>1. PICK trade \in Trade : trade = game.activeTrades[i]
  BY DEF Ready, MatchOK
<1>2. PICK next, a, b, events :
        /\ next.players = [game.players EXCEPT ![trade.proposer].cash = a, ![trade.receiver].cash = b]
        /\ next.lifecycle = game.lifecycle /\ "players" \in DOMAIN next /\ "lifecycle" \in DOMAIN next
        /\ Commit("acceptTrade", next, events)
  <2>1. PICK k, a, b, board :
          Commit("acceptTrade",
                 [game EXCEPT !.players[trade.proposer].cash = a, !.players[trade.receiver].cash = b,
                              !.properties = board, !.activeTrades = Remaining(k, i)],
                 Append(TradesExpired(k), TradeAccepted(trade)))
    BY <1>1, Zenon DEF acceptTrade
  <2>2. PICK next : next = [game EXCEPT !.players[trade.proposer].cash = a,
                                        !.players[trade.receiver].cash = b,
                                        !.properties = board, !.activeTrades = Remaining(k, i)]
    OBVIOUS
  <2>3. /\ next.players = [game.players EXCEPT ![trade.proposer].cash = a, ![trade.receiver].cash = b]
        /\ next.lifecycle = game.lifecycle /\ DOMAIN next = FieldNames
    BY <2>2, GameFields DEF Ready, FieldNames
  <2>4. QED
    BY <2>1, <2>2, <2>3 DEF FieldNames
<1>3. ActiveSeats(next.players) = ActiveSeats(game.players)
  <2>1. game.players \in [Seats -> Player]
    BY DEF Ready, MatchOK
  <2>2. \A s \in Seats : next.players[s].status = game.players[s].status
    BY <1>2, <2>1 DEF Player
  <2>3. QED
    BY <2>2 DEF ActiveSeats
<1>4. PICK committed : committed = [next EXCEPT !.stateVersion = @ + 1]
  OBVIOUS
<1>5. /\ game' \in {game, committed}
      /\ refused' \in {refused, refused \cup {"acceptTrade"}}
  BY <1>2, <1>4 DEF Commit
<1>6. committed.players = next.players /\ committed.lifecycle = game.lifecycle
  BY <1>2, <1>4
<1>7. Contested(game')
  BY <1>3, <1>5, <1>6 DEF Contested, Ready
<1>8. QED
  BY <1>5, <1>7 DEF Played

LEMMA TradingPlays ==
  ASSUME Ready, Trading
  PROVE  Played
<1>1. CASE \E proposer, receiver \in Seats, terms \in TradeTerms :
             proposer # receiver /\ createTrade(proposer, receiver, terms)
  BY <1>1, CreateTradePlays
<1>2. ASSUME NEW i \in DOMAIN game.activeTrades, acceptTrade(i) \/ rejectTrade(i) \/ cancelTrade(i)
      PROVE  Played
  <2>1. game.activeTrades[i] \in Trade
    BY DEF Ready, MatchOK
  <2>2. game.activeTrades[i].proposer \in Seats /\ game.activeTrades[i].receiver \in Seats
    BY <2>1 DEF Trade
  <2>3. CASE acceptTrade(i)
    BY <2>3, AcceptTradePlays
  <2>4. CASE rejectTrade(i)
    <3>1. PICK actor \in Seats : removeTrade("rejectTrade", actor, i, "tradeRejected")
      BY <2>2, <2>4 DEF rejectTrade
    <3>2. QED
      BY <3>1, RemoveTradePlays
  <2>5. CASE cancelTrade(i)
    <3>1. PICK actor \in Seats : removeTrade("cancelTrade", actor, i, "tradeCancelled")
      BY <2>2, <2>5 DEF cancelTrade
    <3>2. QED
      BY <3>1, RemoveTradePlays
  <2>6. QED
    BY <1>2, <2>3, <2>4, <2>5
<1>3. QED
  BY <1>1, <1>2 DEF Trading

-----------------------------------------------------------------------------
(* The match *)

LEMMA NextPlays ==
  ASSUME MatchOK, hydrateGameplayState(game), Contested(game), Next
  PROVE  Played
<1>1. CASE TimeLimitReached \/ FallSilent
  BY <1>1 DEF TimeLimitReached, FallSilent, Played
<1>2. CASE ~(TimeLimitReached \/ FallSilent)
  <2>1. InProgress
    BY <1>2 DEF Next, rollDice, endTurn, buyProperty, declineProperty, payRent, payMevTax,
      payPriorityFeeTax, PayTax, Building, buildHouse, buildHotel, sellHouse, sellHotel, BuildingAction,
      payJailFine, useJailCard, drawCard, declareBankruptcy, Trading, createTrade, acceptTrade,
      rejectTrade, cancelTrade, removeTrade, cleanupExpiredTrades, handleTurnTimeout,
      enforceGameTimeLimit, PlayerTurn, TradesOpen, TimerRuns
  <2>2. Ready
    BY <2>1 DEF Ready
  <2>3. QED
    BY <1>2, <2>2, RollDicePlays, EndTurnPlays, BuyPropertyPlays, DeclinePropertyPlays, PayRentPlays,
       PayMevTaxPlays, PayPriorityFeeTaxPlays, BuildingPlays, PayJailFinePlays, UseJailCardPlays,
       DrawCardPlays, DeclareBankruptcyPlays, TradingPlays, CleanupExpiredTradesPlays,
       HandleTurnTimeoutPlays, EnforceGameTimeLimitPlays DEF Next
<1>3. QED
  BY <1>1, <1>2

LEMMA PlayableStep ==
  ASSUME Playable, [Next]_vars
  PROVE  Playable'
<1>1. CASE Next
  <2>1. MatchOK' /\ (game' = game \/ hydrateGameplayState(game'))
    BY <1>1, NextOK DEF Playable, StepOK, ReadBack
  <2>2. Played
    BY <1>1, NextPlays DEF Playable
  <2>3. hydrateGameplayState(game')
    BY <2>1 DEF Playable
  <2>4. OnlyTradesAreRefused'
    BY <2>2 DEF Playable, Played, OnlyTradesAreRefused
  <2>5. QED
    BY <2>1, <2>2, <2>3, <2>4 DEF Playable, Played
<1>2. CASE UNCHANGED vars
  BY <1>2 DEF vars, Playable, MatchOK, OnlyTradesAreRefused
<1>3. QED
  BY <1>1, <1>2

LEMMA InitialIsPlayable ==
  ASSUME Init
  PROVE  Playable
<1>1. game = initializeGameplayAggregate /\ timeUp = FALSE /\ silent = FALSE /\ refused = {}
  BY DEF Init
<1>2. MatchOK /\ hydrateGameplayState(game)
  BY <1>1, InitialMatch, InitialIsStorable
<1>3. Contested(game)
  <2>1. ActiveSeats(game.players) = Seats
    BY <1>1 DEF ActiveSeats, initializeGameplayAggregate
  <2>2. Cardinality(Seats) \in Nat
    BY SeatsAssumption, FS_CardinalityType
  <2>3. Cardinality(Seats) >= 2
    BY <2>2, SeatsAssumption, PolicyAssumption
  <2>4. QED
    BY <2>1, <2>3 DEF Contested
<1>4. QED
  BY <1>1, <1>2, <1>3 DEF Playable, OnlyTradesAreRefused

(* Every command the rules accept, but the acceptance of a trade, is committed, whatever the     *)
(* board, the decks and the limits: as long as a match is played its state is one the serializer *)
(* stores and the contract reports, and each command makes another of it, or a result.  The two  *)
(* checks the room runs before it commits lose no player a move (gameplayPayload and             *)
(* serializeGameplayState in command-handler.ts).                                                *)
THEOREM CommandsAreCommitted == Spec => []OnlyTradesAreRefused
<1>1. Init => Playable
  BY InitialIsPlayable
<1>2. Playable /\ [Next]_vars => Playable'
  BY PlayableStep
<1>3. Playable => OnlyTradesAreRefused
  BY DEF Playable
<1>4. QED
  BY <1>1, <1>2, <1>3, PTL DEF Spec

-----------------------------------------------------------------------------
(* The waiting room *)

(* A finite set of numbers has a greatest: a least set without one would have it. *)
HasGreatest(T) == \E m \in T : \A k \in T : k <= m

LEMMA GreatestOfFinite ==
  ASSUME NEW S \in SUBSET Int, IsFiniteSet(S), S # {}
  PROVE  HasGreatest(S)
<1> DEFINE Bad == {n \in Nat : \E T \in SUBSET S : T # {} /\ Cardinality(T) = n /\ ~HasGreatest(T)}
<1>1. SUFFICES ASSUME ~HasGreatest(S) PROVE FALSE
  OBVIOUS
<1>2. \A T \in SUBSET S : IsFiniteSet(T) /\ Cardinality(T) \in Nat
  BY FS_Subset, FS_CardinalityType
<1>3. Cardinality(S) \in Bad
  BY <1>1, <1>2
<1>4. PICK n \in Bad : \A k \in Bad : n <= k
  BY <1>3, LeastElement
<1>5. PICK T \in SUBSET S : T # {} /\ Cardinality(T) = n /\ ~HasGreatest(T)
  BY <1>4
<1>6. PICK x \in T : TRUE
  BY <1>5
<1>7. IsFiniteSet(T) /\ n \in Nat /\ Cardinality(T \ {x}) = n - 1
  BY <1>2, <1>4, <1>5, <1>6, FS_RemoveElement
<1>8. CASE T \ {x} = {}
  <2>1. T = {x} /\ x \in Int
    BY <1>6, <1>8
  <2>2. QED
    BY <1>5, <2>1 DEF HasGreatest
<1>9. CASE T \ {x} # {}
  <2>1. T \ {x} \in SUBSET S /\ n - 1 \in Nat
    BY <1>2, <1>7
  <2>2. n - 1 \notin Bad
    BY <1>4, <1>7
  <2>3. HasGreatest(T \ {x})
    BY <1>7, <1>9, <2>1, <2>2
  <2>4. PICK m \in T \ {x} : \A k \in T \ {x} : k <= m
    BY <2>3 DEF HasGreatest
  <2>5. m \in Int /\ x \in Int
    BY <1>6, <2>4
  <2>6. CASE x <= m
    BY <1>5, <2>4, <2>6 DEF HasGreatest
  <2>7. CASE ~(x <= m)
    <3>1. \A k \in T : k \in Int /\ (k = x \/ k <= m)
      BY <2>4
    <3>2. \A k \in T : k <= x
      BY <2>5, <2>7, <3>1
    <3>3. QED
      BY <1>5, <1>6, <3>2 DEF HasGreatest
  <2>8. QED
    BY <2>6, <2>7
<1>10. QED
  BY <1>8, <1>9

LEMMA MaxIsGreatest ==
  ASSUME NEW S \in SUBSET Int, IsFiniteSet(S), S # {}
  PROVE  Max(S) \in S /\ \A k \in S : k <= Max(S)
<1>1. \E m \in S : \A k \in S : m >= k
  <2>1. PICK m \in S : \A k \in S : k <= m
    BY GreatestOfFinite DEF HasGreatest
  <2>2. \A k \in S : k \in Int /\ m \in Int
    OBVIOUS
  <2>3. QED
    BY <2>1, <2>2
<1>2. Max(S) \in S /\ \A k \in S : Max(S) >= k
  BY <1>1, Zenon DEF Max
<1>3. QED
  BY <1>2

LEMMA SlotsAre == Slots = {0, 1, 2, 3}
BY LiteralsAssumption DEF Slots

LEMMA SlotsFinite == \A T \in SUBSET Slots : IsFiniteSet(T) /\ Cardinality(T) \in 0 .. 4
<1>1. 0 \in Int /\ 3 \in Int /\ Slots = 0 .. 3
  BY LiteralsAssumption DEF Slots
<1>2. PICK n : n = 3
  OBVIOUS
<1>3. n \in Int /\ n + 1 = 4 /\ Slots = 0 .. n
  BY <1>1, <1>2
<1>4. IsFiniteSet(Slots) /\ Cardinality(Slots) = 4
  <2>1. \A a, b \in Int :
          IsFiniteSet(a .. b) /\ Cardinality(a .. b) = (IF a > b THEN 0 ELSE b - a + 1)
    BY FS_Interval, Zenon
  <2>2. IsFiniteSet(0 .. n) /\ Cardinality(0 .. n) = (IF 0 > n THEN 0 ELSE n - 0 + 1)
    BY <1>1, <1>3, <2>1, Zenon
  <2>3. ~(0 > n) /\ n - 0 + 1 = 4
    BY <1>2
  <2>4. QED
    BY <1>3, <2>2, <2>3
<1>5. SUFFICES ASSUME NEW T \in SUBSET Slots
               PROVE  IsFiniteSet(T) /\ Cardinality(T) \in 0 .. 4
  OBVIOUS
<1>6. IsFiniteSet(T) /\ Cardinality(T) \in Nat /\ Cardinality(T) <= Cardinality(Slots)
  BY <1>4, FS_Subset, FS_CardinalityType
<1>7. QED
  BY <1>3, <1>4, <1>6

(* A waiting room, or one its creator has cancelled: what is fixed, what the clocks show, and who sits. *)
LobbyRecord ==
  [lifecycle : {"waitingForPlayers", "cancelled"}, stateVersion : Nat \ {0},
   creatorId : {Creator}, maximumPlayers : 2 .. 4, seats : [Slots -> PlayerSeat \cup {None}],
   bankCash : {GAMEPLAY_POLICY.startingBankCash}, housesRemaining : {32}, hotelsRemaining : {12},
   createdAtMs : {0}, startedAtMs : {None}, cancelledAtMs : Nat \cup {None},
   timeLimitMs : {TimeLimit}, gameEndAtMs : {None},
   turn : {[phase |-> "notStarted"], [phase |-> "finished"]}]

Seated(state) ==
  /\ \A s \in occupiedSeats(state) : state.seats[s].status = "active" /\ s < state.maximumPlayers
  /\ UniquePlayers(state) /\ CreatorInSeatZero(state)

Unstarted(state) ==
  IF requireWaiting(state) THEN state.turn = [phase |-> "notStarted"] /\ state.cancelledAtMs = None
  ELSE state.turn = [phase |-> "finished"] /\ state.cancelledAtMs # None

Waits(state) == state \in LobbyRecord /\ Seated(state) /\ Unstarted(state)

LobbyOK ==
  lobby # None => /\ DOMAIN lobby = {"state", "committedAtMs", "attached"}
                  /\ Waits(lobby.state) /\ lobby.state.stateVersion <= MaxLobbyVersion
                  /\ lobby.committedAtMs \in Nat

LEMMA RecordFields ==
  ASSUME NEW state \in LobbyRecord
  PROVE  /\ state.lifecycle \in {"waitingForPlayers", "cancelled"} /\ state.stateVersion \in Nat \ {0}
         /\ state.creatorId = Creator /\ state.maximumPlayers \in 2 .. 4
         /\ state.seats \in [Slots -> PlayerSeat \cup {None}]
         /\ state.bankCash = GAMEPLAY_POLICY.startingBankCash
         /\ state.housesRemaining = 32 /\ state.hotelsRemaining = 12
         /\ state.createdAtMs = 0 /\ state.startedAtMs = None /\ state.cancelledAtMs \in Nat \cup {None}
         /\ state.timeLimitMs = TimeLimit /\ state.gameEndAtMs = None
BY DEF LobbyRecord

LEMMA SeatFields ==
  ASSUME NEW seat \in PlayerSeat
  PROVE  /\ seat.playerId \in Users /\ seat.status \in {"active", "eliminated"}
         /\ seat.cash = GAMEPLAY_POLICY.startingMatchCash /\ seat.joinedAtMs \in Nat
         /\ seat.position = 0 /\ seat.inJail = FALSE
BY DEF PlayerSeat

LEMMA SeatedSlots ==
  ASSUME NEW state, state \in LobbyRecord
  PROVE  /\ occupiedSeats(state) \in SUBSET Slots
         /\ \A s \in occupiedSeats(state) : state.seats[s] \in PlayerSeat
         /\ IsFiniteSet(occupiedSeats(state)) /\ Cardinality(occupiedSeats(state)) \in 0 .. 4
<1>1. occupiedSeats(state) \in SUBSET Slots
  BY DEF occupiedSeats
<1>2. state.seats \in [Slots -> PlayerSeat \cup {None}]
  BY RecordFields
<1>3. QED
  BY <1>1, <1>2, SlotsFinite DEF occupiedSeats

LEMMA NonEmpty ==
  ASSUME NEW T, IsFiniteSet(T), NEW x \in T
  PROVE  Cardinality(T) \in Nat \ {0}
<1>1. Cardinality(T) \in Nat /\ T # {}
  BY FS_CardinalityType
<1>2. QED
  BY <1>1, FS_EmptySet

LEMMA CreatorSits ==
  ASSUME NEW state, state \in LobbyRecord, CreatorInSeatZero(state)
  PROVE  0 \in occupiedSeats(state) /\ Cardinality(occupiedSeats(state)) \in 1 .. 4
<1>1. 0 \in occupiedSeats(state)
  BY SlotsAre DEF CreatorInSeatZero, occupiedSeats
<1>2. Cardinality(occupiedSeats(state)) \in Nat \ {0}
  BY <1>1, SeatedSlots, NonEmpty
<1>3. QED
  BY <1>1, <1>2, SeatedSlots

(* What the clocks have shown *)

LEMMA MaxOfThree ==
  ASSUME NEW a \in Nat, NEW b \in Nat, NEW d \in Nat
  PROVE  Max({a, b, d}) \in Nat /\ Max({a, b, d}) >= a /\ Max({a, b, d}) >= b /\ Max({a, b, d}) >= d
<1>1. IsFiniteSet({}) /\ {a, b, d} = (({} \cup {a}) \cup {b}) \cup {d}
  BY FS_EmptySet
<1>2. IsFiniteSet({} \cup {a})
  BY <1>1, FS_AddElement
<1>3. IsFiniteSet(({} \cup {a}) \cup {b})
  BY <1>2, FS_AddElement
<1>4. IsFiniteSet({a, b, d})
  BY <1>1, <1>3, FS_AddElement
<1>5. {a, b, d} \in SUBSET Int /\ {a, b, d} # {}
  OBVIOUS
<1>6. PICK T : T = {a, b, d}
  OBVIOUS
<1>7. Max(T) \in T /\ \A k \in T : k <= Max(T)
  BY <1>4, <1>5, <1>6, MaxIsGreatest
<1>8. QED
  BY <1>6, <1>7

LEMMA MaxOfTwo ==
  ASSUME NEW a \in Nat, NEW b \in Nat
  PROVE  Max({a, b}) \in Nat /\ Max({a, b}) >= a /\ Max({a, b}) >= b
<1>1. {a, b} = {a, b, b}
  OBVIOUS
<1>2. QED
  BY <1>1, MaxOfThree

Joins(state) == {state.seats[s].joinedAtMs : s \in occupiedSeats(state)}
Observed(state) == Given({state.createdAtMs, state.startedAtMs, state.cancelledAtMs}) \cup Joins(state)

LEMMA ObservedFinite ==
  ASSUME NEW state, state \in LobbyRecord
  PROVE  Observed(state) \in SUBSET Nat /\ IsFiniteSet(Observed(state)) /\ 0 \in Observed(state)
<1>1. /\ state.createdAtMs = 0 /\ state.startedAtMs = None /\ state.cancelledAtMs \in Nat \cup {None}
      /\ None \notin Nat
  BY RecordFields, LiteralsAssumption
<1>2. PICK last : last = state.cancelledAtMs
  OBVIOUS
<1>3. Joins(state) \in SUBSET Nat
  <2>1. \A s \in occupiedSeats(state) : state.seats[s].joinedAtMs \in Nat
    BY SeatedSlots, SeatFields
  <2>2. QED
    BY <2>1 DEF Joins
<1>4. PICK f : f = [s \in occupiedSeats(state) |-> state.seats[s].joinedAtMs]
  OBVIOUS
<1>5. f \in Surjection(occupiedSeats(state), Joins(state))
  BY <1>4 DEF Surjection, Joins
<1>6. IsFiniteSet(Joins(state))
  BY <1>5, SeatedSlots, FS_Surjection
<1>7. IsFiniteSet((Joins(state) \cup {0}) \cup {last})
  BY <1>6, FS_AddElement
<1>8. Observed(state) \in SUBSET ((Joins(state) \cup {0}) \cup {last})
  BY <1>1, <1>2 DEF Observed, Given
<1>9. Observed(state) \in SUBSET Nat /\ 0 \in Observed(state)
  BY <1>1, <1>3 DEF Observed, Given
<1>10. QED
  BY <1>7, <1>8, <1>9, FS_Subset

LEMMA LatestObserved ==
  ASSUME NEW state, state \in LobbyRecord
  PROVE  latestObservedAtMs(state) \in Nat
<1>1. Observed(state) \in SUBSET Int /\ Observed(state) # {}
  BY ObservedFinite
<1>2. Max(Observed(state)) \in Observed(state)
  BY <1>1, ObservedFinite, MaxIsGreatest
<1>3. latestObservedAtMs(state) = Max(Observed(state))
  BY DEF latestObservedAtMs, Observed, Joins
<1>4. QED
  BY <1>2, <1>3, ObservedFinite

(* The commands of a waiting room *)

SameRoom(next, state) ==
  /\ next.creatorId = state.creatorId /\ next.maximumPlayers = state.maximumPlayers
  /\ next.stateVersion = state.stateVersion + 1

LEMMA SeatsEdited ==
  ASSUME NEW state, state \in LobbyRecord, NEW i \in Slots, NEW e \in PlayerSeat \cup {None}, NEW next,
         next = withVersionAndRng([state EXCEPT !.seats[i] = e])
  PROVE  /\ next \in LobbyRecord /\ next.seats = [state.seats EXCEPT ![i] = e] /\ SameRoom(next, state)
         /\ next.lifecycle = state.lifecycle /\ next.turn = state.turn
         /\ next.cancelledAtMs = state.cancelledAtMs
<1>1. PICK seats : seats = [state.seats EXCEPT ![i] = e]
  OBVIOUS
<1>2. seats \in [Slots -> PlayerSeat \cup {None}]
  BY <1>1, RecordFields
<1>3. next = [[state EXCEPT !.seats = seats] EXCEPT !.stateVersion = state.stateVersion + 1]
  BY <1>1 DEF withVersionAndRng, LobbyRecord
<1>4. state.stateVersion + 1 \in Nat \ {0}
  BY RecordFields
<1>5. next \in LobbyRecord
  <2>1. PICK version \in Nat \ {0} : version = state.stateVersion + 1
    BY <1>4
  <2>2. PICK edited : edited = [state EXCEPT !.seats = seats]
    OBVIOUS
  <2>3. edited \in LobbyRecord
    BY <1>2, <2>2 DEF LobbyRecord
  <2>4. next = [edited EXCEPT !.stateVersion = version]
    BY <1>3, <2>1, <2>2
  <2>5. QED
    BY <2>3, <2>4 DEF LobbyRecord
<1>6. QED
  BY <1>1, <1>3, <1>5 DEF SameRoom, LobbyRecord

LEMMA JoinWaits ==
  ASSUME NEW state, Waits(state), requireWaiting(state), NEW actor \in Users, NEW now \in Nat,
         SeatsOf(state, actor) = {}, FreeSeats(state) # {}, NEW next, next = joinGame(state, actor, now)
  PROVE  Waits(next) /\ next.stateVersion = state.stateVersion + 1
<1>1. /\ state \in LobbyRecord /\ Seated(state) /\ Unstarted(state)
  BY DEF Waits
<1>2. PICK i : i = Min(FreeSeats(state))
  OBVIOUS
<1>3. i \in Slots /\ i < state.maximumPlayers /\ state.seats[i] = None
  <2>1. FreeSeats(state) \in SUBSET Nat
    BY SlotsAre DEF FreeSeats
  <2>2. i \in FreeSeats(state)
    BY <1>2, <2>1, LeastOfNat
  <2>3. QED
    BY <2>2 DEF FreeSeats
<1>4. PICK e : e = createSeat(actor, now)
  OBVIOUS
<1>5. e \in PlayerSeat /\ e.status = "active" /\ e.playerId = actor /\ e # None
  <2>1. e \in PlayerSeat /\ e.status = "active" /\ e.playerId = actor
    BY <1>4 DEF createSeat, PlayerSeat
  <2>2. QED
    BY <2>1, LiteralsAssumption
<1>6. next = withVersionAndRng([state EXCEPT !.seats[i] = e])
  BY <1>2, <1>4 DEF joinGame
<1>7. /\ next \in LobbyRecord /\ next.seats = [state.seats EXCEPT ![i] = e] /\ SameRoom(next, state)
      /\ next.lifecycle = state.lifecycle /\ next.turn = state.turn
      /\ next.cancelledAtMs = state.cancelledAtMs
  BY <1>1, <1>3, <1>5, <1>6, SeatsEdited
<1>8. state.seats \in [Slots -> PlayerSeat \cup {None}]
  BY <1>1, RecordFields
<1>9. occupiedSeats(next) = occupiedSeats(state) \cup {i} /\ i \notin occupiedSeats(state)
  BY <1>3, <1>5, <1>7, <1>8 DEF occupiedSeats
<1>10. next.seats[i] = e /\ \A s \in occupiedSeats(state) : next.seats[s] = state.seats[s]
  BY <1>3, <1>7, <1>8, <1>9 DEF occupiedSeats
<1>11. \A s \in occupiedSeats(state) : state.seats[s].playerId # actor
  BY DEF SeatsOf
<1>12. Seated(next)
  <2>1. \A s \in occupiedSeats(next) : next.seats[s].status = "active" /\ s < next.maximumPlayers
    BY <1>1, <1>3, <1>5, <1>7, <1>9, <1>10 DEF Seated, SameRoom
  <2>2. UniquePlayers(next)
    BY <1>1, <1>5, <1>9, <1>10, <1>11 DEF UniquePlayers, Seated
  <2>3. 0 \in occupiedSeats(state) /\ 0 \in Slots
    BY <1>1, CreatorSits, SlotsAre DEF Seated
  <2>4. CreatorInSeatZero(next)
    BY <1>1, <1>7, <1>10, <2>3 DEF CreatorInSeatZero, Seated, SameRoom
  <2>5. QED
    BY <2>1, <2>2, <2>4 DEF Seated
<1>13. Unstarted(next)
  BY <1>1, <1>7 DEF Unstarted, requireWaiting
<1>14. QED
  BY <1>7, <1>12, <1>13 DEF Waits, SameRoom

LEMMA LeaveWaits ==
  ASSUME NEW state, Waits(state), NEW actor, actor # state.creatorId,
         SeatsOf(state, actor) # {}, NEW next, next = leaveGame(state, actor)
  PROVE  /\ Waits(next) /\ next.stateVersion = state.stateVersion + 1
         /\ next.lifecycle = state.lifecycle
         /\ Min(SeatsOf(state, actor)) \in occupiedSeats(state)
         /\ occupiedSeats(next) = occupiedSeats(state) \ {Min(SeatsOf(state, actor))}
<1>1. /\ state \in LobbyRecord /\ Seated(state) /\ Unstarted(state)
  BY DEF Waits
<1>2. PICK i : i = Min(SeatsOf(state, actor))
  OBVIOUS
<1>3. i \in occupiedSeats(state) /\ i \in Slots /\ i # 0
  <2>1. SeatsOf(state, actor) \in SUBSET Nat
    BY SlotsAre DEF SeatsOf, occupiedSeats
  <2>2. i \in SeatsOf(state, actor)
    BY <1>2, <2>1, LeastOfNat
  <2>3. state.seats[0].playerId = state.creatorId
    BY <1>1 DEF Seated, CreatorInSeatZero
  <2>4. QED
    BY <2>2, <2>3 DEF SeatsOf, occupiedSeats
<1>4. next = withVersionAndRng([state EXCEPT !.seats[i] = None])
  BY <1>2 DEF leaveGame
<1>5. /\ next \in LobbyRecord /\ next.seats = [state.seats EXCEPT ![i] = None] /\ SameRoom(next, state)
      /\ next.lifecycle = state.lifecycle /\ next.turn = state.turn
      /\ next.cancelledAtMs = state.cancelledAtMs
  BY <1>1, <1>3, <1>4, SeatsEdited
<1>6. state.seats \in [Slots -> PlayerSeat \cup {None}]
  BY <1>1, RecordFields
<1>7. occupiedSeats(next) = occupiedSeats(state) \ {i}
  BY <1>3, <1>5, <1>6 DEF occupiedSeats
<1>8. \A s \in occupiedSeats(next) : next.seats[s] = state.seats[s]
  BY <1>5, <1>6, <1>7 DEF occupiedSeats
<1>9. Seated(next)
  <2>1. \A s \in occupiedSeats(next) : next.seats[s].status = "active" /\ s < next.maximumPlayers
    BY <1>1, <1>5, <1>7, <1>8 DEF Seated, SameRoom
  <2>2. UniquePlayers(next)
    BY <1>1, <1>7, <1>8 DEF UniquePlayers, Seated
  <2>3. 0 \in occupiedSeats(next)
    BY <1>1, <1>3, <1>7, CreatorSits DEF Seated
  <2>4. CreatorInSeatZero(next)
    BY <1>1, <1>5, <1>8, <2>3 DEF CreatorInSeatZero, Seated, SameRoom
  <2>5. QED
    BY <2>1, <2>2, <2>4 DEF Seated
<1>10. Unstarted(next)
  BY <1>1, <1>5 DEF Unstarted, requireWaiting
<1>11. QED
  BY <1>2, <1>3, <1>5, <1>7, <1>9, <1>10 DEF Waits, SameRoom

LEMMA CancelWaits ==
  ASSUME NEW state, Waits(state), NEW now \in Nat, NEW next, next = cancelGame(state, now)
  PROVE  /\ Waits(next) /\ next.stateVersion = state.stateVersion + 1 /\ next.lifecycle = "cancelled"
         /\ occupiedSeats(next) = occupiedSeats(state)
<1>1. /\ state \in LobbyRecord /\ Seated(state) /\ Unstarted(state)
  BY DEF Waits
<1>2. now # None
  BY LiteralsAssumption
<1>3. state.stateVersion + 1 \in Nat \ {0}
  BY <1>1, RecordFields
<1>4. next = [[state EXCEPT !.lifecycle = "cancelled", !.cancelledAtMs = now,
                            !.turn = [phase |-> "finished"]]
                EXCEPT !.stateVersion = state.stateVersion + 1]
  BY <1>1 DEF cancelGame, withVersionAndRng, LobbyRecord
<1>5. next \in LobbyRecord
  <2>1. PICK version \in Nat \ {0} : version = state.stateVersion + 1
    BY <1>3
  <2>2. PICK ended : ended = [state EXCEPT !.lifecycle = "cancelled", !.cancelledAtMs = now,
                                           !.turn = [phase |-> "finished"]]
    OBVIOUS
  <2>3. ended \in LobbyRecord
    BY <1>1, <2>2 DEF LobbyRecord
  <2>4. next = [ended EXCEPT !.stateVersion = version]
    BY <1>4, <2>1, <2>2
  <2>5. QED
    BY <2>3, <2>4 DEF LobbyRecord
<1>6. /\ next.seats = state.seats /\ SameRoom(next, state) /\ next.lifecycle = "cancelled"
      /\ next.turn = [phase |-> "finished"] /\ next.cancelledAtMs = now
  BY <1>1, <1>4 DEF SameRoom, LobbyRecord
<1>7. occupiedSeats(next) = occupiedSeats(state)
  BY <1>6 DEF occupiedSeats
<1>8. Seated(next)
  BY <1>1, <1>6, <1>7 DEF Seated, UniquePlayers, CreatorInSeatZero, SameRoom
<1>9. Unstarted(next)
  BY <1>2, <1>6 DEF Unstarted, requireWaiting
<1>10. QED
  BY <1>5, <1>6, <1>7, <1>8, <1>9 DEF Waits, SameRoom

(* The steps of a waiting room *)

LEMMA CommandTime ==
  ASSUME LobbyOK, lobby # None, NEW t \in Times
  PROVE  /\ commandTimestampMs(t) \in Nat
         /\ commandTimestampMs(t) >= latestObservedAtMs(lobby.state)
<1>1. t \in Nat /\ lobby.committedAtMs \in Nat /\ lobby.state \in LobbyRecord
  BY LobbyAssumption DEF LobbyOK, Waits
<1>2. committedTimestampFloor \in Nat
  BY <1>1, LatestObserved DEF committedTimestampFloor
<1>3. QED
  BY <1>1, <1>2, MaxOfThree DEF commandTimestampMs, committedTimestampFloor

LEMMA CommitWaits ==
  ASSUME LobbyOK, lobby # None, lobby.state.stateVersion < MaxLobbyVersion, NEW type, NEW actor, NEW next,
         NEW at \in Nat, NEW attached, CommitLobby(type, actor, next, at, attached),
         type # "startGame" => Waits(next) /\ next.stateVersion = lobby.state.stateVersion + 1
  PROVE  LobbyOK'
<1>1. CASE lobby' = lobby
  BY <1>1 DEF LobbyOK
<1>2. CASE lobby' = None
  BY <1>2 DEF LobbyOK
<1>3. CASE type # "startGame" /\ lobby' = [state |-> next, committedAtMs |-> at, attached |-> attached]
  <2>1. /\ DOMAIN lobby' = {"state", "committedAtMs", "attached"} /\ lobby'.state = next
        /\ lobby'.committedAtMs = at
    BY <1>3
  <2>2. next.stateVersion <= MaxLobbyVersion
    BY <1>3, LobbyAssumption, RecordFields DEF LobbyOK, Waits
  <2>3. Waits(next) /\ at \in Nat
    BY <1>3
  <2>4. Waits(lobby'.state) /\ lobby'.state.stateVersion <= MaxLobbyVersion /\ lobby'.committedAtMs \in Nat
    BY <2>1, <2>2, <2>3
  <2>5. QED
    BY <2>1, <2>4 DEF LobbyOK
<1>4. QED
  BY <1>1, <1>2, <1>3 DEF CommitLobby, Begin

LEMMA AdmissionWaits ==
  ASSUME LobbyOK, NEW player \in Users, NEW seat \in Slots, NEW joinedAt \in Times,
         ensureAdmittedPlayer(player, seat, joinedAt)
  PROVE  LobbyOK'
<1>1. /\ lobby # None /\ lobby.state.stateVersion < MaxLobbyVersion
      /\ Accepts(lobby.state, "joinGame", player, joinedAt)
  BY DEF ensureAdmittedPlayer, InLobby
<1>2. PICK next, at, attached :
        /\ next = joinGame(lobby.state, player, joinedAt)
        /\ at = Max({joinedAt, lobby.committedAtMs, committedTimestampFloor})
        /\ CommitLobby("joinGame", player, next, at, attached)
  BY DEF ensureAdmittedPlayer
<1>3. joinedAt \in Nat /\ lobby.committedAtMs \in Nat /\ Waits(lobby.state)
  BY <1>1, LobbyAssumption DEF LobbyOK
<1>4. committedTimestampFloor \in Nat
  BY <1>3, LatestObserved DEF committedTimestampFloor, Waits
<1>5. at \in Nat
  BY <1>2, <1>3, <1>4, MaxOfThree
<1>6. SeatsOf(lobby.state, player) = {} /\ FreeSeats(lobby.state) # {} /\ requireWaiting(lobby.state)
  BY <1>1 DEF Accepts
<1>7. Waits(next) /\ next.stateVersion = lobby.state.stateVersion + 1
  BY <1>2, <1>3, <1>6, JoinWaits
<1>8. QED
  BY <1>1, <1>2, <1>5, <1>7, CommitWaits

LEMMA TransitionWaits ==
  ASSUME NEW state, Waits(state), NEW actor \in Users, NEW type \in LifecycleRoomCommand, NEW now \in Nat,
         Accepts(state, type, actor, now), type # "startGame", NEW next,
         next = transition(state, type, actor, now)
  PROVE  Waits(next) /\ next.stateVersion = state.stateVersion + 1
<1>1. CASE type = "joinGame"
  <2>1. requireWaiting(state) /\ SeatsOf(state, actor) = {} /\ FreeSeats(state) # {}
    BY <1>1 DEF Accepts
  <2>2. next = joinGame(state, actor, now)
    BY <1>1 DEF transition
  <2>3. QED
    BY <2>1, <2>2, JoinWaits
<1>2. CASE type = "leaveGame"
  <2>1. actor # state.creatorId /\ SeatsOf(state, actor) # {}
    BY <1>2 DEF Accepts
  <2>2. next = leaveGame(state, actor)
    BY <1>2 DEF transition
  <2>3. QED
    BY <2>1, <2>2, LeaveWaits
<1>3. CASE type = "cancelGame"
  <2>1. next = cancelGame(state, now)
    BY <1>3 DEF transition
  <2>2. QED
    BY <2>1, CancelWaits
<1>4. QED
  BY <1>1, <1>2, <1>3 DEF LifecycleRoomCommand

LEMMA LifecycleWaits ==
  ASSUME LobbyOK, NEW actor \in Users, NEW type \in LifecycleRoomCommand, NEW t \in Times,
         HandleLifecycle(actor, type, t)
  PROVE  LobbyOK'
<1>1. lobby # None /\ lobby.state.stateVersion < MaxLobbyVersion
  BY DEF HandleLifecycle, InLobby
<1>2. PICK now, next :
        /\ now = commandTimestampMs(t) /\ Accepts(lobby.state, type, actor, now)
        /\ next = transition(lobby.state, type, actor, now)
        /\ CommitLobby(type, actor, next, now, lobby.attached)
  BY DEF HandleLifecycle
<1>3. now \in Nat /\ Waits(lobby.state)
  BY <1>1, <1>2, CommandTime DEF LobbyOK
<1>4. type # "startGame" => Waits(next) /\ next.stateVersion = lobby.state.stateVersion + 1
  BY <1>2, <1>3, TransitionWaits
<1>5. QED
  BY <1>1, <1>2, <1>3, <1>4, CommitWaits

LEMMA LobbyStep ==
  ASSUME LobbyOK, [RoomNext]_roomVars
  PROVE  LobbyOK'
<1>1. CASE Admission
  BY <1>1, AdmissionWaits DEF Admission
<1>2. CASE Lifecycle
  BY <1>2, LifecycleWaits DEF Lifecycle
<1>3. CASE AdmissionOfSeated
  <2>1. PICK player : lobby # None /\ lobby' = [lobby EXCEPT !.attached = @ \cup {player}]
    BY <1>3 DEF AdmissionOfSeated, InLobby
  <2>2. DOMAIN lobby = {"state", "committedAtMs", "attached"}
    BY <2>1 DEF LobbyOK
  <2>3. /\ DOMAIN lobby' = DOMAIN lobby /\ lobby'.state = lobby.state
        /\ lobby'.committedAtMs = lobby.committedAtMs
    BY <2>1, <2>2
  <2>4. QED
    BY <2>1, <2>3 DEF LobbyOK
<1>4. CASE Reload
  <2>1. PICK t \in Times : lobby # None /\
          lobby' = [lobby EXCEPT !.committedAtMs = Max({t, committedTimestampFloor})]
    BY <1>4 DEF Reload
  <2>2. /\ DOMAIN lobby = {"state", "committedAtMs", "attached"} /\ lobby.state \in LobbyRecord
    BY <2>1 DEF LobbyOK, Waits
  <2>3. /\ DOMAIN lobby' = DOMAIN lobby /\ lobby'.state = lobby.state
        /\ lobby'.committedAtMs = Max({t, committedTimestampFloor})
    BY <2>1, <2>2
  <2>4. t \in Nat /\ committedTimestampFloor \in Nat
    BY <2>2, LobbyAssumption, LatestObserved DEF committedTimestampFloor
  <2>5. lobby'.committedAtMs \in Nat
    BY <2>3, <2>4, MaxOfTwo
  <2>6. QED
    BY <2>1, <2>3, <2>5 DEF LobbyOK
<1>5. CASE Match \/ UNCHANGED roomVars
  BY <1>5 DEF Match, roomVars, LobbyOK
<1>6. QED
  BY <1>1, <1>2, <1>3, <1>4, <1>5 DEF RoomNext

LEMMA GreatestSeat == Max(Seats) \in 1 .. 3
<1>1. Seats \in SUBSET (0 .. 3) /\ IsFiniteSet(Seats) /\ 0 \in Seats
  BY SeatsAssumption, LiteralsAssumption
<1>2. Cardinality(Seats) \in Nat /\ Cardinality(Seats) >= 2
  BY <1>1, SeatsAssumption, LiteralsAssumption, FS_CardinalityType
<1>3. Seats # {0}
  <2>1. Cardinality({0}) = 1
    BY FS_Singleton
  <2>2. QED
    BY <1>2, <2>1
<1>4. PICK s \in Seats : s # 0
  BY <1>1, <1>3
<1>5. Seats \in SUBSET Int /\ Seats # {}
  BY <1>1
<1>6. PICK m \in Seats : m = Max(Seats) /\ s <= m
  BY <1>1, <1>4, <1>5, MaxIsGreatest
<1>7. m \in 0 .. 3 /\ s \in 0 .. 3
  BY <1>1
<1>8. QED
  BY <1>4, <1>6, <1>7

LEMMA BootstrapFields ==
  ASSUME NEW bootstrap \in Bootstraps
  PROVE  /\ bootstrap.creatorPlayerId = Creator /\ bootstrap.maximumPlayers = Max(Seats) + 1
         /\ bootstrap.createdAtMs = 0 /\ bootstrap.timeLimitMs = TimeLimit
         /\ 0 \in DOMAIN bootstrap.players /\ DOMAIN bootstrap.players \subseteq 0 .. Max(Seats)
         /\ bootstrap.players[0] = [playerId |-> Creator, joinedAtMs |-> 0]
         /\ \A s \in DOMAIN bootstrap.players \ {0} :
              /\ bootstrap.players[s].playerId \in Users \ {Creator}
              /\ bootstrap.players[s].joinedAtMs \in Times
         /\ \A s, t \in DOMAIN bootstrap.players :
              bootstrap.players[s].playerId = bootstrap.players[t].playerId => s = t
<1>1. Max(Seats) \in 1 .. 3
  BY GreatestSeat
<1>2. PICK taken, others :
        /\ taken \in SUBSET (1 .. Max(Seats)) /\ others \in OtherPlayers(taken)
        /\ bootstrap = Bootstrap(others)
  BY DEF Bootstraps
<1>3. PICK creator : creator = [playerId |-> Creator, joinedAtMs |-> 0]
  OBVIOUS
<1>4. bootstrap.players = [s \in {0} \cup taken |-> IF s = 0 THEN creator ELSE others[s]]
  <2>1. DOMAIN others = taken
    BY <1>2 DEF OtherPlayers
  <2>2. bootstrap.players = [s \in {0} \cup DOMAIN others |-> IF s = 0 THEN creator ELSE others[s]]
    BY <1>2, <1>3 DEF Bootstrap
  <2>3. QED
    BY <2>1, <2>2
<1>5. DOMAIN bootstrap.players = {0} \cup taken /\ 0 \notin taken
  <2>1. taken \subseteq 1 .. Max(Seats) /\ Max(Seats) \in Nat
    BY <1>1, <1>2
  <2>2. QED
    BY <1>4, <2>1
<1>6. bootstrap.players[0] = creator /\ \A s \in taken : bootstrap.players[s] = others[s]
  BY <1>4, <1>5
<1>7. \A s \in taken : others[s].playerId \in Users \ {Creator} /\ others[s].joinedAtMs \in Times
  BY <1>2 DEF OtherPlayers
<1>8. \A s, t \in DOMAIN bootstrap.players :
        bootstrap.players[s].playerId = bootstrap.players[t].playerId => s = t
  <2>1. \A s, t \in taken : others[s].playerId = others[t].playerId => s = t
    BY <1>2 DEF OtherPlayers
  <2>2. creator.playerId = Creator
    BY <1>3
  <2>3. QED
    BY <1>5, <1>6, <1>7, <2>1, <2>2
<1>9. /\ bootstrap.creatorPlayerId = Creator /\ bootstrap.maximumPlayers = Max(Seats) + 1
      /\ bootstrap.createdAtMs = 0 /\ bootstrap.timeLimitMs = TimeLimit
  BY <1>2 DEF Bootstrap
<1>10. DOMAIN bootstrap.players \subseteq 0 .. Max(Seats)
  <2>1. PICK m : m = Max(Seats) /\ m \in 1 .. 3
    BY <1>1
  <2>2. \A s \in 1 .. m : s \in 0 .. m
    BY <2>1
  <2>3. 0 \in 0 .. m
    BY <2>1
  <2>4. \A s \in taken : s \in 1 .. m
    BY <1>2, <2>1
  <2>5. \A s \in DOMAIN bootstrap.players : s \in 0 .. m
    BY <1>5, <2>2, <2>3, <2>4
  <2>6. QED
    BY <2>1, <2>5
<1>11. QED
  BY <1>3, <1>5, <1>6, <1>7, <1>8, <1>9, <1>10

LEMMA OpenedWaits ==
  ASSUME NEW bootstrap \in Bootstraps, NEW state, state = createWaitingState(bootstrap)
  PROVE  Waits(state) /\ state.stateVersion = 1
<1>1. PICK players, most :
        /\ players = bootstrap.players /\ most = Max(Seats) + 1
        /\ 0 \in DOMAIN players /\ DOMAIN players \subseteq 0 .. most - 1
        /\ players[0] = [playerId |-> Creator, joinedAtMs |-> 0]
        /\ \A s \in DOMAIN players \ {0} :
             players[s].playerId \in Users \ {Creator} /\ players[s].joinedAtMs \in Times
        /\ \A s, t \in DOMAIN players : players[s].playerId = players[t].playerId => s = t
  BY BootstrapFields, GreatestSeat
<1>2. most \in 2 .. 4 /\ DOMAIN players \subseteq Slots
  BY <1>1, GreatestSeat, SlotsAre
<1>3. \A s \in DOMAIN players : players[s].playerId \in Users /\ players[s].joinedAtMs \in Nat
  <2>1. Creator \in Users /\ Times \subseteq Nat /\ 0 \in Times
    BY LobbyAssumption
  <2>2. players[0].playerId \in Users /\ players[0].joinedAtMs \in Nat
    BY <1>1, <2>1
  <2>3. ASSUME NEW s \in DOMAIN players \ {0}
        PROVE  players[s].playerId \in Users /\ players[s].joinedAtMs \in Nat
    BY <1>1, <2>1, <2>3
  <2>4. QED
    BY <2>2, <2>3
<1>4. PICK seats :
        seats = [s \in Slots |-> IF s \in DOMAIN players
                                   THEN createSeat(players[s].playerId, players[s].joinedAtMs) ELSE None]
  OBVIOUS
<1>5. \A s \in DOMAIN players :
        /\ seats[s] \in PlayerSeat /\ seats[s].status = "active" /\ seats[s].playerId = players[s].playerId
        /\ seats[s] # None
  <2>1. \A s \in DOMAIN players :
          /\ seats[s] \in PlayerSeat /\ seats[s].status = "active"
          /\ seats[s].playerId = players[s].playerId
    BY <1>2, <1>3, <1>4 DEF createSeat, PlayerSeat
  <2>2. QED
    BY <2>1, LiteralsAssumption
<1>6. seats \in [Slots -> PlayerSeat \cup {None}]
  BY <1>4, <1>5
<1>7. state = WaitingGameState(Creator, most, seats, 0, TimeLimit)
  BY <1>1, <1>4, BootstrapFields DEF createWaitingState
<1>8. state \in LobbyRecord
  BY <1>2, <1>6, <1>7 DEF LobbyRecord, WaitingGameState
<1>9. /\ state.seats = seats /\ state.maximumPlayers = most /\ state.creatorId = Creator
      /\ state.lifecycle = "waitingForPlayers" /\ state.turn = [phase |-> "notStarted"]
      /\ state.cancelledAtMs = None /\ state.stateVersion = 1
  BY <1>7 DEF WaitingGameState
<1>10. occupiedSeats(state) = DOMAIN players
  <2>1. \A s \in Slots : seats[s] # None <=> s \in DOMAIN players
    BY <1>4, <1>5
  <2>2. occupiedSeats(state) = {s \in Slots : seats[s] # None}
    BY <1>9 DEF occupiedSeats
  <2>3. QED
    BY <1>2, <2>1, <2>2
<1>11. Seated(state)
  <2>1. \A s \in occupiedSeats(state) : state.seats[s].status = "active" /\ s < state.maximumPlayers
    BY <1>1, <1>2, <1>5, <1>9, <1>10
  <2>2. UniquePlayers(state)
    BY <1>1, <1>5, <1>9, <1>10 DEF UniquePlayers
  <2>3. CreatorInSeatZero(state)
    BY <1>1, <1>5, <1>9 DEF CreatorInSeatZero
  <2>4. QED
    BY <2>1, <2>2, <2>3 DEF Seated
<1>12. QED
  BY <1>8, <1>9, <1>11 DEF Waits, Unstarted, requireWaiting

LEMMA LobbyOpens ==
  ASSUME RoomInit
  PROVE  LobbyOK
<1>1. PICK bootstrap \in Bootstraps, t \in Times : \E state \in {createWaitingState(bootstrap)} :
        lobby = [state |-> state, committedAtMs |-> Max({t, latestObservedAtMs(state)}), attached |-> {}]
  BY DEF RoomInit
<1>2. PICK state : state = createWaitingState(bootstrap) /\
        lobby = [state |-> state, committedAtMs |-> Max({t, latestObservedAtMs(state)}), attached |-> {}]
  BY <1>1
<1>3. Waits(state) /\ state.stateVersion = 1
  BY <1>2, OpenedWaits
<1>4. t \in Nat /\ latestObservedAtMs(state) \in Nat
  BY <1>3, LatestObserved, LobbyAssumption DEF Waits
<1>5. Max({t, latestObservedAtMs(state)}) \in Nat
  BY <1>4, MaxOfTwo
<1>6. 1 <= MaxLobbyVersion
  BY LobbyAssumption
<1>7. /\ DOMAIN lobby = {"state", "committedAtMs", "attached"} /\ lobby.state = state
      /\ lobby.committedAtMs = Max({t, latestObservedAtMs(state)})
  BY <1>2
<1>8. QED
  BY <1>3, <1>5, <1>6, <1>7 DEF LobbyOK

(* What can be stored of a waiting room, and what its clients read *)

LEMMA ActiveAreSeated ==
  ASSUME NEW state, Seated(state)
  PROVE  activeSeats(state) = occupiedSeats(state)
BY DEF Seated, activeSeats

LEMMA WaitsIsStorable ==
  ASSUME NEW state, Waits(state), state.stateVersion <= MAX_STATE_VERSION
  PROVE  Storable(state)
<1>1. /\ state \in LobbyRecord /\ Seated(state) /\ Unstarted(state)
  BY DEF Waits
<1>2. /\ state.lifecycle \in {"waitingForPlayers", "cancelled"} /\ state.stateVersion \in Nat \ {0}
      /\ state.maximumPlayers \in 2 .. 4 /\ state.housesRemaining = 32 /\ state.hotelsRemaining = 12
      /\ state.seats \in [Slots -> PlayerSeat \cup {None}]
      /\ state.createdAtMs = 0 /\ state.startedAtMs = None /\ state.cancelledAtMs \in Nat \cup {None}
      /\ state.gameEndAtMs = None
  BY <1>1, RecordFields
<1>3. state.stateVersion \in 1 .. MAX_STATE_VERSION
  BY <1>2, LimitsAssumption
<1>4. state.maximumPlayers \in MINIMUM_PLAYERS .. GAMEPLAY_POLICY.maximumPlayers
  BY <1>2, LiteralsAssumption DEF MINIMUM_PLAYERS
<1>5. \A s \in Slots : hydrateSeat(state.seats[s])
  BY <1>2 DEF hydrateSeat
<1>6. \A s \in occupiedSeats(state) :
        s < state.maximumPlayers /\ state.seats[s].joinedAtMs >= state.createdAtMs
  <2>1. \A s \in occupiedSeats(state) : state.seats[s].joinedAtMs \in Nat
    BY <1>1, SeatedSlots, SeatFields
  <2>2. QED
    BY <1>1, <1>2, <2>1 DEF Seated
<1>7. hydrateLifecycle(state)
  <2>1. CASE state.lifecycle = "waitingForPlayers"
    <3>1. state.turn = [phase |-> "notStarted"] /\ state.cancelledAtMs = None
      BY <1>1, <2>1 DEF Unstarted, requireWaiting
    <3>2. Given({state.startedAtMs, state.cancelledAtMs, state.gameEndAtMs}) = {}
      BY <1>2, <3>1 DEF Given
    <3>3. QED
      BY <2>1, <3>1, <3>2 DEF hydrateLifecycle
  <2>2. CASE state.lifecycle = "cancelled"
    <3>1. state.turn = [phase |-> "finished"] /\ state.cancelledAtMs # None
      BY <1>1, <2>2 DEF Unstarted, requireWaiting
    <3>2. TimesInOrder(<<state.createdAtMs, state.cancelledAtMs>>)
      BY <1>2, <3>1 DEF TimesInOrder
    <3>3. QED
      BY <1>2, <2>2, <3>1, <3>2 DEF hydrateLifecycle
  <2>3. QED
    BY <1>2, <2>1, <2>2
<1>8. CreatorInSeatZero(state) /\ UniquePlayers(state)
  BY <1>1 DEF Seated
<1>9. activeSeats(state) = occupiedSeats(state) /\ activeSeats(state) # {}
  BY <1>1, <1>8, ActiveAreSeated, CreatorSits
<1>10. hydrateState(state)
  BY <1>2, <1>3, <1>4, <1>5, <1>6, <1>7, <1>8, <1>9 DEF hydrateState
<1>11. QED
  BY <1>2, <1>10 DEF Storable

PublishedAs(pub, state) ==
  /\ pub.lifecycle = state.lifecycle /\ pub.creatorId = Creator
  /\ pub.maximumPlayers = state.maximumPlayers /\ pub.bankCash = GAMEPLAY_POLICY.startingBankCash
  /\ pub.housesRemaining = 32 /\ pub.hotelsRemaining = 12 /\ pub.createdAtMs = 0
  /\ pub.startedAtMs = None /\ pub.cancelledAtMs = state.cancelledAtMs /\ pub.gameEndAtMs = None
  /\ pub.turn = state.turn /\ pub.seats = [s \in Slots |-> PublicLobbySeat(state.seats[s])]
  /\ pub.currentPlayers = Cardinality(occupiedSeats(state))
  /\ pub.activePlayers = Cardinality(activeSeats(state))

LEMMA PublishedFields ==
  ASSUME NEW state, Waits(state)
  PROVE  PublishedAs(publicLifecycleState(state), state)
<1>1. PICK pub : pub = publicLifecycleState(state)
  OBVIOUS
<1>2. state \in LobbyRecord
  BY DEF Waits
<1>3. DOMAIN state = {"lifecycle", "stateVersion", "creatorId", "maximumPlayers", "seats", "bankCash",
        "housesRemaining", "hotelsRemaining", "createdAtMs", "startedAtMs", "cancelledAtMs",
        "timeLimitMs", "gameEndAtMs", "turn"}
  BY <1>2 DEF LobbyRecord
<1>4. /\ pub.seats = [s \in Slots |-> PublicLobbySeat(state.seats[s])]
      /\ pub.currentPlayers = Cardinality(occupiedSeats(state))
      /\ pub.activePlayers = Cardinality(activeSeats(state))
  BY <1>1, <1>3 DEF publicLifecycleState
<1>5. \A f \in DOMAIN state \ {"timeLimitMs", "seats"} : pub[f] = state[f]
  BY <1>1, <1>3 DEF publicLifecycleState
<1>6. QED
  BY <1>1, <1>2, <1>3, <1>4, <1>5, RecordFields DEF PublishedAs

LEMMA PublishedSeats ==
  ASSUME NEW state, Waits(state), NEW pub, pub = publicLifecycleState(state)
  PROVE  /\ occupiedSeats(pub) = occupiedSeats(state) /\ activeSeats(pub) = occupiedSeats(state)
         /\ \A s \in occupiedSeats(state) :
              /\ pub.seats[s].playerId = state.seats[s].playerId
              /\ pub.seats[s].cash = GAMEPLAY_POLICY.startingMatchCash
<1>1. state \in LobbyRecord /\ Seated(state)
  BY DEF Waits
<1>2. /\ occupiedSeats(state) \in SUBSET Slots
      /\ \A s \in occupiedSeats(state) : state.seats[s] \in PlayerSeat /\ state.seats[s] # None
  BY <1>1, SeatedSlots DEF occupiedSeats
<1>3. pub.seats = [s \in Slots |-> PublicLobbySeat(state.seats[s])]
  BY PublishedFields DEF PublishedAs
<1>4. ASSUME NEW s \in occupiedSeats(state)
      PROVE  /\ pub.seats[s] \in PublishedLobbySeat /\ pub.seats[s].playerId = state.seats[s].playerId
             /\ pub.seats[s].cash = GAMEPLAY_POLICY.startingMatchCash
             /\ pub.seats[s].status = "active"
  <2>1. PICK seat : seat = state.seats[s]
    OBVIOUS
  <2>2. seat \in PlayerSeat /\ seat.status = "active"
    BY <1>1, <1>2, <2>1 DEF Seated
  <2>3. pub.seats[s] = [f \in {"playerId", "status", "cash", "position", "inJail"} |-> seat[f]]
    BY <1>2, <1>3, <2>1 DEF PublicLobbySeat
  <2>4. pub.seats[s] \in PublishedLobbySeat
    BY <2>2, <2>3 DEF PublishedLobbySeat, PlayerSeat
  <2>5. QED
    BY <2>1, <2>2, <2>3, <2>4, SeatFields
<1>5. \A s \in occupiedSeats(state) : pub.seats[s] # None
  BY <1>4, LiteralsAssumption
<1>6. \A s \in Slots \ occupiedSeats(state) : pub.seats[s] = None
  BY <1>3 DEF occupiedSeats, PublicLobbySeat
<1>7. occupiedSeats(pub) = occupiedSeats(state)
  <2>1. occupiedSeats(pub) = {s \in Slots : pub.seats[s] # None}
    BY DEF occupiedSeats
  <2>2. QED
    BY <1>2, <1>5, <1>6, <2>1
<1>8. activeSeats(pub) = occupiedSeats(state)
  BY <1>4, <1>7 DEF activeSeats
<1>9. QED
  BY <1>4, <1>7, <1>8

LEMMA WaitsIsPublished ==
  ASSUME NEW state, Waits(state), NEW pub, pub = publicLifecycleState(state)
  PROVE  PublicGameStateSchema(pub)
<1>1. /\ state \in LobbyRecord /\ Seated(state) /\ Unstarted(state)
  BY DEF Waits
<1>2. /\ pub.lifecycle = state.lifecycle /\ pub.creatorId = Creator
      /\ pub.maximumPlayers = state.maximumPlayers /\ pub.bankCash = GAMEPLAY_POLICY.startingBankCash
      /\ pub.housesRemaining = 32 /\ pub.hotelsRemaining = 12 /\ pub.createdAtMs = 0
      /\ pub.startedAtMs = None /\ pub.cancelledAtMs = state.cancelledAtMs /\ pub.gameEndAtMs = None
      /\ pub.turn = state.turn /\ pub.seats = [s \in Slots |-> PublicLobbySeat(state.seats[s])]
      /\ pub.currentPlayers = Cardinality(occupiedSeats(state))
      /\ pub.activePlayers = Cardinality(activeSeats(state))
  <2>1. PublishedAs(pub, state)
    BY PublishedFields
  <2>2. QED
    BY <2>1 DEF PublishedAs
<1>3. /\ occupiedSeats(pub) = occupiedSeats(state) /\ activeSeats(pub) = occupiedSeats(state)
      /\ \A s \in occupiedSeats(state) :
           /\ pub.seats[s].playerId = state.seats[s].playerId
           /\ pub.seats[s].cash = GAMEPLAY_POLICY.startingMatchCash
  BY PublishedSeats
<1>4. /\ state.lifecycle \in {"waitingForPlayers", "cancelled"} /\ state.maximumPlayers \in 2 .. 4
      /\ state.cancelledAtMs \in Nat \cup {None} /\ state.creatorId = Creator
  BY <1>1, RecordFields
<1>5. pub.maximumPlayers \in 2 .. 4 /\ InMatchCash(pub.bankCash)
  BY <1>2, <1>4, PolicyAssumption DEF InMatchCash
<1>6. /\ pub.currentPlayers = Cardinality(occupiedSeats(pub))
      /\ pub.activePlayers = Cardinality(activeSeats(pub))
  BY <1>1, <1>2, <1>3, ActiveAreSeated
<1>7. UniquePlayers(pub)
  BY <1>1, <1>3 DEF UniquePlayers, Seated
<1>8. CreatorInSeatZero(pub)
  <2>1. 0 \in occupiedSeats(state) /\ state.seats[0].playerId = Creator
    BY <1>1, <1>4, CreatorSits DEF Seated, CreatorInSeatZero
  <2>2. 0 \in occupiedSeats(pub) /\ pub.seats[0].playerId = Creator
    BY <1>3, <2>1
  <2>3. QED
    BY <1>2, <2>2 DEF CreatorInSeatZero, occupiedSeats
<1>9. \A s \in occupiedSeats(pub) : s < pub.maximumPlayers /\ InMatchCash(pub.seats[s].cash)
  <2>1. GAMEPLAY_POLICY.startingMatchCash \in Nat
    BY PolicyAssumption
  <2>2. QED
    BY <1>1, <1>2, <1>3, <2>1 DEF Seated, InMatchCash
<1>10. /\ TimesInOrder(<<pub.createdAtMs, pub.startedAtMs, pub.gameEndAtMs>>)
       /\ TimesInOrder(<<pub.createdAtMs, pub.cancelledAtMs>>)
  BY <1>2, <1>4 DEF TimesInOrder
<1>11. TurnStateSchema(pub.turn) /\ LifecycleIsConsistent(pub)
  <2>1. CASE state.lifecycle = "waitingForPlayers"
    <3>1. pub.turn = [phase |-> "notStarted"] /\ pub.cancelledAtMs = None
      BY <1>1, <1>2, <2>1 DEF Unstarted, requireWaiting
    <3>2. {f \in {"startedAtMs", "cancelledAtMs", "gameEndAtMs"} : pub[f] # None} = {}
      BY <1>2, <3>1
    <3>3. QED
      BY <1>2, <2>1, <3>1, <3>2 DEF TurnStateSchema, LifecycleIsConsistent
  <2>2. CASE state.lifecycle = "cancelled"
    <3>1. pub.turn = [phase |-> "finished"] /\ pub.cancelledAtMs # None
      BY <1>1, <1>2, <2>2 DEF Unstarted, requireWaiting
    <3>2. {f \in {"startedAtMs", "cancelledAtMs", "gameEndAtMs"} : pub[f] # None} = {"cancelledAtMs"}
      BY <1>2, <3>1
    <3>3. QED
      BY <1>2, <2>2, <3>1, <3>2 DEF TurnStateSchema, LifecycleIsConsistent
  <2>3. QED
    BY <1>4, <2>1, <2>2
<1>12. QED
  BY <1>2, <1>5, <1>6, <1>7, <1>8, <1>9, <1>10, <1>11 DEF PublicGameStateSchema

(* The buttons of the page *)

LEMMA CancelIsHandled ==
  ASSUME NEW state, Waits(state), requireWaiting(state), state.stateVersion < MAX_STATE_VERSION,
         NEW now \in Nat, NEW next, next = transition(state, "cancelGame", state.creatorId, now)
  PROVE  /\ LifecycleEventPayloadSchema(DomainEvent(state, next, "cancelGame", state.creatorId))
         /\ Storable(next)
<1>1. next = cancelGame(state, now)
  BY DEF transition
<1>2. /\ Waits(next) /\ next.stateVersion = state.stateVersion + 1
      /\ occupiedSeats(next) = occupiedSeats(state)
  BY <1>1, CancelWaits
<1>3. state.stateVersion \in Nat /\ MAX_STATE_VERSION \in Nat
  BY RecordFields, LimitsAssumption DEF Waits
<1>4. Storable(next)
  BY <1>2, <1>3, WaitsIsStorable
<1>5. Cardinality(occupiedSeats(next)) \in 1 .. 4
  BY <1>2, CreatorSits DEF Waits, Seated
<1>6. LifecycleEventPayloadSchema(DomainEvent(state, next, "cancelGame", state.creatorId))
  BY <1>5 DEF DomainEvent, LifecycleEventPayloadSchema
<1>7. QED
  BY <1>4, <1>6

LEMMA LeaveIsHandled ==
  ASSUME NEW state, Waits(state), requireWaiting(state), state.stateVersion < MAX_STATE_VERSION,
         NEW actor, actor # state.creatorId, SeatsOf(state, actor) # {},
         NEW now, NEW next, next = transition(state, "leaveGame", actor, now)
  PROVE  /\ LifecycleEventPayloadSchema(DomainEvent(state, next, "leaveGame", actor))
         /\ Storable(next)
<1>1. next = leaveGame(state, actor)
  BY DEF transition
<1>2. PICK i : i = Min(SeatsOf(state, actor))
  OBVIOUS
<1>3. /\ Waits(next) /\ next.stateVersion = state.stateVersion + 1
      /\ i \in occupiedSeats(state) /\ occupiedSeats(next) = occupiedSeats(state) \ {i}
  BY <1>1, <1>2, LeaveWaits
<1>4. state.stateVersion \in Nat /\ MAX_STATE_VERSION \in Nat
  BY RecordFields, LimitsAssumption DEF Waits
<1>5. Storable(next)
  BY <1>3, <1>4, WaitsIsStorable
<1>6. /\ Cardinality(occupiedSeats(next)) \in 1 .. 4 /\ Cardinality(occupiedSeats(state)) \in 1 .. 4
      /\ IsFiniteSet(occupiedSeats(state))
  BY <1>3, CreatorSits, SeatedSlots DEF Waits, Seated
<1>7. Cardinality(occupiedSeats(next)) = Cardinality(occupiedSeats(state)) - 1
  BY <1>3, <1>6, FS_RemoveElement
<1>8. Cardinality(occupiedSeats(next)) \in 1 .. 3
  BY <1>6, <1>7
<1>9. i \in 0 .. 3
  BY <1>3, SlotsAre DEF occupiedSeats
<1>10. LifecycleEventPayloadSchema(DomainEvent(state, next, "leaveGame", actor))
  BY <1>2, <1>8, <1>9 DEF DomainEvent, LifecycleEventPayloadSchema
<1>11. QED
  BY <1>5, <1>10

LEMMA StartIsHandled ==
  ASSUME NEW state, Waits(state), requireWaiting(state), state.stateVersion < MAX_STATE_VERSION,
         Cardinality(occupiedSeats(state)) >= 2,
         NEW now \in Nat, NEW next, next = transition(state, "startGame", state.creatorId, now)
  PROVE  /\ LifecycleEventPayloadSchema(DomainEvent(state, next, "startGame", state.creatorId))
         /\ Storable(next) /\ validLifecycleInput(next)
<1>1. /\ state \in LobbyRecord /\ Seated(state) /\ Unstarted(state)
  BY DEF Waits
<1>2. /\ state.stateVersion \in Nat \ {0} /\ state.creatorId = Creator /\ state.maximumPlayers \in 2 .. 4
      /\ state.bankCash = GAMEPLAY_POLICY.startingBankCash /\ state.housesRemaining = 32
      /\ state.hotelsRemaining = 12 /\ state.createdAtMs = 0 /\ state.timeLimitMs = TimeLimit
      /\ state.cancelledAtMs = None
  BY <1>1, RecordFields DEF Unstarted
<1>3. PICK end : end = IF state.timeLimitMs = None THEN None ELSE now + state.timeLimitMs
  OBVIOUS
<1>4. PICK turn : turn = [phase |-> "awaitingRoll", currentSeatIndex |-> 0, startedAtMs |-> now,
                          deadlineAtMs |-> now + DEFAULT_TURN_TIMEOUT_MS]
  OBVIOUS
<1>5. next = [[state EXCEPT !.lifecycle = "inProgress", !.startedAtMs = now, !.gameEndAtMs = end,
                            !.turn = turn]
                EXCEPT !.stateVersion = state.stateVersion + 1]
  BY <1>1, <1>3, <1>4 DEF transition, startGame, withVersionAndRng, LobbyRecord
<1>6. /\ next.lifecycle = "inProgress" /\ next.startedAtMs = now /\ next.gameEndAtMs = end
      /\ next.turn = turn /\ next.stateVersion = state.stateVersion + 1 /\ next.seats = state.seats
      /\ next.creatorId = Creator /\ next.maximumPlayers = state.maximumPlayers
      /\ next.bankCash = state.bankCash /\ next.housesRemaining = 32 /\ next.hotelsRemaining = 12
      /\ next.createdAtMs = 0 /\ next.timeLimitMs = state.timeLimitMs /\ next.cancelledAtMs = None
  <2>1. DOMAIN state = {"lifecycle", "stateVersion", "creatorId", "maximumPlayers", "seats", "bankCash",
                        "housesRemaining", "hotelsRemaining", "createdAtMs", "startedAtMs",
                        "cancelledAtMs", "timeLimitMs", "gameEndAtMs", "turn"}
    BY <1>1 DEF LobbyRecord
  <2>2. /\ next.lifecycle = "inProgress" /\ next.startedAtMs = now /\ next.gameEndAtMs = end
        /\ next.turn = turn /\ next.stateVersion = state.stateVersion + 1
    BY <1>5, <2>1
  <2>3. /\ next.seats = state.seats /\ next.creatorId = state.creatorId
        /\ next.maximumPlayers = state.maximumPlayers /\ next.bankCash = state.bankCash
        /\ next.housesRemaining = state.housesRemaining
    BY <1>5, <2>1
  <2>4. /\ next.hotelsRemaining = state.hotelsRemaining /\ next.createdAtMs = state.createdAtMs
        /\ next.timeLimitMs = state.timeLimitMs /\ next.cancelledAtMs = state.cancelledAtMs
    BY <1>5, <2>1
  <2>5. QED
    BY <1>2, <2>2, <2>3, <2>4
<1>7. occupiedSeats(next) = occupiedSeats(state)
  BY <1>6 DEF occupiedSeats
<1>8. Cardinality(occupiedSeats(next)) \in 2 .. 4
  BY <1>1, <1>7, SeatedSlots
<1>9. LifecycleEventPayloadSchema(DomainEvent(state, next, "startGame", state.creatorId))
  BY <1>8 DEF DomainEvent, LifecycleEventPayloadSchema
<1>10. Storable(next)
  BY <1>6, InitialIsStorable DEF Storable
<1>11. validLifecycleInput(next)
  <2>1. next.stateVersion \in 1 .. MAX_STATE_VERSION
    BY <1>2, <1>6, LimitsAssumption
  <2>2. next.maximumPlayers \in MINIMUM_PLAYERS .. GAMEPLAY_POLICY.maximumPlayers
    BY <1>2, <1>6, LiteralsAssumption DEF MINIMUM_PLAYERS
  <2>3. TimesInOrder(<<next.createdAtMs, next.startedAtMs>>)
    BY <1>6 DEF TimesInOrder
  <2>4. \A s \in occupiedSeats(next) :
          /\ next.seats[s] \in PlayerSeat /\ next.seats[s].status = "active"
          /\ next.seats[s].joinedAtMs >= next.createdAtMs /\ s < next.maximumPlayers
    <3>1. \A s \in occupiedSeats(state) :
            state.seats[s] \in PlayerSeat /\ state.seats[s].joinedAtMs \in Nat
      BY <1>1, SeatedSlots, SeatFields
    <3>2. QED
      BY <1>1, <1>6, <1>7, <3>1 DEF Seated
  <2>5. UniquePlayers(next) /\ CreatorInSeatZero(next)
    BY <1>1, <1>2, <1>6, <1>7 DEF UniquePlayers, CreatorInSeatZero, Seated
  <2>6. Cardinality(occupiedSeats(next)) >= MINIMUM_PLAYERS
    BY <1>8, LiteralsAssumption DEF MINIMUM_PLAYERS
  <2>7. next.gameEndAtMs = IF next.timeLimitMs = None THEN None ELSE next.startedAtMs + next.timeLimitMs
    BY <1>3, <1>6
  <2>8. next.turn = [phase |-> "awaitingRoll", currentSeatIndex |-> 0, startedAtMs |-> next.startedAtMs,
                     deadlineAtMs |-> next.startedAtMs + DEFAULT_TURN_TIMEOUT_MS]
    BY <1>4, <1>6
  <2>9. /\ next.bankCash = GAMEPLAY_POLICY.startingBankCash
        /\ next.housesRemaining = GAMEPLAY_POLICY.totalHouses
        /\ next.hotelsRemaining = GAMEPLAY_POLICY.totalHotels
    BY <1>2, <1>6, LiteralsAssumption
  <2>10. QED
    BY <1>6, <2>1, <2>2, <2>3, <2>4, <2>5, <2>6, <2>7, <2>8, <2>9 DEF validLifecycleInput
<1>12. QED
  BY <1>9, <1>10, <1>11

LEMMA ButtonsAre ==
  ASSUME NEW state, Waits(state), NEW pub, pub = publicLifecycleState(state), NEW me \in Users,
         NEW type \in LobbyButtons(pub, me)
  PROVE  /\ requireWaiting(state) /\ SeatsOf(state, me) # {}
         /\ \/ type = "cancelGame" /\ me = state.creatorId
            \/ /\ type = "startGame" /\ me = state.creatorId
               /\ Cardinality(occupiedSeats(state)) >= 2
            \/ type = "leaveGame" /\ me # state.creatorId
<1>1. state \in LobbyRecord /\ state.creatorId = Creator
  BY RecordFields DEF Waits
<1>2. me \in waitingPlayers(pub) /\ LobbyStatus(pub) = "waiting"
  BY DEF LobbyButtons
<1>3. pub.lifecycle = state.lifecycle /\ pub.creatorId = Creator
  BY PublishedFields DEF PublishedAs
<1>4. requireWaiting(state)
  <2>1. state.lifecycle \in {"waitingForPlayers", "cancelled"}
    BY <1>1, RecordFields
  <2>2. QED
    BY <1>2, <1>3, <2>1 DEF LobbyStatus, requireWaiting
<1>5. waitingPlayers(pub) = {state.seats[s].playerId : s \in occupiedSeats(state)}
  BY PublishedSeats DEF waitingPlayers
<1>6. SeatsOf(state, me) # {}
  BY <1>2, <1>5 DEF SeatsOf
<1>7. Cardinality(waitingPlayers(pub)) <= Cardinality(occupiedSeats(state))
  <2>1. PICK f : f = [s \in occupiedSeats(state) |-> state.seats[s].playerId]
    OBVIOUS
  <2>2. f \in Surjection(occupiedSeats(state), waitingPlayers(pub))
    BY <1>5, <2>1 DEF Surjection
  <2>3. QED
    BY <1>1, <2>2, SeatedSlots, FS_Surjection
<1>8. Cardinality(waitingPlayers(pub)) \in Nat /\ Cardinality(occupiedSeats(state)) \in Nat
  <2>1. PICK f : f = [s \in occupiedSeats(state) |-> state.seats[s].playerId]
    OBVIOUS
  <2>2. f \in Surjection(occupiedSeats(state), waitingPlayers(pub))
    BY <1>5, <2>1 DEF Surjection
  <2>3. IsFiniteSet(waitingPlayers(pub))
    BY <1>1, <2>2, SeatedSlots, FS_Surjection
  <2>4. QED
    BY <1>1, <2>3, SeatedSlots, FS_CardinalityType
<1>9. \/ me = Creator /\ type = "cancelGame"
      \/ me = Creator /\ Cardinality(waitingPlayers(pub)) >= 2 /\ type = "startGame"
      \/ me # Creator /\ type = "leaveGame"
  <2>1. type \in If(me = Creator, {"cancelGame"})
               \cup If(me = Creator /\ Cardinality(waitingPlayers(pub)) >= 2, {"startGame"})
               \cup If(me # Creator, {"leaveGame"})
    BY <1>2, <1>3 DEF LobbyButtons
  <2>2. QED
    BY <2>1 DEF If
<1>10. QED
  BY <1>1, <1>4, <1>6, <1>7, <1>8, <1>9

LEMMA ButtonIsHandled ==
  ASSUME LobbyOK, lobby # None, NEW pub, pub = publicLifecycleState(lobby.state), NEW me \in Users,
         NEW t \in Times, NEW type \in LobbyButtons(pub, me)
  PROVE  HandledInLobby(me, type, t)
<1>1. PICK state, now : state = lobby.state /\ now = commandTimestampMs(t)
  OBVIOUS
<1>2. /\ Waits(state) /\ state.stateVersion <= MaxLobbyVersion
      /\ now \in Nat /\ now >= latestObservedAtMs(state)
  BY <1>1, CommandTime DEF LobbyOK
<1>3. state.stateVersion < MAX_STATE_VERSION
  BY <1>2, LobbyAssumption, LimitsAssumption, RecordFields DEF Waits
<1>4. /\ requireWaiting(state) /\ SeatsOf(state, me) # {}
      /\ \/ type = "cancelGame" /\ me = state.creatorId
         \/ /\ type = "startGame" /\ me = state.creatorId
            /\ Cardinality(occupiedSeats(state)) >= 2
         \/ type = "leaveGame" /\ me # state.creatorId
  BY <1>1, <1>2, ButtonsAre
<1>5. PICK next : next = transition(state, type, me, now)
  OBVIOUS
<1>6. SUFFICES /\ Accepts(state, type, me, now)
               /\ LifecycleEventPayloadSchema(DomainEvent(state, next, type, me)) /\ Storable(next)
               /\ type = "startGame" => validLifecycleInput(next)
  BY <1>1, <1>5 DEF HandledInLobby
<1>7. CASE type = "cancelGame" /\ me = state.creatorId
  <2>1. Accepts(state, type, me, now)
    BY <1>2, <1>3, <1>4, <1>7 DEF Accepts
  <2>2. QED
    BY <1>2, <1>3, <1>4, <1>5, <1>7, <2>1, CancelIsHandled
<1>8. CASE type = "leaveGame" /\ me # state.creatorId
  <2>1. Accepts(state, type, me, now)
    BY <1>2, <1>3, <1>4, <1>8 DEF Accepts
  <2>2. QED
    BY <1>2, <1>3, <1>4, <1>5, <1>8, <2>1, LeaveIsHandled
<1>9. CASE /\ type = "startGame" /\ me = state.creatorId
           /\ Cardinality(occupiedSeats(state)) >= 2
  <2>1. Cardinality(occupiedSeats(state)) >= MINIMUM_PLAYERS
    BY <1>9, LiteralsAssumption DEF MINIMUM_PLAYERS
  <2>2. Accepts(state, type, me, now)
    BY <1>2, <1>3, <1>4, <1>9, <2>1 DEF Accepts
  <2>3. QED
    BY <1>2, <1>3, <1>4, <1>5, <1>9, <2>2, StartIsHandled
<1>10. QED
  BY <1>4, <1>7, <1>8, <1>9

LEMMA LobbyPlays ==
  ASSUME LobbyOK
  PROVE  LobbyIsPlayable
<1>1. SUFFICES ASSUME lobby # None, NEW pub, pub = publicLifecycleState(lobby.state)
               PROVE  /\ PublicGameStateSchema(pub)
                      /\ \A me \in Users, t \in Times :
                           \A type \in LobbyButtons(pub, me) : HandledInLobby(me, type, t)
  BY DEF LobbyIsPlayable
<1>2. Waits(lobby.state)
  BY <1>1 DEF LobbyOK
<1>3. PublicGameStateSchema(pub)
  BY <1>1, <1>2, WaitsIsPublished
<1>4. \A me \in Users, t \in Times : \A type \in LobbyButtons(pub, me) : HandledInLobby(me, type, t)
  BY <1>1, ButtonIsHandled
<1>5. QED
  BY <1>3, <1>4

(* Whoever came, left and came back, in whatever order their joins arrived and whatever the      *)
(* clocks of the API and of the hosts show: every waiting room can be read by the clients, and   *)
(* the rules accept, can report and can store what its buttons send, up to a start that makes a  *)
(* match (createWaitingState, transition and commandTimestampMs).                                *)
THEOREM LobbyCorrect == RoomSpec => []LobbyIsPlayable
<1>1. RoomInit => LobbyOK
  BY LobbyOpens
<1>2. LobbyOK /\ [RoomNext]_roomVars => LobbyOK'
  BY LobbyStep
<1>3. LobbyOK => LobbyIsPlayable
  BY LobbyPlays
<1>4. QED
  BY <1>1, <1>2, <1>3, PTL DEF RoomSpec
=============================================================================
