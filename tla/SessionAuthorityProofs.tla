----------------------- MODULE SessionAuthorityProofs -----------------------
(***************************************************************************)
(* Proofs about one session and the coins staked on it, for any accounts,  *)
(* stakes, numbers of seats, joins and requests.                           *)
(***************************************************************************)
EXTENDS SessionAuthority, FiniteSetTheorems, SequenceTheorems, NaturalsInduction, TLAPS

(* Seat rows: an open stake has one, two players never have the same, and  *)
(* the creator has seat 0 as long as the session is not decided.           *)
SeatsAreKept ==
  /\ Reserved \subseteq Seated
  /\ \A i, j \in Seated : admissions[i].seat = admissions[j].seat => i = j
  /\ 1 \in Issued => admissions[1].seat = 0
  /\ session \in {"open", "active", "recovery_required"} => 1 \in Reserved

(* Before createSession there is nothing.                                  *)
NothingYet ==
  session = "none" =>
    /\ admissions = <<>> /\ settlement.kind = "none"
    /\ room.phase = "down" /\ game.status = "none" /\ finalizations = {}

(* The creator sits in the game from its first checkpoint on, and what     *)
(* runs or ran is played.                                                  *)
GameIsKept ==
  /\ game.status # "none" => 1 \in InGame
  /\ room.phase = "booted" => \E s \in SeatIndexes : room.boot.seats[s] = 1
  /\ session \in {"active", "recovery_required", "settled"} => Gameplay

(* Who is on the way into the room has an admission.                       *)
KnownPlayers == \A i \in Ids : auth[i] # "none" => i \in Issued

(* The rows of leave and cancel requests.                                  *)
FinalizationRows ==
  /\ IsFiniteSet(finalizations) /\ finalized \subseteq finalizations
  /\ \A f \in finalizations : f.id \in Issued /\ (f.action = "cancel" => f.id = 1)

(* What the room is doing: a start and a finalization exclude each other,  *)
(* a reported start is durable and so is a reported finalization.          *)
RoomIsSound ==
  /\ room.phase # "up" => room.call = "none" /\ ~room.starting /\ ~room.published /\ room.fin = NoFin
  /\ room.call \in {"start", "no start", "started"} \/ room.published => room.starting
  /\ room.call \in {"start", "no start"} => ~room.published
  /\ room.starting => room.fin = NoFin
  /\ room.call = "started" \/ room.published => Gameplay
  /\ room.call \in {"finalization", "finalize"} => room.fin # NoFin
  /\ room.call = "finalization" => ~room.fin.stored
  /\ room.call = "finalize" => room.fin.stored
  /\ room.fin # NoFin => PendingRequest \in Finalization /\ room.fin.id \in Issued
  /\ room.fin.stored => PendingRequest \in finalizations

(* A leave or cancel the API has not heard of keeps a room from serving    *)
(* anything else.                                                          *)
PendingIsHeld ==
  \/ PendingFinalizations = {}
  \/ room.phase \in {"down", "probed", "leased"}
  \/ room.phase = "up" /\ room.fin.stored /\ PendingFinalizations \subseteq {PendingRequest}

SessionInv ==
  /\ TypeOK
  /\ SeatsAreKept /\ NothingYet /\ GameIsKept /\ KnownPlayers /\ FinalizationRows
  /\ RoomIsSound /\ PendingIsHeld
  /\ CoinsAccountedFor /\ StakesFollowOutcome /\ LeaversDoNotPay /\ RunningSessionHasGame

-----------------------------------------------------------------------------
(* The API's own part of the invariant.                                    *)
SettlementRow == [kind : {"none", "completed", "aborted"}, winner : Ids \cup {0}]
ApiTypeOK ==
  /\ session \in Sessions /\ available \in [Users -> Nat] /\ reserved \in [Users -> Nat]
  /\ admissions \in Seq(Admission) /\ Len(admissions) <= MaxAdmissions
  /\ settlement \in SettlementRow

Undecided3 == {"open", "active", "recovery_required"}
OutcomeIsKept ==
  /\ session \in {"settled", "cancelled"} => Reserved = {}
  /\ session = "settled" <=> settlement.kind # "none"
  /\ Captured # {} <=> settlement.kind = "completed"
  /\ settlement.kind = "completed" => settlement.winner \in Captured /\ Cardinality(Captured) >= 2
  /\ session \in {"active", "recovery_required"} => Cardinality(Participants) >= 2
  /\ session = "none" => admissions = <<>>

ApiInv == ApiTypeOK /\ SeatsAreKept /\ CoinsAccountedFor /\ OutcomeIsKept

LEMMA ApiPart == SessionInv => ApiInv
BY DEF SessionInv, ApiInv, TypeOK, ApiTypeOK, SettlementRow, StakesFollowOutcome, OutcomeIsKept,
       RunningSessionHasGame, NothingYet, Gameplay, HasProof

LEMMA FirstFreeIsFree ==
  ASSUME NEW taken, FreeSeats(taken) # {}
  PROVE  FirstFree(taken) \in SeatIndexes /\ FirstFree(taken) \notin taken
<1> DEFINE F == FreeSeats(taken)
           R == OpToRel(<, Nat)
<1>1. F \subseteq Nat /\ F # {}
  BY BoundsAssumption DEF FreeSeats, SeatIndexes
<1>2. IsWellFoundedOn(R, Nat)
  BY NatLessThanWellFounded
<1>3. \A x, y \in Nat : x < y => <<x, y>> \in R
  BY DEF OpToRel
<1> HIDE DEF F, R
<1>4. PICK x \in F : \A y \in F : ~(<<y, x>> \in R)
  BY <1>1, <1>2, WFMin
<1>5. ASSUME NEW y \in F PROVE x <= y
  <2>1. x \in Nat /\ y \in Nat
    BY <1>1
  <2>2. ~(y < x)
    BY <1>3, <1>4, <2>1
  <2> QED
    BY <2>1, <2>2
<1>6. \E s \in FreeSeats(taken) : \A t \in FreeSeats(taken) : s <= t
  BY <1>5 DEF F
<1>7. FirstFree(taken) \in FreeSeats(taken)
  BY <1>6, Zenon DEF FirstFree
<1> QED
  BY <1>7 DEF FreeSeats

LEMMA SameInterval ==
  ASSUME NEW a \in Nat, NEW b \in Nat, 1 .. a = 1 .. b
  PROVE  a = b
<1>1. a > b => a \in 1 .. a /\ a \notin 1 .. b
  OBVIOUS
<1>2. b > a => b \in 1 .. b /\ b \notin 1 .. a
  OBVIOUS
<1> QED
  BY <1>1, <1>2

LEMMA IssuedFacts ==
  ASSUME ApiTypeOK
  PROVE  /\ Issued = 1 .. Len(admissions) /\ Len(admissions) \in Nat /\ IsFiniteSet(Issued)
         /\ Issued \subseteq Ids
         /\ \A i \in Issued : admissions[i] \in Admission
<1>1. admissions \in Seq(Admission) /\ Len(admissions) <= MaxAdmissions
  BY DEF ApiTypeOK
<1>2. Issued = 1 .. Len(admissions) /\ Len(admissions) \in Nat
      /\ \A i \in Issued : admissions[i] \in Admission
  BY <1>1 DEF Issued
<1>3. IsFiniteSet(1 .. Len(admissions))
  BY <1>2, FS_Interval
<1>4. 1 .. Len(admissions) \subseteq Ids
  BY <1>1, <1>2, BoundsAssumption DEF Ids
<1> QED
  BY <1>2, <1>3, <1>4

(* Sets of admissions can be counted, and a user's share of a set of       *)
(* stakes is what the coins are.                                           *)
LEMMA CountStakes ==
  ASSUME ApiTypeOK, NEW ids \in SUBSET Issued
  PROVE  /\ IsFiniteSet(ids) /\ Cardinality(ids) \in Nat
         /\ \A u : IsFiniteSet(StakesOf(u, ids)) /\ Cardinality(StakesOf(u, ids)) \in Nat
         /\ \A u : CoinsOf(u, ids) = EntryCoin * Cardinality(StakesOf(u, ids))
<1>1. IsFiniteSet(Issued)
  BY IssuedFacts
<1>2. \A S : S \subseteq Issued => IsFiniteSet(S) /\ Cardinality(S) \in Nat
  BY <1>1, FS_Subset, FS_CardinalityType
<1>3. \A u : StakesOf(u, ids) \subseteq Issued
  BY DEF StakesOf
<1>4. \A u : CoinsOf(u, ids) = EntryCoin * Cardinality(StakesOf(u, ids))
  BY DEF CoinsOf, StakesOf
<1> QED
  BY <1>2, <1>3, <1>4

LEMMA EntryTimes ==
  ASSUME NEW a \in Nat, NEW b \in Nat
  PROVE  /\ EntryCoin * a \in Nat /\ EntryCoin * (a + b) = EntryCoin * a + EntryCoin * b
         /\ EntryCoin * (a + 1) = EntryCoin * a + EntryCoin
         /\ EntryCoin * 0 = 0
BY CoinAssumption

(* Tickets come and go without touching stakes or seats.                   *)
TicketsOnly ==
  /\ Issued' = Issued /\ admissions' \in Seq(Admission)
  /\ \A i \in Issued : /\ admissions'[i].user = admissions[i].user
                       /\ admissions'[i].status = admissions[i].status
                       /\ admissions'[i].seat = admissions[i].seat
                       /\ admissions'[i].seated = admissions[i].seated

LEMMA TicketsKeepStakes ==
  ASSUME ApiTypeOK, TicketsOnly
  PROVE  /\ Reserved' = Reserved /\ Captured' = Captured /\ Seated' = Seated
         /\ Participants' = Participants /\ Len(admissions') = Len(admissions)
         /\ \A u, ids : ids \subseteq Issued => StakesOf(u, ids)' = StakesOf(u, ids)
<1>1. Issued' = 1 .. Len(admissions') /\ Issued = 1 .. Len(admissions)
      /\ Len(admissions') \in Nat /\ Len(admissions) \in Nat
  <2>1. Issued = 1 .. Len(admissions) /\ Len(admissions) \in Nat
    BY IssuedFacts
  <2>2. DOMAIN admissions' = 1 .. Len(admissions') /\ Len(admissions') \in Nat
    BY LenProperties DEF TicketsOnly
  <2>3. Issued' = 1 .. Len(admissions')
    BY <2>2 DEF Issued
  <2> QED
    BY <2>1, <2>2, <2>3
<1>2. Len(admissions') = Len(admissions)
  <2>1. 1 .. Len(admissions') = 1 .. Len(admissions)
    BY <1>1 DEF TicketsOnly
  <2> QED
    BY <1>1, <2>1, SameInterval
<1>3. Reserved' = Reserved
  BY DEF TicketsOnly, Reserved
<1>4. Captured' = Captured
  BY DEF TicketsOnly, Captured
<1>5. Seated' = Seated
  BY DEF TicketsOnly, Seated
<1>6. \A u, ids : ids \subseteq Issued => StakesOf(u, ids)' = StakesOf(u, ids)
  BY DEF TicketsOnly, StakesOf
<1> QED
  BY <1>2, <1>3, <1>4, <1>5, <1>6 DEF Participants

LEMMA StakesKept ==
  ASSUME ApiInv, TicketsOnly, UNCHANGED <<available, reserved, settlement>>,
         \/ session' = session
         \/ session \in Undecided3 /\ session' \in Undecided3 /\ Cardinality(Participants) >= 2
  PROVE  ApiInv'
<1>1. /\ Reserved' = Reserved /\ Captured' = Captured /\ Seated' = Seated
      /\ Participants' = Participants /\ Len(admissions') = Len(admissions)
      /\ Reserved \subseteq Issued /\ Captured \subseteq Issued /\ Seated \subseteq Issued
      /\ \A u, ids : ids \subseteq Issued => StakesOf(u, ids)' = StakesOf(u, ids)
  BY TicketsKeepStakes DEF ApiInv, Reserved, Captured, Seated
<1>2. ApiTypeOK'
  BY <1>1 DEF ApiInv, ApiTypeOK, TicketsOnly, Undecided3, Sessions
<1>3. SeatsAreKept'
  BY <1>1 DEF ApiInv, SeatsAreKept, TicketsOnly, Undecided3
<1>4. OutcomeIsKept'
  <2>1. session' = "none" => admissions' = <<>>
    BY <1>1 DEF ApiInv, OutcomeIsKept, TicketsOnly, Undecided3
  <2> QED
    BY <1>1, <2>1 DEF ApiInv, OutcomeIsKept, Undecided3
<1>5. CoinsAccountedFor'
  <2>1. \A u \in Users : Won(u)' <=> Won(u)
    BY <1>1 DEF Won, TicketsOnly, ApiInv, OutcomeIsKept
  <2>2. \A u : /\ StakesOf(u, Reserved)' = StakesOf(u, Reserved)
               /\ StakesOf(u, Reserved \cup Captured)' = StakesOf(u, Reserved \cup Captured)
    BY <1>1 DEF StakesOf
  <2> QED
    BY <1>1, <2>1, <2>2 DEF ApiInv, CoinsAccountedFor
<1> QED
  BY <1>2, <1>3, <1>4, <1>5 DEF ApiInv

(* Before a pot is paid out, an account has its own coins only.            *)
OwnCoins(v) ==
  /\ reserved[v] = EntryCoin * Cardinality(StakesOf(v, Reserved))
  /\ available[v] + EntryCoin * Cardinality(StakesOf(v, Reserved)) = StartingCoin[v]

LEMMA CoinsUnsettled ==
  ASSUME CoinsAccountedFor, Captured = {}, settlement.kind # "completed", NEW v \in Users
  PROVE  OwnCoins(v)
<1>1. Reserved \cup Captured = Reserved /\ ~Won(v)
  BY DEF Won
<1>2. StartingCoin[v] + 0 = StartingCoin[v]
  BY CoinAssumption
<1> QED
  BY <1>1, <1>2 DEF CoinsAccountedFor, OwnCoins

LEMMA UnsettledCoins ==
  ASSUME Captured' = {}, settlement'.kind # "completed", \A v \in Users : OwnCoins(v)'
  PROVE  CoinsAccountedFor'
<1> SUFFICES ASSUME NEW v \in Users
             PROVE  /\ reserved'[v] = EntryCoin * Cardinality(StakesOf(v, Reserved)')
                    /\ available'[v] + EntryCoin * Cardinality(StakesOf(v, Reserved \cup Captured)')
                         = StartingCoin[v] + (IF Won(v)' THEN EntryCoin * Cardinality(Captured') ELSE 0)
  BY DEF CoinsAccountedFor
<1>1. StakesOf(v, Reserved \cup Captured)' = StakesOf(v, Reserved)' /\ ~Won(v)'
  BY DEF StakesOf, Won
<1>2. StartingCoin[v] + 0 = StartingCoin[v]
  BY CoinAssumption
<1> QED
  BY <1>1, <1>2 DEF OwnCoins

(* Another stake: it is the last admission, on a seat nobody has.          *)
LEMMA ReserveStep ==
  ASSUME ApiInv, NEW u \in Users, NEW seat \in SeatIndexes, seat \notin ApiTaken,
         reserveAndSeat(u, seat), session \in {"none", "open"}, session' = "open",
         session = "none" => seat = 0, settlement' = settlement
  PROVE  /\ ApiInv' /\ Issued \subseteq Issued' /\ Reserved' \cap Issued = Reserved
         /\ Captured' = Captured
<1> DEFINE n == Len(admissions) + 1
           new == [user |-> u, status |-> "reserved", seat |-> seat, seated |-> TRUE,
                   ticket |-> "unused", consumed |-> FALSE]
<1>0. /\ ApiTypeOK /\ SeatsAreKept /\ CoinsAccountedFor /\ OutcomeIsKept
      /\ available \in [Users -> Nat] /\ reserved \in [Users -> Nat]
      /\ admissions \in Seq(Admission) /\ settlement \in SettlementRow
  BY DEF ApiInv, ApiTypeOK
<1>1. /\ Issued = 1 .. Len(admissions) /\ Len(admissions) \in Nat /\ IsFiniteSet(Issued)
      /\ \A i \in Issued : admissions[i] \in Admission
  BY <1>0, IssuedFacts
<1>2. /\ available[u] >= EntryCoin /\ Len(admissions) < MaxAdmissions
      /\ available' = [available EXCEPT ![u] = @ - EntryCoin]
      /\ reserved' = [reserved EXCEPT ![u] = @ + EntryCoin]
      /\ admissions' = Append(admissions, new)
  BY DEF reserveAndSeat
<1>3. new \in Admission /\ new.user = u /\ new.status = "reserved" /\ new.seat = seat /\ new.seated
  BY DEF Admission
<1> HIDE DEF new
<1>4. /\ admissions' \in Seq(Admission) /\ Len(admissions') = n
      /\ \A i \in 1 .. Len(admissions) : admissions'[i] = admissions[i]
      /\ admissions'[n] = new /\ DOMAIN admissions' = 1 .. n
  BY <1>0, <1>1, <1>2, <1>3
<1>5. /\ Issued' = Issued \cup {n} /\ n \notin Issued
      /\ \A i \in Issued : admissions'[i] = admissions[i]
  <2>1. Issued' = 1 .. n
    BY <1>4 DEF Issued
  <2>2. 1 .. n = (1 .. Len(admissions)) \cup {n} /\ n \notin 1 .. Len(admissions)
    BY <1>1
  <2> QED
    BY <1>1, <1>4, <2>1, <2>2
<1>51. admissions'[n] = new /\ n \in Nat /\ n = Len(admissions) + 1
  BY <1>1, <1>4
<1> HIDE DEF n
<1>6. Reserved' = Reserved \cup {n} /\ Reserved \subseteq Issued
  BY <1>3, <1>5, <1>51 DEF Reserved
<1>7. Captured' = Captured /\ Captured \subseteq Issued
  BY <1>3, <1>5, <1>51 DEF Captured
<1>8. Seated' = Seated \cup {n} /\ Seated \subseteq Issued
  BY <1>3, <1>5, <1>51 DEF Seated
<1>9. settlement.kind = "none" /\ Captured = {}
  BY <1>0 DEF OutcomeIsKept, SettlementRow
<1>10. ApiTypeOK'
  <2>1. EntryCoin \in Nat /\ available[u] - EntryCoin \in Nat /\ reserved[u] + EntryCoin \in Nat
    BY <1>0, <1>2, CoinAssumption
  <2>2. available' \in [Users -> Nat] /\ reserved' \in [Users -> Nat]
    BY <1>0, <1>2, <2>1
  <2>3. Len(admissions') <= MaxAdmissions
    BY <1>1, <1>2, <1>4, <1>51, BoundsAssumption
  <2> QED
    BY <1>0, <1>4, <2>2, <2>3 DEF ApiTypeOK, Sessions
<1>11. SeatsAreKept'
  <2>1. \A i \in Seated : admissions[i].seat # seat
    BY DEF ApiTaken
  <2>2. Reserved' \subseteq Seated'
    BY <1>0, <1>6, <1>8 DEF SeatsAreKept
  <2>3. \A i, j \in Seated' : admissions'[i].seat = admissions'[j].seat => i = j
    BY <1>0, <1>3, <1>5, <1>51, <1>8, <2>1 DEF SeatsAreKept
  <2>4. CASE session = "none"
    <3>1. admissions = <<>> /\ n = 1
      BY <1>0, <1>51, <2>4 DEF OutcomeIsKept
    <3> QED
      BY <1>3, <1>51, <1>6, <2>2, <2>3, <2>4, <3>1 DEF SeatsAreKept
  <2>5. CASE session = "open"
    <3>1. 1 \in Reserved /\ admissions[1].seat = 0 /\ 1 \in Issued
      BY <1>0, <1>6, <2>5 DEF SeatsAreKept
    <3> QED
      BY <1>5, <1>6, <2>2, <2>3, <3>1 DEF SeatsAreKept
  <2> QED
    BY <2>4, <2>5
<1>12. OutcomeIsKept'
  BY <1>0, <1>7, <1>9 DEF OutcomeIsKept, SettlementRow
<1>13. CoinsAccountedFor'
  <2> SUFFICES ASSUME NEW v \in Users
               PROVE  /\ reserved'[v] = EntryCoin * Cardinality(StakesOf(v, Reserved)')
                      /\ available'[v] + EntryCoin * Cardinality(StakesOf(v, Reserved)') = StartingCoin[v]
    BY <1>7, <1>9, UnsettledCoins DEF OwnCoins
  <2> DEFINE S == StakesOf(v, Reserved)
             c == Cardinality(S)
  <2>1. /\ reserved[v] = EntryCoin * c /\ available[v] + EntryCoin * c = StartingCoin[v]
        /\ IsFiniteSet(S) /\ c \in Nat
    BY <1>0, <1>6, <1>9, CountStakes, CoinsUnsettled DEF OwnCoins
  <2>2. n \notin S
    BY <1>5, <1>6 DEF StakesOf
  <2>3. StakesOf(v, Reserved)' = IF v = u THEN S \cup {n} ELSE S
    BY <1>3, <1>5, <1>51, <1>6 DEF StakesOf
  <2> HIDE DEF S, c
  <2>4. CASE v = u
    <3>1. Cardinality(S \cup {n}) = c + 1
      BY <2>1, <2>2, FS_AddElement DEF c
    <3>2. EntryCoin * (c + 1) = EntryCoin * c + EntryCoin /\ EntryCoin * c \in Nat
      BY <2>1, EntryTimes
    <3>3. reserved'[v] = reserved[v] + EntryCoin /\ available'[v] = available[v] - EntryCoin
      BY <1>0, <1>2, <2>4
    <3> QED
      BY <1>0, <2>1, <2>3, <2>4, <3>1, <3>2, <3>3, CoinAssumption DEF c
  <2>5. CASE v # u
    <3>1. reserved'[v] = reserved[v] /\ available'[v] = available[v]
      BY <1>0, <1>2, <2>5
    <3> QED
      BY <2>1, <2>3, <2>5, <3>1 DEF c
  <2> QED
    BY <2>4, <2>5
<1> QED
  BY <1>5, <1>6, <1>7, <1>10, <1>11, <1>12, <1>13 DEF ApiInv

(* Stakes are given back, with the seats or without.                       *)
Returned(ids) ==
  /\ Issued' = Issued /\ admissions' \in Seq(Admission)
  /\ \A i \in Issued \ ids : admissions'[i] = admissions[i]
  /\ \A i \in ids : /\ admissions'[i].user = admissions[i].user
                    /\ admissions'[i].seat = admissions[i].seat
                    /\ admissions'[i].status = "released"
                    /\ admissions'[i].seated => admissions[i].seated

LEMMA ReturnStep ==
  ASSUME ApiInv, NEW ids \in SUBSET Reserved, ReleaseCoins(ids), Returned(ids),
         session \in Undecided3,
         \/ session = "open" /\ session' = "open" /\ 1 \notin ids /\ settlement' = settlement
         \/ session = "open" /\ session' = "cancelled" /\ ids = Reserved /\ settlement' = settlement
         \/ /\ session # "open" /\ session' = "settled" /\ ids = Reserved
            /\ settlement' = [kind |-> "aborted", winner |-> 0]
  PROVE  ApiInv' /\ Reserved' = Reserved \ ids /\ Captured' = Captured
<1>0. /\ ApiTypeOK /\ SeatsAreKept /\ CoinsAccountedFor /\ OutcomeIsKept
      /\ available \in [Users -> Nat] /\ reserved \in [Users -> Nat]
      /\ settlement \in SettlementRow
  BY DEF ApiInv, ApiTypeOK
<1>1. /\ Issued = 1 .. Len(admissions) /\ Len(admissions) \in Nat
      /\ Reserved \subseteq Issued /\ ids \subseteq Issued
  BY <1>0, IssuedFacts DEF Reserved
<1>2. Reserved' = Reserved \ ids
  BY <1>1 DEF Returned, Reserved
<1>3. Captured' = Captured /\ Captured \subseteq Issued
  <2>1. \A i \in ids : admissions[i].status = "reserved"
    BY DEF Reserved
  <2> QED
    BY <1>1, <2>1 DEF Returned, Captured
<1>4. Seated' \subseteq Seated /\ Reserved' \subseteq Seated'
  BY <1>0, <1>1, <1>2 DEF Returned, Seated, SeatsAreKept
<1>5. settlement.kind = "none" /\ Captured = {}
  BY <1>0 DEF OutcomeIsKept, SettlementRow, Undecided3
<1>6. \A i \in Issued : admissions'[i].user = admissions[i].user /\ admissions'[i].seat = admissions[i].seat
  BY <1>1 DEF Returned
<1>7. ASSUME NEW v \in Users
      PROVE  /\ reserved'[v] = EntryCoin * Cardinality(StakesOf(v, Reserved)')
             /\ available'[v] + EntryCoin * Cardinality(StakesOf(v, Reserved)') = StartingCoin[v]
             /\ available'[v] \in Nat /\ reserved'[v] \in Nat
  <2> DEFINE S == StakesOf(v, Reserved)
             D == StakesOf(v, ids)
             c == Cardinality(S)
             d == Cardinality(D)
  <2>1. /\ reserved[v] = EntryCoin * c /\ available[v] + EntryCoin * c = StartingCoin[v]
        /\ IsFiniteSet(S) /\ c \in Nat /\ d \in Nat /\ CoinsOf(v, ids) = EntryCoin * d
    BY <1>0, <1>1, <1>5, CountStakes, CoinsUnsettled DEF OwnCoins
  <2>2. StakesOf(v, Reserved)' = S \ D /\ S \cap D = D
    BY <1>1, <1>2, <1>6 DEF StakesOf
  <2>3. /\ available'[v] = available[v] + CoinsOf(v, ids)
        /\ reserved'[v] = reserved[v] - CoinsOf(v, ids)
    BY DEF ReleaseCoins
  <2> HIDE DEF S, D
  <2>4. Cardinality(S \ D) = c - d /\ Cardinality(S \ D) \in Nat
    BY <2>1, <2>2, FS_Difference, FS_CardinalityType, ZenonT(40)
  <2> DEFINE e == Cardinality(S \ D)
  <2>5. e \in Nat /\ c = e + d
    BY <2>1, <2>4
  <2> HIDE DEF c, d, e
  <2>6. EntryCoin * c = EntryCoin * e + EntryCoin * d /\ EntryCoin * e \in Nat /\ EntryCoin * d \in Nat
    BY <2>1, <2>5, EntryTimes
  <2>7. /\ reserved'[v] = EntryCoin * e
        /\ available'[v] + EntryCoin * e = StartingCoin[v] /\ available'[v] \in Nat
    BY <1>0, <2>1, <2>3, <2>6, CoinAssumption
  <2> QED
    BY <2>2, <2>6, <2>7 DEF e
<1>8. ApiTypeOK'
  <2>1. available' = [v \in Users |-> available'[v]] /\ reserved' = [v \in Users |-> reserved'[v]]
    BY DEF ReleaseCoins
  <2>2. available' \in [Users -> Nat] /\ reserved' \in [Users -> Nat]
    BY <1>7, <2>1
  <2>3. Len(admissions') = Len(admissions)
    <3>1. DOMAIN admissions' = 1 .. Len(admissions') /\ Len(admissions') \in Nat
      BY LenProperties DEF Returned
    <3>2. 1 .. Len(admissions') = 1 .. Len(admissions)
      BY <1>1, <3>1 DEF Returned, Issued
    <3> QED
      BY <1>1, <3>1, <3>2, SameInterval
  <2>4. settlement' \in SettlementRow /\ session' \in Sessions
    BY <1>0 DEF SettlementRow, Sessions
  <2> QED
    BY <1>0, <2>2, <2>3, <2>4 DEF ApiTypeOK, Returned
<1>9. SeatsAreKept'
  <2>1. \A i, j \in Seated' : admissions'[i].seat = admissions'[j].seat => i = j
    <3>1. Seated \subseteq Issued
      BY DEF Seated
    <3> QED
      BY <1>0, <1>4, <1>6, <3>1 DEF SeatsAreKept
  <2>2. 1 \in Issued' => admissions'[1].seat = 0
    BY <1>0, <1>6 DEF SeatsAreKept, Returned
  <2>3. session' \in {"open", "active", "recovery_required"} => 1 \in Reserved'
    BY <1>0, <1>2 DEF SeatsAreKept
  <2> QED
    BY <1>4, <2>1, <2>2, <2>3 DEF SeatsAreKept
<1>10. OutcomeIsKept'
  BY <1>0, <1>2, <1>3, <1>5 DEF OutcomeIsKept, SettlementRow
<1>11. CoinsAccountedFor'
  <2>1. settlement'.kind # "completed"
    BY <1>5
  <2> QED
    BY <1>3, <1>5, <1>7, <2>1, UnsettledCoins DEF OwnCoins
<1> QED
  BY <1>2, <1>3, <1>8, <1>9, <1>10, <1>11 DEF ApiInv

(* A settlement takes every stake and pays them to the winner.             *)
LEMMA SettleStep ==
  ASSUME ApiInv, settle
  PROVE  ApiInv' /\ Reserved' = {} /\ Captured' = Reserved /\ Issued' = Issued
<1> DEFINE w == admissions[game.winner].user
<1>0. /\ ApiTypeOK /\ SeatsAreKept /\ CoinsAccountedFor /\ OutcomeIsKept
      /\ available \in [Users -> Nat] /\ reserved \in [Users -> Nat]
  BY DEF ApiInv, ApiTypeOK
<1>1. /\ Issued = 1 .. Len(admissions) /\ Len(admissions) \in Nat /\ Issued \subseteq Ids
      /\ \A i \in Issued : admissions[i] \in Admission
      /\ Reserved \subseteq Issued /\ Captured \subseteq Issued /\ Seated \subseteq Issued
  BY <1>0, IssuedFacts DEF Reserved, Captured, Seated
<1>2. Participants = Reserved /\ Captured = {} /\ settlement.kind = "none"
  BY <1>0 DEF SeatsAreKept, Participants, OutcomeIsKept, settle
<1>3. /\ session \in {"active", "recovery_required"} /\ session' = "settled"
      /\ Cardinality(Reserved) >= 2 /\ game.winner \in Reserved
      /\ settlement' = [kind |-> "completed", winner |-> game.winner]
      /\ available' = [available EXCEPT ![w] = @ + Prize(Reserved)]
      /\ reserved' = [u \in Users |-> reserved[u] - CoinsOf(u, Reserved)]
      /\ admissions' = [i \in Issued |-> IF i \in Reserved
           THEN Ended(admissions[i], "captured") ELSE admissions[i]]
  BY <1>2 DEF settle, ProofPayable
<1>4. ASSUME NEW i \in Issued
      PROVE  /\ admissions'[i] \in Admission /\ admissions'[i].user = admissions[i].user
             /\ admissions'[i].seat = admissions[i].seat /\ admissions'[i].seated = admissions[i].seated
             /\ admissions'[i].status = IF i \in Reserved THEN "captured" ELSE admissions[i].status
  <2>1. admissions[i] \in Admission
    BY <1>1
  <2>2. admissions'[i] = IF i \in Reserved THEN Ended(admissions[i], "captured") ELSE admissions[i]
    BY <1>3
  <2> HIDE <1>3
  <2> QED
    BY <2>1, <2>2 DEF Admission, Ended
<1>5. Issued' = Issued /\ admissions' \in Seq(Admission) /\ Len(admissions') = Len(admissions)
  <2>1. DOMAIN admissions' = Issued
    BY <1>3
  <2>2. admissions' = [i \in 1 .. Len(admissions) |-> admissions'[i]]
    BY <1>1, <1>3
  <2>3. admissions' \in [1 .. Len(admissions) -> Admission]
    BY <1>1, <1>4, <2>2
  <2>4. admissions' \in Seq(Admission)
    BY <1>1, <2>3, SeqDef
  <2>5. DOMAIN admissions' = 1 .. Len(admissions') /\ Len(admissions') \in Nat
    BY <2>4, LenProperties
  <2>6. 1 .. Len(admissions') = 1 .. Len(admissions)
    BY <1>1, <2>1, <2>5
  <2>7. Len(admissions') = Len(admissions)
    BY <1>1, <2>5, <2>6, SameInterval
  <2> QED
    BY <2>1, <2>4, <2>7 DEF Issued
<1>6. Reserved' = {} /\ Captured' = Reserved /\ Seated' = Seated
  <2>1. Reserved' = {}
    BY <1>4, <1>5 DEF Reserved
  <2>2. Captured' = Reserved
    BY <1>1, <1>2, <1>4, <1>5 DEF Captured
  <2>3. Seated' = Seated
    BY <1>1, <1>4, <1>5 DEF Seated
  <2> QED
    BY <2>1, <2>2, <2>3
<1>7. w \in Users /\ admissions'[game.winner].user = w
  BY <1>1, <1>3, <1>4 DEF Admission
<1> DEFINE p == EntryCoin * Cardinality(Reserved)
<1>8. Prize(Reserved) = p /\ p \in Nat
  <2>1. Cardinality(Reserved) \in Nat
    BY <1>0, <1>1, CountStakes
  <2> QED
    BY <2>1, EntryTimes DEF Prize
<1>81. /\ w = admissions[game.winner].user /\ p = EntryCoin * Cardinality(Reserved)
  OBVIOUS
<1> HIDE DEF w, p
<1>9. ASSUME NEW v \in Users
      PROVE  /\ reserved'[v] = 0 /\ StakesOf(v, Reserved)' = {}
             /\ available'[v] \in Nat
             /\ available'[v] + EntryCoin * Cardinality(StakesOf(v, Reserved \cup Captured)')
                  = StartingCoin[v] + (IF Won(v)' THEN EntryCoin * Cardinality(Captured') ELSE 0)
  <2> DEFINE c == Cardinality(StakesOf(v, Reserved))
  <2>1. /\ reserved[v] = EntryCoin * c /\ available[v] + EntryCoin * c = StartingCoin[v]
        /\ c \in Nat /\ CoinsOf(v, Reserved) = EntryCoin * c
    BY <1>0, <1>1, <1>2, CountStakes, CoinsUnsettled DEF OwnCoins
  <2>2. StakesOf(v, Reserved)' = {} /\ StakesOf(v, Reserved \cup Captured)' = StakesOf(v, Reserved)
    BY <1>1, <1>4, <1>6 DEF StakesOf
  <2>3. Won(v)' <=> v = w
    BY <1>3, <1>7 DEF Won
  <2>4. reserved'[v] = reserved[v] - CoinsOf(v, Reserved)
    BY <1>3
  <2>5. available'[v] = available[v] + (IF v = w THEN p ELSE 0)
    BY <1>0, <1>3, <1>7, <1>8
  <2>6. Cardinality(StakesOf(v, Reserved \cup Captured)') = c /\ EntryCoin * Cardinality(Captured') = p
    BY <1>6, <1>81, <2>2
  <2> HIDE DEF c
  <2>7. EntryCoin * c \in Nat
    BY <2>1, EntryTimes
  <2> HIDE <1>3
  <2>8. reserved'[v] = 0
    BY <2>1, <2>4, <2>7
  <2>9. available[v] \in Nat /\ StartingCoin[v] \in Nat
    BY <1>0, CoinAssumption
  <2>10. CASE v = w
    BY <1>8, <2>1, <2>2, <2>3, <2>5, <2>6, <2>7, <2>8, <2>9, <2>10
  <2>11. CASE v # w
    BY <1>8, <2>1, <2>2, <2>3, <2>5, <2>6, <2>7, <2>8, <2>9, <2>11
  <2> QED
    BY <2>10, <2>11
<1>10. CoinsAccountedFor'
  <2>1. EntryCoin * Cardinality({}) = 0
    BY FS_EmptySet, EntryTimes
  <2> QED
    BY <1>9, <2>1 DEF CoinsAccountedFor
<1>11. ApiTypeOK'
  <2>1. available' = [v \in Users |-> available'[v]] /\ reserved' = [v \in Users |-> reserved'[v]]
    BY <1>0, <1>3
  <2>2. available' \in [Users -> Nat] /\ reserved' \in [Users -> Nat]
    BY <1>9, <2>1
  <2>3. settlement' \in SettlementRow /\ session' \in Sessions
    BY <1>1, <1>3 DEF SettlementRow, Sessions
  <2> QED
    BY <1>0, <1>5, <2>2, <2>3 DEF ApiTypeOK
<1>12. SeatsAreKept'
  BY <1>0, <1>1, <1>3, <1>4, <1>5, <1>6 DEF SeatsAreKept
<1>13. OutcomeIsKept'
  BY <1>3, <1>6 DEF OutcomeIsKept
<1> QED
  BY <1>5, <1>6, <1>10, <1>11, <1>12, <1>13 DEF ApiInv

-----------------------------------------------------------------------------
(* What an API step may do to the rows the room and the proof rest on.     *)
ApiMoves ==
  /\ Issued \subseteq Issued'
  /\ \A i \in Issued : /\ i \in Reserved' => i \in Reserved
                       /\ i \in Captured' => i \in Reserved \cup Captured
  /\ \/ session' = session
     \/ session = "none" /\ session' = "open"
     \/ session = "open" /\ session' = "active" /\ Gameplay /\ PendingFinalizations = {}
     \/ session = "open" /\ session' = "cancelled"
     \/ session = "active" /\ session' = "recovery_required"
     \/ session \in {"active", "recovery_required"} /\ session' = "settled"
  /\ \/ settlement' = settlement
     \/ settlement' = [kind |-> "aborted", winner |-> 0]
     \/ settlement' = [kind |-> "completed", winner |-> game.winner] /\ HasProof
  /\ finalized \subseteq finalized'
  /\ \A f \in finalized' \ finalized : f \in finalizations /\ f.id \notin Reserved'

LEMMA ParticipantsReserved == ApiInv => Participants = Reserved
BY DEF ApiInv, SeatsAreKept, Participants

LEMMA SameApi ==
  ASSUME ApiInv, UNCHANGED apiVars
  PROVE  /\ ApiInv' /\ ApiMoves
         /\ Issued' = Issued /\ Reserved' = Reserved /\ Captured' = Captured /\ Seated' = Seated
         /\ Participants' = Participants
<1>1. /\ session' = session /\ available' = available /\ reserved' = reserved
      /\ admissions' = admissions /\ settlement' = settlement /\ finalized' = finalized
  BY DEF apiVars, accountVars
<1>2. /\ Issued' = Issued /\ Reserved' = Reserved /\ Captured' = Captured /\ Seated' = Seated
      /\ Participants' = Participants
  BY <1>1 DEF Issued, Reserved, Captured, Seated, Participants
<1>3. TicketsOnly
  BY <1>1, <1>2 DEF TicketsOnly, ApiInv, ApiTypeOK
<1>4. ApiInv'
  BY <1>1, <1>3, StakesKept
<1>5. ApiMoves
  BY <1>1, <1>2 DEF ApiMoves
<1> QED
  BY <1>2, <1>4, <1>5

LEMMA TicketMoves ==
  ASSUME ApiInv, TicketsOnly, UNCHANGED <<session, accountVars, settlement, finalized>>
  PROVE  ApiInv' /\ ApiMoves
<1>1. ApiInv'
  BY StakesKept DEF accountVars
<1>2. Reserved' = Reserved /\ Captured' = Captured /\ Issued' = Issued
  BY TicketsKeepStakes DEF ApiInv, TicketsOnly
<1> QED
  BY <1>1, <1>2 DEF ApiMoves

(* One admission's ticket. *)
LEMMA TicketChanged ==
  ASSUME ApiTypeOK, NEW i \in Issued, NEW t \in {"unused", "used", "dead"}, NEW c \in BOOLEAN,
         admissions' = [admissions EXCEPT ![i] = [@ EXCEPT !.ticket = t, !.consumed = c]]
  PROVE  TicketsOnly
<1>1. /\ admissions[i] \in Admission /\ admissions \in Seq(Admission)
      /\ Issued = 1 .. Len(admissions) /\ Len(admissions) \in Nat
  BY IssuedFacts DEF ApiTypeOK
<1> DEFINE row == [admissions[i] EXCEPT !.ticket = t, !.consumed = c]
<1>2. /\ row \in Admission /\ row.user = admissions[i].user /\ row.status = admissions[i].status
      /\ row.seat = admissions[i].seat /\ row.seated = admissions[i].seated
  BY <1>1 DEF Admission
<1>3. admissions' = [admissions EXCEPT ![i] = row]
  OBVIOUS
<1> HIDE DEF row
<1>4. admissions' \in Seq(Admission)
  BY <1>1, <1>2, <1>3, ExceptSeq
<1>5. DOMAIN admissions' = Issued
  BY <1>3 DEF Issued
<1>6. Issued' = Issued
  BY <1>5 DEF Issued
<1>7. admissions'[i] = row /\ \A j \in Issued \ {i} : admissions'[j] = admissions[j]
  BY <1>1, <1>3 DEF Issued
<1> QED
  BY <1>2, <1>4, <1>6, <1>7 DEF TicketsOnly

LEMMA ReissueMoves ==
  ASSUME ApiInv, NEW i \in Ids, reissueAdmission(i)
  PROVE  ApiInv' /\ ApiMoves
<1>1. i \in Issued /\ admissions[i] \in Admission /\ admissions[i].consumed \in BOOLEAN
  BY IssuedFacts DEF reissueAdmission, Participants, Seated, ApiInv, Admission
<1>2. admissions' = [admissions EXCEPT ![i] = [@ EXCEPT !.ticket = "unused", !.consumed = admissions[i].consumed]]
  <2>1. [admissions[i] EXCEPT !.ticket = "unused"]
          = [admissions[i] EXCEPT !.ticket = "unused", !.consumed = admissions[i].consumed]
    BY <1>1 DEF Admission
  <2> QED
    BY <2>1 DEF reissueAdmission
<1>3. TicketsOnly
  <2>1. PICK c \in BOOLEAN : c = admissions[i].consumed
    BY <1>1
  <2> QED
    BY <1>1, <1>2, <2>1, TicketChanged DEF ApiInv
<1> QED
  BY <1>3, TicketMoves DEF reissueAdmission

LEMMA ExpiresMoves ==
  ASSUME ApiInv, NEW i \in Ids, TicketExpires(i)
  PROVE  ApiInv' /\ ApiMoves
<1>1. i \in Issued /\ admissions[i] \in Admission /\ admissions[i].consumed \in BOOLEAN
  BY IssuedFacts DEF TicketExpires, ApiInv, Admission
<1>2. admissions' = [admissions EXCEPT ![i] = [@ EXCEPT !.ticket = "dead", !.consumed = admissions[i].consumed]]
  <2>1. [admissions[i] EXCEPT !.ticket = "dead"]
          = [admissions[i] EXCEPT !.ticket = "dead", !.consumed = admissions[i].consumed]
    BY <1>1 DEF Admission
  <2> QED
    BY <2>1 DEF TicketExpires
<1>3. TicketsOnly
  <2>1. PICK c \in BOOLEAN : c = admissions[i].consumed
    BY <1>1
  <2> QED
    BY <1>1, <1>2, <2>1, TicketChanged DEF ApiInv
<1> QED
  BY <1>3, TicketMoves DEF TicketExpires

LEMMA ConsumeMoves ==
  ASSUME ApiInv, NEW i \in Ids, consumeTicket(i)
  PROVE  ApiInv' /\ ApiMoves /\ i \in Issued
<1>1. i \in Issued /\ ApiTypeOK
  BY DEF consumeTicket, Participants, Seated, ApiInv
<1>2. admissions' = [admissions EXCEPT ![i] = [@ EXCEPT !.ticket = "used", !.consumed = TRUE]]
  BY <1>1, IssuedFacts DEF consumeTicket, Issued
<1>3. TicketsOnly
  BY <1>1, <1>2, TicketChanged
<1> QED
  BY <1>1, <1>3, TicketMoves DEF consumeTicket

LEMMA GoneMoves ==
  ASSUME ApiInv, RoomGone
  PROVE  ApiInv' /\ ApiMoves
<1>0. /\ Issued = 1 .. Len(admissions) /\ Len(admissions) \in Nat
      /\ \A i \in Issued : admissions[i] \in Admission
  BY IssuedFacts DEF ApiInv
<1>1. UNCHANGED <<session, accountVars, settlement, finalized>>
  BY DEF RoomGone
<1>2. CASE UNCHANGED admissions
  BY <1>1, <1>2, SameApi DEF apiVars
<1>3. CASE admissions' = [i \in Issued |-> [admissions[i] EXCEPT
                            !.ticket = IF @ = "used" THEN "dead" ELSE @]]
  <2>1. ASSUME NEW i \in Issued
        PROVE  /\ admissions'[i] \in Admission
               /\ admissions'[i].user = admissions[i].user
               /\ admissions'[i].status = admissions[i].status
               /\ admissions'[i].seat = admissions[i].seat
               /\ admissions'[i].seated = admissions[i].seated
    <3>1. admissions[i] \in Admission
      BY <1>0
    <3>2. PICK t \in {"unused", "used", "dead"} : admissions'[i] = [admissions[i] EXCEPT !.ticket = t]
      <4>1. admissions'[i] = [admissions[i] EXCEPT !.ticket = IF admissions[i].ticket = "used" THEN "dead" ELSE admissions[i].ticket]
        BY <1>3
      <4>2. (IF admissions[i].ticket = "used" THEN "dead" ELSE admissions[i].ticket) \in {"unused", "used", "dead"}
        BY <3>1 DEF Admission
      <4> QED
        BY <4>1, <4>2
    <3> HIDE <1>3
    <3> QED
      BY <3>1, <3>2 DEF Admission
  <2>2. admissions' \in [1 .. Len(admissions) -> Admission] /\ DOMAIN admissions' = Issued
    BY <1>0, <1>3, <2>1
  <2>3. admissions' \in Seq(Admission)
    BY <1>0, <2>2, SeqDef
  <2>4. Issued' = Issued
    BY <2>2 DEF Issued
  <2>5. TicketsOnly
    BY <2>1, <2>3, <2>4 DEF TicketsOnly
  <2> QED
    BY <1>1, <2>5, TicketMoves
<1> QED
  BY <1>2, <1>3 DEF RoomGone

LEMMA CreateMoves ==
  ASSUME ApiInv, createSession
  PROVE  ApiInv' /\ ApiMoves
<1>1. admissions = <<>> /\ session = "none" /\ session' = "open"
  BY DEF ApiInv, OutcomeIsKept, createSession
<1>2. Seated = {} /\ ApiTaken = {} /\ 0 \in SeatIndexes
  <2>1. Issued = {}
    BY <1>1 DEF Issued
  <2>2. Seated = {}
    BY <2>1 DEF Seated
  <2> QED
    BY <2>2, BoundsAssumption DEF ApiTaken, SeatIndexes
<1>3. reserveAndSeat(Creator, 0) /\ settlement' = settlement /\ finalized' = finalized
  BY DEF createSession
<1>4. /\ ApiInv' /\ Issued \subseteq Issued' /\ Reserved' \cap Issued = Reserved
      /\ Captured' = Captured
  BY <1>1, <1>2, <1>3, CreatorAssumption, ReserveStep
<1> QED
  BY <1>1, <1>3, <1>4 DEF ApiMoves

LEMMA JoinMoves ==
  ASSUME ApiInv, NEW u \in Users, joinSession(u)
  PROVE  ApiInv' /\ ApiMoves
<1>1. /\ session = "open" /\ session' = "open" /\ settlement' = settlement /\ finalized' = finalized
      /\ FreeSeats(ApiTaken) # {}
  BY DEF joinSession
<1>2. PICK seat \in SeatIndexes : seat = FirstFree(ApiTaken) /\ seat \notin ApiTaken
  BY <1>1, FirstFreeIsFree
<1>3. reserveAndSeat(u, seat)
  BY <1>2 DEF joinSession
<1>4. /\ ApiInv' /\ Issued \subseteq Issued' /\ Reserved' \cap Issued = Reserved
      /\ Captured' = Captured
  BY <1>1, <1>2, <1>3, ReserveStep
<1> QED
  BY <1>1, <1>4 DEF ApiMoves

(* Ended, with the seat row or without it, is a return of the stake. *)
LEMMA EndedRow ==
  ASSUME NEW a \in Admission
  PROVE  /\ Ended(a, "released") \in Admission
         /\ Ended(a, "released").user = a.user /\ Ended(a, "released").seat = a.seat
         /\ Ended(a, "released").status = "released" /\ Ended(a, "released").seated = a.seated
         /\ [Ended(a, "released") EXCEPT !.seated = FALSE] \in Admission
         /\ [Ended(a, "released") EXCEPT !.seated = FALSE].user = a.user
         /\ [Ended(a, "released") EXCEPT !.seated = FALSE].seat = a.seat
         /\ [Ended(a, "released") EXCEPT !.seated = FALSE].status = "released"
         /\ ~[Ended(a, "released") EXCEPT !.seated = FALSE].seated
BY DEF Ended, Admission

LEMMA ReturnedRows ==
  ASSUME ApiTypeOK, NEW ids \in SUBSET Issued,
         \/ admissions' = ReleasedAdmissions(ids)
         \/ admissions' = [i \in Issued |-> IF i \in ids
              THEN Ended(admissions[i], "released") ELSE admissions[i]]
  PROVE  Returned(ids)
<1>0. /\ Issued = 1 .. Len(admissions) /\ Len(admissions) \in Nat
      /\ \A i \in Issued : admissions[i] \in Admission
  BY IssuedFacts
<1>1. /\ DOMAIN admissions' = Issued /\ admissions' = [i \in Issued |-> admissions'[i]]
      /\ \A i \in Issued \ ids : admissions'[i] = admissions[i]
      /\ \A i \in ids : \/ admissions'[i] = Ended(admissions[i], "released")
                        \/ admissions'[i] = [Ended(admissions[i], "released") EXCEPT !.seated = FALSE]
  BY DEF ReleasedAdmissions
<1>2. \A i \in ids : /\ admissions'[i] \in Admission
                     /\ admissions'[i].user = admissions[i].user
                     /\ admissions'[i].seat = admissions[i].seat
                     /\ admissions'[i].status = "released"
                     /\ admissions'[i].seated => admissions[i].seated
  <2> SUFFICES ASSUME NEW i \in ids
               PROVE  /\ admissions'[i] \in Admission
                      /\ admissions'[i].user = admissions[i].user
                      /\ admissions'[i].seat = admissions[i].seat
                      /\ admissions'[i].status = "released"
                      /\ admissions'[i].seated => admissions[i].seated
    OBVIOUS
  <2>1. admissions[i] \in Admission
    BY <1>0
  <2>2. \/ admissions'[i] = Ended(admissions[i], "released")
        \/ admissions'[i] = [Ended(admissions[i], "released") EXCEPT !.seated = FALSE]
    BY <1>1
  <2>3. PICK a \in Admission : a = admissions[i]
    BY <2>1
  <2>4. CASE admissions'[i] = Ended(a, "released")
    BY <2>3, <2>4, EndedRow
  <2>5. CASE admissions'[i] = [Ended(a, "released") EXCEPT !.seated = FALSE]
    BY <2>3, <2>5, EndedRow
  <2> QED
    BY <2>2, <2>3, <2>4, <2>5
<1>3. \A i \in Issued : admissions'[i] \in Admission
  BY <1>0, <1>1, <1>2
<1>4. admissions' \in [1 .. Len(admissions) -> Admission]
  BY <1>0, <1>1, <1>3
<1>5. admissions' \in Seq(Admission)
  BY <1>0, <1>4, SeqDef
<1>6. Issued' = Issued
  BY <1>1 DEF Issued
<1> QED
  BY <1>1, <1>2, <1>5, <1>6 DEF Returned

LEMMA ReleaseMoves ==
  ASSUME ApiInv, NEW i \in Ids, Release(i)
  PROVE  /\ ApiInv' /\ Issued' = Issued /\ Reserved' = Reserved \ {i} /\ Captured' = Captured
         /\ session = "open" /\ session' = "open" /\ settlement' = settlement
<1>1. /\ session = "open" /\ session' = "open" /\ settlement' = settlement /\ i # 1
      /\ {i} \in SUBSET Reserved /\ ReleaseCoins({i}) /\ admissions' = ReleasedAdmissions({i})
  BY DEF Release, Participants
<1>2. Returned({i})
  BY <1>1, ReturnedRows DEF ApiInv, Reserved
<1>3. ApiInv' /\ Reserved' = Reserved \ {i} /\ Captured' = Captured
  BY <1>1, <1>2, ReturnStep DEF Undecided3
<1> QED
  BY <1>1, <1>2, <1>3 DEF Returned

LEMMA CancelMoves ==
  ASSUME ApiInv, Cancel
  PROVE  /\ ApiInv' /\ Issued' = Issued /\ Reserved' = {} /\ Captured' = Captured
         /\ session = "open" /\ session' = "cancelled" /\ settlement' = settlement
<1>1. /\ session = "open" /\ session' = "cancelled" /\ settlement' = settlement
      /\ ReleaseCoins(Reserved) /\ admissions' = ReleasedAdmissions(Reserved)
  BY DEF Cancel
<1>2. Returned(Reserved)
  BY <1>1, ReturnedRows DEF ApiInv, Reserved
<1>3. ApiInv' /\ Reserved' = Reserved \ Reserved /\ Captured' = Captured
  BY <1>1, <1>2, ReturnStep DEF Undecided3
<1> QED
  BY <1>1, <1>2, <1>3 DEF Returned

LEMMA AbortMoves ==
  ASSUME ApiInv, abort
  PROVE  ApiInv' /\ ApiMoves
<1>0. Participants = Reserved
  BY ParticipantsReserved
<1>1. /\ session \in {"active", "recovery_required"} /\ session' = "settled"
      /\ settlement' = [kind |-> "aborted", winner |-> 0] /\ finalized' = finalized
      /\ ReleaseCoins(Reserved)
      /\ admissions' = [i \in Issued |-> IF i \in Reserved
           THEN Ended(admissions[i], "released") ELSE admissions[i]]
  BY <1>0 DEF abort
<1>2. Returned(Reserved)
  BY <1>1, ReturnedRows DEF ApiInv, Reserved
<1>3. ApiInv' /\ Reserved' = Reserved \ Reserved /\ Captured' = Captured
  BY <1>1, <1>2, ReturnStep DEF Undecided3
<1> QED
  BY <1>1, <1>2, <1>3 DEF Returned, ApiMoves

LEMMA SettleMoves ==
  ASSUME ApiInv, settle
  PROVE  ApiInv' /\ ApiMoves
<1>1. /\ session \in {"active", "recovery_required"} /\ session' = "settled" /\ HasProof
      /\ settlement' = [kind |-> "completed", winner |-> game.winner] /\ finalized' = finalized
  BY DEF settle
<1>2. ApiInv' /\ Reserved' = {} /\ Captured' = Reserved /\ Issued' = Issued
  BY SettleStep
<1> QED
  BY <1>1, <1>2 DEF ApiMoves

(* A leave or cancel the API applies ends the stake it is about.           *)
LEMMA FinalizeMoves ==
  ASSUME ApiInv, FinalizationRows, NEW f \in finalizations, finalizations \subseteq Finalization,
         NEW ok \in BOOLEAN, finalizeRoomCommand(f, ok)
  PROVE  /\ ApiInv' /\ ApiMoves
         /\ ok => \/ UNCHANGED apiVars /\ f \in finalized
                  \/ f.id \notin Reserved' /\ (f.action = "cancel" => session' = "cancelled")
<1>1. CASE UNCHANGED apiVars /\ f \in finalized
  BY <1>1, SameApi
<1>2. CASE UNCHANGED apiVars /\ ~ok
  BY <1>2, SameApi
<1>3. CASE f.action = "leave" /\ Release(f.id) /\ finalized' = finalized \cup {f}
  <2>1. PICK i \in Ids : i = f.id
    BY DEF Finalization
  <2>2. /\ ApiInv' /\ Issued' = Issued /\ Reserved' = Reserved \ {i} /\ Captured' = Captured
        /\ session = "open" /\ session' = "open" /\ settlement' = settlement
    BY <1>3, <2>1, ReleaseMoves
  <2>3. ApiMoves
    BY <1>3, <2>1, <2>2 DEF ApiMoves
  <2> QED
    BY <1>3, <2>1, <2>2, <2>3
<1>4. CASE f.action = "cancel" /\ Cancel /\ finalized' = finalized \cup {f}
  <2>1. /\ ApiInv' /\ Issued' = Issued /\ Reserved' = {} /\ Captured' = Captured
        /\ session = "open" /\ session' = "cancelled" /\ settlement' = settlement
    BY <1>4, CancelMoves
  <2>2. ApiMoves
    BY <1>4, <2>1 DEF ApiMoves
  <2> QED
    BY <1>4, <2>1, <2>2
<1> QED
  BY <1>1, <1>2, <1>3, <1>4 DEF finalizeRoomCommand

(* markStarted leaves the stakes alone.                                    *)
LEMMA StartMoves ==
  ASSUME ApiInv, NEW started \in BOOLEAN, markStarted(started), Gameplay, PendingFinalizations = {},
         UNCHANGED <<accountVars, admissions, settlement, finalized>>
  PROVE  ApiInv' /\ ApiMoves
<1>1. \/ session' = session
      \/ session = "open" /\ session' = "active" /\ Ready
  BY DEF markStarted
<1>2. CASE session' = session
  BY <1>2, SameApi DEF apiVars
<1>3. CASE session = "open" /\ session' = "active" /\ Ready
  <2>1. TicketsOnly
    BY DEF TicketsOnly, ApiInv, ApiTypeOK, Issued
  <2>2. ApiInv'
    BY <1>3, <2>1, StakesKept DEF Undecided3, Ready, accountVars
  <2>3. Reserved' = Reserved /\ Captured' = Captured /\ Issued' = Issued
    BY DEF Reserved, Captured, Issued
  <2> QED
    BY <1>3, <2>2, <2>3 DEF ApiMoves
<1> QED
  BY <1>1, <1>2, <1>3

(* The API marks a session that nobody can serve. *)
LEMMA RecoveryMoves ==
  ASSUME ApiInv, session = "active", session' = "recovery_required",
         UNCHANGED <<accountVars, admissions, settlement, finalized>>
  PROVE  ApiInv' /\ ApiMoves
<1>1. TicketsOnly
  BY DEF TicketsOnly, ApiInv, ApiTypeOK, Issued
<1>2. ApiInv'
  BY <1>1, StakesKept DEF Undecided3, accountVars, ApiInv, OutcomeIsKept
<1>3. Reserved' = Reserved /\ Captured' = Captured /\ Issued' = Issued
  BY DEF Reserved, Captured, Issued
<1> QED
  BY <1>2, <1>3 DEF ApiMoves

-----------------------------------------------------------------------------
(* The durable part of the invariant, which relates game and session, and  *)
(* the part about the room that serves them.                               *)
GameRow ==
  [status : {"none", "waiting", "inProgress", "finished", "cancelled"},
   seats : [SeatIndexes -> Ids \cup {0}], winner : Ids \cup {0}, afterRecovery : BOOLEAN]
DurableInv ==
  /\ game \in GameRow /\ finalizations \subseteq Finalization
  /\ session = "none" => game.status = "none" /\ finalizations = {}
  /\ game.status # "none" => 1 \in InGame
  /\ session \in {"active", "recovery_required", "settled"} => Gameplay
  /\ settlement.kind = "completed" => HasProof /\ settlement.winner = game.winner
  /\ FinalizationRows /\ LeaversDoNotPay

BootRow == [session : Sessions, seats : [SeatIndexes -> Ids \cup {0}]]
FinRow == [id : Ids \cup {0}, action : {"none", "leave", "cancel"},
           n : 0 .. MaxRequests, stored : BOOLEAN]
RoomRow ==
  [phase : {"down", "probed", "leased", "booted", "up"}, boot : BootRow,
   starting : BOOLEAN, published : BOOLEAN, fin : FinRow,
   call : {"none", "start", "no start", "started", "finalization", "finalize"}]
FlagsOK ==
  /\ recon \in {"finalize", "waiting", "settle", "abort?", "abort", "recovery"}
  /\ leased \in BOOLEAN /\ offline \in BOOLEAN
PlayersOK ==
  /\ auth \in [Ids -> {"none", "consumed", "bootstrapped", "admitted"}]
  /\ connected \subseteq Issued /\ KnownPlayers
RoomInv ==
  /\ room \in RoomRow
  /\ room.phase # "down" => session # "none"
  /\ room.phase = "booted" => \E s \in SeatIndexes : room.boot.seats[s] = 1
  /\ RoomIsSound /\ PendingIsHeld

LEMMA InvParts == SessionInv <=> ApiInv /\ DurableInv /\ FlagsOK /\ PlayersOK /\ RoomInv
<1>1. SessionInv => DurableInv
  BY DEF SessionInv, DurableInv, TypeOK, GameRow, NothingYet, GameIsKept, StakesFollowOutcome
<1>2. SessionInv => FlagsOK /\ PlayersOK
  BY DEF SessionInv, FlagsOK, PlayersOK, TypeOK
<1>3. SessionInv => RoomInv
  BY DEF SessionInv, RoomInv, TypeOK, RoomRow, BootRow, FinRow, NothingYet, GameIsKept
<1>4. ASSUME ApiInv, DurableInv, FlagsOK, PlayersOK, RoomInv PROVE SessionInv
  <2>1. TypeOK
    BY <1>4 DEF TypeOK, ApiInv, ApiTypeOK, SettlementRow, DurableInv, FinalizationRows, GameRow,
                FlagsOK, PlayersOK, RoomInv, RoomRow, BootRow, FinRow
  <2>2. NothingYet
    BY <1>4 DEF NothingYet, ApiInv, ApiTypeOK, OutcomeIsKept, DurableInv, RoomInv, SettlementRow
  <2>3. GameIsKept
    BY <1>4 DEF GameIsKept, DurableInv, RoomInv
  <2>4. StakesFollowOutcome
    BY <1>4 DEF StakesFollowOutcome, ApiInv, OutcomeIsKept, DurableInv
  <2>5. RunningSessionHasGame
    <3>1. session \in {"active", "recovery_required"} =>
            Gameplay /\ 1 \in Participants /\ Cardinality(Participants) >= 2
      BY <1>4 DEF ApiInv, OutcomeIsKept, SeatsAreKept, DurableInv, Participants
    <3>2. Gameplay => 1 \in InGame
      BY <1>4 DEF DurableInv, Gameplay
    <3> QED
      BY <3>1, <3>2 DEF RunningSessionHasGame
  <2> QED
    BY <1>4, <2>1, <2>2, <2>3, <2>4, <2>5 DEF SessionInv, ApiInv, DurableInv, PlayersOK, RoomInv
<1> QED
  BY <1>1, <1>2, <1>3, <1>4, ApiPart

(* The primed form: what a step has to establish. *)
LEMMA InvPartsNext ==
  ASSUME ApiInv', DurableInv', FlagsOK', PlayersOK', RoomInv'
  PROVE  SessionInv'
<1>1. TypeOK'
  BY DEF TypeOK, ApiInv, ApiTypeOK, SettlementRow, DurableInv, FinalizationRows, GameRow,
         FlagsOK, PlayersOK, RoomInv, RoomRow, BootRow, FinRow
<1>2. NothingYet'
  BY DEF NothingYet, ApiInv, ApiTypeOK, OutcomeIsKept, DurableInv, RoomInv, SettlementRow
<1>3. GameIsKept'
  BY DEF GameIsKept, DurableInv, RoomInv
<1>4. StakesFollowOutcome'
  BY DEF StakesFollowOutcome, ApiInv, OutcomeIsKept, DurableInv
<1>5. RunningSessionHasGame'
  <2>1. session' \in {"active", "recovery_required"} =>
          Gameplay' /\ 1 \in Participants' /\ Cardinality(Participants') >= 2
    BY DEF ApiInv, OutcomeIsKept, SeatsAreKept, DurableInv, Participants
  <2>2. Gameplay' => 1 \in InGame'
    BY DEF DurableInv, Gameplay
  <2> QED
    BY <2>1, <2>2 DEF RunningSessionHasGame
<1> QED
  BY <1>1, <1>2, <1>3, <1>4, <1>5 DEF SessionInv, ApiInv, DurableInv, PlayersOK, RoomInv

(* No step of the API disturbs what is durable in the room: a player whose *)
(* leave is stored and not applied has an open session, and the session    *)
(* starts only when there is none such.                                    *)
LEMMA DurableKept ==
  ASSUME ApiInv, DurableInv, ApiInv', ApiMoves, UNCHANGED <<game, finalizations>>
  PROVE  /\ DurableInv' /\ PendingFinalizations' \subseteq PendingFinalizations
         /\ session # "none" => session' # "none"
<1>1. \A f \in finalizations : f.id \in Issued /\ (f.id \in Reserved' => f.id \in Reserved)
  BY DEF DurableInv, FinalizationRows, ApiMoves
<1>2. session' = "none" => session = "none"
  BY DEF ApiMoves
<1>3. PendingFinalizations' \subseteq PendingFinalizations
  <2>1. session' = "open" => session = "open" \/ finalizations = {}
    BY DEF ApiMoves, DurableInv
  <2> QED
    BY <1>1, <2>1 DEF PendingFinalizations
<1>4. InGame' = InGame /\ (Gameplay' <=> Gameplay) /\ (HasProof' <=> HasProof)
  BY DEF InGame, Gameplay, HasProof
<1>5. FinalizationRows'
  BY DEF DurableInv, FinalizationRows, ApiMoves
<1>6. LeaversDoNotPay'
  <2>1. ASSUME NEW f \in finalizations, f.id \in Reserved' \cup Captured'
        PROVE  f \notin finalized' /\ session' = "open"
    <3>1. f.id \in Reserved \cup Captured
      BY <1>1, <2>1 DEF ApiMoves
    <3>2. f \notin finalized /\ session = "open"
      BY <3>1 DEF DurableInv, LeaversDoNotPay
    <3>3. session' \in {"open", "active", "cancelled"}
      BY <3>2 DEF ApiMoves
    <3>4. Captured' = {}
      BY <3>3 DEF ApiInv, ApiTypeOK, SettlementRow, OutcomeIsKept
    <3>5. f.id \in Reserved' /\ f.id \in Reserved
      BY <1>1, <2>1, <3>4
    <3>6. f \in PendingFinalizations
      <4>1. f.action \in {"leave", "cancel"}
        BY DEF DurableInv, Finalization
      <4> QED
        BY <3>2, <3>5, <4>1 DEF PendingFinalizations
    <3>7. session' # "active"
      BY <3>2, <3>6 DEF ApiMoves
    <3>8. session' # "cancelled"
      BY <3>5 DEF ApiInv, OutcomeIsKept
    <3>9. f \notin finalized'
      BY <3>2, <3>5 DEF ApiMoves
    <3> QED
      BY <3>3, <3>7, <3>8, <3>9
  <2>2. game'.status = "cancelled" => session' \in {"open", "cancelled"}
    <3>1. game.status = "cancelled" => session \in {"open", "cancelled"} /\ ~Gameplay
      BY DEF DurableInv, LeaversDoNotPay, Gameplay
    <3> QED
      BY <3>1 DEF ApiMoves
  <2> QED
    BY <2>1, <2>2 DEF LeaversDoNotPay
<1>7. session' \in {"active", "recovery_required", "settled"} => Gameplay'
  BY <1>4 DEF ApiMoves, DurableInv
<1>8. settlement'.kind = "completed" => HasProof' /\ settlement'.winner = game'.winner
  BY <1>4 DEF ApiMoves, DurableInv
<1>9. DurableInv'
  BY <1>2, <1>4, <1>5, <1>6, <1>7, <1>8 DEF DurableInv
<1> QED
  BY <1>2, <1>3, <1>9

(* Nor what the room knows. *)
LEMMA RoomKept ==
  ASSUME ApiInv, DurableInv, ApiInv', ApiMoves, RoomInv, UNCHANGED <<game, finalizations, room>>
  PROVE  RoomInv'
<1>1. PendingFinalizations' \subseteq PendingFinalizations /\ (session # "none" => session' # "none")
  BY DurableKept
<1>2. Issued \subseteq Issued'
  BY DEF ApiMoves
<1>3. RoomIsSound'
  BY <1>2 DEF RoomInv, RoomIsSound, Gameplay, PendingRequest
<1>4. PendingIsHeld'
  BY <1>1 DEF RoomInv, PendingIsHeld, PendingRequest
<1> QED
  BY <1>1, <1>3, <1>4 DEF RoomInv

LEMMA PlayersKept ==
  ASSUME PlayersOK, ApiMoves, UNCHANGED <<auth, connected>>
  PROVE  PlayersOK'
BY DEF PlayersOK, KnownPlayers, ApiMoves

LEMMA ApiStep ==
  ASSUME SessionInv, ApiInv', ApiMoves, FlagsOK',
         UNCHANGED <<game, finalizations, room, auth, connected>>
  PROVE  SessionInv'
<1>1. ApiInv /\ DurableInv /\ PlayersOK /\ RoomInv
  BY InvParts
<1>2. DurableInv' /\ PlayersOK' /\ RoomInv'
  BY <1>1, DurableKept, RoomKept, PlayersKept
<1> QED
  BY <1>2, InvPartsNext

-----------------------------------------------------------------------------
(* The steps that only touch the API's rows.                               *)
LEMMA ApiActions ==
  ASSUME SessionInv,
         \/ createSession \/ cancelSession \/ abortSession \/ SettleFromRoom
         \/ \E u \in Users : joinSession(u)
         \/ \E i \in Ids : reissueAdmission(i) \/ releaseJoinIntent(i) \/ TicketExpires(i)
  PROVE  SessionInv'
<1>1. ApiInv /\ FlagsOK /\ DurableInv
  BY InvParts
<1>2. ApiInv' /\ ApiMoves
  <2>1. CASE createSession
    BY <1>1, <2>1, CreateMoves
  <2>2. CASE cancelSession
    <3>1. /\ ApiInv' /\ Issued' = Issued /\ Reserved' = {} /\ Captured' = Captured
          /\ session = "open" /\ session' = "cancelled" /\ settlement' = settlement
          /\ finalized' = finalized
      BY <1>1, <2>2, CancelMoves DEF cancelSession
    <3> QED
      BY <3>1 DEF ApiMoves
  <2>3. CASE abortSession
    BY <1>1, <2>3, AbortMoves DEF abortSession
  <2>4. CASE SettleFromRoom
    BY <1>1, <2>4, SettleMoves DEF SettleFromRoom
  <2>5. CASE \E u \in Users : joinSession(u)
    BY <1>1, <2>5, JoinMoves
  <2>6. ASSUME NEW i \in Ids, reissueAdmission(i) PROVE ApiInv' /\ ApiMoves
    BY <1>1, <2>6, ReissueMoves
  <2>7. ASSUME NEW i \in Ids, TicketExpires(i) PROVE ApiInv' /\ ApiMoves
    BY <1>1, <2>7, ExpiresMoves
  <2>8. ASSUME NEW i \in Ids, releaseJoinIntent(i) PROVE ApiInv' /\ ApiMoves
    <3>1. /\ ApiInv' /\ Issued' = Issued /\ Reserved' = Reserved \ {i} /\ Captured' = Captured
          /\ session = "open" /\ session' = "open" /\ settlement' = settlement
          /\ finalized' = finalized
      BY <1>1, <2>8, ReleaseMoves DEF releaseJoinIntent
    <3> QED
      BY <3>1 DEF ApiMoves
  <2> QED
    BY <2>1, <2>2, <2>3, <2>4, <2>5, <2>6, <2>7, <2>8
<1>3. UNCHANGED <<recon, leased, offline, game, finalizations, room, auth, connected>>
  BY DEF createSession, cancelSession, abortSession, SettleFromRoom, joinSession, reissueAdmission,
         releaseJoinIntent, TicketExpires, durableVars, roomVars
<1>4. FlagsOK'
  BY <1>1, <1>3 DEF FlagsOK
<1> QED
  BY <1>2, <1>3, <1>4, ApiStep

(* A run of the reconciliation, step by step. *)
LEMMA ReconcileActions ==
  ASSUME SessionInv, Reconcile \/ ReconcileInterrupted \/ OfflineWindowEnds
  PROVE  SessionInv'
<1>1. ApiInv /\ FlagsOK /\ DurableInv
  BY InvParts
<1>2. ApiInv' /\ ApiMoves
  <2>1. CASE UNCHANGED apiVars
    BY <1>1, <2>1, SameApi
  <2>2. CASE settle
    BY <1>1, <2>2, SettleMoves
  <2>3. CASE abort
    BY <1>1, <2>3, AbortMoves
  <2>4. CASE CancelExpiredWaiting
    <3>1. /\ ApiInv' /\ Issued' = Issued /\ Reserved' = {} /\ Captured' = Captured
          /\ session = "open" /\ session' = "cancelled" /\ settlement' = settlement
          /\ finalized' = finalized
      BY <1>1, <2>4, CancelMoves DEF CancelExpiredWaiting
    <3> QED
      BY <3>1 DEF ApiMoves
  <2>5. ASSUME NEW f \in PendingFinalizations, NEW ok \in BOOLEAN, finalizeRoomCommand(f, ok)
        PROVE  ApiInv' /\ ApiMoves
    BY <1>1, <2>5, FinalizeMoves DEF PendingFinalizations, DurableInv
  <2>6. CASE /\ session = "active" /\ session' = "recovery_required"
             /\ UNCHANGED <<accountVars, admissions, settlement, finalized>>
    BY <1>1, <2>6, RecoveryMoves
  <2>7. CASE UNCHANGED <<session, accountVars, admissions, settlement, finalized>>
    BY <1>1, <2>7, SameApi DEF apiVars
  <2>8. CASE ReconcileFinalizations
    BY <2>1, <2>5, <2>8 DEF ReconcileFinalizations
  <2>9. CASE ReconcileWaiting
    BY <2>1, <2>4, <2>9 DEF ReconcileWaiting
  <2>10. CASE ReconcileSettlement
    <3>1. SettlementCandidate => session \in {"active", "recovery_required"}
      BY DEF SettlementCandidate
    <3> QED
      BY <2>1, <2>2, <2>6, <2>7, <2>10, <3>1 DEF ReconcileSettlement
  <2>11. CASE ReconcileAbortQuery
    BY <2>1, <2>11 DEF ReconcileAbortQuery
  <2>12. CASE ReconcileAbort
    BY <2>1, <2>3, <2>12 DEF ReconcileAbort
  <2>13. CASE ReconcileRecovery
    BY <2>6, <2>7, <2>13 DEF ReconcileRecovery, Unrecoverable
  <2>14. CASE ReconcileInterrupted
    BY <2>1, <2>14 DEF ReconcileInterrupted
  <2>15. CASE OfflineWindowEnds
    BY <2>1, <2>15 DEF OfflineWindowEnds
  <2> QED
    BY <2>8, <2>9, <2>10, <2>11, <2>12, <2>13, <2>14, <2>15 DEF Reconcile
<1>3. UNCHANGED <<leased, game, finalizations, room, auth, connected>>
  BY DEF Reconcile, ReconcileFinalizations, ReconcileWaiting, ReconcileSettlement,
         ReconcileAbortQuery, ReconcileAbort, ReconcileRecovery, ReconcileInterrupted,
         OfflineWindowEnds, durableVars, roomVars
<1>4. FlagsOK'
  BY <1>1, <1>3 DEF FlagsOK, Reconcile, ReconcileFinalizations, ReconcileWaiting, ReconcileSettlement,
         ReconcileAbortQuery, ReconcileAbort, ReconcileRecovery, ReconcileInterrupted, ReconStep,
         OfflineWindowEnds
<1> QED
  BY <1>2, <1>3, <1>4, ApiStep

-----------------------------------------------------------------------------
(* The steps of the room that touch neither the API nor the durable game.  *)
LEMMA PendingKept ==
  ASSUME ApiInv, UNCHANGED apiVars, UNCHANGED <<game, finalizations>>
  PROVE  /\ PendingFinalizations' = PendingFinalizations /\ (Gameplay' <=> Gameplay)
         /\ Issued' = Issued /\ session' = session
<1>1. Issued' = Issued /\ Reserved' = Reserved /\ session' = session
  BY SameApi DEF apiVars
<1> QED
  BY <1>1 DEF PendingFinalizations, Gameplay

LEMMA RoomOnly ==
  ASSUME SessionInv, UNCHANGED <<apiVars, game, finalizations>>, FlagsOK', PlayersOK', RoomInv'
  PROVE  SessionInv'
<1>1. ApiInv /\ DurableInv /\ UNCHANGED apiVars
  BY InvParts
<1>2. ApiInv' /\ ApiMoves
  BY <1>1, SameApi
<1>3. DurableInv'
  BY <1>1, <1>2, DurableKept
<1> QED
  BY <1>2, <1>3, InvPartsNext

LEMMA RoomDownFacts ==
  /\ RoomDown \in RoomRow /\ RoomDown.phase = "down" /\ RoomDown.call = "none" /\ ~RoomDown.starting
  /\ ~RoomDown.published /\ RoomDown.fin = NoFin
  /\ Serving \in RoomRow /\ Serving.phase = "up" /\ Serving.call = "none" /\ ~Serving.starting
  /\ ~Serving.published /\ Serving.fin = NoFin
  /\ NoFin \in FinRow /\ ~NoFin.stored
<1>1. NoFin \in FinRow /\ ~NoFin.stored
  BY BoundsAssumption DEF NoFin, FinRow
<1>2. NoBoot \in BootRow
  BY DEF NoBoot, BootRow, EmptySeats, Sessions
<1>3. RoomDown \in RoomRow
  BY <1>1, <1>2 DEF RoomDown, RoomRow
<1>4. /\ RoomDown.phase = "down" /\ RoomDown.call = "none" /\ ~RoomDown.starting
      /\ ~RoomDown.published /\ RoomDown.fin = NoFin
  BY DEF RoomDown
<1>5. /\ Serving \in RoomRow /\ Serving.phase = "up" /\ Serving.call = "none"
      /\ ~Serving.starting /\ ~Serving.published /\ Serving.fin = NoFin
  BY <1>3, <1>4 DEF Serving, RoomRow
<1> QED
  BY <1>1, <1>3, <1>4, <1>5

(* A room that has nothing to decide. *)
LEMMA IdleRoomIsSound ==
  ASSUME room'.call = "none", ~room'.starting, ~room'.published, room'.fin = NoFin
  PROVE  RoomIsSound'
BY RoomDownFacts DEF RoomIsSound

LEMMA BootstrapSeatsFacts ==
  ASSUME ApiInv, 1 \in Seated
  PROVE  BootstrapSeats \in [SeatIndexes -> Ids \cup {0}] /\ \E s \in SeatIndexes : BootstrapSeats[s] = 1
<1>1. /\ Seated \subseteq Ids /\ 0 \in SeatIndexes
      /\ admissions[1].seat = 0 /\ \A i \in Seated : admissions[i].seat = 0 => i = 1
  BY IssuedFacts, BoundsAssumption DEF ApiInv, SeatsAreKept, Seated, SeatIndexes
<1>2. ASSUME NEW s \in SeatIndexes PROVE BootstrapSeats[s] \in Ids \cup {0}
  <2>1. CASE \E i \in Seated : admissions[i].seat = s
    <3>1. (CHOOSE i \in Seated : admissions[i].seat = s) \in Seated
      BY <2>1, Zenon
    <3>2. BootstrapSeats[s] = CHOOSE i \in Seated : admissions[i].seat = s
      BY <2>1 DEF BootstrapSeats
    <3> QED
      BY <1>1, <3>1, <3>2
  <2>2. CASE ~\E i \in Seated : admissions[i].seat = s
    BY <2>2 DEF BootstrapSeats
  <2> QED
    BY <2>1, <2>2
<1>3. BootstrapSeats[0] = 1
  <2>1. \E i \in Seated : admissions[i].seat = 0
    BY <1>1
  <2>2. (CHOOSE i \in Seated : admissions[i].seat = 0) \in Seated
        /\ admissions[CHOOSE i \in Seated : admissions[i].seat = 0].seat = 0
    BY <2>1, Zenon
  <2>3. BootstrapSeats[0] = CHOOSE i \in Seated : admissions[i].seat = 0
    BY <1>1, <2>1 DEF BootstrapSeats
  <2> QED
    BY <1>1, <2>2, <2>3
<1> QED
  BY <1>1, <1>2, <1>3 DEF BootstrapSeats

(* onCreate up to its second bootstrap, and its failures. *)
LEMMA CreateActions ==
  ASSUME SessionInv, Probe \/ AcquireLease \/ Bootstrap \/ CreateFails
  PROVE  SessionInv'
<1>1. ApiInv /\ DurableInv /\ FlagsOK /\ PlayersOK /\ RoomInv
  BY InvParts
<1>2. UNCHANGED <<apiVars, game, finalizations, recon, offline, auth, connected>> /\ leased' \in BOOLEAN
  BY <1>1 DEF Probe, AcquireLease, Bootstrap, CreateFails, durableVars, FlagsOK
<1>3. PendingFinalizations' = PendingFinalizations /\ Issued' = Issued /\ session' = session
  BY <1>1, <1>2, PendingKept
<1>4. FlagsOK' /\ PlayersOK'
  BY <1>1, <1>2, <1>3 DEF FlagsOK, PlayersOK, KnownPlayers
<1>5. room \in RoomRow
  BY <1>1 DEF RoomInv
<1>6. room.phase # "up" => room.call = "none" /\ ~room.starting /\ ~room.published /\ room.fin = NoFin
  BY <1>1 DEF RoomInv, RoomIsSound
<1>7. CASE Probe \/ AcquireLease
  <2>1. PICK p \in {"probed", "leased"} : room' = [room EXCEPT !.phase = p]
    BY <1>7 DEF Probe, AcquireLease
  <2>2. room.phase \in {"down", "probed"} /\ session # "none"
    BY <1>1, <1>7 DEF Probe, AcquireLease, BootstrapAnswers, RoomInv
  <2>3. /\ room' \in RoomRow /\ room'.phase = p /\ room'.call = "none" /\ ~room'.starting
        /\ ~room'.published /\ room'.fin = NoFin
    BY <1>5, <1>6, <2>1, <2>2 DEF RoomRow
  <2>4. RoomInv'
    BY <1>3, <2>2, <2>3, IdleRoomIsSound DEF RoomInv, PendingIsHeld
  <2> QED
    BY <1>2, <1>4, <2>4, RoomOnly
<1>8. CASE Bootstrap
  <2> DEFINE boot == [session |-> session, seats |-> BootstrapSeats]
  <2>1. /\ room.phase = "leased" /\ PendingFinalizations = {} /\ session # "none" /\ 1 \in Seated
        /\ room' = [room EXCEPT !.phase = "booted", !.boot = boot]
    BY <1>8 DEF Bootstrap, BootstrapAnswers
  <2>2. boot \in BootRow /\ \E s \in SeatIndexes : boot.seats[s] = 1
    BY <1>1, <2>1, BootstrapSeatsFacts DEF BootRow, ApiInv, ApiTypeOK
  <2> HIDE DEF boot
  <2>3. /\ room' \in RoomRow /\ room'.phase = "booted" /\ room'.call = "none" /\ ~room'.starting
        /\ ~room'.published /\ room'.fin = NoFin /\ room'.boot = boot
    BY <1>5, <1>6, <2>1, <2>2 DEF RoomRow
  <2>4. RoomInv'
    BY <1>3, <2>1, <2>2, <2>3, IdleRoomIsSound DEF RoomInv, PendingIsHeld
  <2> QED
    BY <1>2, <1>4, <2>4, RoomOnly
<1>9. CASE CreateFails
  <2>1. room' = RoomDown
    BY <1>9 DEF CreateFails
  <2>2. RoomInv'
    BY <2>1, RoomDownFacts, IdleRoomIsSound DEF RoomInv, PendingIsHeld
  <2> QED
    BY <1>2, <1>4, <2>2, RoomOnly
<1> QED
  BY <1>7, <1>8, <1>9

LEMMA RoomUnchanged ==
  ASSUME ApiInv, RoomInv, UNCHANGED <<apiVars, game, finalizations, room>>
  PROVE  RoomInv'
<1>1. /\ PendingFinalizations' = PendingFinalizations /\ (Gameplay' <=> Gameplay)
      /\ Issued' = Issued /\ session' = session
  BY PendingKept
<1>2. RoomIsSound'
  BY <1>1 DEF RoomInv, RoomIsSound, PendingRequest
<1>3. PendingIsHeld'
  BY <1>1 DEF RoomInv, PendingIsHeld, PendingRequest
<1> QED
  BY <1>1, <1>2, <1>3 DEF RoomInv

(* onAuth, onJoin and onLeave as far as they change no durable state. *)
LEMMA AuthActions ==
  ASSUME SessionInv, NEW i \in Ids, AuthBootstrap(i) \/ AuthFails(i) \/ onJoin(i) \/ detachClient(i)
  PROVE  SessionInv'
<1>1. ApiInv /\ DurableInv /\ FlagsOK /\ PlayersOK /\ RoomInv
  BY InvParts
<1>2. UNCHANGED <<apiVars, game, finalizations, recon, leased, room>>
  BY DEF AuthBootstrap, AuthFails, onJoin, detachClient, durableVars
<1>3. FlagsOK'
  BY <1>1, <1>2 DEF FlagsOK, AuthBootstrap, AuthFails, onJoin, detachClient
<1>4. Issued' = Issued
  BY <1>1, <1>2, PendingKept
<1>5. PlayersOK'
  <2>1. CASE AuthBootstrap(i) \/ AuthFails(i)
    <3>1. auth[i] # "none" /\ connected' = connected
      BY <2>1 DEF AuthBootstrap, AuthFails
    <3>2. PICK stage \in {"none", "bootstrapped"} : auth' = [auth EXCEPT ![i] = stage]
      BY <2>1 DEF AuthBootstrap, AuthFails, SetAuth
    <3> QED
      BY <1>1, <1>4, <3>1, <3>2 DEF PlayersOK, KnownPlayers
  <2>2. CASE onJoin(i)
    BY <1>1, <1>4, <2>2 DEF PlayersOK, KnownPlayers, onJoin, SetAuth
  <2>3. CASE detachClient(i)
    BY <1>1, <1>4, <2>3 DEF PlayersOK, KnownPlayers, detachClient
  <2> QED
    BY <2>1, <2>2, <2>3
<1>6. RoomInv'
  BY <1>1, <1>2, RoomUnchanged
<1> QED
  BY <1>2, <1>3, <1>5, <1>6, RoomOnly

(* Room commands before anything is durable, their retries and failures.   *)
LEMMA CommandActions ==
  ASSUME SessionInv,
         \/ RejectStart \/ RetryStart \/ RejectFinalization \/ RetryFinalization \/ CommandFails
         \/ \E i \in Ids : \/ BeginStart(i) \/ BeginFinalization(i, "leave")
                           \/ BeginFinalization(i, "cancel")
  PROVE  SessionInv'
<1>1. ApiInv /\ DurableInv /\ FlagsOK /\ PlayersOK /\ RoomInv
  BY InvParts
<1>2. UNCHANGED <<apiVars, game, finalizations, recon, leased, offline, auth, connected>>
  BY DEF RejectStart, RetryStart, RejectFinalization, RetryFinalization, CommandFails, BeginStart,
         BeginFinalization, RoomStep, durableVars
<1>3. /\ PendingFinalizations' = PendingFinalizations /\ (Gameplay' <=> Gameplay)
      /\ Issued' = Issued /\ session' = session
  BY <1>1, <1>2, PendingKept
<1>4. FlagsOK' /\ PlayersOK'
  BY <1>1, <1>2, <1>3 DEF FlagsOK, PlayersOK, KnownPlayers
<1>5. room \in RoomRow /\ RoomIsSound /\ PendingIsHeld
  BY <1>1 DEF RoomInv
<1>6. /\ room.phase = "up" /\ room'.phase = "up" /\ room'.boot = room.boot
      /\ room' \in RoomRow /\ RoomIsSound' /\ PendingIsHeld'
  <2>1. CASE RejectStart
    <3>1. /\ room.call \in {"start", "no start"}
          /\ room' = [room EXCEPT !.call = "none", !.starting = FALSE]
      BY <2>1 DEF RejectStart, RoomStep
    <3>2. room.phase = "up" /\ ~room.published /\ room.fin = NoFin
      BY <1>5, <3>1 DEF RoomIsSound
    <3>3. /\ room' \in RoomRow /\ room'.phase = "up" /\ room'.boot = room.boot /\ room'.call = "none"
          /\ ~room'.starting /\ ~room'.published /\ room'.fin = NoFin
      BY <1>5, <3>1, <3>2 DEF RoomRow
    <3>4. PendingFinalizations = {}
      BY <1>5, <3>2, RoomDownFacts DEF PendingIsHeld
    <3> QED
      BY <1>3, <3>2, <3>3, <3>4, IdleRoomIsSound DEF PendingIsHeld
  <2>2. CASE RetryStart
    <3>1. /\ room.phase = "up" /\ room.call = "none" /\ room.published
          /\ room' = [room EXCEPT !.call = "started"]
      BY <2>2 DEF RetryStart, RoomStep, QueueFree
    <3>2. room.starting /\ room.fin = NoFin /\ Gameplay
      BY <1>5, <3>1 DEF RoomIsSound
    <3>3. /\ room' \in RoomRow /\ room'.phase = "up" /\ room'.boot = room.boot /\ room'.call = "started"
          /\ room'.starting /\ room'.published /\ room'.fin = NoFin
      BY <1>5, <3>1, <3>2 DEF RoomRow
    <3>4. PendingFinalizations = {}
      BY <1>5, <3>1, <3>2, RoomDownFacts DEF PendingIsHeld
    <3> QED
      BY <1>3, <3>1, <3>2, <3>3, <3>4, RoomDownFacts DEF PendingIsHeld, RoomIsSound
  <2>3. CASE RejectFinalization
    <3>1. /\ room.call = "finalization"
          /\ room' = [room EXCEPT !.call = "none", !.fin = NoFin]
      BY <2>3 DEF RejectFinalization, RoomStep
    <3>2. /\ room.phase = "up" /\ ~room.published /\ ~room.starting /\ ~room.fin.stored
      BY <1>5, <3>1 DEF RoomIsSound
    <3>3. /\ room' \in RoomRow /\ room'.phase = "up" /\ room'.boot = room.boot /\ room'.call = "none"
          /\ ~room'.starting /\ ~room'.published /\ room'.fin = NoFin
      BY <1>5, <3>1, <3>2, RoomDownFacts DEF RoomRow
    <3>4. PendingFinalizations = {}
      BY <1>5, <3>2 DEF PendingIsHeld
    <3> QED
      BY <1>3, <3>2, <3>3, <3>4, IdleRoomIsSound DEF PendingIsHeld
  <2>4. CASE RetryFinalization
    <3>1. PICK c \in {"finalize", "finalization"} :
            /\ c = IF room.fin.stored THEN "finalize" ELSE "finalization"
            /\ room.phase = "up" /\ room.call = "none" /\ room.fin # NoFin
            /\ room' = [room EXCEPT !.call = c]
      BY <2>4 DEF RetryFinalization, RoomStep, QueueFree
    <3>2. /\ room' \in RoomRow /\ room'.phase = "up" /\ room'.boot = room.boot /\ room'.call = c
          /\ room'.starting = room.starting /\ room'.published = room.published /\ room'.fin = room.fin
      BY <1>5, <3>1 DEF RoomRow
    <3>3. PendingRequest' = PendingRequest
      BY <3>2 DEF PendingRequest
    <3>4. RoomIsSound'
      BY <1>2, <1>3, <1>5, <3>1, <3>2, <3>3 DEF RoomIsSound
    <3>5. PendingIsHeld'
      BY <1>3, <1>5, <3>1, <3>2, <3>3 DEF PendingIsHeld
    <3> QED
      BY <3>1, <3>2, <3>4, <3>5
  <2>5. CASE CommandFails
    <3>1. room.call # "none" /\ room' = [room EXCEPT !.call = "none"]
      BY <2>5 DEF CommandFails, RoomStep
    <3>2. room.phase = "up"
      BY <1>5, <3>1 DEF RoomIsSound
    <3>3. /\ room' \in RoomRow /\ room'.phase = "up" /\ room'.boot = room.boot /\ room'.call = "none"
          /\ room'.starting = room.starting /\ room'.published = room.published /\ room'.fin = room.fin
      BY <1>5, <3>1, <3>2 DEF RoomRow
    <3>4. PendingRequest' = PendingRequest
      BY <3>3 DEF PendingRequest
    <3>5. RoomIsSound'
      BY <1>2, <1>3, <1>5, <3>2, <3>3, <3>4 DEF RoomIsSound
    <3>6. PendingIsHeld'
      BY <1>3, <1>5, <3>2, <3>3, <3>4 DEF PendingIsHeld
    <3> QED
      BY <3>2, <3>3, <3>5, <3>6
  <2>6. ASSUME NEW i \in Ids, BeginStart(i)
        PROVE  /\ room.phase = "up" /\ room'.phase = "up" /\ room'.boot = room.boot
               /\ room' \in RoomRow /\ RoomIsSound' /\ PendingIsHeld'
    <3>1. PICK c \in {"start", "no start"} :
            /\ room.phase = "up" /\ room.call = "none" /\ ~room.starting /\ room.fin = NoFin
            /\ room' = [room EXCEPT !.starting = TRUE, !.call = c]
      BY <2>6 DEF BeginStart, RoomStep, QueueFree, OpenForCommands, Undecided
    <3>2. ~room.published
      BY <1>5, <3>1 DEF RoomIsSound
    <3>3. /\ room' \in RoomRow /\ room'.phase = "up" /\ room'.boot = room.boot /\ room'.call = c
          /\ room'.starting /\ ~room'.published /\ room'.fin = NoFin
      BY <1>5, <3>1, <3>2 DEF RoomRow
    <3>4. PendingFinalizations = {}
      BY <1>5, <3>1, RoomDownFacts DEF PendingIsHeld
    <3> QED
      BY <1>3, <3>1, <3>2, <3>3, <3>4, RoomDownFacts DEF PendingIsHeld, RoomIsSound
  <2>7. ASSUME NEW i \in Ids, NEW action \in {"leave", "cancel"}, BeginFinalization(i, action)
        PROVE  /\ room.phase = "up" /\ room'.phase = "up" /\ room'.boot = room.boot
               /\ room' \in RoomRow /\ RoomIsSound' /\ PendingIsHeld'
    <3>1. PICK n \in 1 .. MaxRequests :
            /\ room.phase = "up" /\ room.call = "none" /\ ~room.starting /\ room.fin = NoFin
            /\ i \in connected
            /\ room' = [room EXCEPT !.call = "finalization",
                          !.fin = [id |-> i, action |-> action, n |-> n, stored |-> FALSE]]
      <4> DEFINE m == 1 + Cardinality({f \in finalizations : f.id = i /\ f.action = action})
      <4>1. m \in 1 .. MaxRequests
        <5>1. IsFiniteSet({f \in finalizations : f.id = i /\ f.action = action})
          BY <1>1, FS_Subset DEF DurableInv, FinalizationRows
        <5>2. Cardinality({f \in finalizations : f.id = i /\ f.action = action}) \in Nat
          BY <5>1, FS_CardinalityType
        <5>3. m <= MaxRequests
          BY <2>7 DEF BeginFinalization
        <5> QED
          BY <5>2, <5>3, BoundsAssumption
      <4>2. /\ room.phase = "up" /\ room.call = "none" /\ ~room.starting /\ room.fin = NoFin
            /\ i \in connected
            /\ room' = [room EXCEPT !.call = "finalization",
                          !.fin = [id |-> i, action |-> action, n |-> m, stored |-> FALSE]]
        BY <2>7 DEF BeginFinalization, RoomStep, QueueFree, OpenForCommands, Undecided
      <4> HIDE DEF m
      <4> QED
        BY <4>1, <4>2
    <3> DEFINE fin == [id |-> i, action |-> action, n |-> n, stored |-> FALSE]
    <3>2. ~room.published
      BY <1>5, <3>1 DEF RoomIsSound
    <3>3. /\ fin \in FinRow /\ fin # NoFin /\ ~fin.stored /\ fin.id = i
          /\ [id |-> fin.id, action |-> fin.action, n |-> fin.n] \in Finalization
      <4>1. fin.action # NoFin.action
        BY DEF NoFin
      <4> QED
        BY <4>1, BoundsAssumption DEF FinRow, Finalization
    <3> HIDE DEF fin
    <3>4. /\ room' \in RoomRow /\ room'.phase = "up" /\ room'.boot = room.boot
          /\ room'.call = "finalization"
          /\ ~room'.starting /\ ~room'.published /\ room'.fin = fin
      BY <1>5, <3>1, <3>2, <3>3 DEF RoomRow, fin
    <3>5. PendingFinalizations = {}
      BY <1>5, <3>1, RoomDownFacts DEF PendingIsHeld
    <3>6. PendingRequest' \in Finalization /\ i \in Issued
      BY <1>1, <3>1, <3>3, <3>4 DEF PendingRequest, PlayersOK
    <3>7. RoomIsSound'
      BY <1>3, <3>3, <3>4, <3>6 DEF RoomIsSound
    <3> QED
      BY <1>3, <3>1, <3>4, <3>5, <3>7 DEF PendingIsHeld
  <2> QED
    BY <2>1, <2>2, <2>3, <2>4, <2>5, <2>6, <2>7
<1>7. session # "none"
  BY <1>1, <1>6 DEF RoomInv
<1>8. RoomInv'
  BY <1>3, <1>6, <1>7 DEF RoomInv
<1> QED
  BY <1>2, <1>4, <1>8, RoomOnly

-----------------------------------------------------------------------------
(* The steps that change the durable game and nothing at the API: a game   *)
(* that is played stays played, a proof stays what it is, and the creator  *)
(* keeps a seat.                                                           *)
GameMoves ==
  /\ game' \in GameRow
  /\ game'.status # "none" => 1 \in InGame'
  /\ Gameplay => Gameplay'
  /\ HasProof => HasProof' /\ game'.winner = game.winner
  /\ game'.status = "cancelled" => game.status = "cancelled"

LEMMA GameStep ==
  ASSUME ApiInv, DurableInv, session # "none", UNCHANGED <<apiVars, finalizations>>, GameMoves
  PROVE  /\ ApiInv' /\ DurableInv' /\ PendingFinalizations' = PendingFinalizations
         /\ Issued' = Issued /\ session' = session
<1>1. /\ ApiInv' /\ Issued' = Issued /\ Reserved' = Reserved /\ Captured' = Captured
      /\ session' = session /\ settlement' = settlement /\ finalized' = finalized
      /\ finalizations' = finalizations
  BY SameApi DEF apiVars
<1>2. PendingFinalizations' = PendingFinalizations
  BY <1>1 DEF PendingFinalizations
<1>3. FinalizationRows' /\ LeaversDoNotPay'
  BY <1>1 DEF DurableInv, FinalizationRows, LeaversDoNotPay, GameMoves
<1>4. DurableInv'
  BY <1>1, <1>3 DEF DurableInv, GameMoves
<1> QED
  BY <1>1, <1>2, <1>4

LEMMA SeatTaken ==
  ASSUME DurableInv, game.status # "none", NEW s \in SeatIndexes, game.seats[s] = 0, NEW i \in Ids,
         game' = [game EXCEPT !.seats[s] = i]
  PROVE  GameMoves
<1>1. game \in GameRow /\ 1 \in InGame
  BY DEF DurableInv
<1> DEFINE seats == [game.seats EXCEPT ![s] = i]
<1>2. seats \in [SeatIndexes -> Ids \cup {0}] /\ \A t \in SeatIndexes \ {s} : seats[t] = game.seats[t]
  BY <1>1 DEF GameRow
<1>3. game' = [game EXCEPT !.seats = seats]
  OBVIOUS
<1> HIDE DEF seats
<1>4. /\ game' \in GameRow /\ game'.status = game.status /\ game'.winner = game.winner
      /\ game'.seats = seats
  BY <1>1, <1>2, <1>3 DEF GameRow
<1>5. 1 \in InGame'
  <2>1. PICK t \in SeatIndexes : game.seats[t] = 1
    BY <1>1 DEF InGame
  <2>2. game'.seats[t] = 1
    BY <1>2, <1>4, <2>1
  <2> QED
    BY <2>2 DEF InGame
<1> QED
  BY <1>4, <1>5 DEF GameMoves, Gameplay, HasProof

LEMMA FreeSeatIsEmpty ==
  ASSUME FreeSeats(GameTaken) # {}
  PROVE  FirstFree(GameTaken) \in SeatIndexes /\ game.seats[FirstFree(GameTaken)] = 0
BY FirstFreeIsFree DEF GameTaken

(* The room of such a step is the same, or a new one that serves the game. *)
LEMMA GameActionsKeep ==
  ASSUME SessionInv, session # "none", UNCHANGED <<apiVars, finalizations, recon, leased, offline>>,
         GameMoves, PlayersOK', room' = room
  PROVE  SessionInv'
<1>1. ApiInv /\ DurableInv /\ FlagsOK /\ RoomInv
  BY InvParts
<1>2. /\ ApiInv' /\ DurableInv' /\ PendingFinalizations' = PendingFinalizations
      /\ Issued' = Issued /\ session' = session /\ finalizations' = finalizations
  BY <1>1, GameStep
<1>3. RoomIsSound'
  BY <1>1, <1>2 DEF RoomInv, RoomIsSound, PendingRequest, GameMoves
<1>4. PendingIsHeld'
  BY <1>1, <1>2 DEF RoomInv, PendingIsHeld, PendingRequest
<1>5. RoomInv'
  BY <1>1, <1>2, <1>3, <1>4 DEF RoomInv
<1>6. FlagsOK'
  BY <1>1 DEF FlagsOK
<1> QED
  BY <1>2, <1>5, <1>6, InvPartsNext

LEMMA InitializeAction ==
  ASSUME SessionInv, InitializeGame
  PROVE  SessionInv'
<1>1. ApiInv /\ DurableInv /\ FlagsOK /\ PlayersOK /\ RoomInv
  BY InvParts
<1>2. /\ room.phase = "booted" /\ game.status = "none" /\ room' = Serving
      /\ game' = [game EXCEPT !.status = "waiting", !.seats = room.boot.seats]
      /\ UNCHANGED <<apiVars, recon, leased, finalizations, offline, auth, connected>>
  BY DEF InitializeGame
<1>3. /\ session # "none" /\ room.boot.seats \in [SeatIndexes -> Ids \cup {0}]
      /\ (\E s \in SeatIndexes : room.boot.seats[s] = 1) /\ PendingFinalizations = {}
  BY <1>1, <1>2 DEF RoomInv, RoomRow, BootRow, PendingIsHeld
<1>4. GameMoves
  <2>1. game \in GameRow
    BY <1>1 DEF DurableInv
  <2>2. game' \in GameRow /\ game'.status = "waiting" /\ game'.seats = room.boot.seats
    BY <1>2, <1>3, <2>1 DEF GameRow
  <2>3. 1 \in InGame'
    BY <1>3, <2>2 DEF InGame
  <2> QED
    BY <1>2, <2>2, <2>3 DEF GameMoves, Gameplay, HasProof
<1>5. /\ ApiInv' /\ DurableInv' /\ PendingFinalizations' = {} /\ Issued' = Issued
      /\ session' = session
  BY <1>1, <1>2, <1>3, <1>4, GameStep
<1>6. RoomInv'
  BY <1>2, <1>3, <1>5, RoomDownFacts, IdleRoomIsSound DEF RoomInv, PendingIsHeld
<1>7. FlagsOK' /\ PlayersOK'
  BY <1>1, <1>2, <1>5 DEF FlagsOK, PlayersOK, KnownPlayers
<1> QED
  BY <1>5, <1>6, <1>7, InvPartsNext

(* A player sits down in a waiting game, or a game ends. *)
LEMMA PlayActions ==
  ASSUME SessionInv, NEW i \in Ids, ensureAdmittedPlayer(i) \/ JoinAgain(i) \/ FinishGame(i)
  PROVE  SessionInv'
<1>1. ApiInv /\ DurableInv /\ FlagsOK /\ PlayersOK /\ RoomInv
  BY InvParts
<1>2. /\ UNCHANGED <<apiVars, finalizations, recon, leased, offline>> /\ room' = room
      /\ connected' = connected
  BY DEF ensureAdmittedPlayer, JoinAgain, FinishGame, roomVars
<1>3. Issued' = Issued
  BY <1>1, <1>2, SameApi
<1>4. session # "none"
  <2>1. CASE JoinAgain(i) \/ FinishGame(i)
    BY <1>1, <2>1 DEF JoinAgain, FinishGame, OpenForCommands, QueueFree, RoomInv
  <2>2. CASE ensureAdmittedPlayer(i)
    <3>1. i \in Issued
      BY <1>1, <2>2 DEF ensureAdmittedPlayer, PlayersOK, KnownPlayers
    <3> QED
      BY <1>1, <3>1 DEF ApiInv, OutcomeIsKept, Issued
  <2> QED
    BY <2>1, <2>2
<1>5. PlayersOK'
  <2>1. CASE auth' = auth
    BY <1>1, <1>2, <1>3, <2>1 DEF PlayersOK, KnownPlayers
  <2>2. CASE /\ auth[i] = "bootstrapped"
             /\ \E stage \in {"none", "admitted"} : auth' = [auth EXCEPT ![i] = stage]
    BY <1>1, <1>2, <1>3, <2>2 DEF PlayersOK, KnownPlayers
  <2> QED
    BY <2>1, <2>2 DEF ensureAdmittedPlayer, JoinAgain, FinishGame, SetAuth, roomVars
<1>6. GameMoves
  <2>1. CASE game' = game
    BY <1>1, <2>1 DEF GameMoves, DurableInv, Gameplay, HasProof, InGame
  <2>2. CASE /\ game.status = "waiting"
             /\ \E s \in SeatIndexes : game.seats[s] = 0 /\ game' = [game EXCEPT !.seats[s] = i]
    BY <1>1, <2>2, SeatTaken
  <2>3. CASE ensureAdmittedPlayer(i)
    BY <2>1, <2>2, <2>3, FreeSeatIsEmpty DEF ensureAdmittedPlayer, AdmitSeat
  <2>4. CASE JoinAgain(i)
    BY <2>2, <2>4, FreeSeatIsEmpty DEF JoinAgain
  <2>5. CASE FinishGame(i)
    <3>1. /\ game.status = "inProgress"
          /\ game' = [game EXCEPT !.status = "finished", !.winner = i,
                                  !.afterRecovery = (session = "recovery_required")]
      BY <2>5 DEF FinishGame
    <3>2. game \in GameRow /\ 1 \in InGame
      BY <1>1, <3>1 DEF DurableInv
    <3>3. game' \in GameRow /\ game'.status = "finished" /\ game'.seats = game.seats
      BY <3>1, <3>2 DEF GameRow
    <3> QED
      BY <3>1, <3>2, <3>3 DEF GameMoves, Gameplay, HasProof, InGame
  <2> QED
    BY <2>3, <2>4, <2>5
<1> QED
  BY <1>2, <1>4, <1>5, <1>6, GameActionsKeep

LEMMA CommitStartAction ==
  ASSUME SessionInv, CommitStart
  PROVE  SessionInv'
<1>1. ApiInv /\ DurableInv /\ FlagsOK /\ PlayersOK /\ RoomInv
  BY InvParts
<1>2. /\ room.call = "start" /\ game.status = "waiting"
      /\ game' = [game EXCEPT !.status = "inProgress"]
      /\ UNCHANGED <<apiVars, recon, leased, finalizations, offline, auth, connected>>
      /\ \/ room' = [room EXCEPT !.call = "started", !.published = TRUE]
         \/ room' = [room EXCEPT !.call = "none"]
  BY DEF CommitStart, RoomStep
<1>3. /\ room \in RoomRow /\ room.phase = "up" /\ room.starting /\ ~room.published /\ room.fin = NoFin
      /\ session # "none"
  BY <1>1, <1>2 DEF RoomInv, RoomIsSound
<1>4. PendingFinalizations = {}
  BY <1>1, <1>3, RoomDownFacts DEF RoomInv, PendingIsHeld
<1>5. GameMoves /\ Gameplay'
  <2>1. game \in GameRow /\ 1 \in InGame
    BY <1>1, <1>2 DEF DurableInv
  <2>2. game' \in GameRow /\ game'.status = "inProgress" /\ game'.seats = game.seats
    BY <1>2, <2>1 DEF GameRow
  <2> QED
    BY <1>2, <2>1, <2>2 DEF GameMoves, Gameplay, HasProof, InGame
<1>6. /\ ApiInv' /\ DurableInv' /\ PendingFinalizations' = {} /\ Issued' = Issued
      /\ session' = session
  BY <1>1, <1>2, <1>3, <1>4, <1>5, GameStep
<1>7. /\ room' \in RoomRow /\ room'.phase = "up" /\ room'.starting /\ room'.fin = NoFin
      /\ room'.call \in {"started", "none"}
  BY <1>2, <1>3 DEF RoomRow
<1>8. RoomIsSound'
  BY <1>5, <1>7, RoomDownFacts DEF RoomIsSound
<1>9. RoomInv'
  BY <1>3, <1>6, <1>7, <1>8 DEF RoomInv, PendingIsHeld
<1>10. FlagsOK' /\ PlayersOK'
  BY <1>1, <1>2, <1>6 DEF FlagsOK, PlayersOK, KnownPlayers
<1> QED
  BY <1>6, <1>9, <1>10, InvPartsNext

-----------------------------------------------------------------------------
(* The steps in which room and API meet.                                   *)
LEMMA ConsumeAction ==
  ASSUME SessionInv, NEW i \in Ids, consumeTicket(i)
  PROVE  SessionInv'
<1>1. ApiInv /\ DurableInv /\ FlagsOK /\ PlayersOK /\ RoomInv
  BY InvParts
<1>2. ApiInv' /\ ApiMoves /\ i \in Issued
  BY <1>1, ConsumeMoves
<1>3. UNCHANGED <<recon, leased, offline, game, finalizations, room>>
  BY DEF consumeTicket, durableVars
<1>4. DurableInv' /\ RoomInv'
  BY <1>1, <1>2, <1>3, DurableKept, RoomKept
<1>5. FlagsOK'
  BY <1>1, <1>3 DEF FlagsOK
<1>6. PlayersOK'
  <2>1. auth' = [auth EXCEPT ![i] = "consumed"] /\ connected' = connected
    BY DEF consumeTicket, SetAuth
  <2>2. Issued \subseteq Issued'
    BY <1>2 DEF ApiMoves
  <2> QED
    BY <1>1, <1>2, <2>1, <2>2 DEF PlayersOK, KnownPlayers
<1> QED
  BY <1>2, <1>4, <1>5, <1>6, InvPartsNext

LEMMA GoneAction ==
  ASSUME SessionInv, RoomGone
  PROVE  SessionInv'
<1>1. ApiInv /\ DurableInv /\ FlagsOK
  BY InvParts
<1>2. ApiInv' /\ ApiMoves
  BY <1>1, GoneMoves
<1>3. /\ UNCHANGED <<recon, leased, offline, game, finalizations>>
      /\ room' = RoomDown /\ auth' = NoAuth /\ connected' = {}
  BY DEF RoomGone, durableVars
<1>4. DurableInv'
  BY <1>1, <1>2, <1>3, DurableKept
<1>5. FlagsOK' /\ PlayersOK'
  BY <1>1, <1>3 DEF FlagsOK, PlayersOK, KnownPlayers, NoAuth
<1>6. RoomInv'
  BY <1>3, RoomDownFacts, IdleRoomIsSound DEF RoomInv, PendingIsHeld
<1> QED
  BY <1>2, <1>4, <1>5, <1>6, InvPartsNext

LEMMA LoadAction ==
  ASSUME SessionInv, LoadGame
  PROVE  SessionInv'
<1>1. ApiInv /\ DurableInv /\ FlagsOK /\ PlayersOK /\ RoomInv
  BY InvParts
<1>2. /\ UNCHANGED <<accountVars, admissions, settlement, finalized>>
      /\ UNCHANGED <<recon, leased, offline, game, finalizations, auth, connected>>
      /\ room.phase = "booted" /\ room' = Serving
  BY DEF LoadGame, durableVars
<1>3. session # "none" /\ PendingFinalizations = {}
  BY <1>1, <1>2 DEF RoomInv, PendingIsHeld
<1>4. ApiInv' /\ ApiMoves
  <2>1. CASE UNCHANGED session
    BY <1>1, <1>2, <2>1, SameApi DEF apiVars
  <2>2. CASE Gameplay /\ markStarted(TRUE)
    BY <1>1, <1>2, <1>3, <2>2, StartMoves
  <2> QED
    BY <2>1, <2>2 DEF LoadGame
<1>5. DurableInv' /\ PendingFinalizations' = {} /\ session' # "none"
  BY <1>1, <1>2, <1>3, <1>4, DurableKept
<1>6. PlayersOK'
  BY <1>1, <1>2, <1>4, PlayersKept
<1>7. FlagsOK'
  BY <1>1, <1>2 DEF FlagsOK
<1>8. RoomInv'
  BY <1>2, <1>5, RoomDownFacts, IdleRoomIsSound DEF RoomInv, PendingIsHeld
<1> QED
  BY <1>4, <1>5, <1>6, <1>7, <1>8, InvPartsNext

LEMMA ReportStartAction ==
  ASSUME SessionInv, ReportStart
  PROVE  SessionInv'
<1>1. ApiInv /\ DurableInv /\ FlagsOK /\ PlayersOK /\ RoomInv
  BY InvParts
<1>2. /\ UNCHANGED <<accountVars, admissions, settlement, finalized>>
      /\ UNCHANGED <<recon, leased, offline, game, finalizations, auth, connected>>
      /\ room.call = "started"
      /\ \/ room' = [room EXCEPT !.call = "none"]
         \/ room' = [room EXCEPT !.call = "none", !.starting = FALSE, !.published = FALSE]
  BY DEF ReportStart, RoomStep, durableVars
<1>3. /\ room \in RoomRow /\ room.phase = "up" /\ room.starting /\ room.fin = NoFin /\ Gameplay
      /\ session # "none"
  BY <1>1, <1>2 DEF RoomInv, RoomIsSound
<1>4. PendingFinalizations = {}
  BY <1>1, <1>3, RoomDownFacts DEF RoomInv, PendingIsHeld
<1>5. PICK started \in BOOLEAN : markStarted(started)
  BY DEF ReportStart
<1>6. ApiInv' /\ ApiMoves
  BY <1>1, <1>2, <1>3, <1>4, <1>5, StartMoves
<1>7. DurableInv' /\ PendingFinalizations' = {} /\ session' # "none"
  BY <1>1, <1>2, <1>3, <1>4, <1>6, DurableKept
<1>8. PlayersOK'
  BY <1>1, <1>2, <1>6, PlayersKept
<1>9. FlagsOK'
  BY <1>1, <1>2 DEF FlagsOK
<1>10. /\ room' \in RoomRow /\ room'.phase = "up" /\ room'.call = "none" /\ room'.fin = NoFin
       /\ room'.published => room'.starting
  BY <1>2, <1>3 DEF RoomRow
<1>11. RoomIsSound'
  <2>1. Gameplay'
    BY <1>2, <1>3 DEF Gameplay
  <2> QED
    BY <1>10, <2>1, RoomDownFacts DEF RoomIsSound
<1>12. RoomInv'
  BY <1>7, <1>10, <1>11 DEF RoomInv, PendingIsHeld
<1> QED
  BY <1>6, <1>7, <1>8, <1>9, <1>12, InvPartsNext

(* The room makes a leave or cancel durable before it tells the API. *)
LEMMA CommitFinalizationAction ==
  ASSUME SessionInv, CommitFinalization
  PROVE  SessionInv'
<1>1. ApiInv /\ DurableInv /\ FlagsOK /\ PlayersOK /\ RoomInv
  BY InvParts
<1>2. PICK reply \in {"finalize", "none"} :
        /\ room.call = "finalization" /\ FinalizationAllowed(room.fin.id, room.fin.action)
        /\ finalizations' = finalizations \cup {PendingRequest}
        /\ room' = [room EXCEPT !.fin.stored = TRUE, !.call = reply]
        /\ UNCHANGED <<apiVars, recon, leased, offline, auth, connected>>
  BY DEF CommitFinalization, RoomStep
<1>3. /\ room \in RoomRow /\ room.phase = "up" /\ room.fin # NoFin /\ ~room.fin.stored
      /\ ~room.starting /\ ~room.published
      /\ PendingRequest \in Finalization /\ room.fin.id \in Issued /\ session # "none"
  BY <1>1, <1>2 DEF RoomInv, RoomIsSound
<1>4. PICK f \in Finalization : f = PendingRequest
  BY <1>3
<1>5. /\ f.id = room.fin.id /\ f.action = room.fin.action /\ f.id \in Issued
      /\ (f.action = "cancel" => f.id = 1) /\ (f.action = "leave" => f.id # 1)
      /\ game.status = "waiting" /\ finalizations' = finalizations \cup {f}
  BY <1>2, <1>3, <1>4 DEF PendingRequest, FinalizationAllowed
<1>6. PendingFinalizations = {}
  BY <1>1, <1>3 DEF RoomInv, PendingIsHeld
<1>7. /\ ApiInv' /\ Issued' = Issued /\ Reserved' = Reserved /\ Captured' = Captured
      /\ session' = session /\ settlement' = settlement /\ finalized' = finalized
  BY <1>1, <1>2, SameApi DEF apiVars
<1>8. session \in {"open", "cancelled"} /\ settlement.kind = "none" /\ Captured = {}
  <2>1. session \in Sessions /\ session \notin {"active", "recovery_required", "settled"}
    BY <1>1, <1>5 DEF DurableInv, Gameplay, ApiInv, ApiTypeOK
  <2>2. session \in {"open", "cancelled"}
    BY <1>3, <2>1 DEF Sessions
  <2> QED
    BY <1>1, <2>2 DEF ApiInv, OutcomeIsKept
<1>9. game' \in GameRow /\ 1 \in InGame'
  <2>1. game \in GameRow /\ 1 \in InGame
    BY <1>1, <1>5 DEF DurableInv
  <2>2. PICK s \in SeatIndexes : game.seats[s] = 1
    BY <2>1 DEF InGame
  <2>3. CASE f.action = "leave"
    <3> DEFINE seats == [t \in SeatIndexes |-> IF game.seats[t] = room.fin.id THEN 0 ELSE game.seats[t]]
    <3>1. seats \in [SeatIndexes -> Ids \cup {0}] /\ seats[s] = 1
      BY <1>5, <2>1, <2>2, <2>3 DEF GameRow
    <3>2. game' = [game EXCEPT !.seats = seats]
      BY <1>5, <2>3 DEF CommitFinalization
    <3> HIDE DEF seats
    <3>3. game' \in GameRow /\ game'.seats[s] = 1
      BY <2>1, <3>1, <3>2 DEF GameRow
    <3> QED
      BY <3>3 DEF InGame
  <2>4. CASE f.action # "leave"
    <3>1. game' = [game EXCEPT !.status = "cancelled"]
      BY <1>5, <2>4 DEF CommitFinalization
    <3>2. game' \in GameRow /\ game'.seats = game.seats
      BY <2>1, <3>1 DEF GameRow
    <3> QED
      BY <2>1, <3>2 DEF InGame
  <2> QED
    BY <2>3, <2>4
<1>10. FinalizationRows'
  <2>1. IsFiniteSet(finalizations')
    BY <1>1, <1>5, FS_AddElement DEF DurableInv, FinalizationRows
  <2> QED
    BY <1>1, <1>5, <1>7, <2>1 DEF DurableInv, FinalizationRows
<1>11. LeaversDoNotPay'
  <2>1. ASSUME NEW g \in finalizations', g.id \in Reserved' \cup Captured'
        PROVE  g \notin finalized' /\ session' = "open"
    <3>1. g.id \in Reserved
      BY <1>7, <1>8, <2>1
    <3>2. session = "open"
      BY <1>1, <1>8, <3>1 DEF ApiInv, OutcomeIsKept
    <3>3. g \notin finalized
      BY <1>1, <3>1 DEF DurableInv, FinalizationRows, LeaversDoNotPay
    <3> QED
      BY <1>7, <3>2, <3>3
  <2> QED
    BY <1>7, <1>8, <2>1 DEF LeaversDoNotPay
<1>12. DurableInv'
  <2>1. session' \notin {"none", "active", "recovery_required", "settled"} /\ settlement'.kind # "completed"
    BY <1>7, <1>8
  <2>2. finalizations' \subseteq Finalization
    BY <1>1, <1>5 DEF DurableInv
  <2> QED
    BY <1>9, <1>10, <1>11, <2>1, <2>2 DEF DurableInv
<1>13. PendingFinalizations' \subseteq {f}
  BY <1>5, <1>6, <1>7 DEF PendingFinalizations
<1>14. /\ room' \in RoomRow /\ room'.phase = "up" /\ room'.call = reply
       /\ ~room'.starting /\ ~room'.published /\ room'.fin.stored
       /\ room'.fin.id = room.fin.id /\ room'.fin.action = room.fin.action /\ room'.fin.n = room.fin.n
  BY <1>2, <1>3 DEF RoomRow, FinRow
<1>15. PendingRequest' = f /\ room'.fin # NoFin
  BY <1>4, <1>14, RoomDownFacts DEF PendingRequest
<1>16. RoomIsSound'
  BY <1>5, <1>7, <1>14, <1>15 DEF RoomIsSound
<1>17. RoomInv'
  BY <1>3, <1>7, <1>13, <1>14, <1>15, <1>16 DEF RoomInv, PendingIsHeld
<1>18. FlagsOK' /\ PlayersOK'
  BY <1>1, <1>2, <1>7 DEF FlagsOK, PlayersOK, KnownPlayers
<1> QED
  BY <1>7, <1>12, <1>17, <1>18, InvPartsNext

(* The room lets go of a leave or cancel only when it is applied. *)
LEMMA ReportFinalizationAction ==
  ASSUME SessionInv, ReportFinalization
  PROVE  SessionInv'
<1>1. ApiInv /\ DurableInv /\ FlagsOK /\ PlayersOK /\ RoomInv
  BY InvParts
<1>2. PICK ok \in BOOLEAN :
        /\ room.call = "finalize" /\ finalizeRoomCommand(PendingRequest, ok)
        /\ \/ room' = [room EXCEPT !.call = "none"]
           \/ ok /\ room' = [room EXCEPT !.call = "none", !.fin = NoFin]
        /\ UNCHANGED <<recon, leased, offline, game, finalizations, auth, connected>>
  BY DEF ReportFinalization, RoomStep, durableVars
<1>3. /\ room \in RoomRow /\ room.phase = "up" /\ room.fin # NoFin /\ room.fin.stored
      /\ ~room.starting /\ ~room.published
      /\ PendingRequest \in finalizations /\ session # "none"
      /\ PendingRequest \in Finalization /\ room.fin.id \in Issued
  BY <1>1, <1>2 DEF RoomInv, RoomIsSound
<1>4. PICK f \in finalizations : f = PendingRequest
  BY <1>3
<1>5. finalizeRoomCommand(f, ok)
  BY <1>2, <1>4
<1>6. FinalizationRows /\ finalizations \subseteq Finalization
  BY <1>1 DEF DurableInv
<1>7. /\ ApiInv' /\ ApiMoves
      /\ ok => \/ UNCHANGED apiVars /\ f \in finalized
               \/ f.id \notin Reserved' /\ (f.action = "cancel" => session' = "cancelled")
  BY <1>1, <1>5, <1>6, FinalizeMoves
<1>8. /\ DurableInv' /\ PendingFinalizations' \subseteq PendingFinalizations
      /\ session' # "none"
  BY <1>1, <1>2, <1>3, <1>7, DurableKept
<1>9. PendingFinalizations \subseteq {f}
  BY <1>1, <1>3, <1>4 DEF RoomInv, PendingIsHeld
<1>10. ok => PendingFinalizations' = {}
  <2>1. CASE UNCHANGED apiVars /\ f \in finalized
    <3>1. f.id \notin Reserved
      BY <1>1, <2>1 DEF DurableInv, LeaversDoNotPay
    <3>2. f.action = "cancel" => session # "open"
      BY <1>1, <1>6, <3>1 DEF FinalizationRows, ApiInv, SeatsAreKept
    <3>3. f \notin PendingFinalizations
      BY <3>1, <3>2 DEF PendingFinalizations
    <3> QED
      BY <1>8, <1>9, <3>3
  <2>2. CASE f.id \notin Reserved' /\ (f.action = "cancel" => session' = "cancelled")
    <3>1. f \notin PendingFinalizations'
      BY <2>2 DEF PendingFinalizations
    <3> QED
      BY <1>8, <1>9, <3>1
  <2> QED
    BY <1>7, <2>1, <2>2
<1>11. PlayersOK'
  BY <1>1, <1>2, <1>7, PlayersKept
<1>12. FlagsOK'
  BY <1>1, <1>2 DEF FlagsOK
<1>13. CASE room' = [room EXCEPT !.call = "none"]
  <2>1. /\ room' \in RoomRow /\ room'.phase = "up" /\ room'.call = "none" /\ room'.fin = room.fin
        /\ ~room'.starting /\ ~room'.published
    BY <1>3, <1>13 DEF RoomRow
  <2>2. PendingRequest' = PendingRequest
    BY <2>1 DEF PendingRequest
  <2>3. RoomIsSound'
    BY <1>2, <1>3, <1>7, <2>1, <2>2 DEF RoomIsSound, ApiMoves
  <2>4. PendingIsHeld'
    BY <1>3, <1>4, <1>8, <1>9, <2>1, <2>2 DEF PendingIsHeld
  <2>5. RoomInv'
    BY <1>8, <2>1, <2>3, <2>4 DEF RoomInv
  <2> QED
    BY <1>7, <1>8, <1>11, <1>12, <2>5, InvPartsNext
<1>14. CASE ok /\ room' = [room EXCEPT !.call = "none", !.fin = NoFin]
  <2>1. /\ room' \in RoomRow /\ room'.phase = "up" /\ room'.call = "none" /\ room'.fin = NoFin
        /\ ~room'.starting /\ ~room'.published
    BY <1>3, <1>14, RoomDownFacts DEF RoomRow
  <2>2. RoomInv'
    BY <1>8, <1>10, <1>14, <2>1, IdleRoomIsSound DEF RoomInv, PendingIsHeld
  <2> QED
    BY <1>7, <1>8, <1>11, <1>12, <2>2, InvPartsNext
<1> QED
  BY <1>2, <1>13, <1>14

-----------------------------------------------------------------------------
LEMMA InitSound == Init => SessionInv
<1> SUFFICES ASSUME Init PROVE SessionInv
  OBVIOUS
<1>1. admissions = <<>> /\ Issued = {} /\ finalizations = {} /\ finalized = {}
  BY DEF Init, Issued
<1>2. Reserved = {} /\ Captured = {} /\ Seated = {} /\ Participants = {}
  BY <1>1 DEF Reserved, Captured, Seated, Participants
<1>3. ApiTypeOK
  <2>1. admissions \in Seq(Admission) /\ Len(admissions) <= MaxAdmissions
    BY <1>1, BoundsAssumption
  <2>2. /\ session \in Sessions /\ available \in [Users -> Nat] /\ reserved \in [Users -> Nat]
        /\ settlement \in SettlementRow
    BY CoinAssumption DEF Init, Sessions, SettlementRow
  <2> QED
    BY <2>1, <2>2 DEF ApiTypeOK
<1>4. SeatsAreKept /\ OutcomeIsKept
  BY <1>1, <1>2 DEF Init, SeatsAreKept, OutcomeIsKept
<1>5. CoinsAccountedFor
  <2> SUFFICES ASSUME NEW u \in Users
               PROVE  /\ reserved[u] = EntryCoin * Cardinality(StakesOf(u, Reserved))
                      /\ available[u] + EntryCoin * Cardinality(StakesOf(u, Reserved \cup Captured))
                           = StartingCoin[u] + (IF Won(u) THEN EntryCoin * Cardinality(Captured) ELSE 0)
    BY DEF CoinsAccountedFor
  <2>1. StakesOf(u, Reserved) = {} /\ StakesOf(u, Reserved \cup Captured) = {} /\ ~Won(u)
    BY <1>2 DEF StakesOf, Won, Init
  <2>2. EntryCoin * Cardinality({}) = 0
    BY FS_EmptySet, EntryTimes
  <2>3. reserved[u] = 0 /\ available[u] = StartingCoin[u] /\ StartingCoin[u] \in Nat
    BY CoinAssumption DEF Init
  <2> QED
    BY <2>1, <2>2, <2>3
<1>6. DurableInv
  <2>1. game \in GameRow /\ game.status = "none" /\ session = "none" /\ settlement.kind = "none"
    BY DEF Init, GameRow, EmptySeats
  <2>2. IsFiniteSet(finalizations)
    BY <1>1, FS_EmptySet
  <2> QED
    BY <1>1, <2>1, <2>2 DEF DurableInv, FinalizationRows, LeaversDoNotPay
<1>7. RoomInv
  <2>1. room = RoomDown /\ PendingFinalizations = {}
    BY <1>1 DEF Init, PendingFinalizations
  <2>2. RoomIsSound
    BY <2>1, RoomDownFacts DEF RoomIsSound
  <2> QED
    BY <2>1, <2>2, RoomDownFacts DEF RoomInv, PendingIsHeld
<1>8. FlagsOK /\ PlayersOK
  BY DEF Init, FlagsOK, PlayersOK, KnownPlayers, NoAuth
<1> QED
  BY <1>3, <1>4, <1>5, <1>6, <1>7, <1>8, InvParts DEF ApiInv

LEMMA NextSound == SessionInv /\ [Next]_vars => SessionInv'
<1> SUFFICES ASSUME SessionInv, [Next]_vars PROVE SessionInv'
  OBVIOUS
<1>1. CASE UNCHANGED vars
  <2>1. ApiInv /\ FlagsOK
    BY InvParts
  <2>2. UNCHANGED apiVars /\ UNCHANGED <<recon, leased, offline, game, finalizations, room, auth, connected>>
    BY <1>1 DEF vars, durableVars, roomVars
  <2>3. ApiInv' /\ ApiMoves
    BY <2>1, <2>2, SameApi
  <2>4. FlagsOK'
    BY <2>1, <2>2 DEF FlagsOK
  <2> QED
    BY <2>2, <2>3, <2>4, ApiStep
<1>2. ASSUME NEW i \in Ids, Player(i) PROVE SessionInv'
  BY <1>2, ApiActions, ConsumeAction, AuthActions, CommandActions, PlayActions DEF Player
<1>3. CASE RoomLifetime
  BY <1>3, CreateActions, InitializeAction, LoadAction, GoneAction DEF RoomLifetime
<1>4. CASE RoomCommand
  BY <1>4, CommandActions, CommitStartAction, ReportStartAction, CommitFinalizationAction,
     ReportFinalizationAction, ApiActions DEF RoomCommand
<1>5. CASE Reconcile \/ ReconcileInterrupted \/ OfflineWindowEnds
  BY <1>5, ReconcileActions
<1>6. CASE createSession \/ cancelSession \/ abortSession \/ \E u \in Users : joinSession(u)
  BY <1>6, ApiActions
<1> QED
  BY <1>1, <1>2, <1>3, <1>4, <1>5, <1>6 DEF Next

(* SessionInv holds in every reachable state, for any accounts, stakes,    *)
(* seats, joins and requests: game-sessions.service.ts, the internal       *)
(* services, the reconciliation and the room, however they interleave.     *)
THEOREM SessionInductive == Spec => []SessionInv
BY InitSound, NextSound, PTL DEF Spec

(* The rows of the session, of its room and of the accounts keep their     *)
(* shape: no account's available or reserved coins ever fall below zero.   *)
THEOREM SessionTypeCorrect == Spec => []TypeOK
<1>1. SessionInv => TypeOK
  BY DEF SessionInv
<1> QED
  BY <1>1, SessionInductive, PTL

(* Every coin is accounted for by the stakes and the settlement: leave,    *)
(* cancel, expiry, settlement by the room or by reconciliation, and abort  *)
(* neither make nor lose a coin (releaseReservation, settle, abort).       *)
THEOREM CoinsCorrect == Spec => []CoinsAccountedFor
<1>1. SessionInv => CoinsAccountedFor
  BY DEF SessionInv
<1> QED
  BY <1>1, SessionInductive, PTL

(* Stakes are held exactly while the session is undecided and taken only   *)
(* for the winner of the durable proof (settle, abort, cancel).            *)
THEOREM StakesCorrect == Spec => []StakesFollowOutcome
<1>1. SessionInv => StakesFollowOutcome
  BY DEF SessionInv
<1> QED
  BY <1>1, SessionInductive, PTL

(* Who left durably does not pay and a cancelled room never runs, whatever *)
(* failed between the room's commit and the API's (handleRoomCommand,      *)
(* bootstrap, finalizeRoomCommands).                                       *)
THEOREM LeaversCorrect == Spec => []LeaversDoNotPay
<1>1. SessionInv => LeaversDoNotPay
  BY DEF SessionInv
<1> QED
  BY <1>1, SessionInductive, PTL

(* A session runs only on a game that is durably started (markStarted,     *)
(* startGame).                                                             *)
THEOREM RunningCorrect == Spec => []RunningSessionHasGame
<1>1. SessionInv => RunningSessionHasGame
  BY DEF SessionInv
<1> QED
  BY <1>1, SessionInductive, PTL

-----------------------------------------------------------------------------
(* The body of OutcomeIsFinal, step by step. *)
OutcomeKept ==
  /\ session \in {"settled", "cancelled"} =>
       UNCHANGED <<session, settlement, available, reserved>>
  /\ \A i \in Issued \ Reserved : admissions'[i].status = admissions[i].status

LEMMA ReturnedKeeps ==
  ASSUME ApiInv, NEW ids \in SUBSET Reserved,
         \/ admissions' = ReleasedAdmissions(ids)
         \/ admissions' = [i \in Issued |-> IF i \in ids
              THEN Ended(admissions[i], "released") ELSE admissions[i]]
         \/ admissions' = [i \in Issued |-> IF i \in ids
              THEN Ended(admissions[i], "captured") ELSE admissions[i]]
  PROVE  \A i \in Issued \ Reserved : admissions'[i].status = admissions[i].status
BY DEF ReleasedAdmissions

LEMMA ReservedKeeps ==
  ASSUME ApiInv, NEW u, NEW seat, reserveAndSeat(u, seat)
  PROVE  \A i \in Issued \ Reserved : admissions'[i].status = admissions[i].status
<1>1. admissions \in Seq(Admission) /\ Issued = 1 .. Len(admissions)
  BY IssuedFacts DEF ApiInv, ApiTypeOK
<1>2. PICK row : admissions' = Append(admissions, row)
  BY DEF reserveAndSeat
<1>3. \A i \in 1 .. Len(admissions) : admissions'[i] = admissions[i]
  BY <1>1, <1>2, AppendProperties, LenProperties
<1> QED
  BY <1>1, <1>3

LEMMA FinalizeKeeps ==
  ASSUME ApiInv, NEW f, NEW ok, finalizeRoomCommand(f, ok)
  PROVE  OutcomeKept
<1>1. CASE UNCHANGED apiVars
  BY <1>1 DEF OutcomeKept, apiVars, accountVars
<1>2. CASE Release(f.id)
  <2>1. {f.id} \in SUBSET Reserved /\ session = "open"
    BY <1>2 DEF Release, Participants
  <2> QED
    BY <1>2, <2>1, ReturnedKeeps DEF OutcomeKept, Release
<1>3. CASE Cancel
  BY <1>3, ReturnedKeeps DEF OutcomeKept, Cancel
<1> QED
  BY <1>1, <1>2, <1>3 DEF finalizeRoomCommand

LEMMA StepKeepsOutcome ==
  ASSUME SessionInv, Next
  PROVE  OutcomeKept
<1>0. ApiInv
  BY ApiPart
<1>1. CASE UNCHANGED apiVars
  BY <1>1 DEF OutcomeKept, apiVars, accountVars
<1>2. CASE TicketsOnly /\ UNCHANGED <<session, accountVars, settlement>>
  BY <1>2 DEF OutcomeKept, TicketsOnly, accountVars
<1>3. CASE Cancel
  BY <1>0, <1>3, ReturnedKeeps DEF OutcomeKept, Cancel
<1>4. CASE settle \/ abort
  <2>1. Participants \in SUBSET Reserved /\ session \in {"active", "recovery_required"}
    BY <1>4 DEF Participants, settle, abort
  <2> QED
    BY <1>0, <1>4, <2>1, ReturnedKeeps DEF OutcomeKept, settle, abort
<1>5. CASE UNCHANGED <<accountVars, admissions, settlement>> /\ (session = session' \/ session \in Undecided3)
  BY <1>5 DEF OutcomeKept, accountVars, Undecided3
<1>6. CASE createSession
  BY <1>0, <1>6, ReservedKeeps DEF OutcomeKept, createSession
<1>7. ASSUME NEW u \in Users, joinSession(u) PROVE OutcomeKept
  BY <1>0, <1>7, ReservedKeeps DEF OutcomeKept, joinSession
<1>8. ASSUME NEW i \in Ids, Player(i) PROVE OutcomeKept
  <2>1. CASE releaseJoinIntent(i)
    <3>1. {i} \in SUBSET Reserved /\ session = "open" /\ admissions' = ReleasedAdmissions({i})
      BY <2>1 DEF releaseJoinIntent, Release, Participants
    <3> QED
      BY <1>0, <3>1, ReturnedKeeps DEF OutcomeKept
  <2>2. CASE reissueAdmission(i)
    BY <1>0, <2>2, IssuedFacts DEF reissueAdmission, OutcomeKept, ApiInv, Issued, Admission
  <2>3. CASE TicketExpires(i)
    <3>1. \A j \in Issued : admissions'[j].status = admissions[j].status
      BY <1>0, <2>3, IssuedFacts DEF TicketExpires, ApiInv, Issued, Admission
    <3> QED
      BY <2>3, <3>1 DEF OutcomeKept, TicketExpires, accountVars
  <2>4. CASE consumeTicket(i)
    <3>1. \A j \in Issued : admissions'[j].status = admissions[j].status
      BY <1>0, <2>4, IssuedFacts DEF consumeTicket, ApiInv, Issued, Admission
    <3> QED
      BY <2>4, <3>1 DEF OutcomeKept, consumeTicket, accountVars
  <2> QED
    BY <1>1, <1>8, <2>1, <2>2, <2>3, <2>4
    DEF Player, AuthBootstrap, ensureAdmittedPlayer, AuthFails, onJoin, detachClient, BeginStart,
        BeginFinalization, JoinAgain, FinishGame
<1>9. CASE RoomLifetime
  <2>1. CASE RoomGone
    <3>1. \A j \in Issued : admissions'[j].status = admissions[j].status
      BY <1>0, <2>1, IssuedFacts DEF RoomGone, ApiInv, Admission
    <3> QED
      BY <2>1, <3>1 DEF OutcomeKept, RoomGone, accountVars
  <2>2. CASE LoadGame
    BY <1>5, <2>2 DEF LoadGame, markStarted, Undecided3
  <2> QED
    BY <1>1, <1>9, <2>1, <2>2 DEF RoomLifetime, Probe, AcquireLease, Bootstrap, InitializeGame, CreateFails
<1>10. CASE RoomCommand
  <2>1. CASE ReportStart
    BY <1>5, <2>1 DEF ReportStart, markStarted, Undecided3
  <2>2. CASE ReportFinalization
    BY <1>0, <2>2, FinalizeKeeps DEF ReportFinalization
  <2> QED
    BY <1>1, <1>4, <1>10, <2>1, <2>2
    DEF RoomCommand, CommitStart, RejectStart, RetryStart, CommitFinalization, RejectFinalization,
        RetryFinalization, CommandFails, SettleFromRoom
<1>11. CASE Reconcile
  <2>1. CASE ReconcileFinalizations
    BY <1>0, <1>1, <2>1, FinalizeKeeps DEF ReconcileFinalizations
  <2>2. CASE ReconcileSettlement
    BY <1>1, <1>4, <1>5, <2>2 DEF ReconcileSettlement, SettlementCandidate, Undecided3
  <2>3. CASE ReconcileRecovery
    BY <1>5, <2>3 DEF ReconcileRecovery, Unrecoverable, Undecided3
  <2> QED
    BY <1>1, <1>3, <1>4, <1>11, <2>1, <2>2, <2>3
    DEF Reconcile, ReconcileWaiting, CancelExpiredWaiting, ReconcileAbortQuery, ReconcileAbort
<1> QED
  BY <1>1, <1>3, <1>4, <1>6, <1>7, <1>8, <1>9, <1>10, <1>11
  DEF Next, cancelSession, abortSession, ReconcileInterrupted, OfflineWindowEnds

(* An outcome is final: nothing a late room, a second reconciliation run   *)
(* or an operator does changes a settled or cancelled session, its         *)
(* settlement, its coins, or a stake that is no longer open.               *)
THEOREM FinalCorrect == Spec => OutcomeIsFinal
<1>1. SessionInv /\ [Next]_vars => [OutcomeKept]_vars
  BY StepKeepsOutcome
<1>2. Spec => [][OutcomeKept]_vars
  BY <1>1, SessionInductive, PTL DEF Spec
<1> QED
  BY <1>2 DEF OutcomeIsFinal, OutcomeKept
=============================================================================
