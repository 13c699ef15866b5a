-------------------------- MODULE RoomClockProofs --------------------------
(***************************************************************************)
(* Proofs about RoomClock, for any time limits, trades and numbers of      *)
(* commands, and for a queue of any length.                                *)
(***************************************************************************)
EXTENDS RoomClock, SequenceTheorems, TLAPS

Games == [inProgress : BOOLEAN, bankruptcyRequired : BOOLEAN, deadline : 0 .. TurnUnits,
          warned : SUBSET Warnings, limit : {Never} \cup 0 .. GameUnits,
          trade : {Never} \cup 0 .. TradeUnits]

(* The last warning is given only when the turn is about to end.           *)
WarnedInOrder(g) == "warnTurnTenSeconds" \in g.warned => g.deadline <= 1

(* A timer that is not late counts down with what the rules will compare   *)
(* when it goes off, and goes off before the time limit of the game.       *)
Fits(t, g) ==
  /\ g.inProgress
  /\ t.type \in Warnings \cup {"handleTurnTimeout"} => g.limit = Never \/ g.limit > t.due
  /\ t.type = "warnTurnThirtySeconds" => g.warned = {} /\ g.deadline = t.due + 2
  /\ t.type = "warnTurnTenSeconds" => NotYet(g, t.type) /\ g.deadline = t.due + 1
  /\ t.type = "handleTurnTimeout" => g.deadline = t.due
  /\ t.type = "cleanupExpiredTrades" => g.trade = t.due
  /\ t.type = "enforceGameTimeLimit" => g.limit = t.due

Punctual(e) == e.type \in TimerTypes /\ e.fate = "current" /\ ~e.late

(* What makes PunctualTimersAccepted inductive.                            *)
ClockFits ==
  /\ WarnedInOrder(game)
  /\ timer.late => timer.due = 0
  /\ timer # NoTimer /\ ~timer.late => Fits(timer, game)
  /\ \A k \in DOMAIN queue : Punctual(queue[k]) => Accepted(queue[k].type)

-----------------------------------------------------------------------------
(* Choosing the next command.                                              *)

Ranked(c) == c.due \in Nat /\ c.priority \in Nat

LEMMA BeforeTotal ==
  ASSUME NEW c, NEW d, Ranked(c), Ranked(d)
  PROVE  Before(c, d) \/ Before(d, c)
BY DEF Ranked, Before

LEMMA BeforeTransitive ==
  ASSUME NEW c, NEW d, NEW e, Ranked(c), Ranked(d), Ranked(e), Before(c, d), Before(d, e)
  PROVE  Before(c, e)
BY DEF Ranked, Before

(* One candidate comes before the others: no two have the same priority.   *)
LEMMA ChosenCandidate ==
  ASSUME NEW g \in Games
  PROVE  LET c == CHOOSE c \in Candidates(g) : \A d \in Candidates(g) : Before(c, d)
         IN c \in Candidates(g) /\ \A d \in Candidates(g) : Before(c, d)
<1> DEFINE t == turnCandidate(g)
           l == Candidate("enforceGameTimeLimit", g.limit, 0)
           x == Candidate("cleanupExpiredTrades", g.trade, 4)
<1>1. /\ Ranked(t)
      /\ g.limit # Never => Ranked(l)
      /\ g.trade # Never => Ranked(x)
  BY DEF turnCandidate, Candidate, Games, TurnUnits, Ranked
<1>2. Candidates(g) = {t} \cup (IF g.limit = Never THEN {} ELSE {l})
                          \cup (IF g.trade = Never THEN {} ELSE {x})
  BY DEF Candidates
<1> HIDE DEF t, l, x
<1>3. \E c \in Candidates(g) : \A d \in Candidates(g) : Before(c, d)
  <2>1. CASE g.limit = Never /\ g.trade = Never
    BY <1>1, <1>2, <2>1 DEF Before, Ranked
  <2>2. CASE g.limit # Never /\ g.trade = Never
    BY <1>1, <1>2, <2>2 DEF Before, Ranked
  <2>3. CASE g.limit = Never /\ g.trade # Never
    BY <1>1, <1>2, <2>3 DEF Before, Ranked
  <2>4. CASE g.limit # Never /\ g.trade # Never
    <3>1. \/ Before(t, l) /\ Before(t, x)
          \/ Before(l, t) /\ Before(l, x)
          \/ Before(x, t) /\ Before(x, l)
      <4>1. Ranked(t) /\ Ranked(l) /\ Ranked(x)
        BY <1>1, <2>4
      <4>2. /\ Before(t, l) \/ Before(l, t)
            /\ Before(t, x) \/ Before(x, t)
            /\ Before(l, x) \/ Before(x, l)
        BY <4>1, BeforeTotal
      <4>3. /\ Before(x, t) /\ Before(t, l) => Before(x, l)
            /\ Before(x, l) /\ Before(l, t) => Before(x, t)
        BY <4>1, BeforeTransitive
      <4> QED
        BY <4>2, <4>3
    <3>2. Before(t, t) /\ Before(l, l) /\ Before(x, x)
      BY <1>1, <2>4, BeforeTotal
    <3>3. Candidates(g) = {t, l, x}
      BY <1>2, <2>4
    <3> QED
      BY <3>1, <3>2, <3>3
  <2> QED
    BY <2>1, <2>2, <2>3, <2>4
<1> QED
  BY <1>3

(* What the clock chooses fits the state it was chosen for.                *)
LEMMA ScheduledFits ==
  ASSUME NEW g \in Games, WarnedInOrder(g)
  PROVE  LET t == nextScheduledRoomCommand(g)
         IN /\ t \in Timers \cup {NoTimer}
            /\ ~t.late
            /\ t # NoTimer => Fits(t, g)
            /\ g.inProgress /\ ~g.bankruptcyRequired => t # NoTimer
<1> DEFINE c == CHOOSE c \in Candidates(g) : \A d \in Candidates(g) : Before(c, d)
           t == nextScheduledRoomCommand(g)
<1>1. CASE ~g.inProgress \/ g.bankruptcyRequired
  BY <1>1 DEF nextScheduledRoomCommand, NoTimer, Games
<1>2. CASE g.inProgress /\ ~g.bankruptcyRequired
  <2>1. c \in Candidates(g) /\ \A d \in Candidates(g) : Before(c, d)
    BY ChosenCandidate
  <2>2. t = [type |-> c.type, due |-> c.due, late |-> FALSE]
    BY <1>2 DEF nextScheduledRoomCommand
  <2> HIDE DEF c, t
  <2>3. CASE c = turnCandidate(g)
    <3>1. /\ c.due \in 0 .. TurnUnits /\ c.priority \in 1 .. 3
          /\ c.type \in Warnings \cup {"handleTurnTimeout"}
          /\ c.type = "warnTurnThirtySeconds" =>
               NotYet(g, "warnTurnThirtySeconds") /\ g.deadline >= 2 /\ c.due = g.deadline - 2
          /\ c.type = "warnTurnTenSeconds" => NotYet(g, c.type) /\ g.deadline = c.due + 1
          /\ c.type = "handleTurnTimeout" => g.deadline = c.due
      BY <2>3 DEF turnCandidate, Candidate, Games, TurnUnits, Warnings
    <3>2. c.type = "warnTurnThirtySeconds" => g.warned = {}
      BY <3>1 DEF WarnedInOrder, NotYet, Games, Warnings, TurnUnits
    <3>3. g.limit # Never => g.limit > c.due
      <4>1. g.limit # Never => Before(c, Candidate("enforceGameTimeLimit", g.limit, 0))
        BY <2>1 DEF Candidates
      <4> QED
        BY <3>1, <4>1 DEF Before, Candidate, Games, TurnUnits
    <3>4. c.due \in 0 .. GameUnits + TradeUnits + TurnUnits
      BY <3>1, ClockAssumption DEF TurnUnits
    <3>5. g.deadline \in Int /\ c.due \in Int
      BY <3>1 DEF Games, TurnUnits
    <3>6. t \in Timers /\ t # NoTimer
      BY <2>2, <3>1, <3>4 DEF Timers, TimerTypes, NoTimer, Warnings
    <3>7. Fits(t, g)
      BY <1>2, <2>2, <3>1, <3>2, <3>3, <3>5 DEF Fits, Warnings
    <3> QED
      BY <2>2, <3>6, <3>7 DEF t
  <2>4. CASE g.limit # Never /\ c = Candidate("enforceGameTimeLimit", g.limit, 0)
    <3>1. t = [type |-> "enforceGameTimeLimit", due |-> g.limit, late |-> FALSE]
      BY <2>2, <2>4 DEF Candidate
    <3>2. g.limit \in 0 .. GameUnits + TradeUnits + TurnUnits
      BY <2>4, ClockAssumption DEF Games, TurnUnits
    <3>3. t \in Timers /\ t # NoTimer
      BY <3>1, <3>2 DEF Timers, TimerTypes, NoTimer, Warnings
    <3>4. Fits(t, g)
      BY <1>2, <3>1 DEF Fits, Warnings
    <3> QED
      BY <3>1, <3>3, <3>4 DEF t
  <2>5. CASE g.trade # Never /\ c = Candidate("cleanupExpiredTrades", g.trade, 4)
    <3>1. t = [type |-> "cleanupExpiredTrades", due |-> g.trade, late |-> FALSE]
      BY <2>2, <2>5 DEF Candidate
    <3>2. g.trade \in 0 .. GameUnits + TradeUnits + TurnUnits
      BY <2>5, ClockAssumption DEF Games, TurnUnits
    <3>3. t \in Timers /\ t # NoTimer
      BY <3>1, <3>2 DEF Timers, TimerTypes, NoTimer, Warnings
    <3>4. Fits(t, g)
      BY <1>2, <3>1 DEF Fits, Warnings
    <3> QED
      BY <3>1, <3>3, <3>4 DEF t
  <2> QED
    BY <2>1, <2>3, <2>4, <2>5 DEF Candidates
<1> QED
  BY <1>1, <1>2 DEF Games
-----------------------------------------------------------------------------
(* The steps' operators.                                                   *)

LEMMA PassedType ==
  /\ \A n \in Nat : Passed(n) = IF n = 0 THEN 0 ELSE n - 1
  /\ Passed(Never) = Never
BY ClockAssumption DEF Passed

(* A commit leaves the queue without its head, and nothing in it that      *)
(* expects the committed version.                                          *)
LEMMA AfterCommitQueue ==
  ASSUME queue \in Seq(Entries), queue # <<>>, NEW type
  PROVE  /\ AfterCommit(type) \in Seq(Entries)
         /\ \A k \in DOMAIN AfterCommit(type) : AfterCommit(type)[k].fate # "current"
<1> DEFINE q == AfterCommit(type)
           n == Len(queue) - 1
<1>1. n \in Nat /\ DOMAIN q = 1 .. n
  BY DEF AfterCommit
<1>2. ASSUME NEW k \in 1 .. n PROVE q[k] \in Entries /\ q[k].fate # "current"
  <2>1. queue[k + 1] \in Entries
    BY <1>1
  <2>2. q[k] = [queue[k + 1] EXCEPT !.fate =
                  IF @ # "current" THEN @
                  ELSE IF type # "player" /\ queue[k + 1].type = type THEN "stored" ELSE "stale"]
    BY <1>1 DEF AfterCommit
  <2> HIDE DEF q
  <2> QED
    BY <2>1, <2>2 DEF Entries
<1>3. q \in [1 .. n -> Entries]
  BY <1>1, <1>2 DEF AfterCommit
<1> HIDE DEF q, n
<1> QED
  BY <1>1, <1>2, <1>3 DEF q

(* What the commands make of the state is well typed, and warns in order.  *)
LEMMA TradesFit ==
  ASSUME NEW g \in Games, WarnedInOrder(g), NEW t \in TradesLeft
  PROVE  [g EXCEPT !.trade = t] \in Games /\ WarnedInOrder([g EXCEPT !.trade = t])
<1>1. t \in {Never} \cup 0 .. TradeUnits
  BY ClockAssumption DEF TradesLeft
<1> QED
  BY <1>1 DEF Games, WarnedInOrder

LEMMA TurnsFit ==
  ASSUME NEW g \in Games, WarnedInOrder(g)
  PROVE  /\ NextTurn(g) \in Games /\ WarnedInOrder(NextTurn(g))
         /\ Finished(g) \in Games /\ WarnedInOrder(Finished(g))
         /\ [g EXCEPT !.bankruptcyRequired = TRUE] \in Games
         /\ WarnedInOrder([g EXCEPT !.bankruptcyRequired = TRUE])
<1>1. NextTurn(g) \in Games /\ WarnedInOrder(NextTurn(g))
  <2>1. TurnUnits \in 0 .. TurnUnits
    BY DEF TurnUnits
  <2> QED
    BY <2>1 DEF NextTurn, Games, WarnedInOrder
<1>2. Finished(g) \in Games /\ WarnedInOrder(Finished(g))
  BY DEF Finished, Games, WarnedInOrder
<1>3. /\ [g EXCEPT !.bankruptcyRequired = TRUE] \in Games
      /\ WarnedInOrder([g EXCEPT !.bankruptcyRequired = TRUE])
  BY DEF Games, WarnedInOrder
<1> QED
  BY <1>1, <1>2, <1>3

LEMMA PlayerResultsFit ==
  ASSUME game \in Games, WarnedInOrder(game), NEW g \in PlayerResults(game)
  PROVE  g \in Games /\ WarnedInOrder(g)
<1>1. CASE g \in {NextTurn(game), Finished(game), game, [game EXCEPT !.bankruptcyRequired = TRUE]}
  BY <1>1, TurnsFit
<1>2. CASE \E t \in TradesLeft : g = [game EXCEPT !.trade = t]
  BY <1>2, TradesFit
<1> QED
  BY <1>1, <1>2 DEF PlayerResults

LEMMA TimerResultsFit ==
  ASSUME game \in Games, WarnedInOrder(game), NEW type \in TimerTypes, Accepted(type),
         NEW g \in TimerResults(type)
  PROVE  g \in Games /\ WarnedInOrder(g)
<1>1. CASE type \in Warnings
  <2>1. g = [game EXCEPT !.warned = @ \cup {type}]
    BY <1>1 DEF TimerResults, Warnings
  <2>2. g \in Games
    BY <1>1, <2>1 DEF Games
  <2>3. type = "warnTurnTenSeconds" => game.deadline = 1
    BY DEF Accepted
  <2>4. WarnedInOrder(g)
    BY <1>1, <2>1, <2>3 DEF WarnedInOrder, Games, Warnings
  <2> QED
    BY <2>2, <2>4
<1>2. CASE type = "handleTurnTimeout"
  <2>1. g \in {NextTurn(game), Finished(game)}
    BY <1>2 DEF TimerResults, Warnings
  <2> QED
    BY <2>1, TurnsFit
<1>3. CASE type = "cleanupExpiredTrades"
  <2>1. PICK t \in TradesLeft : g = [game EXCEPT !.trade = t]
    BY <1>3 DEF TimerResults, Warnings
  <2> QED
    BY <2>1, TradesFit
<1>4. CASE type = "enforceGameTimeLimit"
  <2>1. g = Finished(game)
    BY <1>4 DEF TimerResults, Warnings
  <2> QED
    BY <2>1, TurnsFit
<1> QED
  BY <1>1, <1>2, <1>3, <1>4 DEF TimerTypes

(* A commit or a new setting of the clock makes the timer fit.             *)
LEMMA CommitFits ==
  ASSUME TypeOK, NEW g \in Games, WarnedInOrder(g), NEW type, queue # <<>>, Commit(type, g),
         UNCHANGED commands
  PROVE  TypeOK' /\ ClockFits'
<1>1. /\ game' = g /\ queue' = AfterCommit(type) /\ timer' = nextScheduledRoomCommand(g)
      /\ locked' \in {locked, "finished"}
  BY DEF Commit, synchronize
<1>2. /\ queue' \in Seq(Entries)
      /\ \A k \in DOMAIN queue' : queue'[k].fate # "current"
  BY <1>1, AfterCommitQueue DEF TypeOK
<1>3. /\ timer' \in Timers \cup {NoTimer} /\ ~timer'.late
      /\ timer' # NoTimer => Fits(timer', g)
  BY <1>1, ScheduledFits
<1>4. TypeOK'
  BY <1>1, <1>2, <1>3 DEF TypeOK, Games
<1>5. ClockFits'
  BY <1>1, <1>2, <1>3 DEF ClockFits, Fits, WarnedInOrder, NotYet, Punctual
<1> QED
  BY <1>4, <1>5

(* Handling the head of the queue without a commit.                        *)
LEMMA QueueTail ==
  ASSUME queue \in Seq(Entries), queue # <<>>
  PROVE  /\ Tail(queue) \in Seq(Entries)
         /\ Len(Tail(queue)) = Len(queue) - 1
         /\ \A k \in DOMAIN Tail(queue) : k + 1 \in DOMAIN queue /\ Tail(queue)[k] = queue[k + 1]
         /\ Head(queue) = queue[1] /\ 1 \in DOMAIN queue
OBVIOUS

LEMMA HandleFits ==
  ASSUME TypeOK, ClockFits, queue # <<>>, queue' = Tail(queue), game' = game,
         timer' = timer \/ timer' = nextScheduledRoomCommand(game)
  PROVE  /\ ClockFits'
         /\ queue' \in Seq(Entries)
         /\ timer' \in Timers \cup {NoTimer}
<1>0. game \in Games /\ WarnedInOrder(game)
  BY DEF TypeOK, Games, ClockFits
<1>1. \A k \in DOMAIN queue' : k + 1 \in DOMAIN queue /\ queue'[k] = queue[k + 1]
  BY QueueTail DEF TypeOK
<1>2. \A k \in DOMAIN queue' : Punctual(queue'[k]) => Accepted(queue'[k].type)
  BY <1>1 DEF ClockFits
<1>3. /\ timer' \in Timers \cup {NoTimer}
      /\ timer'.late => timer'.due = 0
      /\ timer' # NoTimer /\ ~timer'.late => Fits(timer', game)
  BY <1>0, ScheduledFits DEF TypeOK, ClockFits
<1>4. ClockFits'
  BY <1>0, <1>2, <1>3 DEF ClockFits, Fits, WarnedInOrder, NotYet, Punctual, Accepted
<1> QED
  BY <1>3, <1>4, QueueTail DEF TypeOK
-----------------------------------------------------------------------------
(* The inductive invariant.                                                *)
ClockInv ==
  /\ TypeOK
  /\ ClockFits
  /\ PunctualTimersAccepted

(* Time counts down the timer with the deadlines it was set for; whatever  *)
(* was due already is late from now on.                                    *)
LEMMA TickStep ==
  ASSUME ClockInv, Tick
  PROVE  ClockInv'
<1>0. /\ game \in Games /\ timer \in Timers \cup {NoTimer} /\ queue \in Seq(Entries)
      /\ WarnedInOrder(game) /\ game.inProgress
      /\ timer.late => timer.due = 0
      /\ timer # NoTimer /\ ~timer.late => Fits(timer, game)
  BY DEF ClockInv, TypeOK, Games, ClockFits, Tick
<1>1. /\ game' = [game EXCEPT !.deadline = Passed(@), !.limit = Passed(@), !.trade = Passed(@)]
      /\ timer' = IF timer = NoTimer THEN NoTimer
                  ELSE [timer EXCEPT !.due = Passed(@), !.late = timer.due = 0]
      /\ queue' = [k \in DOMAIN queue |-> [queue[k] EXCEPT !.late = queue[k].type # "player"]]
      /\ locked' = locked /\ commands' = commands
  BY DEF Tick
<1>2. /\ game'.deadline = Passed(game.deadline) /\ game'.limit = Passed(game.limit)
      /\ game'.trade = Passed(game.trade) /\ game'.warned = game.warned
      /\ game'.inProgress
  BY <1>0, <1>1 DEF Games
<1>3. /\ Passed(game.deadline) \in 0 .. TurnUnits
      /\ Passed(game.limit) \in {Never} \cup 0 .. GameUnits
      /\ Passed(game.trade) \in {Never} \cup 0 .. TradeUnits
  BY <1>0, PassedType, ClockAssumption DEF Games, TurnUnits
<1>4. game' \in Games
  BY <1>0, <1>1, <1>3 DEF Games
<1>5. WarnedInOrder(game')
  BY <1>0, <1>2, PassedType DEF WarnedInOrder, Games, TurnUnits
<1>6. ASSUME timer # NoTimer
      PROVE  /\ timer \in Timers /\ timer.due \in Nat
             /\ timer'.type = timer.type /\ timer'.due = Passed(timer.due)
             /\ timer'.late <=> timer.due = 0
             /\ timer' \in Timers
  <2>1. timer \in Timers /\ timer.due \in 0 .. GameUnits + TradeUnits + TurnUnits
    BY <1>0, <1>6 DEF Timers
  <2>2. Passed(timer.due) \in 0 .. GameUnits + TradeUnits + TurnUnits /\ timer.due \in Nat
    BY <2>1, PassedType, ClockAssumption DEF TurnUnits
  <2> QED
    BY <1>1, <1>6, <2>1, <2>2 DEF Timers
<1>7. timer' \in Timers \cup {NoTimer}
  BY <1>1, <1>6
<1>8. ASSUME timer' # NoTimer, ~timer'.late PROVE Fits(timer', game')
  <2>1. timer # NoTimer
    BY <1>1, <1>8
  <2>2. timer.due \in Nat /\ timer.due > 0 /\ timer'.due = timer.due - 1 /\ timer'.type = timer.type
    <3>1. timer.due \in Nat /\ timer.due # 0 /\ timer'.due = Passed(timer.due)
      BY <1>6, <1>8, <2>1
    <3> QED
      BY <1>6, <2>1, <3>1, PassedType
  <2>3. CASE ~timer.late
    <3>1. Fits(timer, game)
      BY <1>0, <2>1, <2>3
    <3>2. timer.type \in Warnings \cup {"handleTurnTimeout"} =>
            game'.limit = Never \/ game'.limit > timer'.due
      BY <1>0, <1>2, <2>2, <3>1, PassedType DEF Fits, Games
    <3>3. timer.type \in Warnings \cup {"handleTurnTimeout"} => game'.deadline = game.deadline - 1
      BY <1>0, <1>2, <2>2, <3>1, PassedType DEF Fits, Games, Warnings, TurnUnits
    <3>4. timer.type = "cleanupExpiredTrades" => game'.trade = timer'.due
      BY <1>2, <2>2, <3>1, PassedType DEF Fits
    <3>5. timer.type = "enforceGameTimeLimit" => game'.limit = timer'.due
      BY <1>2, <2>2, <3>1, PassedType DEF Fits
    <3>6. game.deadline \in Int
      BY <1>0 DEF Games, TurnUnits
    <3> QED
      BY <1>2, <2>2, <3>1, <3>2, <3>3, <3>4, <3>5, <3>6 DEF Fits, Warnings, NotYet
  <2>4. CASE timer.late
    BY <1>0, <2>2, <2>4
  <2> QED
    BY <1>6, <2>1, <2>3, <2>4 DEF Timers
<1>81. timer'.late => timer'.due = 0
  BY <1>1, <1>6, PassedType DEF NoTimer
<1>9. /\ queue' \in Seq(Entries)
      /\ \A k \in DOMAIN queue' : ~Punctual(queue'[k])
  <2>1. DOMAIN queue = 1 .. Len(queue) /\ Len(queue) \in Nat /\ DOMAIN queue' = DOMAIN queue
    BY <1>0, <1>1
  <2>2. ASSUME NEW k \in DOMAIN queue PROVE queue'[k] \in Entries /\ ~Punctual(queue'[k])
    <3>1. queue[k] \in Entries /\ queue'[k] = [queue[k] EXCEPT !.late = queue[k].type # "player"]
      BY <1>0, <1>1
    <3>2. queue'[k].type = queue[k].type /\ queue'[k].late = (queue[k].type # "player")
      BY <3>1 DEF Entries
    <3>3. queue'[k] \in Entries
      BY <3>1 DEF Entries
    <3> QED
      BY <3>2, <3>3 DEF Punctual, TimerTypes, Warnings
  <2>3. queue' \in [1 .. Len(queue) -> Entries]
    BY <1>1, <2>1, <2>2
  <2> QED
    BY <2>1, <2>2, <2>3
<1>10. TypeOK'
  BY <1>1, <1>4, <1>7, <1>9 DEF ClockInv, TypeOK, Games
<1>11. ClockFits'
  BY <1>5, <1>8, <1>81, <1>9 DEF ClockFits, WarnedInOrder, Fits, NotYet, Punctual
<1> QED
  BY <1>1, <1>10, <1>11 DEF ClockInv, PunctualTimersAccepted

(* A timer that goes off when it is due and is not late is what the rules  *)
(* accept at that instant.                                                 *)
LEMMA FittingIsAccepted ==
  ASSUME NEW t \in Timers, t.due = 0, Fits(t, game)
  PROVE  Accepted(t.type)
<1>1. t.type \in TimerTypes /\ game.inProgress
  BY DEF Timers, Fits
<1>2. t.type \in Warnings \cup {"handleTurnTimeout"} => game.limit # 0
  BY ClockAssumption DEF Fits
<1>3. CASE t.type = "warnTurnThirtySeconds"
  BY <1>1, <1>2, <1>3 DEF Accepted, Fits, Warnings
<1>4. CASE t.type = "warnTurnTenSeconds"
  BY <1>1, <1>2, <1>4 DEF Accepted, Fits, Warnings
<1>5. CASE t.type = "handleTurnTimeout"
  BY <1>1, <1>2, <1>5 DEF Accepted, Fits, Warnings
<1>6. CASE t.type = "cleanupExpiredTrades"
  BY <1>1, <1>6 DEF Accepted, Fits, Warnings
<1>7. CASE t.type = "enforceGameTimeLimit"
  BY <1>1, <1>7 DEF Accepted, Fits, Warnings
<1> QED
  BY <1>1, <1>3, <1>4, <1>5, <1>6, <1>7 DEF TimerTypes, Warnings

(* Something is queued at the end.                                         *)
LEMMA QueueAppend ==
  ASSUME queue \in Seq(Entries), NEW e \in Entries
  PROVE  /\ Append(queue, e) \in Seq(Entries)
         /\ \A k \in DOMAIN queue : /\ k \in DOMAIN Append(queue, e)
                                    /\ Append(queue, e)[k] = queue[k]
         /\ Len(Append(queue, e)) \in DOMAIN Append(queue, e)
         /\ Append(queue, e)[Len(Append(queue, e))] = e
         /\ \A k \in DOMAIN Append(queue, e) :
              k \in DOMAIN queue \/ Append(queue, e)[k] = e
OBVIOUS

LEMMA FireStep ==
  ASSUME ClockInv, Fire
  PROVE  ClockInv'
<1> DEFINE e == [type |-> timer.type, late |-> timer.late, fate |-> "current"]
<1>1. /\ timer \in Timers /\ timer.due = 0 /\ queue' = Append(queue, e) /\ timer' = NoTimer
      /\ game' = game /\ locked' = locked /\ commands' = commands
  BY DEF ClockInv, TypeOK, Fire
<1>2. e \in Entries
  BY <1>1 DEF Timers, Entries
<1>3. Punctual(e) => Accepted(e.type)
  BY <1>1, FittingIsAccepted DEF Punctual, ClockInv, ClockFits, Fire
<1> HIDE DEF e
<1>4. /\ queue' \in Seq(Entries)
      /\ \A k \in DOMAIN queue' : queue'[k] = e \/ (k \in DOMAIN queue /\ queue'[k] = queue[k])
  BY <1>1, <1>2, QueueAppend DEF ClockInv, TypeOK
<1>5. \A k \in DOMAIN queue' : Punctual(queue'[k]) => Accepted(queue'[k].type)
  BY <1>3, <1>4 DEF ClockInv, ClockFits
<1>6. TypeOK'
  BY <1>1, <1>4 DEF ClockInv, TypeOK
<1>7. ClockFits'
  BY <1>1, <1>5 DEF ClockInv, ClockFits, WarnedInOrder, NoTimer, Punctual, Accepted, NotYet
<1> QED
  BY <1>1, <1>6, <1>7 DEF ClockInv, PunctualTimersAccepted

LEMMA PlayerSendsStep ==
  ASSUME ClockInv, PlayerSends
  PROVE  ClockInv'
<1> DEFINE e == [type |-> "player", late |-> FALSE, fate |-> "current"]
<1>1. /\ queue' = Append(queue, e) /\ timer' = timer /\ game' = game /\ locked' = locked
      /\ commands' \in 0 .. MaxCommands
  BY ClockAssumption DEF ClockInv, TypeOK, PlayerSends
<1>2. e \in Entries /\ ~Punctual(e)
  BY DEF Entries, Punctual, TimerTypes, Warnings
<1> HIDE DEF e
<1>3. /\ queue' \in Seq(Entries)
      /\ \A k \in DOMAIN queue' : queue'[k] = e \/ (k \in DOMAIN queue /\ queue'[k] = queue[k])
  BY <1>1, <1>2, QueueAppend DEF ClockInv, TypeOK
<1>4. \A k \in DOMAIN queue' : Punctual(queue'[k]) => Accepted(queue'[k].type)
  BY <1>2, <1>3 DEF ClockInv, ClockFits
<1>5. TypeOK'
  BY <1>1, <1>3 DEF ClockInv, TypeOK
<1>6. ClockFits'
  BY <1>1, <1>4 DEF ClockInv, ClockFits, WarnedInOrder, Punctual, Accepted, NotYet, Fits
<1> QED
  BY <1>1, <1>5, <1>6 DEF ClockInv, PunctualTimersAccepted

LEMMA HandleStep ==
  ASSUME ClockInv, Handle
  PROVE  ClockInv'
<1>0. game \in Games /\ WarnedInOrder(game) /\ queue \in Seq(Entries) /\ TypeOK /\ ClockFits
      /\ locked # "punctual"
  BY DEF ClockInv, TypeOK, Games, ClockFits, PunctualTimersAccepted
<1>1. ASSUME PlayerCommits PROVE ClockInv'
  <2>1. PICK g \in PlayerResults(game) : Commit("player", g) /\ UNCHANGED commands /\ queue # <<>>
    BY <1>1 DEF PlayerCommits, At
  <2>2. TypeOK' /\ ClockFits'
    BY <1>0, <2>1, PlayerResultsFit, CommitFits
  <2> QED
    BY <1>0, <2>1, <2>2 DEF ClockInv, PunctualTimersAccepted, Commit
<1>2. ASSUME NEW type \in TimerTypes, TimerCommits(type) PROVE ClockInv'
  <2>1. PICK g \in TimerResults(type) : Commit(type, g) /\ UNCHANGED commands /\ queue # <<>>
    BY <1>2 DEF TimerCommits, TimerAt, At
  <2>2. Accepted(type)
    BY <1>2 DEF TimerCommits
  <2>3. TypeOK' /\ ClockFits'
    BY <1>0, <2>1, <2>2, TimerResultsFit, CommitFits
  <2> QED
    BY <1>0, <2>1, <2>3 DEF ClockInv, PunctualTimersAccepted, Commit
<1>3. ASSUME queue # <<>>, queue' = Tail(queue), game' = game, commands' = commands,
             timer' = timer \/ timer' = nextScheduledRoomCommand(game),
             locked' \in {locked, "failure", "late"}
      PROVE  ClockInv'
  <2>1. ClockFits' /\ queue' \in Seq(Entries) /\ timer' \in Timers \cup {NoTimer}
    BY <1>0, <1>3, HandleFits
  <2>2. TypeOK'
    BY <1>3, <2>1 DEF ClockInv, TypeOK
  <2> QED
    BY <1>0, <1>3, <2>1, <2>2 DEF ClockInv, PunctualTimersAccepted
<1>4. ASSUME PlayerRejected PROVE ClockInv'
  BY <1>3, <1>4 DEF PlayerRejected, At
<1>5. ASSUME HandlingFails PROVE ClockInv'
  BY <1>3, <1>5 DEF HandlingFails, LockedFor
<1>6. ASSUME NEW type \in TimerTypes, TimerReplayed(type) PROVE ClockInv'
  BY <1>3, <1>6 DEF TimerReplayed, TimerAt, At
<1>7. ASSUME NEW type \in TimerTypes, TimerStale(type) PROVE ClockInv'
  BY <1>3, <1>7 DEF TimerStale, TimerAt, At, synchronize
<1>8. ASSUME NEW type \in TimerTypes, TimerRejected(type) PROVE ClockInv'
  <2>1. queue # <<>> /\ Head(queue).type = type /\ Head(queue).fate = "current" /\ ~Accepted(type)
    BY <1>8 DEF TimerRejected, TimerAt, At, Fresh
  <2>2. Head(queue) = queue[1] /\ 1 \in DOMAIN queue
    BY <1>0, <2>1, QueueTail
  <2>3. Head(queue).late
    BY <1>0, <2>1, <2>2 DEF ClockFits, Punctual
  <2>4. locked' \in {locked, "late"}
    BY <1>8, <2>3 DEF TimerRejected, LockedFor
  <2> QED
    BY <1>3, <1>8, <2>1, <2>4 DEF TimerRejected
<1> QED
  BY <1>1, <1>2, <1>4, <1>5, <1>6, <1>7, <1>8 DEF Handle

LEMMA ClockInit ==
  ASSUME Init
  PROVE  ClockInv /\ timer # NoTimer
<1>1. game \in Games /\ WarnedInOrder(game) /\ game.inProgress /\ ~game.bankruptcyRequired
  <2>1. TurnUnits \in 0 .. TurnUnits /\ GameUnits \in 0 .. GameUnits
    BY ClockAssumption DEF TurnUnits
  <2>2. game \in Games /\ game.warned = {} /\ game.inProgress /\ ~game.bankruptcyRequired
    BY <2>1 DEF Init, Games
  <2> QED
    BY <2>2 DEF WarnedInOrder
<1>2. timer = nextScheduledRoomCommand(game) /\ queue = <<>> /\ locked = "no" /\ commands = 0
  BY DEF Init
<1>3. timer \in Timers \cup {NoTimer} /\ ~timer.late /\ timer # NoTimer /\ Fits(timer, game)
  BY <1>1, <1>2, ScheduledFits
<1>4. TypeOK
  BY <1>1, <1>2, <1>3, ClockAssumption DEF TypeOK, Games
<1>5. ClockFits
  BY <1>1, <1>2, <1>3 DEF ClockFits
<1> QED
  BY <1>2, <1>3, <1>4, <1>5 DEF ClockInv, PunctualTimersAccepted

(* The invariant is inductive.                                             *)
THEOREM ClockInductive == Spec => []ClockInv
<1>1. Init => ClockInv
  BY ClockInit
<1>2. ClockInv /\ [Next]_vars => ClockInv'
  <2> SUFFICES ASSUME ClockInv, [Next]_vars PROVE ClockInv'
    OBVIOUS
  <2>1. CASE Next
    BY <2>1, TickStep, FireStep, PlayerSendsStep, HandleStep DEF Next
  <2>2. CASE UNCHANGED vars
    <3>1. game' = game /\ timer' = timer /\ queue' = queue /\ locked' = locked /\ commands' = commands
      BY <2>2 DEF vars
    <3>2. TypeOK' /\ PunctualTimersAccepted'
      BY <3>1 DEF ClockInv, TypeOK, PunctualTimersAccepted
    <3>3. ClockFits'
      <4>1. ClockFits
        BY DEF ClockInv
      <4> QED
        BY <3>1, <4>1 DEF ClockFits, WarnedInOrder, Fits, NotYet, Punctual, Accepted
    <3> QED
      BY <3>2, <3>3 DEF ClockInv
  <2> QED
    BY <2>1, <2>2
<1> QED
  BY <1>1, <1>2, PTL DEF Spec

(* The clock, the queue and the state stay within their domains, for every *)
(* time limit, trade lifetime and number of commands.                      *)
THEOREM ClockTypeCorrect == Spec => []TypeOK
<1>1. ClockInv => TypeOK
  BY DEF ClockInv
<1> QED
  BY <1>1, ClockInductive, PTL

(* A timer command that is handled when it is due is never refused: what   *)
(* the clock chooses and what the rules accept agree at every boundary,    *)
(* for every time limit and whatever waits before it in the queue.         *)
THEOREM PunctualCorrect == Spec => []PunctualTimersAccepted
<1>1. ClockInv => PunctualTimersAccepted
  BY DEF ClockInv
<1> QED
  BY <1>1, ClockInductive, PTL
-----------------------------------------------------------------------------
(* A timer is set, on its way, or given up with the room locked.           *)
LEMMA StallStep ==
  ASSUME ClockInv, NoSilentStall, Next
  PROVE  NoSilentStall'
<1>0. /\ game \in Games /\ WarnedInOrder(game) /\ queue \in Seq(Entries)
      /\ timer \in Timers \cup {NoTimer} /\ TypeOK
      /\ \A t \in Timers : t # NoTimer
  BY DEF ClockInv, TypeOK, Games, ClockFits, Timers, TimerTypes, NoTimer, Warnings
<1>1. ASSUME NEW g \in Games, WarnedInOrder(g), game' = g, timer' = nextScheduledRoomCommand(g)
      PROVE  NoSilentStall'
  BY <1>1, ScheduledFits DEF NoSilentStall
<1>2. ASSUME locked' # "no" PROVE NoSilentStall'
  BY <1>2 DEF NoSilentStall
<1>3. ASSUME game' = game, timer # NoTimer => timer' # NoTimer, Owed => Owed', locked' = locked
      PROVE  NoSilentStall'
  BY <1>3 DEF NoSilentStall
<1>4. ASSUME Tick PROVE NoSilentStall'
  <2>1. timer # NoTimer => timer' # NoTimer
    <3>1. timer # NoTimer => timer'.type = timer.type /\ timer \in Timers
      BY <1>0, <1>4 DEF Tick, Timers
    <3> QED
      BY <3>1 DEF Timers, TimerTypes, NoTimer, Warnings
  <2>2. ASSUME Owed PROVE Owed'
    <3>1. PICK k \in DOMAIN queue : queue[k].type \in TimerTypes /\ queue[k].fate # "stored"
      BY <2>2 DEF Owed
    <3>2. /\ k \in DOMAIN queue' /\ queue[k] \in Entries
          /\ queue'[k] = [queue[k] EXCEPT !.late = queue[k].type # "player"]
      BY <1>0, <1>4 DEF Tick
    <3>3. queue'[k].type = queue[k].type /\ queue'[k].fate = queue[k].fate
      BY <3>2 DEF Entries
    <3> QED
      BY <3>1, <3>2, <3>3 DEF Owed
  <2>3. /\ game'.inProgress = game.inProgress /\ locked' = locked
        /\ game'.bankruptcyRequired = game.bankruptcyRequired
    BY <1>0, <1>4 DEF Tick, Games
  <2> QED
    BY <2>1, <2>2, <2>3 DEF NoSilentStall
<1>5. ASSUME Fire PROVE NoSilentStall'
  <2> DEFINE e == [type |-> timer.type, late |-> timer.late, fate |-> "current"]
  <2>1. /\ timer \in Timers /\ queue' = Append(queue, e)
    BY <1>0, <1>5 DEF Fire
  <2>2. e \in Entries /\ e.type \in TimerTypes /\ e.fate # "stored"
    BY <2>1 DEF Timers, Entries
  <2> HIDE DEF e
  <2>3. Len(queue') \in DOMAIN queue' /\ queue'[Len(queue')] = e
    BY <1>0, <2>1, <2>2, QueueAppend
  <2>4. Owed'
    BY <2>2, <2>3 DEF Owed
  <2> QED
    BY <2>4 DEF NoSilentStall
<1>6. ASSUME PlayerSends PROVE NoSilentStall'
  <2> DEFINE e == [type |-> "player", late |-> FALSE, fate |-> "current"]
  <2>1. e \in Entries /\ queue' = Append(queue, e)
    BY <1>6 DEF PlayerSends, Entries
  <2> HIDE DEF e
  <2>2. \A k \in DOMAIN queue : k \in DOMAIN queue' /\ queue'[k] = queue[k]
    BY <1>0, <2>1, QueueAppend
  <2>3. Owed => Owed'
    BY <2>2 DEF Owed
  <2> QED
    BY <1>3, <1>6, <2>3 DEF PlayerSends
<1>7. ASSUME queue # <<>>, queue' = Tail(queue),
             Head(queue).type \notin TimerTypes \/ Head(queue).fate = "stored"
      PROVE  Owed => Owed'
  <2> SUFFICES ASSUME Owed PROVE Owed'
    OBVIOUS
  <2>1. PICK k \in DOMAIN queue : queue[k].type \in TimerTypes /\ queue[k].fate # "stored"
    BY DEF Owed
  <2>2. k # 1
    BY <1>0, <1>7, <2>1, QueueTail
  <2>3. k - 1 \in DOMAIN queue' /\ queue'[k - 1] = queue[k]
    BY <1>0, <1>7, <2>2
  <2> QED
    BY <2>1, <2>3 DEF Owed
<1>8. ASSUME PlayerCommits PROVE NoSilentStall'
  BY <1>0, <1>1, <1>8, PlayerResultsFit DEF PlayerCommits, Commit, synchronize
<1>9. ASSUME PlayerRejected PROVE NoSilentStall'
  BY <1>3, <1>7, <1>9 DEF PlayerRejected, At, TimerTypes, Warnings
<1>10. ASSUME HandlingFails PROVE NoSilentStall'
  BY <1>2, <1>10 DEF HandlingFails, LockedFor
<1>11. ASSUME NEW type \in TimerTypes, TimerCommits(type) PROVE NoSilentStall'
  BY <1>0, <1>1, <1>11, TimerResultsFit DEF TimerCommits, Commit, synchronize
<1>12. ASSUME NEW type \in TimerTypes, TimerReplayed(type) PROVE NoSilentStall'
  BY <1>3, <1>7, <1>12 DEF TimerReplayed, TimerAt, At
<1>13. ASSUME NEW type \in TimerTypes, TimerStale(type) PROVE NoSilentStall'
  BY <1>0, <1>1, <1>13 DEF TimerStale, synchronize
<1>14. ASSUME NEW type \in TimerTypes, TimerRejected(type) PROVE NoSilentStall'
  BY <1>2, <1>14 DEF TimerRejected, LockedFor
<1> QED
  BY <1>4, <1>5, <1>6, <1>8, <1>9, <1>10, <1>11, <1>12, <1>13, <1>14 DEF Next, Handle

(* A room whose game runs is never left without a timer that is set, on    *)
(* its way, or given up with the room locked, for every time limit, trade  *)
(* lifetime and queue.                                                     *)
THEOREM NoStallCorrect == Spec => []NoSilentStall
<1>1. Init => NoSilentStall
  BY ClockInit DEF NoSilentStall
<1>2. ClockInv /\ NoSilentStall /\ [Next]_vars => NoSilentStall'
  <2>1. NoSilentStall /\ UNCHANGED vars => NoSilentStall'
    BY DEF NoSilentStall, Owed, vars
  <2> QED
    BY <2>1, StallStep
<1> QED
  BY <1>1, <1>2, ClockInductive, PTL DEF Spec
=============================================================================
