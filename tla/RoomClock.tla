----------------------------- MODULE RoomClock -----------------------------
(***************************************************************************)
(* The clock of a room in which a game is in progress, beside the players' *)
(* commands (apps/game-server/src/timers/room-clock.ts, the command queue  *)
(* of rooms/game-room.ts, and what the timeout rules of game-core accept). *)
(*                                                                         *)
(* After every commit the clock is set for one command: a warning, the end *)
(* of the turn, the end of a trade or of the game.  When it goes off, the  *)
(* command waits in the room's queue behind the players' commands; time    *)
(* passes and states are committed before it is handled.  Times are counted*)
(* down in units of one warning; 0 is reached.                             *)
(***************************************************************************)
EXTENDS Integers, Sequences

CONSTANTS
  Never,       \* no time limit, no trade
  GameUnits,   \* the time limit of the game
  TradeUnits,  \* the lifetime of a trade
  MaxCommands  \* bound: commands of players

ASSUME ClockAssumption ==
  /\ GameUnits \in Nat \ {0} /\ TradeUnits \in Nat \ {0} /\ MaxCommands \in Nat
  /\ Never \notin Nat

VARIABLES
  game,     \* what the committed state says about time
  timer,    \* RoomClock.timer and the command it will dispatch
  queue,    \* commandDeliveryQueue
  locked,   \* why the room was locked, if it was
  commands  \* commands of players so far

vars == <<game, timer, queue, locked, commands>>

TurnUnits == 3
Warnings == {"warnTurnThirtySeconds", "warnTurnTenSeconds"}
TimerTypes == Warnings \cup {"handleTurnTimeout", "cleanupExpiredTrades", "enforceGameTimeLimit"}
Timers == [type : TimerTypes, due : 0 .. GameUnits + TradeUnits + TurnUnits, late : BOOLEAN]
NoTimer == [type |-> "none", due |-> 0, late |-> FALSE]

(* An entry of the queue knows whether the version it expects is still the *)
(* current one, or its request is stored already.                          *)
Entries == [type : TimerTypes \cup {"player"}, late : BOOLEAN, fate : {"current", "stale", "stored"}]

TypeOK ==
  /\ game \in [inProgress : BOOLEAN, bankruptcyRequired : BOOLEAN, deadline : 0 .. TurnUnits,
               warned : SUBSET Warnings, limit : {Never} \cup 0 .. GameUnits,
               trade : {Never} \cup 0 .. TradeUnits]
  /\ timer \in Timers \cup {NoTimer}
  /\ queue \in Seq(Entries)
  /\ locked \in {"no", "finished", "failure", "late", "punctual"}
  /\ commands \in 0 .. MaxCommands

-----------------------------------------------------------------------------
(* Choosing the next command *)

Candidate(type, due, priority) == [type |-> type, due |-> due, priority |-> priority]
NotYet(g, warning) == warning \notin g.warned

(* Mutant: the last warning may still be chosen when the turn is over. *)
WarnedWhenOver(g) ==
  CASE NotYet(g, "warnTurnTenSeconds") /\ g.deadline <= 1 -> Candidate("warnTurnTenSeconds", 0, 2)
    [] NotYet(g, "warnTurnThirtySeconds") /\ g.deadline >= 2 -> Candidate("warnTurnThirtySeconds", g.deadline - 2, 3)
    [] NotYet(g, "warnTurnTenSeconds") /\ g.deadline > 1 -> Candidate("warnTurnTenSeconds", g.deadline - 1, 2)
    [] OTHER -> Candidate("handleTurnTimeout", g.deadline, 1)
turnCandidate(g) ==
  CASE g.deadline = 0 -> Candidate("handleTurnTimeout", 0, 1)
    [] NotYet(g, "warnTurnTenSeconds") /\ g.deadline = 1 -> Candidate("warnTurnTenSeconds", 0, 2)
    [] NotYet(g, "warnTurnThirtySeconds") /\ g.deadline >= 2 -> Candidate("warnTurnThirtySeconds", g.deadline - 2, 3)
    [] NotYet(g, "warnTurnTenSeconds") /\ g.deadline > 1 -> Candidate("warnTurnTenSeconds", g.deadline - 1, 2)
    [] OTHER -> Candidate("handleTurnTimeout", g.deadline, 1)

Candidates(g) ==
  {turnCandidate(g)}
    \cup (IF g.limit = Never THEN {} ELSE {Candidate("enforceGameTimeLimit", g.limit, 0)})
    \cup (IF g.trade = Never THEN {} ELSE {Candidate("cleanupExpiredTrades", g.trade, 4)})

(* What is due comes first and by priority, the rest by time. *)
Before(c, d) == c.due < d.due \/ (c.due = d.due /\ c.priority <= d.priority)

nextScheduledRoomCommand(g) ==
  IF ~g.inProgress \/ g.bankruptcyRequired THEN NoTimer
  ELSE LET c == CHOOSE c \in Candidates(g) : \A d \in Candidates(g) : Before(c, d)
       IN [type |-> c.type, due |-> c.due, late |-> FALSE]

(* The clock is stopped and set again. *)
synchronize(g) == timer' = nextScheduledRoomCommand(g)

-----------------------------------------------------------------------------
(* Time *)

Passed(units) == IF units = Never \/ units = 0 THEN units ELSE units - 1

Init ==
  /\ game \in [inProgress : {TRUE}, bankruptcyRequired : {FALSE}, deadline : {TurnUnits}, warned : {{}},
               limit : {Never, GameUnits}, trade : {Never}]
  /\ timer = nextScheduledRoomCommand(game)
  /\ queue = <<>> /\ locked = "no" /\ commands = 0

(* A command is late if time passes after it was due. *)
Tick ==
  /\ game.inProgress
  /\ game' = [game EXCEPT !.deadline = Passed(@), !.limit = Passed(@), !.trade = Passed(@)]
  /\ timer' = IF timer = NoTimer THEN NoTimer
              ELSE [timer EXCEPT !.due = Passed(@), !.late = timer.due = 0]
  /\ queue' = [k \in DOMAIN queue |-> [queue[k] EXCEPT !.late = queue[k].type # "player"]]
  /\ UNCHANGED <<locked, commands>>

(* dispatch: the timer was set for the clock's current state. *)
Fire ==
  /\ timer # NoTimer /\ timer.due = 0
  /\ queue' = Append(queue, [type |-> timer.type, late |-> timer.late, fate |-> "current"])
  /\ timer' = NoTimer
  /\ UNCHANGED <<game, locked, commands>>

-----------------------------------------------------------------------------
(* The queue *)

(* A commit makes what waits stale, and a timer of the same request stored. *)
AfterCommit(type) ==
  [k \in 1 .. Len(queue) - 1 |->
     LET e == queue[k + 1] IN
     [e EXCEPT !.fate = IF @ # "current" THEN @
                        ELSE IF type # "player" /\ e.type = type THEN "stored" ELSE "stale"]]

(* onCommitted: the clock is set for the new state; a finished game is locked and settled. *)
Commit(type, g) ==
  /\ game' = g
  /\ queue' = AfterCommit(type)
  /\ synchronize(g)
  /\ locked' = IF ~g.inProgress THEN "finished" ELSE locked

(* Mutant: the next player inherits the deadline. *)
TurnKept(g) == [g EXCEPT !.warned = {}, !.bankruptcyRequired = FALSE]
NextTurn(g) == [g EXCEPT !.deadline = TurnUnits, !.warned = {}, !.bankruptcyRequired = FALSE]
(* The trade that expires first, after one was made, decided or removed. *)
TradesLeft == {Never} \cup 1 .. TradeUnits
Finished(g) == [g EXCEPT !.inProgress = FALSE, !.bankruptcyRequired = FALSE, !.trade = Never]

PlayerSends ==
  /\ game.inProgress /\ commands < MaxCommands
  /\ commands' = commands + 1
  /\ queue' = Append(queue, [type |-> "player", late |-> FALSE, fate |-> "current"])
  /\ UNCHANGED <<game, timer, locked>>

(* What a player's command may do to the clock: end the turn or the game,  *)
(* owe what cannot be paid, change what is traded, or nothing.             *)
PlayerResults(g) ==
  {NextTurn(g), Finished(g), g, [g EXCEPT !.bankruptcyRequired = TRUE]}
    \cup {[g EXCEPT !.trade = t] : t \in TradesLeft}

At(type) == queue # <<>> /\ Head(queue).type = type
Fresh == Head(queue).fate = "current"

PlayerCommits ==
  /\ At("player") /\ Fresh /\ game.inProgress
  /\ \E g \in PlayerResults(game) : Commit("player", g)
  /\ UNCHANGED commands

PlayerRejected ==
  /\ At("player")
  /\ queue' = Tail(queue)
  /\ UNCHANGED <<game, timer, locked, commands>>

(* Mutant: a failure is only reported. *)
FailureIgnored(reason) == UNCHANGED locked

(* lock; the first reason is remembered. *)
LockedFor(reason) == locked' = IF locked = "no" THEN reason ELSE locked

(* The store fails: nothing is committed and the room is locked. *)
HandlingFails ==
  /\ queue # <<>>
  /\ queue' = Tail(queue) /\ LockedFor("failure")
  /\ UNCHANGED <<game, timer, commands>>

(* What the rules say about a timer command when it is handled. *)
Accepted(type) ==
  /\ game.inProgress
  /\ type \in Warnings \cup {"handleTurnTimeout"} => game.limit # 0
  /\ CASE type = "warnTurnThirtySeconds" -> game.warned = {} /\ game.deadline = 2
       [] type = "warnTurnTenSeconds" -> NotYet(game, type) /\ game.deadline = 1
       [] type = "handleTurnTimeout" -> game.deadline = 0
       [] type = "cleanupExpiredTrades" -> game.trade = 0
       [] type = "enforceGameTimeLimit" -> game.limit = 0

(* The third missed turn forfeits the game or only the seat. *)
TimerResults(type) ==
  CASE type \in Warnings -> {[game EXCEPT !.warned = @ \cup {type}]}
    [] type = "handleTurnTimeout" -> {NextTurn(game), Finished(game)}
    [] type = "cleanupExpiredTrades" -> {[game EXCEPT !.trade = t] : t \in TradesLeft}
    [] type = "enforceGameTimeLimit" -> {Finished(game)}

TimerAt(type) == type \in TimerTypes /\ At(type)

TimerCommits(type) ==
  /\ TimerAt(type) /\ Fresh /\ Accepted(type)
  /\ \E g \in TimerResults(type) : Commit(type, g)
  /\ UNCHANGED commands

(* The request is stored: it was accepted before. *)
TimerReplayed(type) ==
  /\ TimerAt(type) /\ Head(queue).fate = "stored"
  /\ queue' = Tail(queue)
  /\ UNCHANGED <<game, timer, locked, commands>>

TimerStale(type) ==
  /\ TimerAt(type) /\ Head(queue).fate = "stale"
  /\ synchronize(game)
  /\ queue' = Tail(queue)
  /\ UNCHANGED <<game, locked, commands>>

(* Another rejection is an error: the room is locked, the clock not set again. *)
TimerRejected(type) ==
  /\ TimerAt(type) /\ Fresh /\ ~Accepted(type)
  /\ queue' = Tail(queue)
  /\ LockedFor(IF Head(queue).late THEN "late" ELSE "punctual")
  /\ UNCHANGED <<game, timer, commands>>

Handle ==
  \/ PlayerCommits \/ PlayerRejected \/ HandlingFails
  \/ \E type \in TimerTypes :
       TimerCommits(type) \/ TimerReplayed(type) \/ TimerStale(type) \/ TimerRejected(type)

Next == Tick \/ Fire \/ PlayerSends \/ Handle

Spec == Init /\ [][Next]_vars

(* Time passes, due timers go off and what is queued is handled. *)
FairSpec == Spec /\ WF_vars(Tick) /\ WF_vars(Fire) /\ WF_vars(Handle)

-----------------------------------------------------------------------------
(* Properties *)

Owed == \E k \in DOMAIN queue : queue[k].type \in TimerTypes /\ queue[k].fate # "stored"

(* A room whose game runs is never left without a timer: one is set, or on *)
(* its way, or the room is locked and says so, unless a bankruptcy has to  *)
(* be declared (synchronize, enqueueInternalCommand, onFailure).           *)
NoSilentStall ==
  game.inProgress /\ ~game.bankruptcyRequired => timer # NoTimer \/ Owed \/ locked # "no"

(* A timer that is handled when it is due is never refused: what the clock *)
(* chooses and what the rules accept agree at every boundary               *)
(* (turnCandidate, nextScheduledRoomCommand, emitTimeoutWarning,           *)
(* resolveTurnTimeout, transitionGameplayTimeout).                         *)
PunctualTimersAccepted == locked # "punctual"

(* A turn whose time is over ends, whatever commands, warnings and expired *)
(* trades come in between, if the room is not locked and nobody is to      *)
(* declare bankruptcy (handleTurnTimeout, commandDeliveryQueue).           *)
TurnsEnd ==
  game.inProgress /\ game.deadline = 0 ~>
    game.deadline # 0 \/ ~game.inProgress \/ game.bankruptcyRequired \/ locked # "no"
=============================================================================
