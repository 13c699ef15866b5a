----------------------------- MODULE GameLobby -----------------------------
(***************************************************************************)
(* The room before the match: how the game server opens a game             *)
(* (rooms/bootstrap-state.ts), the commands of the waiting room            *)
(* (packages/game-core/src/rules/lifecycle.ts), what is stored and         *)
(* published of it, the buttons the page shows there, and the start that   *)
(* turns it into the match of GameRules.                                   *)
(*                                                                         *)
(* Every seat carries the time its player joined, which is the API's, and  *)
(* every command the time of the host that holds the room; no two of these *)
(* clocks agree, and a room may move to another host.  Times are far from  *)
(* the largest safe integer.  The random source is left out.  Until the    *)
(* start, game is the aggregate it will make, and nothing looks at it.     *)
(***************************************************************************)
EXTENDS WebBoard

CONSTANTS
  Users,                   \* players, known to the room by their ids
  Creator,
  Times,                   \* what the clocks of API and hosts can show
  DEFAULT_TURN_TIMEOUT_MS,
  MaxLobbyVersion          \* bound: versions of the waiting room

ASSUME LobbyAssumption ==
  /\ Creator \in Users /\ None \notin Users
  /\ Times \subseteq Nat /\ 0 \in Times /\ IsFiniteSet(Times)
  /\ DEFAULT_TURN_TIMEOUT_MS \in Nat \ {0}
  /\ MaxLobbyVersion \in Nat \ {0} /\ MaxLobbyVersion < MAX_STATE_VERSION

VARIABLE
  lobby  \* the handler's state, its committedAtMs and the players it has admitted; None in a match

roomVars == <<vars, lobby>>

MINIMUM_PLAYERS == GAMEPLAY_POLICY.minimumPlayers
Slots == 0 .. GAMEPLAY_POLICY.maximumPlayers - 1

-----------------------------------------------------------------------------
(* The state of a waiting room *)

PlayerSeat ==
  [playerId : Users, status : {"active", "eliminated"}, cash : {GAMEPLAY_POLICY.startingMatchCash},
   position : {0}, inJail : {FALSE}, joinedAtMs : Nat]

PublishedLobbySeat ==
  [playerId : Users, status : {"active", "eliminated"}, cash : {GAMEPLAY_POLICY.startingMatchCash},
   position : {0}, inJail : {FALSE}]

(* Neither a time nor a seat is null, and the numbers the room and its schemas write out are the policy's. *)
ASSUME LiteralsAssumption ==
  /\ None \notin Nat /\ None \notin PlayerSeat /\ None \notin PublishedLobbySeat
  /\ GAMEPLAY_POLICY.minimumPlayers = 2 /\ GAMEPLAY_POLICY.maximumPlayers = 4
  /\ GAMEPLAY_POLICY.totalHouses = 32 /\ GAMEPLAY_POLICY.totalHotels = 12

createSeat(player, now) ==
  [playerId |-> player, status |-> "active", cash |-> GAMEPLAY_POLICY.startingMatchCash,
   position |-> 0, inJail |-> FALSE, joinedAtMs |-> now]

WaitingGameState(creator, maximumPlayers, seats, created, timeLimit) ==
  [lifecycle |-> "waitingForPlayers", stateVersion |-> 1, creatorId |-> creator,
   maximumPlayers |-> maximumPlayers, seats |-> seats,
   bankCash |-> GAMEPLAY_POLICY.startingBankCash, housesRemaining |-> 32, hotelsRemaining |-> 12,
   createdAtMs |-> created, startedAtMs |-> None, cancelledAtMs |-> None,
   timeLimitMs |-> timeLimit, gameEndAtMs |-> None, turn |-> [phase |-> "notStarted"]]

occupiedSeats(state) == {s \in Slots : state.seats[s] # None}
activeSeats(state) == {s \in occupiedSeats(state) : state.seats[s].status = "active"}
SeatsOf(state, player) == {s \in occupiedSeats(state) : state.seats[s].playerId = player}
FreeSeats(state) == {s \in Slots : s < state.maximumPlayers /\ state.seats[s] = None}

(* A game made by the rules' own command; the room makes its game from the API's answer. *)
createGame(creator, maximumPlayers, timeLimit, now) ==
  WaitingGameState(creator, maximumPlayers,
                   [s \in Slots |-> IF s = 0 THEN createSeat(creator, now) ELSE None], now, timeLimit)

createWaitingState(bootstrap) ==
  WaitingGameState(bootstrap.creatorPlayerId, bootstrap.maximumPlayers,
    [s \in Slots |->
       IF s \in DOMAIN bootstrap.players
         THEN createSeat(bootstrap.players[s].playerId, bootstrap.players[s].joinedAtMs)
         ELSE None],
    bootstrap.createdAtMs, bootstrap.timeLimitMs)

-----------------------------------------------------------------------------
(* Commands (lifecycle.ts) *)

Given(times) == times \ {None}
latestObservedAtMs(state) ==
  Max(Given({state.createdAtMs, state.startedAtMs, state.cancelledAtMs})
      \cup {state.seats[s].joinedAtMs : s \in occupiedSeats(state)})

requireWaiting(state) == state.lifecycle = "waitingForPlayers"

(* A game exists already, so createGame is never accepted. *)
Accepts(state, type, actor, now) ==
  /\ now >= latestObservedAtMs(state) /\ state.stateVersion < MAX_STATE_VERSION
  /\ requireWaiting(state)
  /\ CASE type = "joinGame" -> SeatsOf(state, actor) = {} /\ FreeSeats(state) # {}
       [] type = "leaveGame" -> actor # state.creatorId /\ SeatsOf(state, actor) # {}
       [] type = "cancelGame" -> actor = state.creatorId
       [] type = "startGame" -> /\ actor = state.creatorId
                                /\ Cardinality(occupiedSeats(state)) >= MINIMUM_PLAYERS
       [] OTHER -> FALSE

withVersionAndRng(state) == [state EXCEPT !.stateVersion = @ + 1]

joinGame(state, actor, now) ==
  withVersionAndRng([state EXCEPT !.seats[Min(FreeSeats(state))] = createSeat(actor, now)])

leaveGame(state, actor) ==
  withVersionAndRng([state EXCEPT !.seats[Min(SeatsOf(state, actor))] = None])

cancelGame(state, now) ==
  withVersionAndRng([state EXCEPT !.lifecycle = "cancelled", !.cancelledAtMs = now,
                                  !.turn = [phase |-> "finished"]])

startGame(state, now) ==
  withVersionAndRng(
    [state EXCEPT !.lifecycle = "inProgress", !.startedAtMs = now,
                  !.gameEndAtMs = IF state.timeLimitMs = None THEN None ELSE now + state.timeLimitMs,
                  !.turn = [phase |-> "awaitingRoll", currentSeatIndex |-> 0, startedAtMs |-> now,
                            deadlineAtMs |-> now + DEFAULT_TURN_TIMEOUT_MS]])

transition(state, type, actor, now) ==
  CASE type = "joinGame" -> joinGame(state, actor, now)
    [] type = "leaveGame" -> leaveGame(state, actor)
    [] type = "cancelGame" -> cancelGame(state, now)
    [] type = "startGame" -> startGame(state, now)

DomainEvent(state, next, type, actor) ==
  LET players == Cardinality(occupiedSeats(next)) IN
  CASE type = "joinGame" -> [type |-> "playerJoined", playerId |-> actor,
                             seatIndex |-> Min(SeatsOf(next, actor)), totalPlayers |-> players]
    [] type = "leaveGame" -> [type |-> "playerLeft", playerId |-> actor,
                              seatIndex |-> Min(SeatsOf(state, actor)), remainingPlayers |-> players]
    [] type = "cancelGame" -> [type |-> "gameCancelled", playersCount |-> players]
    [] type = "startGame" -> [type |-> "gameStarted", totalPlayers |-> players]

LifecycleEventPayloadSchema(event) ==
  CASE event.type = "playerJoined" -> event.seatIndex \in 0 .. 3 /\ event.totalPlayers \in 1 .. 4
    [] event.type = "playerLeft" -> event.seatIndex \in 0 .. 3 /\ event.remainingPlayers \in 1 .. 3
    [] event.type = "gameStarted" -> event.totalPlayers \in 2 .. 4
    [] event.type = "gameCancelled" -> event.playersCount \in 1 .. 4

-----------------------------------------------------------------------------
(* What can be stored (serialization/snapshot.ts) and can start a match *)

TimesInOrder(times) == \A i \in 2 .. Len(times) : times[i] # None => times[i - 1] <= times[i]

hydrateSeat(seat) == seat # None => seat \in PlayerSeat

hydrateLifecycle(state) ==
  CASE state.lifecycle = "waitingForPlayers" ->
         /\ state.turn = [phase |-> "notStarted"]
         /\ Given({state.startedAtMs, state.cancelledAtMs, state.gameEndAtMs}) = {}
    [] state.lifecycle = "inProgress" ->
         /\ state.turn.phase = "awaitingRoll" /\ state.cancelledAtMs = None
         /\ state.turn.currentSeatIndex \in activeSeats(state)
         /\ TimesInOrder(<<state.createdAtMs, state.startedAtMs, state.turn.startedAtMs,
                           state.turn.deadlineAtMs>>)
         /\ TimesInOrder(<<state.startedAtMs, state.gameEndAtMs>>)
    [] state.lifecycle = "cancelled" ->
         /\ state.turn = [phase |-> "finished"] /\ state.startedAtMs = None
         /\ state.gameEndAtMs = None /\ TimesInOrder(<<state.createdAtMs, state.cancelledAtMs>>)

UniquePlayers(state) == \A s, t \in occupiedSeats(state) :
  state.seats[s].playerId = state.seats[t].playerId => s = t

CreatorInSeatZero(state) == state.seats[0] # None /\ state.seats[0].playerId = state.creatorId

hydrateState(state) ==
  /\ state.stateVersion \in 1 .. MAX_STATE_VERSION
  /\ state.maximumPlayers \in MINIMUM_PLAYERS .. GAMEPLAY_POLICY.maximumPlayers
  /\ state.housesRemaining \in 0 .. 32 /\ state.hotelsRemaining \in 0 .. 12
  /\ \A s \in Slots : hydrateSeat(state.seats[s])
  /\ \A s \in occupiedSeats(state) :
       s < state.maximumPlayers /\ state.seats[s].joinedAtMs >= state.createdAtMs
  /\ hydrateLifecycle(state) /\ CreatorInSeatZero(state) /\ UniquePlayers(state)
  /\ activeSeats(state) # {}
  /\ requireWaiting(state) => activeSeats(state) = occupiedSeats(state)
  /\ state.lifecycle = "inProgress" => Cardinality(occupiedSeats(state)) >= MINIMUM_PLAYERS

(* What initializeGameplayAggregate makes a match of: a start that nothing has been played in. *)
validLifecycleInput(state) ==
  /\ state.lifecycle = "inProgress" /\ state.stateVersion \in 1 .. MAX_STATE_VERSION
  /\ state.maximumPlayers \in MINIMUM_PLAYERS .. GAMEPLAY_POLICY.maximumPlayers
  /\ state.bankCash = GAMEPLAY_POLICY.startingBankCash
  /\ state.housesRemaining = GAMEPLAY_POLICY.totalHouses
  /\ state.hotelsRemaining = GAMEPLAY_POLICY.totalHotels
  /\ TimesInOrder(<<state.createdAtMs, state.startedAtMs>>) /\ state.cancelledAtMs = None
  /\ state.gameEndAtMs =
       IF state.timeLimitMs = None THEN None ELSE state.startedAtMs + state.timeLimitMs
  /\ state.turn = [phase |-> "awaitingRoll", currentSeatIndex |-> 0,
                   startedAtMs |-> state.startedAtMs,
                   deadlineAtMs |-> state.startedAtMs + DEFAULT_TURN_TIMEOUT_MS]
  /\ \A s \in occupiedSeats(state) :
       /\ state.seats[s] \in PlayerSeat /\ state.seats[s].status = "active"
       /\ state.seats[s].joinedAtMs >= state.createdAtMs /\ s < state.maximumPlayers
  /\ UniquePlayers(state) /\ CreatorInSeatZero(state)
  /\ Cardinality(occupiedSeats(state)) >= MINIMUM_PLAYERS

-----------------------------------------------------------------------------
(* What is published (game-room-state.ts), the contract's schema of it and the page *)

PublicLobbySeat(seat) ==
  IF seat = None THEN None
  ELSE [f \in {"playerId", "status", "cash", "position", "inJail"} |-> seat[f]]

publicLifecycleState(state) ==
  [f \in (DOMAIN state \ {"timeLimitMs"}) \cup {"currentPlayers", "activePlayers"} |->
     CASE f = "seats" -> [s \in Slots |-> PublicLobbySeat(state.seats[s])]
       [] f = "currentPlayers" -> Cardinality(occupiedSeats(state))
       [] f = "activePlayers" -> Cardinality(activeSeats(state))
       [] OTHER -> state[f]]

TurnStateSchema(turn) ==
  \/ turn.phase \in {"notStarted", "finished"} /\ DOMAIN turn = {"phase"}
  \/ turn.phase = "awaitingRoll" /\ turn.currentSeatIndex \in 0 .. 3

LifecycleIsConsistent(pub) ==
  LET given == {f \in {"startedAtMs", "cancelledAtMs", "gameEndAtMs"} : pub[f] # None} IN
  \/ pub.lifecycle = "waitingForPlayers" /\ pub.turn.phase = "notStarted" /\ given = {}
  \/ /\ pub.lifecycle = "inProgress" /\ pub.turn.phase = "awaitingRoll"
     /\ "startedAtMs" \in given /\ "cancelledAtMs" \notin given
     /\ TimesInOrder(<<pub.startedAtMs, pub.turn.startedAtMs, pub.turn.deadlineAtMs>>)
     /\ pub.currentPlayers >= MINIMUM_PLAYERS
     /\ pub.turn.currentSeatIndex \in activeSeats(pub)
  \/ pub.lifecycle = "cancelled" /\ pub.turn.phase = "finished" /\ given = {"cancelledAtMs"}

PublicGameStateSchema(pub) ==
  /\ pub.maximumPlayers \in 2 .. 4 /\ InMatchCash(pub.bankCash)
  /\ pub.housesRemaining \in 0 .. 32 /\ pub.hotelsRemaining \in 0 .. 12
  /\ pub.currentPlayers = Cardinality(occupiedSeats(pub))
  /\ pub.activePlayers = Cardinality(activeSeats(pub))
  /\ UniquePlayers(pub) /\ CreatorInSeatZero(pub)
  /\ \A s \in occupiedSeats(pub) : s < pub.maximumPlayers /\ InMatchCash(pub.seats[s].cash)
  /\ TurnStateSchema(pub.turn) /\ LifecycleIsConsistent(pub)
  /\ TimesInOrder(<<pub.createdAtMs, pub.startedAtMs, pub.gameEndAtMs>>)
  /\ TimesInOrder(<<pub.createdAtMs, pub.cancelledAtMs>>)

(* The page's view of a room without a match. *)
waitingPlayers(pub) == {pub.seats[s].playerId : s \in occupiedSeats(pub)}

LobbyStatus(pub) ==
  CASE pub.lifecycle = "waitingForPlayers" -> "waiting"
    [] pub.lifecycle = "inProgress" -> "inProgress"
    [] OTHER -> "finished"

(* The room's cancel, start and leave buttons, for a player who has a seat. *)
LobbyButtons(pub, me) ==
  LET isCreator == pub.creatorId = me IN
  IF me \notin waitingPlayers(pub) \/ LobbyStatus(pub) # "waiting" THEN {}
  ELSE If(isCreator, {"cancelGame"})
       \cup If(isCreator /\ Cardinality(waitingPlayers(pub)) >= 2, {"startGame"})
       \cup If(~isCreator, {"leaveGame"})

-----------------------------------------------------------------------------
(* The room's command handler (command-handler.ts) *)

committedTimestampFloor == latestObservedAtMs(lobby.state)

TimestampOfHost(t) == t
(* The host's time, but never before what the room has seen. *)
commandTimestampMs(t) == Max({t, committedTimestampFloor, lobby.committedAtMs})

(* The match a start leads to; here versions count from its start. *)
Begin == lobby' = None /\ game' = initializeGameplayAggregate

(* What is stored of a start is the match it makes. *)
Storable(next) ==
  IF next.lifecycle = "inProgress" THEN hydrateGameplayState(initializeGameplayAggregate)
  ELSE hydrateState(next)

(* The event is parsed and the result serialized; when that fails nothing is stored. *)
CommitLobby(type, actor, next, committedAt, attached) ==
  /\ IF LifecycleEventPayloadSchema(DomainEvent(lobby.state, next, type, actor)) /\ Storable(next)
       THEN /\ UNCHANGED refused
            /\ IF type = "startGame" THEN Begin
               ELSE /\ lobby' = [state |-> next, committedAtMs |-> committedAt, attached |-> attached]
                    /\ UNCHANGED game
       ELSE refused' = refused \cup {type} /\ UNCHANGED <<game, lobby>>
  /\ UNCHANGED <<timeUp, silent>>

InLobby == lobby # None /\ lobby.state.stateVersion < MaxLobbyVersion

(* A player with a ticket whom the API has given a seat and a time of joining.  A time of an   *)
(* earlier join than the latest in the room, or a seat that is not the first free, is refused. *)
ensureAdmittedPlayer(player, seat, joinedAt) ==
  LET floor == committedTimestampFloor IN
  /\ InLobby /\ lobby.state.seats[seat] = None /\ SeatsOf(lobby.state, player) = {}
  /\ Accepts(lobby.state, "joinGame", player, joinedAt)
  /\ \E next \in {joinGame(lobby.state, player, joinedAt)} :
       /\ next.seats[seat] # None
       /\ CommitLobby("joinGame", player, next, Max({joinedAt, lobby.committedAtMs, floor}),
                      lobby.attached \cup {player})

(* A command of a player the room has admitted, who may have left since.  Starts are followed *)
(* when exactly the seats of the match are taken.                                              *)
HandleLifecycle(actor, type, t) ==
  /\ InLobby /\ actor \in lobby.attached
  /\ \E now \in {commandTimestampMs(t)} :
       /\ Accepts(lobby.state, type, actor, now)
       /\ \E next \in {transition(lobby.state, type, actor, now)} :
            /\ type = "startGame" => validLifecycleInput(next) /\ occupiedSeats(next) = Seats
            /\ CommitLobby(type, actor, next, now, lobby.attached)

(* Another process loads the checkpoint, as of the time the database noted for it. *)
Reload ==
  /\ lobby # None /\ requireWaiting(lobby.state)
  /\ \E t \in Times :
       lobby' = [lobby EXCEPT !.committedAtMs = Max({t, committedTimestampFloor})]
  /\ UNCHANGED vars

-----------------------------------------------------------------------------
(* A room from its first checkpoint on *)

TimeLimit == IF TimeLimited THEN 1 ELSE None

(* The API's answers: the creator in seat 0 since the creation, others in any order. *)
OtherPlayers(taken) ==
  {players \in [taken -> [playerId : Users \ {Creator}, joinedAtMs : Times]] :
     \A s, t \in taken : players[s].playerId = players[t].playerId => s = t}

Bootstrap(others) ==
  [creatorPlayerId |-> Creator, maximumPlayers |-> Max(Seats) + 1, createdAtMs |-> 0,
   timeLimitMs |-> TimeLimit,
   players |-> [s \in {0} \cup DOMAIN others |->
                  IF s = 0 THEN [playerId |-> Creator, joinedAtMs |-> 0] ELSE others[s]]]

Bootstraps ==
  {Bootstrap(others) : others \in UNION {OtherPlayers(taken) : taken \in SUBSET (1 .. Max(Seats))}}

RoomInit ==
  /\ Init
  /\ \E bootstrap \in Bootstraps, t \in Times : \E state \in {createWaitingState(bootstrap)} :
       lobby = [state |-> state, committedAtMs |-> Max({t, latestObservedAtMs(state)}),
                attached |-> {}]

LifecycleRoomCommand == {"joinGame", "leaveGame", "cancelGame", "startGame"}

(* onAuth of a player who holds his seat already, from the bootstrap or an earlier connection. *)
AdmissionOfSeated ==
  /\ InLobby
  /\ \E player \in waitingPlayers(lobby.state) \ lobby.attached :
       lobby' = [lobby EXCEPT !.attached = @ \cup {player}]
  /\ UNCHANGED vars
Admission ==
  \E player \in Users, seat \in Slots, joinedAt \in Times : ensureAdmittedPlayer(player, seat, joinedAt)
Lifecycle ==
  \E actor \in Users, type \in LifecycleRoomCommand, t \in Times : HandleLifecycle(actor, type, t)
Match == lobby = None /\ Next /\ UNCHANGED lobby

RoomNext == Admission \/ AdmissionOfSeated \/ Lifecycle \/ Reload \/ Match

RoomSpec == RoomInit /\ [][RoomNext]_roomVars

-----------------------------------------------------------------------------
(* Properties *)

(* What becomes of a button's command: the room accepts it, can report and store what it does, *)
(* and a start can be played.                                                                  *)
HandledInLobby(actor, type, t) ==
  \E now \in {commandTimestampMs(t)} :
    /\ Accepts(lobby.state, type, actor, now)
    /\ \E next \in {transition(lobby.state, type, actor, now)} :
         /\ LifecycleEventPayloadSchema(DomainEvent(lobby.state, next, type, actor))
         /\ Storable(next)
         /\ type = "startGame" => validLifecycleInput(next)

(* Whoever came, left and came back, in whatever order their joins arrived and whatever the    *)
(* hosts' clocks show, every waiting room can be read by the clients, and every button the page *)
(* shows in it works: the command is accepted, its result can be stored, and a start leads to a *)
(* match.                                                                                       *)
LobbyIsPlayable ==
  lobby # None =>
    \E pub \in {publicLifecycleState(lobby.state)} :
      /\ PublicGameStateSchema(pub)
      /\ \A me \in Users, t \in Times : \A type \in LobbyButtons(pub, me) : HandledInLobby(me, type, t)
=============================================================================
