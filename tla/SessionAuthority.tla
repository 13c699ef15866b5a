-------------------------- MODULE SessionAuthority --------------------------
(***************************************************************************)
(* One game session as the API keeps it, the coins staked on it, and the   *)
(* rows and calls through which the realtime server drives it              *)
(* (apps/api/src/game-sessions/game-sessions.service.ts, internal/         *)
(* internal-session.service.ts, internal-settlement.service.ts,            *)
(* reconciliation.service.ts; apps/game-server/src/rooms/game-room.ts).    *)
(*                                                                         *)
(* Every API operation is one transaction under the session's advisory     *)
(* lock, so it is one step.  A room's operation is not: it is a durable    *)
(* room commit, an API call and the work around them, each a step that     *)
(* the other clients, the API and the reconciliation interleave with, and  *)
(* after each of which the room may be gone.  What RoomCommands shows of   *)
(* the Room objects is used here: they act on one durable game, so a       *)
(* single room that comes and goes stands for all of them.                 *)
(*                                                                         *)
(* An admission (1, 2, ...) is one join of a user: its reservation, its    *)
(* player id, its seat row and its latest ticket; a user who left and      *)
(* joins again gets another.  Admission 1 is the creator's.  A ticket is   *)
(* unused, used by the process that serves the room, or dead (expired, or  *)
(* used by a process that is gone).                                        *)
(***************************************************************************)
EXTENDS Integers, Sequences, FiniteSets

CONSTANTS
  Users,           \* accounts; one of them creates the session
  Creator,
  StartingCoin,    \* available coins of each account at the start
  CoinWon,         \* account_coin_won of each account's earlier sessions
  EntryCoin,       \* entry_coin of the game definition
  MaxAccountCoin,  \* MAX_ACCOUNT_COIN
  MaximumPlayers,  \* seats of the session
  MaxAdmissions,   \* bound: joins of the session, the creator's included
  MaxRequests      \* bound: leave or cancel requests of one admission

ASSUME CreatorAssumption == Creator \in Users
ASSUME CoinAssumption ==
  /\ StartingCoin \in [Users -> Nat] /\ CoinWon \in [Users -> Nat]
  /\ EntryCoin \in Nat /\ MaxAccountCoin \in Nat
ASSUME BoundsAssumption ==
  /\ MaximumPlayers \in Nat \ {0} /\ MaxAdmissions \in Nat \ {0} /\ MaxRequests \in Nat

VARIABLES
  session,         \* game_sessions.lifecycle; "none" before createSession
  available,       \* coin_accounts.available_coin
  reserved,        \* coin_accounts.reserved_coin
  admissions,      \* coin_reservations, session_players and realtime_tickets
  settlement,      \* game_settlements row
  finalized,       \* leave and cancel operations the API has committed
  recon,           \* where ReconciliationService.run is
  leased,          \* the room has a lease row (api_room_materializations)
  game,            \* the durable checkpoint and terminal proof of the room
  finalizations,   \* session_finalizations rows
  offline,         \* abort_deadline_at has passed
  room,            \* memory of the GameRoom object that serves the session
  auth,            \* how far onAuth and onJoin are with each admission
  connected        \* admissions with an attached client

accountVars == <<available, reserved>>
apiVars == <<session, accountVars, admissions, settlement, finalized>>
durableVars == <<leased, game, finalizations>>
roomVars == <<room, auth, connected>>
vars == <<apiVars, recon, durableVars, offline, roomVars>>

Ids == 1 .. MaxAdmissions
SeatIndexes == 0 .. MaximumPlayers - 1
Sessions == {"none", "open", "active", "recovery_required", "settled", "cancelled"}
Finalization == [id : Ids, action : {"leave", "cancel"}, n : 1 .. MaxRequests]

Admission == [user : Users, status : {"reserved", "released", "captured"},
              seat : SeatIndexes, seated : BOOLEAN,
              ticket : {"unused", "used", "dead"}, consumed : BOOLEAN]

EmptySeats == [s \in SeatIndexes |-> 0]
NoBoot == [session |-> "none", seats |-> EmptySeats]
NoFin == [id |-> 0, action |-> "none", n |-> 0, stored |-> FALSE]
RoomDown == [phase |-> "down", boot |-> NoBoot, starting |-> FALSE,
             published |-> FALSE, fin |-> NoFin, call |-> "none"]
NoAuth == [i \in Ids |-> "none"]

Init ==
  /\ session = "none"
  /\ available = StartingCoin
  /\ reserved = [u \in Users |-> 0]
  /\ admissions = <<>>
  /\ settlement = [kind |-> "none", winner |-> 0]
  /\ finalized = {}
  /\ recon = "finalize"
  /\ leased = FALSE
  /\ game = [status |-> "none", seats |-> EmptySeats, winner |-> 0, afterRecovery |-> FALSE]
  /\ finalizations = {}
  /\ offline = FALSE
  /\ room = RoomDown
  /\ auth = NoAuth
  /\ connected = {}

-----------------------------------------------------------------------------
(* Queries the operations share. *)
Issued == DOMAIN admissions
Reserved == {i \in Issued : admissions[i].status = "reserved"}
Captured == {i \in Issued : admissions[i].status = "captured"}
Seated == {i \in Issued : admissions[i].seated}

(* lockParticipants: reserved and seated. *)
Participants == Reserved \cap Seated

InGame == {game.seats[s] : s \in SeatIndexes} \ {0}
FreeSeats(taken) == SeatIndexes \ taken
FirstFree(taken) == CHOOSE s \in FreeSeats(taken) : \A t \in FreeSeats(taken) : s <= t
GameTaken == {s \in SeatIndexes : game.seats[s] # 0}
ApiTaken == {admissions[i].seat : i \in Seated}

(* The api_session_finalizations view: what the API has still to apply. *)
PendingFinalizations ==
  {f \in finalizations : \/ f.action = "leave" /\ f.id \in Reserved
                         \/ f.action = "cancel" /\ session = "open"}

HasProof == game.status = "finished"

(* The coin movements of releaseReservation on a set of admissions. *)
CoinsOf(u, ids) == EntryCoin * Cardinality({i \in ids : admissions[i].user = u})
ReleaseOnlyAvailable(ids) ==
  /\ available' = [u \in Users |-> available[u] + CoinsOf(u, ids)]
  /\ UNCHANGED reserved
ReleaseCoins(ids) ==
  /\ available' = [u \in Users |-> available[u] + CoinsOf(u, ids)]
  /\ reserved' = [u \in Users |-> reserved[u] - CoinsOf(u, ids)]

(* Tickets are looked at only while the reservation stands; when it ends,  *)
(* what became of them is forgotten.                                       *)
Ended(admission, status) ==
  [admission EXCEPT !.status = status, !.ticket = "dead", !.consumed = FALSE]

(* Releasing ends the reservation and its seat row. *)
ReleasedAdmissions(ids) ==
  [i \in Issued |-> IF i \in ids
     THEN [Ended(admissions[i], "released") EXCEPT !.seated = FALSE] ELSE admissions[i]]

-----------------------------------------------------------------------------
(* HTTP operations of players. *)

(* reserveAndSeat and issueTicket. *)
reserveAndSeat(u, seat) ==
  /\ available[u] >= EntryCoin
  /\ Len(admissions) < MaxAdmissions
  /\ available' = [available EXCEPT ![u] = @ - EntryCoin]
  /\ reserved' = [reserved EXCEPT ![u] = @ + EntryCoin]
  /\ admissions' = Append(admissions,
       [user |-> u, status |-> "reserved", seat |-> seat, seated |-> TRUE,
        ticket |-> "unused", consumed |-> FALSE])

createSession ==
  /\ session = "none"
  /\ session' = "open"
  /\ reserveAndSeat(Creator, 0)
  /\ UNCHANGED <<settlement, finalized, recon, durableVars, offline, roomVars>>

joinSession(u) ==
  /\ session = "open"
  /\ \A i \in Seated : admissions[i].user # u
  /\ FreeSeats(ApiTaken) # {}
  /\ reserveAndSeat(u, FirstFree(ApiTaken))
  /\ UNCHANGED <<session, settlement, finalized, recon, durableVars,
                 offline, roomVars>>

(* reconnectTicket and the replay of an admission: a fresh ticket replaces *)
(* the unconsumed one or is added to the consumed ones.                    *)
reissueAdmission(i) ==
  /\ session \in {"open", "active"}
  /\ i \in Participants
  /\ admissions[i].ticket # "unused"
  /\ admissions' = [admissions EXCEPT ![i].ticket = "unused"]
  /\ UNCHANGED <<session, accountVars, settlement, finalized, recon,
                 durableVars, offline, roomVars>>

(* releaseJoinIntentForUser without and with the room's binding. *)
Release(i) ==
  /\ session = "open"
  /\ i # 1
  /\ i \in Participants
  /\ ReleaseCoins({i})
  /\ admissions' = ReleasedAdmissions({i})
  /\ UNCHANGED <<session, settlement>>

releaseJoinIntent(i) ==
  /\ ~leased
  /\ Release(i)
  /\ UNCHANGED <<finalized, recon, durableVars, offline, roomVars>>

CancelOthers ==
  /\ session = "open"
  /\ session' = "cancelled"
  /\ ReleaseCoins(Reserved \ {1})
  /\ admissions' = ReleasedAdmissions(Reserved \ {1})
  /\ UNCHANGED settlement

(* cancelSessionForUser: every reservation of the session is released. *)
Cancel ==
  /\ session = "open"
  /\ session' = "cancelled"
  /\ ReleaseCoins(Reserved)
  /\ admissions' = ReleasedAdmissions(Reserved)
  /\ UNCHANGED settlement

cancelSession ==
  /\ ~leased
  /\ Cancel
  /\ UNCHANGED <<finalized, recon, durableVars, offline, roomVars>>

(* finalizeRoomCommand: applied once per request; ok tells its caller      *)
(* whether the operation is committed.                                     *)
finalizeRoomCommand(f, ok) ==
  \/ /\ f \in finalized
     /\ ok
     /\ UNCHANGED apiVars
  \/ /\ f \notin finalized
     /\ ok
     /\ \/ f.action = "leave" /\ Release(f.id)
        \/ f.action = "cancel" /\ 1 \in Seated /\ Cancel
     /\ finalized' = finalized \cup {f}
  \/ /\ f \notin finalized
     /\ ~ok
     /\ \/ session # "open"
        \/ f.action = "leave" /\ f.id \notin Participants
     /\ UNCHANGED apiVars

-----------------------------------------------------------------------------
(* Internal operations the room calls. *)

BootstrapRegardless == session \notin {"none", "cancelled"} /\ 1 \in Seated

(* bootstrap answers unless a leave or cancel is still to be finalized. *)
BootstrapAnswers ==
  /\ session \notin {"none", "cancelled"}
  /\ PendingFinalizations = {}
  /\ 1 \in Seated
BootstrapSeats ==
  [s \in SeatIndexes |-> IF \E i \in Seated : admissions[i].seat = s
                           THEN CHOOSE i \in Seated : admissions[i].seat = s ELSE 0]

ReadyAlone == \A i \in Participants : admissions[i].consumed

(* Every participant has consumed a ticket and there are two of them. *)
Ready ==
  /\ Cardinality(Participants) >= 2
  /\ \A i \in Participants : admissions[i].consumed

(* markStarted: a repeated call finds its operation row; started tells the *)
(* caller that the session is active.                                      *)
markStarted(started) ==
  \/ /\ session \in {"active", "recovery_required", "settled"}
     /\ UNCHANGED session
  \/ /\ session = "open"
     /\ Ready /\ started
     /\ session' = "active"
  \/ /\ session = "cancelled" \/ (session = "open" /\ ~Ready)
     /\ ~started
     /\ UNCHANGED session

(* assertPayoutFits, for the prize of all participants: neither the        *)
(* account's coins nor the winnings its leaderboard row counts overflow.   *)
Prize(ids) == EntryCoin * Cardinality(ids)
PayoutFits(u, ids) ==
  /\ available[u] + Prize(ids) <= MaxAccountCoin
  /\ CoinWon[u] + Prize(ids) <= MaxAccountCoin

(* settle refuses a proof whose winner is not a participant. *)
ProofPayable ==
  /\ Cardinality(Participants) >= 2
  /\ game.winner \in Participants
  /\ PayoutFits(admissions[game.winner].user, Participants)

settle ==
  /\ settlement.kind = "none"
  /\ session \in {"active", "recovery_required"}
  /\ HasProof
  /\ ProofPayable
  /\ LET w == admissions[game.winner].user
     IN available' = [available EXCEPT ![w] = @ + Prize(Participants)]
  /\ reserved' = [u \in Users |-> reserved[u] - CoinsOf(u, Participants)]
  /\ admissions' = [i \in Issued |-> IF i \in Participants
       THEN Ended(admissions[i], "captured") ELSE admissions[i]]
  /\ settlement' = [kind |-> "completed", winner |-> game.winner]
  /\ session' = "settled"
  /\ UNCHANGED finalized

AbortAgain ==
  /\ ReleaseCoins(Participants)
  /\ admissions' = [i \in Issued |-> IF i \in Participants
       THEN Ended(admissions[i], "released") ELSE admissions[i]]
  /\ settlement' = [kind |-> "aborted", winner |-> 0]
  /\ session' = "settled"
  /\ UNCHANGED finalized

(* abort refunds the participants; it reads neither presence nor proof. *)
abort ==
  /\ settlement.kind = "none"
  /\ session \in {"active", "recovery_required"}
  /\ ReleaseCoins(Participants)
  /\ admissions' = [i \in Issued |-> IF i \in Participants
       THEN Ended(admissions[i], "released") ELSE admissions[i]]
  /\ settlement' = [kind |-> "aborted", winner |-> 0]
  /\ session' = "settled"
  /\ UNCHANGED finalized

(* abortSession of the internal API, called by an operator. *)
abortSession == abort /\ UNCHANGED <<recon, durableVars, offline, roomVars>>

-----------------------------------------------------------------------------
(* onCreate: bootstrap, acquire the lease, bootstrap again, load or make   *)
(* the checkpoint, and report a start the API has not heard of.            *)
Probe ==
  /\ room.phase = "down"
  /\ BootstrapAnswers
  /\ room' = [room EXCEPT !.phase = "probed"]
  /\ UNCHANGED <<apiVars, recon, durableVars, offline, auth, connected>>

AcquireLease ==
  /\ room.phase = "probed"
  /\ leased' = TRUE
  /\ room' = [room EXCEPT !.phase = "leased"]
  /\ UNCHANGED <<apiVars, recon, game, finalizations, offline, auth, connected>>

Bootstrap ==
  /\ room.phase = "leased"
  /\ BootstrapAnswers
  /\ room' = [room EXCEPT !.phase = "booted",
                          !.boot = [session |-> session, seats |-> BootstrapSeats]]
  /\ UNCHANGED <<apiVars, recon, durableVars, offline, auth, connected>>

Gameplay == game.status \in {"inProgress", "finished"}
Serving == [RoomDown EXCEPT !.phase = "up"]

InitializeGame ==
  /\ room.phase = "booted"
  /\ game.status = "none"
  /\ room.boot.session = "open"
  /\ game' = [game EXCEPT !.status = "waiting", !.seats = room.boot.seats]
  /\ room' = Serving
  /\ UNCHANGED <<apiVars, recon, leased, finalizations, offline, auth, connected>>

LoadGame ==
  /\ room.phase = "booted"
  /\ game.status # "none"
  /\ IF Gameplay
       THEN IF room.boot.session = "open"
              THEN markStarted(TRUE)
              ELSE UNCHANGED session
       ELSE room.boot.session = "open" /\ UNCHANGED session
  /\ room' = Serving
  /\ UNCHANGED <<accountVars, admissions, settlement, finalized, recon,
                 durableVars, offline, auth, connected>>

(* A refused or failed step of onCreate. *)
CreateFails ==
  /\ room.phase \in {"probed", "leased", "booted"}
  /\ room' = RoomDown
  /\ UNCHANGED <<apiVars, recon, durableVars, offline, auth, connected>>

(* The room is disposed, loses its lease, or its process dies; a new       *)
(* process does not accept the tickets the old one consumed.               *)
RoomGone ==
  /\ room.phase = "up"
  /\ room' = RoomDown
  /\ auth' = NoAuth
  /\ connected' = {}
  /\ \/ UNCHANGED admissions
     \/ admissions' = [i \in Issued |-> [admissions[i] EXCEPT
                          !.ticket = IF @ = "used" THEN "dead" ELSE @]]
  /\ UNCHANGED <<session, accountVars, settlement, finalized, recon,
                 durableVars, offline>>

-----------------------------------------------------------------------------
(* onAuth and onJoin.  onAuth refuses while a start or a finalization is   *)
(* open; from then on it counts as in flight until it is admitted or fails.*)
InFlight == {i \in Ids : auth[i] \in {"consumed", "bootstrapped"}}
Undecided == room.starting \/ room.fin # NoFin
SetAuth(i, stage) == auth' = [auth EXCEPT ![i] = stage]

(* consumeTicket, of an unused ticket or again by the same process. *)
consumeTicket(i) ==
  /\ room.phase = "up" /\ ~Undecided
  /\ auth[i] = "none" /\ i \notin connected
  /\ session \in {"open", "active"}
  /\ i \in Participants
  /\ admissions[i].ticket \in {"unused", "used"}
  /\ admissions' = [admissions EXCEPT ![i].ticket = "used", ![i].consumed = TRUE]
  /\ SetAuth(i, "consumed")
  /\ UNCHANGED <<session, accountVars, settlement, finalized, recon,
                 durableVars, offline, room, connected>>

AuthBootstrap(i) ==
  /\ auth[i] = "consumed"
  /\ BootstrapAnswers
  /\ session \in {"open", "active"}
  /\ i \in Seated
  /\ SetAuth(i, "bootstrapped")
  /\ UNCHANGED <<apiVars, recon, durableVars, offline, room, connected>>

(* ensureAdmittedPlayerSerial: the player holds the seat already, or joins *)
(* a waiting game whose first free seat is the one the API gave.           *)
AdmitSeat(i) == admissions[i].seat = FirstFree(GameTaken)

ensureAdmittedPlayer(i) ==
  /\ auth[i] = "bootstrapped"
  /\ \/ /\ game.seats[admissions[i].seat] = i
        /\ SetAuth(i, "admitted")
        /\ UNCHANGED game
     \/ /\ i \notin InGame
        /\ game.status = "waiting"
        /\ FreeSeats(GameTaken) # {}
        /\ AdmitSeat(i)
        /\ game' = [game EXCEPT !.seats[admissions[i].seat] = i]
        /\ SetAuth(i, "admitted") \/ SetAuth(i, "none")
  /\ UNCHANGED <<apiVars, recon, leased, finalizations, offline, room, connected>>

(* A refusal, a failed call, or a client that never completes its join. *)
AuthFails(i) ==
  /\ auth[i] # "none"
  /\ SetAuth(i, "none")
  /\ UNCHANGED <<apiVars, recon, durableVars, offline, room, connected>>

onJoin(i) ==
  /\ auth[i] = "admitted"
  /\ BootstrapAnswers
  /\ session \in {"open", "active"}
  /\ connected' = connected \cup {i}
  /\ SetAuth(i, "none")
  /\ offline' = FALSE
  /\ UNCHANGED <<apiVars, recon, durableVars, room>>

detachClient(i) ==
  /\ i \in connected
  /\ connected' = connected \ {i}
  /\ UNCHANGED <<apiVars, recon, durableVars, offline, room, auth>>

-----------------------------------------------------------------------------
(* Room commands.  The delivery queue holds one at a time (room.call); a   *)
(* start and a finalization first wait for authentications in flight.      *)
QueueFree == room.phase = "up" /\ room.call = "none"
OpenForCommands == QueueFree /\ ~Undecided
RoomStep(r) == room' = r /\ UNCHANGED <<auth, connected>>

(* Any client's startGame closes the room until it is decided; only the    *)
(* creator's, in a waiting game, can be accepted.                          *)
BeginStart(i) ==
  /\ OpenForCommands
  /\ i \in connected
  /\ RoomStep([room EXCEPT !.starting = TRUE,
       !.call = IF i = 1 /\ game.status = "waiting" THEN "start" ELSE "no start"])
  /\ UNCHANGED <<apiVars, recon, durableVars, offline>>

(* The game starts durably; if the reply is lost the room stays undecided. *)
CommitStart ==
  /\ room.call = "start" /\ InFlight = {}
  /\ game.status = "waiting"
  /\ Cardinality(InGame) >= 2
  /\ game' = [game EXCEPT !.status = "inProgress"]
  /\ \/ RoomStep([room EXCEPT !.call = "started", !.published = TRUE])
     \/ RoomStep([room EXCEPT !.call = "none"])
  /\ UNCHANGED <<apiVars, recon, leased, finalizations, offline>>

RejectStart ==
  /\ room.call \in {"start", "no start"} /\ InFlight = {}
  /\ RoomStep([room EXCEPT !.call = "none", !.starting = FALSE])
  /\ UNCHANGED <<apiVars, recon, durableVars, offline>>

(* The room tells the API; without an answer it stays undecided. *)
ReportStart ==
  /\ room.call = "started"
  /\ \E started \in BOOLEAN :
       /\ markStarted(started)
       /\ \/ RoomStep([room EXCEPT !.call = "none"])
          \/ /\ started
             /\ RoomStep([room EXCEPT !.call = "none", !.starting = FALSE, !.published = FALSE])
  /\ UNCHANGED <<accountVars, admissions, settlement, finalized, recon,
                 durableVars, offline>>

RetryStart ==
  /\ QueueFree
  /\ room.published /\ 1 \in connected
  /\ RoomStep([room EXCEPT !.call = "started"])
  /\ UNCHANGED <<apiVars, recon, durableVars, offline>>

(* leaveGame and cancelGame. *)
FinalizationAllowed(i, action) ==
  /\ game.status = "waiting"
  /\ \/ action = "leave" /\ i # 1 /\ i \in InGame
     \/ action = "cancel" /\ i = 1

BeginFinalization(i, action) ==
  LET n == 1 + Cardinality({f \in finalizations : f.id = i /\ f.action = action})
  IN /\ OpenForCommands
     /\ i \in connected
     /\ n <= MaxRequests
     /\ RoomStep([room EXCEPT !.call = "finalization",
                   !.fin = [id |-> i, action |-> action, n |-> n, stored |-> FALSE]])
     /\ UNCHANGED <<apiVars, recon, durableVars, offline>>

PendingRequest == [id |-> room.fin.id, action |-> room.fin.action, n |-> room.fin.n]

(* The command and its session_finalizations row become durable together. *)
CommitFinalization ==
  /\ room.call = "finalization" /\ InFlight = {}
  /\ FinalizationAllowed(room.fin.id, room.fin.action)
  /\ game' = IF room.fin.action = "leave"
       THEN [game EXCEPT !.seats = [s \in SeatIndexes |->
               IF @[s] = room.fin.id THEN 0 ELSE @[s]]]
       ELSE [game EXCEPT !.status = "cancelled"]
  /\ finalizations' = finalizations \cup {PendingRequest}
  /\ \E reply \in {"finalize", "none"} :
       RoomStep([room EXCEPT !.fin.stored = TRUE, !.call = reply])
  /\ UNCHANGED <<apiVars, recon, leased, offline>>

RejectFinalization ==
  /\ room.call = "finalization" /\ InFlight = {}
  /\ RoomStep([room EXCEPT !.call = "none", !.fin = NoFin])
  /\ UNCHANGED <<apiVars, recon, durableVars, offline>>

ReportFinalization ==
  /\ room.call = "finalize"
  /\ \E ok \in BOOLEAN :
       /\ finalizeRoomCommand(PendingRequest, ok)
       /\ \/ RoomStep([room EXCEPT !.call = "none"])
          \/ ok /\ RoomStep([room EXCEPT !.call = "none", !.fin = NoFin])
  /\ UNCHANGED <<recon, durableVars, offline>>

RetryFinalization ==
  /\ QueueFree
  /\ room.fin # NoFin /\ room.fin.id \in connected
  /\ RoomStep([room EXCEPT !.call = IF room.fin.stored THEN "finalize" ELSE "finalization"])
  /\ UNCHANGED <<apiVars, recon, durableVars, offline>>

(* A command that ends in an error other than a rejection leaves the room  *)
(* undecided, whether it was a start or a finalization.                    *)
CommandFails ==
  /\ room.call # "none"
  /\ RoomStep([room EXCEPT !.call = "none"])
  /\ UNCHANGED <<apiVars, recon, durableVars, offline>>

(* joinGame of a connected client that has no seat. *)
JoinAgain(i) ==
  /\ OpenForCommands
  /\ i \in connected /\ i \notin InGame
  /\ game.status = "waiting"
  /\ FreeSeats(GameTaken) # {}
  /\ game' = [game EXCEPT !.seats[FirstFree(GameTaken)] = i]
  /\ UNCHANGED <<apiVars, recon, leased, finalizations, offline, roomVars>>

(* A player's command or a timer ends the game; the proof is durable with  *)
(* it.  Timers run while the API has not confirmed a start.                *)
FinishGame(i) ==
  /\ QueueFree
  /\ game.status = "inProgress"
  /\ i \in InGame
  /\ game' = [game EXCEPT !.status = "finished", !.winner = i,
                          !.afterRecovery = (session = "recovery_required")]
  /\ UNCHANGED <<apiVars, recon, leased, finalizations, offline, roomVars>>

(* settleFinishedState, and its retries. *)
SettleFromRoom ==
  /\ room.phase = "up"
  /\ settle
  /\ UNCHANGED <<recon, durableVars, offline, roomVars>>

-----------------------------------------------------------------------------
(* ReconciliationService.run, in the order of its steps. *)
ReconStep(from, to) == recon = from /\ recon' = to

(* finalizeRoomCommands takes the rows one after the other. *)
ReconcileFinalizations ==
  /\ \/ /\ recon = "finalize" /\ recon' \in {"finalize", "waiting"}
        /\ \E f \in PendingFinalizations, ok \in BOOLEAN : finalizeRoomCommand(f, ok)
     \/ /\ ReconStep("finalize", "waiting")
        /\ PendingFinalizations = {}
        /\ UNCHANGED apiVars
  /\ UNCHANGED <<durableVars, offline, roomVars>>

CancelUnleasedWaiting == ~leased /\ Cancel /\ UNCHANGED finalized

(* cancelExpiredWaitingSession looks at the API's own lifecycle only.  Any *)
(* run may be the first to find the session older than its TTL.            *)
CancelExpiredWaiting == Cancel /\ UNCHANGED finalized

ReconcileWaiting ==
  /\ ReconStep("waiting", "settle")
  /\ CancelExpiredWaiting \/ UNCHANGED apiVars
  /\ UNCHANGED <<durableVars, offline, roomVars>>

SettlementCandidate ==
  /\ HasProof
  /\ settlement.kind = "none"
  /\ session = "active" \/ (session = "recovery_required" /\ game.afterRecovery)

(* commitTerminalSettlements; an unpayable proof needs an operator. *)
ReconcileSettlement ==
  /\ ReconStep("settle", "abort?")
  /\ \/ SettlementCandidate /\ settle
     \/ /\ SettlementCandidate /\ ~ProofPayable
        /\ session' = "recovery_required"
        /\ UNCHANGED <<accountVars, admissions, settlement, finalized>>
     \/ ~SettlementCandidate /\ UNCHANGED apiVars
  /\ UNCHANGED <<durableVars, offline, roomVars>>

(* Mutant: only the end of the lease starts the window of a deserted game. *)
AbortUnservedOnly ==
  leased /\ offline /\ settlement.kind = "none" /\ session = "active" /\ room.phase = "down"

(* abortOfflineSessions reads its candidates, then aborts each one. *)
AbortCandidate ==
  /\ leased /\ offline
  /\ settlement.kind = "none"
  /\ session \in {"active", "recovery_required"}

ReconcileAbortQuery ==
  /\ ReconStep("abort?", IF AbortCandidate THEN "abort" ELSE "recovery")
  /\ UNCHANGED <<apiVars, durableVars, offline, roomVars>>

ReconcileAbort ==
  /\ ReconStep("abort", "recovery")
  /\ abort \/ (settlement.kind # "none" /\ UNCHANGED apiVars)
  /\ UNCHANGED <<durableVars, offline, roomVars>>

(* markUnrecoverableSessions: no proof, and no sign of the room for the    *)
(* grace period, which only a room that is not served lets pass.           *)
Unrecoverable == session = "active" /\ ~HasProof /\ room.phase = "down"

ReconcileRecovery ==
  /\ ReconStep("recovery", "finalize")
  /\ session' \in {session} \cup (IF Unrecoverable THEN {"recovery_required"} ELSE {})
  /\ UNCHANGED <<accountVars, admissions, settlement, finalized,
                 durableVars, offline, roomVars>>

(* An error or a restart of the API ends the run; the next starts over. *)
ReconcileInterrupted ==
  /\ recon # "finalize" /\ recon' = "finalize"
  /\ UNCHANGED <<apiVars, durableVars, offline, roomVars>>

-----------------------------------------------------------------------------
(* The clock. *)
(* Nobody has been attached for the reconnect window; RoomPresence has the *)
(* instants, the marks and the joins that overlap them.                    *)
OfflineWindowEnds ==
  /\ leased /\ connected = {} /\ ~offline
  /\ offline' = TRUE
  /\ UNCHANGED <<apiVars, recon, durableVars, roomVars>>

TicketExpires(i) ==
  /\ i \in Issued /\ admissions[i].ticket = "unused"
  /\ admissions' = [admissions EXCEPT ![i].ticket = "dead"]
  /\ UNCHANGED <<session, accountVars, settlement, finalized, recon,
                 durableVars, offline, roomVars>>

Player(i) ==
  \/ reissueAdmission(i) \/ releaseJoinIntent(i) \/ TicketExpires(i)
  \/ consumeTicket(i) \/ AuthBootstrap(i) \/ ensureAdmittedPlayer(i) \/ AuthFails(i)
  \/ onJoin(i) \/ detachClient(i)
  \/ BeginStart(i) \/ BeginFinalization(i, "leave") \/ BeginFinalization(i, "cancel")
  \/ JoinAgain(i) \/ FinishGame(i)

RoomLifetime ==
  \/ Probe \/ AcquireLease \/ Bootstrap \/ InitializeGame \/ LoadGame \/ CreateFails
  \/ RoomGone

RoomCommand ==
  \/ CommitStart \/ RejectStart \/ ReportStart \/ RetryStart
  \/ CommitFinalization \/ RejectFinalization \/ ReportFinalization
  \/ RetryFinalization \/ CommandFails \/ SettleFromRoom

Reconcile ==
  \/ ReconcileFinalizations \/ ReconcileWaiting \/ ReconcileSettlement
  \/ ReconcileAbortQuery \/ ReconcileAbort \/ ReconcileRecovery

Next ==
  \/ createSession \/ cancelSession \/ abortSession
  \/ \E u \in Users : joinSession(u)
  \/ \E i \in Ids : Player(i)
  \/ RoomLifetime \/ RoomCommand \/ Reconcile \/ ReconcileInterrupted
  \/ OfflineWindowEnds

Spec == Init /\ [][Next]_vars

(* Time passes: the waiting TTL, the reconnect window and the retention of *)
(* a finished room run out.  runScheduled starts a run every interval, and *)
(* not all of them are cut short: infinitely many reach their last step.   *)
(* Nothing is assumed of players, of the room's calls or of its creation.  *)
Fairness ==
  /\ SF_vars(CancelExpiredWaiting /\ ReconcileWaiting)
  /\ WF_vars(OfflineWindowEnds)
  /\ WF_vars(HasProof /\ RoomGone)
  /\ []<><<ReconcileRecovery>>_vars
FairSpec == Spec /\ Fairness

-----------------------------------------------------------------------------
TypeOK ==
  /\ session \in Sessions
  /\ available \in [Users -> Nat]
  /\ reserved \in [Users -> Nat]
  /\ admissions \in Seq(Admission) /\ Len(admissions) <= MaxAdmissions
  /\ settlement \in [kind : {"none", "completed", "aborted"}, winner : Ids \cup {0}]
  /\ finalized \subseteq Finalization
  /\ recon \in {"finalize", "waiting", "settle", "abort?", "abort", "recovery"}
  /\ leased \in BOOLEAN
  /\ game \in [status : {"none", "waiting", "inProgress", "finished", "cancelled"},
               seats : [SeatIndexes -> Ids \cup {0}], winner : Ids \cup {0},
               afterRecovery : BOOLEAN]
  /\ finalizations \subseteq Finalization
  /\ offline \in BOOLEAN
  /\ room \in [phase : {"down", "probed", "leased", "booted", "up"},
               boot : [session : Sessions, seats : [SeatIndexes -> Ids \cup {0}]],
               starting : BOOLEAN, published : BOOLEAN,
               fin : [id : Ids \cup {0}, action : {"none", "leave", "cancel"},
                      n : 0 .. MaxRequests, stored : BOOLEAN],
               call : {"none", "start", "no start", "started", "finalization", "finalize"}]
  /\ auth \in [Ids -> {"none", "consumed", "bootstrapped", "admitted"}]
  /\ connected \subseteq Issued

(* Every coin is where the reservations say: an account's reserved coins   *)
(* are its open stakes, and its available coins are what it started with   *)
(* less the stakes it has open or lost, plus the whole pot if it won       *)
(* (coin_accounts against coin_reservations and game_settlements, across   *)
(* leave, cancel, expiry, settlement by room or reconciliation, abort).    *)
StakesOf(u, ids) == {i \in ids : admissions[i].user = u}
Won(u) == settlement.kind = "completed" /\ admissions[settlement.winner].user = u
CoinsAccountedFor ==
  \A u \in Users :
    /\ reserved[u] = EntryCoin * Cardinality(StakesOf(u, Reserved))
    /\ available[u] + EntryCoin * Cardinality(StakesOf(u, Reserved \cup Captured))
         = StartingCoin[u] + (IF Won(u) THEN EntryCoin * Cardinality(Captured) ELSE 0)

(* Stakes are held exactly as long as the session is undecided, and taken  *)
(* only by a completed settlement, which pays the winner of the durable    *)
(* terminal proof out of at least two stakes, one of them the winner's     *)
(* (settle, abort, cancelSessionForUser, cancelExpiredWaitingSession).     *)
StakesFollowOutcome ==
  /\ session \in {"settled", "cancelled"} => Reserved = {}
  /\ session = "settled" <=> settlement.kind # "none"
  /\ Captured # {} <=> settlement.kind = "completed"
  /\ settlement.kind = "completed" =>
       /\ HasProof /\ settlement.winner = game.winner
       /\ game.winner \in Captured /\ Cardinality(Captured) >= 2

(* A player whose leave became durable in the room never pays for the      *)
(* game, and a cancelled room never becomes a running session, whichever   *)
(* of the two sides crashed, failed or was retried in between              *)
(* (handleRoomCommand's pendingSessionFinalization, bootstrap's refusal,   *)
(* reconciliation's finalizeRoomCommands).                                 *)
LeaversDoNotPay ==
  /\ \A f \in finalizations :
       (f.id \in Reserved \cup Captured) => (f \notin finalized /\ session = "open")
  /\ game.status = "cancelled" => session \in {"open", "cancelled"}

(* A session runs only on a durably started game: markStarted never gets   *)
(* ahead of the room's commit, and the creator and one more stake are in.  *)
RunningSessionHasGame ==
  session \in {"active", "recovery_required"} =>
    /\ Gameplay
    /\ 1 \in InGame \cap Participants
    /\ Cardinality(Participants) >= 2

(* An outcome is final: a settled or cancelled session, its settlement,    *)
(* its reservations and the coins it moved never change again, whichever   *)
(* of room, reconciliation and operator acts late or again.                *)
OutcomeIsFinal ==
  [][/\ session \in {"settled", "cancelled"} =>
          UNCHANGED <<session, settlement, available, reserved>>
     /\ \A i \in Issued \ Reserved : admissions'[i].status = admissions[i].status]_vars

-----------------------------------------------------------------------------
(* A waiting session does not hold its stakes for ever: whatever the room  *)
(* is stuck in (a start the API refuses for ever, a start or leave whose   *)
(* reply was lost, a failed creation), it starts or is cancelled           *)
(* (WAITING_SESSION_TTL_MS, cancelExpiredWaitingSessions).                 *)
WaitingEnds == []<>(session # "open")

(* No session stays active for ever once its game has a terminal proof or  *)
(* its players stay away: the room or reconciliation settles it from the   *)
(* proof, the stakes are refunded when the reconnect window is over, or it *)
(* is handed to an operator (recovery_required) when the proof cannot be   *)
(* paid or the room gives no sign (commitTerminalSettlements,              *)
(* abortOfflineSessions, markUnrecoverableSessions).  What becomes of a    *)
(* session in recovery is the operator's.                                  *)
GamesAreDecided == []<>~(session = "active" /\ (HasProof \/ connected = {}))

-----------------------------------------------------------------------------
(* A statement of the repository's documents that the code does not keep.  *)

(* Every stake of an active session is played for: the ticket's consumption*)
(* comes with the seat in the room (docs/system-architecture.md, step 3 of *)
(* the durable flow; consumeTicket and ensureAdmittedPlayer).              *)
StakedPlayersPlay == session = "active" => Participants \subseteq InGame
=============================================================================
