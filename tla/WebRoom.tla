------------------------------ MODULE WebRoom ------------------------------
(***************************************************************************)
(* The way of a browser tab into the room of a game and back into it       *)
(* (apps/web: services/game-room-client.ts, room-connection.ts,            *)
(* room-operation-fence.ts, components/providers/room-provider.tsx,        *)
(* game-provider.tsx, features/game-board/game-view.tsx and                *)
(* features/game-list/game-list.tsx), with the room's rule of one          *)
(* connection for a player (game-room.ts).                                 *)
(*                                                                         *)
(* An operation is a call of connect, reconnect or disconnect that runs    *)
(* until it returns or throws; several run at a time and meet in the       *)
(* client.  Between two awaits an operation is one step.                   *)
(***************************************************************************)
EXTENDS Naturals, FiniteSets

CONSTANTS
  Ops,       \* bound: operations that run at a time
  NoOp,
  MaxMoves,  \* bound: what the user does
  MaxFaults  \* bound: failed calls and lost connections

ASSUME WebAssumption ==
  /\ IsFiniteSet(Ops) /\ NoOp \notin Ops
  /\ MaxMoves \in Nat /\ MaxFaults \in Nat

VARIABLES
  page,     \* the route: the list of games or the game
  gameView, \* GameView's effect and what it shows
  provider, \* the state of RoomProvider
  client,   \* GameRoomClient
  op,       \* the operations and their transports
  command,  \* a command of the player
  moves, faults

vars == <<page, gameView, provider, client, op, command, moves, faults>>

Idle == [pc |-> "free", replace |-> FALSE, heard |-> FALSE, latest |-> FALSE, generation |-> FALSE,
         wire |-> "none", copy |-> "none"]
NotSent == [pc |-> "none", applied |-> FALSE, unanswered |-> FALSE]

TypeOK ==
  /\ page \in {"list", "game"}
  /\ gameView \in [seen : {"nothing", "none", "state"}, reconnecting : BOOLEAN, error : BOOLEAN]
  /\ provider \in [state : BOOLEAN, status : {"disconnected", "connecting", "connected"}, error : BOOLEAN]
  /\ client \in [connecting : Ops \cup {NoOp}, room : Ops \cup {NoOp}]
  /\ op \in [Ops -> [pc : {"free", "ticket", "disconnecting", "replacing", "joining", "waiting", "ended"},
                     replace : BOOLEAN, heard : BOOLEAN, latest : BOOLEAN, generation : BOOLEAN,
                     wire : {"none", "joined", "leaving"}, copy : {"none", "sent", "ack", "reject"}]]
  /\ Cardinality({o \in Ops : op[o].wire # "none"}) <= 1
  /\ command \in [pc : {"none", "pending", "acknowledged", "rejected", "failed"}, applied : BOOLEAN,
                  unanswered : BOOLEAN]
  /\ moves \in 0 .. MaxMoves /\ faults \in 0 .. MaxFaults

Init ==
  /\ page = "list" /\ gameView = [seen |-> "nothing", reconnecting |-> FALSE, error |-> FALSE]
  /\ provider = [state |-> FALSE, status |-> "disconnected", error |-> FALSE]
  /\ client = [connecting |-> NoOp, room |-> NoOp]
  /\ op = [o \in Ops |-> Idle] /\ command = NotSent
  /\ moves = 0 /\ faults = 0

Move == moves < MaxMoves /\ moves' = moves + 1
Fault == faults < MaxFaults /\ faults' = faults + 1

-----------------------------------------------------------------------------
(* Parts of the operations, as functions of the state *)

(* RoomOperationFence.start *)
Fenced(ops, o) == [x \in Ops |-> [ops[x] EXCEPT !.latest = x = o]]

(* ++generation: no connection but o's is current any more. *)
NewGeneration(ops, o) == [x \in Ops |-> [ops[x] EXCEPT !.generation = x = o]]

(* A transport that is left; what was sent on it does not arrive. *)
Left(ops, x) == IF x = NoOp THEN ops
                ELSE [ops EXCEPT ![x].wire = IF @ = "joined" THEN "leaving" ELSE @, ![x].copy = "none"]

rejectPending == IF command.pc = "pending" THEN [command EXCEPT !.pc = "failed"] ELSE command

NoRoomShown == [provider EXCEPT !.state = FALSE, !.status = "disconnected"]

ErrorShown == [NoRoomShown EXCEPT !.error = TRUE]

isActive(x) == x # NoOp /\ client.room = x /\ op[x].generation

(* The view hears of its own operation only; the list always does. *)
ViewAfter(o, failed) ==
  IF op[o].heard THEN [gameView EXCEPT !.error = failed, !.reconnecting = FALSE] ELSE gameView

(* openConnection's catch. *)
Throws(ops, o) ==
  /\ op' = [ops EXCEPT ![o].pc = "ended"]
  /\ provider' = IF ops[o].latest THEN ErrorShown ELSE provider
  /\ gameView' = ViewAfter(o, TRUE)
  /\ UNCHANGED <<page, command>>

(* GameRoomClient.connect up to its first await. *)
Connects(ops, o, room) ==
  /\ room = NoOp
  /\ op' = [NewGeneration(ops, o) EXCEPT ![o].pc = "joining"]
  /\ client' = [connecting |-> o, room |-> NoOp]
  /\ UNCHANGED <<page, gameView, command>>

AlreadyConnected == client.room # NoOp \/ client.connecting # NoOp

-----------------------------------------------------------------------------
(* What the user does *)

Started(o, replace) ==
  /\ op[o].pc = "free"
  /\ op' = [x \in Ops |-> IF x = o THEN [Idle EXCEPT !.pc = "ticket", !.replace = replace, !.heard = ~replace]
                          ELSE [op[x] EXCEPT !.heard = @ /\ replace]]

(* handleJoinGame and createGame ask for an admission.  Each has a button  *)
(* that waits for it, and a list that is mounted again has fresh ones; two *)
(* of them run at a time here.                                             *)
Joining == {x \in Ops : op[x].replace /\ op[x].pc \notin {"free", "ended"}}

ListJoins(o) ==
  /\ page = "list" /\ Cardinality(Joining) < 2
  /\ Started(o, TRUE) /\ Move
  /\ UNCHANGED <<page, gameView, provider, client, command, faults>>

OpensGame ==
  /\ page = "list" /\ Move
  /\ page' = "game" /\ gameView' = [seen |-> "nothing", reconnecting |-> FALSE, error |-> FALSE]
  /\ UNCHANGED <<provider, client, op, command, faults>>

(* GameView unmounts: nobody hears of its requests, and disconnect runs. *)
LeavesGame(o) ==
  /\ page = "game" /\ op[o].pc = "free" /\ Move
  /\ page' = "list"
  /\ LET unheard == [x \in Ops |-> [op[x] EXCEPT !.heard = FALSE]]
         all == NewGeneration(Fenced(unheard, o), NoOp) IN
     IF client.room = NoOp
       THEN op' = [all EXCEPT ![o].latest = FALSE] /\ provider' = NoRoomShown
       ELSE op' = [Left(all, client.room) EXCEPT ![o].pc = "disconnecting"] /\ UNCHANGED provider
  /\ client' = [connecting |-> NoOp, room |-> NoOp]
  /\ command' = rejectPending
  /\ UNCHANGED <<gameView, faults>>

(* The button of the error page. *)
Failing == ~gameView.reconnecting /\ (provider.error \/ gameView.error)
TriesAgain ==
  /\ page = "game" /\ Failing /\ gameView.seen # "nothing"
  /\ gameView' = [gameView EXCEPT !.seen = "nothing"]
  /\ UNCHANGED <<page, provider, client, op, command, moves, faults>>

(* sendIntent needs a state to name its version, and a transport. *)
Sends ==
  /\ page = "game" /\ provider.state /\ client.room # NoOp /\ command.pc # "pending" /\ Move
  /\ command' = [NotSent EXCEPT !.pc = "pending"]
  /\ op' = [x \in Ops |-> [op[x] EXCEPT !.copy = IF x = client.room THEN "sent" ELSE "none"]]
  /\ UNCHANGED <<page, gameView, provider, client, faults>>

-----------------------------------------------------------------------------
(* GameView's effect: mounting, a state that comes or goes, another try *)

Shown == IF provider.state THEN "state" ELSE "none"
EffectDue == page = "game" /\ gameView.seen # Shown

ViewSettles ==
  /\ EffectDue /\ provider.state
  /\ gameView' = [seen |-> "state", reconnecting |-> FALSE, error |-> FALSE]
  /\ op' = [x \in Ops |-> [op[x] EXCEPT !.heard = FALSE]]
  /\ UNCHANGED <<page, provider, client, command, moves, faults>>

ViewReconnects(o) ==
  /\ EffectDue /\ ~provider.state
  /\ gameView' = [seen |-> "none", reconnecting |-> TRUE, error |-> FALSE]
  /\ Started(o, FALSE)
  /\ UNCHANGED <<page, provider, client, command, moves, faults>>

-----------------------------------------------------------------------------
(* The operations *)

TicketFails(o) ==
  /\ op[o].pc = "ticket" /\ Fault
  /\ op' = [op EXCEPT ![o].pc = "ended"] /\ gameView' = ViewAfter(o, TRUE)
  /\ UNCHANGED <<page, provider, client, command, moves>>

(* openConnection, whether or not the view that asked is still there; it   *)
(* replaces a connection that is open, or finds the client busy.           *)
Connecting == [provider EXCEPT !.error = FALSE, !.status = "connecting"]

reconnect(o) ==
  LET ops == Fenced(op, o) IN
  /\ op[o].pc = "ticket" /\ ~op[o].replace
  /\ \/ ~AlreadyConnected /\ Connects(ops, o, client.room) /\ provider' = Connecting
     \/ AlreadyConnected /\ Throws(ops, o) /\ UNCHANGED client
  /\ UNCHANGED <<moves, faults>>

connect(o) ==
  LET ops == NewGeneration(Fenced(op, o), NoOp) IN
  /\ op[o].pc = "ticket" /\ op[o].replace
  /\ provider' = Connecting
  /\ command' = rejectPending
  /\ IF client.room = NoOp
       THEN op' = [ops EXCEPT ![o].generation = TRUE, ![o].pc = "joining"]
            /\ client' = [connecting |-> o, room |-> NoOp]
       ELSE op' = [Left(ops, client.room) EXCEPT ![o].pc = "replacing"]
            /\ client' = [connecting |-> NoOp, room |-> NoOp]
  /\ UNCHANGED <<page, gameView, moves, faults>>

NobodyLeaving == \A x \in Ops : op[x].wire # "leaving"

(* The old transport is gone: disconnect resets what is shown, if nothing was started since ... *)
DisconnectEnds(o) ==
  /\ op[o].pc = "disconnecting" /\ NobodyLeaving
  /\ op' = [op EXCEPT ![o].pc = "ended"]
  /\ provider' = IF op[o].latest THEN NoRoomShown ELSE provider
  /\ UNCHANGED <<page, gameView, client, command, moves, faults>>

(* ... and connect goes on to the new one. *)
ReplacementStarts(o) ==
  /\ op[o].pc = "replacing" /\ NobodyLeaving
  /\ \/ ~AlreadyConnected /\ Connects(op, o, client.room) /\ UNCHANGED provider
     \/ AlreadyConnected /\ Throws(op, o) /\ UNCHANGED client
  /\ UNCHANGED <<moves, faults>>

(* The room lets a player in who is not attached to it already. *)
Attached == \E x \in Ops : op[x].wire # "none"

NotConnecting(o) == IF client.connecting = o THEN [client EXCEPT !.connecting = NoOp] ELSE client

JoinFails(o) ==
  /\ op[o].pc = "joining" /\ ((Attached /\ UNCHANGED faults) \/ Fault)
  /\ Throws(op, o) /\ client' = NotConnecting(o)
  /\ UNCHANGED moves

(* A connection that was cancelled in the meantime is left at once.  Mutant: it is forgotten. *)
ForgottenJoin(o) == [op EXCEPT ![o].wire = "joined"]
CancelledJoin(o) == [op EXCEPT ![o].wire = "leaving"]

JoinCancelled(o) ==
  /\ op[o].pc = "joining" /\ ~Attached /\ ~op[o].generation
  /\ Throws(CancelledJoin(o), o)
  /\ client' = NotConnecting(o)
  /\ UNCHANGED <<moves, faults>>

JoinSucceeds(o) ==
  /\ op[o].pc = "joining" /\ ~Attached /\ op[o].generation
  /\ op' = [op EXCEPT ![o].pc = "waiting", ![o].wire = "joined"]
  /\ client' = NotConnecting(o)
  /\ UNCHANGED <<page, gameView, provider, command, moves, faults>>

(* waitForInitialPublicState gives up after a second. *)
NoInitialState(o) ==
  /\ op[o].pc = "waiting" /\ ((op[o].wire = "none" /\ UNCHANGED faults) \/ Fault)
  /\ Throws(Left(op, o), o)
  /\ UNCHANGED <<client, moves>>

Resent(o) == IF command.pc = "pending" THEN "sent" ELSE "none"

(* The first state: the transport is kept, the state is shown and what is  *)
(* pending is sent again; the operation returns if it is still the latest. *)
ConnectionOpens(o) ==
  /\ op[o].pc = "waiting" /\ op[o].wire = "joined" /\ op[o].generation
  /\ client' = [client EXCEPT !.room = o]
  /\ op' = [op EXCEPT ![o].pc = "ended", ![o].copy = Resent(o)]
  /\ IF op[o].latest
       THEN /\ provider' = [provider EXCEPT !.state = TRUE, !.status = "connected"]
            /\ gameView' = IF op[o].replace THEN [gameView EXCEPT !.seen = IF page = "list" THEN "nothing" ELSE @]
                           ELSE ViewAfter(o, FALSE)
            /\ page' = IF op[o].replace THEN "game" ELSE page
       ELSE /\ provider' = [provider EXCEPT !.state = TRUE]
            /\ gameView' = ViewAfter(o, TRUE)
            /\ UNCHANGED page
  /\ UNCHANGED <<command, moves, faults>>

(* A connection cancelled while it waited: the transport is kept and the   *)
(* state is shown all the same, before the operation throws.               *)
CancelledConnectionOpens(o) ==
  /\ op[o].pc = "waiting" /\ op[o].wire = "joined" /\ ~op[o].generation
  /\ client' = [client EXCEPT !.room = o]
  /\ op' = [op EXCEPT ![o].pc = "ended"]
  /\ provider' = IF op[o].latest THEN ErrorShown ELSE [provider EXCEPT !.state = TRUE]
  /\ gameView' = ViewAfter(o, TRUE)
  /\ UNCHANGED <<page, command, moves, faults>>

(* What an operation leaves behind is collected once its transport is gone. *)
Collected(o) ==
  /\ op[o].pc = "ended" /\ op[o].wire = "none" /\ client.room # o
  /\ op' = [op EXCEPT ![o] = Idle]
  /\ UNCHANGED <<page, gameView, provider, client, command, moves, faults>>

-----------------------------------------------------------------------------
(* The room *)

(* onLeave: the player is detached. *)
Detached(o) ==
  /\ op[o].wire = "leaving"
  /\ op' = [op EXCEPT ![o].wire = "none"]
  /\ UNCHANGED <<page, gameView, provider, client, command, moves, faults>>

(* Mutant: the version is compared before the stored request is looked for. *)
RejectedUnseen == TRUE
Rejectable == ~command.applied

(* A command is applied, or acknowledged again, or rejected as stale ... *)
Handles(o) ==
  /\ op[o].wire = "joined" /\ op[o].copy = "sent"
  /\ \/ /\ op' = [op EXCEPT ![o].copy = "ack"]
        /\ command' = [command EXCEPT !.applied = TRUE]
     \/ /\ Rejectable
        /\ op' = [op EXCEPT ![o].copy = "reject"]
        /\ UNCHANGED command
  /\ UNCHANGED <<page, gameView, provider, client, moves, faults>>

(* ... or fails, and only a status the client does nothing with is sent. *)
HandlingFails(o) ==
  /\ op[o].wire = "joined" /\ op[o].copy = "sent" /\ Fault
  /\ op' = [op EXCEPT ![o].copy = "none"]
  /\ command' = [command EXCEPT !.unanswered = TRUE]
  /\ UNCHANGED <<page, gameView, provider, client, moves>>

(* handleMessage: an answer on another transport than the client's is not looked at. *)
Answered(o) ==
  /\ op[o].copy \in {"ack", "reject"}
  /\ op' = [op EXCEPT ![o].copy = "none"]
  /\ command' = IF isActive(o) /\ command.pc = "pending"
                  THEN [command EXCEPT !.pc = IF op[o].copy = "ack" THEN "acknowledged" ELSE "rejected"]
                  ELSE command
  /\ UNCHANGED <<page, gameView, provider, client, moves, faults>>

(* A later state of the room is shown if the transport is the client's. *)
StateArrives(o) ==
  /\ op[o].wire = "joined" /\ isActive(o) /\ ~provider.state
  /\ provider' = [provider EXCEPT !.state = TRUE]
  /\ UNCHANGED <<page, gameView, client, op, command, moves, faults>>

(* The connection is lost; a command under way may still be applied.       *)
(* onUnexpectedDisconnect: pending commands are kept for the next one.     *)
Drops(o) ==
  /\ op[o].wire = "joined" /\ Fault
  /\ \/ UNCHANGED command
     \/ op[o].copy = "sent" /\ command' = [command EXCEPT !.applied = TRUE]
  /\ LET gone == [op EXCEPT ![o].wire = "none", ![o].copy = "none"] IN
     IF isActive(o)
       THEN /\ op' = NewGeneration(gone, NoOp)
            /\ client' = [client EXCEPT !.room = NoOp]
            /\ provider' = ErrorShown
       ELSE op' = gone /\ UNCHANGED <<client, provider>>
  /\ UNCHANGED <<page, gameView, moves>>

(* terminateProtocol: data that cannot be read ends the connection. *)
ProtocolBreaks(o) ==
  /\ op[o].wire = "joined" /\ isActive(o) /\ Fault
  /\ op' = NewGeneration(Left(op, o), NoOp)
  /\ client' = [client EXCEPT !.room = NoOp]
  /\ provider' = ErrorShown /\ command' = rejectPending
  /\ UNCHANGED <<page, gameView, moves>>

(* client.error: pending commands are rejected, the connection stays. *)
TransportError(o) ==
  /\ op[o].wire = "joined" /\ isActive(o) /\ Fault
  /\ provider' = [provider EXCEPT !.error = TRUE] /\ command' = rejectPending
  /\ UNCHANGED <<page, gameView, client, op, moves>>

-----------------------------------------------------------------------------
UserStep == OpensGame \/ TriesAgain \/ Sends \/ \E o \in Ops : ListJoins(o) \/ LeavesGame(o)

Progress(o) ==
  \/ reconnect(o) \/ connect(o) \/ DisconnectEnds(o) \/ ReplacementStarts(o)
  \/ JoinCancelled(o) \/ JoinSucceeds(o) \/ ConnectionOpens(o) \/ CancelledConnectionOpens(o)
  \/ Collected(o) \/ Detached(o) \/ Handles(o) \/ Answered(o) \/ StateArrives(o)
  \/ ViewReconnects(o)

Trouble(o) ==
  \/ TicketFails(o) \/ JoinFails(o) \/ NoInitialState(o) \/ HandlingFails(o) \/ Drops(o)
  \/ ProtocolBreaks(o) \/ TransportError(o)

Next == UserStep \/ ViewSettles \/ \E o \in Ops : Progress(o) \/ Trouble(o)

Spec == Init /\ [][Next]_vars

(* Calls return, the room answers, React runs the effect, and the player   *)
(* presses the button of an error page.                                    *)
FairSpec ==
  /\ Spec /\ WF_vars(ViewSettles) /\ WF_vars(TriesAgain)
  /\ \A o \in Ops : WF_vars(Progress(o) \/ Trouble(o))

-----------------------------------------------------------------------------
(* Properties *)

(* The client is told the truth about a command however often the          *)
(* connection was lost and the command sent again: what is acknowledged    *)
(* was applied, what is rejected was not (pending, findReplay).            *)
AnswersAreTrue ==
  /\ command.pc = "acknowledged" => command.applied
  /\ command.pc = "rejected" => ~command.applied

(* No connection to the room is lost sight of while operations overtake    *)
(* and cancel each other: the client holds it or an operation waits on it, *)
(* so that the player is not kept out by one he cannot end (generation,    *)
(* openRoomConnection, Player already has an active room connection).      *)
NoTransportIsLost ==
  \A o \in Ops : op[o].wire = "joined" => client.room = o \/ op[o].pc = "waiting"

(* The client holds the transport of a connection that was cancelled; or   *)
(* one that is current and open.                                           *)
Stranded == client.room # NoOp /\ ~isActive(client.room)
Connected == isActive(client.room) /\ op[client.room].wire = "joined"


-----------------------------------------------------------------------------
(* A statement of the repository's tests that the code does not keep.      *)

(* A connection that was overtaken while it was being opened is rejected   *)
(* as cancelled and left, so that the client holds none but its current    *)
(* one ("fences stale transports and cancels an in-flight connection").    *)
CancelledIsNotKept == ~Stranded
=============================================================================
