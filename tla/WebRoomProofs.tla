---------------------------- MODULE WebRoomProofs ----------------------------
(***************************************************************************)
(* Proofs about WebRoom: whatever operations overtake and cancel each      *)
(* other in a tab, its answers are true and no transport is lost.          *)
(***************************************************************************)
EXTENDS WebRoom, FiniteSetTheorems, TLAPS

Row == [pc : {"free", "ticket", "disconnecting", "replacing", "joining", "waiting", "ended"},
        replace : BOOLEAN, heard : BOOLEAN, latest : BOOLEAN, generation : BOOLEAN,
        wire : {"none", "joined", "leaving"}, copy : {"none", "sent", "ack", "reject"}]

CommandType == [pc : {"none", "pending", "acknowledged", "rejected", "failed"}, applied : BOOLEAN,
                unanswered : BOOLEAN]

ViewType == [seen : {"nothing", "none", "state"}, reconnecting : BOOLEAN, error : BOOLEAN]

ProviderType == [state : BOOLEAN, status : {"disconnected", "connecting", "connected"}, error : BOOLEAN]

(* What is shown. *)
ShownOK ==
  /\ page \in {"list", "game"}
  /\ gameView \in ViewType /\ provider \in ProviderType

CountsOK == moves \in 0 .. MaxMoves /\ faults \in 0 .. MaxFaults

(* The room has one connection of the player (Player already has an active *)
(* room connection).                                                       *)
OneWire == \A x, y \in Ops : op[x].wire # "none" /\ op[y].wire # "none" => x = y

(* The transport the client holds is that of an operation that returned,   *)
(* and only such an operation has sent anything.                           *)
HeldAfterReturn ==
  /\ client.room # NoOp => op[client.room].pc = "ended"
  /\ \A o \in Ops : op[o].copy # "none" => op[o].pc = "ended"

(* An answer travels on the transport the command came on, and says what   *)
(* became of the command.                                                  *)
AnswerOnItsWay ==
  \A o \in Ops :
    /\ op[o].copy \in {"ack", "reject"} => op[o].wire = "joined"
    /\ op[o].copy = "ack" => command.applied
    /\ op[o].copy = "reject" => ~command.applied

(* A command that was rejected cannot reach the room any more. *)
RejectedIsOver ==
  command.pc = "rejected" => \A o \in Ops : ~(op[o].wire = "joined" /\ op[o].copy = "sent")

TabOK ==
  /\ client \in [connecting : Ops \cup {NoOp}, room : Ops \cup {NoOp}]
  /\ op \in [Ops -> Row] /\ command \in CommandType

TransportInv ==
  /\ TabOK /\ OneWire /\ HeldAfterReturn /\ AnswerOnItsWay /\ RejectedIsOver
  /\ AnswersAreTrue /\ NoTransportIsLost

WebInv == ShownOK /\ CountsOK /\ TransportInv

-----------------------------------------------------------------------------
(* The parts of the operations keep what the invariant looks at. *)

LEMMA IdleRow == Idle \in Row
BY DEF Idle, Row

(* RoomOperationFence.start touches the fence only. *)
LEMMA FencedRows ==
  ASSUME NEW ops \in [Ops -> Row], NEW o
  PROVE  /\ Fenced(ops, o) \in [Ops -> Row]
         /\ \A x \in Ops : /\ Fenced(ops, o)[x].pc = ops[x].pc
                           /\ Fenced(ops, o)[x].wire = ops[x].wire
                           /\ Fenced(ops, o)[x].copy = ops[x].copy
BY ZenonT(40) DEF Fenced, Row

(* ++generation touches the generation only. *)
LEMMA GenerationRows ==
  ASSUME NEW ops \in [Ops -> Row], NEW o
  PROVE  /\ NewGeneration(ops, o) \in [Ops -> Row]
         /\ \A x \in Ops : /\ NewGeneration(ops, o)[x].pc = ops[x].pc
                           /\ NewGeneration(ops, o)[x].wire = ops[x].wire
                           /\ NewGeneration(ops, o)[x].copy = ops[x].copy
BY ZenonT(40) DEF NewGeneration, Row

(* Leaving a transport ends it and takes what was sent on it. *)
LEMMA LeftRows ==
  ASSUME NEW ops \in [Ops -> Row], NEW r \in Ops \cup {NoOp}
  PROVE  /\ Left(ops, r) \in [Ops -> Row]
         /\ \A x \in Ops : Left(ops, r)[x].pc = ops[x].pc
         /\ \A x \in Ops : x # r => Left(ops, r)[x].wire = ops[x].wire /\ Left(ops, r)[x].copy = ops[x].copy
         /\ r \in Ops => /\ Left(ops, r)[r].wire = IF ops[r].wire = "joined" THEN "leaving" ELSE ops[r].wire
                         /\ Left(ops, r)[r].copy = "none"
<1> DEFINE row == [ops[r] EXCEPT !.wire = IF @ = "joined" THEN "leaving" ELSE @, !.copy = "none"]
<1>1. CASE r = NoOp
  BY <1>1, WebAssumption DEF Left
<1>2. CASE r \in Ops
  <2>1. /\ row \in Row /\ row.pc = ops[r].pc /\ row.copy = "none"
        /\ row.wire = IF ops[r].wire = "joined" THEN "leaving" ELSE ops[r].wire
    BY <1>2 DEF Row
  <2>2. Left(ops, r) = [ops EXCEPT ![r] = row]
    BY <1>2, WebAssumption DEF Left, Row
  <2> HIDE DEF row
  <2>3. QED
    BY <1>2, <2>1, <2>2
<1>3. QED
  BY <1>1, <1>2

LEMMA RejectedPending ==
  ASSUME command \in CommandType
  PROVE  /\ rejectPending \in CommandType
         /\ rejectPending.applied = command.applied
         /\ rejectPending.pc = IF command.pc = "pending" THEN "failed" ELSE command.pc
BY DEF rejectPending, CommandType

(* An operation that moves on without touching a transport, with or        *)
(* without a command being given up.                                       *)
LEMMA MovesOn ==
  ASSUME TransportInv, NEW o \in Ops, op[o].pc # "ended", op[o].pc # "waiting", TabOK',
         \A x \in Ops \ {o} : op'[x].pc = op[x].pc /\ op'[x].wire = op[x].wire /\ op'[x].copy = op[x].copy,
         op'[o].copy = "none", op'[o].wire \in {"none", op[o].wire},
         client'.room = client.room,
         command'.applied = command.applied,
         command'.pc = command.pc \/ command'.pc = "failed"
  PROVE  TransportInv'
<1> USE WebAssumption
<1>1. OneWire'
  BY DEF OneWire, TransportInv
<1>2. HeldAfterReturn'
  BY DEF HeldAfterReturn, TransportInv, TabOK
<1>3. AnswerOnItsWay'
  BY DEF AnswerOnItsWay, TransportInv
<1>4. RejectedIsOver'
  BY DEF RejectedIsOver, TransportInv
<1>5. AnswersAreTrue'
  BY DEF AnswersAreTrue, TransportInv
<1>6. NoTransportIsLost'
  BY DEF NoTransportIsLost, TransportInv, HeldAfterReturn, TabOK
<1>7. QED
  BY <1>1, <1>2, <1>3, <1>4, <1>5, <1>6 DEF TransportInv

(* The transports and what was sent on them stay as they are. *)
LEMMA SameTransports ==
  ASSUME TransportInv, TabOK',
         \A x \in Ops : op'[x].pc = op[x].pc /\ op'[x].wire = op[x].wire /\ op'[x].copy = op[x].copy,
         client'.room = client.room,
         command'.applied = command.applied,
         command'.pc = command.pc \/ command'.pc = "failed"
  PROVE  TransportInv'
<1> USE WebAssumption
<1>1. OneWire'
  BY DEF OneWire, TransportInv
<1>2. HeldAfterReturn'
  BY DEF HeldAfterReturn, TransportInv, TabOK
<1>3. AnswerOnItsWay'
  BY DEF AnswerOnItsWay, TransportInv
<1>4. RejectedIsOver'
  BY DEF RejectedIsOver, TransportInv
<1>5. AnswersAreTrue'
  BY DEF AnswersAreTrue, TransportInv
<1>6. NoTransportIsLost'
  BY DEF NoTransportIsLost, TransportInv
<1>7. QED
  BY <1>1, <1>2, <1>3, <1>4, <1>5, <1>6 DEF TransportInv

(* The client lets go of its transport: it is left, or it was lost. *)
LEMMA LetsGo ==
  ASSUME TransportInv, NEW o \in Ops, TabOK',
         op[o].pc \in {"free", "ticket"} \/ op'[o].pc = op[o].pc,
         \A x \in Ops \ {o} : op'[x].pc = op[x].pc,
         \A x \in Ops : x # client.room => op'[x].wire = op[x].wire /\ op'[x].copy = op[x].copy,
         client.room # NoOp => /\ op'[client.room].copy = "none" 
                               /\ op'[client.room].wire # "joined"
                               /\ op'[client.room].wire # "none" => op[client.room].wire # "none",
         client'.room = NoOp,
         command'.applied = command.applied,
         command'.pc = command.pc \/ command'.pc = "failed"
  PROVE  TransportInv'
<1> USE WebAssumption
<1>0. TabOK /\ TabOK'
  BY DEF TransportInv
<1>r. client.room # NoOp => client.room \in Ops
  BY <1>0 DEF TabOK
<1>1. OneWire'
  BY <1>r DEF OneWire, TransportInv
<1>2. HeldAfterReturn'
  BY <1>r DEF HeldAfterReturn, TransportInv, TabOK
<1>3. AnswerOnItsWay'
  BY <1>r DEF AnswerOnItsWay, TransportInv
<1>4. RejectedIsOver'
  BY <1>r DEF RejectedIsOver, TransportInv
<1>5. AnswersAreTrue'
  BY DEF AnswersAreTrue, TransportInv
<1>6. NoTransportIsLost'
  BY <1>r DEF NoTransportIsLost, TransportInv, HeldAfterReturn, TabOK
<1>7. QED
  BY <1>1, <1>2, <1>3, <1>4, <1>5, <1>6 DEF TransportInv

-----------------------------------------------------------------------------
(* What the user and the view do *)

LEMMA StartedInv ==
  ASSUME TransportInv, NEW o \in Ops, NEW replace \in BOOLEAN, Started(o, replace), UNCHANGED <<client, command>>
  PROVE  TransportInv'
<1> DEFINE row == [Idle EXCEPT !.pc = "ticket", !.replace = replace, !.heard = ~replace]
           other(x) == [op[x] EXCEPT !.heard = @ /\ replace]
<1>1. TabOK
  BY DEF TransportInv
<1>2. row \in Row /\ row.wire = "none" /\ row.copy = "none"
  BY DEF Idle, Row
<1>3. \A x \in Ops : /\ other(x) \in Row /\ other(x).pc = op[x].pc
                     /\ other(x).wire = op[x].wire /\ other(x).copy = op[x].copy
  BY <1>1 DEF TabOK, Row
<1>4. op' = [x \in Ops |-> IF x = o THEN row ELSE other(x)] /\ op[o].pc = "free"
  BY DEF Started
<1> HIDE DEF row, other
<1>5. TabOK'
  BY <1>1, <1>2, <1>3, <1>4 DEF TabOK
<1>6. /\ \A x \in Ops \ {o} : op'[x].pc = op[x].pc /\ op'[x].wire = op[x].wire /\ op'[x].copy = op[x].copy
      /\ op'[o].copy = "none" /\ op'[o].wire = "none"
  BY <1>2, <1>3, <1>4
<1>7. QED
  BY <1>4, <1>5, <1>6, MovesOn

LEMMA UnheardInv ==
  ASSUME TransportInv, op' = [x \in Ops |-> [op[x] EXCEPT !.heard = FALSE]], UNCHANGED <<client, command>>
  PROVE  TransportInv'
<1>1. TabOK
  BY DEF TransportInv
<1>2. \A x \in Ops : /\ op'[x] \in Row /\ op'[x].pc = op[x].pc
                     /\ op'[x].wire = op[x].wire /\ op'[x].copy = op[x].copy
  BY <1>1, ZenonT(40) DEF TabOK, Row
<1>3. TabOK'
  BY <1>1, <1>2 DEF TabOK
<1>4. QED
  BY <1>2, <1>3, SameTransports

LEMMA LeavesInv ==
  ASSUME TransportInv, NEW o \in Ops, LeavesGame(o)
  PROVE  TransportInv'
<1> DEFINE unheard == [x \in Ops |-> [op[x] EXCEPT !.heard = FALSE]]
           fenced == Fenced(unheard, o)
           all == NewGeneration(fenced, NoOp)
           left == Left(all, client.room)
<1>1. TabOK /\ command \in CommandType
  BY DEF TransportInv, TabOK
<1>2. unheard \in [Ops -> Row] /\ \A x \in Ops : /\ unheard[x].pc = op[x].pc
           /\ unheard[x].wire = op[x].wire /\ unheard[x].copy = op[x].copy
  BY <1>1, ZenonT(40) DEF TabOK, Row
<1> HIDE DEF unheard
<1>3. fenced \in [Ops -> Row] /\ \A x \in Ops : /\ fenced[x].pc = op[x].pc
           /\ fenced[x].wire = op[x].wire /\ fenced[x].copy = op[x].copy
  BY <1>2, FencedRows
<1> HIDE DEF fenced
<1>4. all \in [Ops -> Row] /\ \A x \in Ops : /\ all[x].pc = op[x].pc
           /\ all[x].wire = op[x].wire /\ all[x].copy = op[x].copy
  BY <1>3, GenerationRows
<1>5. /\ op[o].pc = "free" /\ command' = rejectPending /\ client' = [connecting |-> NoOp, room |-> NoOp]
      /\ IF client.room = NoOp THEN op' = [all EXCEPT ![o].latest = FALSE]
                               ELSE op' = [left EXCEPT ![o].pc = "disconnecting"]
  BY DEF LeavesGame, all, fenced, unheard
<1> HIDE DEF all
<1>6. /\ command' \in CommandType /\ command'.applied = command.applied
      /\ command'.pc = command.pc \/ command'.pc = "failed"
  BY <1>1, <1>5, RejectedPending
<1>7. CASE client.room = NoOp
  <2>1. op' \in [Ops -> Row] /\ \A x \in Ops : /\ op'[x].pc = op[x].pc
            /\ op'[x].wire = op[x].wire /\ op'[x].copy = op[x].copy
    <3>1. op' = [all EXCEPT ![o].latest = FALSE]
      BY <1>5, <1>7
    <3>2. PICK row : row = [all[o] EXCEPT !.latest = FALSE]
      OBVIOUS
    <3>3. row \in Row /\ row.pc = all[o].pc /\ row.wire = all[o].wire /\ row.copy = all[o].copy
      BY <1>4, <3>2 DEF Row
    <3>4. op' = [all EXCEPT ![o] = row]
      BY <3>1, <3>2
    <3>5. QED
      BY <1>4, <3>3, <3>4
  <2>2. TabOK' /\ client'.room = client.room
    BY <2>1, <1>5, <1>6, <1>7 DEF TabOK
  <2>3. QED
    BY <2>1, <2>2, <1>6, SameTransports
<1>8. CASE client.room # NoOp
  <2>1. client.room \in Ops
    BY <1>1, <1>8 DEF TabOK
  <2>2. /\ left \in [Ops -> Row] /\ \A x \in Ops : left[x].pc = op[x].pc
        /\ \A x \in Ops : x # client.room => left[x].wire = op[x].wire /\ left[x].copy = op[x].copy
        /\ left[client.room].wire = IF op[client.room].wire = "joined" THEN "leaving" ELSE op[client.room].wire
        /\ left[client.room].copy = "none"
    <3>1. /\ left \in [Ops -> Row] /\ \A x \in Ops : left[x].pc = all[x].pc
          /\ \A x \in Ops : x # client.room => left[x].wire = all[x].wire /\ left[x].copy = all[x].copy
          /\ left[client.room].wire = IF all[client.room].wire = "joined" THEN "leaving" ELSE all[client.room].wire
          /\ left[client.room].copy = "none"
      BY <1>4, <2>1, LeftRows
    <3> HIDE DEF left
    <3>2. QED
      BY <1>4, <2>1, <3>1
  <2> HIDE DEF left
  <2>3. op' = [left EXCEPT ![o].pc = "disconnecting"]
    BY <1>5, <1>8
  <2>4. op' \in [Ops -> Row] /\ \A x \in Ops : /\ x # o => op'[x].pc = left[x].pc
            /\ op'[x].wire = left[x].wire /\ op'[x].copy = left[x].copy
    BY <2>2, <2>3 DEF Row
  <2>5. TabOK' /\ client'.room = NoOp
    BY <2>4, <1>5, <1>6 DEF TabOK
  <2>6. /\ \A x \in Ops \ {o} : op'[x].pc = op[x].pc
        /\ \A x \in Ops : x # client.room => op'[x].wire = op[x].wire /\ op'[x].copy = op[x].copy
        /\ op'[client.room].copy = "none" /\ op'[client.room].wire # "joined"
        /\ op'[client.room].wire # "none" => op[client.room].wire # "none"
    BY <2>1, <2>2, <2>4
  <2>7. op[o].pc \in {"free", "ticket"}
    BY <1>5
  <2>8. QED
    BY <2>5, <2>6, <2>7, <1>6, LetsGo
<1>9. QED
  BY <1>7, <1>8

(* A new command takes the place of what was sent before. *)
LEMMA SendsInv ==
  ASSUME TransportInv, Sends
  PROVE  TransportInv'
<1> USE WebAssumption
<1> DEFINE row(x) == [op[x] EXCEPT !.copy = IF x = client.room THEN "sent" ELSE "none"]
<1>1. TabOK /\ client.room \in Ops /\ client' = client
  BY DEF TransportInv, TabOK, Sends
<1>2. \A x \in Ops : /\ row(x) \in Row /\ row(x).pc = op[x].pc /\ row(x).wire = op[x].wire
                     /\ row(x).copy = IF x = client.room THEN "sent" ELSE "none"
  BY <1>1 DEF TabOK, Row
<1>3. op' = [x \in Ops |-> row(x)]
  BY DEF Sends
<1> HIDE DEF row
<1>4. op' \in [Ops -> Row] /\ \A x \in Ops : /\ op'[x].pc = op[x].pc /\ op'[x].wire = op[x].wire
           /\ op'[x].copy = IF x = client.room THEN "sent" ELSE "none"
  BY <1>2, <1>3
<1>5. command' \in CommandType /\ command'.pc = "pending"
  BY DEF Sends, NotSent, CommandType
<1>6. TabOK'
  BY <1>1, <1>4, <1>5 DEF TabOK
<1>7. OneWire'
  BY <1>4 DEF OneWire, TransportInv
<1>8. HeldAfterReturn'
  BY <1>1, <1>4 DEF HeldAfterReturn, TransportInv
<1>9. AnswerOnItsWay' /\ RejectedIsOver' /\ AnswersAreTrue'
  BY <1>4, <1>5 DEF AnswerOnItsWay, RejectedIsOver, AnswersAreTrue
<1>10. NoTransportIsLost'
  BY <1>1, <1>4 DEF NoTransportIsLost, TransportInv
<1>11. QED
  BY <1>6, <1>7, <1>8, <1>9, <1>10 DEF TransportInv

-----------------------------------------------------------------------------
(* The operations *)

Same(ops) == \A x \in Ops : ops[x].pc = op[x].pc /\ ops[x].wire = op[x].wire /\ ops[x].copy = op[x].copy

Pcs == {"ticket", "disconnecting", "replacing", "joining", "waiting", "ended"}

(* An operation goes on to its next await, or throws. *)
LEMMA NextAwait ==
  ASSUME TransportInv, NEW o \in Ops, op[o].pc # "ended", op[o].pc # "waiting",
         NEW ops \in [Ops -> Row], Same(ops), NEW pc \in Pcs, op' = [ops EXCEPT ![o].pc = pc],
         client' \in [connecting : Ops \cup {NoOp}, room : Ops \cup {NoOp}],
         client'.room = client.room, command' \in CommandType,
         command'.applied = command.applied, command'.pc = command.pc \/ command'.pc = "failed"
  PROVE  TransportInv'
<1>1. op[o].copy = "none"
  BY DEF TransportInv, HeldAfterReturn, TabOK, Row
<1>2. op' \in [Ops -> Row]
  BY DEF Pcs, Row
<1>3. TabOK'
  BY <1>2 DEF TabOK
<1>4. \A x \in Ops \ {o} : op'[x].pc = op[x].pc /\ op'[x].wire = op[x].wire /\ op'[x].copy = op[x].copy
  BY DEF Same
<1>5. op'[o].copy = "none" /\ op'[o].wire \in {"none", op[o].wire}
  BY <1>1 DEF Same, Row
<1>6. QED
  BY <1>3, <1>4, <1>5, MovesOn

LEMMA SameRows ==
  ASSUME TransportInv, NEW o
  PROVE  /\ op \in [Ops -> Row] /\ Same(op)
         /\ Fenced(op, o) \in [Ops -> Row] /\ Same(Fenced(op, o))
         /\ NewGeneration(op, o) \in [Ops -> Row] /\ Same(NewGeneration(op, o))
<1>1. op \in [Ops -> Row]
  BY DEF TransportInv, TabOK
<1>2. QED
  BY <1>1, FencedRows, GenerationRows DEF Same

LEMMA SameClient ==
  ASSUME TransportInv, NEW o \in Ops
  PROVE  /\ client \in [connecting : Ops \cup {NoOp}, room : Ops \cup {NoOp}] /\ command \in CommandType
         /\ NotConnecting(o) \in [connecting : Ops \cup {NoOp}, room : Ops \cup {NoOp}]
         /\ NotConnecting(o).room = client.room
BY DEF TransportInv, TabOK, NotConnecting

LEMMA TicketFailsInv ==
  ASSUME TransportInv, NEW o \in Ops, TicketFails(o)
  PROVE  TransportInv'
<1>1. op[o].pc = "ticket" /\ op' = [op EXCEPT ![o].pc = "ended"] /\ UNCHANGED <<client, command>>
  BY DEF TicketFails
<1>2. op[o].pc # "ended" /\ op[o].pc # "waiting" /\ "ended" \in Pcs
  BY <1>1 DEF Pcs
<1>3. QED
  BY <1>1, <1>2, SameRows, SameClient, NextAwait

LEMMA ReconnectInv ==
  ASSUME TransportInv, NEW o \in Ops, reconnect(o)
  PROVE  TransportInv'
<1> DEFINE ops == Fenced(op, o)
<1>1. op[o].pc # "ended" /\ op[o].pc # "waiting" /\ "ended" \in Pcs /\ "joining" \in Pcs
  BY DEF reconnect, Pcs
<1>2. ops \in [Ops -> Row] /\ Same(ops)
  BY SameRows
<1>3. NewGeneration(ops, o) \in [Ops -> Row] /\ Same(NewGeneration(ops, o))
  BY <1>2, GenerationRows DEF Same
<1>4. CASE Connects(ops, o, client.room)
  <2>1. /\ op' = [NewGeneration(ops, o) EXCEPT ![o].pc = "joining"]
        /\ client' = [connecting |-> o, room |-> NoOp] /\ client.room = NoOp /\ command' = command
    BY <1>4 DEF Connects
  <2>2. client' \in [connecting : Ops \cup {NoOp}, room : Ops \cup {NoOp}] /\ client'.room = client.room
    BY <2>1
  <2> HIDE DEF ops
  <2>3. QED
    BY <1>1, <1>3, <2>1, <2>2, SameClient, NextAwait
<1>5. CASE Throws(ops, o) /\ UNCHANGED client
  <2>1. op' = [ops EXCEPT ![o].pc = "ended"] /\ UNCHANGED <<client, command>>
    BY <1>5 DEF Throws
  <2> HIDE DEF ops
  <2>2. QED
    BY <1>1, <1>2, <2>1, SameClient, NextAwait
<1>6. QED
  BY <1>4, <1>5 DEF reconnect

LEMMA ConnectInv ==
  ASSUME TransportInv, NEW o \in Ops, connect(o)
  PROVE  TransportInv'
<1> DEFINE fenced == Fenced(op, o)
           ops == NewGeneration(fenced, NoOp)
           left == Left(ops, client.room)
<1>1. TabOK /\ command \in CommandType
  BY DEF TransportInv, TabOK
<1>2. fenced \in [Ops -> Row] /\ Same(fenced)
  BY SameRows
<1>3. ops \in [Ops -> Row] /\ Same(ops)
  <2> HIDE DEF fenced
  <2>1. QED
    BY <1>2, GenerationRows DEF Same
<1>4. op[o].pc = "ticket" /\ command' = rejectPending
  BY DEF connect
<1>5. client.room = NoOp => /\ op' = [ops EXCEPT ![o].generation = TRUE, ![o].pc = "joining"]
                            /\ client' = [connecting |-> o, room |-> NoOp]
  BY DEF connect
<1>6. client.room # NoOp => /\ op' = [left EXCEPT ![o].pc = "replacing"]
                            /\ client' = [connecting |-> NoOp, room |-> NoOp]
  BY DEF connect
<1> HIDE DEF ops, fenced
<1>7. /\ command' \in CommandType /\ command'.applied = command.applied
      /\ command'.pc = command.pc \/ command'.pc = "failed"
  BY <1>1, <1>4, RejectedPending
<1>8. CASE client.room = NoOp
  <2>1. PICK marked : marked = [ops EXCEPT ![o].generation = TRUE]
    OBVIOUS
  <2>2. marked \in [Ops -> Row] /\ Same(marked)
    <3>1. marked \in [Ops -> Row]
      BY <1>3, <2>1, ZenonT(40) DEF Row
    <3>2. \A x \in Ops : marked[x].pc = ops[x].pc /\ marked[x].wire = ops[x].wire /\ marked[x].copy = ops[x].copy
      BY <1>3, <2>1 DEF Row
    <3>3. QED
      BY <1>3, <3>1, <3>2 DEF Same
  <2>3. op' = [marked EXCEPT ![o].pc = "joining"]
    BY <1>5, <1>8, <2>1
  <2>4. client' \in [connecting : Ops \cup {NoOp}, room : Ops \cup {NoOp}] /\ client'.room = client.room
    BY <1>5, <1>8
  <2>5. op[o].pc # "ended" /\ op[o].pc # "waiting" /\ "joining" \in Pcs
    BY <1>4 DEF Pcs
  <2>6. QED
    BY <1>7, <2>2, <2>3, <2>4, <2>5, NextAwait
<1>9. CASE client.room # NoOp
  <2>1. client.room \in Ops
    BY <1>1, <1>9 DEF TabOK
  <2>2. /\ left \in [Ops -> Row] /\ \A x \in Ops : left[x].pc = ops[x].pc
        /\ \A x \in Ops : x # client.room => left[x].wire = ops[x].wire /\ left[x].copy = ops[x].copy
        /\ left[client.room].wire = IF ops[client.room].wire = "joined" THEN "leaving" ELSE ops[client.room].wire
        /\ left[client.room].copy = "none"
    BY <1>3, <2>1, LeftRows
  <2> HIDE DEF left
  <2>3. /\ \A x \in Ops : left[x].pc = op[x].pc
        /\ \A x \in Ops : x # client.room => left[x].wire = op[x].wire /\ left[x].copy = op[x].copy
        /\ left[client.room].wire = IF op[client.room].wire = "joined" THEN "leaving" ELSE op[client.room].wire
    BY <1>3, <2>1, <2>2 DEF Same
  <2>4. op' = [left EXCEPT ![o].pc = "replacing"]
    BY <1>6, <1>9
  <2>5. op' \in [Ops -> Row] /\ \A x \in Ops : /\ x # o => op'[x].pc = left[x].pc
            /\ op'[x].wire = left[x].wire /\ op'[x].copy = left[x].copy
    BY <2>2, <2>4 DEF Row
  <2>6. TabOK' /\ client'.room = NoOp
    BY <2>5, <1>6, <1>7, <1>9 DEF TabOK
  <2>7. /\ \A x \in Ops \ {o} : op'[x].pc = op[x].pc
        /\ \A x \in Ops : x # client.room => op'[x].wire = op[x].wire /\ op'[x].copy = op[x].copy
        /\ op'[client.room].copy = "none" /\ op'[client.room].wire # "joined"
        /\ op'[client.room].wire # "none" => op[client.room].wire # "none"
    BY <2>1, <2>2, <2>3, <2>5
  <2>8. op[o].pc \in {"free", "ticket"}
    BY <1>4
  <2>9. QED
    BY <1>7, <2>6, <2>7, <2>8, LetsGo
<1>10. QED
  BY <1>8, <1>9

LEMMA DisconnectEndsInv ==
  ASSUME TransportInv, NEW o \in Ops, DisconnectEnds(o)
  PROVE  TransportInv'
<1>1. /\ op[o].pc = "disconnecting" /\ op' = [op EXCEPT ![o].pc = "ended"] /\ UNCHANGED <<client, command>>
  BY DEF DisconnectEnds
<1>2. op[o].pc # "ended" /\ op[o].pc # "waiting" /\ "ended" \in Pcs
  BY <1>1 DEF Pcs
<1>3. QED
  BY <1>1, <1>2, SameRows, SameClient, NextAwait

LEMMA ReplacementInv ==
  ASSUME TransportInv, NEW o \in Ops, ReplacementStarts(o)
  PROVE  TransportInv'
<1>1. op[o].pc # "ended" /\ op[o].pc # "waiting" /\ "ended" \in Pcs /\ "joining" \in Pcs
  BY DEF ReplacementStarts, Pcs
<1>2. CASE Connects(op, o, client.room)
  <2>1. /\ op' = [NewGeneration(op, o) EXCEPT ![o].pc = "joining"]
        /\ client' = [connecting |-> o, room |-> NoOp] /\ client.room = NoOp /\ command' = command
    BY <1>2 DEF Connects
  <2>2. client' \in [connecting : Ops \cup {NoOp}, room : Ops \cup {NoOp}] /\ client'.room = client.room
    BY <2>1
  <2>3. QED
    BY <1>1, <2>1, <2>2, SameRows, SameClient, NextAwait
<1>3. CASE Throws(op, o) /\ UNCHANGED client
  <2>1. op' = [op EXCEPT ![o].pc = "ended"] /\ UNCHANGED <<client, command>>
    BY <1>3 DEF Throws
  <2>2. QED
    BY <1>1, <2>1, SameRows, SameClient, NextAwait
<1>4. QED
  BY <1>2, <1>3 DEF ReplacementStarts

LEMMA JoinFailsInv ==
  ASSUME TransportInv, NEW o \in Ops, JoinFails(o)
  PROVE  TransportInv'
<1>1. /\ op[o].pc = "joining" /\ op' = [op EXCEPT ![o].pc = "ended"]
      /\ command' = command /\ client' = NotConnecting(o)
  BY DEF JoinFails, Throws
<1>2. op[o].pc # "ended" /\ op[o].pc # "waiting" /\ "ended" \in Pcs
  BY <1>1 DEF Pcs
<1>3. QED
  BY <1>1, <1>2, SameRows, SameClient, NextAwait

(* The row of one operation changes: what its new pc, wire and copy have   *)
(* to be for the invariant to hold again.                                  *)
LEMMA OneRow ==
  ASSUME TransportInv, NEW o \in Ops, NEW row \in Row, op' = [op EXCEPT ![o] = row],
         client' \in [connecting : Ops \cup {NoOp}, room : Ops \cup {NoOp}],
         command' = command, client'.room \in {client.room, o},
         client'.room = o => row.pc = "ended",
         row.wire # "none" => \A x \in Ops : x # o => op[x].wire = "none",
         row.wire = "joined" => client'.room = o \/ row.pc = "waiting",
         row.copy \in {"none", "sent"},
         row.copy = "sent" => row.pc = "ended" /\ (command.pc = "pending" \/ row.wire # "joined"),
         client'.room # client.room => op[o].wire # "none"
  PROVE  TransportInv'
<1> USE WebAssumption
<1>1. TabOK /\ op \in [Ops -> Row]
  BY DEF TransportInv, TabOK
<1>2. op'[o] = row /\ \A x \in Ops : x # o => op'[x] = op[x]
  BY <1>1
<1>3. TabOK'
  BY <1>1, <1>2 DEF TabOK
<1>4. OneWire'
  BY <1>2 DEF OneWire, TransportInv
<1>5. HeldAfterReturn'
  BY <1>1, <1>2, <1>3 DEF HeldAfterReturn, TransportInv, TabOK
<1>6. AnswerOnItsWay'
  BY <1>2 DEF AnswerOnItsWay, TransportInv
<1>7. RejectedIsOver'
  BY <1>2 DEF RejectedIsOver, TransportInv
<1>8. AnswersAreTrue'
  BY DEF AnswersAreTrue, TransportInv
<1>9. NoTransportIsLost'
  <2>1. SUFFICES ASSUME NEW x \in Ops, x # o, op[x].wire = "joined"
                 PROVE  client'.room = x \/ op[x].pc = "waiting"
    BY <1>2 DEF NoTransportIsLost
  <2>2. client.room = x \/ op[x].pc = "waiting"
    BY <2>1 DEF NoTransportIsLost, TransportInv
  <2>3. op[o].wire = "none"
    BY <2>1 DEF OneWire, TransportInv
  <2>4. QED
    BY <2>2, <2>3
<1>10. QED
  BY <1>3, <1>4, <1>5, <1>6, <1>7, <1>8, <1>9 DEF TransportInv

LEMMA JoinCancelledInv ==
  ASSUME TransportInv, NEW o \in Ops, JoinCancelled(o)
  PROVE  TransportInv'
<1> DEFINE row == [op[o] EXCEPT !.wire = "leaving", !.pc = "ended"]
<1>1. op \in [Ops -> Row] /\ op[o].pc = "joining" /\ op[o].copy = "none"
  BY DEF TransportInv, TabOK, JoinCancelled, HeldAfterReturn, Row
<1>2. row \in Row /\ row.pc = "ended" /\ row.wire = "leaving" /\ row.copy = "none"
  BY <1>1 DEF Row
<1>3. op' = [op EXCEPT ![o] = row]
  BY <1>1 DEF JoinCancelled, Throws, CancelledJoin
<1>4. \A x \in Ops : op[x].wire = "none"
  BY DEF JoinCancelled, Attached
<1>5. command' = command /\ client' = NotConnecting(o)
  BY DEF JoinCancelled, Throws
<1> HIDE DEF row
<1>6. QED
  BY <1>1, <1>2, <1>3, <1>4, <1>5, SameClient, OneRow

LEMMA JoinSucceedsInv ==
  ASSUME TransportInv, NEW o \in Ops, JoinSucceeds(o)
  PROVE  TransportInv'
<1> DEFINE row == [op[o] EXCEPT !.pc = "waiting", !.wire = "joined"]
<1>1. op \in [Ops -> Row] /\ op[o].pc = "joining" /\ op[o].copy = "none" /\ client.room # o
  BY WebAssumption DEF TransportInv, TabOK, JoinSucceeds, HeldAfterReturn, Row
<1>2. row \in Row /\ row.pc = "waiting" /\ row.wire = "joined" /\ row.copy = "none"
  BY <1>1 DEF Row
<1>3. op' = [op EXCEPT ![o] = row]
  BY <1>1 DEF JoinSucceeds
<1>4. \A x \in Ops : op[x].wire = "none"
  BY DEF JoinSucceeds, Attached
<1>5. command' = command /\ client' = NotConnecting(o)
  BY DEF JoinSucceeds
<1> HIDE DEF row
<1>6. QED
  BY <1>1, <1>2, <1>3, <1>4, <1>5, SameClient, OneRow

LEMMA NoInitialStateInv ==
  ASSUME TransportInv, NEW o \in Ops, NoInitialState(o)
  PROVE  TransportInv'
<1> USE WebAssumption
<1> DEFINE row == [op[o] EXCEPT !.wire = IF @ = "joined" THEN "leaving" ELSE @, !.copy = "none", !.pc = "ended"]
<1>1. op \in [Ops -> Row] /\ op[o].pc = "waiting" /\ client.room # o
  BY DEF TransportInv, TabOK, NoInitialState, HeldAfterReturn, Row
<1>2. /\ row \in Row /\ row.pc = "ended" /\ row.wire # "joined" /\ row.copy = "none"
      /\ row.wire # "none" => op[o].wire # "none"
  BY <1>1 DEF Row
<1>3. op' = [op EXCEPT ![o] = row] /\ command' = command /\ client' = client
  BY <1>1 DEF NoInitialState, Throws, Left
<1> HIDE DEF row
<1>4. row.wire # "none" => \A x \in Ops : x # o => op[x].wire = "none"
  BY <1>2 DEF TransportInv, OneWire
<1>5. QED
  BY <1>1, <1>2, <1>3, <1>4, SameClient, OneRow

LEMMA ConnectionOpensInv ==
  ASSUME TransportInv, NEW o \in Ops, ConnectionOpens(o)
  PROVE  TransportInv'
<1> DEFINE row == [op[o] EXCEPT !.pc = "ended", !.copy = Resent(o)]
<1>1. op \in [Ops -> Row] /\ op[o].wire = "joined"
  BY DEF TransportInv, TabOK, ConnectionOpens
<1>2. /\ row \in Row /\ row.pc = "ended" /\ row.wire = "joined" /\ row.copy \in {"none", "sent"}
      /\ row.copy = "sent" => command.pc = "pending"
  BY <1>1 DEF Row, Resent
<1>3. op' = [op EXCEPT ![o] = row] /\ command' = command
  BY <1>1 DEF ConnectionOpens
<1> HIDE DEF row
<1>4. \A x \in Ops : x # o => op[x].wire = "none"
  BY <1>1 DEF TransportInv, OneWire
<1>5. client' \in [connecting : Ops \cup {NoOp}, room : Ops \cup {NoOp}] /\ client'.room = o
  BY DEF ConnectionOpens, TransportInv, TabOK
<1>6. QED
  BY <1>1, <1>2, <1>3, <1>4, <1>5, OneRow

LEMMA CancelledOpensInv ==
  ASSUME TransportInv, NEW o \in Ops, CancelledConnectionOpens(o)
  PROVE  TransportInv'
<1> DEFINE row == [op[o] EXCEPT !.pc = "ended"]
<1>1. op \in [Ops -> Row] /\ op[o].wire = "joined" /\ op[o].copy = "none"
  BY DEF TransportInv, TabOK, CancelledConnectionOpens, HeldAfterReturn, Row
<1>2. row \in Row /\ row.pc = "ended" /\ row.wire = "joined" /\ row.copy = "none"
  BY <1>1 DEF Row
<1>3. op' = [op EXCEPT ![o] = row] /\ command' = command
  BY <1>1 DEF CancelledConnectionOpens
<1> HIDE DEF row
<1>4. \A x \in Ops : x # o => op[x].wire = "none"
  BY <1>1 DEF TransportInv, OneWire
<1>5. client' \in [connecting : Ops \cup {NoOp}, room : Ops \cup {NoOp}] /\ client'.room = o
  BY DEF CancelledConnectionOpens, TransportInv, TabOK
<1>6. QED
  BY <1>1, <1>2, <1>3, <1>4, <1>5, OneRow

LEMMA CollectedInv ==
  ASSUME TransportInv, NEW o \in Ops, Collected(o)
  PROVE  TransportInv'
<1>1. op' = [op EXCEPT ![o] = Idle] /\ command' = command /\ client' = client /\ client.room # o
  BY DEF Collected
<1>2. Idle \in Row /\ Idle.wire = "none" /\ Idle.copy = "none"
  BY DEF Idle, Row
<1>3. QED
  BY <1>1, <1>2, SameClient, OneRow

LEMMA DetachedInv ==
  ASSUME TransportInv, NEW o \in Ops, Detached(o)
  PROVE  TransportInv'
<1> USE WebAssumption
<1> DEFINE row == [op[o] EXCEPT !.wire = "none"]
<1>1. /\ op \in [Ops -> Row] /\ op[o].copy \in {"none", "sent"}
      /\ op[o].copy = "sent" => op[o].pc = "ended"
      /\ client.room = o => op[o].pc = "ended"
  BY DEF TransportInv, TabOK, Detached, AnswerOnItsWay, HeldAfterReturn, Row
<1>2. row \in Row /\ row.pc = op[o].pc /\ row.wire = "none" /\ row.copy = op[o].copy
  BY <1>1 DEF Row
<1>3. op' = [op EXCEPT ![o] = row] /\ command' = command /\ client' = client
  BY <1>1 DEF Detached
<1> HIDE DEF row
<1>4. QED
  BY <1>1, <1>2, <1>3, SameClient, OneRow

-----------------------------------------------------------------------------
(* The room *)

(* Something happens on the one transport that is open. *)
LEMMA OnTheWire ==
  ASSUME TransportInv, NEW o \in Ops, op[o].wire = "joined", TabOK',
         \A x \in Ops \ {o} : op'[x].pc = op[x].pc /\ op'[x].wire = op[x].wire /\ op'[x].copy = op[x].copy,
         op'[o].pc = op[o].pc, op'[o].copy # "none" => op[o].copy # "none",
         client'.room = client.room \/ (client.room = o /\ client'.room = NoOp /\ op'[o].wire # "joined"),
         op'[o].copy \in {"ack", "reject"} => op'[o].wire = "joined",
         op'[o].copy = "ack" => command'.applied,
         op'[o].copy = "reject" => ~command'.applied,
         command'.pc = "rejected" => ~(op'[o].wire = "joined" /\ op'[o].copy = "sent"),
         AnswersAreTrue'
  PROVE  TransportInv'
<1> USE WebAssumption
<1>1. \A x \in Ops \ {o} : op[x].wire = "none" /\ op[x].copy \notin {"ack", "reject"}
  BY DEF TransportInv, OneWire, AnswerOnItsWay
<1>2. OneWire'
  BY <1>1 DEF OneWire
<1>3. HeldAfterReturn'
  BY DEF HeldAfterReturn, TransportInv, TabOK
<1>4. AnswerOnItsWay'
  BY <1>1 DEF AnswerOnItsWay
<1>5. RejectedIsOver'
  BY <1>1 DEF RejectedIsOver
<1>6. NoTransportIsLost'
  BY <1>1 DEF NoTransportIsLost, TransportInv
<1>7. QED
  BY <1>2, <1>3, <1>4, <1>5, <1>6 DEF TransportInv

LEMMA CopyRows ==
  ASSUME TransportInv, NEW o \in Ops, NEW c \in {"none", "sent", "ack", "reject"},
         op' = [op EXCEPT ![o].copy = c], command' \in CommandType, client' = client
  PROVE  /\ TabOK'
         /\ \A x \in Ops \ {o} : op'[x].pc = op[x].pc /\ op'[x].wire = op[x].wire /\ op'[x].copy = op[x].copy
         /\ op'[o].pc = op[o].pc /\ op'[o].wire = op[o].wire /\ op'[o].copy = c
<1>1. op \in [Ops -> Row]
  BY DEF TransportInv, TabOK
<1>2. op' \in [Ops -> Row]
  BY <1>1 DEF Row
<1>3. QED
  BY <1>1, <1>2 DEF TransportInv, TabOK, Row

(* A command that can still be handled has not been rejected. *)
LEMMA SentIsOpen ==
  ASSUME TransportInv, NEW o \in Ops, op[o].wire = "joined", op[o].copy = "sent"
  PROVE  command.pc # "rejected"
BY DEF TransportInv, RejectedIsOver

LEMMA AppliedCommand ==
  ASSUME command \in CommandType, NEW c, c = [command EXCEPT !.applied = TRUE]
  PROVE  c \in CommandType /\ c.pc = command.pc /\ c.applied
BY DEF CommandType

LEMMA HandlesInv ==
  ASSUME TransportInv, NEW o \in Ops, Handles(o)
  PROVE  TransportInv'
<1>1. op[o].wire = "joined" /\ op[o].copy = "sent" /\ client' = client /\ command \in CommandType
  BY DEF Handles, TransportInv, TabOK
<1>2. command.pc # "rejected"
  BY <1>1, SentIsOpen
<1>3. CASE op' = [op EXCEPT ![o].copy = "ack"] /\ command' = [command EXCEPT !.applied = TRUE]
  <2>1. command' \in CommandType /\ command'.pc = command.pc /\ command'.applied
    BY <1>1, <1>3, AppliedCommand
  <2>2. /\ TabOK'
        /\ \A x \in Ops \ {o} : op'[x].pc = op[x].pc /\ op'[x].wire = op[x].wire /\ op'[x].copy = op[x].copy
        /\ op'[o].pc = op[o].pc /\ op'[o].wire = op[o].wire /\ op'[o].copy = "ack"
    BY <1>1, <1>3, <2>1, CopyRows
  <2>3. AnswersAreTrue'
    BY <1>2, <2>1 DEF AnswersAreTrue
  <2>4. QED
    BY <1>1, <2>1, <2>2, <2>3, OnTheWire
<1>4. CASE Rejectable /\ op' = [op EXCEPT ![o].copy = "reject"] /\ command' = command
  <2>1. /\ TabOK'
        /\ \A x \in Ops \ {o} : op'[x].pc = op[x].pc /\ op'[x].wire = op[x].wire /\ op'[x].copy = op[x].copy
        /\ op'[o].pc = op[o].pc /\ op'[o].wire = op[o].wire /\ op'[o].copy = "reject"
    BY <1>1, <1>4, CopyRows
  <2>2. AnswersAreTrue' /\ ~command'.applied
    BY <1>4 DEF AnswersAreTrue, TransportInv, Rejectable
  <2>3. QED
    BY <1>1, <2>1, <2>2, OnTheWire
<1>5. QED
  BY <1>3, <1>4 DEF Handles

LEMMA HandlingFailsInv ==
  ASSUME TransportInv, NEW o \in Ops, HandlingFails(o)
  PROVE  TransportInv'
<1>1. /\ op[o].wire = "joined" /\ client' = client /\ command \in CommandType
      /\ op' = [op EXCEPT ![o].copy = "none"] /\ command' = [command EXCEPT !.unanswered = TRUE]
  BY DEF HandlingFails, TransportInv, TabOK
<1>2. command' \in CommandType /\ command'.pc = command.pc /\ command'.applied = command.applied
  BY <1>1 DEF CommandType
<1>3. /\ TabOK'
      /\ \A x \in Ops \ {o} : op'[x].pc = op[x].pc /\ op'[x].wire = op[x].wire /\ op'[x].copy = op[x].copy
      /\ op'[o].pc = op[o].pc /\ op'[o].wire = op[o].wire /\ op'[o].copy = "none"
  BY <1>1, <1>2, CopyRows
<1>4. AnswersAreTrue'
  BY <1>2 DEF AnswersAreTrue, TransportInv
<1>5. QED
  BY <1>1, <1>3, <1>4, OnTheWire

LEMMA AnsweredInv ==
  ASSUME TransportInv, NEW o \in Ops, Answered(o)
  PROVE  TransportInv'
<1>1. /\ op[o].copy \in {"ack", "reject"} /\ client' = client /\ command \in CommandType
      /\ op' = [op EXCEPT ![o].copy = "none"]
  BY DEF Answered, TransportInv, TabOK
<1>2. /\ op[o].wire = "joined"
      /\ op[o].copy = "ack" => command.applied
      /\ op[o].copy # "ack" => ~command.applied
  BY <1>1 DEF TransportInv, AnswerOnItsWay
<1>3. \/ command' = command
      \/ command' = [command EXCEPT !.pc = IF op[o].copy = "ack" THEN "acknowledged" ELSE "rejected"]
  BY DEF Answered
<1>4. command' \in CommandType /\ command'.applied = command.applied
  BY <1>1, <1>3 DEF CommandType
<1>5. AnswersAreTrue'
  <2>1. CASE command' = command
    BY <2>1 DEF AnswersAreTrue, TransportInv
  <2>2. CASE command' = [command EXCEPT !.pc = IF op[o].copy = "ack" THEN "acknowledged" ELSE "rejected"]
    <3>1. command'.pc = IF op[o].copy = "ack" THEN "acknowledged" ELSE "rejected"
      BY <1>1, <2>2 DEF CommandType
    <3>2. QED
      BY <1>2, <1>4, <3>1 DEF AnswersAreTrue
  <2>3. QED
    BY <1>3, <2>1, <2>2
<1>6. /\ TabOK'
      /\ \A x \in Ops \ {o} : op'[x].pc = op[x].pc /\ op'[x].wire = op[x].wire /\ op'[x].copy = op[x].copy
      /\ op'[o].pc = op[o].pc /\ op'[o].wire = op[o].wire /\ op'[o].copy = "none"
  BY <1>1, <1>4, CopyRows
<1>7. QED
  BY <1>1, <1>2, <1>5, <1>6, OnTheWire

LEMMA DropsInv ==
  ASSUME TransportInv, NEW o \in Ops, Drops(o)
  PROVE  TransportInv'
<1> DEFINE gone == [op EXCEPT ![o].wire = "none", ![o].copy = "none"]
<1>1. op[o].wire = "joined" /\ command \in CommandType /\ op \in [Ops -> Row]
  BY DEF Drops, TransportInv, TabOK
<1>2. /\ gone \in [Ops -> Row] /\ gone[o].pc = op[o].pc /\ gone[o].wire = "none" /\ gone[o].copy = "none"
      /\ \A x \in Ops \ {o} : gone[x] = op[x]
  BY <1>1, ZenonT(40) DEF Row
<1>3. \/ command' = command
      \/ op[o].copy = "sent" /\ command' = [command EXCEPT !.applied = TRUE]
  BY DEF Drops
<1>4. \/ /\ op' = NewGeneration(gone, NoOp) /\ client.room = o
         /\ client' = [client EXCEPT !.room = NoOp]
      \/ op' = gone /\ client' = client
  BY DEF Drops, isActive
<1> HIDE DEF gone
<1>5. command' \in CommandType /\ AnswersAreTrue'
  <2>1. CASE command' = command
    BY <1>1, <2>1 DEF AnswersAreTrue, TransportInv
  <2>2. CASE op[o].copy = "sent" /\ command' = [command EXCEPT !.applied = TRUE]
    <3>1. command' \in CommandType /\ command'.pc = command.pc /\ command'.applied
      BY <1>1, <2>2, AppliedCommand
    <3>2. command.pc # "rejected"
      BY <1>1, <2>2, SentIsOpen
    <3>3. QED
      BY <3>1, <3>2 DEF AnswersAreTrue
  <2>3. QED
    BY <1>3, <2>1, <2>2
<1>6. /\ op' \in [Ops -> Row] /\ op'[o].pc = op[o].pc /\ op'[o].wire = "none" /\ op'[o].copy = "none"
      /\ \A x \in Ops \ {o} : op'[x].pc = op[x].pc /\ op'[x].wire = op[x].wire /\ op'[x].copy = op[x].copy
  <2>1. CASE op' = gone
    BY <1>2, <2>1
  <2>2. CASE op' = NewGeneration(gone, NoOp)
    BY <1>2, <2>2, GenerationRows
  <2>3. QED
    BY <1>4, <2>1, <2>2
<1>7. /\ client' \in [connecting : Ops \cup {NoOp}, room : Ops \cup {NoOp}]
      /\ client'.room = client.room \/ (client.room = o /\ client'.room = NoOp)
  <2>1. client \in [connecting : Ops \cup {NoOp}, room : Ops \cup {NoOp}]
    BY DEF TransportInv, TabOK
  <2>2. QED
    BY <1>4, <2>1
<1>8. TabOK'
  BY <1>5, <1>6, <1>7 DEF TabOK
<1>9. QED
  BY <1>1, <1>5, <1>6, <1>7, <1>8, OnTheWire

LEMMA ProtocolBreaksInv ==
  ASSUME TransportInv, NEW o \in Ops, ProtocolBreaks(o)
  PROVE  TransportInv'
<1> DEFINE left == Left(op, o)
<1>1. command \in CommandType /\ op \in [Ops -> Row] /\ client.room = o
  BY DEF ProtocolBreaks, TransportInv, TabOK, isActive
<1>2. /\ left \in [Ops -> Row] /\ \A x \in Ops : left[x].pc = op[x].pc
      /\ \A x \in Ops : x # o => left[x].wire = op[x].wire /\ left[x].copy = op[x].copy
      /\ left[o].wire = IF op[o].wire = "joined" THEN "leaving" ELSE op[o].wire
      /\ left[o].copy = "none"
  BY <1>1, LeftRows
<1>3. /\ op' = NewGeneration(left, NoOp) /\ client' = [client EXCEPT !.room = NoOp]
      /\ command' = rejectPending
  BY DEF ProtocolBreaks
<1> HIDE DEF left
<1>4. /\ op' \in [Ops -> Row]
      /\ \A x \in Ops : op'[x].pc = left[x].pc /\ op'[x].wire = left[x].wire /\ op'[x].copy = left[x].copy
  BY <1>2, <1>3, GenerationRows
<1>5. /\ command' \in CommandType /\ command'.applied = command.applied
      /\ command'.pc = command.pc \/ command'.pc = "failed"
  BY <1>1, <1>3, RejectedPending
<1>6. client' \in [connecting : Ops \cup {NoOp}, room : Ops \cup {NoOp}] /\ client'.room = NoOp
  BY <1>3 DEF TransportInv, TabOK
<1>7. TabOK'
  BY <1>4, <1>5, <1>6 DEF TabOK
<1>8. /\ \A x \in Ops : op'[x].pc = op[x].pc
      /\ \A x \in Ops : x # client.room => op'[x].wire = op[x].wire /\ op'[x].copy = op[x].copy
      /\ op'[client.room].copy = "none" /\ op'[client.room].wire # "joined"
      /\ op'[client.room].wire # "none" => op[client.room].wire # "none"
  BY <1>1, <1>2, <1>4
<1>9. QED
  BY <1>5, <1>6, <1>7, <1>8, LetsGo

LEMMA StutterInv ==
  ASSUME TransportInv, UNCHANGED <<client, op, command>>
  PROVE  TransportInv'
BY DEF TransportInv, TabOK, OneWire, HeldAfterReturn, AnswerOnItsWay, RejectedIsOver, AnswersAreTrue,
       NoTransportIsLost

LEMMA TransportErrorInv ==
  ASSUME TransportInv, NEW o \in Ops, TransportError(o)
  PROVE  TransportInv'
<1>1. command \in CommandType /\ command' = rejectPending /\ UNCHANGED <<client, op>>
  BY DEF TransportInv, TabOK, TransportError
<1>2. /\ command' \in CommandType /\ command'.applied = command.applied
      /\ command'.pc = command.pc \/ command'.pc = "failed"
  BY <1>1, RejectedPending
<1>3. TabOK' /\ client'.room = client.room
  BY <1>1, <1>2 DEF TransportInv, TabOK
<1>4. \A x \in Ops : op'[x].pc = op[x].pc /\ op'[x].wire = op[x].wire /\ op'[x].copy = op[x].copy
  BY <1>1
<1>5. QED
  BY <1>2, <1>3, <1>4, SameTransports

-----------------------------------------------------------------------------
(* What is shown, and the bounds *)

LEMMA ShownParts ==
  ASSUME ShownOK, NEW o, NEW failed \in BOOLEAN
  PROVE  /\ NoRoomShown \in ProviderType
         /\ ErrorShown \in ProviderType
         /\ Connecting \in ProviderType
         /\ ViewAfter(o, failed) \in ViewType
BY DEF ShownOK, NoRoomShown, ErrorShown, Connecting, ViewAfter, ViewType, ProviderType

LEMMA ThrowsShown ==
  ASSUME ShownOK, NEW ops, NEW o, Throws(ops, o)
  PROVE  ShownOK'
BY ShownParts DEF ShownOK, Throws

LEMMA NextShown ==
  ASSUME ShownOK, Next
  PROVE  ShownOK'
<1>1. CASE UserStep
  <2>1. CASE OpensGame \/ TriesAgain \/ Sends
    <3>1. /\ [gameView EXCEPT !.seen = "nothing"] \in ViewType
          /\ [seen |-> "nothing", reconnecting |-> FALSE, error |-> FALSE] \in ViewType
      BY DEF ShownOK, ViewType
    <3>2. QED
      BY <2>1, <3>1 DEF OpensGame, TriesAgain, Sends, ShownOK
  <2>2. ASSUME NEW o \in Ops, ListJoins(o) \/ LeavesGame(o)
        PROVE  ShownOK'
    BY <2>2, ShownParts DEF ListJoins, LeavesGame, ShownOK
  <2>3. QED
    BY <1>1, <2>1, <2>2 DEF UserStep
<1>2. CASE ViewSettles
  BY <1>2 DEF ViewSettles, ShownOK, ViewType
<1>3. ASSUME NEW o \in Ops, Progress(o)
      PROVE  ShownOK'
  <2>1. CASE reconnect(o)
    BY <2>1, ShownParts, ThrowsShown DEF reconnect, Connects, ShownOK
  <2>2. CASE connect(o)
    BY <2>2, ShownParts DEF connect, ShownOK
  <2>3. CASE DisconnectEnds(o) \/ Collected(o) \/ Detached(o) \/ Handles(o) \/ Answered(o)
    BY <2>3, ShownParts DEF DisconnectEnds, Collected, Detached, Handles, Answered, ShownOK
  <2>4. CASE ReplacementStarts(o)
    BY <2>4, ThrowsShown DEF ReplacementStarts, Connects, ShownOK
  <2>5. CASE JoinCancelled(o)
    BY <2>5, ThrowsShown DEF JoinCancelled
  <2>6. CASE JoinSucceeds(o)
    BY <2>6 DEF JoinSucceeds, ShownOK
  <2>7. CASE ConnectionOpens(o)
    <3>1. page' \in {"list", "game"}
      BY <2>7 DEF ConnectionOpens, ShownOK
    <3>2. provider' \in ProviderType
      BY <2>7 DEF ConnectionOpens, ShownOK, ProviderType
    <3>3. [gameView EXCEPT !.seen = IF page = "list" THEN "nothing" ELSE @] \in ViewType
      BY DEF ShownOK, ViewType
    <3>4. gameView' \in ViewType
      BY <2>7, <3>3, ShownParts DEF ConnectionOpens
    <3>5. QED
      BY <3>1, <3>2, <3>4 DEF ShownOK
  <2>8. CASE CancelledConnectionOpens(o)
    <3>1. [provider EXCEPT !.state = TRUE] \in ProviderType
      BY DEF ShownOK, ProviderType
    <3>2. QED
      BY <2>8, <3>1, ShownParts DEF CancelledConnectionOpens, ShownOK
  <2>9. CASE StateArrives(o) \/ ViewReconnects(o)
    <3>1. [provider EXCEPT !.state = TRUE] \in ProviderType
      BY DEF ShownOK, ProviderType
    <3>2. [seen |-> "none", reconnecting |-> TRUE, error |-> FALSE] \in ViewType
      BY DEF ViewType
    <3>3. QED
      BY <2>9, <3>1, <3>2 DEF StateArrives, ViewReconnects, ShownOK
  <2>10. QED
    BY <1>3, <2>1, <2>2, <2>3, <2>4, <2>5, <2>6, <2>7, <2>8, <2>9 DEF Progress
<1>4. ASSUME NEW o \in Ops, Trouble(o)
      PROVE  ShownOK'
  <2>1. CASE TicketFails(o) \/ HandlingFails(o)
    BY <2>1, ShownParts DEF TicketFails, HandlingFails, ShownOK
  <2>2. CASE JoinFails(o) \/ NoInitialState(o)
    BY <2>2, ThrowsShown DEF JoinFails, NoInitialState
  <2>3. CASE Drops(o)
    BY <2>3, ShownParts DEF Drops, ShownOK
  <2>4. CASE ProtocolBreaks(o) \/ TransportError(o)
    <3>1. [provider EXCEPT !.error = TRUE] \in ProviderType
      BY DEF ShownOK, ProviderType
    <3>2. QED
      BY <2>4, <3>1, ShownParts DEF ProtocolBreaks, TransportError, ShownOK
  <2>5. QED
    BY <1>4, <2>1, <2>2, <2>3, <2>4 DEF Trouble
<1>5. QED
  BY <1>1, <1>2, <1>3, <1>4 DEF Next

LEMMA NextCounts ==
  ASSUME CountsOK, Next
  PROVE  CountsOK'
<1> USE WebAssumption
<1>1. /\ moves' = moves \/ Move
      /\ faults' = faults \/ Fault
  BY DEF Next, UserStep, OpensGame, TriesAgain, Sends, ListJoins, LeavesGame, ViewSettles, Progress, Trouble,
         reconnect, connect, DisconnectEnds, ReplacementStarts, JoinCancelled, JoinSucceeds, ConnectionOpens,
         CancelledConnectionOpens, Collected, Detached, Handles, Answered, StateArrives, ViewReconnects,
         TicketFails, JoinFails, NoInitialState, HandlingFails, Drops, ProtocolBreaks, TransportError
<1>2. QED
  BY <1>1 DEF CountsOK, Move, Fault

-----------------------------------------------------------------------------
(* The theorems *)

LEMMA NextTransport ==
  ASSUME TransportInv, Next
  PROVE  TransportInv'
<1>1. CASE UserStep
  <2>1. CASE OpensGame \/ TriesAgain
    BY <2>1, StutterInv DEF OpensGame, TriesAgain
  <2>2. CASE Sends
    BY <2>2, SendsInv
  <2>3. ASSUME NEW o \in Ops, ListJoins(o)
        PROVE  TransportInv'
    BY <2>3, StartedInv DEF ListJoins
  <2>4. ASSUME NEW o \in Ops, LeavesGame(o)
        PROVE  TransportInv'
    BY <2>4, LeavesInv
  <2>5. QED
    BY <1>1, <2>1, <2>2, <2>3, <2>4 DEF UserStep
<1>2. CASE ViewSettles
  BY <1>2, UnheardInv DEF ViewSettles
<1>3. ASSUME NEW o \in Ops, Progress(o)
      PROVE  TransportInv'
  <2>1. CASE StateArrives(o)
    BY <2>1, StutterInv DEF StateArrives
  <2>2. CASE ViewReconnects(o)
    BY <2>2, StartedInv DEF ViewReconnects
  <2>3. QED
    BY <1>3, <2>1, <2>2, ReconnectInv, ConnectInv, DisconnectEndsInv, ReplacementInv, JoinCancelledInv,
       JoinSucceedsInv, ConnectionOpensInv, CancelledOpensInv, CollectedInv, DetachedInv, HandlesInv, AnsweredInv
       DEF Progress
<1>4. ASSUME NEW o \in Ops, Trouble(o)
      PROVE  TransportInv'
  BY <1>4, TicketFailsInv, JoinFailsInv, NoInitialStateInv, HandlingFailsInv, DropsInv, ProtocolBreaksInv,
     TransportErrorInv DEF Trouble
<1>5. QED
  BY <1>1, <1>2, <1>3, <1>4 DEF Next

LEMMA InitWeb == Init => WebInv
<1> SUFFICES ASSUME Init PROVE WebInv
  OBVIOUS
<1>1. ShownOK /\ CountsOK
  BY WebAssumption DEF Init, ShownOK, CountsOK, ViewType, ProviderType
<1>2. op = [o \in Ops |-> Idle] /\ client = [connecting |-> NoOp, room |-> NoOp] /\ command = NotSent
  BY DEF Init
<1>3. Idle \in Row /\ Idle.wire = "none" /\ Idle.copy = "none"
  BY DEF Idle, Row
<1>4. NotSent \in CommandType /\ NotSent.pc = "none"
  BY DEF NotSent, CommandType
<1>5. TransportInv
  BY <1>2, <1>3, <1>4 DEF TransportInv, TabOK, OneWire, HeldAfterReturn, AnswerOnItsWay, RejectedIsOver,
     AnswersAreTrue, NoTransportIsLost
<1>6. QED
  BY <1>1, <1>5 DEF WebInv

(* The inductive invariant: the player has one connection to the room, an  *)
(* answer under way is true and on that connection, a rejected command is  *)
(* past, and what the client holds belongs to an operation that returned.  *)
THEOREM WebInductive == Spec => []WebInv
<1>1. WebInv /\ [Next]_vars => WebInv'
  <2> SUFFICES ASSUME WebInv, [Next]_vars PROVE WebInv'
    OBVIOUS
  <2>1. CASE Next
    BY <2>1, NextTransport, NextShown, NextCounts DEF WebInv
  <2>2. CASE UNCHANGED vars
    BY <2>2, StutterInv DEF vars, WebInv, ShownOK, CountsOK
  <2>3. QED
    BY <2>1, <2>2
<1>2. QED
  BY <1>1, InitWeb, PTL DEF Spec

(* Every variable of the tab has its type, and the room never has two      *)
(* connections of the player, for any number of operations, moves and      *)
(* faults.                                                                 *)
THEOREM WebTypeCorrect == Spec => []TypeOK
<1>1. WebInv => TypeOK
  <2> SUFFICES ASSUME WebInv PROVE TypeOK
    OBVIOUS
  <2> DEFINE Wired == {o \in Ops : op[o].wire # "none"}
  <2>1. Cardinality(Wired) <= 1
    <3>1. CASE Wired = {}
      BY <3>1, FS_EmptySet
    <3>2. CASE Wired # {}
      <4>1. PICK o \in Wired : TRUE
        BY <3>2
      <4>2. Wired = {o}
        BY <4>1 DEF WebInv, TransportInv, OneWire
      <4> HIDE DEF Wired
      <4>3. QED
        BY <4>2, FS_Singleton
    <3>3. QED
      BY <3>1, <3>2
  <2>2. QED
    BY <2>1 DEF WebInv, TransportInv, TabOK, ShownOK, CountsOK, ViewType, ProviderType, Row, CommandType, TypeOK
<1>2. QED
  BY <1>1, WebInductive, PTL

(* However often the connection was lost and a command sent again, a       *)
(* command that the client reports as acknowledged was applied and one it  *)
(* reports as rejected was not, and never will be (pending, findReplay).   *)
THEOREM AnswersCorrect == Spec => []AnswersAreTrue
<1>1. WebInv => AnswersAreTrue
  BY DEF WebInv, TransportInv
<1>2. QED
  BY <1>1, WebInductive, PTL

(* Whatever operations overtake and cancel each other, a connection that   *)
(* is open is the client's or one that an operation waits on               *)
(* (generation, openRoomConnection).                                       *)
THEOREM TransportsCorrect == Spec => []NoTransportIsLost
<1>1. WebInv => NoTransportIsLost
  BY DEF WebInv, TransportInv
<1>2. QED
  BY <1>1, WebInductive, PTL
=============================================================================
