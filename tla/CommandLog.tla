----------------------------- MODULE CommandLog -----------------------------
(***************************************************************************)
(* What the realtime server promises about one room, whoever serves it:    *)
(* one append-only log of accepted commands, each request of an actor in   *)
(* it at most once, a game that only moves forward, and outcomes told to   *)
(* clients only after the log holds them.  No lease, process, retry or     *)
(* crash appears here; RoomCommands implements it.                         *)
(***************************************************************************)
EXTENDS Integers, Sequences

CONSTANT Entries  \* the commands a room can accept, with what they lead to

VARIABLES
  log,        \* the accepted commands, oldest first
  published   \* the outcomes clients have been told

logVars == <<log, published>>

(* How the lifecycle may change from one log entry to the next. *)
Forward(before, after) ==
  \/ before = "waiting" /\ after \in {"waiting", "cancelled", "inProgress"}
  \/ before = "inProgress" /\ after \in {"inProgress", "finished"}

(* The outcome of the entry at position i, as it is told to a client. *)
Outcome(l, i) ==
  [actor |-> l[i].actor, request |-> l[i].request, type |-> l[i].type,
   expected |-> i - 1, version |-> i]

LogInit == log = <<>> /\ published = {}

Create(e) ==
  /\ log = <<>>
  /\ log' = <<e>>
  /\ e.lifecycle = "waiting"
  /\ UNCHANGED published

AppendEntry(e) ==
  /\ log # <<>>
  /\ log' = Append(log, e)
  /\ \A i \in 2 .. Len(log) : <<log[i].actor, log[i].request>> # <<e.actor, e.request>>
  /\ Forward(log[Len(log)].lifecycle, e.lifecycle)
  /\ UNCHANGED published

Publish(i) ==
  /\ published' = published \cup {Outcome(log, i)}
  /\ UNCHANGED log

LogNext ==
  \/ log' # log /\ \E e \in Entries : Create(e) \/ AppendEntry(e)
  \/ \E i \in 2 .. Len(log) : Publish(i)

LogSpec == LogInit /\ [][LogNext]_logVars
=============================================================================
