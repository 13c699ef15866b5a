---------------------------- MODULE RoomPresence ----------------------------
(***************************************************************************)
(* Who is attached to the room of a running game, what the presence row    *)
(* says of it, and the abort of a game that everybody has left             *)
(* (apps/game-server/src/rooms/game-room.ts,                               *)
(* persistence/presence-repository.ts, persistence/room-lease.ts,          *)
(* apps/api/src/database/migrations/0008-room-offline-recovery.sql and     *)
(* apps/api/src/internal/reconciliation.service.ts).                       *)
(*                                                                         *)
(* RoomLease tells instants apart only as far as fencing needs it; here    *)
(* time is a number, because the question is how long everybody has been   *)
(* away.  A transaction on the presence row is one step.  What a Room      *)
(* object decides before a transaction and what the transaction finds are  *)
(* two steps, since JavaScript and the database run on in between.         *)
(***************************************************************************)
EXTENDS Integers, FiniteSets

CONSTANTS
  Rooms,          \* one for each process: its Room object, which may come again
  FirstRoom,      \* the room in which the game was started
  Players,
  NoRoom,
  LeaseDuration,  \* leaseDurationMs
  Window,         \* the 120 seconds of the reconnect window
  MaxTime,        \* bound: instants
  MaxToken,       \* bound: takeovers
  MaxJoins        \* bound: reservations of returning players

ASSUME RoomsAssumption == FirstRoom \in Rooms /\ NoRoom \notin Rooms
ASSUME TimesAssumption ==
  /\ LeaseDuration \in Nat \ {0} /\ Window \in Nat \ {0} /\ MaxTime \in Nat /\ MaxToken \in Nat \ {0}
  /\ MaxJoins \in Nat

VARIABLES
  now,         \* clock_timestamp()
  lease,       \* room_leases row
  presence,    \* room_presence row; the deadline is CHECKed to be Window later
  room,        \* the Room object each process serves the game with
  disposing,   \* the one before it, as long as its onDispose runs
  conn,        \* each player's latest connection
  joins,       \* how many players have come back
  marking,     \* markAllOffline calls on their way to the database
  aborted,     \* reconciliation has aborted the game
  attachedAt,  \* history: the last instant somebody was attached to the serving room
  overlapped   \* history: a mark or the reopening of a window passed a join it did not know of

rowVars == <<lease, presence>>
roomVars == <<room, disposing>>
vars == <<now, rowVars, roomVars, conn, joins, marking, aborted, attachedAt, overlapped>>

Null == -1
Times == 0 .. MaxTime
Phases == {"down", "up"}
Disposals == {"none", "mark", "release"}
Steps == {"away", "reserved", "checking", "spent", "joined"}
NotDisposing == [pc |-> "none", token |-> 0]
Away == [room |-> NoRoom, pc |-> "away", prev |-> Null, held |-> FALSE]

TypeOK ==
  /\ now \in Times
  /\ lease \in [owner : Rooms, token : 1 .. MaxToken, until : 0 .. MaxTime + LeaseDuration]
  /\ presence \in [token : 1 .. MaxToken, offlineAt : {Null} \cup Times]
  /\ room \in [Rooms -> [phase : Phases, token : 0 .. MaxToken, lost : BOOLEAN]]
  /\ disposing \in [Rooms -> [pc : Disposals, token : 0 .. MaxToken]]
  /\ conn \in [Players -> [room : Rooms \cup {NoRoom}, pc : Steps,
                           prev : {Null} \cup Times, held : BOOLEAN]]
  /\ marking \in [Rooms -> SUBSET ({Null} \cup Times)]
  /\ joins \in 0 .. MaxJoins /\ aborted \in BOOLEAN
  /\ attachedAt \in Times /\ overlapped \in BOOLEAN

(* A game has just been started by players who are all attached. *)
Init ==
  /\ now = 0
  /\ lease = [owner |-> FirstRoom, token |-> 1, until |-> LeaseDuration]
  /\ presence = [token |-> 1, offlineAt |-> Null]
  /\ room = [r \in Rooms |-> IF r = FirstRoom THEN [phase |-> "up", token |-> 1, lost |-> FALSE]
                             ELSE [phase |-> "down", token |-> 0, lost |-> FALSE]]
  /\ disposing = [r \in Rooms |-> NotDisposing]
  /\ conn = [p \in Players |-> [room |-> FirstRoom, pc |-> "joined", prev |-> Null, held |-> TRUE]]
  /\ marking = [r \in Rooms |-> {}]
  /\ joins = 0 /\ aborted = FALSE
  /\ attachedAt = 0 /\ overlapped = FALSE

-----------------------------------------------------------------------------
(* assertOwned at the instant the caller passes. *)
OwnedAs(r, token, at) == lease.owner = r /\ lease.token = token /\ at < lease.until
Owned(r, at) == OwnedAs(r, room[r].token, at)

At(r, steps) == {p \in Players : conn[p].room = r /\ conn[p].pc \in steps}

(* The players whose entry in activeSessions says joined, as hasAttachedClient reads them. *)
attachedClients(r) == {p \in At(r, {"joined"}) : conn[p].held}

Serving(r) == room[r].phase = "up" /\ Owned(r, now)
Attached == UNION {IF Serving(r) THEN At(r, {"joined"}) ELSE {} : r \in Rooms}

LeaseGone(r) == room' = [room EXCEPT ![r].lost = TRUE]

-----------------------------------------------------------------------------
(* The life of a Room object *)

Continuing(r) == lease.owner = r /\ now < lease.until
Token(r) == IF Continuing(r) THEN lease.token ELSE lease.token + 1

(* A takeover counts the game as deserted since the previous lease ended. *)
PresenceTakenOver(r) ==
  IF Continuing(r) THEN presence
  ELSE [token |-> Token(r), offlineAt |-> IF presence.offlineAt = Null THEN lease.until
                                          ELSE presence.offlineAt]

(* onCreate, as far as the rows are concerned.  The object before it in    *)
(* this process may still be disposing; a process that holds a live lease  *)
(* continues it under the same token.  A call that the object before has   *)
(* on its way carries that object's token: after a takeover it is refused, *)
(* and is not followed any more.                                           *)
Create(r) ==
  /\ room[r].phase = "down"
  /\ lease.owner = r \/ lease.until <= now
  /\ Token(r) <= MaxToken
  /\ lease' = [owner |-> r, token |-> Token(r), until |-> now + LeaseDuration]
  /\ presence' = PresenceTakenOver(r)
  /\ room' = [room EXCEPT ![r] = [phase |-> "up", token |-> Token(r), lost |-> FALSE]]
  /\ marking' = [marking EXCEPT ![r] = IF Continuing(r) THEN @ ELSE {}]
  /\ UNCHANGED <<now, joins, conn, disposing, aborted, overlapped>>

Renew(r) ==
  /\ room[r].phase = "up" /\ ~room[r].lost
  /\ Owned(r, now)
  /\ lease' = [lease EXCEPT !.until = now + LeaseDuration]
  /\ UNCHANGED <<now, joins, presence, roomVars, conn, marking, aborted, overlapped>>

(* A renewal that fails for whatever reason: handleLeaseLoss locks the room and disconnects. *)
LoseLease(r) ==
  /\ room[r].phase = "up" /\ ~room[r].lost
  /\ LeaseGone(r)
  /\ UNCHANGED <<now, joins, rowVars, disposing, conn, marking, aborted, overlapped>>

(* The framework disposes of a room without clients (one at a time in a    *)
(* process); onDispose marks a game in progress ...                        *)
Dispose(r) ==
  /\ room[r].phase = "up" /\ At(r, Steps) = {} /\ disposing[r].pc = "none"
  /\ room' = [room EXCEPT ![r].phase = "down"]
  /\ disposing' = [disposing EXCEPT ![r] = [pc |-> "mark", token |-> room[r].token]]
  /\ UNCHANGED <<now, joins, rowVars, conn, marking, aborted, overlapped>>

(* markAllOffline keeps an instant that is already stored. *)
MarkedOffline(token, at) ==
  [token |-> token,
   offlineAt |-> IF presence.offlineAt # Null THEN presence.offlineAt
                 ELSE IF at = Null THEN now ELSE at]

(* Whoever is being let in or attached already is passed by a mark that is *)
(* stored now.                                                             *)
MarkStored(r, token, at) ==
  /\ presence' = MarkedOffline(token, at)
  /\ overlapped' = (overlapped \/ At(r, {"checking", "joined"}) # {})

DisposeMark(r) ==
  /\ disposing[r].pc = "mark"
  /\ \/ UNCHANGED <<presence, overlapped>>
     \/ OwnedAs(r, disposing[r].token, now) /\ MarkStored(r, disposing[r].token, Null)
  /\ disposing' = [disposing EXCEPT ![r].pc = "release"]
  /\ UNCHANGED <<now, joins, lease, room, conn, marking, aborted>>

(* ... and then gives the lease back, unless that fails; under the same    *)
(* token it is also the lease of the object that has come since.           *)
Release(r) ==
  /\ disposing[r].pc = "release"
  /\ \/ UNCHANGED lease
     \/ OwnedAs(r, disposing[r].token, now) /\ lease' = [lease EXCEPT !.until = now]
  /\ disposing' = [disposing EXCEPT ![r] = NotDisposing]
  /\ UNCHANGED <<now, joins, presence, room, conn, marking, aborted, overlapped>>

(* The process dies. *)
Crash(r) ==
  /\ room[r].phase # "down" \/ disposing[r].pc # "none"
  /\ room' = [room EXCEPT ![r].phase = "down"]
  /\ disposing' = [disposing EXCEPT ![r] = NotDisposing]
  /\ conn' = [p \in Players |-> IF conn[p].room = r THEN Away ELSE conn[p]]
  /\ marking' = [marking EXCEPT ![r] = {}]
  /\ UNCHANGED <<now, joins, rowVars, aborted, overlapped>>

-----------------------------------------------------------------------------
(* Joining: onAuth reserves, onJoin marks, asks the API again and attaches *)

Reserve(p, r) ==
  /\ conn[p].pc = "away" /\ joins < MaxJoins
  /\ room[r].phase = "up" /\ ~room[r].lost
  /\ conn' = [conn EXCEPT ![p] = [room |-> r, pc |-> "reserved", prev |-> Null, held |-> TRUE]]
  /\ joins' = joins + 1
  /\ UNCHANGED <<now, rowVars, roomVars, marking, aborted, overlapped>>

(* The timer set in onAuth deletes a session that has not joined.  A join  *)
(* that is under way goes on without its entry.                            *)
ReservationExpires(p) ==
  /\ conn[p].pc \in {"reserved", "checking", "spent"} /\ conn[p].held
  /\ conn' = [conn EXCEPT ![p] = IF conn[p].pc = "checking" THEN [@ EXCEPT !.held = FALSE] ELSE Away]
  /\ UNCHANGED <<now, joins, rowVars, roomVars, marking, aborted, overlapped>>

markConnected(p) ==
  LET r == conn[p].room IN
  /\ conn[p].pc = "reserved"
  /\ \/ /\ Owned(r, now)
        /\ presence' = [token |-> room[r].token, offlineAt |-> Null]
        /\ conn' = [conn EXCEPT ![p].pc = "checking", ![p].prev = presence.offlineAt]
        /\ UNCHANGED room
     \/ /\ ~Owned(r, now)
        /\ LeaseGone(r)
        /\ conn' = [conn EXCEPT ![p].pc = "spent"]
        /\ UNCHANGED presence
  /\ UNCHANGED <<now, joins, lease, disposing, marking, aborted, overlapped>>

(* What reopens an earlier window is on its way to the database, or will   *)
(* be if another join fails.                                               *)
Reopening(p, r) ==
  marking[r] \ {Null} # {} \/ \E q \in At(r, {"checking"}) \ {p} : conn[q].prev # Null

JoinCompletes(p) ==
  /\ conn[p].pc = "checking"
  /\ conn' = [conn EXCEPT ![p].pc = "joined", ![p].prev = Null]
  /\ overlapped' = (overlapped \/ Reopening(p, conn[p].room))
  /\ UNCHANGED <<now, joins, rowVars, roomVars, marking, aborted>>

(* The API is unavailable or the session is over: the window is reopened where it was. *)
JoinFails(p) ==
  LET r == conn[p].room IN
  /\ conn[p].pc = "checking"
  /\ conn' = [conn EXCEPT ![p] = IF conn[p].held THEN [@ EXCEPT !.pc = "spent", !.prev = Null]
                                 ELSE Away]
  /\ marking' = [marking EXCEPT ![r] = IF attachedClients(r) # {} THEN @ ELSE @ \cup {conn[p].prev}]
  /\ UNCHANGED <<now, joins, rowVars, roomVars, aborted, overlapped>>

(* onLeave, onDrop and the disconnection of a room that lost its lease. *)
detachClient(p) ==
  LET r == conn[p].room IN
  /\ conn[p].pc = "joined"
  /\ conn' = [conn EXCEPT ![p] = Away]
  /\ marking' = [marking EXCEPT ![r] = IF attachedClients(r) = {p} THEN @ \cup {Null} ELSE @]
  /\ UNCHANGED <<now, joins, rowVars, roomVars, aborted, overlapped>>

(* assertOwned compares the lease with the instant that is stored, not with the present one. *)
markAllOffline(r, at) ==
  /\ at \in marking[r]
  /\ marking' = [marking EXCEPT ![r] = @ \ {at}]
  /\ LET owned == Owned(r, IF at = Null THEN now ELSE at) IN
     \/ owned /\ MarkStored(r, room[r].token, at) /\ UNCHANGED room
     \/ /\ ~owned
        /\ IF at = Null THEN LeaseGone(r) ELSE UNCHANGED room
        /\ UNCHANGED <<presence, overlapped>>
  /\ UNCHANGED <<now, joins, lease, disposing, conn, aborted>>

(* The transaction fails; nothing tries it again. *)
MarkFails(r, at) ==
  /\ at \in marking[r]
  /\ marking' = [marking EXCEPT ![r] = @ \ {at}]
  /\ UNCHANGED <<now, joins, rowVars, roomVars, conn, aborted, overlapped>>

-----------------------------------------------------------------------------
(* Reconciliation *)

(* Mutant: without an offline mark, the window starts with the last renewal. *)
DeadlineFromRenewal ==
  (IF presence.token = lease.token /\ presence.offlineAt # Null
     THEN presence.offlineAt ELSE lease.until - LeaseDuration) + Window

(* Mutant: a game without an offline mark is no candidate. *)
MarkedGamesOnly ==
  IF presence.token = lease.token /\ presence.offlineAt # Null
    THEN presence.offlineAt + Window ELSE MaxTime + Window + 1

(* The view api_offline_abort_candidates. *)
AbortDeadline ==
  (IF presence.token = lease.token /\ presence.offlineAt # Null
     THEN presence.offlineAt ELSE lease.until) + Window

(* The selection of the view's rows and the settlement of what it returned *)
(* are two transactions; the second does not look at the view again, so    *)
(* that the first decides.  Nothing is followed past the abort.            *)
abortOfflineSessions ==
  /\ AbortDeadline <= now
  /\ aborted' = TRUE
  /\ UNCHANGED <<now, joins, rowVars, roomVars, conn, marking, overlapped>>

Tick ==
  /\ now < MaxTime
  /\ now' = now + 1
  /\ UNCHANGED <<joins, rowVars, roomVars, conn, marking, aborted, overlapped>>

-----------------------------------------------------------------------------
RoomStep(r) ==
  \/ Create(r) \/ Renew(r) \/ LoseLease(r) \/ Dispose(r) \/ DisposeMark(r) \/ Release(r)
  \/ Crash(r)
  \/ \E at \in marking[r] : markAllOffline(r, at) \/ MarkFails(r, at)
PlayerStep(p) ==
  \/ \E r \in Rooms : Reserve(p, r)
  \/ ReservationExpires(p) \/ markConnected(p) \/ JoinCompletes(p) \/ JoinFails(p)
  \/ detachClient(p)

Observe == attachedAt' = IF Attached' # {} THEN now' ELSE attachedAt

Next ==
  /\ ~aborted
  /\ \/ \E r \in Rooms : RoomStep(r)
     \/ \E p \in Players : PlayerStep(p)
     \/ abortOfflineSessions \/ Tick
  /\ Observe

Spec == Init /\ [][Next]_vars

(* Time passes, the reconciliation runs on its interval, the framework     *)
(* disposes of empty rooms and ends their reservations, and transactions   *)
(* come to an end.                                                         *)
FairSpec ==
  /\ Spec
  /\ WF_vars(Tick /\ ~aborted /\ Observe)
  /\ WF_vars(abortOfflineSessions /\ ~aborted /\ Observe)
  /\ \A r \in Rooms :
       WF_vars((Dispose(r) \/ DisposeMark(r) \/ Release(r)) /\ ~aborted /\ Observe)

-----------------------------------------------------------------------------
(* Properties *)

(* The game of attached players has no window open, unless an offline mark *)
(* was stored while somebody was being let in or attached to that room, or *)
(* a join completed while an earlier window was about to be reopened       *)
(* (onJoin, detachClient, markConnected).                                  *)
OfflineOnlyWhenDeserted ==
  Attached # {} /\ presence.offlineAt # Null => overlapped

(* Whoever was attached, left, crashed, was taken over, lost his entry to  *)
(* the reservation timer or failed to join, the abort falls due a full     *)
(* window after somebody was last attached, unless a mark was stored that  *)
(* passed a join, or a join completed that a reopening was to follow: then *)
(* the code may abort a game that is being played.                         *)
FullWindowToReconnect == overlapped \/ attachedAt + Window <= AbortDeadline

(* A game whose players stay away is aborted, whatever of the marks, the   *)
(* disposal and the release failed (reconciliation's offline abort).       *)
Deserted ==
  /\ \A p \in Players : conn[p].pc = "away"
  /\ lease.until + Window <= MaxTime
DesertedGamesAreAborted == []<>(aborted \/ ~Deserted)
=============================================================================
