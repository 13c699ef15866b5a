------------------------- MODULE RoomPresenceProofs -------------------------
(***************************************************************************)
(* Proofs about the presence row and the reconnect window, for any rooms,  *)
(* players, lease duration, window, takeovers and joins.                   *)
(***************************************************************************)
EXTENDS RoomPresence, TLAPS

LeaseRow == [owner : Rooms, token : 1 .. MaxToken, until : 0 .. MaxTime + LeaseDuration]
PresenceRow == [token : 1 .. MaxToken, offlineAt : {Null} \cup Times]
RoomRow == [phase : Phases, token : 0 .. MaxToken, lost : BOOLEAN]
DisposalRow == [pc : Disposals, token : 0 .. MaxToken]
ConnRow == [room : Rooms \cup {NoRoom}, pc : Steps, prev : {Null} \cup Times, held : BOOLEAN]

RowsOK ==
  /\ now \in Times /\ lease \in LeaseRow /\ presence \in PresenceRow
  /\ room \in [Rooms -> RoomRow] /\ disposing \in [Rooms -> DisposalRow]
  /\ conn \in [Players -> ConnRow] /\ marking \in [Rooms -> SUBSET ({Null} \cup Times)]
  /\ joins \in 0 .. MaxJoins /\ aborted \in BOOLEAN /\ overlapped \in BOOLEAN

(* The token of the lease is the one its owner's room works with. *)
OwnerToken == room[lease.owner].token = lease.token

(* Who is in a room is in one that is up. *)
WhoIsWhere ==
  \A p \in Players :
    /\ conn[p].pc # "away" => conn[p].room \in Rooms
    /\ conn[p].room \in Rooms => room[conn[p].room].phase = "up"

(* While somebody of the owner's room is attached, or about to be, no      *)
(* window is open, and while somebody is attached no failed join can open  *)
(* one in the past.                                                        *)
ClosedWhileAttached ==
  \/ overlapped
  \/ \A p \in Players : conn[p].room = lease.owner =>
       /\ conn[p].pc \in {"checking", "joined"} => presence.offlineAt = Null
       /\ conn[p].pc = "joined" =>
            /\ \A at \in marking[lease.owner] : at = Null
            /\ \A q \in Players : conn[q].room = lease.owner /\ conn[q].pc = "checking"
                                    => conn[q].prev = Null

PresenceCore == RowsOK /\ OwnerToken /\ WhoIsWhere /\ ClosedWhileAttached

(* Every window that is open, or that a pending mark or a failing join     *)
(* will open, starts at t or later.                                        *)
WindowsAfter(t) ==
  /\ t <= now /\ t <= lease.until
  /\ \/ overlapped
     \/ /\ presence.offlineAt # Null => t <= presence.offlineAt
        /\ \A at \in marking[lease.owner] : at # Null => t <= at
        /\ \A p \in Players :
             conn[p].room = lease.owner /\ conn[p].pc = "checking" /\ conn[p].prev # Null
               => t <= conn[p].prev

PresenceInv == PresenceCore /\ attachedAt \in Times /\ WindowsAfter(attachedAt)

-----------------------------------------------------------------------------
LEMMA RowFacts ==
  ASSUME RowsOK
  PROVE  /\ lease.owner \in Rooms /\ lease.token \in 1 .. MaxToken
         /\ lease.until \in 0 .. MaxTime + LeaseDuration /\ lease.until \in Nat
         /\ presence.token \in 1 .. MaxToken /\ presence.offlineAt \in {Null} \cup Times
         /\ \A r \in Rooms : room[r].phase \in Phases /\ room[r].token \in 0 .. MaxToken
         /\ \A p \in Players : /\ conn[p].room \in Rooms \cup {NoRoom} /\ conn[p].pc \in Steps
                               /\ conn[p].prev \in {Null} \cup Times
         /\ now \in Nat /\ now <= MaxTime /\ MaxTime \in Nat /\ LeaseDuration \in Nat
         /\ MaxToken \in Nat
BY TimesAssumption DEF RowsOK, LeaseRow, PresenceRow, RoomRow, ConnRow, Times

(* A step that changes neither a row nor a connection nor a mark.          *)
LEMMA NothingMoves ==
  ASSUME PresenceCore, NEW t \in Times, WindowsAfter(t),
         UNCHANGED <<lease, presence, conn, marking, joins, overlapped>>,
         now' \in Times, now <= now', aborted' \in BOOLEAN,
         room' \in [Rooms -> RoomRow], disposing' \in [Rooms -> DisposalRow],
         \A r \in Rooms : room'[r].token = room[r].token /\ room'[r].phase = room[r].phase
  PROVE  PresenceCore' /\ WindowsAfter(t)'
<1>1. RowsOK /\ lease.owner \in Rooms
  BY RowFacts DEF PresenceCore
<1>2. RowsOK'
  BY <1>1 DEF RowsOK
<1>3. OwnerToken' /\ WhoIsWhere' /\ ClosedWhileAttached'
  BY <1>1 DEF PresenceCore, OwnerToken, WhoIsWhere, ClosedWhileAttached
<1>4. t <= now'
  <2>1. t \in Nat /\ now \in Nat /\ now' \in Nat
    BY <1>1, TimesAssumption DEF RowsOK, Times
  <2> QED
    BY <2>1 DEF WindowsAfter
<1> QED
  BY <1>2, <1>3, <1>4 DEF PresenceCore, WindowsAfter

LEMMA CreateKeeps ==
  ASSUME PresenceCore, NEW t \in Times, WindowsAfter(t), NEW r \in Rooms, Create(r)
  PROVE  PresenceCore' /\ WindowsAfter(t)'
<1>1. RowsOK /\ OwnerToken /\ WhoIsWhere /\ ClosedWhileAttached
  BY DEF PresenceCore
<1>2. /\ lease.owner \in Rooms /\ lease.token \in Nat /\ lease.token >= 1 /\ lease.until \in Nat
      /\ presence \in PresenceRow /\ presence.offlineAt \in {Null} \cup Times
      /\ now \in Nat /\ now <= MaxTime /\ MaxTime \in Nat /\ LeaseDuration \in Nat /\ MaxToken \in Nat
      /\ t \in Nat
  BY <1>1, RowFacts, TimesAssumption DEF RowsOK, Times
<1>3. /\ room[r].phase = "down" /\ Token(r) <= MaxToken
      /\ lease' = [owner |-> r, token |-> Token(r), until |-> now + LeaseDuration]
      /\ presence' = PresenceTakenOver(r)
      /\ room' = [room EXCEPT ![r] = [phase |-> "up", token |-> Token(r), lost |-> FALSE]]
      /\ marking' = [marking EXCEPT ![r] = IF Continuing(r) THEN @ ELSE {}]
      /\ UNCHANGED <<now, joins, conn, disposing, aborted, overlapped>>
      /\ (~Continuing(r) => lease.until <= now)
  BY <1>2 DEF Create, Continuing
<1>4. Token(r) \in 1 .. MaxToken /\ Token(r) \in 0 .. MaxToken
  <2>1. Token(r) \in Nat /\ Token(r) >= 1
    BY <1>2 DEF Token
  <2> QED
    BY <1>2, <1>3, <2>1
<1>5. lease' \in LeaseRow /\ lease'.owner = r /\ lease'.token = Token(r) /\ lease'.until = now + LeaseDuration
  <2>1. now + LeaseDuration \in 0 .. MaxTime + LeaseDuration
    BY <1>2
  <2> QED
    BY <1>3, <1>4, <2>1 DEF LeaseRow
<1>6. room' \in [Rooms -> RoomRow] /\ room'[r].token = Token(r) /\ room'[r].phase = "up"
      /\ \A s \in Rooms \ {r} : room'[s] = room[s]
  <2>1. [phase |-> "up", token |-> Token(r), lost |-> FALSE] \in RoomRow
    BY <1>4 DEF RoomRow, Phases
  <2> QED
    BY <1>1, <1>3, <2>1 DEF RowsOK
<1>7. presence' \in PresenceRow /\ presence'.offlineAt \in {presence.offlineAt, lease.until}
      /\ (Continuing(r) => presence' = presence)
      /\ (~Continuing(r) => presence'.offlineAt = IF presence.offlineAt = Null THEN lease.until
                                                  ELSE presence.offlineAt)
  <2>1. CASE Continuing(r)
    BY <1>2, <1>3, <2>1 DEF PresenceTakenOver
  <2>2. CASE ~Continuing(r)
    <3>1. lease.until \in Times
      BY <1>2, <1>3, <2>2 DEF Times
    <3> QED
      BY <1>2, <1>3, <1>4, <2>2, <3>1 DEF PresenceTakenOver, PresenceRow
  <2> QED
    BY <2>1, <2>2
<1>8. marking' \in [Rooms -> SUBSET ({Null} \cup Times)]
      /\ marking'[r] = IF Continuing(r) THEN marking[r] ELSE {}
  BY <1>1, <1>3 DEF RowsOK
<1>9. \A p \in Players : conn'[p] = conn[p] /\ conn[p].room # r
  BY <1>1, <1>3 DEF WhoIsWhere
<1>10. RowsOK'
  BY <1>1, <1>3, <1>5, <1>6, <1>7, <1>8 DEF RowsOK
<1>11. OwnerToken' /\ WhoIsWhere'
  BY <1>1, <1>5, <1>6, <1>9 DEF OwnerToken, WhoIsWhere
<1>12. ClosedWhileAttached'
  BY <1>5, <1>9 DEF ClosedWhileAttached
<1>13. WindowsAfter(t)'
  <2>1. t <= now' /\ t <= lease'.until
    BY <1>2, <1>3, <1>5 DEF WindowsAfter
  <2>2. overlapped \/ (presence'.offlineAt # Null => t <= presence'.offlineAt)
    BY <1>7 DEF WindowsAfter
  <2>3. overlapped \/ \A at \in marking'[r] : at # Null => t <= at
    BY <1>8 DEF WindowsAfter, Continuing
  <2> QED
    BY <1>3, <1>5, <1>9, <2>1, <2>2, <2>3 DEF WindowsAfter
<1> QED
  BY <1>10, <1>11, <1>12, <1>13 DEF PresenceCore

(* Renew and Release only move the end of the lease, not before now.       *)
LEMMA UntilMoves ==
  ASSUME PresenceCore, NEW t \in Times, WindowsAfter(t), NEW u \in {now, now + LeaseDuration},
         lease' = [lease EXCEPT !.until = u],
         UNCHANGED <<now, presence, conn, marking, joins, aborted, overlapped>>,
         room' = room, disposing' \in [Rooms -> DisposalRow]
  PROVE  PresenceCore' /\ WindowsAfter(t)'
<1>1. RowsOK /\ OwnerToken /\ WhoIsWhere /\ ClosedWhileAttached /\ lease \in LeaseRow
  BY DEF PresenceCore, RowsOK
<1>2. /\ now \in Nat /\ now <= MaxTime /\ MaxTime \in Nat /\ LeaseDuration \in Nat /\ t \in Nat
      /\ lease.owner \in Rooms
  BY <1>1, RowFacts, TimesAssumption DEF RowsOK, Times
<1>3. u \in 0 .. MaxTime + LeaseDuration /\ now <= u
  BY <1>2
<1>4. lease' \in LeaseRow /\ lease'.owner = lease.owner /\ lease'.token = lease.token /\ lease'.until = u
  BY <1>1, <1>3 DEF LeaseRow
<1>5. RowsOK'
  BY <1>1, <1>4 DEF RowsOK
<1>6. OwnerToken' /\ WhoIsWhere' /\ ClosedWhileAttached'
  BY <1>1, <1>2, <1>4 DEF OwnerToken, WhoIsWhere, ClosedWhileAttached
<1>7. t <= now /\ t <= u
  BY <1>2, <1>3 DEF WindowsAfter
<1> QED
  BY <1>4, <1>5, <1>6, <1>7 DEF PresenceCore, WindowsAfter

(* The steps of a room that leave its players alone. *)
LEMMA QuietRoomKeeps ==
  ASSUME PresenceCore, NEW t \in Times, WindowsAfter(t), NEW r \in Rooms,
         Renew(r) \/ LoseLease(r) \/ Dispose(r) \/ Release(r)
  PROVE  PresenceCore' /\ WindowsAfter(t)'
<1>1. /\ RowsOK /\ WhoIsWhere /\ room \in [Rooms -> RoomRow] /\ now \in Times /\ aborted \in BOOLEAN
      /\ disposing \in [Rooms -> DisposalRow] /\ lease.owner \in Rooms
  BY RowFacts DEF PresenceCore, RowsOK
<1>2. now <= now /\ now \in Int
  BY <1>1, TimesAssumption DEF Times
<1>3. CASE Renew(r)
  BY <1>1, <1>3, UntilMoves DEF Renew, roomVars
<1>4. CASE LoseLease(r)
  <2>1. /\ room' = [room EXCEPT ![r].lost = TRUE]
        /\ UNCHANGED <<now, lease, presence, disposing, conn, marking, joins, aborted, overlapped>>
    BY <1>4 DEF LoseLease, LeaseGone, rowVars
  <2>2. room' \in [Rooms -> RoomRow]
        /\ \A s \in Rooms : room'[s].token = room[s].token /\ room'[s].phase = room[s].phase
    BY <1>1, <2>1 DEF RoomRow
  <2> QED
    BY <1>1, <1>2, <2>1, <2>2, NothingMoves
<1>5. CASE Dispose(r)
  <2>1. /\ room' = [room EXCEPT ![r].phase = "down"]
        /\ disposing' = [disposing EXCEPT ![r] = [pc |-> "mark", token |-> room[r].token]]
        /\ UNCHANGED <<now, lease, presence, conn, marking, joins, aborted, overlapped>>
    BY <1>5 DEF Dispose, rowVars
  <2>2. /\ room' \in [Rooms -> RoomRow]
        /\ \A s \in Rooms : room'[s].token = room[s].token
        /\ \A s \in Rooms \ {r} : room'[s].phase = room[s].phase
    BY <1>1, <2>1 DEF RoomRow, Phases
  <2>3. \A p \in Players : conn[p].room # r
    BY <1>1, <1>5, RowFacts DEF Dispose, At
  <2>4. [pc |-> "mark", token |-> room[r].token] \in DisposalRow
    BY <1>1, RowFacts DEF DisposalRow, Disposals
  <2>5. disposing' \in [Rooms -> DisposalRow]
    BY <1>1, <2>1, <2>4
  <2>6. RowsOK'
    BY <1>1, <2>1, <2>2, <2>5 DEF RowsOK
  <2>7. OwnerToken'
    BY <1>1, <2>1, <2>2 DEF PresenceCore, OwnerToken
  <2>8. WhoIsWhere' /\ ClosedWhileAttached' /\ WindowsAfter(t)'
    BY <1>1, <2>1, <2>2, <2>3 DEF PresenceCore, WhoIsWhere, ClosedWhileAttached, WindowsAfter
  <2> QED
    BY <2>6, <2>7, <2>8 DEF PresenceCore
<1>6. CASE Release(r)
  <2>1. /\ disposing' = [disposing EXCEPT ![r] = NotDisposing]
        /\ UNCHANGED <<now, presence, room, conn, marking, joins, aborted, overlapped>>
        /\ lease' = lease \/ lease' = [lease EXCEPT !.until = now]
    BY <1>6 DEF Release
  <2>2. NotDisposing \in DisposalRow
    BY <1>1, RowFacts DEF NotDisposing, DisposalRow, Disposals
  <2>3. disposing' \in [Rooms -> DisposalRow]
    BY <1>1, <2>1, <2>2
  <2>4. CASE lease' = [lease EXCEPT !.until = now]
    BY <1>1, <2>1, <2>3, <2>4, UntilMoves
  <2>5. CASE lease' = lease
    BY <1>1, <1>2, <2>1, <2>3, <2>5, NothingMoves
  <2> QED
    BY <2>1, <2>4, <2>5
<1> QED
  BY <1>3, <1>4, <1>5, <1>6

(* A mark is stored by the owner of the lease, who has nobody or overlaps. *)
LEMMA MarkKept ==
  ASSUME PresenceCore, NEW t \in Times, WindowsAfter(t), NEW r \in Rooms,
         NEW token, NEW at \in {Null} \cup Times,
         at # Null /\ ~overlapped => t <= at,
         OwnedAs(r, token, IF at = Null THEN now ELSE at), MarkStored(r, token, at),
         UNCHANGED <<now, lease, room, conn, joins, aborted>>,
         marking' \in [Rooms -> SUBSET ({Null} \cup Times)], marking'[r] \subseteq marking[r],
         disposing' \in [Rooms -> DisposalRow]
  PROVE  PresenceCore' /\ WindowsAfter(t)'
<1>1. RowsOK /\ OwnerToken /\ WhoIsWhere /\ ClosedWhileAttached
  BY DEF PresenceCore
<1>2. /\ now \in Nat /\ now <= MaxTime /\ MaxTime \in Nat /\ t \in Nat
      /\ lease.token \in 1 .. MaxToken /\ presence.offlineAt \in {Null} \cup Times
  BY <1>1, RowFacts, TimesAssumption DEF Times
<1>21. overlapped' \in BOOLEAN /\ (overlapped => overlapped')
       /\ (\/ overlapped'
           \/ \A p \in Players : conn[p].room = r => conn[p].pc \notin {"checking", "joined"})
  <2>1. overlapped' = (overlapped \/ At(r, {"checking", "joined"}) # {}) /\ overlapped \in BOOLEAN
    BY <1>1 DEF MarkStored, RowsOK
  <2>2. At(r, {"checking", "joined"}) = {} =>
          \A p \in Players : conn[p].room = r => conn[p].pc \notin {"checking", "joined"}
    BY DEF At
  <2> QED
    BY <2>1, <2>2
<1>3. lease.owner = r /\ lease.token = token
  BY DEF OwnedAs
<1>4. /\ presence' \in PresenceRow
      /\ presence'.offlineAt = IF presence.offlineAt # Null THEN presence.offlineAt
                               ELSE IF at = Null THEN now ELSE at
  <2>1. now \in Times
    BY <1>1 DEF RowsOK
  <2> QED
    BY <1>2, <1>3, <2>1 DEF MarkStored, MarkedOffline, PresenceRow
<1>5. RowsOK'
  BY <1>1, <1>21, <1>4 DEF RowsOK
<1>6. OwnerToken' /\ WhoIsWhere'
  BY <1>1, <1>3 DEF OwnerToken, WhoIsWhere
<1>7. ClosedWhileAttached'
  BY <1>1, <1>21, <1>3 DEF ClosedWhileAttached
<1>8. WindowsAfter(t)'
  <2>1. t <= now /\ t <= lease.until
    BY DEF WindowsAfter
  <2>2. overlapped' \/ (presence'.offlineAt # Null => t <= presence'.offlineAt)
    BY <1>21, <1>4, <2>1 DEF WindowsAfter
  <2> QED
    BY <1>21, <1>3, <2>1, <2>2 DEF WindowsAfter
<1> QED
  BY <1>5, <1>6, <1>7, <1>8 DEF PresenceCore

LEMMA DisposeMarkKeeps ==
  ASSUME PresenceCore, NEW t \in Times, WindowsAfter(t), NEW r \in Rooms, DisposeMark(r)
  PROVE  PresenceCore' /\ WindowsAfter(t)'
<1> DEFINE token == disposing[r].token
<1>1. /\ RowsOK /\ room \in [Rooms -> RoomRow] /\ lease.owner \in Rooms
      /\ disposing \in [Rooms -> DisposalRow] /\ marking \in [Rooms -> SUBSET ({Null} \cup Times)]
      /\ now \in Times /\ now <= now /\ aborted \in BOOLEAN
  <2>1. now \in Times /\ now \in Int
    BY TimesAssumption DEF PresenceCore, RowsOK, Times
  <2> QED
    BY <2>1, RowFacts DEF PresenceCore, RowsOK
<1>2. /\ disposing' = [disposing EXCEPT ![r].pc = "release"]
      /\ UNCHANGED <<now, joins, lease, room, conn, marking, aborted>>
      /\ \/ UNCHANGED <<presence, overlapped>>
         \/ OwnedAs(r, token, now) /\ MarkStored(r, token, Null)
  BY DEF DisposeMark
<1>3. disposing' \in [Rooms -> DisposalRow]
  BY <1>1, <1>2 DEF DisposalRow, Disposals
<1> HIDE DEF token
<1>4. CASE OwnedAs(r, token, now) /\ MarkStored(r, token, Null)
  BY <1>1, <1>2, <1>3, <1>4, MarkKept
<1>5. CASE UNCHANGED <<presence, overlapped>>
  BY <1>1, <1>2, <1>3, <1>5, NothingMoves
<1> QED
  BY <1>2, <1>4, <1>5

LEMMA MarkKeeps ==
  ASSUME PresenceCore, NEW t \in Times, WindowsAfter(t), NEW r \in Rooms, NEW at \in marking[r],
         markAllOffline(r, at) \/ MarkFails(r, at)
  PROVE  PresenceCore' /\ WindowsAfter(t)'
<1>1. RowsOK /\ WhoIsWhere /\ room \in [Rooms -> RoomRow] /\ lease.owner \in Rooms
      /\ marking \in [Rooms -> SUBSET ({Null} \cup Times)] /\ overlapped \in BOOLEAN
      /\ at \in {Null} \cup Times /\ disposing \in [Rooms -> DisposalRow]
  BY RowFacts DEF PresenceCore, RowsOK
<1>2. marking' = [marking EXCEPT ![r] = @ \ {at}] /\ UNCHANGED <<now, joins, lease, disposing, conn, aborted>>
  BY DEF markAllOffline, MarkFails, rowVars, roomVars
<1>3. marking' \in [Rooms -> SUBSET ({Null} \cup Times)]
      /\ \A s \in Rooms : marking'[s] \subseteq marking[s]
  BY <1>1, <1>2
<1>4. CASE /\ Owned(r, IF at = Null THEN now ELSE at) /\ MarkStored(r, room[r].token, at)
           /\ UNCHANGED room
  <2>1. at # Null /\ ~overlapped => t <= at
    BY <1>4 DEF WindowsAfter, Owned, OwnedAs
  <2>2. PICK token : token = room[r].token
    OBVIOUS
  <2>3. OwnedAs(r, token, IF at = Null THEN now ELSE at) /\ MarkStored(r, token, at)
    BY <1>4, <2>2 DEF Owned
  <2> QED
    BY <1>1, <1>2, <1>3, <1>4, <2>1, <2>3, MarkKept
<1>5. CASE /\ UNCHANGED <<presence, overlapped>>
           /\ room' = [room EXCEPT ![r].lost = TRUE] \/ room' = room
  <2>1. room' \in [Rooms -> RoomRow]
        /\ \A s \in Rooms : room'[s].token = room[s].token /\ room'[s].phase = room[s].phase
    <3>1. CASE room' = room
      BY <1>1, <3>1
    <3>2. CASE room' = [room EXCEPT ![r].lost = TRUE]
      BY <1>1, <3>2 DEF RoomRow
    <3> QED
      BY <1>5, <3>1, <3>2
  <2>2. RowsOK'
    BY <1>1, <1>2, <1>3, <1>5, <2>1 DEF RowsOK
  <2>3. OwnerToken' /\ WhoIsWhere'
    BY <1>1, <1>2, <2>1 DEF PresenceCore, OwnerToken, WhoIsWhere
  <2>4. ClosedWhileAttached' /\ WindowsAfter(t)'
    BY <1>1, <1>2, <1>3, <1>5 DEF PresenceCore, ClosedWhileAttached, WindowsAfter
  <2> QED
    BY <2>2, <2>3, <2>4 DEF PresenceCore
<1> QED
  BY <1>4, <1>5 DEF markAllOffline, MarkFails, LeaseGone, rowVars, roomVars

LEMMA CrashKeeps ==
  ASSUME PresenceCore, NEW t \in Times, WindowsAfter(t), NEW r \in Rooms, Crash(r)
  PROVE  PresenceCore' /\ WindowsAfter(t)'
<1>1. RowsOK /\ WhoIsWhere /\ room \in [Rooms -> RoomRow] /\ lease.owner \in Rooms
      /\ marking \in [Rooms -> SUBSET ({Null} \cup Times)] /\ conn \in [Players -> ConnRow]
      /\ disposing \in [Rooms -> DisposalRow]
  BY RowFacts DEF PresenceCore, RowsOK
<1>2. /\ room' = [room EXCEPT ![r].phase = "down"]
      /\ disposing' = [disposing EXCEPT ![r] = NotDisposing]
      /\ conn' = [p \in Players |-> IF conn[p].room = r THEN Away ELSE conn[p]]
      /\ marking' = [marking EXCEPT ![r] = {}]
      /\ UNCHANGED <<now, joins, lease, presence, aborted, overlapped>>
  BY DEF Crash, rowVars
<1>3. Away \in ConnRow /\ Away.room = NoRoom /\ Away.pc = "away" /\ NoRoom \notin Rooms
  BY RoomsAssumption DEF Away, ConnRow, Steps
<1>4. /\ room' \in [Rooms -> RoomRow]
      /\ \A s \in Rooms : room'[s].token = room[s].token
      /\ \A s \in Rooms \ {r} : room'[s].phase = room[s].phase
  BY <1>1, <1>2 DEF RoomRow, Phases
<1>5. conn' \in [Players -> ConnRow]
      /\ \A p \in Players : (conn[p].room = r /\ conn'[p] = Away) \/ (conn[p].room # r /\ conn'[p] = conn[p])
  BY <1>1, <1>2, <1>3
<1>6. marking' \in [Rooms -> SUBSET ({Null} \cup Times)]
      /\ \A s \in Rooms : marking'[s] \subseteq marking[s]
  BY <1>1, <1>2
<1>61. disposing' \in [Rooms -> DisposalRow]
  <2>1. NotDisposing \in DisposalRow
    BY <1>1, RowFacts DEF NotDisposing, DisposalRow, Disposals
  <2> QED
    BY <1>1, <1>2, <2>1
<1>7. RowsOK'
  BY <1>1, <1>2, <1>4, <1>5, <1>6, <1>61 DEF RowsOK
<1>8. OwnerToken'
  BY <1>1, <1>2, <1>4 DEF PresenceCore, OwnerToken
<1>9. WhoIsWhere'
  BY <1>1, <1>3, <1>4, <1>5 DEF WhoIsWhere
<1>10. \A p \in Players : conn'[p].room = lease.owner => conn'[p] = conn[p]
  BY <1>1, <1>3, <1>5
<1>11. ClosedWhileAttached'
  BY <1>1, <1>2, <1>6, <1>10 DEF PresenceCore, ClosedWhileAttached
<1>12. WindowsAfter(t)'
  BY <1>1, <1>2, <1>6, <1>10 DEF WindowsAfter
<1> QED
  BY <1>7, <1>8, <1>9, <1>11, <1>12 DEF PresenceCore

(* The steps in which one player's connection changes; what the owner's    *)
(* room then knows of it is all that matters.                              *)
LEMMA PlayerMoves ==
  ASSUME PresenceCore, NEW p \in Players, NEW c \in ConnRow,
         conn' = [conn EXCEPT ![p] = c], UNCHANGED <<now, lease, disposing, aborted>>,
         presence' \in PresenceRow, room' \in [Rooms -> RoomRow],
         \A s \in Rooms : room'[s].token = room[s].token /\ room'[s].phase = room[s].phase,
         c.pc # "away" => c.room \in Rooms, c.room \in Rooms => room[c.room].phase = "up",
         marking' \in [Rooms -> SUBSET ({Null} \cup Times)],
         joins' \in 0 .. MaxJoins, overlapped' \in BOOLEAN
  PROVE  /\ RowsOK' /\ OwnerToken' /\ WhoIsWhere' /\ conn'[p] = c
         /\ \A q \in Players \ {p} : conn'[q] = conn[q]
<1>1. RowsOK /\ conn \in [Players -> ConnRow] /\ lease.owner \in Rooms
  BY RowFacts DEF PresenceCore, RowsOK
<1>2. conn' \in [Players -> ConnRow] /\ conn'[p] = c /\ \A q \in Players \ {p} : conn'[q] = conn[q]
  BY <1>1
<1>3. RowsOK'
  BY <1>1, <1>2 DEF RowsOK
<1>4. OwnerToken'
  BY <1>1 DEF PresenceCore, OwnerToken
<1>5. WhoIsWhere'
  BY <1>2 DEF PresenceCore, WhoIsWhere
<1> QED
  BY <1>2, <1>3, <1>4, <1>5

(* Steps that end or begin a reservation and change nothing else. *)
LEMMA LeavingKeeps ==
  ASSUME PresenceCore, NEW t \in Times, WindowsAfter(t), NEW p \in Players, NEW c \in ConnRow,
         conn' = [conn EXCEPT ![p] = c], UNCHANGED <<now, lease, presence, room, disposing, aborted>>,
         c.pc # "away" => c.room \in Rooms, c.room \in Rooms => room[c.room].phase = "up",
         c.pc \notin {"checking", "joined"},
         marking' \in [Rooms -> SUBSET ({Null} \cup Times)],
         \A at \in marking'[lease.owner] \ marking[lease.owner] :
           \/ at = Null
           \/ overlapped
           \/ /\ t <= at
              /\ \A q \in Players : conn[q].room = lease.owner => conn[q].pc # "joined",
         joins' \in 0 .. MaxJoins, overlapped' \in BOOLEAN, overlapped => overlapped'
  PROVE  PresenceCore' /\ WindowsAfter(t)'
<1>1. RowsOK /\ room \in [Rooms -> RoomRow] /\ presence \in PresenceRow
  BY DEF PresenceCore, RowsOK
<1>2. /\ RowsOK' /\ OwnerToken' /\ WhoIsWhere' /\ conn'[p] = c
      /\ \A q \in Players \ {p} : conn'[q] = conn[q]
  BY <1>1, PlayerMoves
<1>3. \A q \in Players : conn'[q].pc \in {"checking", "joined"} => q # p /\ conn'[q] = conn[q]
  BY <1>2
<1>4. ClosedWhileAttached'
  <2>1. CASE overlapped'
    BY <2>1 DEF ClosedWhileAttached
  <2>2. CASE ~overlapped'
    <3>1. ~overlapped
      BY <2>2
    <3>2. ASSUME NEW q \in Players, conn'[q].room = lease.owner
          PROVE  /\ conn'[q].pc \in {"checking", "joined"} => presence.offlineAt = Null
                 /\ conn'[q].pc = "joined" =>
                      /\ \A at \in marking'[lease.owner] : at = Null
                      /\ \A x \in Players : conn'[x].room = lease.owner /\ conn'[x].pc = "checking"
                                              => conn'[x].prev = Null
      BY <1>3, <3>1, <3>2 DEF PresenceCore, ClosedWhileAttached
    <3> QED
      BY <3>2 DEF ClosedWhileAttached
  <2> QED
    BY <2>1, <2>2
<1>5. WindowsAfter(t)'
  BY <1>3 DEF WindowsAfter
<1> QED
  BY <1>2, <1>4, <1>5 DEF PresenceCore

LEMMA ReserveKeeps ==
  ASSUME PresenceCore, NEW t \in Times, WindowsAfter(t), NEW p \in Players, NEW r \in Rooms,
         Reserve(p, r)
  PROVE  PresenceCore' /\ WindowsAfter(t)'
<1> DEFINE c == [room |-> r, pc |-> "reserved", prev |-> Null, held |-> TRUE]
<1>1. c \in ConnRow /\ c.pc = "reserved" /\ c.room = r
  BY DEF ConnRow, Steps
<1>2. /\ conn' = [conn EXCEPT ![p] = c] /\ room[r].phase = "up"
      /\ UNCHANGED <<now, lease, presence, room, disposing, marking, aborted, overlapped>>
  BY DEF Reserve, rowVars, roomVars
<1>3. joins' \in 0 .. MaxJoins
  BY TimesAssumption DEF Reserve, PresenceCore, RowsOK
<1>4. marking' \in [Rooms -> SUBSET ({Null} \cup Times)] /\ overlapped' \in BOOLEAN
  BY <1>2 DEF PresenceCore, RowsOK
<1> HIDE DEF c
<1> QED
  BY <1>1, <1>2, <1>3, <1>4, LeavingKeeps

LEMMA AwayFacts == Away \in ConnRow /\ Away.room = NoRoom /\ Away.pc = "away" /\ NoRoom \notin Rooms
BY RoomsAssumption DEF Away, ConnRow, Steps

LEMMA DetachKeeps ==
  ASSUME PresenceCore, NEW t \in Times, WindowsAfter(t), NEW p \in Players, detachClient(p)
  PROVE  PresenceCore' /\ WindowsAfter(t)'
<1> DEFINE r == conn[p].room
<1>1. /\ marking \in [Rooms -> SUBSET ({Null} \cup Times)] /\ overlapped \in BOOLEAN /\ RowsOK
      /\ joins \in 0 .. MaxJoins
  BY DEF PresenceCore, RowsOK
<1>2. /\ conn[p].pc = "joined" /\ conn' = [conn EXCEPT ![p] = Away]
      /\ UNCHANGED <<now, joins, lease, presence, room, disposing, aborted, overlapped>>
      /\ marking' = [marking EXCEPT ![r] = IF attachedClients(r) = {p} THEN @ \cup {Null} ELSE @]
  BY DEF detachClient, rowVars, roomVars
<1>3. r \in Rooms /\ lease.owner \in Rooms
  BY <1>1, <1>2, RowFacts DEF PresenceCore, WhoIsWhere
<1>4. marking' \in [Rooms -> SUBSET ({Null} \cup Times)]
      /\ \A at \in marking'[lease.owner] \ marking[lease.owner] : at = Null
  BY <1>1, <1>2, <1>3
<1> QED
  BY <1>1, <1>2, <1>4, AwayFacts, LeavingKeeps

LEMMA ExpiryKeeps ==
  ASSUME PresenceCore, NEW t \in Times, WindowsAfter(t), NEW p \in Players, ReservationExpires(p)
  PROVE  PresenceCore' /\ WindowsAfter(t)'
<1>1. /\ marking \in [Rooms -> SUBSET ({Null} \cup Times)] /\ overlapped \in BOOLEAN /\ RowsOK
      /\ joins \in 0 .. MaxJoins /\ conn[p] \in ConnRow /\ room \in [Rooms -> RoomRow]
      /\ presence \in PresenceRow
  BY DEF PresenceCore, RowsOK
<1>2. UNCHANGED <<now, joins, lease, presence, room, disposing, marking, aborted, overlapped>>
  BY DEF ReservationExpires, rowVars, roomVars
<1>3. CASE conn[p].pc # "checking"
  <2>1. conn' = [conn EXCEPT ![p] = Away]
    BY <1>1, <1>2, <1>3 DEF ReservationExpires
  <2> QED
    BY <1>1, <1>2, <2>1, AwayFacts, LeavingKeeps
<1>4. CASE conn[p].pc = "checking"
  <2>1. PICK c \in ConnRow : /\ c.room = conn[p].room /\ c.pc = conn[p].pc /\ c.prev = conn[p].prev
                             /\ conn' = [conn EXCEPT ![p] = c]
    <3>1. [conn[p] EXCEPT !.held = FALSE] \in ConnRow
          /\ [conn[p] EXCEPT !.held = FALSE].room = conn[p].room
          /\ [conn[p] EXCEPT !.held = FALSE].pc = conn[p].pc
          /\ [conn[p] EXCEPT !.held = FALSE].prev = conn[p].prev
      BY <1>1 DEF ConnRow
    <3>2. conn' = [conn EXCEPT ![p] = [conn[p] EXCEPT !.held = FALSE]]
      BY <1>4 DEF ReservationExpires
    <3> QED
      BY <3>1, <3>2
  <2>2. /\ RowsOK' /\ OwnerToken' /\ WhoIsWhere' /\ conn'[p] = c
        /\ \A q \in Players \ {p} : conn'[q] = conn[q]
    BY <1>1, <1>2, <2>1, PlayerMoves DEF PresenceCore, WhoIsWhere
  <2>3. \A q \in Players : /\ conn'[q].room = conn[q].room /\ conn'[q].pc = conn[q].pc
                           /\ conn'[q].prev = conn[q].prev
    BY <2>1, <2>2
  <2>4. ClosedWhileAttached' /\ WindowsAfter(t)'
    BY <1>2, <2>3 DEF PresenceCore, ClosedWhileAttached, WindowsAfter
  <2> QED
    BY <2>2, <2>4 DEF PresenceCore
<1> QED
  BY <1>3, <1>4

(* The connection remembers the window it closes.                          *)
LEMMA ConnectKeeps ==
  ASSUME PresenceCore, NEW t \in Times, WindowsAfter(t), NEW p \in Players, markConnected(p)
  PROVE  PresenceCore' /\ WindowsAfter(t)'
<1> DEFINE r == conn[p].room
<1>1. /\ marking \in [Rooms -> SUBSET ({Null} \cup Times)] /\ overlapped \in BOOLEAN /\ RowsOK
      /\ joins \in 0 .. MaxJoins /\ conn[p] \in ConnRow /\ room \in [Rooms -> RoomRow]
      /\ presence \in PresenceRow /\ lease.token \in 1 .. MaxToken /\ lease.owner \in Rooms
      /\ presence.offlineAt \in {Null} \cup Times /\ conn \in [Players -> ConnRow]
  BY RowFacts DEF PresenceCore, RowsOK
<1>2. /\ conn[p].pc = "reserved"
      /\ UNCHANGED <<now, joins, lease, disposing, marking, aborted, overlapped>>
  BY DEF markConnected
<1>3. r \in Rooms /\ room[r].phase = "up"
  BY <1>2 DEF PresenceCore, WhoIsWhere
<1>4. CASE /\ Owned(r, now) /\ presence' = [token |-> room[r].token, offlineAt |-> Null]
           /\ conn' = [conn EXCEPT ![p].pc = "checking", ![p].prev = presence.offlineAt]
           /\ UNCHANGED room
  <2>1. lease.owner = r /\ presence' \in PresenceRow /\ presence'.offlineAt = Null
    BY <1>1, <1>4 DEF Owned, OwnedAs, PresenceRow
  <2>2. PICK c \in ConnRow : /\ c.room = r /\ c.pc = "checking" /\ c.prev = presence.offlineAt
                             /\ conn' = [conn EXCEPT ![p] = c]
    <3> DEFINE d == [conn[p] EXCEPT !.pc = "checking", !.prev = presence.offlineAt]
    <3>1. d \in ConnRow /\ d.room = r /\ d.pc = "checking" /\ d.prev = presence.offlineAt
      BY <1>1 DEF ConnRow, Steps
    <3>2. conn' = [conn EXCEPT ![p] = d]
      BY <1>1, <1>4
    <3> HIDE DEF d
    <3> QED
      BY <3>1, <3>2
  <2>3. /\ RowsOK' /\ OwnerToken' /\ WhoIsWhere' /\ conn'[p] = c
        /\ \A q \in Players \ {p} : conn'[q] = conn[q]
    <3>1. /\ presence' \in PresenceRow /\ room' \in [Rooms -> RoomRow]
          /\ UNCHANGED <<now, lease, disposing, aborted>>
          /\ \A s \in Rooms : room'[s].token = room[s].token /\ room'[s].phase = room[s].phase
          /\ marking' \in [Rooms -> SUBSET ({Null} \cup Times)]
          /\ joins' \in 0 .. MaxJoins /\ overlapped' \in BOOLEAN
      BY <1>1, <1>2, <1>4, <2>1
    <3>2. c.room \in Rooms /\ room[c.room].phase = "up"
      BY <1>3, <2>2
    <3>3. conn' = [conn EXCEPT ![p] = c]
      BY <2>2
    <3> QED
      BY <3>1, <3>2, <3>3, PlayerMoves
  <2> HIDE DEF r
  <2>4. ClosedWhileAttached'
    <3>1. CASE overlapped
      BY <1>2, <3>1 DEF ClosedWhileAttached
    <3>2. CASE ~overlapped
      <4>1. ASSUME NEW q \in Players, conn'[q].room = lease.owner, conn'[q].pc = "joined"
            PROVE  /\ \A at \in marking[lease.owner] : at = Null
                   /\ \A x \in Players : conn'[x].room = lease.owner /\ conn'[x].pc = "checking"
                                           => conn'[x].prev = Null
        <5>1. q # p /\ conn[q].room = lease.owner /\ conn[q].pc = "joined"
          BY <2>2, <2>3, <4>1
        <5>2. /\ presence.offlineAt = Null /\ \A at \in marking[lease.owner] : at = Null
              /\ \A x \in Players : conn[x].room = lease.owner /\ conn[x].pc = "checking"
                                      => conn[x].prev = Null
          BY <3>2, <5>1 DEF PresenceCore, ClosedWhileAttached
        <5> QED
          BY <2>2, <2>3, <5>2
      <4> QED
        BY <1>2, <2>1, <4>1 DEF ClosedWhileAttached
    <3> QED
      BY <3>1, <3>2
  <2>5. WindowsAfter(t)'
    BY <1>2, <2>1, <2>2, <2>3 DEF WindowsAfter
  <2> QED
    BY <2>3, <2>4, <2>5 DEF PresenceCore
<1>5. CASE /\ LeaseGone(r) /\ conn' = [conn EXCEPT ![p].pc = "spent"] /\ UNCHANGED presence
  <2>1. PICK c \in ConnRow : /\ c.room = r /\ c.pc = "spent" /\ conn' = [conn EXCEPT ![p] = c]
    <3> DEFINE d == [conn[p] EXCEPT !.pc = "spent"]
    <3>1. d \in ConnRow /\ d.room = r /\ d.pc = "spent"
      BY <1>1 DEF ConnRow, Steps
    <3>2. conn' = [conn EXCEPT ![p] = d]
      BY <1>5
    <3> HIDE DEF d
    <3> QED
      BY <3>1, <3>2
  <2>2. room' \in [Rooms -> RoomRow]
        /\ \A s \in Rooms : room'[s].token = room[s].token /\ room'[s].phase = room[s].phase
    BY <1>1, <1>3, <1>5 DEF RoomRow, LeaseGone
  <2>3. /\ RowsOK' /\ OwnerToken' /\ WhoIsWhere' /\ conn'[p] = c
        /\ \A q \in Players \ {p} : conn'[q] = conn[q]
    <3>1. /\ presence' \in PresenceRow /\ room' \in [Rooms -> RoomRow]
          /\ UNCHANGED <<now, lease, disposing, aborted>>
          /\ \A s \in Rooms : room'[s].token = room[s].token /\ room'[s].phase = room[s].phase
          /\ marking' \in [Rooms -> SUBSET ({Null} \cup Times)]
          /\ joins' \in 0 .. MaxJoins /\ overlapped' \in BOOLEAN
      BY <1>1, <1>2, <1>5, <2>2
    <3>2. c.room \in Rooms /\ room[c.room].phase = "up"
      BY <1>3, <2>1
    <3>3. conn' = [conn EXCEPT ![p] = c]
      BY <2>1
    <3> QED
      BY <3>1, <3>2, <3>3, PlayerMoves
  <2>4. \A q \in Players : conn'[q].pc \in {"checking", "joined"} => q # p /\ conn'[q] = conn[q]
    BY <2>1, <2>3
  <2>5. ClosedWhileAttached'
    BY <1>2, <1>5, <2>4 DEF PresenceCore, ClosedWhileAttached
  <2>6. WindowsAfter(t)'
    BY <1>2, <1>5, <2>4 DEF WindowsAfter
  <2> QED
    BY <2>3, <2>5, <2>6 DEF PresenceCore
<1> QED
  BY <1>4, <1>5 DEF markConnected

(* No window of the past is about to be reopened when somebody attaches,   *)
(* or the history says so.                                                 *)
LEMMA CompletionKeeps ==
  ASSUME PresenceCore, NEW t \in Times, WindowsAfter(t), NEW p \in Players, JoinCompletes(p)
  PROVE  PresenceCore' /\ WindowsAfter(t)'
<1> DEFINE r == conn[p].room
<1>1. /\ marking \in [Rooms -> SUBSET ({Null} \cup Times)] /\ overlapped \in BOOLEAN /\ RowsOK
      /\ joins \in 0 .. MaxJoins /\ conn[p] \in ConnRow /\ room \in [Rooms -> RoomRow]
      /\ presence \in PresenceRow /\ conn \in [Players -> ConnRow]
  BY RowFacts DEF PresenceCore, RowsOK
<1>2. /\ conn[p].pc = "checking"
      /\ UNCHANGED <<now, joins, lease, presence, room, disposing, marking, aborted>>
      /\ overlapped' \in BOOLEAN /\ (overlapped => overlapped')
      /\ ~overlapped' => ~Reopening(p, r)
  BY <1>1 DEF JoinCompletes, rowVars, roomVars
<1>3. r \in Rooms /\ room[r].phase = "up"
  BY <1>2 DEF PresenceCore, WhoIsWhere
<1>4. PICK c \in ConnRow : /\ c.room = r /\ c.pc = "joined" /\ conn' = [conn EXCEPT ![p] = c]
  <2> DEFINE d == [conn[p] EXCEPT !.pc = "joined", !.prev = Null]
  <2>1. d \in ConnRow /\ d.room = r /\ d.pc = "joined"
    BY <1>1 DEF ConnRow, Steps
  <2>2. conn' = [conn EXCEPT ![p] = d]
    BY <1>1 DEF JoinCompletes
  <2> HIDE DEF d
  <2> QED
    BY <2>1, <2>2
<1>5. /\ RowsOK' /\ OwnerToken' /\ WhoIsWhere' /\ conn'[p] = c
      /\ \A q \in Players \ {p} : conn'[q] = conn[q]
  BY <1>1, <1>2, <1>3, <1>4, PlayerMoves
<1>51. r = conn[p].room
  OBVIOUS
<1> HIDE DEF r
<1>6. ClosedWhileAttached'
  <2>1. CASE overlapped'
    BY <2>1 DEF ClosedWhileAttached
  <2>2. CASE ~overlapped'
    <3>1. /\ ~overlapped /\ \A at \in marking[r] : at = Null
          /\ \A q \in Players \ {p} : conn[q].room = r /\ conn[q].pc = "checking" => conn[q].prev = Null
      <4>1. ~overlapped /\ ~Reopening(p, r)
        BY <1>2, <2>2
      <4> QED
        BY <4>1 DEF Reopening, At
    <3>2. ASSUME NEW q \in Players, conn'[q].room = lease.owner
          PROVE  /\ conn'[q].pc \in {"checking", "joined"} => presence.offlineAt = Null
                 /\ conn'[q].pc = "joined" =>
                      /\ \A at \in marking[lease.owner] : at = Null
                      /\ \A x \in Players : conn'[x].room = lease.owner /\ conn'[x].pc = "checking"
                                              => conn'[x].prev = Null
      <4>1. conn'[q].pc \in {"checking", "joined"} => presence.offlineAt = Null
        BY <1>2, <1>4, <1>5, <1>51, <3>1, <3>2 DEF PresenceCore, ClosedWhileAttached
      <4>2. CASE r = lease.owner
        BY <1>4, <1>5, <3>1, <4>1, <4>2
      <4>3. CASE r # lease.owner
        BY <1>4, <1>5, <3>1, <3>2, <4>1, <4>3 DEF PresenceCore, ClosedWhileAttached
      <4> QED
        BY <4>2, <4>3
    <3> QED
      BY <1>2, <3>2 DEF ClosedWhileAttached
  <2> QED
    BY <2>1, <2>2
<1>7. WindowsAfter(t)'
  BY <1>2, <1>4, <1>5 DEF WindowsAfter
<1> QED
  BY <1>5, <1>6, <1>7 DEF PresenceCore

LEMMA FailureKeeps ==
  ASSUME PresenceCore, NEW t \in Times, WindowsAfter(t), NEW p \in Players, JoinFails(p)
  PROVE  PresenceCore' /\ WindowsAfter(t)'
<1> DEFINE r == conn[p].room
<1>1. /\ marking \in [Rooms -> SUBSET ({Null} \cup Times)] /\ overlapped \in BOOLEAN /\ RowsOK
      /\ joins \in 0 .. MaxJoins /\ conn[p] \in ConnRow /\ conn[p].prev \in {Null} \cup Times
      /\ lease.owner \in Rooms
  BY RowFacts DEF PresenceCore, RowsOK
<1>2. /\ conn[p].pc = "checking"
      /\ UNCHANGED <<now, joins, lease, presence, room, disposing, aborted, overlapped>>
      /\ marking' = [marking EXCEPT ![r] = IF attachedClients(r) # {} THEN @ ELSE @ \cup {conn[p].prev}]
  BY DEF JoinFails, rowVars, roomVars
<1>3. r \in Rooms /\ room[r].phase = "up"
  BY <1>2 DEF PresenceCore, WhoIsWhere
<1>4. PICK c \in ConnRow : /\ c.pc # "away" => c.room \in Rooms
                           /\ c.room \in Rooms => room[c.room].phase = "up"
                           /\ c.pc \notin {"checking", "joined"} /\ conn' = [conn EXCEPT ![p] = c]
  <2> DEFINE d == [conn[p] EXCEPT !.pc = "spent", !.prev = Null]
  <2>1. d \in ConnRow /\ d.room = r /\ d.pc = "spent"
    BY <1>1 DEF ConnRow, Steps
  <2>2. conn' = [conn EXCEPT ![p] = d] \/ conn' = [conn EXCEPT ![p] = Away]
    BY DEF JoinFails
  <2> HIDE DEF d
  <2> QED
    BY <1>3, <2>1, <2>2, AwayFacts
<1>5. marking' \in [Rooms -> SUBSET ({Null} \cup Times)]
      /\ \A at \in marking'[lease.owner] \ marking[lease.owner] : r = lease.owner /\ at = conn[p].prev
  BY <1>1, <1>2, <1>3
<1>6. ASSUME NEW at \in marking'[lease.owner] \ marking[lease.owner], at # Null, ~overlapped
      PROVE  /\ t <= at
             /\ \A q \in Players : conn[q].room = lease.owner => conn[q].pc # "joined"
  BY <1>2, <1>5, <1>6 DEF WindowsAfter, PresenceCore, ClosedWhileAttached
<1> QED
  BY <1>1, <1>2, <1>4, <1>5, <1>6, LeavingKeeps

-----------------------------------------------------------------------------
(* Who is attached is so at the owner of the lease, before its end.        *)
LEMMA AttachedAtOwner ==
  ASSUME Attached # {}
  PROVE  \E p \in Players : conn[p].room = lease.owner /\ conn[p].pc = "joined" /\ now < lease.until
<1>1. PICK r \in Rooms : Serving(r) /\ At(r, {"joined"}) # {}
  BY DEF Attached
<1> QED
  BY <1>1 DEF At, Serving, Owned, OwnedAs

LEMMA AttachedAtOwnerNext ==
  ASSUME Attached' # {}
  PROVE  \E p \in Players : conn'[p].room = lease'.owner /\ conn'[p].pc = "joined" /\ now' < lease'.until
<1>1. PICK r \in Rooms : Serving(r)' /\ At(r, {"joined"})' # {}
  BY DEF Attached
<1> QED
  BY <1>1 DEF At, Serving, Owned, OwnedAs

(* One step, whatever the history. *)
LEMMA StepKeeps ==
  ASSUME PresenceCore, NEW t \in Times, WindowsAfter(t),
         \/ \E r \in Rooms : RoomStep(r)
         \/ \E p \in Players : PlayerStep(p)
         \/ abortOfflineSessions \/ Tick
  PROVE  PresenceCore' /\ WindowsAfter(t)'
<1>1. ASSUME NEW r \in Rooms, RoomStep(r) PROVE PresenceCore' /\ WindowsAfter(t)'
  BY <1>1, CreateKeeps, QuietRoomKeeps, DisposeMarkKeeps, CrashKeeps, MarkKeeps DEF RoomStep
<1>2. ASSUME NEW p \in Players, PlayerStep(p) PROVE PresenceCore' /\ WindowsAfter(t)'
  BY <1>2, ReserveKeeps, ExpiryKeeps, ConnectKeeps, CompletionKeeps, FailureKeeps, DetachKeeps
  DEF PlayerStep
<1>3. CASE abortOfflineSessions \/ Tick
  <2>1. /\ UNCHANGED <<lease, presence, conn, marking, joins, overlapped, room, disposing>>
        /\ aborted' \in BOOLEAN /\ room \in [Rooms -> RoomRow] /\ disposing \in [Rooms -> DisposalRow]
    BY <1>3 DEF abortOfflineSessions, Tick, rowVars, roomVars, PresenceCore, RowsOK
  <2>2. now' \in Times /\ now <= now'
    BY <1>3, TimesAssumption DEF abortOfflineSessions, Tick, PresenceCore, RowsOK, Times
  <2> QED
    BY <2>1, <2>2, NothingMoves
<1> QED
  BY <1>1, <1>2, <1>3

LEMMA PresenceInit == Init => PresenceInv
<1> SUFFICES ASSUME Init PROVE PresenceInv
  OBVIOUS
<1>1. FirstRoom \in Rooms /\ MaxTime \in Nat /\ LeaseDuration \in Nat \ {0} /\ MaxToken \in Nat \ {0} /\ MaxJoins \in Nat
  BY RoomsAssumption, TimesAssumption
<1>2. 0 \in Times /\ 1 \in 1 .. MaxToken /\ LeaseDuration \in 0 .. MaxTime + LeaseDuration /\ 0 \in 0 .. MaxJoins
  BY <1>1 DEF Times
<1>3. lease \in LeaseRow /\ lease.owner = FirstRoom /\ lease.token = 1 /\ lease.until = LeaseDuration
  BY <1>1, <1>2 DEF Init, LeaseRow
<1>4. presence \in PresenceRow /\ presence.offlineAt = Null
  BY <1>2 DEF Init, PresenceRow
<1>5. room \in [Rooms -> RoomRow] /\ room[FirstRoom].token = 1 /\ room[FirstRoom].phase = "up"
  BY <1>1 DEF Init, RoomRow, Phases
<1>6. conn \in [Players -> ConnRow] /\ \A p \in Players : conn[p].room = FirstRoom /\ conn[p].pc = "joined"
  BY <1>1 DEF Init, ConnRow, Steps
<1>7. marking \in [Rooms -> SUBSET ({Null} \cup Times)] /\ \A r \in Rooms : marking[r] = {}
  BY DEF Init
<1>71. disposing \in [Rooms -> DisposalRow]
  BY <1>1 DEF Init, NotDisposing, DisposalRow, Disposals
<1>8. RowsOK
  BY <1>2, <1>3, <1>4, <1>5, <1>6, <1>7, <1>71 DEF RowsOK, Init
<1>9. OwnerToken /\ WhoIsWhere /\ ClosedWhileAttached
  BY <1>1, <1>3, <1>4, <1>5, <1>6, <1>7 DEF OwnerToken, WhoIsWhere, ClosedWhileAttached
<1>10. attachedAt = 0 /\ now = 0 /\ 0 <= lease.until
  BY <1>1, <1>3 DEF Init
<1>11. WindowsAfter(attachedAt)
  BY <1>1, <1>3, <1>4, <1>6, <1>7, <1>10 DEF WindowsAfter
<1> QED
  BY <1>2, <1>8, <1>9, <1>10, <1>11 DEF PresenceInv, PresenceCore

LEMMA PresenceNext == PresenceInv /\ [Next]_vars => PresenceInv'
<1> SUFFICES ASSUME PresenceInv, [Next]_vars PROVE PresenceInv'
  OBVIOUS
<1>1. CASE UNCHANGED vars
  BY <1>1 DEF vars, rowVars, roomVars, PresenceInv, PresenceCore, RowsOK, OwnerToken, WhoIsWhere,
              ClosedWhileAttached, WindowsAfter
<1>2. CASE Next
  <2>1. PICK t \in Times : t = attachedAt
    BY DEF PresenceInv
  <2>2. PresenceCore /\ WindowsAfter(t)
    BY <2>1 DEF PresenceInv
  <2>3. PresenceCore' /\ WindowsAfter(t)'
    BY <1>2, <2>2, StepKeeps DEF Next
  <2>4. now' \in Times /\ now' \in Nat
    BY <2>3, TimesAssumption DEF PresenceCore, RowsOK, Times
  <2>5. CASE Attached' # {}
    <3>1. attachedAt' = now'
      BY <1>2, <2>5 DEF Next, Observe
    <3>2. PICK p \in Players : conn'[p].room = lease'.owner /\ conn'[p].pc = "joined" /\ now' < lease'.until
      BY <2>5, AttachedAtOwnerNext
    <3>3. \/ overlapped'
          \/ /\ presence'.offlineAt = Null
             /\ \A at \in marking'[lease'.owner] : at = Null
             /\ \A q \in Players : conn'[q].room = lease'.owner /\ conn'[q].pc = "checking"
                                     => conn'[q].prev = Null
      BY <2>3, <3>2 DEF PresenceCore, ClosedWhileAttached
    <3>4. now' <= now' /\ now' <= lease'.until
      <4>1. lease'.until \in Nat
        BY <2>3, TimesAssumption DEF PresenceCore, RowsOK, LeaseRow
      <4> QED
        BY <2>4, <3>2, <4>1
    <3>5. WindowsAfter(attachedAt)'
      BY <3>1, <3>3, <3>4 DEF WindowsAfter
    <3> QED
      BY <2>3, <2>4, <3>1, <3>5 DEF PresenceInv
  <2>6. CASE Attached' = {}
    <3>1. attachedAt' = t
      BY <1>2, <2>1, <2>6 DEF Next, Observe
    <3>2. WindowsAfter(attachedAt)'
      BY <2>3, <3>1 DEF WindowsAfter
    <3> QED
      BY <2>3, <3>1, <3>2 DEF PresenceInv
  <2> QED
    BY <2>5, <2>6
<1> QED
  BY <1>1, <1>2

(* PresenceInv holds in every reachable state, for any rooms, players,     *)
(* lease duration, window, takeovers and joins: the token of the lease is  *)
(* its room's, players are in rooms that are up, and, until a mark has     *)
(* passed a join or a join has completed that the reopening of a window    *)
(* was to follow, no window is open or about to be opened earlier than     *)
(* somebody was last attached.  Once that has happened, it says nothing of *)
(* the window (game-room.ts, presence-repository.ts, room-lease.ts).       *)
THEOREM PresenceInductive == Spec => []PresenceInv
BY PresenceInit, PresenceNext, PTL DEF Spec

(* The rows and the Room objects keep their shape; among them the tokens   *)
(* of the presence row, which are never those of a room without a lease.   *)
THEOREM PresenceTypeCorrect == Spec => []TypeOK
<1>1. PresenceInv => TypeOK
  BY DEF PresenceInv, PresenceCore, RowsOK, TypeOK, LeaseRow, PresenceRow, RoomRow, DisposalRow, ConnRow
<1> QED
  BY <1>1, PresenceInductive, PTL

(* As long as somebody is attached to the room that has the lease, no      *)
(* reconnect window is open, unless a mark passed a join or a join was     *)
(* followed by a reopening (markConnected, detachClient, onJoin's failure).*)
THEOREM DesertedCorrect == Spec => []OfflineOnlyWhenDeserted
<1>1. ASSUME PresenceInv PROVE OfflineOnlyWhenDeserted
  BY <1>1, AttachedAtOwner DEF PresenceInv, PresenceCore, ClosedWhileAttached, OfflineOnlyWhenDeserted
<1> QED
  BY <1>1, PresenceInductive, PTL

(* The abort falls due a full window after somebody was last attached,     *)
(* whatever crashed, was taken over or failed, with the same exception     *)
(* (api_offline_abort_candidates, acquire's takeover of the presence row). *)
THEOREM WindowCorrect == Spec => []FullWindowToReconnect
<1>1. ASSUME PresenceInv PROVE FullWindowToReconnect
  <2>1. RowsOK /\ attachedAt \in Times /\ WindowsAfter(attachedAt)
    BY <1>1 DEF PresenceInv, PresenceCore
  <2>2. attachedAt \in Nat /\ lease.until \in Nat /\ Window \in Nat /\ MaxTime \in Nat
    BY <2>1, RowFacts, TimesAssumption DEF Times
  <2>3. presence.offlineAt # Null => presence.offlineAt \in Nat
    BY <2>1, <2>2, RowFacts DEF Times
  <2>4. overlapped \/ attachedAt <= (IF presence.token = lease.token /\ presence.offlineAt # Null
                                      THEN presence.offlineAt ELSE lease.until)
    BY <2>1 DEF WindowsAfter
  <2> QED
    BY <2>2, <2>3, <2>4 DEF FullWindowToReconnect, AbortDeadline
<1> QED
  BY <1>1, PresenceInductive, PTL
=============================================================================
