---------------------------- MODULE RoomCommands ----------------------------
(***************************************************************************)
(* The authoritative command path of one logical room: every Room object   *)
(* that ever serves it (in one process, after a restart, or in a second    *)
(* process), its RoomCommandHandler, and the database rows they compete    *)
(* for (apps/game-server/src/commands/command-handler.ts,                  *)
(* persistence/command-repository.ts, checkpoint-repository.ts and the     *)
(* creation, lease and disposal code of rooms/game-room.ts).               *)
(*                                                                         *)
(* A game state is represented by the commands that produced it, oldest    *)
(* first: its stateVersion is the length, the first entry is the waiting   *)
(* state a room made from the API's bootstrap.  Each entry carries the     *)
(* lifecycle and the seated players it left.  What a gameplay command does *)
(* to the board is left to the rules modules; here it continues or         *)
(* finishes the game, and which of the two depends on the time at which it *)
(* ran, so two rooms running the same command may get different states.    *)
(*                                                                         *)
(* Handling a command takes three steps that other rooms interleave with:  *)
(* the findReplay transaction and the transition (Propose), the commit     *)
(* transaction (Commit), and the reply of the database (Apply) which may   *)
(* never arrive (ReplyLost).  The lease comparisons of handle and          *)
(* handleInternal use the process's own clock, read before the first       *)
(* transaction, so they may come out either way; admission, load,          *)
(* initialize, renew and release compare with the database clock.          *)
(***************************************************************************)
EXTENDS RoomLease, FiniteSets

CONSTANTS
  Rooms,           \* Room objects, each created at most once
  OwnerOf,         \* the process (lease owner) a Room object lives in
  Players,         \* player ids
  Creator,         \* the player that created the session
  SystemTimer,     \* the actor of RoomClock's commands
  Requests,        \* request ids clients choose
  MaximumPlayers,  \* seats of the session
  MaxVersion       \* MAX_STATE_VERSION of lifecycle.ts

ASSUME RoomsAssumption == OwnerOf \in [Rooms -> Owners]
ASSUME PlayersAssumption == Creator \in Players /\ SystemTimer \notin Players
ASSUME BoundsAssumption == MaximumPlayers \in Nat /\ MaxVersion \in Nat

VARIABLES
  up,             \* processes that have not crashed
  phase,          \* life cycle of each Room object
  token,          \* fencing token of the lease each room acquired, 0 before
  mem,            \* RoomCommandHandler.state of each room
  work,           \* the command each room's serial queue is handling
  commands,       \* room_commands rows
  proofs,         \* state versions of terminal_proofs rows
  finalizations,  \* session_finalizations rows
  published,      \* acknowledgements and events that reached clients
  missed          \* rooms that lost the reply to a commit (history variable)

roomVars == <<up, phase, token, mem, work, published, missed>>
rowVars == <<commands, proofs, finalizations>>
vars == <<leaseVars, roomVars, rowVars>>

Actors == Players \cup {SystemTimer}
(* An admission's request id is a digest of the player, a timer command's  *)
(* of the state version, and a room's first state is told apart by the     *)
(* room that drew its random seed.                                         *)
RequestIds == Requests \cup Players \cup (0 .. MaxVersion) \cup Rooms
PlayerTypes == {"joinGame", "leaveGame", "cancelGame", "startGame", "gameplay"}
Types == PlayerTypes \cup {"timer"}
Lifecycles == {"waiting", "cancelled", "inProgress", "finished"}
Phases == {"absent", "acquired", "empty", "serving", "lost", "disposing", "disposed"}

Entry == [actor : Actors, request : RequestIds, type : Types \cup {"createGame"},
          lifecycle : Lifecycles, seats : SUBSET Players]
Command == [actor : Actors, request : RequestIds, type : Types, expected : Nat]
Row == [actor : Actors, request : RequestIds, type : Types,
        expected : Nat, version : Nat]

NoCommand == [actor |-> SystemTimer, request |-> 0, type |-> "timer", expected |-> 0]
Idle == [stage |-> "idle", admission |-> FALSE, cmd |-> NoCommand, next |-> <<>>]

Init ==
  /\ LeaseInit
  /\ up = Owners
  /\ phase = [r \in Rooms |-> "absent"]
  /\ token = [r \in Rooms |-> 0]
  /\ mem = [r \in Rooms |-> <<>>]
  /\ work = [r \in Rooms |-> Idle]
  /\ commands = {}
  /\ proofs = {}
  /\ finalizations = {}
  /\ published = {}
  /\ missed = {}

-----------------------------------------------------------------------------
(* The game state a snapshot stands for. *)
Lifecycle(s) == s[Len(s)].lifecycle
Seats(s) == s[Len(s)].seats

(* Gameplay and timer commands belong to a running game and its players. *)
GameplayAllowed(s, c) ==
  /\ c.type \in {"gameplay", "timer"}
  /\ Lifecycle(s) = "inProgress"
  /\ c.actor \in Seats(s) \cup {SystemTimer}

(* transition of lifecycle.ts, and transitionGameplay as far as it is told *)
(* apart here: command c is accepted in state s and leads to lifecycle l   *)
(* with the players in seats.                                              *)
transition(s, c, l, seats) ==
  /\ c.expected = Len(s)
  /\ Len(s) < MaxVersion
  /\ \/ /\ c.type = "joinGame"
        /\ Lifecycle(s) = "waiting"
        /\ c.actor \notin Seats(s)
        /\ Cardinality(Seats(s)) < MaximumPlayers
        /\ l = "waiting" /\ seats = Seats(s) \cup {c.actor}
     \/ /\ c.type = "leaveGame"
        /\ Lifecycle(s) = "waiting"
        /\ c.actor # Creator /\ c.actor \in Seats(s)
        /\ l = "waiting" /\ seats = Seats(s) \ {c.actor}
     \/ /\ c.type = "cancelGame"
        /\ Lifecycle(s) = "waiting"
        /\ c.actor = Creator
        /\ l = "cancelled" /\ seats = Seats(s)
     \/ /\ c.type = "startGame"
        /\ Lifecycle(s) = "waiting"
        /\ c.actor = Creator
        /\ Cardinality(Seats(s)) >= 2
        /\ l = "inProgress" /\ seats = Seats(s)
     \/ /\ GameplayAllowed(s, c)
        /\ l \in {"inProgress", "finished"} /\ seats = Seats(s)

(* Mutant: the request is looked up by its content, not by its key. *)
StoredByContent(c) ==
  {row \in commands : /\ row.actor = c.actor /\ row.request = c.request
                      /\ row.type = c.type /\ row.expected = c.expected}

(* The room_commands row with this primary key; requestHash covers what a  *)
(* client put into the command, here its type and expected version.        *)
StoredCommand(c) == {row \in commands : row.actor = c.actor /\ row.request = c.request}
SameRequest(row, c) == row.type = c.type /\ row.expected = c.expected

CommandRow(c) == [actor |-> c.actor, request |-> c.request, type |-> c.type,
                  expected |-> c.expected, version |-> c.expected + 1]

(* A Room object that finished onCreate runs until its process dies: what  *)
(* its queue holds is still handled after the lease is lost and after      *)
(* onDispose.                                                              *)
Running(r) == OwnerOf[r] \in up /\ mem[r] # <<>>

SetPhase(r, p) == phase' = [phase EXCEPT ![r] = p]

-----------------------------------------------------------------------------
(* onCreate: acquire the lease, ... *)
Acquire(r) ==
  /\ OwnerOf[r] \in up
  /\ phase[r] = "absent"
  /\ acquire(OwnerOf[r])
  /\ SetPhase(r, "acquired")
  /\ token' = [token EXCEPT ![r] = GrantedToken(OwnerOf[r])]
  /\ UNCHANGED <<up, mem, work, published, missed, rowVars>>

(* ... load the checkpoint that carries its token ... *)
Load(r) ==
  /\ OwnerOf[r] \in up
  /\ phase[r] = "acquired"
  /\ AssertOwned(OwnerOf[r], token[r], LeaseLive)
  /\ IF checkpoint.state # <<>> /\ checkpoint.token = token[r]
       THEN SetPhase(r, "serving") /\ mem' = [mem EXCEPT ![r] = checkpoint.state]
       ELSE SetPhase(r, "empty") /\ UNCHANGED mem
  /\ UNCHANGED <<leaseVars, up, token, work, published, missed, rowVars>>

(* ... or make the first one from the players the API has seated. *)
Initialize(r) ==
  /\ OwnerOf[r] \in up
  /\ phase[r] = "empty"
  /\ AssertOwned(OwnerOf[r], token[r], LeaseLive)
  /\ checkpoint.state = <<>>
  /\ \E seats \in SUBSET Players :
       LET first == <<[actor |-> Creator, request |-> r, type |-> "createGame",
                       lifecycle |-> "waiting", seats |-> seats]>>
       IN /\ Creator \in seats
          /\ Cardinality(seats) <= MaximumPlayers
          /\ checkpoint' = [token |-> token[r], state |-> first]
          /\ mem' = [mem EXCEPT ![r] = first]
  /\ SetPhase(r, "serving")
  /\ UNCHANGED <<lease, presence, up, token, work, published, missed, rowVars>>

(* Creation fails: the checkpoint exists already, the lease is gone, the   *)
(* API refuses, or a transaction fails.  The lease is released next.       *)
FailCreate(r) ==
  /\ OwnerOf[r] \in up
  /\ phase[r] \in {"acquired", "empty"}
  /\ SetPhase(r, "disposing")
  /\ UNCHANGED <<leaseVars, up, token, mem, work, published, missed, rowVars>>

-----------------------------------------------------------------------------
(* A retried request: findReplay returns the stored acknowledgement, and   *)
(* the room's state stays what it was.                                     *)
Replay(r, c) ==
  /\ Running(r)
  /\ work[r].stage = "idle"
  /\ AssertOwned(OwnerOf[r], token[r], TRUE)
  /\ \E row \in StoredCommand(c) :
       /\ SameRequest(row, c)
       /\ published' = published \cup {row}
  /\ UNCHANGED <<leaseVars, up, phase, token, mem, work, missed, rowVars>>

(* handleSerial and handleInternalSerial up to commit: no row is stored    *)
(* for the request and the transition accepts it.                          *)
Propose(r, c) ==
  /\ Running(r)
  /\ work[r].stage = "idle"
  /\ AssertOwned(OwnerOf[r], token[r], TRUE)
  /\ StoredCommand(c) = {}
  /\ \E l \in Lifecycles, seats \in SUBSET Players :
       /\ transition(mem[r], c, l, seats)
       /\ work' = [work EXCEPT ![r] =
            [stage |-> "commit", admission |-> FALSE, cmd |-> c,
             next |-> Append(mem[r], [actor |-> c.actor, request |-> c.request,
                                      type |-> c.type, lifecycle |-> l, seats |-> seats])]]
  /\ UNCHANGED <<leaseVars, up, phase, token, mem, published, missed, rowVars>>

Handle(r) ==
  \E p \in Players, q \in Requests, t \in PlayerTypes, v \in 1 .. MaxVersion :
    LET c == [actor |-> p, request |-> q, type |-> t, expected |-> v]
    IN Replay(r, c) \/ Propose(r, c)

(* RoomClock's command for the state the room holds: its request id is a   *)
(* digest of the state version, so every room serving that version sends   *)
(* the same one.                                                           *)
TimerCommand(r) == [actor |-> SystemTimer, request |-> Len(mem[r]),
                    type |-> "timer", expected |-> Len(mem[r])]

HandleTimer(r) == Replay(r, TimerCommand(r)) \/ Propose(r, TimerCommand(r))

(* ensureAdmittedPlayerSerial up to commit.  A player who holds a seat is  *)
(* admitted without a command; a stored row for the admission is an error. *)
Admit(r, p) ==
  LET c == [actor |-> p, request |-> p, type |-> "joinGame", expected |-> Len(mem[r])]
  IN /\ Running(r)
     /\ work[r].stage = "idle"
     /\ AssertOwned(OwnerOf[r], token[r], LeaseLive)
     /\ StoredCommand(c) = {}
     /\ \E seats \in SUBSET Players :
          /\ transition(mem[r], c, "waiting", seats)
          /\ work' = [work EXCEPT ![r] =
               [stage |-> "commit", admission |-> TRUE, cmd |-> c,
                next |-> Append(mem[r], [actor |-> p, request |-> p, type |-> "joinGame",
                                         lifecycle |-> "waiting", seats |-> seats])]]
     /\ UNCHANGED <<leaseVars, up, phase, token, mem, published, missed, rowVars>>

-----------------------------------------------------------------------------
OwnedAtCommit(r) ==
  AssertOwned(OwnerOf[r], token[r], work[r].admission => LeaseLive)

(* Mutants: the UPDATE does not compare the version; it compares nothing   *)
(* else.                                                                   *)
CommitWithoutVersion(r) == OwnedAtCommit(r) /\ checkpoint.token = token[r]
CommitUnfenced(r) == Len(checkpoint.state) = work[r].cmd.expected

(* The conditions of commit's checkpoint UPDATE. *)
CommitPrecondition(r) ==
  /\ OwnedAtCommit(r)
  /\ checkpoint.token = token[r]
  /\ Len(checkpoint.state) = work[r].cmd.expected

(* commit: checkpoint, command row, terminal proof and session             *)
(* finalization become durable together.                                   *)
Commit(r) ==
  LET c == work[r].cmd
      next == work[r].next
  IN /\ OwnerOf[r] \in up
     /\ work[r].stage = "commit"
     /\ StoredCommand(c) = {}
     /\ CommitPrecondition(r)
     /\ checkpoint' = [checkpoint EXCEPT !.state = next]
     /\ commands' = commands \cup {CommandRow(c)}
     /\ proofs' = IF Lifecycle(next) = "finished" THEN proofs \cup {Len(next)} ELSE proofs
     /\ finalizations' = IF c.type \in {"leaveGame", "cancelGame"}
                           THEN finalizations \cup {[actor |-> c.actor, request |-> c.request]}
                           ELSE finalizations
     /\ work' = [work EXCEPT ![r].stage = "reply"]
     /\ UNCHANGED <<lease, presence, up, phase, token, mem, published, missed>>

(* commit finds the request stored by another room: the stored             *)
(* acknowledgement is returned; an admission treats it as an error.        *)
CommitDuplicate(r) ==
  LET c == work[r].cmd
  IN /\ OwnerOf[r] \in up
     /\ work[r].stage = "commit"
     /\ OwnedAtCommit(r)
     /\ \E row \in StoredCommand(c) :
          published' = IF SameRequest(row, c) /\ ~work[r].admission
                         THEN published \cup {row} ELSE published
     /\ work' = [work EXCEPT ![r] = Idle]
     /\ UNCHANGED <<leaseVars, up, phase, token, mem, missed, rowVars>>

(* Mutants: the room keeps the proposed state, or acknowledges the         *)
(* command, although the transaction rolled back.                          *)
FailedCommitKept(r) ==
  /\ OwnerOf[r] \in up
  /\ work[r].stage = "commit"
  /\ mem' = [mem EXCEPT ![r] = work[r].next]
  /\ work' = [work EXCEPT ![r] = Idle]
  /\ UNCHANGED <<leaseVars, up, phase, token, published, missed, rowVars>>
FailedCommitAcknowledged(r) ==
  /\ OwnerOf[r] \in up
  /\ work[r].stage = "commit"
  /\ published' = published \cup {CommandRow(work[r].cmd)}
  /\ work' = [work EXCEPT ![r] = Idle]
  /\ UNCHANGED <<leaseVars, up, phase, token, mem, missed, rowVars>>

(* The transaction rolls back: the lease has moved on, the revision is     *)
(* stale, or the database fails.                                           *)
CommitFails(r) ==
  /\ OwnerOf[r] \in up
  /\ work[r].stage = "commit"
  /\ work' = [work EXCEPT ![r] = Idle]
  /\ UNCHANGED <<leaseVars, up, phase, token, mem, published, missed, rowVars>>

(* The reply arrives: the room takes the new state and tells its clients.  *)
Apply(r) ==
  /\ OwnerOf[r] \in up
  /\ work[r].stage = "reply"
  /\ mem' = [mem EXCEPT ![r] = work[r].next]
  /\ published' = published \cup {CommandRow(work[r].cmd)}
  /\ work' = [work EXCEPT ![r] = Idle]
  /\ UNCHANGED <<leaseVars, up, phase, token, missed, rowVars>>

(* COMMIT reached the database, its reply did not reach the room, which    *)
(* keeps the old state.                                                    *)
ReplyLost(r) ==
  /\ OwnerOf[r] \in up
  /\ work[r].stage = "reply"
  /\ missed' = missed \cup {r}
  /\ work' = [work EXCEPT ![r] = Idle]
  /\ UNCHANGED <<leaseVars, up, phase, token, mem, published, rowVars>>

-----------------------------------------------------------------------------
Renew(r) ==
  /\ OwnerOf[r] \in up
  /\ phase[r] = "serving"
  /\ renew(OwnerOf[r], token[r])
  /\ UNCHANGED <<roomVars, rowVars>>

(* handleLeaseLoss: a renewal failed for any reason, or a command found    *)
(* the lease stale by the process's clock.                                 *)
LoseLease(r) ==
  /\ OwnerOf[r] \in up
  /\ phase[r] = "serving"
  /\ SetPhase(r, "lost")
  /\ UNCHANGED <<leaseVars, up, token, mem, work, published, missed, rowVars>>

(* onDispose, first transaction: presence of a game in progress; it fails  *)
(* silently when the lease is not owned any more or the database fails.    *)
Dispose(r) ==
  /\ OwnerOf[r] \in up
  /\ phase[r] \in {"serving", "lost"}
  /\ SetPhase(r, "disposing")
  /\ \/ UNCHANGED presence
     \/ /\ Lifecycle(mem[r]) = "inProgress"
        /\ AssertOwned(OwnerOf[r], token[r], LeaseLive)
        /\ presence' = MarkedAllOffline(token[r])
  /\ UNCHANGED <<lease, checkpoint, up, token, mem, work, published, missed, rowVars>>

(* The release at the end of onDispose and of a failed onCreate; a failing *)
(* release is ignored and the lease runs out.                              *)
Release(r) ==
  /\ OwnerOf[r] \in up
  /\ phase[r] = "disposing"
  /\ SetPhase(r, "disposed")
  /\ lease' \in {lease, ReleasedLease(OwnerOf[r], token[r])}
  /\ UNCHANGED <<checkpoint, presence, up, token, mem, work, published, missed, rowVars>>

(* A process dies and its memory with it; a restart is another incarnation *)
(* with its own owner id.                                                  *)
Crash(o) ==
  /\ o \in up
  /\ up' = up \ {o}
  /\ LET Reset(f, v) == [r \in Rooms |-> IF OwnerOf[r] = o THEN v ELSE f[r]]
     IN /\ phase' = Reset(phase, "disposed")
        /\ token' = Reset(token, 0)
        /\ mem' = Reset(mem, <<>>)
        /\ work' = Reset(work, Idle)
  /\ missed' = {r \in missed : OwnerOf[r] # o}
  /\ UNCHANGED <<leaseVars, published, rowVars>>

Expire == LeaseLapses /\ UNCHANGED <<roomVars, rowVars>>

Next ==
  \/ \E r \in Rooms :
       \/ Acquire(r) \/ Load(r) \/ Initialize(r) \/ FailCreate(r)
       \/ Handle(r) \/ HandleTimer(r)
       \/ \E p \in Players : Admit(r, p)
       \/ Commit(r) \/ CommitDuplicate(r) \/ CommitFails(r) \/ Apply(r) \/ ReplyLost(r)
       \/ Renew(r) \/ LoseLease(r) \/ Dispose(r) \/ Release(r)
  \/ \E o \in Owners : Crash(o)
  \/ Expire

Spec == Init /\ [][Next]_vars

(* The platform keeps trying: clients that lost their room ask for it      *)
(* again (joinOrCreate), a created room finishes onCreate, a room that     *)
(* lost its lease is disposed, and time passes, so a lease that no running *)
(* room renews runs out.                                                   *)
Holds(r) == OwnerOf[r] \in up /\ phase[r] = "serving" /\ AssertOwned(OwnerOf[r], token[r], LeaseLive)
ExpireUnrenewed == ~(\E r \in Rooms : Holds(r)) /\ Expire

Fairness ==
  /\ WF_vars(ExpireUnrenewed)
  /\ \A r \in Rooms :
       /\ WF_vars(Acquire(r))
       /\ WF_vars(Load(r) \/ Initialize(r) \/ FailCreate(r))
       /\ WF_vars(phase[r] = "lost" /\ Dispose(r))
       /\ WF_vars(Release(r))

FairSpec == Spec /\ Fairness

-----------------------------------------------------------------------------
TypeOK ==
  /\ LeaseTypeOK
  /\ checkpoint \in [token : Nat, state : Seq(Entry)]
  /\ up \subseteq Owners
  /\ phase \in [Rooms -> Phases]
  /\ token \in [Rooms -> Nat]
  /\ mem \in [Rooms -> Seq(Entry)]
  /\ work \in [Rooms -> [stage : {"idle", "commit", "reply"}, admission : BOOLEAN,
                         cmd : Command, next : Seq(Entry)]]
  /\ commands \subseteq Row
  /\ published \subseteq Row
  /\ proofs \subseteq Nat
  /\ finalizations \subseteq [actor : Actors, request : RequestIds]
  /\ missed \subseteq Rooms

(* s is how the game stood at some earlier or the same version of t. *)
Prefix(s, t) == Len(s) <= Len(t) /\ \A i \in 1 .. Len(s) : s[i] = t[i]

(* The outcome stored and published for position i of a game's history. *)
RowAt(s, i) == [actor |-> s[i].actor, request |-> s[i].request, type |-> s[i].type,
                expected |-> i - 1, version |-> i]

(* Idempotency across retries, sibling rooms, takeovers and lost replies:  *)
(* the durable game state contains each (player, request id) at most once, *)
(* and room_commands holds exactly the commands the checkpoint was         *)
(* produced by, each with the version it produced (command-repository.ts). *)
AppliedOnce ==
  LET s == checkpoint.state
  IN /\ commands = {RowAt(s, i) : i \in 2 .. Len(s)}
     /\ \A i, j \in 2 .. Len(s) :
          (s[i].actor = s[j].actor /\ s[i].request = s[j].request) => i = j

(* No room, not even one that lost its lease, its process's clock or a     *)
(* reply, ever shows its clients a state that is not in the durable        *)
(* history: what RoomCommandHandler.state holds is a past or the current   *)
(* checkpoint.                                                             *)
MemoryIsDurable == \A r \in Rooms : Prefix(mem[r], checkpoint.state)

(* A room that still serves under the current fencing token, shares it     *)
(* with no other Room object and has lost no reply, holds the latest       *)
(* durable state (or is about to receive the reply that brings it): only a *)
(* lost reply or a second Room object of the same process makes a serving  *)
(* room stale (room-lease.ts continuingLiveLease, command-handler.ts).     *)
SoleHolderIsCurrent ==
  \A r \in Rooms :
    ( /\ OwnerOf[r] \in up
      /\ phase[r] = "serving"
      /\ token[r] = lease.token
      /\ r \notin missed
      /\ \A s \in Rooms \ {r} : token[s] # token[r] )
    => checkpoint.state = IF work[r].stage = "reply" THEN work[r].next ELSE mem[r]

(* Whatever a client was told (acknowledgement, replay or broadcast event) *)
(* stays true through crashes and takeovers: the durable history has that  *)
(* command at that version.                                                *)
Durable(row) ==
  /\ row.version \in 2 .. Len(checkpoint.state)
  /\ row = RowAt(checkpoint.state, row.version)
PublishedIsDurable == \A row \in published : Durable(row)

(* The terminal proof that releases coins (terminal_proofs) exists exactly *)
(* for a finished game and names its final, current version.               *)
ProofMatchesCheckpoint ==
  proofs = IF checkpoint.state # <<>> /\ Lifecycle(checkpoint.state) = "finished"
             THEN {Len(checkpoint.state)} ELSE {}

(* Fencing: once a higher token has been granted, a room with a lower one  *)
(* commits nothing and its memory advances only by a reply that was        *)
(* already on its way.                                                     *)
FencedOut(r) == token[r] # 0 /\ token[r] < lease.token
FencedRoomIsFrozen ==
  [][\A r \in Rooms : FencedOut(r) =>
       /\ work'[r].stage = "reply" => work[r].stage = "reply"
       /\ (work[r].stage # "reply" /\ OwnerOf[r] \in up') => mem'[r] = mem[r]]_vars

(* Durable history is append-only whoever writes it, and a finished or     *)
(* cancelled game never changes again, so a proof or a finalization row    *)
(* already acted upon by the API stays correct.                            *)
Over(s) == s # <<>> /\ Lifecycle(s) \in {"finished", "cancelled"}
HistoryOnlyGrows ==
  [][/\ Prefix(checkpoint.state, checkpoint'.state)
     /\ Over(checkpoint.state) => checkpoint'.state = checkpoint.state]_vars

(* Recovery: whatever crashed, lost its lease or failed to release it, the *)
(* room is served again under a live lease as long as some process that is *)
(* up still creates rooms for it.                                          *)
Served == \E r \in Rooms : Holds(r)
CanBeServed == \E r \in Rooms : phase[r] = "absent" /\ OwnerOf[r] \in up
ServedAgain == []<>(Served \/ ~CanBeServed)

(* The command log every client relies on, without leases and processes.   *)
Log == INSTANCE CommandLog WITH log <- checkpoint.state, published <- published,
                                Entries <- Entry

(* A fencing token names one owner for ever, nobody holds a token above    *)
(* the lease row's, and the checkpoint is always reachable under the       *)
(* current one: a takeover never strands it under an old token, where load *)
(* would find nothing and initialize would refuse (room-lease.ts acquire). *)
TokensIdentifyOwners ==
  /\ checkpoint.state # <<>> => checkpoint.token = lease.token
  /\ \A r \in Rooms :
       /\ token[r] <= lease.token
       /\ (token[r] # 0 /\ token[r] = lease.token) => lease.owner = OwnerOf[r]
       /\ \A s \in Rooms : (token[r] # 0 /\ token[r] = token[s]) => OwnerOf[r] = OwnerOf[s]

(* What a command under way means: before commit it extends the state the  *)
(* room holds by one accepted entry; once committed it is in the durable   *)
(* history.  With the invariants above it makes them inductive.            *)
Extends(s, w) ==
  /\ s # <<>>
  /\ w.cmd.expected = Len(s)
  /\ Len(w.next) = Len(s) + 1
  /\ Prefix(s, w.next)
  /\ RowAt(w.next, Len(s) + 1) = CommandRow(w.cmd)

WorkOf(r) ==
  /\ phase[r] \in {"serving", "lost"} => mem[r] # <<>>
  /\ phase[r] \in {"absent", "acquired", "empty"} => mem[r] = <<>>
  /\ work[r].stage # "idle" => Extends(mem[r], work[r])
  /\ work[r].stage = "commit" => Log!Forward(Lifecycle(mem[r]), Lifecycle(work[r].next))
  /\ work[r].stage = "reply" => Prefix(work[r].next, checkpoint.state)

WorkInProgress == \A r \in Rooms : WorkOf(r)

(* Retries, takeovers, siblings and crashes are invisible in the log: each *)
(* step of the rooms is one append of a fresh request that moves the game  *)
(* forward, one publication of an entry the log holds, or no change.       *)
ImplementsCommandLog == Log!LogSpec
=============================================================================
