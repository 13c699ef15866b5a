------------------------- MODULE RoomCommandsProofs -------------------------
(***************************************************************************)
(* Proofs about RoomCommands, for any number of processes, Room objects,   *)
(* players, requests and versions.                                         *)
(***************************************************************************)
EXTENDS RoomCommands, SequenceTheorems, TLAPS

(* An entry made from a command is an entry. *)
LEMMA EntryType ==
  ASSUME NEW c \in Command, NEW l \in Lifecycles, NEW seats \in SUBSET Players
  PROVE  [actor |-> c.actor, request |-> c.request, type |-> c.type,
          lifecycle |-> l, seats |-> seats] \in Entry
BY DEF Entry, Command

(* The row stored for a command is a row. *)
LEMMA RowType ==
  ASSUME NEW c \in Command
  PROVE  CommandRow(c) \in Row
BY DEF Command, Row, CommandRow

(* The commands rooms handle are commands. *)
LEMMA CommandType ==
  /\ \A p \in Players, q \in Requests, t \in PlayerTypes, v \in 1 .. MaxVersion :
       [actor |-> p, request |-> q, type |-> t, expected |-> v] \in Command
  /\ \A r \in Rooms : Len(mem[r]) \in 0 .. MaxVersion => TimerCommand(r) \in Command
  /\ \A p \in Players : \A n \in Nat :
       [actor |-> p, request |-> p, type |-> "joinGame", expected |-> n] \in Command
  /\ Idle \in [stage : {"idle", "commit", "reply"}, admission : BOOLEAN,
               cmd : Command, next : Seq(Entry)]
BY BoundsAssumption
   DEF Command, Actors, RequestIds, Types, PlayerTypes, TimerCommand, Idle, NoCommand

WorkType == [stage : {"idle", "commit", "reply"}, admission : BOOLEAN,
             cmd : Command, next : Seq(Entry)]

(* Proposing a well-formed command preserves the types. *)
LEMMA ProposeType ==
  ASSUME TypeOK, NEW r \in Rooms, NEW c \in Command, Propose(r, c)
  PROVE  TypeOK'
<1>1. PICK l \in Lifecycles, seats \in SUBSET Players :
        work' = [work EXCEPT ![r] =
            [stage |-> "commit", admission |-> FALSE, cmd |-> c,
             next |-> Append(mem[r], [actor |-> c.actor, request |-> c.request,
                                      type |-> c.type, lifecycle |-> l, seats |-> seats])]]
  BY DEF Propose
<1>2. Append(mem[r], [actor |-> c.actor, request |-> c.request,
                      type |-> c.type, lifecycle |-> l, seats |-> seats]) \in Seq(Entry)
  BY EntryType DEF TypeOK
<1>3. work' \in [Rooms -> WorkType]
  BY <1>1, <1>2 DEF TypeOK, WorkType
<1> QED
  BY <1>3 DEF Propose, TypeOK, WorkType, LeaseTypeOK, leaseVars, rowVars

LEMMA ReplayType ==
  ASSUME TypeOK, NEW r \in Rooms, NEW c, Replay(r, c)
  PROVE  TypeOK'
BY DEF Replay, TypeOK, LeaseTypeOK, leaseVars, rowVars, StoredCommand

LEMMA TypeStep == TypeOK /\ [Next]_vars => TypeOK'
<1> SUFFICES ASSUME TypeOK, [Next]_vars PROVE TypeOK'
  OBVIOUS
<1> USE DEF leaseVars, rowVars, roomVars, SetPhase, Phases, LeaseTypeOK, LeaseUntil, Windows
<1>1. ASSUME NEW r \in Rooms, Acquire(r) PROVE TypeOK'
  <2>1. OwnerOf[r] \in Owners
    BY RoomsAssumption
  <2>2. GrantedToken(OwnerOf[r]) \in Nat
    BY DEF TypeOK, GrantedToken
  <2>3. /\ CheckpointTakenOver(GrantedToken(OwnerOf[r])) \in [token : Nat, state : Seq(Entry)]
        /\ PresenceTakenOver(GrantedToken(OwnerOf[r])) \in [token : Nat, window : Windows]
    BY <2>2 DEF TypeOK, CheckpointTakenOver, PresenceTakenOver
  <2> QED
    BY <1>1, <2>1, <2>2, <2>3 DEF TypeOK, Acquire, acquire
<1>2. ASSUME NEW r \in Rooms, Load(r) PROVE TypeOK'
  BY <1>2 DEF TypeOK, Load
<1>3. ASSUME NEW r \in Rooms, Initialize(r) PROVE TypeOK'
  <2>1. PICK seats \in SUBSET Players :
          LET first == <<[actor |-> Creator, request |-> r, type |-> "createGame",
                          lifecycle |-> "waiting", seats |-> seats]>>
          IN /\ checkpoint' = [token |-> token[r], state |-> first]
             /\ mem' = [mem EXCEPT ![r] = first]
    BY <1>3 DEF Initialize
  <2>2. [actor |-> Creator, request |-> r, type |-> "createGame",
         lifecycle |-> "waiting", seats |-> seats] \in Entry
    BY PlayersAssumption DEF Entry, Actors, RequestIds, Lifecycles
  <2> QED
    BY <1>3, <2>1, <2>2 DEF TypeOK, Initialize
<1>4. ASSUME NEW r \in Rooms, FailCreate(r) PROVE TypeOK'
  BY <1>4 DEF TypeOK, FailCreate
<1>5. ASSUME NEW r \in Rooms, Handle(r) PROVE TypeOK'
  BY <1>5, CommandType, ProposeType, ReplayType DEF Handle
<1>6. ASSUME NEW r \in Rooms, HandleTimer(r) PROVE TypeOK'
  <2>1. ASSUME Propose(r, TimerCommand(r)) PROVE Len(mem[r]) \in 0 .. MaxVersion
    BY <2>1, BoundsAssumption DEF TypeOK, Propose, transition
  <2> QED
    BY <1>6, <2>1, CommandType, ProposeType, ReplayType DEF HandleTimer
<1>7. ASSUME NEW r \in Rooms, NEW p \in Players, Admit(r, p) PROVE TypeOK'
  <2> DEFINE c == [actor |-> p, request |-> p, type |-> "joinGame", expected |-> Len(mem[r])]
  <2>1. c \in Command
    BY CommandType DEF TypeOK
  <2>2. PICK seats \in SUBSET Players :
          work' = [work EXCEPT ![r] =
            [stage |-> "commit", admission |-> TRUE, cmd |-> c,
             next |-> Append(mem[r], [actor |-> p, request |-> p, type |-> "joinGame",
                                      lifecycle |-> "waiting", seats |-> seats])]]
    BY <1>7 DEF Admit
  <2>3. [actor |-> p, request |-> p, type |-> "joinGame",
         lifecycle |-> "waiting", seats |-> seats] \in Entry
    BY <2>1 DEF Entry, Command, Lifecycles
  <2>4. work' \in [Rooms -> WorkType]
    BY <2>1, <2>2, <2>3 DEF TypeOK, WorkType
  <2> QED
    BY <1>7, <2>4 DEF TypeOK, Admit, WorkType
<1>8. ASSUME NEW r \in Rooms, Commit(r) PROVE TypeOK'
  <2>1. work[r] \in WorkType
    BY DEF TypeOK, WorkType
  <2>2. /\ CommandRow(work[r].cmd) \in Row
        /\ [actor |-> work[r].cmd.actor, request |-> work[r].cmd.request]
             \in [actor : Actors, request : RequestIds]
        /\ work[r].next \in Seq(Entry)
        /\ Len(work[r].next) \in Nat
    BY <2>1, RowType DEF WorkType, Command
  <2>3. work' \in [Rooms -> WorkType]
    BY <1>8, <2>1 DEF TypeOK, Commit, WorkType
  <2> QED
    BY <1>8, <2>2, <2>3 DEF TypeOK, Commit, WorkType
<1>9. ASSUME NEW r \in Rooms, CommitDuplicate(r) PROVE TypeOK'
  BY <1>9, CommandType DEF TypeOK, CommitDuplicate, StoredCommand
<1>10. ASSUME NEW r \in Rooms, CommitFails(r) PROVE TypeOK'
  BY <1>10, CommandType DEF TypeOK, CommitFails
<1>11. ASSUME NEW r \in Rooms, Apply(r) PROVE TypeOK'
  <2>1. /\ CommandRow(work[r].cmd) \in Row
        /\ work[r].next \in Seq(Entry)
    BY RowType DEF TypeOK
  <2> QED
    BY <1>11, <2>1, CommandType DEF TypeOK, Apply
<1>12. ASSUME NEW r \in Rooms, ReplyLost(r) PROVE TypeOK'
  BY <1>12, CommandType DEF TypeOK, ReplyLost
<1>13. ASSUME NEW r \in Rooms, Renew(r) PROVE TypeOK'
  BY <1>13 DEF TypeOK, Renew, renew
<1>14. ASSUME NEW r \in Rooms, LoseLease(r) PROVE TypeOK'
  BY <1>14 DEF TypeOK, LoseLease
<1>15. ASSUME NEW r \in Rooms, Dispose(r) PROVE TypeOK'
  BY <1>15 DEF TypeOK, Dispose, MarkedAllOffline
<1>16. ASSUME NEW r \in Rooms, Release(r) PROVE TypeOK'
  BY <1>16 DEF TypeOK, Release, ReleasedLease
<1>17. ASSUME NEW o \in Owners, Crash(o) PROVE TypeOK'
  BY <1>17, CommandType DEF TypeOK, Crash
<1>18. ASSUME Expire PROVE TypeOK'
  BY <1>18 DEF TypeOK, Expire, LeaseLapses
<1>19. ASSUME UNCHANGED vars PROVE TypeOK'
  BY <1>19 DEF TypeOK, vars
<1> QED
  BY <1>1, <1>2, <1>3, <1>4, <1>5, <1>6, <1>7, <1>8, <1>9, <1>10, <1>11, <1>12,
     <1>13, <1>14, <1>15, <1>16, <1>17, <1>18, <1>19 DEF Next

LEMMA TypeInit == Init => TypeOK
BY CommandType DEF Init, LeaseInit, TypeOK, LeaseTypeOK, LeaseUntil, Windows, Phases

(* Every reachable state is well typed: rows, tokens, memories and work    *)
(* of the rooms stay within their domains.                                 *)
THEOREM TypeCorrect == Spec => []TypeOK
BY TypeInit, TypeStep, PTL DEF Spec

-----------------------------------------------------------------------------
(* Histories. *)
LEMMA PrefixReflexive == \A s : Len(s) \in Nat => Prefix(s, s)
BY DEF Prefix

LEMMA PrefixTransitive ==
  ASSUME NEW s \in Seq(Entry), NEW t \in Seq(Entry), NEW u \in Seq(Entry),
         Prefix(s, t), Prefix(t, u)
  PROVE  Prefix(s, u)
BY DEF Prefix

LEMMA PrefixOfSameLength ==
  ASSUME NEW s \in Seq(Entry), NEW t \in Seq(Entry), Prefix(s, t), Len(s) = Len(t)
  PROVE  s = t
BY SeqEqual DEF Prefix

LEMMA EmptyPrefix == ASSUME NEW s \in Seq(Entry) PROVE Prefix(<<>>, s)
BY DEF Prefix

-----------------------------------------------------------------------------
(* Fencing tokens.  A raised token is new, so no room holds it yet.        *)
LEMMA TokensStep ==
  ASSUME TypeOK, TokensIdentifyOwners, [Next]_vars
  PROVE  TokensIdentifyOwners'
<1> USE DEF leaseVars, rowVars, roomVars, SetPhase
<1>0. ASSUME lease'.owner = lease.owner, lease'.token = lease.token,
             checkpoint' = checkpoint, token' = token
      PROVE  TokensIdentifyOwners'
  BY <1>0 DEF TokensIdentifyOwners
<1>1. ASSUME NEW r \in Rooms, Acquire(r) PROVE TokensIdentifyOwners'
  <2>1. /\ lease' = [owner |-> OwnerOf[r], token |-> GrantedToken(OwnerOf[r]), until |-> "live"]
        /\ checkpoint' = CheckpointTakenOver(GrantedToken(OwnerOf[r]))
        /\ token' = [token EXCEPT ![r] = GrantedToken(OwnerOf[r])]
    BY <1>1 DEF Acquire, acquire
  <2>2. CASE lease.owner = OwnerOf[r] /\ LeaseLive
    <3>1. GrantedToken(OwnerOf[r]) = lease.token /\ checkpoint' = checkpoint
      BY <2>1, <2>2 DEF GrantedToken, CheckpointTakenOver
    <3> QED
      BY <2>1, <2>2, <3>1 DEF TokensIdentifyOwners, TypeOK, LeaseTypeOK
  <2>3. CASE ~(lease.owner = OwnerOf[r] /\ LeaseLive)
    <3>1. GrantedToken(OwnerOf[r]) = lease.token + 1 /\ lease.token \in Nat
      BY <2>3 DEF GrantedToken, TypeOK, LeaseTypeOK
    <3>2. checkpoint'.state # <<>> => checkpoint'.token = lease'.token
      BY <2>1, <3>1 DEF CheckpointTakenOver, TypeOK
    <3> QED
      BY <2>1, <3>1, <3>2 DEF TokensIdentifyOwners, TypeOK
  <2> QED
    BY <2>2, <2>3
<1>2. ASSUME NEW r \in Rooms, Initialize(r) PROVE TokensIdentifyOwners'
  BY <1>2 DEF TokensIdentifyOwners, TypeOK, Initialize, AssertOwned
<1>3. ASSUME NEW r \in Rooms, Commit(r) PROVE TokensIdentifyOwners'
  BY <1>3 DEF TokensIdentifyOwners, TypeOK, Commit, CommitPrecondition, OwnedAtCommit, AssertOwned
<1>4. ASSUME NEW o \in Owners, Crash(o) PROVE TokensIdentifyOwners'
  BY <1>4 DEF TokensIdentifyOwners, TypeOK, LeaseTypeOK, Crash
<1>5. ASSUME NEW r \in Rooms, Load(r) \/ FailCreate(r) \/ LoseLease(r) \/ Dispose(r)
      PROVE TokensIdentifyOwners'
  BY <1>0, <1>5 DEF Load, FailCreate, LoseLease, Dispose
<1>6. ASSUME NEW r \in Rooms, Handle(r) \/ HandleTimer(r) PROVE TokensIdentifyOwners'
  <2>1. ASSUME NEW c, Replay(r, c) \/ Propose(r, c)
        PROVE  lease' = lease /\ checkpoint' = checkpoint /\ token' = token
    BY <2>1 DEF Replay, Propose
  <2>2. lease' = lease /\ checkpoint' = checkpoint /\ token' = token
    BY <1>6, <2>1 DEF Handle, HandleTimer
  <2> QED
    BY <1>0, <2>2
<1>7. ASSUME NEW r \in Rooms, NEW p \in Players, Admit(r, p) PROVE TokensIdentifyOwners'
  BY <1>0, <1>7 DEF Admit
<1>8. ASSUME NEW r \in Rooms, CommitDuplicate(r) \/ CommitFails(r) \/ Apply(r) \/ ReplyLost(r)
      PROVE TokensIdentifyOwners'
  BY <1>0, <1>8 DEF CommitDuplicate, CommitFails, Apply, ReplyLost
<1>9. ASSUME NEW r \in Rooms, Renew(r) \/ Release(r) PROVE TokensIdentifyOwners'
  BY <1>0, <1>9 DEF Renew, renew, Release, ReleasedLease, TypeOK, LeaseTypeOK
<1>10. ASSUME Expire PROVE TokensIdentifyOwners'
  BY <1>0, <1>10 DEF Expire, LeaseLapses, TypeOK, LeaseTypeOK
<1>11. ASSUME UNCHANGED vars PROVE TokensIdentifyOwners'
  BY <1>0, <1>11 DEF vars
<1> QED
  BY <1>1, <1>2, <1>3, <1>4, <1>5, <1>6, <1>7, <1>8, <1>9, <1>10, <1>11 DEF Next

(* A fencing token names one owner for ever and the checkpoint follows the *)
(* lease, for any number of processes and rooms.                           *)
THEOREM TokensCorrect == Spec => []TokensIdentifyOwners
<1>1. Init => TokensIdentifyOwners
  BY DEF Init, LeaseInit, TokensIdentifyOwners
<1> QED
  BY <1>1, TypeCorrect, TokensStep, PTL DEF Spec
-----------------------------------------------------------------------------
(* The inductive invariant: what is durable, remembered, published and     *)
(* under way, read together.                                               *)
IInv ==
  /\ TypeOK
  /\ TokensIdentifyOwners
  /\ WorkInProgress
  /\ AppliedOnce
  /\ MemoryIsDurable
  /\ PublishedIsDurable

(* The compare-and-set of commit: its UPDATE matches only when the room    *)
(* that commits holds the current durable state, so the new state extends  *)
(* it by the one command.                                                  *)
LEMMA CommitExtendsCheckpoint ==
  ASSUME IInv, NEW r \in Rooms, Commit(r)
  PROVE  /\ mem[r] = checkpoint.state
         /\ Extends(checkpoint.state, work[r])
         /\ checkpoint.state \in Seq(Entry)
         /\ work[r].next \in Seq(Entry)
         /\ checkpoint'.state = work[r].next
<1>1. /\ mem[r] \in Seq(Entry)
      /\ checkpoint.state \in Seq(Entry)
      /\ work[r].next \in Seq(Entry)
  BY DEF IInv, TypeOK
<1>2. Extends(mem[r], work[r])
  BY DEF IInv, WorkInProgress, WorkOf, Commit
<1>3. Len(mem[r]) = Len(checkpoint.state)
  BY <1>2 DEF Extends, Commit, CommitPrecondition
<1>4. Prefix(mem[r], checkpoint.state)
  BY DEF IInv, MemoryIsDurable
<1>5. mem[r] = checkpoint.state
  BY <1>1, <1>3, <1>4, PrefixOfSameLength
<1>6. checkpoint'.state = work[r].next
  BY DEF Commit, IInv, TypeOK
<1> QED
  BY <1>1, <1>2, <1>5, <1>6

(* Only commit and initialize touch the durable game and its commands.     *)
LEMMA WritersOfTheGame ==
  ASSUME IInv, [Next]_vars
  PROVE  \/ \E r \in Rooms : Commit(r)
         \/ \E r \in Rooms : Initialize(r)
         \/ /\ checkpoint'.state = checkpoint.state
            /\ commands' = commands
            /\ proofs' = proofs
<1> USE DEF leaseVars, rowVars, roomVars
<1> DEFINE Kept == /\ checkpoint'.state = checkpoint.state
                   /\ commands' = commands
                   /\ proofs' = proofs
<1>1. ASSUME NEW r \in Rooms, Acquire(r) PROVE Kept
  BY <1>1 DEF Acquire, acquire, CheckpointTakenOver, IInv, TypeOK
<1>2. ASSUME NEW r \in Rooms, NEW c, Replay(r, c) \/ Propose(r, c) PROVE Kept
  BY <1>2 DEF Replay, Propose
<1>3. ASSUME NEW r \in Rooms, Handle(r) \/ HandleTimer(r) PROVE Kept
  BY <1>2, <1>3 DEF Handle, HandleTimer
<1>4. ASSUME NEW r \in Rooms, NEW p \in Players, Admit(r, p) PROVE Kept
  BY <1>4 DEF Admit
<1>5. ASSUME NEW r \in Rooms,
             \/ Load(r) \/ FailCreate(r) \/ CommitDuplicate(r) \/ CommitFails(r) \/ Apply(r)
             \/ ReplyLost(r) \/ Renew(r) \/ LoseLease(r) \/ Dispose(r) \/ Release(r)
      PROVE  Kept
  BY <1>5 DEF Load, FailCreate, CommitDuplicate, CommitFails, Apply, ReplyLost, Renew, renew,
              LoseLease, Dispose, Release
<1>6. ASSUME NEW o \in Owners, Crash(o) PROVE Kept
  BY <1>6 DEF Crash
<1>7. ASSUME Expire \/ UNCHANGED vars PROVE Kept
  BY <1>7 DEF Expire, LeaseLapses, vars
<1> QED
  BY <1>1, <1>3, <1>4, <1>5, <1>6, <1>7 DEF Next

(* Whatever step is taken, the durable history is kept or extended.        *)
LEMMA CheckpointGrows ==
  ASSUME IInv, [Next]_vars
  PROVE  Prefix(checkpoint.state, checkpoint'.state)
<1>0. checkpoint.state \in Seq(Entry)
  BY DEF IInv, TypeOK
<1>1. CASE checkpoint'.state = checkpoint.state
  BY <1>0, <1>1, PrefixReflexive
<1>2. ASSUME NEW r \in Rooms, Commit(r) PROVE Prefix(checkpoint.state, checkpoint'.state)
  BY <1>2, CommitExtendsCheckpoint DEF Extends
<1>3. ASSUME NEW r \in Rooms, Initialize(r) PROVE Prefix(checkpoint.state, checkpoint'.state)
  <2>1. checkpoint.state = <<>> /\ checkpoint'.state \in Seq(Entry)
    BY <1>3, TypeStep DEF Initialize, IInv, TypeOK
  <2> QED
    BY <2>1, EmptyPrefix
<1> QED
  BY <1>1, <1>2, <1>3, WritersOfTheGame

(* A command that commits is new to the durable history: its row was       *)
(* looked up in the same transaction.                                      *)
LEMMA AppliedOnceStep ==
  ASSUME IInv, [Next]_vars
  PROVE  AppliedOnce'
<1>1. ASSUME checkpoint'.state = checkpoint.state, commands' = commands PROVE AppliedOnce'
  BY <1>1 DEF IInv, AppliedOnce, RowAt
<1>2. ASSUME NEW r \in Rooms, Initialize(r) PROVE AppliedOnce'
  <2>1. commands = {}
    BY <1>2 DEF Initialize, IInv, AppliedOnce
  <2>2. commands' = {} /\ Len(checkpoint'.state) = 1
    BY <1>2, <2>1 DEF Initialize, rowVars
  <2> QED
    BY <2>2 DEF AppliedOnce
<1>3. ASSUME NEW r \in Rooms, Commit(r) PROVE AppliedOnce'
  <2> DEFINE s == checkpoint.state
             t == work[r].next
             n == Len(s)
             c == work[r].cmd
  <2>1. /\ checkpoint'.state = t
        /\ s \in Seq(Entry) /\ t \in Seq(Entry) /\ n \in Nat
        /\ n >= 1 /\ Len(t) = n + 1
        /\ \A i \in 1 .. n : t[i] = s[i]
        /\ RowAt(t, n + 1) = CommandRow(c)
    BY <1>3, CommitExtendsCheckpoint DEF Extends, Prefix
  <2>2. commands = {RowAt(s, i) : i \in 2 .. n} /\ StoredCommand(c) = {}
        /\ commands' = commands \cup {CommandRow(c)}
    BY <1>3 DEF IInv, AppliedOnce, Commit
  <2>3. \A i \in 2 .. n : RowAt(t, i) = RowAt(s, i)
    BY <2>1, SMTT(30) DEF RowAt
  <2>4. 2 .. Len(t) = (2 .. n) \cup {n + 1}
    BY <2>1
  <2>5. commands' = {RowAt(t, i) : i \in 2 .. Len(t)}
    BY <2>1, <2>2, <2>3, <2>4
  <2>6. t[n + 1].actor = c.actor /\ t[n + 1].request = c.request
    BY <2>1 DEF RowAt, CommandRow
  <2>7. \A i \in 2 .. n : ~(t[i].actor = c.actor /\ t[i].request = c.request)
    <3> SUFFICES ASSUME NEW i \in 2 .. n, t[i].actor = c.actor, t[i].request = c.request
                 PROVE  FALSE
      OBVIOUS
    <3>1. RowAt(s, i) \in commands /\ t[i] = s[i]
      BY <2>1, <2>2
    <3>2. RowAt(s, i).actor = c.actor /\ RowAt(s, i).request = c.request
      BY <3>1 DEF RowAt
    <3> QED
      BY <2>2, <3>1, <3>2 DEF StoredCommand
  <2>8. \A i, j \in 2 .. n : (t[i].actor = t[j].actor /\ t[i].request = t[j].request) => i = j
    <3>1. \A i, j \in 2 .. n : (s[i].actor = s[j].actor /\ s[i].request = s[j].request) => i = j
      BY DEF IInv, AppliedOnce
    <3>2. \A i \in 2 .. n : t[i] = s[i]
      BY <2>1
    <3> QED
      BY <3>1, <3>2
  <2>9. \A i, j \in 2 .. Len(t) :
          (t[i].actor = t[j].actor /\ t[i].request = t[j].request) => i = j
    BY <2>4, <2>6, <2>7, <2>8, SMTT(30)
  <2> QED
    BY <2>1, <2>5, <2>9 DEF AppliedOnce
<1> QED
  BY <1>1, <1>2, <1>3, WritersOfTheGame
(* What a room remembers stays in the durable history.                     *)
LEMMA MemoryStep ==
  ASSUME IInv, [Next]_vars
  PROVE  MemoryIsDurable'
<1> USE DEF leaseVars, rowVars, roomVars, SetPhase
<1>0. /\ checkpoint.state \in Seq(Entry) /\ checkpoint'.state \in Seq(Entry)
      /\ mem \in [Rooms -> Seq(Entry)]
      /\ work \in [Rooms -> WorkType]
  BY TypeStep DEF IInv, TypeOK, WorkType
<1> SUFFICES ASSUME NEW q \in Rooms PROVE Prefix(mem'[q], checkpoint'.state)
  BY DEF MemoryIsDurable
<1>1. ASSUME mem'[q] = mem[q] PROVE Prefix(mem'[q], checkpoint'.state)
  BY <1>0, <1>1, CheckpointGrows, PrefixTransitive DEF IInv, MemoryIsDurable
<1>2. ASSUME NEW r \in Rooms, Load(r) PROVE Prefix(mem'[q], checkpoint'.state)
  <2>1. mem'[q] \in {mem[q], checkpoint'.state}
    BY <1>0, <1>2 DEF Load
  <2> QED
    BY <1>0, <1>1, <2>1, PrefixReflexive
<1>3. ASSUME NEW r \in Rooms, Initialize(r) PROVE Prefix(mem'[q], checkpoint'.state)
  <2>1. mem'[q] \in {mem[q], checkpoint'.state}
    BY <1>0, <1>3 DEF Initialize
  <2> QED
    BY <1>0, <1>1, <2>1, PrefixReflexive
<1>4. ASSUME NEW r \in Rooms, Apply(r) PROVE Prefix(mem'[q], checkpoint'.state)
  <2>1. \/ mem'[q] = mem[q]
        \/ mem'[q] = work[q].next /\ work[q].stage = "reply" /\ checkpoint' = checkpoint
    BY <1>0, <1>4 DEF Apply
  <2> QED
    BY <1>1, <2>1 DEF IInv, WorkInProgress, WorkOf
<1>5. ASSUME NEW o \in Owners, Crash(o) PROVE Prefix(mem'[q], checkpoint'.state)
  <2>1. mem'[q] \in {mem[q], <<>>}
    BY <1>5 DEF Crash
  <2> QED
    BY <1>0, <1>1, <2>1, EmptyPrefix
<1>6. ASSUME NEW r \in Rooms, NEW c, Replay(r, c) \/ Propose(r, c) PROVE mem' = mem
  BY <1>6 DEF Replay, Propose
<1>7. ASSUME NEW r \in Rooms, Handle(r) \/ HandleTimer(r) PROVE mem' = mem
  BY <1>6, <1>7 DEF Handle, HandleTimer
<1>8. ASSUME NEW r \in Rooms, NEW p \in Players, Admit(r, p) PROVE mem' = mem
  BY <1>8 DEF Admit
<1>9. ASSUME NEW r \in Rooms,
             \/ Acquire(r) \/ FailCreate(r) \/ Commit(r) \/ CommitDuplicate(r) \/ CommitFails(r)
             \/ ReplyLost(r) \/ Renew(r) \/ LoseLease(r) \/ Dispose(r) \/ Release(r)
      PROVE  mem' = mem
  BY <1>9 DEF Acquire, FailCreate, Commit, CommitDuplicate, CommitFails, ReplyLost, Renew,
              LoseLease, Dispose, Release
<1>10. ASSUME Expire \/ UNCHANGED vars PROVE mem' = mem
  BY <1>10 DEF Expire, vars
<1> QED
  BY <1>1, <1>2, <1>3, <1>4, <1>5, <1>7, <1>8, <1>9, <1>10 DEF Next

(* An outcome of a history is an outcome of every longer one.              *)
LEMMA RowStays ==
  ASSUME NEW s \in Seq(Entry), NEW t \in Seq(Entry), Prefix(s, t), NEW i \in 2 .. Len(s)
  PROVE  i \in 2 .. Len(t) /\ RowAt(t, i) = RowAt(s, i)
BY DEF Prefix, RowAt

(* What clients are told is read from a committed row or from the reply to *)
(* a commit, never from what a room merely proposes.                       *)
LEMMA Publications ==
  ASSUME IInv, [Next]_vars
  PROVE  \/ published' = published
         \/ /\ checkpoint' = checkpoint
            /\ \E row : Durable(row) /\ published' = published \cup {row}
<1> USE DEF leaseVars, rowVars, roomVars
<1> DEFINE Goal == \/ published' = published
                   \/ /\ checkpoint' = checkpoint
                      /\ \E row : Durable(row) /\ published' = published \cup {row}
<1>0. checkpoint.state \in Seq(Entry)
  BY DEF IInv, TypeOK
<1>2. \A row \in commands : Durable(row)
  <2> SUFFICES ASSUME NEW row \in commands PROVE Durable(row)
    OBVIOUS
  <2>1. PICK i \in 2 .. Len(checkpoint.state) : row = RowAt(checkpoint.state, i)
    BY DEF IInv, AppliedOnce
  <2>2. row.version = i
    BY <2>1 DEF RowAt
  <2> QED
    BY <2>1, <2>2 DEF Durable
<1>3. ASSUME NEW r \in Rooms, NEW c, Replay(r, c) PROVE Goal
  BY <1>2, <1>3 DEF Replay, StoredCommand
<1>4. ASSUME NEW r \in Rooms, NEW c, Propose(r, c) PROVE Goal
  BY <1>4 DEF Propose
<1>5. ASSUME NEW r \in Rooms, Handle(r) \/ HandleTimer(r) PROVE Goal
  BY <1>3, <1>4, <1>5 DEF Handle, HandleTimer
<1>6. ASSUME NEW r \in Rooms, CommitDuplicate(r) PROVE Goal
  BY <1>2, <1>6 DEF CommitDuplicate, StoredCommand
<1>7. ASSUME NEW r \in Rooms, Apply(r) PROVE Goal
  <2> DEFINE n == Len(mem[r]) + 1
  <2>1. /\ Extends(mem[r], work[r]) /\ Prefix(work[r].next, checkpoint.state)
        /\ mem[r] \in Seq(Entry) /\ work[r].next \in Seq(Entry)
    BY <1>7 DEF Apply, IInv, WorkInProgress, WorkOf, TypeOK
  <2>2. n \in 2 .. Len(work[r].next) /\ RowAt(work[r].next, n) = CommandRow(work[r].cmd)
    BY <2>1 DEF Extends
  <2>3. n \in 2 .. Len(checkpoint.state) /\ RowAt(checkpoint.state, n) = CommandRow(work[r].cmd)
    BY <1>0, <2>1, <2>2, RowStays
  <2>4. CommandRow(work[r].cmd).version = n
    BY <2>3 DEF RowAt
  <2>5. Durable(CommandRow(work[r].cmd))
    BY <2>3, <2>4 DEF Durable
  <2> QED
    BY <1>7, <2>5 DEF Apply
<1>8. ASSUME NEW r \in Rooms, NEW p \in Players, Admit(r, p) PROVE Goal
  BY <1>8 DEF Admit
<1>9. ASSUME NEW r \in Rooms,
             \/ Acquire(r) \/ Load(r) \/ Initialize(r) \/ FailCreate(r) \/ Commit(r)
             \/ CommitFails(r) \/ ReplyLost(r) \/ Renew(r) \/ LoseLease(r) \/ Dispose(r)
             \/ Release(r)
      PROVE  Goal
  BY <1>9 DEF Acquire, Load, Initialize, FailCreate, Commit, CommitFails, ReplyLost, Renew,
              LoseLease, Dispose, Release
<1>10. ASSUME NEW o \in Owners, Crash(o) PROVE Goal
  BY <1>10 DEF Crash
<1>11. ASSUME Expire \/ UNCHANGED vars PROVE Goal
  BY <1>11 DEF Expire, vars
<1> HIDE DEF Goal
<1>12. Goal
  BY <1>5, <1>6, <1>7, <1>8, <1>9, <1>10, <1>11 DEF Next
<1> QED
  BY <1>12 DEF Goal

LEMMA PublishedStep ==
  ASSUME IInv, [Next]_vars
  PROVE  PublishedIsDurable'
<1>0. /\ checkpoint.state \in Seq(Entry) /\ checkpoint'.state \in Seq(Entry)
      /\ Prefix(checkpoint.state, checkpoint'.state)
  BY TypeStep, CheckpointGrows DEF IInv, TypeOK
<1>1. \A row \in published' : Durable(row)
  BY Publications DEF IInv, PublishedIsDurable
<1>2. ASSUME NEW row \in published' PROVE Durable(row)'
  BY <1>0, <1>1, RowStays DEF Durable
<1> QED
  BY <1>2 DEF PublishedIsDurable

(* A transition appends one entry for its command and moves the game       *)
(* forward.                                                                *)
LEMMA ProposalExtends ==
  ASSUME NEW s \in Seq(Entry), s # <<>>, NEW c \in Command,
         NEW l \in Lifecycles, NEW seats \in SUBSET Players, transition(s, c, l, seats),
         NEW w, w.cmd = c,
         w.next = Append(s, [actor |-> c.actor, request |-> c.request, type |-> c.type,
                             lifecycle |-> l, seats |-> seats])
  PROVE  Extends(s, w) /\ Log!Forward(Lifecycle(s), Lifecycle(w.next))
<1> DEFINE e == [actor |-> c.actor, request |-> c.request, type |-> c.type,
                 lifecycle |-> l, seats |-> seats]
<1>1. e \in Entry
  BY EntryType
<1>2. /\ Len(w.next) = Len(s) + 1 /\ Len(s) \in Nat
      /\ w.next[Len(s) + 1] = e
      /\ \A i \in 1 .. Len(s) : w.next[i] = s[i]
  BY <1>1
<1>3. w.cmd.expected = Len(s)
  BY DEF transition
<1>4. Prefix(s, w.next)
  BY <1>2 DEF Prefix
<1>5. RowAt(w.next, Len(s) + 1) = CommandRow(w.cmd)
  BY <1>2, <1>3 DEF RowAt, CommandRow
<1>6. Lifecycle(w.next) = l
  BY <1>2 DEF Lifecycle
<1>7. Log!Forward(Lifecycle(s), l)
  BY DEF transition, GameplayAllowed, Log!Forward
<1> QED
  BY <1>2, <1>3, <1>4, <1>5, <1>6, <1>7 DEF Extends

(* Work under way keeps its meaning.                                       *)
LEMMA WorkStep ==
  ASSUME IInv, [Next]_vars
  PROVE  WorkInProgress'
<1> USE DEF leaseVars, rowVars, roomVars, SetPhase
<1>0. /\ checkpoint.state \in Seq(Entry) /\ checkpoint'.state \in Seq(Entry)
      /\ mem \in [Rooms -> Seq(Entry)] /\ phase \in [Rooms -> Phases]
      /\ work \in [Rooms -> WorkType]
      /\ Prefix(checkpoint.state, checkpoint'.state)
      /\ \A r \in Rooms : WorkOf(r)
  BY TypeStep, CheckpointGrows DEF IInv, TypeOK, WorkType, WorkInProgress
<1> SUFFICES ASSUME NEW q \in Rooms PROVE WorkOf(q)'
  BY DEF WorkInProgress
<1>01. /\ WorkOf(q)
       /\ work[q].next \in Seq(Entry)
       /\ work[q].stage \in {"idle", "commit", "reply"}
  BY <1>0 DEF WorkType
<1>1. ASSUME phase'[q] = phase[q], mem'[q] = mem[q], work'[q] = work[q] PROVE WorkOf(q)'
  <2>1. work[q].stage = "reply" => Prefix(work[q].next, checkpoint'.state)
    BY <1>0, <1>01, PrefixTransitive DEF WorkOf
  <2> QED
    BY <1>01, <1>1, <2>1 DEF WorkOf
<1>2. ASSUME work'[q].stage = "idle", mem'[q] = mem[q], phase'[q] = phase[q] PROVE WorkOf(q)'
  BY <1>01, <1>2 DEF WorkOf
<1>3. ASSUME NEW r \in Rooms, Acquire(r) PROVE WorkOf(q)'
  BY <1>0, <1>01, <1>1, <1>3 DEF Acquire, WorkOf, Extends
<1>4. ASSUME NEW r \in Rooms, Load(r) PROVE WorkOf(q)'
  <2>1. CASE q # r
    BY <1>0, <1>1, <1>4, <2>1 DEF Load
  <2>2. CASE q = r
    <3>1. work'[q].stage = "idle" /\ mem[q] = <<>>
      BY <1>0, <1>01, <1>4, <2>2 DEF Load, WorkOf, Extends
    <3>2. \/ phase'[q] = "serving" /\ mem'[q] # <<>>
          \/ phase'[q] = "empty" /\ mem'[q] = <<>>
      BY <1>0, <1>4, <2>2, <3>1 DEF Load
    <3> QED
      BY <3>1, <3>2 DEF WorkOf
  <2> QED
    BY <2>1, <2>2
<1>5. ASSUME NEW r \in Rooms, Initialize(r) PROVE WorkOf(q)'
  <2>1. CASE q # r
    BY <1>0, <1>1, <1>5, <2>1 DEF Initialize
  <2>2. CASE q = r
    <3>1. work'[q].stage = "idle"
      BY <1>0, <1>01, <1>5, <2>2 DEF Initialize, WorkOf, Extends
    <3>2. phase'[q] = "serving" /\ mem'[q] # <<>>
      BY <1>0, <1>5, <2>2 DEF Initialize
    <3> QED
      BY <3>1, <3>2 DEF WorkOf
  <2> QED
    BY <2>1, <2>2
<1>6. ASSUME NEW r \in Rooms, FailCreate(r) \/ LoseLease(r) \/ Dispose(r) \/ Release(r)
      PROVE  WorkOf(q)'
  <2>1. CASE q # r
    BY <1>0, <1>1, <1>6, <2>1 DEF FailCreate, LoseLease, Dispose, Release
  <2>2. CASE q = r
    <3>1. /\ work'[q] = work[q] /\ mem'[q] = mem[q] /\ checkpoint' = checkpoint
          /\ \/ phase'[q] \in {"disposing", "disposed"}
             \/ phase'[q] = "lost" /\ phase[q] = "serving"
      BY <1>0, <1>6, <2>2 DEF FailCreate, LoseLease, Dispose, Release
    <3> QED
      BY <1>01, <3>1 DEF WorkOf
  <2> QED
    BY <2>1, <2>2
<1>7. ASSUME NEW r \in Rooms, NEW c \in Command, Propose(r, c) PROVE WorkOf(q)'
  <2>1. CASE q # r
    BY <1>0, <1>1, <1>7, <2>1 DEF Propose
  <2>2. CASE q = r
    <3>1. PICK l \in Lifecycles, seats \in SUBSET Players :
            /\ transition(mem[q], c, l, seats)
            /\ work'[q] = [stage |-> "commit", admission |-> FALSE, cmd |-> c,
                 next |-> Append(mem[q], [actor |-> c.actor, request |-> c.request,
                                      type |-> c.type, lifecycle |-> l, seats |-> seats])]
      BY <1>0, <1>7, <2>2 DEF Propose
    <3>2. mem[q] # <<>> /\ mem[q] \in Seq(Entry) /\ mem'[q] = mem[q] /\ phase'[q] = phase[q]
      BY <1>0, <1>7, <2>2 DEF Propose, Running
    <3>3. /\ work'[q].stage = "commit"
          /\ work'[q].cmd = c
          /\ work'[q].next = Append(mem[q], [actor |-> c.actor, request |-> c.request,
                                type |-> c.type, lifecycle |-> l, seats |-> seats])
      BY <3>1
    <3>4. Extends(mem[q], work'[q])
          /\ Log!Forward(Lifecycle(mem[q]), Lifecycle(work'[q].next))
      BY <1>7, <3>1, <3>2, <3>3, ProposalExtends
    <3> QED
      BY <1>01, <3>2, <3>3, <3>4 DEF WorkOf
  <2> QED
    BY <2>1, <2>2
<1>8. ASSUME NEW r \in Rooms, NEW c, Replay(r, c) PROVE WorkOf(q)'
  BY <1>1, <1>8 DEF Replay
<1>9. ASSUME NEW r \in Rooms, Handle(r) PROVE WorkOf(q)'
  BY <1>7, <1>8, <1>9, CommandType DEF Handle
<1>10. ASSUME NEW r \in Rooms, HandleTimer(r) PROVE WorkOf(q)'
  <2>1. ASSUME Propose(r, TimerCommand(r)) PROVE Len(mem[r]) \in 0 .. MaxVersion
    BY <1>0, <2>1, BoundsAssumption DEF Propose, transition
  <2> QED
    BY <1>7, <1>8, <1>10, <2>1, CommandType DEF HandleTimer
<1>11. ASSUME NEW r \in Rooms, NEW p \in Players, Admit(r, p) PROVE WorkOf(q)'
  <2>1. CASE q # r
    BY <1>0, <1>1, <1>11, <2>1 DEF Admit
  <2>2. CASE q = r
    <3> DEFINE c == [actor |-> p, request |-> p, type |-> "joinGame", expected |-> Len(mem[q])]
    <3>1. PICK seats \in SUBSET Players :
            /\ transition(mem[q], c, "waiting", seats)
            /\ work'[q] = [stage |-> "commit", admission |-> TRUE, cmd |-> c,
                 next |-> Append(mem[q], [actor |-> p, request |-> p, type |-> "joinGame",
                                      lifecycle |-> "waiting", seats |-> seats])]
      BY <1>0, <1>11, <2>2 DEF Admit
    <3>2. mem[q] # <<>> /\ mem[q] \in Seq(Entry) /\ mem'[q] = mem[q] /\ phase'[q] = phase[q]
      BY <1>0, <1>11, <2>2 DEF Admit, Running
    <3>3. c \in Command /\ "waiting" \in Lifecycles
      BY <3>2, CommandType DEF Lifecycles
    <3>4. c.actor = p /\ c.request = p /\ c.type = "joinGame"
      OBVIOUS
    <3>5. work'[q].cmd = c /\ work'[q].next = Append(mem[q], [actor |-> c.actor,
            request |-> c.request, type |-> c.type, lifecycle |-> "waiting", seats |-> seats])
      BY <3>1
    <3>6. work'[q].stage = "commit"
      BY <3>1
    <3> HIDE DEF c
    <3>7. Extends(mem[q], work'[q])
          /\ Log!Forward(Lifecycle(mem[q]), Lifecycle(work'[q].next))
      BY <3>1, <3>2, <3>3, <3>5, ProposalExtends
    <3> QED
      BY <1>01, <3>2, <3>6, <3>7 DEF WorkOf
  <2> QED
    BY <2>1, <2>2
<1>12. ASSUME NEW r \in Rooms, Commit(r) PROVE WorkOf(q)'
  <2>1. CASE q # r
    BY <1>0, <1>1, <1>12, <2>1 DEF Commit
  <2>2. CASE q = r
    <3>1. /\ work'[q] = [work[q] EXCEPT !.stage = "reply"]
          /\ mem'[q] = mem[q] /\ phase'[q] = phase[q]
          /\ work[q].stage = "commit"
      BY <1>0, <1>12, <2>2 DEF Commit
    <3>2. /\ work'[q].stage = "reply" /\ work'[q].next = work[q].next
          /\ work'[q].cmd = work[q].cmd
      BY <1>0, <3>1 DEF WorkType
    <3>3. Prefix(work'[q].next, checkpoint'.state)
      BY <1>12, <2>2, <3>2, CommitExtendsCheckpoint, PrefixReflexive
    <3>4. Extends(mem[q], work'[q])
      BY <1>01, <3>1, <3>2 DEF WorkOf, Extends
    <3> QED
      BY <1>01, <3>1, <3>2, <3>3, <3>4 DEF WorkOf
  <2> QED
    BY <2>1, <2>2
<1>13. ASSUME NEW r \in Rooms, CommitDuplicate(r) \/ CommitFails(r) \/ ReplyLost(r)
       PROVE  WorkOf(q)'
  <2>1. /\ mem'[q] = mem[q] /\ phase'[q] = phase[q]
        /\ work'[q] = work[q] \/ work'[q].stage = "idle"
    BY <1>0, <1>13 DEF CommitDuplicate, CommitFails, ReplyLost, Idle
  <2> QED
    BY <1>1, <1>2, <2>1
<1>14. ASSUME NEW r \in Rooms, Apply(r) PROVE WorkOf(q)'
  <2>1. CASE q # r
    BY <1>0, <1>1, <1>14, <2>1 DEF Apply
  <2>2. CASE q = r
    <3>1. /\ work'[q].stage = "idle" /\ mem'[q] = work[q].next /\ phase'[q] = phase[q]
          /\ Extends(mem[q], work[q])
      BY <1>0, <1>01, <1>14, <2>2 DEF Apply, Idle, WorkOf
    <3>2. mem[q] # <<>> /\ mem'[q] # <<>>
      BY <1>0, <3>1 DEF Extends
    <3> QED
      BY <1>01, <3>1, <3>2 DEF WorkOf
  <2> QED
    BY <2>1, <2>2
<1>15. ASSUME NEW o \in Owners, Crash(o) PROVE WorkOf(q)'
  <2>1. \/ work'[q] = work[q] /\ mem'[q] = mem[q] /\ phase'[q] = phase[q]
        \/ work'[q].stage = "idle" /\ phase'[q] = "disposed"
    BY <1>15 DEF Crash, Idle
  <2> QED
    BY <1>1, <2>1 DEF WorkOf
<1>16. ASSUME Expire \/ UNCHANGED vars \/ (\E r \in Rooms : Renew(r)) PROVE WorkOf(q)'
  BY <1>1, <1>16 DEF Expire, vars, Renew
<1> QED
  BY <1>3, <1>4, <1>5, <1>6, <1>9, <1>10, <1>11, <1>12, <1>13, <1>14, <1>15, <1>16 DEF Next

LEMMA IInvInit == Init => IInv
<1> SUFFICES ASSUME Init PROVE IInv
  OBVIOUS
<1>1. TypeOK
  BY TypeInit
<1>2. TokensIdentifyOwners /\ AppliedOnce /\ PublishedIsDurable
  BY DEF Init, LeaseInit, TokensIdentifyOwners, AppliedOnce, PublishedIsDurable
<1>3. WorkInProgress
  BY DEF Init, WorkInProgress, WorkOf, Idle
<1>4. MemoryIsDurable
  <2>1. checkpoint.state = <<>> /\ \A r \in Rooms : mem[r] = <<>>
    BY DEF Init, LeaseInit
  <2>2. \A r \in Rooms : Prefix(mem[r], checkpoint.state)
    BY <2>1 DEF Prefix
  <2> QED
    BY <2>2 DEF MemoryIsDurable
<1> QED
  BY <1>1, <1>2, <1>3, <1>4 DEF IInv

(* The conjunction is inductive.                                           *)
THEOREM Inductive == Spec => []IInv
<1>1. IInv /\ [Next]_vars => IInv'
  BY TypeStep, TokensStep, WorkStep, AppliedOnceStep, MemoryStep, PublishedStep DEF IInv
<1> QED
  BY <1>1, IInvInit, PTL DEF Spec

(* Idempotency: for any number of processes, rooms and retries, no request *)
(* of an actor is applied twice and room_commands is exactly the history   *)
(* of the checkpoint.                                                      *)
THEOREM AppliedOnceCorrect == Spec => []AppliedOnce
<1>1. IInv => AppliedOnce
  BY DEF IInv
<1> QED
  BY <1>1, Inductive, PTL

(* No room ever holds a state that is not in the durable history.          *)
THEOREM MemoryCorrect == Spec => []MemoryIsDurable
<1>1. IInv => MemoryIsDurable
  BY DEF IInv
<1> QED
  BY <1>1, Inductive, PTL

(* Whatever clients were told survives crashes and takeovers.              *)
THEOREM PublishedCorrect == Spec => []PublishedIsDurable
<1>1. IInv => PublishedIsDurable
  BY DEF IInv
<1> QED
  BY <1>1, Inductive, PTL
-----------------------------------------------------------------------------
(* A game that is over accepts no command: transition moves only waiting   *)
(* and running games forward.                                              *)
LEMMA OverIsKept ==
  ASSUME IInv, [Next]_vars, Over(checkpoint.state)
  PROVE  checkpoint'.state = checkpoint.state
<1>1. ASSUME NEW r \in Rooms, Commit(r) PROVE FALSE
  <2>1. Log!Forward(Lifecycle(mem[r]), Lifecycle(work[r].next))
    BY <1>1 DEF Commit, IInv, WorkInProgress, WorkOf
  <2>2. mem[r] = checkpoint.state
    BY <1>1, CommitExtendsCheckpoint
  <2>3. Lifecycle(mem[r]) \in {"waiting", "inProgress"}
    BY <2>1 DEF Log!Forward
  <2> QED
    BY <2>2, <2>3 DEF Over
<1>2. ASSUME NEW r \in Rooms, Initialize(r) PROVE FALSE
  BY <1>2 DEF Initialize, Over
<1> QED
  BY <1>1, <1>2, WritersOfTheGame

(* Durable history is append-only and stops when the game is over, for any *)
(* number of writers.                                                      *)
THEOREM HistoryCorrect == Spec => HistoryOnlyGrows
<1>1. IInv /\ [Next]_vars =>
        [/\ Prefix(checkpoint.state, checkpoint'.state)
         /\ Over(checkpoint.state) => checkpoint'.state = checkpoint.state]_vars
  BY CheckpointGrows, OverIsKept
<1> QED
  BY <1>1, Inductive, PTL DEF Spec, HistoryOnlyGrows

-----------------------------------------------------------------------------
(* Fencing: the token comparison of assertOwned stops a room whose lease   *)
(* was taken over, whatever its clock says.                                *)
LEMMA FencedStep ==
  ASSUME TypeOK, [Next]_vars, NEW q \in Rooms, FencedOut(q)
  PROVE  /\ work'[q].stage = "reply" => work[q].stage = "reply"
         /\ (work[q].stage # "reply" /\ OwnerOf[q] \in up') => mem'[q] = mem[q]
<1> USE DEF leaseVars, rowVars, roomVars
<1> DEFINE Goal == /\ work'[q].stage = "reply" => work[q].stage = "reply"
                   /\ (work[q].stage # "reply" /\ OwnerOf[q] \in up') => mem'[q] = mem[q]
<1>0. /\ work \in [Rooms -> WorkType] /\ mem \in [Rooms -> Seq(Entry)]
      /\ token \in [Rooms -> Nat] /\ lease.token \in Nat
      /\ token[q] < lease.token
  BY DEF TypeOK, LeaseTypeOK, WorkType, FencedOut
<1>1. ASSUME NEW r \in Rooms, AssertOwned(OwnerOf[r], token[r], TRUE) PROVE r # q
  BY <1>0, <1>1 DEF AssertOwned
<1>2. ASSUME mem'[q] = mem[q], work'[q] = work[q] \/ work'[q].stage # "reply" PROVE Goal
  BY <1>2
<1>3. ASSUME NEW r \in Rooms, Load(r) \/ Initialize(r) PROVE Goal
  <2>1. r # q
    BY <1>1, <1>3 DEF Load, Initialize, AssertOwned
  <2> QED
    BY <1>0, <1>2, <1>3, <2>1 DEF Load, Initialize
<1>4. ASSUME NEW r \in Rooms, NEW c, Replay(r, c) \/ Propose(r, c) PROVE Goal
  <2>1. r # q
    BY <1>1, <1>4 DEF Replay, Propose
  <2> QED
    BY <1>0, <1>2, <1>4, <2>1 DEF Replay, Propose
<1>5. ASSUME NEW r \in Rooms, Handle(r) \/ HandleTimer(r) PROVE Goal
  BY <1>4, <1>5 DEF Handle, HandleTimer
<1>6. ASSUME NEW r \in Rooms, NEW p \in Players, Admit(r, p) PROVE Goal
  <2>1. r # q
    BY <1>1, <1>6 DEF Admit, AssertOwned
  <2> QED
    BY <1>0, <1>2, <1>6, <2>1 DEF Admit
<1>7. ASSUME NEW r \in Rooms, Commit(r) PROVE Goal
  <2>1. r # q
    BY <1>1, <1>7 DEF Commit, CommitPrecondition, OwnedAtCommit, AssertOwned
  <2> QED
    BY <1>0, <1>2, <1>7, <2>1 DEF Commit
<1>8. ASSUME NEW r \in Rooms, CommitDuplicate(r) \/ CommitFails(r) \/ ReplyLost(r) PROVE Goal
  BY <1>0, <1>2, <1>8 DEF CommitDuplicate, CommitFails, ReplyLost, Idle
<1>9. ASSUME NEW r \in Rooms, Apply(r) PROVE Goal
  BY <1>0, <1>9 DEF Apply, Idle
<1>10. ASSUME NEW r \in Rooms,
              \/ Acquire(r) \/ FailCreate(r) \/ Renew(r) \/ LoseLease(r) \/ Dispose(r)
              \/ Release(r)
       PROVE  mem' = mem /\ work' = work
  BY <1>10 DEF Acquire, FailCreate, Renew, LoseLease, Dispose, Release
<1>11. ASSUME NEW o \in Owners, Crash(o) PROVE Goal
  BY <1>11 DEF Crash, Idle
<1>12. ASSUME Expire \/ UNCHANGED vars PROVE mem' = mem /\ work' = work
  BY <1>12 DEF Expire, vars
<1>13. ASSUME mem' = mem, work' = work PROVE Goal
  BY <1>13
<1> HIDE DEF Goal
<1>14. Goal
  BY <1>3, <1>5, <1>6, <1>7, <1>8, <1>9, <1>10, <1>11, <1>12, <1>13 DEF Next
<1> QED
  BY <1>14 DEF Goal

(* A room whose lease another owner took over is frozen, for ever and for  *)
(* any number of rooms.                                                    *)
THEOREM FencingCorrect == Spec => FencedRoomIsFrozen
<1>1. TypeOK /\ [Next]_vars =>
        [\A r \in Rooms : FencedOut(r) =>
          /\ work'[r].stage = "reply" => work[r].stage = "reply"
          /\ (work[r].stage # "reply" /\ OwnerOf[r] \in up') => mem'[r] = mem[r]]_vars
  BY FencedStep
<1> QED
  BY <1>1, TypeCorrect, PTL DEF Spec, FencedRoomIsFrozen
-----------------------------------------------------------------------------
(* The rooms implement the command log.                                    *)
LEMMA LogStep ==
  ASSUME IInv, [Next]_vars
  PROVE  [Log!LogNext]_(Log!logVars)
<1>0. checkpoint.state \in Seq(Entry)
  BY DEF IInv, TypeOK
<1>1. ASSUME NEW r \in Rooms, Commit(r) PROVE Log!LogNext
  <2> DEFINE s == checkpoint.state
             t == work[r].next
             n == Len(s)
             e == t[n + 1]
  <2>1. /\ checkpoint'.state = t
        /\ s \in Seq(Entry) /\ t \in Seq(Entry) /\ n \in Nat
        /\ s # <<>> /\ n >= 1 /\ Len(t) = n + 1
        /\ \A i \in 1 .. n : t[i] = s[i]
    BY <1>1, CommitExtendsCheckpoint DEF Extends, Prefix
  <2>2. e \in Entry
    BY <2>1
  <2>3. t = Append(s, e)
    BY <2>1, <2>2, SeqEqual
  <2>4. \A i, j \in 2 .. Len(t) :
          (t[i].actor = t[j].actor /\ t[i].request = t[j].request) => i = j
    BY <2>1, AppliedOnceStep DEF AppliedOnce
  <2>5. \A i \in 2 .. Len(s) : <<s[i].actor, s[i].request>> # <<e.actor, e.request>>
    <3> SUFFICES ASSUME NEW i \in 2 .. Len(s), s[i].actor = e.actor, s[i].request = e.request
                 PROVE  FALSE
      OBVIOUS
    <3>1. /\ i \in 2 .. Len(t) /\ n + 1 \in 2 .. Len(t) /\ i # n + 1
          /\ t[i] = s[i]
      BY <2>1
    <3> QED
      BY <2>4, <3>1
  <2>6. Log!Forward(s[Len(s)].lifecycle, e.lifecycle)
    <3>1. Log!Forward(Lifecycle(mem[r]), Lifecycle(t)) /\ mem[r] = s
      BY <1>1, CommitExtendsCheckpoint DEF Commit, IInv, WorkInProgress, WorkOf
    <3> QED
      BY <2>1, <3>1 DEF Lifecycle
  <2>7. published' = published
    BY <1>1 DEF Commit
  <2>8. Log!AppendEntry(e)
    BY <2>1, <2>3, <2>5, <2>6, <2>7 DEF Log!AppendEntry
  <2>9. checkpoint'.state # checkpoint.state
    BY <2>1
  <2> HIDE DEF e
  <2> QED
    BY <2>2, <2>8, <2>9 DEF Log!LogNext
<1>2. ASSUME NEW r \in Rooms, Initialize(r) PROVE Log!LogNext
  <2>1. PICK seats \in SUBSET Players :
          checkpoint' = [token |-> token[r],
                         state |-> <<[actor |-> Creator, request |-> r, type |-> "createGame",
                                      lifecycle |-> "waiting", seats |-> seats]>>]
    BY <1>2 DEF Initialize
  <2> DEFINE e == [actor |-> Creator, request |-> r, type |-> "createGame",
                   lifecycle |-> "waiting", seats |-> seats]
  <2>2. e \in Entry
    BY PlayersAssumption DEF Entry, Actors, RequestIds, Lifecycles
  <2>3. /\ checkpoint.state = <<>> /\ checkpoint'.state = <<e>> /\ e.lifecycle = "waiting"
        /\ published' = published
    BY <1>2, <2>1 DEF Initialize
  <2> HIDE DEF e
  <2>4. Log!Create(e)
    BY <2>3 DEF Log!Create
  <2>5. checkpoint'.state # checkpoint.state
    BY <2>2, <2>3
  <2> QED
    BY <2>2, <2>4, <2>5 DEF Log!LogNext
<1>3. ASSUME checkpoint'.state = checkpoint.state PROVE [Log!LogNext]_(Log!logVars)
  <2>1. CASE published' = published
    BY <1>3, <2>1 DEF Log!logVars
  <2>2. ASSUME NEW row, Durable(row), published' = published \cup {row} PROVE Log!LogNext
    <3>1. row.version \in 2 .. Len(checkpoint.state)
          /\ row = Log!Outcome(checkpoint.state, row.version)
      BY <2>2 DEF Durable, RowAt, Log!Outcome
    <3>2. Log!Publish(row.version)
      BY <1>3, <2>2, <3>1 DEF Log!Publish
    <3> QED
      BY <3>1, <3>2 DEF Log!LogNext
  <2> QED
    BY <2>1, <2>2, Publications
<1> QED
  BY <1>1, <1>2, <1>3, WritersOfTheGame

(* Retries, sibling rooms, takeovers, lost replies and crashes are         *)
(* invisible in the command log, for any number of processes and rooms.    *)
THEOREM Implementation == Spec => ImplementsCommandLog
<1>1. Init => Log!LogInit
  BY DEF Init, LeaseInit, Log!LogInit
<1>2. IInv /\ [Next]_vars => [Log!LogNext]_(Log!logVars)
  BY LogStep
<1> QED
  BY <1>1, <1>2, Inductive, PTL DEF Spec, ImplementsCommandLog, Log!LogSpec
-----------------------------------------------------------------------------
(* Terminal proofs.  A commit starts from a game that is not over, so no   *)
(* proof is stored yet.                                                    *)
LEMMA ProofStep ==
  ASSUME IInv, ProofMatchesCheckpoint, [Next]_vars
  PROVE  ProofMatchesCheckpoint'
<1>1. ASSUME checkpoint'.state = checkpoint.state, proofs' = proofs PROVE ProofMatchesCheckpoint'
  BY <1>1 DEF ProofMatchesCheckpoint, Lifecycle
<1>2. ASSUME NEW r \in Rooms, Initialize(r) PROVE ProofMatchesCheckpoint'
  <2>1. proofs = {} /\ proofs' = proofs
    BY <1>2 DEF Initialize, ProofMatchesCheckpoint, rowVars
  <2>2. Lifecycle(checkpoint'.state) = "waiting"
    BY <1>2 DEF Initialize, Lifecycle
  <2> QED
    BY <2>1, <2>2 DEF ProofMatchesCheckpoint, Lifecycle
<1>3. ASSUME NEW r \in Rooms, Commit(r) PROVE ProofMatchesCheckpoint'
  <2>1. /\ Log!Forward(Lifecycle(mem[r]), Lifecycle(work[r].next))
        /\ mem[r] = checkpoint.state /\ checkpoint'.state = work[r].next
        /\ Len(work[r].next) = Len(checkpoint.state) + 1
        /\ checkpoint.state \in Seq(Entry) /\ work[r].next \in Seq(Entry)
    BY <1>3, CommitExtendsCheckpoint DEF Commit, IInv, WorkInProgress, WorkOf, Extends
  <2>2. Lifecycle(checkpoint.state) # "finished"
    BY <2>1 DEF Log!Forward
  <2>3. proofs = {}
    BY <2>2 DEF ProofMatchesCheckpoint
  <2>4. checkpoint'.state # <<>>
    BY <2>1
  <2>5. proofs' = IF Lifecycle(checkpoint'.state) = "finished"
                    THEN {Len(checkpoint'.state)} ELSE {}
    BY <1>3, <2>1, <2>3 DEF Commit
  <2> QED
    BY <2>4, <2>5 DEF ProofMatchesCheckpoint, Lifecycle
<1> QED
  BY <1>1, <1>2, <1>3, WritersOfTheGame

(* A terminal proof exists exactly for a finished game and names its final *)
(* version.                                                                *)
THEOREM ProofCorrect == Spec => []ProofMatchesCheckpoint
<1>1. Init => ProofMatchesCheckpoint
  BY DEF Init, LeaseInit, ProofMatchesCheckpoint
<1>2. IInv /\ ProofMatchesCheckpoint /\ [Next]_vars => ProofMatchesCheckpoint'
  BY ProofStep
<1> QED
  BY <1>1, <1>2, Inductive, PTL DEF Spec
-----------------------------------------------------------------------------
(* Sole holders.  Token 0 is never granted, so a serving room holds a real *)
(* one and shares it only with rooms of its own process: when one of these *)
(* dies with the process, the serving room dies too.                       *)
TokensHeld ==
  /\ lease.owner # NoOwner => lease.token # 0
  /\ \A r \in Rooms : phase[r] = "serving" => token[r] # 0

(* The hypothesis and the conclusion of SoleHolderIsCurrent for one room.  *)
SoleHolder(r) ==
  /\ OwnerOf[r] \in up
  /\ phase[r] = "serving"
  /\ token[r] = lease.token
  /\ r \notin missed
  /\ \A s \in Rooms \ {r} : token[s] # token[r]

Current(r) == checkpoint.state = IF work[r].stage = "reply" THEN work[r].next ELSE mem[r]

(* Steps that grant no lease leave the owner and the token of the row.     *)
LEMMA LeaseRowKept ==
  ASSUME TypeOK, [Next]_vars
  PROVE  \/ \E r \in Rooms : Acquire(r)
         \/ lease'.owner = lease.owner /\ lease'.token = lease.token
<1> USE DEF leaseVars, rowVars, roomVars
<1> DEFINE Kept == lease'.owner = lease.owner /\ lease'.token = lease.token
<1>1. ASSUME NEW r \in Rooms, NEW c, Replay(r, c) \/ Propose(r, c) PROVE Kept
  BY <1>1 DEF Replay, Propose
<1>2. ASSUME NEW r \in Rooms, Handle(r) \/ HandleTimer(r) PROVE Kept
  BY <1>1, <1>2 DEF Handle, HandleTimer
<1>3. ASSUME NEW r \in Rooms, NEW p \in Players, Admit(r, p) PROVE Kept
  BY <1>3 DEF Admit
<1>4. ASSUME NEW r \in Rooms,
             \/ Load(r) \/ Initialize(r) \/ FailCreate(r) \/ Commit(r) \/ CommitDuplicate(r)
             \/ CommitFails(r) \/ Apply(r) \/ ReplyLost(r) \/ LoseLease(r) \/ Dispose(r)
      PROVE  Kept
  BY <1>4 DEF Load, Initialize, FailCreate, Commit, CommitDuplicate, CommitFails, Apply,
              ReplyLost, LoseLease, Dispose
<1>5. ASSUME NEW r \in Rooms, Renew(r) \/ Release(r) PROVE Kept
  BY <1>5 DEF Renew, renew, Release, ReleasedLease, TypeOK, LeaseTypeOK
<1>6. ASSUME NEW o \in Owners, Crash(o) PROVE Kept
  BY <1>6 DEF Crash
<1>7. ASSUME Expire \/ UNCHANGED vars PROVE Kept
  BY <1>7 DEF Expire, LeaseLapses, vars, TypeOK, LeaseTypeOK
<1> HIDE DEF Kept
<1>8. Kept \/ \E r \in Rooms : Acquire(r)
  BY <1>2, <1>3, <1>4, <1>5, <1>6, <1>7 DEF Next
<1> QED
  BY <1>8 DEF Kept

LEMMA TokensHeldStep ==
  ASSUME TypeOK, TokensHeld, [Next]_vars
  PROVE  TokensHeld'
<1> USE DEF leaseVars, rowVars, roomVars, SetPhase
<1>0. /\ token \in [Rooms -> Nat] /\ phase \in [Rooms -> Phases] /\ lease.token \in Nat
      /\ \A r \in Rooms : OwnerOf[r] # NoOwner
  BY RoomsAssumption, NoOwnerAssumption DEF TypeOK, LeaseTypeOK
<1>1. lease'.owner # NoOwner => lease'.token # 0
  <2>1. ASSUME NEW r \in Rooms, Acquire(r) PROVE lease'.token # 0
    BY <1>0, <2>1 DEF Acquire, acquire, GrantedToken, TokensHeld
  <2> QED
    BY <2>1, LeaseRowKept DEF TokensHeld
<1> SUFFICES ASSUME NEW q \in Rooms, phase'[q] = "serving" PROVE token'[q] # 0
  BY <1>1 DEF TokensHeld
<1>2. ASSUME phase'[q] = phase[q], token'[q] = token[q] PROVE token'[q] # 0
  BY <1>2 DEF TokensHeld
<1>3. ASSUME NEW r \in Rooms, Acquire(r) PROVE token'[q] # 0
  <2>1. q # r
    BY <1>0, <1>3 DEF Acquire
  <2> QED
    BY <1>0, <1>2, <1>3, <2>1 DEF Acquire
<1>4. ASSUME NEW r \in Rooms, Load(r) \/ Initialize(r) PROVE token'[q] # 0
  <2>1. token[r] # 0 /\ token' = token
    BY <1>0, <1>4 DEF Load, Initialize, AssertOwned, TokensHeld
  <2>2. q # r => phase'[q] = phase[q]
    BY <1>0, <1>4 DEF Load, Initialize
  <2> QED
    BY <1>2, <2>1, <2>2
<1>5. ASSUME NEW r \in Rooms, FailCreate(r) \/ LoseLease(r) \/ Dispose(r) \/ Release(r)
      PROVE  token'[q] # 0
  <2>1. q # r
    BY <1>0, <1>5 DEF FailCreate, LoseLease, Dispose, Release
  <2> QED
    BY <1>0, <1>2, <1>5, <2>1 DEF FailCreate, LoseLease, Dispose, Release
<1>6. ASSUME NEW r \in Rooms, NEW c, Replay(r, c) \/ Propose(r, c)
      PROVE  phase' = phase /\ token' = token
  BY <1>6 DEF Replay, Propose
<1>7. ASSUME NEW r \in Rooms, Handle(r) \/ HandleTimer(r) PROVE phase' = phase /\ token' = token
  BY <1>6, <1>7 DEF Handle, HandleTimer
<1>8. ASSUME NEW r \in Rooms, NEW p \in Players, Admit(r, p)
      PROVE  phase' = phase /\ token' = token
  BY <1>8 DEF Admit
<1>9. ASSUME NEW r \in Rooms,
             \/ Commit(r) \/ CommitDuplicate(r) \/ CommitFails(r) \/ Apply(r) \/ ReplyLost(r)
             \/ Renew(r)
      PROVE  phase' = phase /\ token' = token
  BY <1>9 DEF Commit, CommitDuplicate, CommitFails, Apply, ReplyLost, Renew
<1>10. ASSUME NEW o \in Owners, Crash(o) PROVE token'[q] # 0
  <2>1. phase'[q] = phase[q] /\ token'[q] = token[q]
    BY <1>10 DEF Crash
  <2> QED
    BY <1>2, <2>1
<1>11. ASSUME Expire \/ UNCHANGED vars PROVE phase' = phase /\ token' = token
  BY <1>11 DEF Expire, vars
<1> QED
  BY <1>2, <1>3, <1>4, <1>5, <1>7, <1>8, <1>9, <1>10, <1>11 DEF Next

(* A room that is created holds what it loads, and its queue is idle.  A   *)
(* second room of the process would share its token, a room of another     *)
(* process would raise it, and nobody else commits under it.               *)
LEMMA SoleHolderStep ==
  ASSUME IInv, TokensHeld, SoleHolderIsCurrent, [Next]_vars, NEW q \in Rooms, SoleHolder(q)'
  PROVE  Current(q)'
<1> USE DEF leaseVars, rowVars, roomVars, SetPhase
<1>0. /\ token \in [Rooms -> Nat] /\ phase \in [Rooms -> Phases] /\ lease.token \in Nat
      /\ mem \in [Rooms -> Seq(Entry)] /\ work \in [Rooms -> WorkType]
      /\ \A s \in Rooms : token[s] <= lease.token
      /\ SoleHolder(q) => Current(q)
  BY DEF IInv, TypeOK, LeaseTypeOK, WorkType, TokensIdentifyOwners, SoleHolderIsCurrent,
         SoleHolder, Current
<1>1. /\ OwnerOf[q] \in up' /\ phase'[q] = "serving" /\ token'[q] = lease'.token
      /\ q \notin missed' /\ \A s \in Rooms \ {q} : token'[s] # token'[q]
  BY DEF SoleHolder
<1>2. ASSUME lease'.token = lease.token, token' = token, up' = up, q \in missed => q \in missed',
             phase'[q] = phase[q]
      PROVE  SoleHolder(q) /\ Current(q)
  BY <1>0, <1>1, <1>2 DEF SoleHolder
<1>3. ASSUME SoleHolder(q), Current(q), checkpoint'.state = checkpoint.state, mem'[q] = mem[q],
             \/ work'[q] = work[q]
             \/ work[q].stage # "reply" /\ work'[q].stage # "reply"
      PROVE  Current(q)'
  BY <1>3 DEF Current
<1>4. ASSUME NEW r \in Rooms, Acquire(r) PROVE FALSE
  <2>1. q # r
    BY <1>0, <1>1, <1>4 DEF Acquire
  <2>2. /\ token'[r] = GrantedToken(OwnerOf[r]) /\ lease'.token = GrantedToken(OwnerOf[r])
        /\ token'[q] = token[q]
    BY <1>0, <1>4, <2>1 DEF Acquire, acquire
  <2> QED
    BY <1>1, <2>1, <2>2
<1>5. ASSUME NEW r \in Rooms, phase[r] \in {"acquired", "empty"} PROVE work[r].stage = "idle"
  BY <1>0, <1>5 DEF IInv, WorkInProgress, WorkOf, Extends, WorkType
<1>6. ASSUME NEW r \in Rooms, Load(r) PROVE Current(q)'
  <2>1. CASE q # r
    <3>1. /\ phase'[q] = phase[q] /\ mem'[q] = mem[q] /\ work' = work /\ missed' = missed
          /\ lease' = lease /\ checkpoint' = checkpoint /\ token' = token /\ up' = up
      BY <1>0, <1>6, <2>1 DEF Load
    <3> QED
      BY <1>2, <1>3, <3>1
  <2>2. CASE q = r
    <3>1. mem'[q] = checkpoint.state /\ checkpoint' = checkpoint /\ work' = work
      BY <1>0, <1>1, <1>6, <2>2 DEF Load
    <3>2. work[q].stage = "idle"
      BY <1>5, <1>6, <2>2 DEF Load
    <3> QED
      BY <3>1, <3>2 DEF Current
  <2> QED
    BY <2>1, <2>2
<1>7. ASSUME NEW r \in Rooms, AssertOwned(OwnerOf[r], token[r], TRUE),
             token' = token, lease'.token = lease.token
      PROVE  r = q
  BY <1>1, <1>7 DEF AssertOwned
<1>8. ASSUME NEW r \in Rooms, Initialize(r) PROVE Current(q)'
  <2>1. r = q
    BY <1>7, <1>8 DEF Initialize, AssertOwned
  <2>2. work' = work /\ work[q].stage = "idle"
    BY <1>5, <1>8, <2>1 DEF Initialize
  <2>3. mem'[q] = checkpoint'.state
    BY <1>0, <1>8, <2>1 DEF Initialize
  <2> QED
    BY <2>2, <2>3 DEF Current
<1>9. ASSUME NEW r \in Rooms, Commit(r) PROVE Current(q)'
  <2>1. r = q
    BY <1>7, <1>9 DEF Commit, CommitPrecondition, OwnedAtCommit, AssertOwned
  <2>2. /\ work'[q].stage = "reply" /\ work'[q].next = work[q].next
        /\ checkpoint'.state = work[q].next
    BY <1>0, <1>9, <2>1, CommitExtendsCheckpoint DEF Commit, WorkType
  <2> QED
    BY <2>2 DEF Current
<1>10. ASSUME NEW r \in Rooms, NEW c, Replay(r, c) \/ Propose(r, c) PROVE Current(q)'
  <2>1. /\ lease' = lease /\ checkpoint' = checkpoint /\ token' = token /\ up' = up
        /\ phase' = phase /\ mem' = mem /\ missed' = missed
        /\ \/ work'[q] = work[q]
           \/ work[q].stage # "reply" /\ work'[q].stage # "reply"
    <3>1. ASSUME Replay(r, c) PROVE work' = work
      BY <3>1 DEF Replay
    <3>2. ASSUME Propose(r, c)
          PROVE  /\ work[r].stage = "idle"
                 /\ \E w : w.stage = "commit" /\ work' = [work EXCEPT ![r] = w]
      BY <3>2 DEF Propose
    <3>3. \/ work'[q] = work[q]
          \/ work[q].stage # "reply" /\ work'[q].stage # "reply"
      BY <1>0, <1>10, <3>1, <3>2
    <3> QED
      BY <1>10, <3>3 DEF Replay, Propose
  <2> QED
    BY <1>2, <1>3, <2>1
<1>11. ASSUME NEW r \in Rooms, Handle(r) \/ HandleTimer(r) PROVE Current(q)'
  BY <1>10, <1>11 DEF Handle, HandleTimer
<1>12. ASSUME NEW r \in Rooms, NEW p \in Players, Admit(r, p) PROVE Current(q)'
  <2>1. /\ lease' = lease /\ checkpoint' = checkpoint /\ token' = token /\ up' = up
        /\ phase' = phase /\ mem' = mem /\ missed' = missed
        /\ \/ work'[q] = work[q]
           \/ work[q].stage # "reply" /\ work'[q].stage # "reply"
    BY <1>0, <1>12 DEF Admit
  <2> QED
    BY <1>2, <1>3, <2>1
<1>13. ASSUME NEW r \in Rooms, CommitDuplicate(r) \/ CommitFails(r) PROVE Current(q)'
  <2>1. /\ lease' = lease /\ checkpoint' = checkpoint /\ token' = token /\ up' = up
        /\ phase' = phase /\ mem' = mem /\ missed' = missed
        /\ \/ work'[q] = work[q]
           \/ work[q].stage # "reply" /\ work'[q].stage # "reply"
    BY <1>0, <1>13 DEF CommitDuplicate, CommitFails, Idle
  <2> QED
    BY <1>2, <1>3, <2>1
<1>14. ASSUME NEW r \in Rooms, Apply(r) PROVE Current(q)'
  <2>1. /\ lease' = lease /\ checkpoint' = checkpoint /\ token' = token /\ up' = up
        /\ phase' = phase /\ missed' = missed
        /\ \/ work'[q] = work[q] /\ mem'[q] = mem[q]
           \/ work[q].stage = "reply" /\ work'[q].stage = "idle" /\ mem'[q] = work[q].next
    BY <1>0, <1>14 DEF Apply, Idle
  <2>2. Current(q)
    BY <1>2, <2>1
  <2> QED
    BY <2>1, <2>2 DEF Current
<1>15. ASSUME NEW r \in Rooms, ReplyLost(r) PROVE Current(q)'
  <2>1. /\ lease' = lease /\ checkpoint' = checkpoint /\ token' = token /\ up' = up
        /\ phase' = phase /\ mem' = mem /\ missed' = missed \cup {r}
        /\ q # r => work'[q] = work[q]
    BY <1>0, <1>15 DEF ReplyLost
  <2>2. q # r
    BY <1>1, <2>1
  <2> QED
    BY <1>2, <1>3, <2>1, <2>2
<1>16. ASSUME NEW r \in Rooms, FailCreate(r) \/ LoseLease(r) \/ Dispose(r) \/ Release(r)
       PROVE  Current(q)'
  <2>1. /\ lease'.token = lease.token /\ checkpoint' = checkpoint /\ token' = token /\ up' = up
        /\ mem' = mem /\ missed' = missed /\ work' = work
        /\ q # r => phase'[q] = phase[q]
    BY <1>0, <1>16 DEF FailCreate, LoseLease, Dispose, Release, ReleasedLease, IInv, TypeOK,
                       LeaseTypeOK
  <2>2. q # r
    BY <1>0, <1>1, <1>16 DEF FailCreate, LoseLease, Dispose, Release
  <2> QED
    BY <1>2, <1>3, <2>1, <2>2
<1>17. ASSUME NEW o \in Owners, Crash(o) PROVE Current(q)'
  <2>1. OwnerOf[q] # o
    BY <1>1, <1>17 DEF Crash
  <2>2. /\ phase'[q] = phase[q] /\ mem'[q] = mem[q] /\ work'[q] = work[q] /\ token'[q] = token[q]
        /\ lease' = lease /\ checkpoint' = checkpoint
        /\ q \in missed => q \in missed' /\ OwnerOf[q] \in up
        /\ \A s \in Rooms : token'[s] = IF OwnerOf[s] = o THEN 0 ELSE token[s]
    BY <1>1, <1>17, <2>1 DEF Crash
  <2>3. token[q] # 0
    BY <1>1, <2>2 DEF TokensHeld
  <2>4. \A s \in Rooms \ {q} : token[s] # token[q]
    BY <1>1, <2>1, <2>2, <2>3 DEF IInv, TokensIdentifyOwners
  <2>5. OwnerOf[q] \in up
    BY <1>1, <1>17 DEF Crash
  <2>6. SoleHolder(q)
    BY <1>1, <2>2, <2>4, <2>5 DEF SoleHolder
  <2> QED
    BY <1>0, <1>3, <2>2, <2>6
<1>18. ASSUME Expire \/ UNCHANGED vars \/ (\E r \in Rooms : Renew(r)) PROVE Current(q)'
  <2>1. /\ lease'.token = lease.token /\ checkpoint' = checkpoint /\ token' = token /\ up' = up
        /\ phase' = phase /\ mem' = mem /\ missed' = missed /\ work' = work
    BY <1>18 DEF Expire, LeaseLapses, vars, Renew, renew, IInv, TypeOK, LeaseTypeOK
  <2> QED
    BY <1>2, <1>3, <2>1
<1> QED
  BY <1>4, <1>6, <1>8, <1>9, <1>11, <1>12, <1>13, <1>14, <1>15, <1>16, <1>17, <1>18 DEF Next

(* Only a lost reply or a second Room object of its own process makes a    *)
(* serving room stale: otherwise the room that holds the current token     *)
(* holds the latest durable state, for any number of processes and rooms.  *)
THEOREM SoleHolderCorrect == Spec => []SoleHolderIsCurrent
<1>1. Init => TokensHeld /\ SoleHolderIsCurrent
  BY DEF Init, LeaseInit, TokensHeld, SoleHolderIsCurrent
<1>2. IInv /\ TokensHeld /\ [Next]_vars => TokensHeld'
  BY TokensHeldStep DEF IInv
<1>3. IInv /\ TokensHeld /\ SoleHolderIsCurrent /\ [Next]_vars => SoleHolderIsCurrent'
  <2> SUFFICES ASSUME IInv, TokensHeld, SoleHolderIsCurrent, [Next]_vars
               PROVE  SoleHolderIsCurrent'
    OBVIOUS
  <2>1. \A q \in Rooms : SoleHolder(q)' => Current(q)'
    BY SoleHolderStep
  <2> QED
    BY <2>1 DEF SoleHolderIsCurrent, SoleHolder, Current
<1> QED
  BY <1>1, <1>2, <1>3, Inductive, PTL DEF Spec
=============================================================================
