----------------------------- MODULE RoomLease -----------------------------
(***************************************************************************)
(* The rows of the realtime schema that decide who may write for one       *)
(* logical room, and the transactions of RoomLeaseRepository and           *)
(* PresenceRepository on them                                              *)
(* (apps/game-server/src/persistence/room-lease.ts, presence-repository.ts,*)
(* apps/api/src/database/migrations/0001, 0008).                           *)
(*                                                                         *)
(* Every operator is one PostgreSQL transaction: it starts by locking the  *)
(* lease row (FOR UPDATE), so transactions on one room are serialised.     *)
(*                                                                         *)
(* Time is kept only as far as the code can tell instants apart: a lease   *)
(* is "live" (lease_until in the future of the database clock), "lapsed",  *)
(* or "abandoned" (lapsed for the 120 seconds of the reconnect window);    *)
(* an offline window is "open" until its deadline and "due" after it.      *)
(***************************************************************************)
EXTENDS Integers, Sequences

CONSTANTS
  Owners,     \* lease owner ids: instance id and incarnation of a process
  NoOwner     \* stands in the lease record while no lease row exists

ASSUME NoOwnerAssumption == NoOwner \notin Owners

VARIABLES
  lease,       \* room_leases row; token 0 while there is no row
  checkpoint,  \* room_checkpoints row; state <<>> while there is no row
  presence     \* room_presence row; token 0 while there is no row

leaseVars == <<lease, checkpoint, presence>>

LeaseUntil == {"live", "lapsed", "abandoned"}
Windows == {"online", "open", "due"}

LeaseTypeOK ==
  /\ lease \in [owner : Owners \cup {NoOwner}, token : Nat, until : LeaseUntil]
  /\ presence \in [token : Nat, window : Windows]

LeaseInit ==
  /\ lease = [owner |-> NoOwner, token |-> 0, until |-> "abandoned"]
  /\ checkpoint = [token |-> 0, state |-> <<>>]
  /\ presence = [token |-> 0, window |-> "online"]

-----------------------------------------------------------------------------
(* lease_until > clock_timestamp() *)
LeaseLive == lease.until = "live"

(* assertOwned: the row still names this owner and this token, and has not *)
(* expired at the instant the caller compares it with (live).              *)
AssertOwned(owner, token, live) ==
  /\ lease.owner = owner
  /\ lease.token = token
  /\ live

(* Mutant: an expired lease stays with its owner. *)
AcquirableByHolder(owner) == lease.owner \in {owner, NoOwner}

(* A lease that another owner holds and that has not expired is refused. *)
Acquirable(owner) == lease.owner = owner \/ ~LeaseLive

(* continuingLiveLease keeps the token, every other acquisition raises it. *)
GrantedToken(owner) ==
  IF lease.owner = owner /\ LeaseLive THEN lease.token ELSE lease.token + 1

(* Mutant: the checkpoint keeps the token of the previous owner. *)
CheckpointLeftBehind(token) == checkpoint

(* A raised token moves the checkpoint row to the new owner ...            *)
CheckpointTakenOver(token) ==
  IF checkpoint.state # <<>> /\ token # lease.token
    THEN [checkpoint EXCEPT !.token = token]
    ELSE checkpoint

(* ... and the presence row too, which counts as all-offline from the      *)
(* moment the previous lease ended unless a window was open already.       *)
PresenceTakenOver(token) ==
  IF presence.token # 0 /\ token # lease.token
    THEN [token  |-> token,
          window |-> IF presence.window # "online" THEN presence.window
                     ELSE IF lease.until = "abandoned" THEN "due" ELSE "open"]
    ELSE presence

acquire(owner) ==
  /\ Acquirable(owner)
  /\ lease' = [owner |-> owner, token |-> GrantedToken(owner), until |-> "live"]
  /\ checkpoint' = CheckpointTakenOver(GrantedToken(owner))
  /\ presence' = PresenceTakenOver(GrantedToken(owner))

renew(owner, token) ==
  /\ AssertOwned(owner, token, LeaseLive)
  /\ lease' = [lease EXCEPT !.until = "live"]
  /\ UNCHANGED <<checkpoint, presence>>

(* release ends the lease at once; a lease that moved on or expired stays. *)
ReleasedLease(owner, token) ==
  IF AssertOwned(owner, token, LeaseLive)
    THEN [lease EXCEPT !.until = "lapsed"]
    ELSE lease

(* The database clock passes lease_until. *)
LeaseLapses ==
  /\ LeaseLive
  /\ lease' = [lease EXCEPT !.until = "lapsed"]
  /\ UNCHANGED <<checkpoint, presence>>

(* markAllOffline keeps the instant of the first offline mark (COALESCE). *)
MarkedAllOffline(token) ==
  [token  |-> token,
   window |-> IF presence.token # 0 /\ presence.window # "online"
                THEN presence.window ELSE "open"]
=============================================================================
