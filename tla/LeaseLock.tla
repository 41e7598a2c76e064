----------------------------- MODULE LeaseLock -----------------------------
(***************************************************************************)
(* The lock of internal/adapters/state/s3: a lease in one object of an     *)
(* S3-compatible store, taken with conditional PUTs, renewed in the        *)
(* background and released by a read and a delete.                         *)
(*                                                                         *)
(* The object's ETag is a digest of its content, and a lease's content     *)
(* names its holder, the instant it was acquired and its expiry: `ETag     *)
(* matches' is equality of leases here.  Acquisition instants are distinct *)
(* (nanoseconds) and numbered; expiry is in ticks of a clock the machines  *)
(* share.  A request takes effect at one moment, however late.             *)
(***************************************************************************)
EXTENDS Integers

CONSTANTS
  Client,    \* processes that use the state
  NoLease,   \* the lock object does not exist
  TTL,       \* --state-lock-ttl, in ticks
  Timely,    \* whether a live client is never slower than its lease
  MaxClock,  \* bound: ticks
  MaxLocks,  \* bound: calls of Lock
  MaxForce   \* bound: runs of `state unlock'

ASSUME LeaseAssumption ==
  /\ TTL \in Nat \ {0}
  /\ Timely \in BOOLEAN
  /\ MaxClock \in Nat /\ MaxLocks \in Nat /\ MaxForce \in Nat

Lease == [holder: Client, acquired: Nat, expires: Nat]
ASSUME NoLeaseAssumption == NoLease \notin Lease

VARIABLES
  clock,   \* now
  lock,    \* the lock object: a Lease or NoLease
  locks,   \* calls of Lock so far; numbers their acquisition instants
  forced,  \* runs of `state unlock' so far
  pc,      \* where each client is
  mine,    \* the lease its Lock call made up
  seen,    \* the lease it read and will reclaim
  renew,   \* its renewal loop: "off", "ticking", or "writing" a renewal
  base,    \* the lease the renewal read
  next     \* the lease the renewal writes

loop == <<renew, base, next>>
vars == <<clock, lock, locks, forced, pc, mine, seen, loop>>

Pending == {"create", "inspect", "reclaim"}
Holding == {"held", "deleting"}
Holders == {c \in Client : pc[c] \in Holding}

SameLease(l, m) == l # NoLease /\ l.holder = m.holder /\ l.acquired = m.acquired
Owns(c) == SameLease(lock, mine[c])

GoTo(c, p) == pc' = [pc EXCEPT ![c] = p]
-----------------------------------------------------------------------------
(* Store.Lock *)

(* The lease is made up, with the time of that moment, before any request. *)
Lock(c) ==
  /\ pc[c] = "idle" /\ renew[c] = "off"
  /\ locks < MaxLocks /\ locks' = locks + 1
  /\ mine' = [mine EXCEPT ![c] = [holder |-> c, acquired |-> locks + 1, expires |-> clock + TTL]]
  /\ GoTo(c, "create")
  /\ UNCHANGED <<clock, lock, forced, seen, loop>>

Acquired(c) ==
  /\ lock' = mine[c]
  /\ GoTo(c, "held")
  /\ renew' = [renew EXCEPT ![c] = "ticking"]
  /\ UNCHANGED <<clock, locks, forced, mine, seen, base, next>>

(* Fault: the PUT is not conditional. *)
CreateAlways(c) == pc[c] = "create" /\ Acquired(c)

(* PUT with If-None-Match: * *)
Create(c) == pc[c] = "create" /\ lock = NoLease /\ Acquired(c)

CreateFails(c) ==
  /\ pc[c] = "create" /\ lock # NoLease
  /\ GoTo(c, "inspect")
  /\ UNCHANGED <<clock, lock, locks, forced, mine, seen, loop>>

(* `now' is the time Lock began, not the time of the read. *)
Began(c) == mine[c].expires - TTL

Inspect(c) ==
  /\ pc[c] = "inspect"
  /\ \/ /\ lock = NoLease \/ (lock # NoLease /\ Began(c) < lock.expires)
        /\ GoTo(c, "idle") /\ UNCHANGED seen
     \/ /\ lock # NoLease /\ Began(c) >= lock.expires
        /\ GoTo(c, "reclaim") /\ seen' = [seen EXCEPT ![c] = lock]
  /\ UNCHANGED <<clock, lock, locks, forced, mine, loop>>

(* Fault: the PUT is not conditional. *)
ReclaimAlways(c) == pc[c] = "reclaim" /\ Acquired(c)

(* PUT with If-Match: the ETag that was read. *)
Reclaim(c) == pc[c] = "reclaim" /\ lock = seen[c] /\ Acquired(c)

ReclaimFails(c) ==
  /\ pc[c] = "reclaim" /\ lock # seen[c]
  /\ GoTo(c, "idle")
  /\ UNCHANGED <<clock, lock, locks, forced, mine, seen, loop>>

-----------------------------------------------------------------------------
(* withRenewal and renewLoop: read, and if the lease is still this one, PUT *)
(* it with a new expiry, If-Match.  Losing it ends the loop; the command    *)
(* goes on.  A failed request is tried again at the next tick.              *)

RenewRead(c) ==
  /\ pc[c] = "held" /\ renew[c] = "ticking"
  /\ lock # NoLease
  /\ IF Owns(c)
     THEN /\ base' = [base EXCEPT ![c] = lock]
          /\ next' = [next EXCEPT ![c] = [lock EXCEPT !.expires = clock + TTL]]
          /\ renew' = [renew EXCEPT ![c] = "writing"]
     ELSE renew' = [renew EXCEPT ![c] = "off"] /\ UNCHANGED <<base, next>>
  /\ UNCHANGED <<clock, lock, locks, forced, pc, mine, seen>>

(* Fault: the renewal's PUT is not conditional. *)
RenewWriteAlways(c) ==
  /\ renew[c] = "writing"
  /\ lock' = next[c]
  /\ renew' = [renew EXCEPT ![c] = IF pc[c] = "held" THEN "ticking" ELSE "off"]
  /\ UNCHANGED <<clock, locks, forced, pc, mine, seen, base, next>>

(* stopRenewal does not wait for a renewal in flight: it may take effect    *)
(* after the release, or after the process is gone.                         *)
RenewWrite(c) ==
  /\ renew[c] = "writing"
  /\ lock' = IF lock = base[c] THEN next[c] ELSE lock
  /\ renew' = [renew EXCEPT ![c] = IF pc[c] = "held" THEN "ticking" ELSE "off"]
  /\ UNCHANGED <<clock, locks, forced, pc, mine, seen, base, next>>

-----------------------------------------------------------------------------
(* The unlock function: stopRenewal, then releaseFunc *)

Stopped(c) == [renew EXCEPT ![c] = IF @ = "writing" THEN @ ELSE "off"]

Release(c) ==
  /\ pc[c] = "held"
  /\ renew' = Stopped(c)
  /\ GoTo(c, IF Owns(c) THEN "deleting" ELSE "idle")
  /\ UNCHANGED <<clock, lock, locks, forced, mine, seen, base, next>>

(* RemoveObject, whatever the object holds by now. *)
Delete(c) ==
  /\ pc[c] = "deleting"
  /\ lock' = NoLease
  /\ GoTo(c, "idle")
  /\ UNCHANGED <<clock, locks, forced, mine, seen, loop>>

(* The process dies, or its unlock fails: the lease is left to expire.  A   *)
(* process that dies with its PUT or DELETE in flight stays where it is     *)
(* until the request has taken effect; here no request is under way, or it  *)
(* is lost.                                                                 *)
Crash(c) ==
  /\ pc[c] # "idle"
  /\ renew' = Stopped(c)
  /\ GoTo(c, "idle")
  /\ UNCHANGED <<clock, lock, locks, forced, mine, seen, base, next>>

(* Store.ForceUnlock *)
ForceUnlock ==
  /\ forced < MaxForce /\ forced' = forced + 1
  /\ lock' = NoLease
  /\ UNCHANGED <<clock, locks, pc, mine, seen, loop>>

-----------------------------------------------------------------------------
(* Time.  A timely client ends its Lock call within TTL and renews or       *)
(* releases its lease before it expires, and its requests take effect by    *)
(* then, though it may have died meanwhile; a client that is suspended, or  *)
(* cut off from the store, is not timely.                                   *)
OnTime(c, t) ==
  /\ pc[c] \in Pending => t < mine[c].expires
  /\ pc[c] \in Holding /\ Owns(c) => t < lock.expires

Tick ==
  /\ clock < MaxClock /\ clock' = clock + 1
  /\ Timely => \A c \in Client : OnTime(c, clock + 1)
  /\ UNCHANGED <<lock, locks, forced, pc, mine, seen, loop>>

Fresh(c) == [holder |-> c, acquired |-> 0, expires |-> TTL]

Init ==
  /\ clock = 0 /\ lock = NoLease /\ locks = 0 /\ forced = 0
  /\ pc = [c \in Client |-> "idle"]
  /\ mine = [c \in Client |-> Fresh(c)]
  /\ seen = [c \in Client |-> Fresh(c)]
  /\ renew = [c \in Client |-> "off"]
  /\ base = [c \in Client |-> Fresh(c)]
  /\ next = [c \in Client |-> Fresh(c)]

Step(c) ==
  \/ Lock(c) \/ Create(c) \/ CreateFails(c) \/ Inspect(c) \/ Reclaim(c) \/ ReclaimFails(c)
  \/ RenewRead(c) \/ RenewWrite(c)
  \/ Release(c) \/ Delete(c) \/ Crash(c)

Next == (\E c \in Client : Step(c)) \/ ForceUnlock \/ Tick

Spec == Init /\ [][Next]_vars

-----------------------------------------------------------------------------
(* Properties *)

(* Every variable has its type. *)
TypeOK ==
  /\ clock \in Nat /\ locks \in Nat /\ forced \in Nat
  /\ lock \in Lease \cup {NoLease}
  /\ pc \in [Client -> {"idle", "create", "inspect", "reclaim", "held", "deleting"}]
  /\ mine \in [Client -> Lease] /\ seen \in [Client -> Lease]
  /\ renew \in [Client -> {"off", "ticking", "writing"}]
  /\ base \in [Client -> Lease] /\ next \in [Client -> Lease]

(* While clients are timely and nobody forces the lock, a client that       *)
(* believes it holds the lock owns the object: no create, reclaim, renewal  *)
(* or release of another one, however delayed, has displaced it.            *)
HoldersOwn == \A c \in Holders : Owns(c)

(* ... and therefore the lease is a lock as the port promises it. *)
Port == INSTANCE StateLock WITH holders <- Holders
ImplementsStateLock == Port!Spec

(* Timely or not: a lease passes to another acquisition only after it       *)
(* expired ("so two clients racing to reclaim the same expired lease can't  *)
(* both succeed", "a lease already reclaimed by someone else is never       *)
(* overwritten").                                                           *)
TakenOnlyExpired ==
  [][lock # NoLease /\ lock' # NoLease /\ ~SameLease(lock', lock) => lock.expires <= clock]_vars

(* Timely or not: no renewal, however late, shortens a lease. *)
NeverShortened ==
  [][lock # NoLease /\ lock' # NoLease /\ SameLease(lock', lock) => lock.expires <= lock'.expires]_vars

-----------------------------------------------------------------------------
(* The inductive invariants *)

(* Of every state: leases are as long as TTL allows, what is reclaimed had  *)
(* expired when Lock began, and a renewal prolongs the lease it read.       *)
LeaseInv ==
  /\ \A c \in Client : /\ mine[c].holder = c
                       /\ TTL <= mine[c].expires /\ mine[c].expires <= clock + TTL
                       /\ pc[c] = "reclaim" => seen[c].expires <= Began(c)
                       /\ renew[c] = "writing" => /\ SameLease(next[c], base[c])
                                                  /\ base[c].expires <= next[c].expires
                                                  /\ next[c].expires <= clock + TTL
  /\ lock # NoLease => lock.expires <= clock + TTL

(* Of timely clients: a holder's lease is its own and has not expired. *)
TimelyInv ==
  \A c \in Client : /\ pc[c] \in Holding => Owns(c) /\ clock < lock.expires
                    /\ pc[c] \in Pending => clock < mine[c].expires
=============================================================================
