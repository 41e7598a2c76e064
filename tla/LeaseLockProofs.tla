-------------------------- MODULE LeaseLockProofs --------------------------
(***************************************************************************)
(* Proofs about LeaseLock, for any number of clients, any TTL and any      *)
(* bounds.                                                                 *)
(***************************************************************************)
EXTENDS LeaseLock, TLAPS

-----------------------------------------------------------------------------
(* Every state *)

BaseInv == TypeOK /\ LeaseInv

(* A first Lock finds no object and no client at work. *)
LEMMA BaseInit == Init => BaseInv
<1> SUFFICES ASSUME Init PROVE BaseInv
  OBVIOUS
<1>1. TTL \in Nat /\ \A c \in Client : Fresh(c) \in Lease
  BY LeaseAssumption DEF Fresh, Lease
<1>2. TypeOK
  BY <1>1 DEF Init, TypeOK
<1>3. LeaseInv
  BY <1>1 DEF Init, LeaseInv, Fresh
<1> QED BY <1>2, <1>3 DEF BaseInv

(* Types are preserved by every step. *)
LEMMA TypeStep ==
  ASSUME TypeOK, [Next]_vars
  PROVE  TypeOK'
<1> USE LeaseAssumption DEF TypeOK, Lease, loop, GoTo
<1>1. ASSUME NEW c \in Client, Step(c)
      PROVE  TypeOK'
  <2>1. CASE Lock(c)
    BY <2>1 DEF Lock
  <2>2. CASE Create(c) \/ Reclaim(c)
    BY <2>2 DEF Create, Reclaim, Acquired
  <2>3. CASE CreateFails(c) \/ ReclaimFails(c)
    BY <2>3 DEF CreateFails, ReclaimFails
  <2>4. CASE Inspect(c)
    BY <2>4 DEF Inspect
  <2>5. CASE RenewRead(c)
    <3>1. lock # NoLease => [lock EXCEPT !.expires = clock + TTL] \in Lease
      OBVIOUS
    <3> QED BY <2>5, <3>1 DEF RenewRead
  <2>6. CASE RenewWrite(c)
    BY <2>6 DEF RenewWrite
  <2>7. CASE Release(c) \/ Crash(c)
    BY <2>7 DEF Release, Crash, Stopped
  <2>8. CASE Delete(c)
    BY <2>8 DEF Delete
  <2> QED BY <1>1, <2>1, <2>2, <2>3, <2>4, <2>5, <2>6, <2>7, <2>8 DEF Step
<1>2. CASE ForceUnlock \/ Tick
  BY <1>2 DEF ForceUnlock, Tick
<1>3. CASE UNCHANGED vars
  BY <1>3 DEF vars
<1> QED BY <1>1, <1>2, <1>3 DEF Next

(* So is what every state has in common. *)
LEMMA BaseStep ==
  ASSUME BaseInv, [Next]_vars
  PROVE  BaseInv'
<1>1. TypeOK /\ TypeOK' /\ LeaseInv
  BY TypeStep DEF BaseInv
<1> SUFFICES LeaseInv'
  BY <1>1 DEF BaseInv
<1>2. /\ clock \in Nat /\ TTL \in Nat
      /\ lock # NoLease => lock \in Lease
      /\ \A c \in Client : mine[c] \in Lease /\ seen[c] \in Lease /\ base[c] \in Lease /\ next[c] \in Lease
      /\ \A l \in Lease : l.expires \in Nat
      /\ NoLease \notin Lease
  BY <1>1, NoLeaseAssumption, LeaseAssumption DEF TypeOK, Lease
<1>3. ASSUME NEW c \in Client, Step(c)
      PROVE  LeaseInv'
  <2> USE LeaseAssumption DEF loop, GoTo, SameLease, Began
  <2>1. CASE Lock(c)
    <3>1. \A d \in Client : mine'[d] = IF d = c
            THEN [holder |-> c, acquired |-> locks + 1, expires |-> clock + TTL] ELSE mine[d]
      BY <1>1, <2>1 DEF Lock, TypeOK
    <3>2. \A d \in Client : pc'[d] = IF d = c THEN "create" ELSE pc[d]
      BY <1>1, <2>1 DEF Lock, TypeOK
    <3>3. UNCHANGED <<clock, lock, seen, renew, base, next>>
      BY <2>1 DEF Lock
    <3> QED BY <1>1, <1>2, <3>1, <3>2, <3>3 DEF LeaseInv
  <2>2. CASE Create(c) \/ Reclaim(c)
    BY <1>1, <1>2, <2>2 DEF Create, Reclaim, Acquired, LeaseInv, TypeOK
  <2>3. CASE CreateFails(c) \/ ReclaimFails(c)
    BY <1>1, <2>3 DEF CreateFails, ReclaimFails, LeaseInv, TypeOK
  <2>4. CASE Inspect(c)
    BY <1>1, <1>2, <2>4 DEF Inspect, LeaseInv, TypeOK
  <2>5. CASE RenewRead(c)
    <3>1. CASE ~Owns(c)
      BY <1>1, <2>5, <3>1 DEF RenewRead, LeaseInv, TypeOK
    <3>2. CASE Owns(c)
      <4> DEFINE l == [lock EXCEPT !.expires = clock + TTL]
      <4>1. lock \in Lease /\ l.holder = lock.holder /\ l.acquired = lock.acquired /\ l.expires = clock + TTL
        BY <1>2, <2>5 DEF RenewRead, Lease
      <4>2. l # NoLease
        BY <1>2, <4>1 DEF Lease
      <4>3. \A d \in Client : /\ base'[d] = IF d = c THEN lock ELSE base[d]
                              /\ next'[d] = IF d = c THEN l ELSE next[d]
                              /\ renew'[d] = IF d = c THEN "writing" ELSE renew[d]
        BY <1>1, <2>5, <3>2 DEF RenewRead, TypeOK
      <4>4. UNCHANGED <<clock, lock, pc, mine, seen>>
        BY <2>5 DEF RenewRead
      <4> HIDE DEF l
      <4> QED BY <1>1, <1>2, <4>1, <4>2, <4>3, <4>4 DEF LeaseInv
    <3> QED BY <3>1, <3>2
  <2>6. CASE RenewWrite(c)
    BY <1>1, <1>2, <2>6 DEF RenewWrite, LeaseInv, TypeOK
  <2>7. CASE Release(c) \/ Crash(c)
    BY <1>1, <2>7 DEF Release, Crash, Stopped, LeaseInv, TypeOK
  <2>8. CASE Delete(c)
    BY <1>1, <2>8 DEF Delete, LeaseInv, TypeOK
  <2> QED BY <1>3, <2>1, <2>2, <2>3, <2>4, <2>5, <2>6, <2>7, <2>8 DEF Step
<1>4. CASE ForceUnlock
  BY <1>1, <1>4 DEF ForceUnlock, LeaseInv, Began, loop
<1>5. CASE Tick
  <2>1. UNCHANGED <<lock, pc, mine, seen, renew, base, next>> /\ clock' = clock + 1
    BY <1>5 DEF Tick, loop
  <2> QED BY <1>1, <1>2, <2>1 DEF LeaseInv, Began
<1>6. CASE UNCHANGED vars
  BY <1>1, <1>6 DEF vars, loop, LeaseInv, Began
<1> QED BY <1>3, <1>4, <1>5, <1>6 DEF Next

(* Every variable keeps its type. *)
THEOREM LeaseTypeCorrect == Spec => []TypeOK
<1>1. BaseInv => TypeOK
  BY DEF BaseInv
<1> QED BY <1>1, BaseInit, BaseStep, PTL DEF Spec

(* A lease passes to another acquisition only once it has expired, however  *)
(* slow the clients are and however often the lock is forced: Lock and the  *)
(* renewal loop replace exactly the lease they have read.                   *)
THEOREM ReclaimIsSafe == Spec => TakenOnlyExpired
<1> DEFINE A == lock # NoLease /\ lock' # NoLease /\ ~SameLease(lock', lock) => lock.expires <= clock
<1>1. BaseInv /\ [Next]_vars => [A]_vars
  <2> SUFFICES ASSUME BaseInv, Next PROVE A
    OBVIOUS
  <2>0. LeaseInv /\ clock \in Nat /\ TTL \in Nat
        /\ \A c \in Client : mine[c].expires \in Nat /\ seen[c].expires \in Nat
    BY LeaseAssumption DEF BaseInv, TypeOK, Lease
  <2>1. lock' = lock => A
    BY DEF SameLease
  <2>2. ASSUME NEW c \in Client, Reclaim(c)
        PROVE  A
    BY <2>0, <2>2 DEF Reclaim, LeaseInv, Began
  <2>3. ASSUME NEW c \in Client, RenewWrite(c)
        PROVE  A
    BY <2>0, <2>3 DEF RenewWrite, LeaseInv, SameLease
  <2>4. ASSUME NEW c \in Client, Step(c), ~Reclaim(c), ~RenewWrite(c)
        PROVE  A
    BY <2>1, <2>4 DEF Step, Lock, Create, CreateFails, Inspect, ReclaimFails, RenewRead,
                      Release, Delete, Crash
  <2>5. CASE ForceUnlock \/ Tick
    BY <2>1, <2>5 DEF ForceUnlock, Tick
  <2> QED BY <2>2, <2>3, <2>4, <2>5 DEF Next
<1> QED BY <1>1, BaseInit, BaseStep, PTL DEF Spec, TakenOnlyExpired

(* No renewal shortens a lease, not even one that arrives after others. *)
THEOREM RenewalProlongs == Spec => NeverShortened
<1> DEFINE A == lock # NoLease /\ lock' # NoLease /\ SameLease(lock', lock) => lock.expires <= lock'.expires
<1>1. BaseInv /\ [Next]_vars => [A]_vars
  <2> SUFFICES ASSUME BaseInv, Next PROVE A
    OBVIOUS
  <2>0. /\ LeaseInv /\ clock \in Nat /\ TTL \in Nat
        /\ \A c \in Client : mine[c].expires \in Nat /\ seen[c].expires \in Nat
        /\ lock # NoLease => lock.expires \in Nat
    BY LeaseAssumption DEF BaseInv, TypeOK, Lease
  <2>1. lock' = lock => A
    BY <2>0
  <2>2. ASSUME NEW c \in Client, Reclaim(c)
        PROVE  A
    BY <2>0, <2>2 DEF Reclaim, Acquired, LeaseInv, Began
  <2>3. ASSUME NEW c \in Client, RenewWrite(c)
        PROVE  A
    BY <2>0, <2>1, <2>3 DEF RenewWrite, LeaseInv
  <2>4. ASSUME NEW c \in Client, Step(c), ~Reclaim(c), ~RenewWrite(c)
        PROVE  A
    BY <2>1, <2>4 DEF Step, Lock, Create, CreateFails, Inspect, ReclaimFails, RenewRead,
                      Release, Delete, Crash
  <2>5. CASE ForceUnlock \/ Tick
    BY <2>1, <2>5 DEF ForceUnlock, Tick
  <2> QED BY <2>2, <2>3, <2>4, <2>5 DEF Next
<1> QED BY <1>1, BaseInit, BaseStep, PTL DEF Spec, NeverShortened

-----------------------------------------------------------------------------
(* Timely clients *)

(* Two clients that own the lock object are one. *)
LEMMA OneOwner ==
  ASSUME LeaseInv, NEW c \in Client, NEW d \in Client, Owns(c), Owns(d)
  PROVE  c = d
<1>1. mine[c].holder = c /\ mine[d].holder = d
  BY DEF LeaseInv
<1>2. lock.holder = mine[c].holder /\ lock.holder = mine[d].holder
  BY DEF Owns, SameLease
<1> QED BY <1>1, <1>2

(* Timely holders keep their lease through every step. *)
LEMMA TimelyStep ==
  ASSUME Timely, MaxForce = 0, BaseInv, TimelyInv, [Next]_vars
  PROVE  TimelyInv'
<1>1. TypeOK /\ TypeOK' /\ LeaseInv
  BY TypeStep DEF BaseInv
<1>2. /\ clock \in Nat /\ TTL \in Nat \ {0} /\ forced \in Nat
      /\ lock # NoLease => lock \in Lease
      /\ \A c \in Client : mine[c] \in Lease /\ seen[c] \in Lease /\ base[c] \in Lease /\ next[c] \in Lease
      /\ \A l \in Lease : l.expires \in Nat
      /\ NoLease \notin Lease
  BY <1>1, NoLeaseAssumption, LeaseAssumption DEF TypeOK, Lease
<1>3. ASSUME NEW c \in Client, pc[c] \in Pending, Acquired(c), Holders = {}
      PROVE  TimelyInv'
  <2>1. \A d \in Client : pc'[d] = IF d = c THEN "held" ELSE pc[d]
    BY <1>1, <1>3 DEF Acquired, GoTo, TypeOK
  <2>2. lock' = mine[c] /\ mine' = mine /\ clock' = clock
    BY <1>3 DEF Acquired
  <2>3. \A d \in Client : pc'[d] \in Holding => d = c
    BY <1>3, <2>1 DEF Holders
  <2>4. clock < mine[c].expires
    BY <1>3 DEF TimelyInv
  <2>5. mine[c] # NoLease
    BY <1>2
  <2> QED BY <1>3, <2>1, <2>2, <2>3, <2>4, <2>5 DEF TimelyInv, Owns, SameLease, Pending, Holding
<1>4. ASSUME UNCHANGED <<clock, lock, mine>>, NEW c \in Client, NEW p, GoTo(c, p),
             p \in Holding => pc[c] \in Holding, p \in Pending => pc[c] \in Pending
      PROVE  TimelyInv'
  BY <1>1, <1>4 DEF TimelyInv, GoTo, TypeOK, Owns
<1>5. ASSUME NEW c \in Client, Step(c)
      PROVE  TimelyInv'
  <2> USE DEF loop
  <2>1. CASE Lock(c)
    <3>1. \A d \in Client \ {c} : mine'[d] = mine[d] /\ pc'[d] = pc[d]
      BY <1>1, <2>1 DEF Lock, GoTo, TypeOK
    <3>2. pc'[c] = "create" /\ mine'[c].expires = clock + TTL
      BY <1>1, <2>1 DEF Lock, GoTo, TypeOK
    <3>3. lock' = lock /\ clock' = clock
      BY <2>1 DEF Lock
    <3>4. clock < clock + TTL
      BY <1>2
    <3> QED BY <3>1, <3>2, <3>3, <3>4 DEF TimelyInv, Owns, Holding
  <2>2. CASE Create(c)
    <3>1. Holders = {}
      BY <2>2 DEF Create, TimelyInv, Owns, SameLease, Holders
    <3> QED BY <1>3, <2>2, <3>1 DEF Create, Pending
  <2>3. CASE Reclaim(c)
    <3>1. lock # NoLease /\ lock.expires <= clock
      BY <1>1, <1>2, <2>3 DEF Reclaim, LeaseInv, Began
    <3>2. Holders = {}
      BY <1>2, <3>1 DEF TimelyInv, Holders
    <3> QED BY <1>3, <2>3, <3>2 DEF Reclaim, Pending
  <2>4. CASE CreateFails(c)
    BY <1>4, <2>4 DEF CreateFails, Pending, Holding
  <2>5. CASE ReclaimFails(c)
    BY <1>4, <2>5 DEF ReclaimFails, Pending, Holding
  <2>6. CASE Inspect(c)
    BY <1>4, <2>6 DEF Inspect, Pending, Holding
  <2>7. CASE RenewRead(c)
    BY <2>7 DEF RenewRead, TimelyInv, Owns
  <2>8. CASE RenewWrite(c)
    <3>1. UNCHANGED <<clock, pc, mine>>
      BY <2>8 DEF RenewWrite
    <3>2. CASE lock # base[c]
      BY <2>8, <3>1, <3>2 DEF RenewWrite, TimelyInv, Owns
    <3>3. CASE lock = base[c]
      <4>1. lock' = next[c] /\ SameLease(next[c], lock) /\ lock.expires <= next[c].expires
        BY <1>1, <2>8, <3>3 DEF RenewWrite, LeaseInv
      <4>2. lock # NoLease /\ lock.expires \in Nat /\ next[c].expires \in Nat
        BY <1>2, <3>3
      <4> QED BY <1>2, <3>1, <4>1, <4>2 DEF TimelyInv, Owns, SameLease
    <3> QED BY <3>2, <3>3
  <2>9. CASE Release(c)
    BY <1>4, <2>9 DEF Release, Pending, Holding
  <2>10. CASE Crash(c)
    BY <1>4, <2>10 DEF Crash, Pending, Holding
  <2>11. CASE Delete(c)
    <3>1. \A d \in Client : pc[d] \in Holding => d = c
      BY <1>1, <2>11, OneOwner DEF Delete, TimelyInv, Holding
    <3>2. \A d \in Client : pc'[d] = IF d = c THEN "idle" ELSE pc[d]
      BY <1>1, <2>11 DEF Delete, GoTo, TypeOK
    <3>3. clock' = clock /\ mine' = mine
      BY <2>11 DEF Delete
    <3> QED BY <3>1, <3>2, <3>3 DEF TimelyInv, Holding, Pending
  <2> QED BY <1>5, <2>1, <2>2, <2>3, <2>4, <2>5, <2>6, <2>7, <2>8, <2>9, <2>10, <2>11 DEF Step
<1>6. CASE ForceUnlock
  BY <1>2, <1>6 DEF ForceUnlock
<1>7. CASE Tick
  BY <1>2, <1>7 DEF Tick, OnTime, TimelyInv, Owns
<1>8. CASE UNCHANGED vars
  BY <1>8 DEF vars, TimelyInv, Owns
<1> QED BY <1>5, <1>6, <1>7, <1>8 DEF Next

(* If every live client renews in time and nobody forces the lock, whoever  *)
(* holds it owns the lock object.                                           *)
THEOREM TimelyHoldersOwn ==
  ASSUME Timely, MaxForce = 0
  PROVE  Spec => []HoldersOwn
<1>1. Init => BaseInv /\ TimelyInv
  BY BaseInit DEF Init, TimelyInv, Holding, Pending
<1>2. BaseInv /\ TimelyInv /\ [Next]_vars => (BaseInv /\ TimelyInv)'
  BY BaseStep, TimelyStep
<1>3. TimelyInv => HoldersOwn
  BY DEF TimelyInv, HoldersOwn, Holders
<1> QED BY <1>1, <1>2, <1>3, PTL DEF Spec

(* Under the same assumptions the lease is the lock the state port          *)
(* promises: one holder at a time, and a step of the protocol takes the     *)
(* lock, gives it back, or changes nothing the port can see.                *)
THEOREM LeaseImplementsPort ==
  ASSUME Timely, MaxForce = 0
  PROVE  Spec => ImplementsStateLock
<1>1. Init => BaseInv /\ TimelyInv
  BY BaseInit DEF Init, TimelyInv, Holding, Pending
<1>2. BaseInv /\ TimelyInv /\ [Next]_vars => (BaseInv /\ TimelyInv)'
  BY BaseStep, TimelyStep
<1>3. Init => Port!Init
  BY DEF Init, Port!Init, Holders, Holding
<1>4. BaseInv /\ TimelyInv /\ (BaseInv /\ TimelyInv)' /\ [Next]_vars => [Port!Next]_Holders
  <2> SUFFICES ASSUME BaseInv, TimelyInv, BaseInv', TimelyInv', [Next]_vars,
                      Holders' # Holders
               PROVE  Port!Next
    OBVIOUS
  <2>1. /\ \A c, d \in Client : pc[c] \in Holding /\ pc[d] \in Holding => c = d
        /\ \A c, d \in Client : pc'[c] \in Holding /\ pc'[d] \in Holding => c = d
    <3>1. \A c, d \in Client : pc[c] \in Holding /\ pc[d] \in Holding => c = d
      BY OneOwner DEF BaseInv, TimelyInv
    <3>2. \A c, d \in Client : pc'[c] \in Holding /\ pc'[d] \in Holding => c = d
      BY DEF BaseInv, TimelyInv, LeaseInv, Owns, SameLease
    <3> QED BY <3>1, <3>2
  <2>2. PICK c \in Client : Step(c) /\ \E p : GoTo(c, p)
    <3>1. pc' # pc
      BY DEF Holders
    <3>2. PICK c \in Client : Step(c)
      BY <3>1 DEF Next, ForceUnlock, Tick, vars
    <3>3. \E p : GoTo(c, p)
      BY <3>1, <3>2 DEF Step, Lock, Create, CreateFails, Inspect, Reclaim, ReclaimFails,
                        RenewRead, RenewWrite, Release, Delete, Crash, Acquired
    <3> QED BY <3>2, <3>3
  <2>3. \A d \in Client \ {c} : pc'[d] = pc[d]
    BY <2>2 DEF GoTo, BaseInv, TypeOK
  <2>4. pc[c] \in Holding <=> pc'[c] \notin Holding
    BY <2>3 DEF Holders
  <2>5. CASE pc[c] \in Holding
    <3>1. Holders = {c} /\ Holders' = {}
      BY <2>1, <2>3, <2>4, <2>5 DEF Holders
    <3> QED BY <3>1 DEF Port!Next, Port!Release
  <2>6. CASE pc'[c] \in Holding
    <3>1. Holders = {} /\ Holders' = {c}
      BY <2>1, <2>3, <2>4, <2>6 DEF Holders
    <3> QED BY <3>1 DEF Port!Next, Port!Acquire
  <2> QED BY <2>4, <2>5, <2>6
<1> QED BY <1>1, <1>2, <1>3, <1>4, PTL DEF Spec, ImplementsStateLock, Port!Spec
=============================================================================
