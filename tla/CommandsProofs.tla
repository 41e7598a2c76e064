--------------------------- MODULE CommandsProofs ---------------------------
(***************************************************************************)
(* The commands that share a state file keep to the lock, for any set of   *)
(* keys and processes and any number of runs and faults.                   *)
(***************************************************************************)
EXTENDS Commands, TLAPS

(* Where a process is between taking the lock and giving it back. *)
Critical == {"applying", "probing", "importing", "adopting", "repairing"}

Places == /\ pc \in [Process -> {"idle", "inspecting", "listing", "removing"} \cup Critical]
          /\ \A c \in Collector : pc[c] \in {"idle", "listing", "removing"}
Memories == /\ recorded \subseteq Key /\ live \subseteq Key
            /\ mem \in [Process -> SUBSET Key] /\ todo \in [Process -> SUBSET Key]
            /\ gone \in [Process -> SUBSET Key]
            /\ flight \in [Process -> (Key \X {"put", "del"}) \cup {NoCall}]

(* Whoever is past Lock is the one holder, and a holder is past Lock: no     *)
(* return, error or crash leaves the lock behind.                            *)
LockFollowed == /\ holders \subseteq Locker
                /\ \A c \in Process : pc[c] \in Critical => holders = {c}
                /\ \A c \in holders : pc[c] \in Critical

IInv == Places /\ Memories /\ LockFollowed /\ FileIsHolders

\* The invariant holds before any command was run.
LEMMA InitInv == Init => IInv
BY CommandsAssumption DEF Init, IInv, Places, Memories, LockFollowed, FileIsHolders, Critical,
   Process, Locker

\* A process that ends gives the lock back if it holds it, and others keep theirs.
LEMMA Ended ==
  ASSUME IInv, NEW c \in Process, Unlock(c), End(c),
         UNCHANGED live,
         recorded' = recorded \/ (pc[c] \in Critical /\ recorded' \subseteq Key)
  PROVE  IInv'
<1> USE DEF IInv, Places, Memories, LockFollowed, FileIsHolders, Critical
<1>1. /\ pc' = [pc EXCEPT ![c] = "idle"]
      /\ mem' = [mem EXCEPT ![c] = {}] /\ todo' = [todo EXCEPT ![c] = {}]
      /\ gone' = [gone EXCEPT ![c] = {}] /\ flight' = [flight EXCEPT ![c] = NoCall]
  BY DEF End, GoTo, Set
<1>2. holders' = holders \ {c}
  BY DEF Unlock, Port!Release
<1>3. Places' /\ Memories'
  BY <1>1 DEF Process
<1>4. LockFollowed'
  BY <1>1, <1>2 DEF Process, Locker
<1>5. ASSUME NEW d \in Applier \cup Prober, pc'[d] \in {"applying", "probing"}
      PROVE  recorded' = mem'[d]
  <2>1. d # c /\ d \in Process /\ pc'[d] = pc[d] /\ mem'[d] = mem[d]
    BY <1>1, <1>5 DEF Process, Locker
  <2>2. recorded' = recorded
    BY <1>5, <2>1
  <2> QED
    BY <1>5, <2>1, <2>2
<1> QED
  BY <1>3, <1>4, <1>5

\* So does one that ends without having taken the lock.
LEMMA EndedOutside ==
  ASSUME IInv, NEW c \in Process, pc[c] \notin Critical, End(c), UNCHANGED <<recorded, live, holders>>
  PROVE  IInv'
<1>1. Unlock(c)
  BY DEF IInv, LockFollowed, Unlock
<1> QED
  BY <1>1, Ended

\* Every step keeps the invariant: one case per action of each command.
LEMMA StepInv == IInv /\ [Next]_vars => IInv'
<1> SUFFICES ASSUME IInv, [Next]_vars PROVE IInv'
  OBVIOUS
<1> USE DEF IInv, Places, Memories, LockFollowed, FileIsHolders, Critical, GoTo, Set
<1>0. /\ Applier \subseteq Process /\ Prober \subseteq Process /\ Repairer \subseteq Process
      /\ Collector \subseteq Process /\ Provider \subseteq Key
      /\ \A c \in Process : c \in Locker \/ c \in Collector
      /\ \A c \in Locker : c \in Process /\ c \notin Collector
      /\ Applier \cup Prober \cup Repairer \subseteq Locker
  BY CommandsAssumption DEF Process, Locker
<1>1. ASSUME NEW c \in Applier, Applying(c) PROVE IInv'
  <2>1. CASE Apply(c)
    BY <1>0, <2>1 DEF Apply, Port!Acquire
  <2>2. ASSUME NEW k \in Key, Call(c, k) PROVE IInv'
    BY <1>0, <2>2 DEF Call
  <2>3. CASE Save(c)
    <3>1. flight[c] \in Key \X {"put", "del"}
      BY <1>0, <2>3 DEF Save
    <3> DEFINE k == flight[c][1]
               m == IF flight[c][2] = "put" THEN mem[c] \cup {k} ELSE mem[c] \ {k}
    <3>2. m \in SUBSET Key /\ mem' = [mem EXCEPT ![c] = m] /\ recorded' = m
      BY <1>0, <2>3, <3>1 DEF Save
    <3> HIDE DEF m
    <3>3. Places' /\ Memories' /\ LockFollowed'
      BY <1>0, <2>3, <3>2 DEF Save
    <3>4. ASSUME NEW d \in Applier \cup Prober, pc'[d] \in {"applying", "probing"}
          PROVE  recorded' = mem'[d]
      <4>1. pc' = pc /\ holders = {c}
        BY <1>0, <2>3 DEF Save
      <4>2. d = c
        BY <1>0, <3>4, <4>1
      <4> QED
        BY <1>0, <3>2, <4>2
    <3> QED
      BY <3>3, <3>4
  <2>4. CASE Done(c)
    BY <1>0, <2>4, Ended DEF Done
  <2> QED
    BY <1>1, <2>1, <2>2, <2>3, <2>4 DEF Applying
<1>2. ASSUME NEW c \in Prober, Probing(c) PROVE IInv'
  <2>1. CASE Drift(c)
    BY <1>0, <2>1 DEF Drift, Port!Acquire
  <2>2. CASE Probe(c)
    <3>1. mem[c] \subseteq Key
      BY <1>0
    <3> QED
      BY <1>0, <2>2, <3>1, Ended DEF Probe
  <2>3. CASE ImportLock(c)
    BY <1>0, <2>3 DEF ImportLock, Port!Acquire
  <2>4. ASSUME NEW k \in Key, ImportProbe(c, k) PROVE IInv'
    <3>1. CASE k \in live
      BY <1>0, <2>4, <3>1 DEF ImportProbe
    <3>2. CASE k \notin live
      BY <1>0, <2>4, <3>2, Ended DEF ImportProbe
    <3> QED
      BY <3>1, <3>2
  <2>5. CASE ImportSave(c)
    <3>1. recorded \cup todo[c] \subseteq Key
      BY <1>0
    <3> QED
      BY <1>0, <2>5, <3>1, Ended DEF ImportSave
  <2> QED
    BY <1>2, <2>1, <2>2, <2>3, <2>4, <2>5 DEF Probing
<1>3. ASSUME NEW c \in Repairer, Repairing(c) PROVE IInv'
  <2>1. CASE Doctor(c)
    BY <1>0, <2>1, CommandsAssumption DEF Doctor
  <2>2. ASSUME NEW k \in Key, InspectObject(c, k) PROVE IInv'
    BY <1>0, <2>2 DEF InspectObject
  <2>3. CASE Healthy(c)
    BY <1>0, <2>3, EndedOutside DEF Healthy
  <2>4. CASE RepairLock(c)
    BY <1>0, <2>4, CommandsAssumption DEF RepairLock, Port!Acquire
  <2>5. CASE RepairLockHeld(c)
    BY <1>0, <2>5, EndedOutside DEF RepairLockHeld
  <2>6. CASE RepairSave(c)
    <3>1. mem[c] \ gone[c] \subseteq Key
      BY <1>0
    <3> QED
      BY <1>0, <2>6, <3>1, Ended DEF RepairSave
  <2>7. CASE RepairCancel(c)
    BY <1>0, <2>7, Ended DEF RepairCancel
  <2> QED
    BY <1>3, <2>1, <2>2, <2>3, <2>4, <2>5, <2>6, <2>7 DEF Repairing
<1>4. ASSUME NEW c \in Collector, Collecting(c) PROVE IInv'
  <2>0. c \notin Applier /\ c \notin Prober
    BY CommandsAssumption DEF Locker
  <2>1. CASE GcLoad(c)
    BY <1>0, <2>0, <2>1 DEF GcLoad
  <2>2. CASE GcList(c)
    BY <1>0, <2>0, <2>2 DEF GcList
  <2>3. ASSUME NEW k \in Key, GcRemove(c, k) PROVE IInv'
    BY <1>0, <2>3 DEF GcRemove
  <2>4. CASE GcDone(c)
    BY <1>0, <2>4, EndedOutside DEF GcDone
  <2> QED
    BY <1>4, <2>1, <2>2, <2>3, <2>4 DEF Collecting
<1>5. ASSUME NEW c \in Process, Crash(c) PROVE IInv'
  BY <1>5, Ended DEF Crash
<1>6. ASSUME NEW k \in Key, Vanish(k) PROVE IInv'
  BY <1>6 DEF Vanish
<1>7. CASE UNCHANGED vars
  BY <1>7 DEF vars
<1> QED
  BY <1>1, <1>2, <1>3, <1>4, <1>5, <1>6, <1>7 DEF Next

\* The invariant in every reachable state.
THEOREM CommandsInvariant == Spec => []IInv
<1> QED
  BY InitInv, StepInv, PTL DEF Spec

\* Whatever runs beside it, a command's saves build on what it loaded.
THEOREM SavesBuildOnLoads == Spec => []FileIsHolders
<1> QED
  BY CommandsInvariant, PTL DEF IInv
=============================================================================
