------------------------------ MODULE Commands ------------------------------
(***************************************************************************)
(* The commands of cmd/platformctl that share one state file and one       *)
(* runtime: `apply' (and destroy), `drift', `import', `state repair' and   *)
(* `gc apply'.                                                             *)
(*                                                                         *)
(* A state entry is reduced to its key, and an apply to the sequence of    *)
(* provider calls and saves that Engine describes.  The lock is the one    *)
(* the state port promises (StateLock).                                    *)
(***************************************************************************)
EXTENDS Naturals, FiniteSets

CONSTANTS
  Key,        \* resources; each has one labelled runtime object
  Provider,   \* the keys whose kind is Provider
  Applier,    \* processes that run apply
  Prober,     \* processes that run `drift' or `import'
  Repairer,   \* processes that run `state repair'
  Collector,  \* processes that run `gc apply'
  NoCall,     \* no provider call is in flight
  MaxRuns,    \* bound: runs of apply, drift, import and `state repair'
  MaxFaults   \* bound: crashes, lost objects and failed removals

Locker == Applier \cup Prober \cup Repairer
Process == Locker \cup Collector

ASSUME CommandsAssumption ==
  /\ IsFiniteSet(Key) /\ Provider \subseteq Key /\ NoCall \notin Key \X {"put", "del"}
  /\ Applier \cap Repairer = {} /\ Prober \cap (Applier \cup Repairer) = {}
  /\ Locker \cap Collector = {}
  /\ MaxRuns \in Nat /\ MaxFaults \in Nat

VARIABLES
  recorded,  \* the keys of the state file
  live,      \* the keys whose object is in the runtime
  holders,   \* of the lock
  pc,        \* where each process is
  mem,       \* the state each process loaded, with its own changes
  todo,      \* keys it still has to inspect (repair) or remove (gc)
  gone,      \* keys repair found gone
  flight,    \* the provider call that apply has made but not recorded
  runs,      \* runs begun so far (bounded by MaxRuns)
  faults     \* faults so far (bounded by MaxFaults)

vars == <<recorded, live, holders, pc, mem, todo, gone, flight, runs, faults>>

Port == INSTANCE StateLock WITH Client <- Locker

GoTo(c, p) == pc' = [pc EXCEPT ![c] = p]
Set(f, c, v) == [f EXCEPT ![c] = v]

(* A process that ends forgets what it knew. *)
End(c) ==
  /\ GoTo(c, "idle")
  /\ mem' = Set(mem, c, {}) /\ todo' = Set(todo, c, {}) /\ gone' = Set(gone, c, {})
  /\ flight' = Set(flight, c, NoCall)

Unlock(c) == IF c \in holders THEN Port!Release(c) ELSE UNCHANGED holders
-----------------------------------------------------------------------------
(* apply: lock, load, then a provider call and a save for each entry *)

Apply(c) ==
  /\ pc[c] = "idle"
  /\ runs < MaxRuns /\ runs' = runs + 1
  /\ Port!Acquire(c)
  /\ mem' = Set(mem, c, recorded)
  /\ GoTo(c, "applying")
  /\ UNCHANGED <<recorded, live, todo, gone, flight, faults>>

(* Reconcile (create, update, heal) puts the object there, destroy takes a  *)
(* recorded one away.                                                       *)
Call(c, k) ==
  /\ pc[c] = "applying" /\ flight[c] = NoCall
  /\ \/ live' = live \cup {k} /\ flight' = Set(flight, c, <<k, "put">>)
     \/ k \in mem[c] /\ live' = live \ {k} /\ flight' = Set(flight, c, <<k, "del">>)
  /\ UNCHANGED <<recorded, holders, pc, mem, todo, gone, runs, faults>>

Save(c) ==
  /\ pc[c] = "applying" /\ flight[c] # NoCall
  /\ LET k == flight[c][1]
         m == IF flight[c][2] = "put" THEN mem[c] \cup {k} ELSE mem[c] \ {k}
     IN mem' = Set(mem, c, m) /\ recorded' = m
  /\ flight' = Set(flight, c, NoCall)
  /\ UNCHANGED <<live, holders, pc, todo, gone, runs, faults>>

Done(c) ==
  /\ pc[c] = "applying" /\ flight[c] = NoCall
  /\ Unlock(c) /\ End(c)
  /\ UNCHANGED <<recorded, live, runs, faults>>

-----------------------------------------------------------------------------
(* drift: lock, load, probe every recorded resource, save what was loaded   *)
(* with the conditions the probes observed.                                 *)

Drift(c) ==
  /\ pc[c] = "idle"
  /\ runs < MaxRuns /\ runs' = runs + 1
  /\ Port!Acquire(c)
  /\ mem' = Set(mem, c, recorded)
  /\ GoTo(c, "probing")
  /\ UNCHANGED <<recorded, live, todo, gone, flight, faults>>

(* A resource without an entry is passed over, one whose object is gone is  *)
(* only marked: the entries stay those that were loaded.                    *)
Probe(c) ==
  /\ pc[c] = "probing"
  /\ recorded' = mem[c]
  /\ Unlock(c) /\ End(c)
  /\ UNCHANGED <<live, runs, faults>>

(* import: lock, probe the object, and only if it is there load the state,  *)
(* replace the entry and save.                                              *)
ImportLock(c) ==
  /\ pc[c] = "idle"
  /\ runs < MaxRuns /\ runs' = runs + 1
  /\ Port!Acquire(c)
  /\ GoTo(c, "importing")
  /\ UNCHANGED <<recorded, live, mem, todo, gone, flight, faults>>

ImportProbe(c, k) ==
  /\ pc[c] = "importing"
  /\ IF k \in live
     THEN GoTo(c, "adopting") /\ todo' = Set(todo, c, {k}) /\ UNCHANGED <<holders, mem, gone, flight>>
     ELSE Unlock(c) /\ End(c)
  /\ UNCHANGED <<recorded, live, runs, faults>>

ImportSave(c) ==
  /\ pc[c] = "adopting"
  /\ recorded' = recorded \cup todo[c]
  /\ Unlock(c) /\ End(c)
  /\ UNCHANGED <<live, runs, faults>>

-----------------------------------------------------------------------------
(* state repair: stateDoctor loads the state and inspects the Providers,    *)
(* and only then is the lock taken and the state saved.                     *)

Doctor(c) ==
  /\ pc[c] = "idle"
  /\ runs < MaxRuns /\ runs' = runs + 1
  /\ mem' = Set(mem, c, recorded)
  /\ todo' = Set(todo, c, recorded \cap Provider)
  /\ GoTo(c, "inspecting")
  /\ UNCHANGED <<recorded, live, holders, gone, flight, faults>>

InspectObject(c, k) ==
  /\ pc[c] = "inspecting" /\ k \in todo[c]
  /\ todo' = Set(todo, c, todo[c] \ {k})
  /\ gone' = Set(gone, c, gone[c] \cup ({k} \ live))
  /\ UNCHANGED <<recorded, live, holders, pc, mem, flight, runs, faults>>

(* Nothing was found gone. *)
Healthy(c) ==
  /\ pc[c] = "inspecting" /\ todo[c] = {} /\ gone[c] = {}
  /\ End(c)
  /\ UNCHANGED <<recorded, live, holders, runs, faults>>

(* Fault: repair takes no lock. *)
RepairUnlocked(c) ==
  /\ pc[c] = "inspecting" /\ todo[c] = {} /\ gone[c] # {}
  /\ GoTo(c, "repairing")
  /\ UNCHANGED <<recorded, live, holders, mem, todo, gone, flight, runs, faults>>

(* Otherwise something is gone: the file is of this version, so it has no   *)
(* legacy entry and needs no migration.                                     *)
RepairLock(c) ==
  /\ pc[c] = "inspecting" /\ todo[c] = {} /\ gone[c] # {}
  /\ Port!Acquire(c)
  /\ GoTo(c, "repairing")
  /\ UNCHANGED <<recorded, live, mem, todo, gone, flight, runs, faults>>

RepairLockHeld(c) ==
  /\ pc[c] = "inspecting" /\ todo[c] = {} /\ gone[c] # {} /\ holders # {}
  /\ End(c)
  /\ UNCHANGED <<recorded, live, holders, runs, faults>>

RepairSave(c) ==
  /\ pc[c] = "repairing"
  /\ recorded' = mem[c] \ gone[c]
  /\ Unlock(c) /\ End(c)
  /\ UNCHANGED <<live, runs, faults>>

(* The operator does not confirm. *)
RepairCancel(c) ==
  /\ pc[c] = "repairing"
  /\ Unlock(c) /\ End(c)
  /\ UNCHANGED <<recorded, live, runs, faults>>

-----------------------------------------------------------------------------
(* gc apply: gcOrphans loads the state, then lists the labelled objects;    *)
(* each object without an entry is removed.  No lock is taken.              *)

GcLoad(c) ==
  /\ pc[c] = "idle"
  /\ mem' = Set(mem, c, recorded)
  /\ GoTo(c, "listing")
  /\ UNCHANGED <<recorded, live, holders, todo, gone, flight, runs, faults>>

(* Fault: only the objects of Providers are listed. *)
GcListProviders(c) ==
  /\ pc[c] = "listing"
  /\ todo' = Set(todo, c, (live \ mem[c]) \cap Provider)
  /\ GoTo(c, "removing")
  /\ UNCHANGED <<recorded, live, holders, mem, gone, flight, runs, faults>>

GcList(c) ==
  /\ pc[c] = "listing"
  /\ todo' = Set(todo, c, live \ mem[c])
  /\ GoTo(c, "removing")
  /\ UNCHANGED <<recorded, live, holders, mem, gone, flight, runs, faults>>

GcRemove(c, k) ==
  /\ pc[c] = "removing" /\ k \in todo[c]
  /\ todo' = Set(todo, c, todo[c] \ {k})
  /\ \/ live' = live \ {k} /\ UNCHANGED faults
     \/ faults < MaxFaults /\ faults' = faults + 1 /\ UNCHANGED live
  /\ UNCHANGED <<recorded, holders, pc, mem, gone, flight, runs>>

GcDone(c) ==
  /\ pc[c] = "removing" /\ todo[c] = {}
  /\ End(c)
  /\ UNCHANGED <<recorded, live, holders, runs, faults>>

-----------------------------------------------------------------------------
(* A process dies; its lock is given back by the kernel or by expiry. *)
Crash(c) ==
  /\ pc[c] # "idle"
  /\ faults < MaxFaults /\ faults' = faults + 1
  /\ Unlock(c) /\ End(c)
  /\ UNCHANGED <<recorded, live, runs>>

(* An object disappears by other hands. *)
Vanish(k) ==
  /\ k \in live
  /\ faults < MaxFaults /\ faults' = faults + 1
  /\ live' = live \ {k}
  /\ UNCHANGED <<recorded, holders, pc, mem, todo, gone, flight, runs>>

Init ==
  /\ recorded = {} /\ live = {} /\ holders = {}
  /\ pc = [c \in Process |-> "idle"]
  /\ mem = [c \in Process |-> {}] /\ todo = [c \in Process |-> {}] /\ gone = [c \in Process |-> {}]
  /\ flight = [c \in Process |-> NoCall]
  /\ runs = 0 /\ faults = 0

Applying(c) == Apply(c) \/ (\E k \in Key : Call(c, k)) \/ Save(c) \/ Done(c)
Probing(c) ==
  \/ Drift(c) \/ Probe(c)
  \/ ImportLock(c) \/ (\E k \in Key : ImportProbe(c, k)) \/ ImportSave(c)
Repairing(c) ==
  \/ Doctor(c) \/ (\E k \in Key : InspectObject(c, k)) \/ Healthy(c)
  \/ RepairLock(c) \/ RepairLockHeld(c) \/ RepairSave(c) \/ RepairCancel(c)
Collecting(c) == GcLoad(c) \/ GcList(c) \/ (\E k \in Key : GcRemove(c, k)) \/ GcDone(c)

Next ==
  \/ \E c \in Applier : Applying(c)
  \/ \E c \in Prober : Probing(c)
  \/ \E c \in Repairer : Repairing(c)
  \/ \E c \in Collector : Collecting(c)
  \/ \E c \in Process : Crash(c)
  \/ \E k \in Key : Vanish(k)

Spec == Init /\ [][Next]_vars

(* Somebody keeps running gc, and a gc that is not killed goes on. *)
FairSpec == Spec /\ \A c \in Collector : WF_vars(Collecting(c))

-----------------------------------------------------------------------------
(* Properties *)

(* While an apply or a drift runs, the file is what it has in memory: no    *)
(* other command saves in between, so none of its saves undoes another's.   *)
(* (Every command that saves holds the lock when it does.)                  *)
FileIsHolders ==
  \A c \in Applier \cup Prober : pc[c] \in {"applying", "probing"} => recorded = mem[c]

(* What a crash before the save left behind is removed in the end, if gc    *)
(* keeps being run and the other commands come to rest.                     *)
OrphansGo ==
  <>[](\A c \in Locker : pc[c] = "idle") => <>[](live \subseteq recorded)
=============================================================================
