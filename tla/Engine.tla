------------------------------- MODULE Engine -------------------------------
(***************************************************************************)
(* The reconciliation engine of internal/application/engine with the plans *)
(* of internal/application/plan: `apply' and `destroy' executing a plan    *)
(* level by level, `import', failures, crashes, and the operator and the   *)
(* world around them (edited manifests, rotated secrets, drift).           *)
(*                                                                         *)
(* One command runs at a time: it holds the state lock (StateLock and      *)
(* LeaseLock model the lock itself).  The MediatedTransport gate is off,   *)
(* so no mediation fabric is ensured or torn down.                         *)
(***************************************************************************)
EXTENDS Resources, Integers

CONSTANTS
  Manifests,    \* the manifest sets the operator may have on disk
  InitialState, \* the state files a first run may find
  InitialLive,  \* the runtime objects that may exist before it
  Importable,   \* the keys the operator may import
  Options,      \* flag combinations of one invocation
  Parallelism,  \* --parallelism
  MaxFaults,    \* bound: failed provider calls, failed saves and crashes
  MaxSecret     \* bound: secret material is rotated up to this version

Object == [hash: Nat, seen: [Key -> Nat]]

Flags == {"external",  \* --include-external and its confirmation
          "imported",  \* --include-imported, --include-imported-deletes
          "halt",      \* --halt-on-error
          "heal"}      \* the DriftDetection gate

ASSUME ManifestsAssumption == \A m \in Manifests : Buildable(m)
ASSUME InitialStateAssumption ==
  \A s \in InitialState : DOMAIN s \subseteq Key /\ \A k \in DOMAIN s : s[k] \in ResourceState
ASSUME InitialLiveAssumption ==
  \A f \in InitialLive : DOMAIN f \subseteq Key /\ \A k \in DOMAIN f : f[k] \in Object
(* Equal hashes are hashes of equal specs, and a spec names the secrets it  *)
(* refers to.  Other dependencies may change with the rest of the set: a    *)
(* Connection depends on what its target host names (graph.go:224-237), and *)
(* observers are metadata.  (A name that one set gives to a SecretReference *)
(* and another set to a resource of another kind is left out.)              *)
ASSUME SpecHashAssumption ==
  \A m, n \in Manifests : \A k \in DOMAIN m \cap DOMAIN n :
    m[k].hash = n[k].hash => /\ m[k].deps \cap SecretKey = n[k].deps \cap SecretKey
                             /\ m[k].external = n[k].external

(* The records a first run finds are no newer than the secrets, nor than    *)
(* the object they are about; a SecretReference has no object.              *)
FirstVersion(k) == IF k \in SecretKey THEN 1 ELSE 0
ASSUME HistoryAssumption ==
  /\ \A r \in InitialState : \A k \in DOMAIN r :
       r[k].secret <= FirstVersion(k) /\ \A d \in Key : r[k].depSecrets[d] <= FirstVersion(d)
  /\ \A f \in InitialLive : \A k \in DOMAIN f :
       k \notin SecretKey /\ \A d \in SecretKey : f[k].seen[d] <= FirstVersion(d)
  /\ \A r \in InitialState, f \in InitialLive : \A k \in DOMAIN r \cap DOMAIN f :
       r[k].hash = f[k].hash => \A d \in SecretKey : r[k].depSecrets[d] <= f[k].seen[d]
ASSUME OptionsAssumption == Options \subseteq SUBSET Flags
ASSUME ImportableAssumption == Importable \subseteq Key
ASSUME BoundsAssumption ==
  Parallelism \in Nat \ {0} /\ MaxFaults \in Nat /\ MaxSecret \in Nat \ {0}

VARIABLES
  manifest,  \* the manifests on disk
  secret,    \* the material behind each SecretReference, as a version number
  live,      \* what the runtime holds: spec hash and the inputs it was built from
  st,        \* the persisted state file
  cmd,       \* "idle", or the command that holds the lock
  opts,      \* the flags of the running command
  desired,   \* the envelopes the running command loaded
  byKey,     \* desired, completed from LastApplied for planned deletes
  mem,       \* the running command's in-memory state
  plan,      \* the running command's plan
  phase,     \* how far each plan entry is
  blocked,   \* entries that must be skipped
  faults,    \* faults so far (bounded by MaxFaults)
  quiet      \* nothing outside changed since the last apply was planned

world == <<manifest, secret, faults>>
run == <<opts, desired, byKey, plan>>
vars == <<world, live, st, cmd, run, mem, phase, blocked, quiet>>

Actions == {"create", "update", "configure", "noop", "delete", "refused", "orphan-unknown"}
Entry == [action: Actions, level: Nat, secret: Nat]
Phases == {"none", "pending", "running", "realized", "ok", "noop", "failed", "skipped"}
Finished == {"ok", "noop", "failed", "skipped"}
Active == {k \in Key : phase[k] \in {"running", "realized"}}
-----------------------------------------------------------------------------
(* plan.ComputeWithSecretHashes *)

secretMaterialChanged(s, h, k) ==
  /\ k \in SecretKey
  /\ k \in DOMAIN s
  /\ s[k].secret # h[k]

(* Fault: DependencyHashes is not consulted. *)
dependencySecretIgnored(s, h, k, dep) == FALSE

(* prior.DependencyHashes is compared for direct edges only. *)
dependencySecretChanged(s, h, k, dep) ==
  dep \in SecretKey /\ s[k].depSecrets[dep] # h[dep]

Prior(s, k) == k \in DOMAIN s /\ s[k].imported
LifecycleIn(m, s, k) == LifecycleOf(m[k], Prior(s, k))

(* Fault: the spec hash is not compared. *)
OwnActionByPresence(m, s, h, k) ==
  IF k \notin DOMAIN s THEN "create" ELSE "noop"

OwnAction(m, s, h, k) ==
  LET differs == k \notin DOMAIN s \/ s[k].hash # m[k].hash \/ secretMaterialChanged(s, h, k)
  IN CASE LifecycleIn(m, s, k) = "External" -> IF differs THEN "configure" ELSE "noop"
       [] k \notin DOMAIN s -> "create"
       [] OTHER -> IF differs THEN "update" ELSE "noop"

(* The keys one topological pass marks `changed': an entry that is not a    *)
(* noop, and a Managed entry with a changed dependency.                     *)
Cascades(m, s, h, C, k) ==
  /\ LifecycleIn(m, s, k) = "Managed"
  /\ \E dep \in m[k].deps : dep \in C \/ dependencySecretChanged(s, h, k, dep)

ChangedKeys(m, s, h) ==
  CHOOSE C \in SUBSET DOMAIN m :
    C = {k \in DOMAIN m : OwnAction(m, s, h, k) # "noop" \/ Cascades(m, s, h, C, k)}

DesiredAction(m, s, h, C, k) ==
  LET own == OwnAction(m, s, h, k)
  IN IF own = "noop" /\ k \in C THEN "update" ELSE own

(* plan.computeApplyDeletes: recorded, no longer declared; dependents first *)
(* along the dependencies their entries recorded.                           *)
Absent(m, s) == DOMAIN s \ DOMAIN m
AbsentEdges(m, s) == [k \in Absent(m, s) |-> s[k].deps \cap Absent(m, s)]

(* Fault: a protected entry is passed over. *)
DeleteActionForgiving(s, k) ==
  IF s[k].env = NoEnvelope THEN "orphan-unknown"
  ELSE IF s[k].env.protect THEN "noop" ELSE "delete"

DeleteAction(s, k) ==
  IF s[k].env = NoEnvelope THEN "orphan-unknown"
  ELSE IF s[k].env.protect THEN "refused" ELSE "delete"

PlannedAction(m, s, h, k) ==
  IF k \in DOMAIN m THEN DesiredAction(m, s, h, ChangedKeys(m, s, h), k) ELSE DeleteAction(s, k)

(* The depths of the absent entries.  Their recorded dependencies date from *)
(* different applies; if they form a cycle, the recursive visit cuts it     *)
(* wherever Go's map iteration happened to start, and any order may result. *)
DeleteDepths(g) ==
  IF Depths(g) # {} THEN Depths(g) ELSE [DOMAIN g -> 0..Cardinality(Key)]

ComputeWithSecretHashes(m, s, h, del) ==
  LET C == ChangedKeys(m, s, h)
      lv == Levels(EdgeMap(m))
  IN [k \in DOMAIN m \cup DOMAIN s |->
        IF k \in DOMAIN m
        THEN [action |-> DesiredAction(m, s, h, C, k), level |-> lv[k],
              secret |-> IF k \in SecretKey THEN h[k] ELSE 0]
        ELSE [action |-> DeleteAction(s, k), level |-> 2 * Height - del[k], secret |-> 0]]

(* Fault: Imported resources are treated as Managed ones. *)
DestroyActionBlind(m, s, o, k) ==
  LET included == IF LifecycleIn(m, s, k) = "External" THEN "external" \in o ELSE k \in DOMAIN s
  IN IF ~included THEN "noop" ELSE IF m[k].protect THEN "refused" ELSE "delete"

(* plan.ComputeDestroy: reverse levels; what the flags do not include is a  *)
(* noop, and protect turns a delete into a refusal.                         *)
DestroyAction(m, s, o, k) ==
  LET included == CASE LifecycleIn(m, s, k) = "External" -> "external" \in o
                    [] LifecycleIn(m, s, k) = "Imported" -> "imported" \in o
                    [] OTHER -> k \in DOMAIN s
  IN IF ~included THEN "noop" ELSE IF m[k].protect THEN "refused" ELSE "delete"

ComputeDestroy(m, s, o) ==
  LET lv == Levels(EdgeMap(m))
  IN [k \in DOMAIN m |-> [action |-> DestroyAction(m, s, o, k),
                          level |-> Height - lv[k], secret |-> 0]]

-----------------------------------------------------------------------------
(* Starting a command: load the manifests and the state, plan, and hold the *)
(* result in memory.                                                        *)

Start(c, o, p) ==
  /\ cmd = "idle"
  /\ cmd' = c
  /\ opts' = o
  /\ desired' = manifest
  /\ plan' = p
  /\ mem' = st
  /\ byKey' = [k \in DOMAIN manifest \cup {x \in DOMAIN p \cap DOMAIN st : st[x].env # NoEnvelope} |->
                 IF k \in DOMAIN manifest THEN manifest[k] ELSE st[k].env]
  /\ phase' = [k \in Key |-> IF k \in DOMAIN p THEN "pending" ELSE "none"]
  /\ blocked' = {}
  /\ UNCHANGED <<world, live, st>>

StartApply(o) ==
  /\ \E del \in DeleteDepths(AbsentEdges(manifest, st)) :
       Start("apply", o, ComputeWithSecretHashes(manifest, st, secret, del))
  /\ quiet' = TRUE

StartDestroy(o) ==
  /\ Start("destroy", o, ComputeDestroy(manifest, st, o))
  /\ quiet' = FALSE

(* A command that returns or dies leaves nothing in memory. *)
Exit ==
  /\ cmd' = "idle"
  /\ opts' = {}
  /\ desired' = Empty /\ byKey' = Empty /\ plan' = Empty /\ mem' = Empty
  /\ phase' = [k \in Key |-> "none"]
  /\ blocked' = {}

-----------------------------------------------------------------------------
(* Scheduling: levels are barriers; inside one, up to Parallelism entries   *)
(* run at once.  --halt-on-error stops after an entry when sequential, and  *)
(* at the end of the level when parallel.  Destroy is sequential.           *)

Workers == IF cmd = "apply" THEN Parallelism ELSE 1

(* Fault: off by one, the level directly below is not waited for. *)
BarrierOffByOne(k) ==
  \A j \in DOMAIN plan : plan[j].level + 1 < plan[k].level => phase[j] \in Finished

BarrierPassed(k) ==
  \A j \in DOMAIN plan : plan[j].level < plan[k].level => phase[j] \in Finished

Halted(k) ==
  /\ cmd = "apply" /\ "halt" \in opts
  /\ \E j \in DOMAIN plan :
       phase[j] = "failed" /\ (Workers = 1 \/ plan[j].level < plan[k].level)

CanBegin(k) ==
  /\ k \in DOMAIN plan
  /\ phase[k] = "pending"
  /\ Cardinality(Active) < Workers
  /\ BarrierPassed(k)
  /\ ~Halted(k)

Advance(k, p) == phase' = [phase EXCEPT ![k] = p]

(* Fault: destroy blocks in apply's direction. *)
FalloutUpwards(k) == Dependents(desired, k)

(* What a failed entry takes down with it: apply blocks the dependents,     *)
(* destroy the dependencies, both in the declared graph.                    *)
Fallout(k) ==
  IF cmd = "apply" THEN Dependents(desired, k)
  ELSE Dependencies(desired, k)

Fail(k) ==
  /\ Advance(k, "failed")
  /\ blocked' = blocked \cup Fallout(k)

Lifecycle(k) == LifecycleOf(byKey[k], Prior(mem, k))

(* An entry that is not executed.  Apply looks at `blocked' first; destroy  *)
(* passes over a noop, and fails a refusal, before it does.                 *)
Skip(k) ==
  /\ CanBegin(k)
  /\ k \in blocked
  /\ cmd = "destroy" => plan[k].action = "delete"
  /\ Advance(k, "skipped")
  /\ UNCHANGED <<world, live, st, cmd, run, mem, blocked, quiet>>

(* orphan-unknown, refused, or no manifest to act on.  Apply records the    *)
(* failure and blocks nothing; destroy blocks the dependencies.             *)
Refuse(k) ==
  /\ CanBegin(k)
  /\ cmd = "apply" => k \notin blocked
  /\ plan[k].action \in {"refused", "orphan-unknown"}
  /\ IF cmd = "apply" THEN Advance(k, "failed") /\ UNCHANGED blocked ELSE Fail(k)
  /\ UNCHANGED <<world, live, st, cmd, run, mem, quiet>>

(* A noop whose infrastructure is to be probed and may be healed. *)
Healable(k) ==
  /\ cmd = "apply"
  /\ "heal" \in opts
  /\ k \in DOMAIN mem
  /\ Lifecycle(k) = "Managed"
  /\ ~StateOnly(k, byKey[k])

(* Probing finds a missing object always; whether it notices one that is    *)
(* there with another configuration depends on the provider.                *)
Noop(k) ==
  /\ CanBegin(k)
  /\ plan[k].action = "noop"
  /\ cmd = "apply" => k \notin blocked
  /\ Healable(k) => k \in DOMAIN live
  /\ Advance(k, "noop")
  /\ UNCHANGED <<world, live, st, cmd, run, mem, blocked, quiet>>

(* Fault: the entry is put into the in-memory state before the call. *)
RunRecordingEarly(k) ==
  /\ CanBegin(k)
  /\ k \notin blocked
  /\ plan[k].action \in {"create", "update", "configure", "delete"}
  /\ mem' = IF plan[k].action = "delete" THEN mem
            ELSE Put(mem, k, [hash |-> byKey[k].hash, imported |-> Prior(mem, k), env |-> byKey[k],
                              deps |-> byKey[k].deps, secret |-> plan[k].secret, depSecrets |-> NoHashes])
  /\ Advance(k, "running")
  /\ UNCHANGED <<world, live, st, cmd, run, blocked, quiet>>

Run(k) ==
  /\ CanBegin(k)
  /\ k \notin blocked
  /\ \/ plan[k].action \in {"create", "update", "configure", "delete"}
     \/ /\ plan[k].action = "noop" /\ Healable(k)
        /\ k \in DOMAIN live => live[k].hash # byKey[k].hash
  /\ Advance(k, "running")
  /\ UNCHANGED <<world, live, st, cmd, run, mem, blocked, quiet>>

-----------------------------------------------------------------------------
(* Executing one entry.  The provider call (realize or destroy) and the     *)
(* recording of its result are separate steps; only the second one holds    *)
(* stateMu.                                                                 *)

Deleting(k) == plan[k].action = "delete"

(* Fault: applyDeleteOne has no guard for Imported. *)
ForbiddenExternalOnly(k) ==
  Deleting(k) /\ Lifecycle(k) = "External" /\ "external" \notin opts

(* applyDeleteOne and Destroy: the lifecycle guards of NFR-3.  Destroy has  *)
(* no guard for Imported, ComputeDestroy already left those out.            *)
Forbidden(k) ==
  /\ Deleting(k)
  /\ \/ Lifecycle(k) = "External" /\ "external" \notin opts
     \/ Lifecycle(k) = "Imported" /\ "imported" \notin opts /\ cmd = "apply"

(* resolveRequest: the provider of a resource must be among the envelopes. *)
Resolvable(k) == StateOnly(k, byKey[k]) \/ byKey[k].prov \in DOMAIN byKey

(* The runtime after the provider call for k.  A provider builds the object *)
(* from the manifest of k, the objects it depends on and the secrets as     *)
(* they are resolved at that moment.                                        *)
Inputs(k) ==
  [d \in Key |-> IF d \notin byKey[k].deps THEN 0
                 ELSE IF d \in SecretKey THEN secret[d]
                 ELSE IF d \in DOMAIN live THEN live[d].hash ELSE 0]

Effect(k) ==
  IF StateOnly(k, byKey[k]) THEN live
  ELSE IF Deleting(k) THEN Del(live, k)
  ELSE Put(live, k, [hash |-> byKey[k].hash, seen |-> Inputs(k)])

Realize(k) ==
  /\ phase[k] = "running"
  /\ ~Forbidden(k) /\ Resolvable(k)
  /\ live' = Effect(k)
  /\ Advance(k, "realized")
  /\ UNCHANGED <<world, st, cmd, run, mem, blocked, quiet>>

(* A guard or resolveRequest rejects the entry before any provider call. *)
Reject(k) ==
  /\ phase[k] = "running"
  /\ Forbidden(k) \/ ~Resolvable(k)
  /\ Fail(k)
  /\ UNCHANGED <<world, live, st, cmd, run, mem, quiet>>

(* What a failed provider call may leave: all as it was, its effect, or the *)
(* old object removed and no new one made.                                  *)
Remnants(k) ==
  {live, Effect(k)} \cup IF StateOnly(k, byKey[k]) THEN {} ELSE {Del(live, k)}

(* The provider call fails.  The deleteStateOnly hook makes no such call.   *)
CallFails(k) ==
  /\ phase[k] = "running"
  /\ ~(Deleting(k) /\ StateOnly(k, byKey[k]))
  /\ ~Forbidden(k) /\ Resolvable(k)
  /\ faults < MaxFaults /\ faults' = faults + 1
  /\ live' \in Remnants(k)
  /\ Fail(k)
  /\ UNCHANGED <<manifest, secret, st, cmd, run, mem, quiet>>

(* Fault: the secret's fingerprint is not recorded. *)
RecordedWithoutSecret(k) ==
  [hash |-> byKey[k].hash, imported |-> Prior(mem, k), env |-> byKey[k],
   deps |-> Dependencies(desired, k), secret |-> 0, depSecrets |-> NoHashes]

(* Engine.resourceState and recordDependencyHashes. *)
Recorded(k) ==
  LET deps == Dependencies(desired, k)
  IN [hash |-> byKey[k].hash, imported |-> Prior(mem, k), env |-> byKey[k], deps |-> deps,
      secret |-> plan[k].secret,
      depSecrets |-> [d \in Key |-> IF d \in deps \cap DOMAIN mem THEN mem[d].secret ELSE 0]]

MemAfter(k) == IF Deleting(k) THEN Del(mem, k) ELSE Put(mem, k, Recorded(k))

(* Under stateMu: update the in-memory state and save all of it. *)
Record(k) ==
  /\ phase[k] = "realized"
  /\ mem' = MemAfter(k)
  /\ st' = MemAfter(k)
  /\ Advance(k, "ok")
  /\ UNCHANGED <<world, live, cmd, run, blocked, quiet>>

(* Save fails: the in-memory update stays.  Apply fails the entry, destroy  *)
(* returns at once.                                                         *)
SaveFails(k) ==
  /\ phase[k] = "realized"
  /\ faults < MaxFaults /\ faults' = faults + 1
  /\ \/ /\ cmd = "apply"
        /\ mem' = MemAfter(k)
        /\ Fail(k)
        /\ UNCHANGED <<cmd, run>>
     \/ cmd = "destroy" /\ Exit
  /\ UNCHANGED <<manifest, secret, live, st, quiet>>

-----------------------------------------------------------------------------
(* The end of a command: every level done, or halted with nothing running.  *)
(* (That apply reports two names hashed to one host port, after the entries *)
(* themselves went through, is left out: what holds of a success is then    *)
(* claimed of that error too.)                                              *)

Finish ==
  /\ cmd # "idle"
  /\ Active = {}
  /\ \A k \in DOMAIN plan : phase[k] = "pending" => Halted(k)
  /\ Exit
  /\ quiet' = (quiet /\ cmd = "apply" /\ \A k \in DOMAIN plan : phase[k] \in {"ok", "noop"})
  /\ UNCHANGED <<world, live, st>>

(* The process dies: what it held in memory is gone, the lock is released   *)
(* by the kernel or by the lease's expiry.                                  *)
Crash ==
  /\ cmd # "idle"
  /\ faults < MaxFaults /\ faults' = faults + 1
  /\ Exit
  /\ quiet' = FALSE
  /\ UNCHANGED <<manifest, secret, live, st>>

(* Engine.Import: the object exists and is healthy; its entry is replaced,  *)
(* without dependencies or fingerprints.                                    *)
Import(k) ==
  /\ cmd = "idle"
  /\ k \in DOMAIN manifest
  /\ StateOnly(k, manifest[k]) \/ k \in DOMAIN live
  /\ st' = Put(st, k, [hash |-> manifest[k].hash, imported |-> TRUE, env |-> manifest[k],
                       deps |-> {}, secret |-> 0, depSecrets |-> NoHashes])
  /\ quiet' = FALSE
  /\ UNCHANGED <<world, live, cmd, run, mem, phase, blocked>>

-----------------------------------------------------------------------------
(* The world *)

(* A running command has loaded its manifests, so edits matter between      *)
(* commands only.                                                           *)
EditManifests(m) ==
  /\ cmd = "idle"
  /\ m \in Manifests \ {manifest}
  /\ manifest' = m
  /\ quiet' = FALSE
  /\ UNCHANGED <<secret, faults, live, st, cmd, run, mem, phase, blocked>>

Rotate(k) ==
  /\ secret[k] < MaxSecret
  /\ secret' = [secret EXCEPT ![k] = @ + 1]
  /\ quiet' = FALSE
  /\ UNCHANGED <<manifest, faults, live, st, cmd, run, mem, phase, blocked>>

(* An object disappears behind the engine's back. *)
Drift(k) ==
  /\ k \in DOMAIN live
  /\ faults < MaxFaults /\ faults' = faults + 1
  /\ live' = Del(live, k)
  /\ quiet' = FALSE
  /\ UNCHANGED <<manifest, secret, st, cmd, run, mem, phase, blocked>>

-----------------------------------------------------------------------------
Init ==
  /\ manifest \in Manifests
  /\ secret = [k \in Key |-> FirstVersion(k)]
  /\ live \in InitialLive
  /\ st \in InitialState
  /\ cmd = "idle"
  /\ opts = {}
  /\ desired = Empty /\ byKey = Empty /\ mem = Empty /\ plan = Empty
  /\ phase = [k \in Key |-> "none"]
  /\ blocked = {}
  /\ faults = 0
  /\ quiet = FALSE

Execute(k) ==
  /\ cmd # "idle"
  /\ \/ Skip(k) \/ Refuse(k) \/ Noop(k) \/ Run(k)
     \/ Realize(k) \/ Reject(k) \/ CallFails(k)
     \/ Record(k) \/ SaveFails(k)

Environment ==
  \/ \E m \in Manifests : EditManifests(m)
  \/ \E k \in SecretKey : Rotate(k)
  \/ \E k \in Key : Drift(k)

Next ==
  \/ \E o \in Options : StartApply(o) \/ StartDestroy(o)
  \/ \E k \in Key : Execute(k)
  \/ \E k \in Importable : Import(k)
  \/ Finish
  \/ Crash
  \/ Environment

Spec == Init /\ [][Next]_vars

(* A process that is not killed keeps executing, and an operator whose      *)
(* apply did not succeed runs it again.                                     *)
Progress == (\E k \in Key : Execute(k)) \/ Finish
Fairness == WF_vars(Progress) /\ WF_vars(\E o \in Options : StartApply(o))
FairSpec == Spec /\ Fairness

-----------------------------------------------------------------------------
(* Properties *)

IsMap(f, S) == DOMAIN f \subseteq Key /\ \A k \in DOMAIN f : f[k] \in S

(* Every variable has the shape of the Go value it stands for. *)
TypeOK ==
  /\ manifest \in Manifests
  /\ secret \in [Key -> Nat]
  /\ IsMap(live, Object)
  /\ IsMap(st, ResourceState) /\ IsMap(mem, ResourceState)
  /\ cmd \in {"idle", "apply", "destroy"}
  /\ opts \subseteq Flags
  /\ IsMap(desired, Envelope) /\ IsMap(byKey, Envelope)
  /\ IsMap(plan, Entry)
  /\ phase \in [Key -> Phases]
  /\ blocked \subseteq Key
  /\ faults \in 0..MaxFaults
  /\ quiet \in BOOLEAN

(* Apply never calls a provider for a declared resource before everything   *)
(* it transitively depends on has been reconciled or found unchanged in the *)
(* same run: not while a dependency is in flight in the same level, and not *)
(* after one failed or was itself skipped.  (Levels, `blocked' and the      *)
(* barrier of Engine.Apply together.)                                       *)
ReconcileAfterDependencies ==
  \A k \in Active \cap DOMAIN desired :
    cmd = "apply" => \A d \in Dependencies(desired, k) : phase[d] \in {"ok", "noop"}

(* Destroy never tears a resource down while something that depends on it,  *)
(* and that the same destroy is to delete, has failed to go, was refused,   *)
(* was skipped or is still to be tried.  Dependents it leaves standing      *)
(* (Imported or External without their flags, engine.go:1245) are noops and *)
(* hold nothing back.                                                       *)
DestroyAfterDependents ==
  \A k \in Active :
    cmd = "destroy" => \A d \in Dependents(desired, k) : phase[d] \in {"ok", "noop"}

(* A save of the whole in-memory state changes the record of no entry that  *)
(* is not finished with its provider call: what a crash can lose is the     *)
(* entries in flight, never a neighbour's record.  (reconcileOne and        *)
(* applyDeleteOne save under stateMu.)                                      *)
SameEntry(k, f, g) == (k \in DOMAIN f <=> k \in DOMAIN g) /\ (k \in DOMAIN f => f[k] = g[k])
SaveTouchesOnlyRealized ==
  [][\A k \in Key : (cmd # "idle" /\ ~SameEntry(k, st, st')) => phase[k] \in {"realized", "failed"}]_vars

(* NFR-3: no step of the engine removes the object of an External resource  *)
(* without the double opt-in, or of an Imported one without its flag,       *)
(* whichever of plan, applyDeleteOne and Destroy decides.  An update that   *)
(* failed after it had removed the old object is not a destroy.             *)
NoUninvitedDestroy ==
  [][\A k \in DOMAIN live \ DOMAIN live' :
       phase[k] = "running" /\ phase'[k] # "running" /\ Deleting(k) =>
         /\ Lifecycle(k) = "External" => "external" \in opts
         /\ Lifecycle(k) = "Imported" => "imported" \in opts]_vars

(* The last apply succeeded and nothing outside has changed since. *)
Settled == cmd = "idle" /\ quiet

(* Apply is authoritative (ADR 012): once it succeeded, exactly the         *)
(* declared resources are recorded, each with the hash of its manifest.     *)
SettledIsAuthoritative ==
  Settled => /\ DOMAIN st = DOMAIN manifest
             /\ \A k \in DOMAIN st : st[k].hash = manifest[k].hash

(* NFR-2: applying again plans nothing but noops. *)
SettledReplansNoop ==
  Settled => \A k \in DOMAIN manifest \cup DOMAIN st :
               PlannedAction(manifest, st, secret, k) = "noop"

(* Once an apply succeeded, no Managed resource runs on rotated-out         *)
(* material of a secret it references directly, whatever failed or crashed  *)
(* in the runs before (DependencyHashes).  An object that was built from    *)
(* another spec is not meant: when an update took effect and was never      *)
(* recorded, and its manifest is edited back, the plan is a noop.           *)
SettledSecretsCurrent ==
  Settled => \A k \in DOMAIN live \cap DOMAIN manifest :
    live[k].hash = manifest[k].hash /\ LifecycleIn(manifest, st, k) = "Managed" =>
      \A d \in manifest[k].deps \cap SecretKey : live[k].seen[d] = secret[d]

(* If the operator stops editing and tearing down, repeated applies record  *)
(* every declared resource with its current hash, whatever failed before.   *)
Converged == \A k \in DOMAIN manifest : k \in DOMAIN st /\ st[k].hash = manifest[k].hash
EventuallyConverges ==
  ((\E m \in Manifests : <>[](manifest = m)) /\ <>[](cmd # "destroy")) => <>[]Converged

-----------------------------------------------------------------------------
(* The inductive invariant behind the ordering and guard properties *)

Schedulable == {"create", "update", "configure", "noop"}

(* What every plan in execution satisfies. *)
PlanInv ==
  /\ cmd = "idle" => plan = Empty
  /\ cmd # "idle" => desired \in Manifests /\ DOMAIN desired \subseteq DOMAIN plan
  /\ \A k \in Key : phase[k] = "none" <=> k \notin DOMAIN plan
  /\ \A k \in DOMAIN plan : plan[k].action # "orphan-unknown" => k \in DOMAIN byKey
  /\ \A k \in Active : plan[k].action \in Schedulable \cup {"delete"}
  /\ cmd = "apply" => \A k \in DOMAIN desired : plan[k].action \in Schedulable

(* Its levels follow the declared graph: upwards in apply, downwards in     *)
(* destroy.                                                                 *)
LevelInv ==
  /\ cmd = "apply" => \A k \in DOMAIN desired : \A d \in Dependencies(desired, k) :
                        d \in DOMAIN desired /\ plan[d].level < plan[k].level
  /\ cmd = "destroy" => \A k \in DOMAIN desired : \A d \in Dependencies(desired, k) :
                          d \in DOMAIN desired /\ plan[k].level < plan[d].level

(* No entry starts before the levels below it are finished. *)
BarrierInv ==
  \A j, k \in DOMAIN plan :
    plan[j].level < plan[k].level /\ phase[k] # "pending" => phase[j] \in Finished

(* Whatever failed or was skipped blocks all that lies behind it. *)
BlockInv ==
  /\ \A k \in DOMAIN desired : phase[k] \in {"failed", "skipped"} => Fallout(k) \subseteq blocked
  /\ \A k \in blocked : Fallout(k) \subseteq blocked

(* The in-memory state is ahead of the file only where a save failed. *)
SaveInv ==
  cmd # "idle" => \A k \in Key : ~SameEntry(k, st, mem) => phase[k] = "failed"

(* A destroy plan holds no delete of an Imported resource without its flag, *)
(* however the state changes while it runs.                                 *)
GuardInv ==
  cmd = "destroy" => \A k \in DOMAIN plan :
    plan[k].action = "delete" /\ Lifecycle(k) = "Imported" => "imported" \in opts

IInv ==
  /\ SaveInv /\ GuardInv
  /\ TypeOK /\ PlanInv /\ LevelInv /\ BarrierInv /\ BlockInv
  /\ ReconcileAfterDependencies /\ DestroyAfterDependents
=============================================================================
