---------------------------- MODULE EngineProofs ----------------------------
(***************************************************************************)
(* Proofs about Engine, for every set of keys, manifests, initial states   *)
(* and options and every bound.                                            *)
(***************************************************************************)
EXTENDS Engine, FiniteSetTheorems, WellFoundedInduction, TLAPS

USE DEF IsMap

-----------------------------------------------------------------------------
(* The dependency graph *)

(* Dependencies are transitive: what a dependency depends on is a dependency *)
(* (Graph.Dependencies walks on from every resource it reaches).             *)
LEMMA DependenciesTransitive ==
  ASSUME NEW m, NEW k, NEW d \in Dependencies(m, k), NEW e \in Dependencies(m, d)
  PROVE  e \in Dependencies(m, k)
<1>1. SUFFICES ASSUME NEW S \in SUBSET Key, Edges(m, k) \subseteq S, Closed(m, S)
               PROVE  e \in S
  BY DEF Dependencies
<1>2. d \in S
  BY <1>1 DEF Dependencies
<1>3. Edges(m, d) \subseteq S
  BY <1>1, <1>2 DEF Closed
<1> QED BY <1>1, <1>3 DEF Dependencies

(* The dependencies of a declared resource are declared. *)
LEMMA DependenciesDeclared ==
  ASSUME NEW m, Buildable(m), NEW k \in DOMAIN m
  PROVE  Dependencies(m, k) \subseteq DOMAIN m
<1>1. DOMAIN m \in SUBSET Key /\ Edges(m, k) \subseteq DOMAIN m
  BY DEF Buildable, Edges
<1>2. Closed(m, DOMAIN m)
  BY DEF Buildable, Edges, Closed
<1> QED BY <1>1, <1>2 DEF Dependencies

(* A ranking that decreases along every edge decreases along every path. *)
LEMMA RankDecreases ==
  ASSUME NEW m, Buildable(m), NEW rank \in [DOMAIN m -> Nat],
         \A x \in DOMAIN m : \A y \in m[x].deps : rank[y] < rank[x],
         NEW k \in DOMAIN m, NEW d \in Dependencies(m, k)
  PROVE  d \in DOMAIN m /\ rank[d] < rank[k]
<1> DEFINE S == {x \in DOMAIN m : rank[x] < rank[k]}
<1>1. S \in SUBSET Key
  BY DEF Buildable
<1>2. Edges(m, k) \subseteq S
  BY DEF Buildable, Edges
<1>3. Closed(m, S)
  BY DEF Buildable, Edges, Closed
<1> QED BY <1>1, <1>2, <1>3 DEF Dependencies

(* TopologicalLevels puts every resource above what it refers to. *)
LEMMA LevelsIncrease ==
  ASSUME NEW m, Buildable(m)
  PROVE  /\ Levels(EdgeMap(m)) \in [DOMAIN m -> 0..Cardinality(Key)]
         /\ \A k \in DOMAIN m : \A d \in m[k].deps :
              Levels(EdgeMap(m))[d] < Levels(EdgeMap(m))[k]
<1>1. Levels(EdgeMap(m)) \in Depths(EdgeMap(m))
  BY DEF Buildable, Levels
<1>2. DOMAIN EdgeMap(m) = DOMAIN m /\ \A k \in DOMAIN m : EdgeMap(m)[k] = m[k].deps
  BY DEF EdgeMap
<1> QED BY <1>1, <1>2 DEF Depths, IsDepth

-----------------------------------------------------------------------------
(* Maps and plans *)

(* Storing a value of the right type keeps a map well typed. *)
LEMMA PutMap ==
  ASSUME NEW f, NEW S, IsMap(f, S), NEW k \in Key, NEW v \in S
  PROVE  IsMap(Put(f, k, v), S)
BY DEF Put

(* So does deleting an entry. *)
LEMMA DelMap ==
  ASSUME NEW f, NEW S, IsMap(f, S), NEW k
  PROVE  IsMap(Del(f, k), S)
BY DEF Del

(* The number of keys is a natural number: Key is finite. *)
LEMMA HeightNat == Cardinality(Key) \in Nat /\ Height \in Nat /\ Height = Cardinality(Key) + 1
BY KeyAssumption, FS_CardinalityType DEF Height

(* What a plan of apply for manifests m and state s satisfies: well formed, *)
(* acting on the declared resources, each above what it depends on.         *)
SoundApplyPlan(m, s, p) ==
  /\ IsMap(p, Entry)
  /\ DOMAIN p = DOMAIN m \cup DOMAIN s
  /\ \A k \in DOMAIN m : p[k].action \in Schedulable
  /\ \A k \in DOMAIN p \ DOMAIN m :
       p[k].action # "orphan-unknown" => s[k].env # NoEnvelope
  /\ \A k \in DOMAIN m : \A d \in Dependencies(m, k) :
       d \in DOMAIN m /\ p[d].level < p[k].level

(* Every plan ComputeWithSecretHashes returns is of that kind. *)
LEMMA ApplyPlan ==
  ASSUME NEW m \in Manifests, NEW s, IsMap(s, ResourceState), NEW h \in [Key -> Nat],
         NEW del \in DeleteDepths(AbsentEdges(m, s))
  PROVE  SoundApplyPlan(m, s, ComputeWithSecretHashes(m, s, h, del))
<1> DEFINE p == ComputeWithSecretHashes(m, s, h, del)
<1> DEFINE lv == Levels(EdgeMap(m))
           C == ChangedKeys(m, s, h)
<1>1. Buildable(m) /\ DOMAIN m \subseteq Key
  BY ManifestsAssumption DEF Buildable
<1>2. /\ lv \in [DOMAIN m -> 0..Cardinality(Key)]
      /\ \A k \in DOMAIN m : \A d \in m[k].deps : lv[d] < lv[k]
  BY <1>1, LevelsIncrease
<1>3. del \in [Absent(m, s) -> 0..Cardinality(Key)]
  BY DEF DeleteDepths, Depths, AbsentEdges
<1>4. \A k \in DOMAIN m : DesiredAction(m, s, h, C, k) \in Schedulable
  <2> SUFFICES ASSUME NEW k \in DOMAIN m PROVE DesiredAction(m, s, h, C, k) \in Schedulable
    OBVIOUS
  <2>1. OwnAction(m, s, h, k) \in Schedulable
    BY DEF OwnAction, Schedulable
  <2> QED BY <2>1 DEF DesiredAction, Schedulable
<1>5. \A k : DeleteAction(s, k) \in {"orphan-unknown", "refused", "delete"}
  BY DEF DeleteAction
<1>6. /\ DOMAIN p = DOMAIN m \cup DOMAIN s
      /\ \A k \in DOMAIN m : p[k] = [action |-> DesiredAction(m, s, h, C, k), level |-> lv[k],
                                     secret |-> IF k \in SecretKey THEN h[k] ELSE 0]
      /\ \A k \in Absent(m, s) : p[k] = [action |-> DeleteAction(s, k),
                                         level |-> 2 * Height - del[k], secret |-> 0]
  BY DEF ComputeWithSecretHashes, Absent
<1>7. IsMap(p, Entry)
  <2>1. \A k \in DOMAIN m : p[k] \in Entry
    <3> SUFFICES ASSUME NEW k \in DOMAIN m PROVE p[k] \in Entry
      OBVIOUS
    <3>1. lv[k] \in Nat /\ (IF k \in SecretKey THEN h[k] ELSE 0) \in Nat
      BY <1>1, <1>2, HeightNat
    <3> QED BY <1>4, <1>6, <3>1 DEF Entry, Actions, Schedulable
  <2>2. \A k \in Absent(m, s) : p[k] \in Entry
    <3> SUFFICES ASSUME NEW k \in Absent(m, s) PROVE p[k] \in Entry
      OBVIOUS
    <3>1. 2 * Height - del[k] \in Nat
      BY <1>3, HeightNat
    <3>2. p[k] = [action |-> DeleteAction(s, k), level |-> 2 * Height - del[k], secret |-> 0]
      BY <1>6
    <3>3. DeleteAction(s, k) \in Actions
      BY <1>5 DEF Actions
    <3> HIDE DEF Actions
    <3> QED BY <3>1, <3>2, <3>3 DEF Entry
  <2> QED BY <1>1, <1>6, <2>1, <2>2 DEF Absent
<1>8. \A k \in DOMAIN p \ DOMAIN m : p[k].action # "orphan-unknown" => s[k].env # NoEnvelope
  BY <1>6 DEF Absent, DeleteAction
<1>9. ASSUME NEW k \in DOMAIN m, NEW d \in Dependencies(m, k)
      PROVE  d \in DOMAIN m /\ p[d].level < p[k].level
  <2>1. lv \in [DOMAIN m -> Nat]
    BY <1>2, HeightNat
  <2>2. d \in DOMAIN m /\ lv[d] < lv[k]
    BY <1>1, <1>2, <1>9, <2>1, RankDecreases
  <2> QED BY <1>6, <1>9, <2>2
<1> HIDE DEF p, lv, C
<1>10. p = ComputeWithSecretHashes(m, s, h, del)
  BY DEF p
<1>11. SoundApplyPlan(m, s, p)
  <2>1. \A k \in DOMAIN m : p[k].action \in Schedulable
    BY <1>4, <1>6
  <2> QED BY <1>6, <1>7, <1>8, <1>9, <2>1 DEF SoundApplyPlan
<1> QED BY <1>10, <1>11

(* What a plan of destroy satisfies: well formed, each resource below what  *)
(* it depends on.                                                           *)
SoundDestroyPlan(m, p) ==
  /\ IsMap(p, Entry)
  /\ DOMAIN p = DOMAIN m
  /\ \A k \in DOMAIN m : \A d \in Dependencies(m, k) :
       d \in DOMAIN m /\ p[k].level < p[d].level

(* Every plan ComputeDestroy returns is of that kind. *)
LEMMA DestroyPlan ==
  ASSUME NEW m \in Manifests, NEW s, NEW o
  PROVE  SoundDestroyPlan(m, ComputeDestroy(m, s, o))
<1> DEFINE lv == Levels(EdgeMap(m))
           p == ComputeDestroy(m, s, o)
<1>1. Buildable(m) /\ DOMAIN m \subseteq Key
  BY ManifestsAssumption DEF Buildable
<1>2. /\ lv \in [DOMAIN m -> 0..Cardinality(Key)]
      /\ \A k \in DOMAIN m : \A d \in m[k].deps : lv[d] < lv[k]
  BY <1>1, LevelsIncrease
<1>3. \A k \in DOMAIN m : p[k] = [action |-> DestroyAction(m, s, o, k),
                                  level |-> Height - lv[k], secret |-> 0]
  BY DEF ComputeDestroy
<1>4. \A k : DestroyAction(m, s, o, k) \in Actions
  BY DEF DestroyAction, Actions
<1>5. \A k \in DOMAIN m : Height - lv[k] \in Nat
  BY <1>2, HeightNat
<1>6. IsMap(p, Entry) /\ DOMAIN p = DOMAIN m
  BY <1>1, <1>3, <1>4, <1>5 DEF Entry, ComputeDestroy
<1>7. ASSUME NEW k \in DOMAIN m, NEW d \in Dependencies(m, k)
      PROVE  d \in DOMAIN m /\ p[k].level < p[d].level
  <2>1. lv \in [DOMAIN m -> Nat]
    BY <1>2, HeightNat
  <2>2. d \in DOMAIN m /\ lv[d] < lv[k]
    BY <1>1, <1>2, <1>7, <2>1, RankDecreases
  <2>3. lv[d] \in Nat /\ lv[k] \in Nat
    BY <1>7, <2>1, <2>2
  <2> HIDE DEF lv
  <2>4. p[d].level = Height - lv[d] /\ p[k].level = Height - lv[k]
    <3> DEFINE down(x) == Height - lv[x]
               do(x) == DestroyAction(m, s, o, x)
    <3>1. \A x \in DOMAIN m : p[x] = [action |-> do(x), level |-> down(x), secret |-> 0]
      BY <1>3
    <3>2. p[d].level = down(d) /\ p[k].level = down(k)
      <4>1. p[d] = [action |-> do(d), level |-> down(d), secret |-> 0]
        BY <2>2, <3>1
      <4>2. p[k] = [action |-> do(k), level |-> down(k), secret |-> 0]
        BY <3>1
      <4> HIDE DEF down, do
      <4> QED BY <4>1, <4>2
    <3> QED BY <3>2
  <2> QED BY <2>2, <2>3, <2>4, HeightNat
<1> QED BY <1>6, <1>7 DEF SoundDestroyPlan

-----------------------------------------------------------------------------
(* Types *)

TypeInv == TypeOK /\ PlanInv

(* The state entry resourceState builds is well typed. *)
LEMMA RecordedType ==
  ASSUME TypeOK, NEW k \in DOMAIN plan, k \in DOMAIN byKey
  PROVE  Recorded(k) \in ResourceState
<1> DEFINE deps == Dependencies(desired, k)
           dep(d) == IF d \in deps \cap DOMAIN mem THEN mem[d].secret ELSE 0
<1>1. byKey[k] \in Envelope /\ byKey[k].hash \in Nat
  BY DEF TypeOK, Envelope
<1>2. deps \in SUBSET Key
  BY DEF Dependencies
<1>3. plan[k].secret \in Nat
  BY DEF TypeOK, Entry
<1>4. [d \in Key |-> dep(d)] \in [Key -> Nat]
  BY DEF TypeOK, ResourceState
<1>5. Prior(mem, k) \in BOOLEAN
  BY DEF TypeOK, ResourceState, Prior
<1> HIDE DEF deps, dep
<1>6. Recorded(k) = [hash |-> byKey[k].hash, imported |-> Prior(mem, k), env |-> byKey[k],
                     deps |-> deps, secret |-> plan[k].secret,
                     depSecrets |-> [d \in Key |-> dep(d)]]
  BY DEF Recorded, deps, dep
<1> QED BY <1>1, <1>2, <1>3, <1>4, <1>5, <1>6 DEF ResourceState

(* The in-memory state after an entry is recorded is well typed. *)
LEMMA MemAfterType ==
  ASSUME TypeOK, NEW k \in DOMAIN plan, k \in DOMAIN byKey
  PROVE  IsMap(MemAfter(k), ResourceState)
<1>1. k \in Key /\ IsMap(mem, ResourceState)
  BY DEF TypeOK
<1>2. CASE Deleting(k)
  BY <1>1, <1>2, DelMap DEF MemAfter
<1>3. CASE ~Deleting(k)
  BY <1>1, <1>3, RecordedType, PutMap DEF MemAfter
<1> QED BY <1>2, <1>3

(* So is the runtime after the provider call. *)
LEMMA EffectType ==
  ASSUME TypeOK, NEW k \in DOMAIN byKey
  PROVE  IsMap(Effect(k), Object)
<1>1. k \in Key /\ IsMap(live, Object) /\ byKey[k].hash \in Nat
  BY DEF TypeOK, Envelope
<1>2. Inputs(k) \in [Key -> Nat]
  BY DEF TypeOK, Inputs, Object
<1>3. [hash |-> byKey[k].hash, seen |-> Inputs(k)] \in Object
  BY <1>1, <1>2 DEF Object
<1>4. CASE StateOnly(k, byKey[k])
  BY <1>1, <1>4 DEF Effect
<1>5. CASE ~StateOnly(k, byKey[k]) /\ Deleting(k)
  BY <1>1, <1>5, DelMap DEF Effect
<1>6. CASE ~StateOnly(k, byKey[k]) /\ ~Deleting(k)
  BY <1>1, <1>3, <1>6, PutMap DEF Effect
<1> QED BY <1>4, <1>5, <1>6

(* The scheduling half of what a step of entry k may do: the phase it moves *)
(* to, what it blocks, and the conditions under which it may.               *)
Step(k, q) ==
  /\ UNCHANGED <<cmd, run, manifest, secret, quiet>>
  /\ phase' = [phase EXCEPT ![k] = q]
  /\ k \in DOMAIN plan
  /\ phase[k] \in {"pending", "running", "realized"}
  /\ q \in {"running", "realized", "ok", "noop", "failed", "skipped"}
  /\ phase[k] = "pending" => BarrierPassed(k)
  /\ blocked' \in {blocked, blocked \cup Fallout(k)}
  /\ q = "failed" /\ k \in DOMAIN desired => blocked' = blocked \cup Fallout(k)
  /\ q = "skipped" => k \in blocked
  /\ q = "running" => k \notin blocked /\ plan[k].action \in Schedulable \cup {"delete"}
  /\ q = "running" => phase[k] = "pending"
  /\ q = "realized" => phase[k] = "running"

(* Every step of Execute is of that form, or ends the command. *)
LEMMA ExecuteShape ==
  ASSUME TypeInv, NEW k \in Key, Execute(k)
  PROVE  (Exit /\ UNCHANGED <<manifest, secret, quiet>>) \/ \E q \in Phases : Step(k, q)
<1> USE DEF TypeInv, world, run
<1>0. phase[k] \in {"running", "realized"} => k \in DOMAIN plan
  BY DEF PlanInv
<1>1. CASE Skip(k)
  BY <1>1 DEF Skip, CanBegin, Advance, Step, Phases
<1>2. CASE Refuse(k)
  <2>1. k \in DOMAIN desired => cmd = "destroy"
    BY <1>2 DEF Refuse, PlanInv, Schedulable, Execute, TypeOK
  <2>2. Step(k, "failed")
    BY <1>2, <2>1 DEF Refuse, CanBegin, Advance, Fail, Step
  <2> QED BY <2>2 DEF Phases
<1>3. CASE Noop(k)
  BY <1>3 DEF Noop, CanBegin, Advance, Step, Phases
<1>4. CASE Run(k)
  BY <1>4 DEF Run, CanBegin, Advance, Step, Phases, Schedulable
<1>5. CASE Realize(k)
  BY <1>0, <1>5 DEF Realize, Advance, Step, Phases
<1>6. CASE Reject(k)
  BY <1>0, <1>6 DEF Reject, Fail, Advance, Step, Phases
<1>7. CASE CallFails(k)
  BY <1>0, <1>7 DEF CallFails, Fail, Advance, Step, Phases
<1>8. CASE Record(k)
  BY <1>0, <1>8 DEF Record, Advance, Step, Phases
<1>9. CASE SaveFails(k)
  BY <1>0, <1>9 DEF SaveFails, Fail, Advance, Step, Phases
<1> QED BY <1>1, <1>2, <1>3, <1>4, <1>5, <1>6, <1>7, <1>8, <1>9 DEF Execute

(* The parts of the state a step of Execute leaves to the provider call and *)
(* the save keep their types.                                               *)
LEMMA ExecuteData ==
  ASSUME TypeInv, NEW k \in Key, Execute(k)
  PROVE  /\ IsMap(live', Object) /\ IsMap(st', ResourceState) /\ IsMap(mem', ResourceState)
         /\ faults' \in 0..MaxFaults
<1> USE DEF TypeInv, world, run
<1>0. /\ IsMap(live, Object) /\ IsMap(st, ResourceState) /\ IsMap(mem, ResourceState)
      /\ faults \in 0..MaxFaults /\ MaxFaults \in Nat
  BY BoundsAssumption DEF TypeOK
<1>1. phase[k] \in {"running", "realized"} => k \in DOMAIN plan /\ k \in DOMAIN byKey
  BY DEF PlanInv, Active, Schedulable
<1>2. CASE Skip(k)
  BY <1>0, <1>2 DEF Skip
<1>3. CASE Refuse(k)
  BY <1>0, <1>3 DEF Refuse
<1>4. CASE Noop(k)
  BY <1>0, <1>4 DEF Noop
<1>5. CASE Run(k)
  BY <1>0, <1>5 DEF Run
<1>6. CASE Realize(k)
  BY <1>0, <1>1, <1>6, EffectType DEF Realize
<1>7. CASE Reject(k)
  BY <1>0, <1>7 DEF Reject
<1>8. CASE CallFails(k)
  <2>1. IsMap(Del(live, k), Object)
    BY <1>0, DelMap DEF TypeOK
  <2> QED BY <1>0, <1>1, <1>8, <2>1, EffectType DEF CallFails, Remnants
<1>9. CASE Record(k)
  BY <1>0, <1>1, <1>9, MemAfterType DEF Record
<1>10. CASE SaveFails(k)
  <2>1. IsMap(mem', ResourceState)
    BY <1>1, <1>10, MemAfterType DEF SaveFails, Exit, Empty
  <2> QED BY <1>0, <1>10, <2>1 DEF SaveFails
<1> QED BY <1>2, <1>3, <1>4, <1>5, <1>6, <1>7, <1>8, <1>9, <1>10 DEF Execute

(* A command that ends leaves nothing in memory that could be ill typed. *)
LEMMA ExitType ==
  ASSUME TypeInv, Exit, manifest' = manifest, secret' = secret,
         IsMap(live', Object), IsMap(st', ResourceState),
         faults' \in 0..MaxFaults, quiet' \in BOOLEAN
  PROVE  TypeInv'
<1> USE DEF TypeInv, Exit, Empty
<1>1. TypeOK'
  BY DEF TypeOK, Phases
<1>2. PlanInv'
  BY DEF PlanInv, Active
<1> QED BY <1>1, <1>2

(* A command that starts holds a well-formed plan. *)
LEMMA StartType ==
  ASSUME TypeInv, NEW c \in {"apply", "destroy"}, NEW o \in Options, NEW p,
         Start(c, o, p), quiet' \in BOOLEAN,
         IsMap(p, Entry), DOMAIN manifest \subseteq DOMAIN p,
         \A k \in DOMAIN p \ DOMAIN manifest :
           k \in DOMAIN st /\ (p[k].action # "orphan-unknown" => st[k].env # NoEnvelope),
         c = "apply" => \A k \in DOMAIN manifest : p[k].action \in Schedulable
  PROVE  TypeInv'
<1> USE DEF TypeInv, world
<1>1. manifest \in Manifests /\ IsMap(manifest, Envelope)
  BY ManifestsAssumption DEF TypeOK, Buildable
<1>2. IsMap(byKey', Envelope)
  <2>1. \A k \in DOMAIN st : st[k].env # NoEnvelope => st[k].env \in Envelope
    BY DEF TypeOK, ResourceState
  <2>2. DOMAIN st \subseteq Key
    BY DEF TypeOK
  <2> QED BY <1>1, <2>1, <2>2 DEF Start
<1>3. TypeOK'
  <2>1. phase' \in [Key -> Phases]
    BY DEF Start, Phases
  <2>2. opts' \subseteq Flags
    BY OptionsAssumption DEF Start
  <2> QED BY <1>1, <1>2, <2>1, <2>2 DEF TypeOK, Start
<1>4. PlanInv'
  BY <1>1 DEF PlanInv, Start, Active
<1> QED BY <1>3, <1>4

(* The types and the shape of the plan are preserved by every step. *)
LEMMA TypeInvStep ==
  ASSUME TypeInv, [Next]_vars
  PROVE  TypeInv'
<1> USE DEF TypeInv
<1>0. /\ manifest \in Manifests /\ Buildable(manifest) /\ IsMap(st, ResourceState)
      /\ secret \in [Key -> Nat] /\ quiet \in BOOLEAN /\ IsMap(live, Object)
      /\ faults \in 0..MaxFaults /\ MaxFaults \in Nat
  BY ManifestsAssumption, BoundsAssumption DEF TypeOK
<1>1. ASSUME NEW o \in Options, StartApply(o)
      PROVE  TypeInv'
  <2>1. PICK del \in DeleteDepths(AbsentEdges(manifest, st)) :
          Start("apply", o, ComputeWithSecretHashes(manifest, st, secret, del))
    BY <1>1 DEF StartApply
  <2> DEFINE p == ComputeWithSecretHashes(manifest, st, secret, del)
  <2>0. SoundApplyPlan(manifest, st, p)
    BY <1>0, ApplyPlan
  <2> HIDE DEF p
  <2>2. /\ IsMap(p, Entry) /\ DOMAIN p = DOMAIN manifest \cup DOMAIN st
        /\ \A k \in DOMAIN manifest : p[k].action \in Schedulable
        /\ \A k \in DOMAIN p \ DOMAIN manifest :
             p[k].action # "orphan-unknown" => st[k].env # NoEnvelope
    BY <2>0 DEF SoundApplyPlan
  <2>3. quiet' \in BOOLEAN
    BY <1>1 DEF StartApply
  <2>4. Start("apply", o, p)
    BY <2>1 DEF p
  <2> QED BY <2>2, <2>3, <2>4, StartType
<1>2. ASSUME NEW o \in Options, StartDestroy(o)
      PROVE  TypeInv'
  <2> DEFINE p == ComputeDestroy(manifest, st, o)
  <2>1. IsMap(p, Entry) /\ DOMAIN p = DOMAIN manifest
    BY <1>0, DestroyPlan DEF SoundDestroyPlan
  <2>2. quiet' \in BOOLEAN /\ Start("destroy", o, p)
    BY <1>2 DEF StartDestroy
  <2> HIDE DEF p
  <2> QED BY <2>1, <2>2, StartType
<1>3. ASSUME NEW k \in Key, Execute(k)
      PROVE  TypeInv'
  <2>1. /\ IsMap(live', Object) /\ IsMap(st', ResourceState) /\ IsMap(mem', ResourceState)
        /\ faults' \in 0..MaxFaults
    BY <1>3, ExecuteData
  <2>2. CASE Exit /\ UNCHANGED <<manifest, secret, quiet>>
    BY <1>0, <2>1, <2>2, ExitType
  <2>3. ASSUME NEW q \in Phases, Step(k, q)
        PROVE  TypeInv'
    <3>1. TypeOK'
      <4>1. phase' \in [Key -> Phases]
        BY <2>3 DEF TypeOK, Step
      <4>2. blocked' \subseteq Key
        <5>1. Fallout(k) \subseteq Key
          BY DEF Fallout, Dependents, Dependencies, TypeOK
        <5> QED BY <2>3, <5>1 DEF TypeOK, Step
      <4> QED BY <2>1, <2>3, <4>1, <4>2 DEF TypeOK, Step, run
    <3>2. PlanInv'
      <4>1. UNCHANGED <<cmd, desired, byKey, plan>>
        BY <2>3 DEF Step, run
      <4>2. \A j \in Key : phase'[j] = IF j = k THEN q ELSE phase[j]
        BY <2>3 DEF Step, TypeOK
      <4>3. q # "none" /\ k \in DOMAIN plan /\ phase[k] # "none"
        BY <2>3 DEF Step
      <4>4. q \in {"running", "realized"} => plan[k].action \in Schedulable \cup {"delete"}
        BY <2>3 DEF Step, PlanInv, Active
      <4> QED BY <4>1, <4>2, <4>3, <4>4 DEF PlanInv, Active
    <3> QED BY <3>1, <3>2
  <2> QED BY <1>3, <2>2, <2>3, ExecuteShape
<1>4. ASSUME NEW k \in Importable, Import(k)
      PROVE  TypeInv'
  <2>1. k \in Key /\ manifest[k] \in Envelope /\ manifest[k].hash \in Nat
    BY <1>0, <1>4, ImportableAssumption DEF Import, Buildable, Envelope
  <2> DEFINE r == [hash |-> manifest[k].hash, imported |-> TRUE, env |-> manifest[k],
                   deps |-> {}, secret |-> 0, depSecrets |-> NoHashes]
  <2>2. r \in ResourceState
    BY <2>1 DEF ResourceState, NoHashes
  <2>3. IsMap(st', ResourceState)
    BY <1>0, <1>4, <2>1, <2>2, PutMap DEF Import
  <2> QED BY <1>4, <2>3 DEF Import, TypeOK, PlanInv, Active, world, run
<1>5. CASE Finish
  <2>1. quiet' \in BOOLEAN
    BY <1>0, <1>5 DEF Finish
  <2> QED BY <1>0, <1>5, <2>1, ExitType DEF Finish, world
<1>6. CASE Crash
  <2>1. faults' \in 0..MaxFaults
    BY <1>0, <1>6 DEF Crash
  <2>2. quiet' \in BOOLEAN
    BY <1>6 DEF Crash
  <2> QED BY <1>0, <1>6, <2>1, <2>2, ExitType DEF Crash
<1>7. CASE Environment
  <2>1. ASSUME NEW m \in Manifests, EditManifests(m)
        PROVE  TypeInv'
    BY <2>1 DEF EditManifests, TypeOK, PlanInv, Active, run
  <2>2. ASSUME NEW k \in SecretKey, Rotate(k)
        PROVE  TypeInv'
    <3>1. secret' \in [Key -> Nat]
      BY <1>0, <2>2, KeyAssumption DEF Rotate
    <3>2. quiet' \in BOOLEAN
      BY <2>2 DEF Rotate
    <3> QED BY <2>2, <3>1, <3>2 DEF Rotate, TypeOK, PlanInv, Active, run
  <2>3. ASSUME NEW k \in Key, Drift(k)
        PROVE  TypeInv'
    <3>1. IsMap(live', Object)
      BY <1>0, <2>3, DelMap DEF Drift
    <3>2. faults' \in 0..MaxFaults
      BY <1>0, <2>3 DEF Drift
    <3>3. quiet' \in BOOLEAN
      BY <2>3 DEF Drift
    <3> QED BY <2>3, <3>1, <3>2, <3>3 DEF Drift, TypeOK, PlanInv, Active, run
  <2> QED BY <1>7, <2>1, <2>2, <2>3 DEF Environment
<1>8. CASE UNCHANGED vars
  BY <1>8 DEF vars, world, run, TypeOK, PlanInv, Active
<1> QED BY <1>1, <1>2, <1>3, <1>4, <1>5, <1>6, <1>7, <1>8 DEF Next

(* A first run starts well typed. *)
LEMMA TypeInvInit == Init => TypeInv
<1> SUFFICES ASSUME Init PROVE TypeInv
  OBVIOUS
<1> USE DEF Init, Empty
<1>1. TypeOK
  <2>1. secret \in [Key -> Nat]
    BY DEF FirstVersion
  <2>2. IsMap(live, Object) /\ IsMap(st, ResourceState)
    BY InitialStateAssumption, InitialLiveAssumption
  <2>3. faults \in 0..MaxFaults
    BY BoundsAssumption
  <2>4. phase \in [Key -> Phases]
    BY DEF Phases
  <2>5. quiet \in BOOLEAN
    OBVIOUS
  <2> QED BY <2>1, <2>2, <2>3, <2>4, <2>5 DEF TypeOK
<1>2. PlanInv
  BY DEF PlanInv, Active
<1> QED BY <1>1, <1>2 DEF TypeInv

(* Every variable keeps the shape of the Go value it stands for: in         *)
(* particular no step reads an envelope, a plan entry or a recorded         *)
(* dependency that is not there.                                            *)
THEOREM TypeCorrect == Spec => []TypeOK
<1>1. TypeInv => TypeOK
  BY DEF TypeInv
<1> QED BY <1>1, TypeInvInit, TypeInvStep, PTL DEF Spec

-----------------------------------------------------------------------------
(* Order *)

(* What fails behind a failure was blocked with it already. *)
LEMMA FalloutTransitive ==
  ASSUME NEW k, NEW x \in Fallout(k)
  PROVE  Fallout(x) \subseteq Fallout(k)
<1>1. CASE cmd = "apply"
  <2>1. SUFFICES ASSUME NEW y \in Dependents(desired, x) PROVE y \in Dependents(desired, k)
    BY <1>1 DEF Fallout
  <2>2. x \in Dependencies(desired, y) /\ k \in Dependencies(desired, x)
    BY <1>1 DEF Fallout, Dependents
  <2>3. k \in Dependencies(desired, y)
    BY <2>2, DependenciesTransitive
  <2> QED BY <2>1, <2>3 DEF Dependents
<1>2. CASE cmd # "apply"
  <2>1. SUFFICES ASSUME NEW y \in Dependencies(desired, x) PROVE y \in Dependencies(desired, k)
    BY <1>2 DEF Fallout
  <2>2. x \in Dependencies(desired, k)
    BY <1>2 DEF Fallout
  <2> QED BY <2>1, <2>2, DependenciesTransitive
<1> QED BY <1>1, <1>2

Order == /\ LevelInv /\ BarrierInv /\ BlockInv
         /\ ReconcileAfterDependencies /\ DestroyAfterDependents

(* Before anything ran, and after everything did, the order holds. *)
LEMMA OrderAtRest ==
  ASSUME desired = Empty, plan = Empty, blocked = {}, cmd = "idle",
         phase = [k \in Key |-> "none"]
  PROVE  Order
BY DEF Order, LevelInv, BarrierInv, BlockInv, ReconcileAfterDependencies,
       DestroyAfterDependents, Active, Empty

(* A plan whose levels follow the graph starts in order. *)
LEMMA OrderStart ==
  ASSUME NEW c \in {"apply", "destroy"}, NEW o, NEW p, Start(c, o, p), TypeInv,
         DOMAIN manifest \subseteq DOMAIN p,
         c = "apply" => SoundApplyPlan(manifest, st, p),
         c = "destroy" => SoundDestroyPlan(manifest, p)
  PROVE  Order'
<1>1. \A k \in Key : phase'[k] \in {"pending", "none"}
  BY DEF Start
<1>2. \A k \in DOMAIN plan' : k \in Key /\ phase'[k] = "pending"
  <2>1. DOMAIN p \subseteq Key
    BY DEF SoundApplyPlan, SoundDestroyPlan
  <2> QED BY <2>1 DEF Start
<1>3. LevelInv'
  BY DEF LevelInv, Start, SoundApplyPlan, SoundDestroyPlan
<1>4. BarrierInv'
  BY <1>2 DEF BarrierInv
<1>5. BlockInv'
  <2>1. blocked' = {} /\ DOMAIN desired' \subseteq DOMAIN plan'
    BY DEF Start
  <2> QED BY <1>2, <2>1 DEF BlockInv
<1>6. Active' = {}
  BY <1>1 DEF Active
<1>7. ReconcileAfterDependencies' /\ DestroyAfterDependents'
  BY <1>6 DEF ReconcileAfterDependencies, DestroyAfterDependents
<1> QED BY <1>3, <1>4, <1>5, <1>7 DEF Order

(* A step of one entry keeps the order: the barrier has passed everything   *)
(* below it, and of that nothing failed, or it would be blocked.            *)
LEMMA OrderStep ==
  ASSUME TypeInv, Order, NEW k \in Key, NEW q \in Phases, Step(k, q)
  PROVE  Order'
<1>1. /\ UNCHANGED <<cmd, desired, plan>>
      /\ \A j \in Key : phase'[j] = IF j = k THEN q ELSE phase[j]
      /\ k \in DOMAIN plan /\ phase[k] \in {"pending", "running", "realized"}
  BY DEF Step, run, TypeInv, TypeOK
<1>2. DOMAIN plan \subseteq Key /\ DOMAIN desired \subseteq Key /\ DOMAIN desired \subseteq DOMAIN plan
  BY DEF TypeInv, TypeOK, PlanInv, Empty, Step, run
<1>3. \A j \in DOMAIN plan : plan[j].level \in Nat
  BY DEF TypeInv, TypeOK, Entry
<1>4. LevelInv'
  BY <1>1 DEF Order, LevelInv
<1>5. BarrierInv'
  <2> SUFFICES ASSUME NEW j \in DOMAIN plan, NEW i \in DOMAIN plan,
                      plan[j].level < plan[i].level, phase'[i] # "pending"
               PROVE  phase'[j] \in Finished
    BY <1>1 DEF BarrierInv
  <2>1. j # i
    BY <1>3
  <2>2. CASE i = k /\ phase[k] = "pending"
    BY <1>1, <1>2, <2>1, <2>2 DEF Step, BarrierPassed
  <2>3. CASE i = k /\ phase[k] # "pending"
    BY <1>1, <1>2, <2>1, <2>3 DEF Order, BarrierInv
  <2>4. CASE i # k
    <3>1. phase[j] \in Finished
      BY <1>1, <1>2, <2>4 DEF Order, BarrierInv
    <3>2. j # k
      BY <1>1, <3>1 DEF Finished
    <3> QED BY <1>1, <1>2, <3>1, <3>2
  <2> QED BY <2>2, <2>3, <2>4
<1>6. BlockInv'
  <2>1. \A x : (Fallout(x))' = Fallout(x)
    BY <1>1 DEF Fallout
  <2>2. blocked \subseteq blocked' /\ blocked' \subseteq blocked \cup Fallout(k)
    BY DEF Step
  <2>3. ASSUME NEW x \in DOMAIN desired, phase'[x] \in {"failed", "skipped"}
        PROVE  Fallout(x) \subseteq blocked'
    <3>1. CASE x = k /\ q = "failed"
      BY <2>3, <3>1 DEF Step
    <3>2. CASE x = k /\ q = "skipped"
      BY <2>2, <3>2 DEF Step, Order, BlockInv
    <3>3. CASE x # k
      BY <1>1, <1>2, <2>2, <2>3, <3>3 DEF Order, BlockInv
    <3> QED BY <1>1, <2>3, <3>1, <3>2, <3>3
  <2>4. ASSUME NEW x \in blocked'
        PROVE  Fallout(x) \subseteq blocked'
    <3>1. CASE x \in blocked
      BY <2>2, <3>1 DEF Order, BlockInv
    <3>2. CASE x \notin blocked
      <4>1. x \in Fallout(k) /\ blocked' = blocked \cup Fallout(k)
        BY <2>4, <3>2 DEF Step
      <4>2. Fallout(x) \subseteq Fallout(k)
        BY <4>1, FalloutTransitive
      <4> QED BY <4>1, <4>2
    <3> QED BY <3>1, <3>2
  <2> QED BY <1>1, <2>1, <2>3, <2>4 DEF BlockInv
<1>7. ASSUME NEW i \in Active', NEW d \in DOMAIN desired, i \in DOMAIN plan,
             plan[d].level < plan[i].level, i \in Fallout(d),
             i \in Active => phase[d] \in {"ok", "noop"}
      PROVE  phase'[d] \in {"ok", "noop"}
  <2>1. phase[d] \in {"ok", "noop"}
    <3>1. CASE i \in Active
      BY <1>7, <3>1
    <3>2. CASE i \notin Active
      <4>1. i = k /\ q = "running" /\ phase[k] = "pending"
        BY <1>1, <1>7, <3>2 DEF Active, Step
      <4>2. phase[d] \in Finished
        BY <1>2, <1>7, <4>1 DEF Step, BarrierPassed
      <4>3. phase[d] \notin {"failed", "skipped"}
        BY <1>7, <4>1 DEF Step, Order, BlockInv
      <4> QED BY <4>2, <4>3 DEF Finished
    <3> QED BY <3>1, <3>2
  <2>2. d # k
    BY <1>1, <2>1
  <2> QED BY <1>1, <1>2, <2>1, <2>2
<1>8. ReconcileAfterDependencies'
  <2> SUFFICES ASSUME NEW i \in Active', i \in DOMAIN desired, cmd = "apply",
                      NEW d \in Dependencies(desired, i)
               PROVE  phase'[d] \in {"ok", "noop"}
    BY <1>1 DEF ReconcileAfterDependencies
  <2>1. d \in DOMAIN desired /\ plan[d].level < plan[i].level
    BY DEF Order, LevelInv
  <2>2. i \in Fallout(d)
    BY DEF Fallout, Dependents
  <2>3. i \in Active => phase[d] \in {"ok", "noop"}
    BY DEF Order, ReconcileAfterDependencies
  <2> QED BY <1>2, <1>7, <2>1, <2>2, <2>3
<1>9. DestroyAfterDependents'
  <2> SUFFICES ASSUME NEW i \in Active', cmd = "destroy", NEW d \in Dependents(desired, i)
               PROVE  phase'[d] \in {"ok", "noop"}
    BY <1>1 DEF DestroyAfterDependents
  <2>1. d \in DOMAIN desired /\ i \in Dependencies(desired, d)
    BY DEF Dependents
  <2>2. i \in DOMAIN desired /\ plan[d].level < plan[i].level
    BY <2>1 DEF Order, LevelInv
  <2>3. i \in Fallout(d)
    BY <2>1 DEF Fallout
  <2>4. i \in Active => phase[d] \in {"ok", "noop"}
    BY DEF Order, DestroyAfterDependents
  <2> QED BY <1>2, <1>7, <2>1, <2>2, <2>3, <2>4
<1> QED BY <1>4, <1>5, <1>6, <1>8, <1>9 DEF Order

(* The inductive invariant is preserved by every step. *)
LEMMA OrderNext ==
  ASSUME TypeInv, Order, [Next]_vars
  PROVE  Order'
<1>0. /\ manifest \in Manifests /\ IsMap(st, ResourceState) /\ secret \in [Key -> Nat]
  BY DEF TypeInv, TypeOK
<1>1. ASSUME NEW o \in Options, StartApply(o)
      PROVE  Order'
  <2>1. PICK del \in DeleteDepths(AbsentEdges(manifest, st)) :
          Start("apply", o, ComputeWithSecretHashes(manifest, st, secret, del))
    BY <1>1 DEF StartApply
  <2> DEFINE p == ComputeWithSecretHashes(manifest, st, secret, del)
  <2>2. SoundApplyPlan(manifest, st, p)
    BY <1>0, ApplyPlan
  <2>3. DOMAIN manifest \subseteq DOMAIN p
    BY <2>2 DEF SoundApplyPlan
  <2> HIDE DEF p
  <2>4. Start("apply", o, p)
    BY <2>1 DEF p
  <2> QED BY <2>2, <2>3, <2>4, OrderStart
<1>2. ASSUME NEW o \in Options, StartDestroy(o)
      PROVE  Order'
  <2> DEFINE p == ComputeDestroy(manifest, st, o)
  <2>1. SoundDestroyPlan(manifest, p)
    BY <1>0, DestroyPlan
  <2>2. DOMAIN manifest \subseteq DOMAIN p
    BY <2>1 DEF SoundDestroyPlan
  <2>3. Start("destroy", o, p)
    BY <1>2 DEF StartDestroy
  <2> HIDE DEF p
  <2> QED BY <2>1, <2>2, <2>3, OrderStart
<1>3. Exit => Order'
  <2> SUFFICES ASSUME Exit PROVE Order'
    OBVIOUS
  <2>1. /\ desired' = Empty /\ plan' = Empty /\ blocked' = {} /\ cmd' = "idle"
        /\ phase' = [k \in Key |-> "none"]
    BY DEF Exit
  <2> QED BY <2>1 DEF Order, LevelInv, BarrierInv, BlockInv, ReconcileAfterDependencies,
                      DestroyAfterDependents, Active, Empty
<1>4. ASSUME NEW k \in Key, Execute(k)
      PROVE  Order'
  BY <1>3, <1>4, ExecuteShape, OrderStep
<1>5. UNCHANGED <<cmd, run, phase, blocked>> => Order'
  BY DEF Order, LevelInv, BarrierInv, BlockInv, ReconcileAfterDependencies,
         DestroyAfterDependents, Active, Fallout, run
<1>6. CASE Finish \/ Crash
  BY <1>3, <1>6 DEF Finish, Crash
<1>7. ASSUME NEW k \in Importable, Import(k)
      PROVE  Order'
  BY <1>5, <1>7 DEF Import
<1>8. CASE Environment
  BY <1>5, <1>8 DEF Environment, EditManifests, Rotate, Drift
<1>9. CASE UNCHANGED vars
  BY <1>5, <1>9 DEF vars
<1> QED BY <1>1, <1>2, <1>4, <1>6, <1>7, <1>8, <1>9 DEF Next

(* Both hold in a first run and are preserved together. *)
LEMMA OrderInvariant == Spec => [](TypeInv /\ Order)
<1>1. Init => TypeInv /\ Order
  BY TypeInvInit, OrderAtRest DEF Init
<1>2. TypeInv /\ Order /\ [Next]_vars => (TypeInv /\ Order)'
  BY TypeInvStep, OrderNext
<1> QED BY <1>1, <1>2, PTL DEF Spec

(* Apply calls no provider for a resource before everything it depends on   *)
(* was reconciled or found unchanged in the same run, whatever the graph,   *)
(* the parallelism, the failures and the crashes (Engine.Apply).            *)
THEOREM ApplyOrder == Spec => []ReconcileAfterDependencies
<1>1. TypeInv /\ Order => ReconcileAfterDependencies
  BY DEF Order
<1> QED BY <1>1, OrderInvariant, PTL

(* Destroy tears nothing down while something that depends on it and is to  *)
(* go with it is still there, failed to go or was refused (Engine.Destroy); *)
(* Imported and External dependents that it leaves standing lose what they  *)
(* depend on.                                                               *)
THEOREM DestroyOrder == Spec => []DestroyAfterDependents
<1>1. TypeInv /\ Order => DestroyAfterDependents
  BY DEF Order
<1> QED BY <1>1, OrderInvariant, PTL

-----------------------------------------------------------------------------
(* What a step may not do *)

(* Changing one entry of a map changes no other one. *)
LEMMA OthersUntouched ==
  ASSUME NEW k, NEW j, j # k
  PROVE  SameEntry(j, mem, MemAfter(k))
BY DEF SameEntry, MemAfter, Put, Del

(* The file and the memory of a command differ only where a save failed. *)
LEMMA SaveInvNext ==
  ASSUME TypeInv, SaveInv, [Next]_vars
  PROVE  SaveInv'
<1>1. Exit => SaveInv'
  BY DEF Exit, SaveInv
<1>2. UNCHANGED <<cmd, st, mem, phase>> => SaveInv'
  BY DEF SaveInv, SameEntry
<1>3. ASSUME NEW o \in Options, StartApply(o) \/ StartDestroy(o)
      PROVE  SaveInv'
  <2>1. mem' = st'
    BY <1>3 DEF StartApply, StartDestroy, Start
  <2> QED BY <2>1 DEF SaveInv, SameEntry
<1>4. ASSUME NEW k \in Key, Execute(k), cmd' = cmd, NEW q, Advance(k, q),
             phase[k] # "failed", UNCHANGED <<st, mem>>
      PROVE  SaveInv'
  BY <1>4 DEF SaveInv, Advance, TypeInv, TypeOK, SameEntry
<1>5. ASSUME NEW k \in Key, Execute(k)
      PROVE  SaveInv'
  <2> USE DEF run, world
  <2>1. CASE Skip(k) \/ Refuse(k) \/ Noop(k) \/ Run(k)
    BY <1>4, <1>5, <2>1 DEF Skip, Refuse, Noop, Run, CanBegin, Fail
  <2>2. CASE Realize(k) \/ Reject(k) \/ CallFails(k)
    BY <1>4, <1>5, <2>2 DEF Realize, Reject, CallFails, Fail
  <2>3. CASE Record(k)
    BY <2>3 DEF Record, SaveInv, SameEntry
  <2>4. CASE SaveFails(k)
    <3>1. CASE cmd = "destroy" /\ Exit
      BY <1>1, <3>1
    <3>2. CASE cmd = "apply" /\ mem' = MemAfter(k) /\ Fail(k) /\ UNCHANGED <<cmd, run>>
      <4>1. phase'[k] = "failed" /\ \A j \in Key \ {k} : phase'[j] = phase[j]
        BY <3>2 DEF Fail, Advance, TypeInv, TypeOK
      <4>2. \A j \in Key \ {k} : SameEntry(j, mem, mem')
        BY <3>2, OthersUntouched
      <4>3. st' = st /\ cmd = "apply"
        BY <2>4, <3>2 DEF SaveFails
      <4> QED BY <3>2, <4>1, <4>2, <4>3 DEF SaveInv, SameEntry
    <3> QED BY <2>4, <3>1, <3>2 DEF SaveFails
  <2> QED BY <1>5, <2>1, <2>2, <2>3, <2>4 DEF Execute
<1>6. CASE Finish \/ Crash
  BY <1>1, <1>6 DEF Finish, Crash
<1>7. ASSUME NEW k \in Importable, Import(k)
      PROVE  SaveInv'
  BY <1>7 DEF Import, SaveInv
<1>8. CASE Environment
  BY <1>2, <1>8 DEF Environment, EditManifests, Rotate, Drift
<1>9. CASE UNCHANGED vars
  BY <1>2, <1>9 DEF vars
<1> QED BY <1>3, <1>5, <1>6, <1>7, <1>8, <1>9 DEF Next

(* A save writes the whole in-memory state, and yet changes the record of   *)
(* no resource whose provider call has not returned: a crash between two    *)
(* saves loses at most the entries in flight (reconcileOne, applyDeleteOne, *)
(* Destroy).                                                                *)
THEOREM SavesAreLocal == Spec => SaveTouchesOnlyRealized
<1> DEFINE A == \A k \in Key :
                  (cmd # "idle" /\ ~SameEntry(k, st, st')) => phase[k] \in {"realized", "failed"}
<1>1. Init => TypeInv /\ SaveInv
  BY TypeInvInit DEF Init, SaveInv
<1>2. TypeInv /\ SaveInv /\ [Next]_vars => (TypeInv /\ SaveInv)'
  BY TypeInvStep, SaveInvNext
<1>3. TypeInv /\ SaveInv /\ [Next]_vars => [A]_vars
  <2> SUFFICES ASSUME TypeInv, SaveInv, Next PROVE A
    OBVIOUS
  <2>1. st' = st => A
    BY DEF SameEntry
  <2>2. ASSUME NEW k \in Key, Execute(k)
        PROVE  A
    <3>1. CASE Record(k)
      <4>1. st' = MemAfter(k) /\ phase[k] = "realized" /\ cmd # "idle"
        BY <2>2, <3>1 DEF Record, Execute
      <4>2. \A j \in Key \ {k} : SameEntry(j, mem, st')
        BY <4>1, OthersUntouched
      <4> QED BY <4>1, <4>2 DEF SaveInv, SameEntry
    <3>2. CASE ~Record(k)
      BY <2>1, <2>2, <3>2
         DEF Execute, Skip, Refuse, Noop, Run, Realize, Reject, CallFails, SaveFails
    <3> QED BY <3>1, <3>2
  <2>3. ASSUME NEW k \in Importable, Import(k)
        PROVE  A
    BY <2>3 DEF Import
  <2>4. ASSUME ~ \E k \in Key : Execute(k), ~ \E k \in Importable : Import(k)
        PROVE  st' = st
    BY <2>4 DEF Next, StartApply, StartDestroy, Start, Finish, Crash, Environment,
                EditManifests, Rotate, Drift
  <2> QED BY <2>1, <2>2, <2>3, <2>4
<1> QED BY <1>1, <1>2, <1>3, PTL DEF Spec, SaveTouchesOnlyRealized

(* Recording or forgetting an entry makes no resource an imported one. *)
LEMMA PriorShrinks ==
  ASSUME NEW k, NEW j, Prior(MemAfter(k), j)
  PROVE  Prior(mem, j)
<1>1. CASE Deleting(k)
  BY <1>1 DEF Prior, MemAfter, Del
<1>2. CASE ~Deleting(k)
  <2>1. CASE j = k
    BY <1>2, <2>1 DEF Prior, MemAfter, Put, Recorded
  <2>2. CASE j # k
    BY <1>2, <2>2 DEF Prior, MemAfter, Put
  <2> QED BY <2>1, <2>2
<1> QED BY <1>1, <1>2

(* The lifecycle guard of a destroy plan survives every step. *)
LEMMA GuardInvNext ==
  ASSUME TypeInv, GuardInv, [Next]_vars
  PROVE  GuardInv'
<1> USE DEF run, world
<1>1. cmd' = "idle" \/ cmd' = "apply" => GuardInv'
  BY DEF GuardInv
<1>2. ASSUME UNCHANGED <<cmd, run>>,
             \A j \in DOMAIN plan : Prior(mem', j) => Prior(mem, j)
      PROVE  GuardInv'
  BY <1>2 DEF GuardInv, Lifecycle, LifecycleOf
<1>3. UNCHANGED <<cmd, run, mem>> => GuardInv'
  BY <1>2
<1>4. ASSUME NEW o \in Options, StartApply(o)
      PROVE  GuardInv'
  BY <1>1, <1>4 DEF StartApply, Start
<1>5. ASSUME NEW o \in Options, StartDestroy(o)
      PROVE  GuardInv'
  <2> DEFINE p == ComputeDestroy(manifest, st, o)
  <2>1. /\ mem' = st /\ opts' = o /\ plan' = p
        /\ \A k \in DOMAIN manifest : byKey'[k] = manifest[k]
    BY <1>5 DEF StartDestroy, Start
  <2>2. /\ DOMAIN p = DOMAIN manifest
        /\ \A k \in DOMAIN manifest : p[k].action = DestroyAction(manifest, st, o, k)
    BY DEF ComputeDestroy
  <2>3. ASSUME NEW k \in DOMAIN manifest, plan'[k].action = "delete",
               Lifecycle(k)' = "Imported"
        PROVE  "imported" \in opts'
    <3>1. DestroyAction(manifest, st, o, k) = "delete"
      BY <2>1, <2>2, <2>3
    <3>2. LifecycleIn(manifest, st, k) = "Imported"
      BY <2>1, <2>3 DEF Lifecycle, LifecycleIn
    <3> QED BY <2>1, <3>1, <3>2 DEF DestroyAction
  <2>4. DOMAIN plan' = DOMAIN manifest
    BY <2>1, <2>2
  <2> QED BY <2>3, <2>4 DEF GuardInv
<1>6. ASSUME NEW k \in Key, Execute(k)
      PROVE  GuardInv'
  <2>1. CASE Record(k)
    BY <1>2, <2>1, PriorShrinks DEF Record
  <2>2. CASE SaveFails(k)
    BY <1>1, <2>2 DEF SaveFails, Exit
  <2>3. CASE ~Record(k) /\ ~SaveFails(k)
    BY <1>3, <1>6, <2>3
       DEF Execute, Skip, Refuse, Noop, Run, Realize, Reject, CallFails
  <2> QED BY <2>1, <2>2, <2>3
<1>7. CASE Finish \/ Crash
  BY <1>1, <1>7 DEF Finish, Crash, Exit
<1>8. ASSUME NEW k \in Importable, Import(k)
      PROVE  GuardInv'
  BY <1>3, <1>8 DEF Import
<1>9. CASE Environment
  BY <1>3, <1>9 DEF Environment, EditManifests, Rotate, Drift
<1>10. CASE UNCHANGED vars
  BY <1>3, <1>10 DEF vars
<1> QED BY <1>4, <1>5, <1>6, <1>7, <1>8, <1>9, <1>10 DEF Next

(* The engine removes the object of an External resource only with the      *)
(* double opt-in, and of an Imported one only with its flag, although in    *)
(* Destroy nothing but the plan made at the start stands for the second.    *)
THEOREM GuardedDestroy == Spec => NoUninvitedDestroy
<1> DEFINE A == \A k \in DOMAIN live \ DOMAIN live' :
                  phase[k] = "running" /\ phase'[k] # "running" /\ Deleting(k) =>
                    /\ Lifecycle(k) = "External" => "external" \in opts
                    /\ Lifecycle(k) = "Imported" => "imported" \in opts
<1>1. Init => TypeInv /\ GuardInv
  BY TypeInvInit DEF Init, GuardInv
<1>2. TypeInv /\ GuardInv /\ [Next]_vars => (TypeInv /\ GuardInv)'
  BY TypeInvStep, GuardInvNext
<1>3. TypeInv /\ GuardInv /\ [Next]_vars => [A]_vars
  <2> SUFFICES ASSUME TypeInv, GuardInv, Next PROVE A
    OBVIOUS
  <2>1. live' = live => A
    OBVIOUS
  <2>2. phase' = phase => A
    OBVIOUS
  <2>3. ASSUME NEW k \in Key, phase[k] = "running", ~Forbidden(k), live' \in Remnants(k)
        PROVE  A
    <3> SUFFICES ASSUME NEW j \in DOMAIN live \ DOMAIN live', Deleting(j)
                 PROVE  /\ Lifecycle(j) = "External" => "external" \in opts
                        /\ Lifecycle(j) = "Imported" => "imported" \in opts
      OBVIOUS
    <3>1. Deleting(k) /\ j = k
      <4>1. j = k
        BY <2>3 DEF Remnants, Effect, Put, Del
      <4> QED BY <4>1
    <3>2. k \in DOMAIN plan /\ cmd \in {"apply", "destroy"}
      BY <2>3 DEF TypeInv, TypeOK, PlanInv, Empty
    <3>3. Lifecycle(j) = "External" => "external" \in opts
      BY <2>3, <3>1 DEF Forbidden
    <3>4. Lifecycle(j) = "Imported" => "imported" \in opts
      BY <2>3, <3>1, <3>2 DEF Forbidden, GuardInv, Deleting
    <3> QED BY <3>3, <3>4
  <2>4. ASSUME NEW k \in Key, Execute(k)
        PROVE  A
    <3>1. CASE Realize(k)
      BY <2>3, <3>1 DEF Realize, Remnants
    <3>2. CASE CallFails(k)
      BY <2>3, <3>2 DEF CallFails
    <3>3. CASE ~Realize(k) /\ ~CallFails(k)
      BY <2>1, <2>4, <3>3
         DEF Execute, Skip, Refuse, Noop, Run, Reject, Record, SaveFails, run, world
    <3> QED BY <3>1, <3>2, <3>3
  <2>5. CASE Environment
    BY <2>2, <2>5 DEF Environment, EditManifests, Rotate, Drift
  <2>6. CASE Finish \/ Crash
    BY <2>1, <2>6 DEF Finish, Crash
  <2>7. ASSUME NEW o \in Options, StartApply(o) \/ StartDestroy(o)
        PROVE  A
    BY <2>1, <2>7 DEF StartApply, StartDestroy, Start
  <2>8. ASSUME NEW k \in Importable, Import(k)
        PROVE  A
    BY <2>1, <2>8 DEF Import
  <2> QED BY <2>4, <2>5, <2>6, <2>7, <2>8 DEF Next
<1> QED BY <1>1, <1>2, <1>3, PTL DEF Spec, NoUninvitedDestroy

-----------------------------------------------------------------------------
(* What an apply that succeeded has achieved *)

(* The record r is the one an apply of what is on disk leaves for k. *)
Current(k, r) ==
  /\ r.hash = manifest[k].hash
  /\ k \in SecretKey => r.secret = secret[k]
  /\ LifecycleOf(manifest[k], r.imported) = "Managed" =>
       \A d \in manifest[k].deps \cap SecretKey : r.depSecrets[d] = secret[d]

(* While an apply runs and nothing outside changes, every declared entry    *)
(* that is done, or has nothing to do, has a current record, and every      *)
(* other entry is a delete that is done only once its record is gone.       *)
QuietRun ==
  quiet /\ cmd # "idle" =>
    /\ cmd = "apply" /\ desired = manifest
    /\ DOMAIN mem \subseteq DOMAIN plan
    /\ \A k \in DOMAIN manifest :
         /\ k \in SecretKey => plan[k].secret = secret[k]
         /\ byKey[k] = manifest[k]
         /\ phase[k] = "ok" \/ (plan[k].action = "noop" /\ phase[k] \notin {"failed", "skipped"})
              => k \in DOMAIN mem /\ Current(k, mem[k])
    /\ \A k \in DOMAIN plan \ DOMAIN manifest :
         /\ plan[k].action \notin Schedulable
         /\ phase[k] = "ok" => k \notin DOMAIN mem
    /\ \A k \in DOMAIN plan : phase[k] = "noop" => plan[k].action = "noop"

(* Once it has succeeded, the file holds these records and no others. *)
QuietRest ==
  Settled => DOMAIN st = DOMAIN manifest /\ \A k \in DOMAIN st : Current(k, st[k])

QuietInv == QuietRun /\ QuietRest

(* A set of natural numbers that is not empty has a least element. *)
LEMMA Least ==
  ASSUME NEW T, T \subseteq Nat, T # {}
  PROVE  \E x \in T : \A y \in T : x <= y
<1> DEFINE R == {q \in Nat \X Nat : q[1] < q[2]}
<1>1. IsWellFoundedOn(R, Nat)
  BY NatLessThanWellFounded, Zenon DEF OpToRel
<1>2. \A x, y \in Nat : x < y => <<x, y>> \in R
  OBVIOUS
<1> HIDE DEF R
<1>3. PICK x \in T : \A y \in T : ~(<<y, x>> \in R)
  BY <1>1, WFMin
<1>4. ASSUME NEW y \in T PROVE x <= y
  <2>1. x \in Nat /\ y \in Nat /\ ~(y < x)
    BY <1>2, <1>3, <1>4
  <2> QED BY <2>1
<1> QED BY <1>4

(* The keys a plan marks changed are what one topological pass marks: those *)
(* with an action of their own and those the marks cascade to.  Marking is  *)
(* monotone in the marks, so that such a set exists in every graph.         *)
LEMMA ChangedFixpoint ==
  ASSUME NEW m, NEW s, NEW h
  PROVE  /\ ChangedKeys(m, s, h) \subseteq DOMAIN m
         /\ \A k \in DOMAIN m : k \in ChangedKeys(m, s, h) <=>
              OwnAction(m, s, h, k) # "noop" \/ Cascades(m, s, h, ChangedKeys(m, s, h), k)
<1> DEFINE own(k) == OwnAction(m, s, h, k) # "noop"
           F(C) == {k \in DOMAIN m : own(k) \/ Cascades(m, s, h, C, k)}
           L == {k \in DOMAIN m : \A C \in SUBSET DOMAIN m : F(C) \subseteq C => k \in C}
<1> HIDE DEF own
<1>1. ASSUME NEW C, NEW D, C \subseteq D PROVE F(C) \subseteq F(D)
  BY <1>1 DEF Cascades
<1>2. F(L) \subseteq L
  <2> SUFFICES ASSUME NEW k \in F(L), NEW C \in SUBSET DOMAIN m, F(C) \subseteq C PROVE k \in C
    OBVIOUS
  <2>1. L \subseteq C
    OBVIOUS
  <2> HIDE DEF L, F
  <2> QED BY <1>1, <2>1
<1>3. L \subseteq F(L)
  <2>1. F(L) \in SUBSET DOMAIN m
    OBVIOUS
  <2>2. F(F(L)) \subseteq F(L)
    <3> HIDE DEF L, F
    <3> QED BY <1>1, <1>2
  <2> DEFINE G == F(L)
  <2>3. \A k \in L : \A C \in SUBSET DOMAIN m : F(C) \subseteq C => k \in C
    OBVIOUS
  <2> HIDE DEF L, F
  <2> QED BY <2>1, <2>2, <2>3
<1>4. \E C \in SUBSET DOMAIN m : C = F(C)
  <2>1. L \in SUBSET DOMAIN m /\ L = F(L)
    BY <1>2, <1>3
  <2> HIDE DEF L, F
  <2> QED BY <2>1
<1>5. ChangedKeys(m, s, h) = CHOOSE C \in SUBSET DOMAIN m : C = F(C)
  BY DEF ChangedKeys, own
<1>6. ChangedKeys(m, s, h) \in SUBSET DOMAIN m /\ ChangedKeys(m, s, h) = F(ChangedKeys(m, s, h))
  <2> HIDE DEF F
  <2> QED BY <1>4, <1>5
<1> QED BY <1>6 DEF own

(* Where no entry has an action of its own and no secret changed, nothing   *)
(* is marked: a mark could only stem from a mark at a lower level.          *)
LEMMA NothingChanged ==
  ASSUME NEW m, Buildable(m), NEW s, NEW h,
         \A k \in DOMAIN m : OwnAction(m, s, h, k) = "noop",
         \A k \in DOMAIN m : LifecycleIn(m, s, k) = "Managed" =>
           \A d \in m[k].deps : ~dependencySecretChanged(s, h, k, d)
  PROVE  ChangedKeys(m, s, h) = {}
<1> DEFINE C == ChangedKeys(m, s, h)
           lv == Levels(EdgeMap(m))
           T == {lv[k] : k \in C}
<1>1. C \subseteq DOMAIN m /\ \A k \in C : \E d \in m[k].deps : d \in C
  BY ChangedFixpoint DEF Cascades
<1>2. lv \in [DOMAIN m -> Nat] /\ \A k \in DOMAIN m : \A d \in m[k].deps : lv[d] < lv[k]
  BY LevelsIncrease, HeightNat
<1> HIDE DEF C, lv
<1>3. SUFFICES ASSUME C # {} PROVE FALSE
  BY DEF C
<1>4. T \subseteq Nat /\ T # {}
  BY <1>1, <1>2, <1>3
<1>5. PICK x \in T : \A y \in T : x <= y
  <2> HIDE DEF T
  <2> QED BY <1>4, Least
<1>6. PICK k \in C : x = lv[k]
  OBVIOUS
<1>7. PICK d \in m[k].deps : d \in C
  BY <1>1
<1>8. lv[k] <= lv[d] /\ lv[d] < lv[k] /\ lv[d] \in Nat /\ lv[k] \in Nat
  BY <1>1, <1>2, <1>5, <1>6, <1>7
<1> QED BY <1>8

(* A noop in a plan of apply means that the entry's record is current. *)
LEMMA NoopIsCurrent ==
  ASSUME NEW k \in DOMAIN manifest,
         DesiredAction(manifest, st, secret, ChangedKeys(manifest, st, secret), k) = "noop"
  PROVE  k \in DOMAIN st /\ Current(k, st[k])
<1> DEFINE C == ChangedKeys(manifest, st, secret)
<1>1. OwnAction(manifest, st, secret, k) = "noop" /\ k \notin C
  BY DEF DesiredAction
<1>2. ~Cascades(manifest, st, secret, C, k)
  BY <1>1, ChangedFixpoint
<1>3. /\ k \in DOMAIN st /\ st[k].hash = manifest[k].hash
      /\ ~secretMaterialChanged(st, secret, k)
  BY <1>1 DEF OwnAction, LifecycleIn, LifecycleOf
<1>4. k \in SecretKey => st[k].secret = secret[k]
  BY <1>3 DEF secretMaterialChanged
<1>5. LifecycleOf(manifest[k], st[k].imported) = "Managed" =>
        \A d \in manifest[k].deps \cap SecretKey : st[k].depSecrets[d] = secret[d]
  <2>1. LifecycleOf(manifest[k], st[k].imported) = "Managed" =>
          LifecycleIn(manifest, st, k) = "Managed"
    BY <1>3 DEF LifecycleIn, LifecycleOf, Prior
  <2> QED BY <1>2, <2>1 DEF Cascades, dependencySecretChanged
<1> QED BY <1>3, <1>4, <1>5 DEF Current

(* What has nothing to do when an apply starts is current. *)
LEMMA QuietStart ==
  ASSUME TypeInv, NEW o \in Options, StartApply(o)
  PROVE  QuietRun'
<1>0. manifest \in Manifests /\ IsMap(st, ResourceState) /\ secret \in [Key -> Nat]
  BY DEF TypeInv, TypeOK
<1>1. PICK del \in DeleteDepths(AbsentEdges(manifest, st)) :
        Start("apply", o, ComputeWithSecretHashes(manifest, st, secret, del))
  BY DEF StartApply
<1> DEFINE p == ComputeWithSecretHashes(manifest, st, secret, del)
<1>2. /\ DOMAIN p = DOMAIN manifest \cup DOMAIN st
      /\ \A k \in DOMAIN manifest :
           /\ p[k].action = DesiredAction(manifest, st, secret, ChangedKeys(manifest, st, secret), k)
           /\ k \in SecretKey => p[k].secret = secret[k]
      /\ \A k \in DOMAIN p \ DOMAIN manifest : p[k].action = DeleteAction(st, k)
  BY DEF ComputeWithSecretHashes
<1> HIDE DEF p
<1>3. /\ plan' = p /\ mem' = st /\ desired' = manifest /\ cmd' = "apply"
      /\ UNCHANGED <<manifest, secret>>
      /\ \A k \in DOMAIN manifest : byKey'[k] = manifest[k]
      /\ \A k \in Key : phase'[k] \in {"pending", "none"}
  BY <1>1 DEF Start, p, world
<1>4. DOMAIN manifest \cup DOMAIN st \subseteq Key
  BY <1>0, ManifestsAssumption DEF Buildable
<1>5. \A k \in DOMAIN manifest : p[k].action = "noop" => k \in DOMAIN st /\ Current(k, st[k])
  BY <1>2, NoopIsCurrent
<1>6. \A k \in DOMAIN p \ DOMAIN manifest : p[k].action \notin Schedulable
  BY <1>2 DEF DeleteAction, Schedulable
<1>7. ASSUME NEW k \in DOMAIN manifest, NEW r, Current(k, r) PROVE Current(k, r)'
  BY <1>3, <1>7 DEF Current
<1> QED BY <1>2, <1>3, <1>4, <1>5, <1>6, <1>7 DEF QuietRun, Current

(* The record Apply writes for a declared entry is current: everything it   *)
(* depends on is done, so that the fingerprints it copies are current too.  *)
LEMMA RecordIsCurrent ==
  ASSUME TypeInv, Order, QuietRun, quiet, cmd # "idle",
         NEW k \in DOMAIN manifest, phase[k] = "realized"
  PROVE  Current(k, Recorded(k))
<1> DEFINE deps == Dependencies(desired, k)
           r == Recorded(k)
<1>1. /\ cmd = "apply" /\ desired = manifest /\ byKey[k] = manifest[k]
      /\ k \in SecretKey => plan[k].secret = secret[k]
  BY DEF QuietRun
<1>2. manifest \in Manifests /\ Buildable(manifest)
  BY ManifestsAssumption DEF TypeInv, TypeOK
<1>3. k \in Key /\ k \in Active
  BY <1>2 DEF Active, Buildable
<1>4. manifest[k].deps \subseteq deps
  BY <1>1, <1>2 DEF Dependencies, Edges, Buildable
<1>5. \A d \in deps : phase[d] \in {"ok", "noop"} /\ d \in DOMAIN manifest
  BY <1>1, <1>2, <1>3, DependenciesDeclared DEF Order, ReconcileAfterDependencies
<1>6. \A d \in deps : d \in DOMAIN mem /\ Current(d, mem[d])
  BY <1>2, <1>5 DEF QuietRun, PlanInv, TypeInv, Buildable
<1>7. \A d \in manifest[k].deps \cap SecretKey : mem[d].secret = secret[d]
  BY <1>4, <1>6 DEF Current
<1>8. /\ r.hash = manifest[k].hash /\ r.secret = plan[k].secret
      /\ \A d \in Key : r.depSecrets[d] = IF d \in deps \cap DOMAIN mem THEN mem[d].secret ELSE 0
  BY <1>1 DEF Recorded
<1>9. \A d \in manifest[k].deps \cap SecretKey : r.depSecrets[d] = secret[d]
  BY <1>4, <1>6, <1>7, <1>8, KeyAssumption
<1> HIDE DEF r
<1>10. Current(k, r)
  BY <1>1, <1>8, <1>9 DEF Current
<1> QED BY <1>10 DEF r

(* A step of an entry that records nothing changes what holds of no entry.  *)
LEMMA QuietPhase ==
  ASSUME TypeInv, QuietRun, UNCHANGED <<cmd, run, manifest, secret, mem, quiet>>,
         NEW k \in DOMAIN plan, NEW q \in {"running", "realized", "noop", "failed", "skipped"},
         phase' = [phase EXCEPT ![k] = q], phase[k] \in {"pending", "running", "realized"},
         q = "noop" => plan[k].action = "noop"
  PROVE  QuietRun'
<1>1. DOMAIN plan \subseteq Key /\ phase \in [Key -> Phases] /\ DOMAIN manifest \subseteq Key
  BY ManifestsAssumption DEF TypeInv, TypeOK, Buildable
<1>2. \A j \in Key : phase'[j] = IF j = k THEN q ELSE phase[j]
  BY <1>1
<1>3. \A j, r : Current(j, r) <=> Current(j, r)'
  BY DEF Current
<1> QED BY <1>1, <1>2, <1>3 DEF QuietRun, run

(* A record that is added or removed concerns its own entry only. *)
LEMMA QuietRecord ==
  ASSUME TypeInv, Order, QuietRun, UNCHANGED <<cmd, run, manifest, secret, quiet>>,
         cmd # "idle", NEW k \in DOMAIN plan, phase[k] = "realized", mem' = MemAfter(k),
         NEW q \in {"ok", "failed"}, phase' = [phase EXCEPT ![k] = q]
  PROVE  QuietRun'
<1> SUFFICES ASSUME quiet PROVE QuietRun'
  BY DEF QuietRun
<1>1. DOMAIN plan \subseteq Key /\ phase \in [Key -> Phases] /\ DOMAIN manifest \subseteq Key
  BY ManifestsAssumption DEF TypeInv, TypeOK, Buildable
<1>2. \A j \in Key : phase'[j] = IF j = k THEN q ELSE phase[j]
  BY <1>1
<1>3. \A j, r : Current(j, r) <=> Current(j, r)'
  BY DEF Current
<1>4. \A j : j # k => (j \in DOMAIN mem' <=> j \in DOMAIN mem) /\ (j \in DOMAIN mem => mem'[j] = mem[j])
  BY OthersUntouched DEF SameEntry
<1>5. /\ cmd = "apply" /\ desired = manifest
      /\ k \in DOMAIN manifest => ~Deleting(k)
      /\ k \notin DOMAIN manifest => Deleting(k)
  <2>1. k \in Active /\ plan[k].action \in Schedulable \cup {"delete"}
    BY <1>1 DEF Active, TypeInv, PlanInv
  <2> QED BY <2>1 DEF QuietRun, TypeInv, PlanInv, Schedulable, Deleting
<1>6. CASE k \in DOMAIN manifest
  <2>1. k \in DOMAIN mem' /\ mem'[k] = Recorded(k)
    BY <1>5, <1>6 DEF MemAfter, Put
  <2>2. Current(k, mem[k])'
    BY <1>3, <1>6, <2>1, RecordIsCurrent
  <2> QED BY <1>1, <1>2, <1>3, <1>4, <1>5, <1>6, <2>1, <2>2 DEF QuietRun, run
<1>7. CASE k \notin DOMAIN manifest
  <2>1. k \notin DOMAIN mem'
    BY <1>5, <1>7 DEF MemAfter, Del
  <2> QED BY <1>1, <1>2, <1>3, <1>4, <1>5, <1>7, <2>1 DEF QuietRun, run
<1> QED BY <1>6, <1>7

(* Every step of an entry keeps what a quiet run has achieved. *)
LEMMA QuietExecute ==
  ASSUME TypeInv, Order, QuietInv, NEW k \in Key, Execute(k)
  PROVE  QuietInv'
<1> USE DEF run, world
<1>0. /\ cmd # "idle" /\ (cmd' = cmd => QuietRest')
      /\ phase[k] \in {"running", "realized"} => k \in DOMAIN plan
  BY DEF Execute, QuietRest, Settled, TypeInv, PlanInv
<1>1. CASE Skip(k) \/ Refuse(k) \/ Noop(k) \/ Run(k)
  <2>1. /\ UNCHANGED <<cmd, run, manifest, secret, mem, quiet>>
        /\ k \in DOMAIN plan /\ phase[k] = "pending"
    BY <1>1 DEF Skip, Refuse, Noop, Run, CanBegin
  <2>2. \E q \in {"running", "noop", "failed", "skipped"} :
          phase' = [phase EXCEPT ![k] = q] /\ (q = "noop" => plan[k].action = "noop")
    BY <1>1 DEF Skip, Refuse, Noop, Run, Advance, Fail
  <2> QED BY <1>0, <2>1, <2>2, QuietPhase DEF QuietInv
<1>2. CASE Realize(k) \/ Reject(k) \/ CallFails(k)
  <2>1. /\ UNCHANGED <<cmd, run, manifest, secret, mem, quiet>>
        /\ k \in DOMAIN plan /\ phase[k] = "running"
    BY <1>0, <1>2 DEF Realize, Reject, CallFails
  <2>2. \E q \in {"realized", "failed"} : phase' = [phase EXCEPT ![k] = q]
    BY <1>2 DEF Realize, Reject, CallFails, Advance, Fail
  <2> QED BY <1>0, <2>1, <2>2, QuietPhase DEF QuietInv
<1>3. CASE Record(k)
  BY <1>0, <1>3, QuietRecord DEF Record, Advance, QuietInv
<1>4. CASE SaveFails(k)
  <2>1. CASE cmd = "destroy" /\ Exit
    <3>1. ~quiet /\ ~quiet'
      BY <1>0, <1>4, <2>1 DEF QuietInv, QuietRun, SaveFails
    <3> QED BY <3>1 DEF QuietInv, QuietRun, QuietRest, Settled
  <2>2. CASE mem' = MemAfter(k) /\ Fail(k) /\ UNCHANGED <<cmd, run>>
    BY <1>0, <1>4, <2>2, QuietRecord DEF SaveFails, Fail, Advance, QuietInv
  <2> QED BY <1>4, <2>1, <2>2 DEF SaveFails
<1> QED BY <1>1, <1>2, <1>3, <1>4 DEF Execute

(* An apply all of whose entries are done has left current records, and the *)
(* file holds what the command has in memory.                               *)
LEMMA QuietFinish ==
  ASSUME TypeInv, SaveInv, QuietInv, Finish
  PROVE  QuietInv'
<1>1. cmd # "idle" /\ cmd' = "idle" /\ UNCHANGED <<manifest, secret, st>>
  BY DEF Finish, Exit, world
<1>2. QuietRun'
  BY <1>1 DEF QuietRun
<1>3. SUFFICES ASSUME quiet' PROVE QuietRest'
  BY <1>2 DEF QuietInv, QuietRest, Settled
<1>4. quiet /\ cmd = "apply" /\ \A k \in DOMAIN plan : phase[k] \in {"ok", "noop"}
  BY <1>3 DEF Finish
<1>5. DOMAIN plan \subseteq Key /\ DOMAIN st \subseteq Key /\ DOMAIN mem \subseteq Key
  BY DEF TypeInv, TypeOK
<1>6. \A k \in Key : SameEntry(k, st, mem)
  <2>1. \A k \in Key : phase[k] # "failed"
    BY <1>4 DEF TypeInv, PlanInv
  <2> QED BY <1>1, <2>1 DEF SaveInv
<1>7. \A k \in DOMAIN manifest : k \in DOMAIN mem /\ Current(k, mem[k])
  <2> SUFFICES ASSUME NEW k \in DOMAIN manifest PROVE k \in DOMAIN mem /\ Current(k, mem[k])
    OBVIOUS
  <2>1. k \in DOMAIN plan
    BY <1>1, <1>4 DEF QuietInv, QuietRun, TypeInv, PlanInv
  <2>2. phase[k] = "ok" \/ plan[k].action = "noop"
    BY <1>1, <1>4, <2>1 DEF QuietInv, QuietRun
  <2>3. phase[k] \notin {"failed", "skipped"}
    BY <1>4, <2>1
  <2> QED BY <1>1, <1>4, <2>2, <2>3 DEF QuietInv, QuietRun
<1>8. DOMAIN mem \subseteq DOMAIN manifest
  BY <1>1, <1>4 DEF QuietInv, QuietRun, Schedulable
<1>9. DOMAIN manifest \subseteq Key
  BY ManifestsAssumption DEF TypeInv, TypeOK, Buildable
<1>10. DOMAIN st = DOMAIN manifest /\ \A k \in DOMAIN st : Current(k, st[k])
  BY <1>5, <1>6, <1>7, <1>8, <1>9 DEF SameEntry
<1> QED BY <1>1, <1>10 DEF QuietRest, Current

(* What quiet runs achieve is kept by every step. *)
LEMMA QuietNext ==
  ASSUME TypeInv, Order, SaveInv, QuietInv, [Next]_vars
  PROVE  QuietInv'
<1> USE DEF run, world
<1>1. ~quiet' => QuietInv'
  BY DEF QuietInv, QuietRun, QuietRest, Settled
<1>2. ASSUME NEW o \in Options, StartApply(o)
      PROVE  QuietInv'
  <2>1. cmd' = "apply"
    BY <1>2 DEF StartApply, Start
  <2> QED BY <1>2, <2>1, QuietStart DEF QuietInv, QuietRest, Settled
<1>3. ASSUME NEW o \in Options, StartDestroy(o)
      PROVE  QuietInv'
  BY <1>1, <1>3 DEF StartDestroy
<1>4. ASSUME NEW k \in Key, Execute(k)
      PROVE  QuietInv'
  BY <1>4, QuietExecute
<1>5. ASSUME NEW k \in Importable, Import(k)
      PROVE  QuietInv'
  BY <1>1, <1>5 DEF Import
<1>6. CASE Crash
  BY <1>1, <1>6 DEF Crash
<1>7. CASE Environment
  BY <1>1, <1>7 DEF Environment, EditManifests, Rotate, Drift
<1>8. CASE UNCHANGED vars
  BY <1>8 DEF vars, QuietInv, QuietRun, QuietRest, Settled, Current
<1> QED BY <1>2, <1>3, <1>4, <1>5, <1>6, <1>7, <1>8, QuietFinish DEF Next

(* A current state plans nothing. *)
LEMMA CurrentReplansNoop ==
  ASSUME TypeInv, QuietRest, Settled
  PROVE  /\ SettledIsAuthoritative
         /\ SettledReplansNoop
<1>1. DOMAIN st = DOMAIN manifest /\ \A k \in DOMAIN st : Current(k, st[k])
  BY DEF QuietRest
<1>2. Buildable(manifest)
  BY ManifestsAssumption DEF TypeInv, TypeOK
<1>3. \A k \in DOMAIN manifest : OwnAction(manifest, st, secret, k) = "noop"
  BY <1>1 DEF OwnAction, Current, secretMaterialChanged
<1>4. \A k \in DOMAIN manifest : LifecycleIn(manifest, st, k) = "Managed" =>
        \A d \in manifest[k].deps : ~dependencySecretChanged(st, secret, k, d)
  BY <1>1 DEF LifecycleIn, LifecycleOf, Prior, Current, dependencySecretChanged
<1>5. ChangedKeys(manifest, st, secret) = {}
  BY <1>2, <1>3, <1>4, NothingChanged
<1>6. \A k \in DOMAIN manifest : PlannedAction(manifest, st, secret, k) = "noop"
  BY <1>3, <1>5 DEF PlannedAction, DesiredAction
<1> QED BY <1>1, <1>6 DEF SettledIsAuthoritative, SettledReplansNoop, Current

(* The engine's invariant, with the ordering and the guards it is for: in   *)
(* every state of every behaviour.                                          *)
THEOREM EngineInvariant == Spec => [](IInv /\ QuietInv)
<1>1. Init => TypeInv /\ Order /\ SaveInv /\ GuardInv /\ QuietInv
  BY TypeInvInit, OrderAtRest DEF Init, SaveInv, GuardInv, QuietInv, QuietRun, QuietRest, Settled
<1>2. TypeInv /\ Order /\ SaveInv /\ GuardInv /\ QuietInv /\ [Next]_vars
        => (TypeInv /\ Order /\ SaveInv /\ GuardInv /\ QuietInv)'
  BY TypeInvStep, OrderNext, SaveInvNext, GuardInvNext, QuietNext
<1>3. TypeInv /\ Order /\ SaveInv /\ GuardInv => IInv
  BY DEF TypeInv, Order, IInv
<1> QED BY <1>1, <1>2, <1>3, PTL DEF Spec

(* Apply is authoritative: after a success exactly the declared resources   *)
(* are recorded, with their hashes, whatever earlier runs left (ADR 012).   *)
THEOREM ApplyIsAuthoritative == Spec => []SettledIsAuthoritative
<1>1. IInv /\ QuietInv => SettledIsAuthoritative
  BY CurrentReplansNoop DEF IInv, TypeInv, QuietInv, SettledIsAuthoritative
<1> QED BY <1>1, EngineInvariant, PTL

(* Apply is idempotent: after a success the plan is empty, for every graph, *)
(* lifecycle and history of failures, crashes and rotations (NFR-2).        *)
THEOREM ApplyIsIdempotent == Spec => []SettledReplansNoop
<1>1. IInv /\ QuietInv => SettledReplansNoop
  BY CurrentReplansNoop DEF IInv, TypeInv, QuietInv, SettledReplansNoop
<1> QED BY <1>1, EngineInvariant, PTL

-----------------------------------------------------------------------------
(* Rotated secrets *)

(* Nothing is recorded of a secret that it has not been yet. *)
NotNewer(k, r) == r.secret <= secret[k] /\ \A d \in Key : r.depSecrets[d] <= secret[d]

(* The record r of k claims no newer material of k's secrets than the       *)
(* object was built from, if it is an object of the spec that r is about.   *)
Behind(k, r) ==
  k \in DOMAIN live /\ r.hash = live[k].hash =>
    \A m \in Manifests : k \in DOMAIN m /\ m[k].hash = r.hash /\ ~m[k].external =>
      \A d \in m[k].deps \cap SecretKey : r.depSecrets[d] <= live[k].seen[d]

Versions ==
  /\ \A k \in DOMAIN st : NotNewer(k, st[k]) /\ Behind(k, st[k])
  /\ \A k \in DOMAIN mem : NotNewer(k, mem[k]) /\ Behind(k, mem[k])
  /\ \A k \in DOMAIN plan : plan[k].secret <= secret[k]
  /\ \A k \in DOMAIN live : k \notin SecretKey /\ \A d \in SecretKey : live[k].seen[d] <= secret[d]

(* Only what is declared is built, and destroy builds nothing. *)
Built ==
  cmd # "idle" =>
    /\ \A k \in DOMAIN desired : byKey[k] = desired[k]
    /\ \A k \in DOMAIN plan \ DOMAIN desired : plan[k].action \notin Schedulable
    /\ cmd = "destroy" => /\ \A k \in DOMAIN plan : plan[k].action \in {"noop", "refused", "delete"}
                         /\ \A k \in Active : Deleting(k)

(* An object waiting to be recorded was built from secrets that are no      *)
(* older than the fingerprints the record will copy.                        *)
Waiting ==
  \A k \in DOMAIN desired \cap DOMAIN live :
    cmd # "idle" /\ phase[k] = "realized" /\ ~Deleting(k) /\ ~desired[k].external =>
      \A d \in desired[k].deps \cap SecretKey \cap DOMAIN mem : mem[d].secret <= live[k].seen[d]

SecretInv == Versions /\ Built /\ Waiting

(* A first run finds records that are no newer than the secrets. *)
LEMMA SecretInit == Init => SecretInv
<1> SUFFICES ASSUME Init PROVE SecretInv
  OBVIOUS
<1>1. /\ st \in InitialState /\ live \in InitialLive
      /\ \A d \in Key : secret[d] = FirstVersion(d)
      /\ cmd = "idle" /\ DOMAIN mem = {} /\ DOMAIN plan = {}
  BY DEF Init, Empty
<1>2. DOMAIN st \subseteq Key
  BY <1>1, InitialStateAssumption
<1>3. \A k \in DOMAIN st : NotNewer(k, st[k])
  BY <1>1, <1>2, HistoryAssumption DEF NotNewer
<1>4. \A k \in DOMAIN st : Behind(k, st[k])
  BY <1>1, HistoryAssumption DEF Behind
<1>5. \A k \in DOMAIN live : k \notin SecretKey /\ \A d \in SecretKey : live[k].seen[d] <= secret[d]
  BY <1>1, HistoryAssumption, KeyAssumption
<1>6. Versions
  BY <1>1, <1>3, <1>4, <1>5 DEF Versions
<1> QED BY <1>1, <1>6 DEF SecretInv, Built, Waiting

(* What an entry in flight is about: the declared envelope, unless it is    *)
(* being deleted.                                                           *)
LEMMA InFlight ==
  ASSUME TypeInv, Built, cmd # "idle", NEW k \in Key, phase[k] \in {"running", "realized"}
  PROVE  /\ k \in DOMAIN plan /\ k \in DOMAIN byKey
         /\ ~Deleting(k) => /\ cmd = "apply" /\ k \in DOMAIN desired /\ desired \in Manifests
                            /\ byKey[k] = desired[k]
<1>1. k \in DOMAIN plan /\ k \in Active
  BY DEF TypeInv, PlanInv, Active
<1>2. plan[k].action \in Schedulable \cup {"delete"}
  BY <1>1 DEF TypeInv, PlanInv
<1>3. k \in DOMAIN byKey
  BY <1>1, <1>2 DEF TypeInv, PlanInv, Schedulable
<1> QED BY <1>1, <1>2, <1>3 DEF Built, Deleting, TypeInv, TypeOK, PlanInv

(* A provider call builds k from the secrets as they are. *)
LEMMA SecretCall ==
  ASSUME TypeInv, SecretInv, cmd # "idle", NEW k \in Key, phase[k] = "running",
         live' \in Remnants(k), UNCHANGED <<st, mem, plan, secret>>
  PROVE  /\ Versions'
         /\ \A j \in DOMAIN live' : j # k => j \in DOMAIN live /\ live'[j] = live[j]
         /\ live' = Effect(k) /\ ~Deleting(k) /\ ~byKey[k].external /\ k \in DOMAIN live' =>
              \A d \in byKey[k].deps \cap SecretKey : live'[k].seen[d] = secret[d]
<1>1. /\ k \in DOMAIN plan /\ k \in DOMAIN byKey
      /\ ~Deleting(k) => /\ cmd = "apply" /\ k \in DOMAIN desired /\ desired \in Manifests
                         /\ byKey[k] = desired[k]
  BY InFlight DEF SecretInv
<1>2. /\ \A d \in Key : secret[d] \in Nat
      /\ \A d \in byKey[k].deps \cap SecretKey : Inputs(k)[d] = secret[d]
      /\ \A d \in SecretKey : Inputs(k)[d] <= secret[d]
  BY KeyAssumption DEF TypeInv, TypeOK, Inputs
<1>3. CASE live' = live
  <2>1. Versions'
    BY <1>3 DEF SecretInv, Versions, NotNewer, Behind
  <2>2. ASSUME live' = Effect(k), ~Deleting(k), ~byKey[k].external, k \in DOMAIN live'
        PROVE  \A d \in byKey[k].deps \cap SecretKey : live'[k].seen[d] = secret[d]
    <3>1. k \notin SecretKey
      BY <1>3, <2>2 DEF SecretInv, Versions
    <3>2. live'[k] = [hash |-> byKey[k].hash, seen |-> Inputs(k)]
      BY <2>2, <3>1 DEF Effect, StateOnly, isExternalNoProvider, Put
    <3> QED BY <1>2, <3>2
  <2> QED BY <1>3, <2>1, <2>2
<1>4. CASE live' = Del(live, k)
  <2>1. DOMAIN live' = DOMAIN live \ {k} /\ \A j \in DOMAIN live' : live'[j] = live[j]
    BY <1>4 DEF Del
  <2> QED BY <1>4, <2>1 DEF SecretInv, Versions, NotNewer, Behind
<1>5. CASE live' = Effect(k) /\ ~StateOnly(k, byKey[k]) /\ ~Deleting(k)
  <2>1. /\ DOMAIN live' = DOMAIN live \cup {k}
        /\ live'[k].hash = byKey[k].hash /\ live'[k].seen = Inputs(k)
        /\ \A j \in DOMAIN live : j # k => live'[j] = live[j]
    BY <1>5 DEF Effect, Put
  <2>2. k \notin SecretKey
    BY <1>5 DEF StateOnly
  <2>3. ASSUME NEW r, NotNewer(k, r), \A d \in Key : r.depSecrets[d] \in Nat PROVE Behind(k, r)'
    <3> SUFFICES ASSUME NEW m \in Manifests, k \in DOMAIN m, m[k].hash = r.hash,
                        r.hash = byKey[k].hash, NEW d \in m[k].deps \cap SecretKey
                 PROVE  r.depSecrets[d] <= live'[k].seen[d]
      BY <2>1 DEF Behind
    <3>1. m[k].deps \cap SecretKey = byKey[k].deps \cap SecretKey
      BY <1>1, <1>5, SpecHashAssumption
    <3>2. live'[k].seen[d] = secret[d]
      BY <1>2, <2>1, <3>1
    <3> QED BY <2>3, <3>2, KeyAssumption DEF NotNewer
  <2>4. ASSUME NEW j, NEW r, j # k, Behind(j, r) PROVE Behind(j, r)'
    BY <2>1, <2>4 DEF Behind
  <2>5. ASSUME NEW j, NEW r, NotNewer(j, r) PROVE NotNewer(j, r)'
    BY <2>5 DEF NotNewer
  <2>6. \A j \in DOMAIN st : \A d \in Key : st[j].depSecrets[d] \in Nat
    BY DEF TypeInv, TypeOK, ResourceState
  <2>7. \A j \in DOMAIN mem : \A d \in Key : mem[j].depSecrets[d] \in Nat
    BY DEF TypeInv, TypeOK, ResourceState
  <2>8. \A j \in DOMAIN st : NotNewer(j, st[j])' /\ Behind(j, st[j])'
    BY <2>3, <2>4, <2>5, <2>6 DEF SecretInv, Versions
  <2>9. \A j \in DOMAIN mem : NotNewer(j, mem[j])' /\ Behind(j, mem[j])'
    BY <2>3, <2>4, <2>5, <2>7 DEF SecretInv, Versions
  <2>10. Versions'
    BY <1>2, <2>1, <2>2, <2>8, <2>9 DEF SecretInv, Versions
  <2> QED BY <1>2, <2>1, <2>10
<1> QED BY <1>3, <1>4, <1>5 DEF Effect, Remnants

(* What is recorded of k is no newer than the secrets, and than its object. *)
LEMMA SecretRecord ==
  ASSUME TypeInv, SecretInv, cmd # "idle", NEW k \in Key, phase[k] = "realized", ~Deleting(k)
  PROVE  NotNewer(k, Recorded(k)) /\ Behind(k, Recorded(k))
<1> DEFINE deps == Dependencies(desired, k)
           r == Recorded(k)
<1>1. /\ k \in DOMAIN plan /\ k \in DOMAIN byKey
      /\ cmd = "apply" /\ k \in DOMAIN desired /\ desired \in Manifests /\ byKey[k] = desired[k]
  BY InFlight DEF SecretInv
<1>2. /\ r.hash = desired[k].hash /\ r.secret = plan[k].secret
      /\ \A d \in Key : r.depSecrets[d] = IF d \in deps \cap DOMAIN mem THEN mem[d].secret ELSE 0
  BY <1>1 DEF Recorded
<1>3. /\ \A d \in Key : secret[d] \in Nat
      /\ \A d \in DOMAIN mem : mem[d].secret <= secret[d]
      /\ plan[k].secret <= secret[k]
      /\ \A j \in DOMAIN live : \A d \in Key : live[j].seen[d] \in Nat
  BY <1>1 DEF TypeInv, TypeOK, Object, SecretInv, Versions, NotNewer
<1> HIDE DEF r, deps
<1>4. NotNewer(k, r)
  BY <1>2, <1>3 DEF NotNewer
<1>5. Behind(k, r)
  <2> SUFFICES ASSUME k \in DOMAIN live, NEW m \in Manifests, k \in DOMAIN m, m[k].hash = r.hash,
                      ~m[k].external, NEW d \in m[k].deps \cap SecretKey
               PROVE  r.depSecrets[d] <= live[k].seen[d]
    BY DEF Behind
  <2>1. m[k].deps \cap SecretKey = desired[k].deps \cap SecretKey /\ ~desired[k].external
    BY <1>1, <1>2, SpecHashAssumption
  <2>2. d \in DOMAIN mem => mem[d].secret <= live[k].seen[d]
    BY <1>1, <2>1 DEF SecretInv, Waiting
  <2> QED BY <1>2, <1>3, <2>2, KeyAssumption
<1> QED BY <1>4, <1>5 DEF r

(* Every step of an entry keeps records behind objects. *)
LEMMA SecretExecute ==
  ASSUME TypeInv, Order, SecretInv, NEW k \in Key, Execute(k)
  PROVE  SecretInv'
<1> USE DEF run, world
<1>0. /\ cmd # "idle" /\ phase \in [Key -> Phases] /\ DOMAIN plan \subseteq Key
      /\ DOMAIN desired \subseteq Key
  BY DEF Execute, TypeInv, TypeOK
<1>1. ASSUME UNCHANGED <<cmd, run>>, NEW q, phase' = [phase EXCEPT ![k] = q],
             q = "running" /\ cmd = "destroy" => Deleting(k),
             q = "realized" => phase[k] = "running"
      PROVE  Built'
  <2>1. \A j \in Key : phase'[j] = IF j = k THEN q ELSE phase[j]
    BY <1>0, <1>1
  <2>2. \A j \in Active' : cmd = "destroy" => Deleting(j)
    BY <1>0, <1>1, <2>1 DEF Active, SecretInv, Built
  <2> QED BY <1>1, <2>2 DEF SecretInv, Built, Deleting
<1>2. ASSUME UNCHANGED <<cmd, run, live, st, mem, secret>>, NEW q,
             phase' = [phase EXCEPT ![k] = q], q # "realized",
             q = "running" /\ cmd = "destroy" => Deleting(k)
      PROVE  SecretInv'
  <2>1. \A j \in Key : phase'[j] = "realized" => phase[j] = "realized"
    BY <1>0, <1>2
  <2>2. Waiting'
    BY <1>0, <1>2, <2>1 DEF SecretInv, Waiting, Deleting
  <2>3. Versions'
    BY <1>2 DEF SecretInv, Versions, NotNewer, Behind
  <2> QED BY <1>1, <1>2, <2>2, <2>3 DEF SecretInv
<1>3. CASE Skip(k) \/ Refuse(k) \/ Noop(k) \/ Reject(k)
  BY <1>2, <1>3 DEF Skip, Refuse, Noop, Reject, Advance, Fail
<1>4. CASE Run(k)
  <2>1. cmd = "destroy" => Deleting(k)
    <3> SUFFICES ASSUME cmd = "destroy" PROVE Deleting(k)
      OBVIOUS
    <3>1. k \in DOMAIN plan /\ ~Healable(k)
      BY <1>4 DEF Run, CanBegin, Healable
    <3>2. plan[k].action \in {"noop", "refused", "delete"}
      BY <3>1 DEF SecretInv, Built
    <3> QED BY <1>4, <3>1, <3>2 DEF Run, Deleting
  <2> QED BY <1>2, <1>4, <2>1 DEF Run, Advance
<1>5. CASE Realize(k) \/ CallFails(k)
  <2>1. /\ phase[k] = "running" /\ live' \in Remnants(k)
        /\ UNCHANGED <<cmd, run, st, mem, secret>>
        /\ \E q \in {"realized", "failed"} : phase' = [phase EXCEPT ![k] = q]
        /\ phase'[k] = "realized" => live' = Effect(k)
    BY <1>0, <1>5 DEF Realize, CallFails, Remnants, Advance, Fail
  <2>2. PICK q \in {"realized", "failed"} : phase' = [phase EXCEPT ![k] = q]
    BY <2>1
  <2>3. /\ Versions'
        /\ \A j \in DOMAIN live' : j # k => j \in DOMAIN live /\ live'[j] = live[j]
        /\ live' = Effect(k) /\ ~Deleting(k) /\ ~byKey[k].external /\ k \in DOMAIN live' =>
             \A d \in byKey[k].deps \cap SecretKey : live'[k].seen[d] = secret[d]
    BY <1>0, <2>1, SecretCall
  <2>4. Built'
    BY <1>1, <2>1, <2>2
  <2>5. Waiting'
    <3> SUFFICES ASSUME NEW j \in DOMAIN desired, j \in DOMAIN live', phase'[j] = "realized",
                        ~Deleting(j), ~desired[j].external,
                        NEW d \in desired[j].deps \cap SecretKey, d \in DOMAIN mem
                 PROVE  mem[d].secret <= live'[j].seen[d]
      BY <2>1 DEF Waiting, Deleting
    <3>1. CASE j = k
      <4>1. byKey[k] = desired[k]
        BY <1>0, <3>1 DEF SecretInv, Built
      <4>2. live'[k].seen[d] = secret[d]
        BY <2>1, <2>3, <3>1, <4>1
      <4> QED BY <3>1, <4>2 DEF SecretInv, Versions, NotNewer
    <3>2. CASE j # k
      <4>1. phase[j] = "realized" /\ j \in DOMAIN live /\ live'[j] = live[j]
        BY <1>0, <2>2, <2>3, <3>2
      <4> QED BY <1>0, <4>1 DEF SecretInv, Waiting
    <3> QED BY <3>1, <3>2
  <2> QED BY <2>3, <2>4, <2>5 DEF SecretInv
<1>6. ASSUME phase[k] = "realized", mem' = MemAfter(k), st' \in {st, MemAfter(k)},
             UNCHANGED <<cmd, run, live, secret>>,
             NEW q \in {"ok", "failed"}, phase' = [phase EXCEPT ![k] = q]
      PROVE  SecretInv'
  <2>1. \A j \in Key : phase'[j] = IF j = k THEN q ELSE phase[j]
    BY <1>0, <1>6
  <2>2. \A j \in DOMAIN mem' : IF j = k THEN ~Deleting(k) /\ mem'[k] = Recorded(k)
                              ELSE j \in DOMAIN mem /\ mem'[j] = mem[j]
    BY <1>6 DEF MemAfter, Put, Del
  <2>3. \A j, r : (NotNewer(j, r) <=> NotNewer(j, r)') /\ (Behind(j, r) <=> Behind(j, r)')
    BY <1>6 DEF NotNewer, Behind
  <2>4. \A j \in DOMAIN mem' : NotNewer(j, mem'[j]) /\ Behind(j, mem'[j])
    BY <1>0, <1>6, <2>2, SecretRecord DEF SecretInv, Versions
  <2>5. \A j \in DOMAIN st' : NotNewer(j, st'[j]) /\ Behind(j, st'[j])
    BY <1>6, <2>4 DEF SecretInv, Versions
  <2>6. Versions'
    BY <1>6, <2>3, <2>4, <2>5 DEF SecretInv, Versions
  <2>7. Waiting'
    <3> SUFFICES ASSUME NEW j \in DOMAIN desired, j \in DOMAIN live, phase'[j] = "realized",
                        ~Deleting(j), ~desired[j].external,
                        NEW d \in desired[j].deps \cap SecretKey, d \in DOMAIN mem'
                 PROVE  mem'[d].secret <= live[j].seen[d]
      BY <1>6 DEF Waiting, Deleting
    <3>1. j # k /\ phase[j] = "realized" /\ j \in Active
      BY <1>0, <2>1 DEF Active
    <3>2. cmd = "apply" /\ desired \in Manifests
      BY <1>0, <3>1, InFlight DEF SecretInv
    <3>3. d \in Dependencies(desired, j)
      BY KeyAssumption DEF Dependencies, Edges
    <3>4. phase[d] \in {"ok", "noop"}
      BY <3>1, <3>2, <3>3 DEF Order, ReconcileAfterDependencies
    <3>5. d # k /\ d \in DOMAIN mem /\ mem'[d] = mem[d]
      BY <1>6, <2>2, <3>4
    <3> QED BY <1>0, <3>1, <3>5 DEF SecretInv, Waiting
  <2> QED BY <1>1, <1>6, <2>6, <2>7 DEF SecretInv
<1>7. CASE Record(k)
  BY <1>6, <1>7 DEF Record, Advance
<1>8. CASE SaveFails(k)
  <2>1. CASE Exit
    <3>1. cmd' = "idle" /\ DOMAIN mem' = {} /\ DOMAIN plan' = {} /\ DOMAIN desired' = {}
      BY <2>1 DEF Exit, Empty
    <3> QED BY <1>8, <3>1 DEF SaveFails, SecretInv, Versions, Built, Waiting, NotNewer, Behind
  <2>2. CASE mem' = MemAfter(k) /\ Fail(k) /\ UNCHANGED <<cmd, run>>
    BY <1>6, <1>8, <2>2 DEF SaveFails, Fail, Advance
  <2> QED BY <1>8, <2>1, <2>2 DEF SaveFails
<1> QED BY <1>3, <1>4, <1>5, <1>7, <1>8 DEF Execute

(* A command starts with what the file holds and secrets as they are. *)
LEMMA SecretStart ==
  ASSUME TypeInv, SecretInv, NEW o \in Options, StartApply(o) \/ StartDestroy(o)
  PROVE  SecretInv'
<1>0. manifest \in Manifests /\ IsMap(st, ResourceState) /\ secret \in [Key -> Nat]
  BY DEF TypeInv, TypeOK
<1>1. ASSUME NEW c, NEW p, Start(c, o, p), DOMAIN p \subseteq Key,
             \A k \in DOMAIN p : p[k].secret <= secret[k],
             \A k \in DOMAIN p \ DOMAIN manifest : p[k].action \notin Schedulable,
             c = "destroy" => \A k \in DOMAIN p : p[k].action \in {"noop", "refused", "delete"}
      PROVE  SecretInv'
  <2>1. /\ cmd' = c /\ mem' = st /\ plan' = p /\ desired' = manifest
        /\ UNCHANGED <<live, st, secret>>
        /\ \A k \in DOMAIN manifest : byKey'[k] = manifest[k]
        /\ \A k \in Key : phase'[k] \in {"pending", "none"}
    BY <1>1 DEF Start, world
  <2>2. Versions'
    BY <1>1, <2>1 DEF SecretInv, Versions, NotNewer, Behind
  <2>3. Built'
    BY <1>1, <2>1 DEF Built, Active
  <2>4. Waiting'
    <3>1. DOMAIN manifest \subseteq Key
      BY <1>0, ManifestsAssumption DEF Buildable
    <3> QED BY <2>1, <3>1 DEF Waiting
  <2> QED BY <2>2, <2>3, <2>4 DEF SecretInv
<1>2. CASE StartApply(o)
  <2>1. PICK del \in DeleteDepths(AbsentEdges(manifest, st)) :
          Start("apply", o, ComputeWithSecretHashes(manifest, st, secret, del))
    BY <1>2 DEF StartApply
  <2> DEFINE p == ComputeWithSecretHashes(manifest, st, secret, del)
  <2>2. DOMAIN p = DOMAIN manifest \cup DOMAIN st /\ DOMAIN p \subseteq Key
    BY <1>0, ManifestsAssumption DEF ComputeWithSecretHashes, Buildable
  <2>3. \A k \in DOMAIN p : p[k].secret \in {0, secret[k]}
    BY DEF ComputeWithSecretHashes
  <2>4. \A k \in DOMAIN p : p[k].secret <= secret[k]
    <3> HIDE DEF p
    <3> QED BY <1>0, <2>2, <2>3
  <2>5. \A k \in DOMAIN p \ DOMAIN manifest : p[k].action \notin Schedulable
    BY DEF ComputeWithSecretHashes, DeleteAction, Schedulable
  <2> HIDE DEF p
  <2>6. Start("apply", o, p)
    BY <2>1 DEF p
  <2> QED BY <1>1, <2>2, <2>4, <2>5, <2>6
<1>3. CASE StartDestroy(o)
  <2> DEFINE p == ComputeDestroy(manifest, st, o)
  <2>1. DOMAIN p = DOMAIN manifest /\ DOMAIN p \subseteq Key
    BY <1>0, ManifestsAssumption DEF ComputeDestroy, Buildable
  <2>2. \A k \in DOMAIN p : p[k].secret = 0
    BY DEF ComputeDestroy
  <2>3. \A k \in DOMAIN p : p[k].action \in {"noop", "refused", "delete"}
    BY DEF ComputeDestroy, DestroyAction
  <2>4. Start("destroy", o, p)
    BY <1>3 DEF StartDestroy
  <2> HIDE DEF p
  <2>5. \A k \in DOMAIN p : p[k].secret <= secret[k]
    BY <1>0, <2>1, <2>2
  <2> QED BY <1>1, <2>1, <2>3, <2>4, <2>5
<1> QED BY <1>2, <1>3

(* What is known of secrets is kept by every step. *)
LEMMA SecretNext ==
  ASSUME TypeInv, Order, SecretInv, [Next]_vars
  PROVE  SecretInv'
<1> USE DEF run, world
<1>1. ASSUME UNCHANGED <<live, st, secret>>, Exit PROVE SecretInv'
  <2>1. cmd' = "idle" /\ DOMAIN mem' = {} /\ DOMAIN plan' = {} /\ DOMAIN desired' = {}
    BY <1>1 DEF Exit, Empty
  <2> QED BY <1>1, <2>1 DEF SecretInv, Versions, Built, Waiting, NotNewer, Behind
<1>2. CASE Finish \/ Crash
  BY <1>1, <1>2 DEF Finish, Crash
<1>3. ASSUME NEW k \in Importable, Import(k)
      PROVE  SecretInv'
  <2> DEFINE r == [hash |-> manifest[k].hash, imported |-> TRUE, env |-> manifest[k],
                   deps |-> {}, secret |-> 0, depSecrets |-> NoHashes]
  <2>1. st' = Put(st, k, r) /\ UNCHANGED <<live, mem, plan, secret, cmd, desired, byKey, phase>>
        /\ cmd = "idle"
    BY <1>3 DEF Import
  <2>2. r.secret = 0 /\ \A d \in Key : r.depSecrets[d] = 0
    BY DEF NoHashes
  <2> HIDE DEF r
  <2>3. /\ k \in Key /\ \A d \in Key : secret[d] \in Nat
        /\ \A j \in DOMAIN live : \A d \in Key : live[j].seen[d] \in Nat
    BY ImportableAssumption DEF TypeInv, TypeOK, Object
  <2>4. NotNewer(k, r) /\ Behind(k, r)
    BY <2>2, <2>3, KeyAssumption DEF NotNewer, Behind
  <2>5. \A j \in DOMAIN st' : IF j = k THEN st'[k] = r ELSE j \in DOMAIN st /\ st'[j] = st[j]
    BY <2>1 DEF Put
  <2>6. Versions'
    <3>1. \A j, x : (NotNewer(j, x) <=> NotNewer(j, x)') /\ (Behind(j, x) <=> Behind(j, x)')
      BY <2>1 DEF NotNewer, Behind
    <3> QED BY <2>1, <2>4, <2>5, <3>1 DEF SecretInv, Versions
  <2> QED BY <2>1, <2>6 DEF SecretInv, Built, Waiting
<1>4. ASSUME NEW m \in Manifests, EditManifests(m)
      PROVE  SecretInv'
  BY <1>4 DEF EditManifests, SecretInv, Versions, Built, Waiting, NotNewer, Behind, Active, Deleting
<1>5. ASSUME NEW k \in SecretKey, Rotate(k)
      PROVE  SecretInv'
  <2>1. /\ UNCHANGED <<live, st, mem, plan, cmd, desired, byKey, phase>>
        /\ \A d \in Key : secret[d] \in Nat /\ secret'[d] \in Nat /\ secret[d] <= secret'[d]
    BY <1>5 DEF Rotate, TypeInv, TypeOK
  <2>2. ASSUME NEW j \in Key, NEW r \in ResourceState, NotNewer(j, r) PROVE NotNewer(j, r)'
    BY <2>1, <2>2 DEF NotNewer, ResourceState
  <2>3. \A j, r : Behind(j, r) <=> Behind(j, r)'
    BY <2>1 DEF Behind
  <2>4. /\ IsMap(st, ResourceState) /\ IsMap(mem, ResourceState)
        /\ IsMap(live, Object) /\ IsMap(plan, Entry)
    BY DEF TypeInv, TypeOK
  <2>5. \A j \in DOMAIN st : NotNewer(j, st[j])' /\ Behind(j, st[j])'
    BY <2>1, <2>2, <2>3, <2>4 DEF SecretInv, Versions
  <2>6. \A j \in DOMAIN mem : NotNewer(j, mem[j])' /\ Behind(j, mem[j])'
    BY <2>1, <2>2, <2>3, <2>4 DEF SecretInv, Versions
  <2>7. \A j \in DOMAIN plan : plan[j].secret <= secret'[j]
    BY <2>1, <2>4 DEF SecretInv, Versions, Entry
  <2>8. \A j \in DOMAIN live : \A d \in SecretKey : live[j].seen[d] <= secret'[d]
    BY <2>1, <2>4, KeyAssumption DEF SecretInv, Versions, Object
  <2>9. Versions'
    BY <2>1, <2>5, <2>6, <2>7, <2>8 DEF SecretInv, Versions
  <2> QED BY <2>1, <2>9 DEF SecretInv, Built, Waiting, Active, Deleting
<1>6. ASSUME NEW k \in Key, Drift(k)
      PROVE  SecretInv'
  <2>1. /\ UNCHANGED <<st, mem, plan, secret, cmd, desired, byKey, phase>>
        /\ DOMAIN live' = DOMAIN live \ {k} /\ \A j \in DOMAIN live' : live'[j] = live[j]
    BY <1>6 DEF Drift, Del
  <2>2. Versions'
    BY <2>1 DEF SecretInv, Versions, NotNewer, Behind
  <2> QED BY <2>1, <2>2 DEF SecretInv, Built, Waiting, Active, Deleting
<1>7. CASE UNCHANGED vars
  BY <1>7 DEF vars, SecretInv, Versions, Built, Waiting, NotNewer, Behind, Active, Deleting
<1> QED BY <1>2, <1>3, <1>4, <1>5, <1>6, <1>7, SecretStart, SecretExecute DEF Next, Environment

(* After a successful apply no Managed resource runs on rotated-out         *)
(* material of a secret it references, whatever failed, crashed or was      *)
(* edited before: comparing the recorded fingerprints is enough.  Of the    *)
(* spec hash this uses that it determines the secrets a spec names, and not *)
(* the other dependencies, which may change with the rest of the set.       *)
THEOREM SecretsAreCurrent == Spec => []SettledSecretsCurrent
<1>1. Init => TypeInv /\ Order /\ SecretInv
  BY TypeInvInit, OrderAtRest, SecretInit DEF Init
<1>2. TypeInv /\ Order /\ SecretInv /\ [Next]_vars => (TypeInv /\ Order /\ SecretInv)'
  BY TypeInvStep, OrderNext, SecretNext
<1>3. TypeInv /\ SecretInv /\ QuietInv => SettledSecretsCurrent
  <2> SUFFICES ASSUME TypeInv, SecretInv, QuietInv, Settled,
                      NEW k \in DOMAIN live \cap DOMAIN manifest, live[k].hash = manifest[k].hash,
                      LifecycleIn(manifest, st, k) = "Managed",
                      NEW d \in manifest[k].deps \cap SecretKey
               PROVE  live[k].seen[d] = secret[d]
    BY DEF SettledSecretsCurrent
  <2>1. k \in DOMAIN st /\ Current(k, st[k])
    BY DEF QuietInv, QuietRest
  <2>2. LifecycleOf(manifest[k], st[k].imported) = "Managed" /\ ~manifest[k].external
    BY <2>1 DEF LifecycleIn, LifecycleOf, Prior
  <2>3. st[k].hash = manifest[k].hash /\ st[k].depSecrets[d] = secret[d]
    BY <2>1, <2>2 DEF Current
  <2>4. manifest \in Manifests /\ secret[d] \in Nat /\ live[k].seen[d] \in Nat
    BY KeyAssumption DEF TypeInv, TypeOK, Object
  <2>5. st[k].depSecrets[d] <= live[k].seen[d]
    BY <2>1, <2>2, <2>3, <2>4 DEF SecretInv, Versions, Behind
  <2>6. live[k].seen[d] <= secret[d]
    BY DEF SecretInv, Versions
  <2> QED BY <2>3, <2>4, <2>5, <2>6
<1> QED BY <1>1, <1>2, <1>3, EngineInvariant, PTL DEF Spec
=============================================================================
