------------------------- MODULE DockerProofs -------------------------
(***************************************************************************)
(* The Docker adapter keeps a workload's two shapes apart, leaves alone    *)
(* what is not platformctl's and what already fits, and leaves exactly     *)
(* what was declared, or nothing, for any number of replicas, contents and *)
(* outside interference.                                                   *)
(***************************************************************************)
EXTENDS Docker, TLAPS

\* The names are integers, and the literal name is not an ordinal.
LEMMA NamesAreIntegers == /\ Name \subseteq Int /\ Base \in Name /\ 0 \in Name
                          /\ Base \notin Ordinals /\ Ordinals \subseteq Name
  BY DockerAssumption DEF Name, Base, Ordinals

\* The constant records have the declared types.
LEMMA RecordTypes == /\ NoContainer \in Container /\ ForeignContainer \in Container
                     /\ NoHash \in Hash
  BY DockerAssumption DEF NoContainer, ForeignContainer, Container, NoHash, Hash, Owner

\* A spec's containers have names of the daemon, and its hash is a hash.
LEMMA TargetsAreNames ==
  ASSUME NEW s \in ContainerSpec
  PROVE  /\ Targets(s) \subseteq Name
         /\ ReplicaCount(s) \in 1..MaxReplicas
         /\ ~Single(s) => Targets(s) \subseteq Ordinals /\ 0 \in Targets(s)
         /\ Single(s) => Targets(s) = {Base}
         /\ \A n \in Name : specHash(s, n) \in Hash /\ specHash(s, n) # NoHash
         /\ \A n \in Targets(s) : n # Base /\ n + 1 < ReplicaCount(s) => n + 1 \in Targets(s)
  BY DockerAssumption DEF ContainerSpec, Targets, ReplicaCount, Single, Name, Base,
       Ordinals, specHash, Hash, NoHash

\* Changing one field of a container gives a container.
LEMMA FieldTypes ==
  ASSUME NEW c \in Container
  PROVE  /\ [c EXCEPT !.attached = FALSE] \in Container
         /\ [c EXCEPT !.files = TRUE] \in Container
         /\ \A st \in {"created", "running", "exited"} : [c EXCEPT !.state = st] \in Container
  BY DEF Container

\* Every step leaves the types and the places an operation can be in right.
LEMMA TypeStep == TypeOK /\ Located /\ [Next]_vars => TypeOK' /\ Located'
<1> SUFFICES ASSUME TypeOK, Located, [Next]_vars PROVE TypeOK' /\ Located'
  OBVIOUS
<1>t. /\ op.spec \in ContainerSpec /\ ctr[cur] \in Container
      /\ op = [up |-> op.up, spec |-> op.spec] /\ op.up \in BOOLEAN
  BY DEF TypeOK, Operation
<1>u. /\ Targets(op.spec) \subseteq Name /\ ReplicaCount(op.spec) \in 1..MaxReplicas
      /\ ~Single(op.spec) => Targets(op.spec) \subseteq Ordinals /\ 0 \in Targets(op.spec)
      /\ Single(op.spec) => Targets(op.spec) = {Base}
      /\ specHash(op.spec, cur) \in Hash
      /\ \A n \in Targets(op.spec) :
           n # Base /\ n + 1 < ReplicaCount(op.spec) => n + 1 \in Targets(op.spec)
  BY <1>t, TargetsAreNames DEF TypeOK
<1> USE NamesAreIntegers, RecordTypes DEF TypeOK, Located, Containing, Pruning
<1>1. ASSUME NEW up \in BOOLEAN, NEW s \in ContainerSpec, Begin(up, s) PROVE TypeOK' /\ Located'
  BY <1>1 DEF Begin, daemon, Pcs, Operation
<1>2. CASE Interrupt
  BY <1>2, <1>t DEF Interrupt, Goto, Step, End, Fail, daemon, Pcs
<1>3. CASE EnsureNetwork
  BY <1>3, <1>t, <1>u DEF EnsureNetwork, AfterNetwork, Goto, Step, End, Fail, daemon, Pcs
<1>4. CASE NetworkCreate
  BY <1>4, <1>t, <1>u DEF NetworkCreate, AfterNetwork, Goto, Step, End, Fail, daemon, Pcs, Owner
<1>5. CASE EnsureVolume
  BY <1>5, <1>t, <1>u DEF EnsureVolume, AfterVolume, Goto, Step, End, Fail, daemon, Pcs
<1>6. CASE VolumeCreate
  BY <1>6, <1>t, <1>u DEF VolumeCreate, AfterVolume, Goto, Step, End, Fail, daemon, Pcs, Owner
<1>7. CASE ShapeGuard
  BY <1>7, <1>t, <1>u DEF ShapeGuard, Goto, Step, End, Fail, daemon, Pcs
<1>8. CASE ListMembers
  BY <1>8, <1>t DEF ListMembers, Goto, Step, End, Fail, daemon, Pcs, listReplicaMembers
<1>9. CASE PruneNext
  BY <1>9, <1>t DEF PruneNext, Goto, Step, End, Fail, daemon, Pcs
<1>10. CASE PruneEnd
  BY <1>10, <1>t, <1>u DEF PruneEnd, OrdinalStep, Goto, Step, End, Fail, daemon, Pcs
<1>11. CASE ContainerRemove
  BY <1>11, <1>t DEF ContainerRemove, Goto, Step, End, Fail, daemon, Pcs
<1>12. CASE InspectOne
  BY <1>12, <1>t, <1>u DEF InspectOne, Advance, OrdinalStep, Goto, Step, End, Fail, daemon, Pcs
<1>13. CASE ContainerCreate
  <2> DEFINE on == net # "absent"
             new == [owner |-> "managed", hash |-> specHash(op.spec, cur),
                     files |-> FALSE, attached |-> on, state |-> "created"]
  <2>0. new \in Container
    <3>1. on \in BOOLEAN
      OBVIOUS
    <3> HIDE DEF on
    <3> QED
      BY <3>1, <1>u DEF Container, Owner
  <2>1. ctr' \in [Name -> Container]
    <3>1. ctr' = ctr \/ ctr' = [ctr EXCEPT ![cur] = new]
      BY <1>13 DEF ContainerCreate, Fail, daemon
    <3> HIDE DEF new
    <3> QED
      BY <2>0, <3>1
  <2>2. vol' \in [Name -> Owner]
    BY <1>13 DEF ContainerCreate, Fail, daemon, Owner
  <2> QED
    BY <1>13, <2>1, <2>2, <1>t, <1>u DEF ContainerCreate, Goto, End, Fail, daemon, Pcs
<1>14. CASE copyFilesIn
  BY <1>14, <1>t, FieldTypes DEF copyFilesIn, Goto, Step, End, Fail, daemon, Pcs
<1>15. CASE ContainerStart
  BY <1>15, <1>t, FieldTypes DEF ContainerStart, Goto, Step, End, Fail, daemon, Pcs
<1>16. CASE inspectState
  BY <1>16, <1>t, <1>u DEF inspectState, Advance, OrdinalStep, Goto, Step, End, Fail, daemon, Pcs
<1>17. CASE Remove
  BY <1>17, <1>t DEF Remove, Goto, Step, End, Fail, daemon, Pcs
<1>18. CASE ListVolumes
  BY <1>18, <1>t DEF ListVolumes, Goto, Step, End, Fail, daemon, Pcs
<1>19. CASE RemoveVolume
  BY <1>19, <1>t DEF RemoveVolume, Goto, Step, End, Fail, daemon, Pcs
<1>20. CASE VolumeRemove
  BY <1>20, <1>t DEF VolumeRemove, Goto, Step, End, Fail, daemon, Pcs, Owner
<1>21. CASE RemoveNetwork
  BY <1>21, <1>t DEF RemoveNetwork, Goto, Step, End, Fail, daemon, Pcs
<1>22. CASE NetworkRemove
  <2>1. DropEndpoints(ctr) \in [Name -> Container]
    BY FieldTypes DEF DropEndpoints
  <2>2. ctr' \in [Name -> Container] /\ net' \in Owner
    BY <1>22, <2>1 DEF NetworkRemove, Owner
  <2> QED
    BY <1>22, <2>2, <1>t DEF NetworkRemove, End, Pcs
<1>23. CASE MeddleNetwork
  <2>1. DropEndpoints(ctr) \in [Name -> Container]
    BY FieldTypes DEF DropEndpoints
  <2>3. ctr' \in [Name -> Container] /\ net' \in Owner
    BY <1>23, <2>1 DEF MeddleNetwork, Owner
  <2>4. held' \in BOOLEAN
    BY <1>23 DEF MeddleNetwork
  <2>2. meddled' \in 0..MaxMeddling
    BY <1>23, DockerAssumption DEF MeddleNetwork, Meddle
  <2> QED
    BY <1>23, <2>2, <2>3, <2>4 DEF MeddleNetwork, Meddle
<1>24. ASSUME NEW n \in Name, MeddleContainer(n) PROVE TypeOK' /\ Located'
  <2>1. ctr' \in [Name -> Container] /\ vol' \in [Name -> Owner] /\ held' \in BOOLEAN
    BY <1>24, FieldTypes DEF MeddleContainer, Owner
  <2>2. meddled' \in 0..MaxMeddling
    BY <1>24, DockerAssumption DEF MeddleContainer, Meddle
  <2> QED
    BY <1>24, <2>1, <2>2 DEF MeddleContainer, Meddle
<1>25. ASSUME NEW n \in Name, MeddleExit(n) PROVE TypeOK' /\ Located'
  <2>1. ctr' \in [Name -> Container] /\ vol' \in [Name -> Owner] /\ held' \in BOOLEAN
    BY <1>25, FieldTypes DEF MeddleExit, Owner
  <2>2. meddled' \in 0..MaxMeddling
    BY <1>25, DockerAssumption DEF MeddleExit, Meddle
  <2> QED
    BY <1>25, <2>1, <2>2 DEF MeddleExit, Meddle
<1>26. ASSUME NEW n \in Name, MeddleVolume(n) PROVE TypeOK' /\ Located'
  <2>1. ctr' \in [Name -> Container] /\ vol' \in [Name -> Owner] /\ held' \in BOOLEAN
    BY <1>26, FieldTypes DEF MeddleVolume, Owner
  <2>2. meddled' \in 0..MaxMeddling
    BY <1>26, DockerAssumption DEF MeddleVolume, Meddle
  <2> QED
    BY <1>26, <2>1, <2>2 DEF MeddleVolume, Meddle
<1>27. CASE UNCHANGED vars
  BY <1>27 DEF vars
<1>28. QED
  BY <1>1, <1>2, <1>3, <1>4, <1>5, <1>6, <1>7, <1>8, <1>9,
     <1>10, <1>11, <1>12, <1>13, <1>14, <1>15, <1>16, <1>17, <1>18, <1>19,
     <1>20, <1>21, <1>22, <1>23, <1>24, <1>25, <1>26, <1>27 DEF Next, Client, Operator

\* The initial state has the declared types.
LEMMA InitTypes == Init => TypeOK /\ Located
<1> SUFFICES ASSUME Init PROVE TypeOK /\ Located
  OBVIOUS
<1>1. op \in Operation
  BY DockerAssumption DEF Init, Operation, ContainerSpec
<1>2. ctr \in [Name -> Container] /\ vol \in [Name -> Owner] /\ net \in Owner
  BY RecordTypes DEF Init, Owner
<1>3. pc \in Pcs /\ cur \in Name /\ todo \subseteq Name /\ done = "none"
  BY NamesAreIntegers DEF Init, Pcs
<1>4. meddled \in 0..MaxMeddling
  BY DockerAssumption DEF Init
<1>6. held \in BOOLEAN /\ quiet \in BOOLEAN
  BY Zenon DEF Init
<1>5. Located
  BY DEF Init, Located, Containing, Pruning
<1> QED
  BY <1>1, <1>2, <1>3, <1>4, <1>5, <1>6 DEF TypeOK

\* TypeOK holds in every reachable state, for every bound.
THEOREM DockerTypes == Spec => []TypeOK
<1> QED
  BY InitTypes, TypeStep, PTL DEF Spec

\* What an operation has ruled out and whose object it holds stay true, so the
\* shapes stay apart.
LEMMA ShapeStep ==
  IInv /\ [Next]_vars => PastGuard' /\ HeldIsOurs' /\ OneShape'
<1> SUFFICES ASSUME IInv, [Next]_vars PROVE PastGuard' /\ HeldIsOurs' /\ OneShape'
  OBVIOUS
<1>t. /\ op.spec \in ContainerSpec /\ ctr \in [Name -> Container] /\ cur \in Name
      /\ held \in BOOLEAN /\ todo \subseteq Name /\ op.up \in BOOLEAN
  BY DEF IInv, TypeOK, Operation
<1>u. /\ Targets(op.spec) \subseteq Name
      /\ ~Single(op.spec) => Targets(op.spec) \subseteq Ordinals
      /\ Single(op.spec) => Targets(op.spec) = {Base}
      /\ specHash(op.spec, cur) # NoHash
  BY <1>t, TargetsAreNames
<1> USE NamesAreIntegers, <1>t
    DEF IInv, Located, PastGuard, HeldIsOurs, OneShape, Managed, listReplicaMembers,
        Containing, Pruning
<1>1. ASSUME NEW up \in BOOLEAN, NEW s \in ContainerSpec, Begin(up, s)
      PROVE  PastGuard' /\ HeldIsOurs' /\ OneShape'
  BY <1>1 DEF Begin, daemon
<1>2. CASE Interrupt
  BY <1>2 DEF Interrupt, Goto, Step, End, Fail, daemon
<1>3. CASE EnsureNetwork
  BY <1>3 DEF EnsureNetwork, AfterNetwork, Goto, Step, End, Fail, daemon
<1>4. CASE NetworkCreate
  BY <1>4 DEF NetworkCreate, AfterNetwork, Goto, Step, End, Fail, daemon
<1>5. CASE EnsureVolume
  BY <1>5, <1>u DEF EnsureVolume, AfterVolume, Goto, Step, End, Fail, daemon
<1>6. CASE VolumeCreate
  BY <1>6, <1>u DEF VolumeCreate, AfterVolume, Goto, Step, End, Fail, daemon
<1>7. CASE ShapeGuard
  BY <1>7, <1>u DEF ShapeGuard, Exists, Goto, Step, End, Fail, daemon
<1>8. CASE ListMembers
  BY <1>8 DEF ListMembers, Goto, Step, End, Fail, daemon
<1>9. CASE PruneNext
  BY <1>9 DEF PruneNext, Goto, Step, End, Fail, daemon
<1>10. CASE PruneEnd
  BY <1>10 DEF PruneEnd, OrdinalStep, Goto, Step, End, Fail, daemon
<1>11. CASE ContainerRemove
  <2>1. /\ \A n \in Name : n # cur => ctr'[n] = ctr[n]
        /\ ctr'[cur] \in {ctr[cur], NoContainer}
    BY <1>11 DEF ContainerRemove, Fail, daemon
  <2>2. /\ \A n \in Name : ctr'[n].owner = "managed" => ctr[n].owner = "managed"
        /\ \A n \in Name : ctr'[n].owner # "managed" => ctr'[n].hash = NoHash
    BY <2>1 DEF NoContainer
  <2> QED
    BY <1>11, <2>2 DEF ContainerRemove, Goto, End, Fail, daemon
<1>12. CASE InspectOne
  BY <1>12, <1>u DEF InspectOne, Advance, OrdinalStep, Exists, Matches, Goto, Step, End, Fail, daemon
<1>13. CASE ContainerCreate
  <2>1. CASE Exists(cur)
    BY <1>13, <2>1 DEF ContainerCreate, End, Fail, daemon
  <2>2. CASE ~Exists(cur)
    <3>1. /\ \A n \in Name : n # cur => ctr'[n] = ctr[n]
          /\ ctr'[cur].owner = "managed" /\ pc = "create" /\ pc' = "copy"
          /\ UNCHANGED <<op, cur>>
      BY <1>13, <2>2 DEF ContainerCreate, Goto
    <3>2. CASE Single(op.spec)
      <4>1. cur = Base /\ listReplicaMembers = {}
        BY <3>1, <3>2, <1>u
      <4>2. listReplicaMembers' = {}
        BY <3>1, <4>1
      <4> QED
        BY <3>1, <3>2, <4>1, <4>2
    <3>3. CASE ~Single(op.spec)
      BY <3>1, <3>3, <1>u
    <3> QED
      BY <3>2, <3>3
  <2> QED
    BY <2>1, <2>2
<1>14. CASE copyFilesIn
  BY <1>14 DEF copyFilesIn, Goto, Step, End, Fail, daemon, Container
<1>15. CASE ContainerStart
  BY <1>15 DEF ContainerStart, Goto, Step, End, Fail, daemon, Container
<1>16. CASE inspectState
  BY <1>16 DEF inspectState, Advance, OrdinalStep, Goto, Step, End, Fail, daemon
<1>17. CASE Remove
  BY <1>17 DEF Remove, Goto, Step, End, Fail, daemon
<1>18. CASE ListVolumes
  BY <1>18 DEF ListVolumes, Goto, Step, End, Fail, daemon
<1>19. CASE RemoveVolume
  BY <1>19 DEF RemoveVolume, Goto, Step, End, Fail, daemon
<1>20. CASE VolumeRemove
  BY <1>20 DEF VolumeRemove, Goto, Step, End, Fail, daemon
<1>21. CASE RemoveNetwork
  BY <1>21 DEF RemoveNetwork, Goto, Step, End, Fail, daemon
<1>22. CASE NetworkRemove
  BY <1>22 DEF NetworkRemove, DropEndpoints, Goto, Step, End, Fail, daemon, Container
<1>23. CASE MeddleNetwork
  <2>1. \A n \in Name : /\ DropEndpoints(ctr)[n].owner = ctr[n].owner
                       /\ DropEndpoints(ctr)[n].hash = ctr[n].hash
    BY DEF DropEndpoints, Container
  <2>2. \A n \in Name : ctr'[n].owner = ctr[n].owner /\ ctr'[n].hash = ctr[n].hash
    BY <1>23, <2>1 DEF MeddleNetwork
  <2>3. UNCHANGED <<pc, op, cur>>
    BY <1>23 DEF MeddleNetwork, Meddle
  <2>5. held' => held
    BY <1>23, Zenon DEF MeddleNetwork
  <2>4. pc = "networkDrop" /\ held' => net' = "managed"
    BY <1>23 DEF MeddleNetwork
  <2> QED
    BY <2>2, <2>3, <2>4, <2>5
<1>24. ASSUME NEW n \in Name, MeddleContainer(n)
       PROVE  PastGuard' /\ HeldIsOurs' /\ OneShape'
  <2>1. /\ \A m \in Name : m # n => ctr'[m] = ctr[m]
        /\ ctr'[n] \in {NoContainer, ForeignContainer}
        /\ UNCHANGED <<pc, op, cur, net>>
    BY <1>24 DEF MeddleContainer, Meddle
  <2>2. /\ \A m \in Name : ctr'[m].owner = "managed" => m # n /\ ctr[m].owner = "managed"
        /\ \A m \in Name : ctr'[m].owner # "managed" => ctr'[m].hash = NoHash
    BY <2>1 DEF NoContainer, ForeignContainer
  <2>3. HeldIsOurs'
    <3>1. pc \in {"drop", "replace", "copy", "start"} /\ held' => cur # n /\ held
      BY <1>24 DEF MeddleContainer, Exists
    <3>2. pc = "networkDrop" /\ held' => held
      BY <1>24 DEF MeddleContainer
    <3> QED
      BY <2>1, <2>2, <3>1, <3>2
  <2> QED
    BY <2>1, <2>2, <2>3
<1>25. ASSUME NEW n \in Name, MeddleExit(n) PROVE PastGuard' /\ HeldIsOurs' /\ OneShape'
  BY <1>25 DEF MeddleExit, Meddle, Container
<1>26. ASSUME NEW n \in Name, MeddleVolume(n) PROVE PastGuard' /\ HeldIsOurs' /\ OneShape'
  BY <1>26 DEF MeddleVolume, Meddle
<1>27. CASE UNCHANGED vars
  BY <1>27 DEF vars
<1>28. QED
  BY <1>1, <1>2, <1>3, <1>4, <1>5, <1>6, <1>7, <1>8, <1>9,
     <1>10, <1>11, <1>12, <1>13, <1>14, <1>15, <1>16, <1>17, <1>18, <1>19,
     <1>20, <1>21, <1>22, <1>23, <1>24, <1>25, <1>26, <1>27 DEF Next, Client, Operator

\* The inductive invariant holds in every reachable state.
LEMMA DockerInvariant == Spec => []IInv
<1>1. Init => PastGuard /\ HeldIsOurs /\ OneShape
  BY NamesAreIntegers DEF Init, PastGuard, HeldIsOurs, OneShape, Managed, NoContainer,
       listReplicaMembers, Containing, Pruning
<1>2. TypeOK /\ Located /\ PastGuard /\ HeldIsOurs /\ OneShape <=> IInv
  BY DEF IInv
<1>3. (TypeOK /\ Located)' /\ PastGuard' /\ HeldIsOurs' /\ OneShape' <=> IInv'
  BY DEF IInv
<1>4. IInv /\ [Next]_vars => IInv'
  BY TypeStep, ShapeStep, <1>3 DEF IInv
<1>5. Init => IInv
  BY <1>1, InitTypes DEF IInv
<1> QED
  BY <1>4, <1>5, PTL DEF Spec

\* A managed literal container and a managed ordinal never exist together, for
\* any number of replicas and whatever interrupted operations and outside
\* interference came before (EnsureContainer, ensureReplicaSet).
THEOREM ShapesExclusive == Spec => []OneShape
<1> IInv => OneShape
  BY DEF IInv
<1> QED
  BY DockerInvariant, PTL

\* No step of platformctl changes a container or a network that is not its own.
THEOREM ForeignSafe == Spec => ForeignUntouched
<1> DEFINE Kept == meddled' = meddled =>
             /\ \A n \in Name : ctr[n].owner = "foreign" =>
                    ctr'[n].owner = "foreign" /\ ctr'[n].state = ctr[n].state
             /\ net = "foreign" => net' = "foreign"
<1>1. IInv /\ [Next]_vars => [Kept]_vars
  <2> SUFFICES ASSUME IInv, Next, meddled' = meddled
               PROVE  /\ \A n \in Name : ctr[n].owner = "foreign" =>
                             ctr'[n].owner = "foreign" /\ ctr'[n].state = ctr[n].state
                      /\ net = "foreign" => net' = "foreign"
    OBVIOUS
  <2>t. ctr \in [Name -> Container] /\ cur \in Name /\ meddled \in Int
    BY DEF IInv, TypeOK
  <2> USE <2>t DEF IInv, HeldIsOurs, Managed, Fail, daemon
  <2>1. ~Operator
    <3>1. ~Meddle
      BY DEF Meddle
    <3>2. Operator => Meddle
      BY Zenon DEF Operator, MeddleContainer, MeddleExit, MeddleVolume, MeddleNetwork
    <3> QED
      BY <3>1, <3>2
  <2>2. CASE ContainerRemove
    BY <2>2 DEF ContainerRemove
  <2>3. CASE ContainerCreate
    BY <2>3 DEF ContainerCreate, Exists
  <2>4. CASE copyFilesIn
    BY <2>4 DEF copyFilesIn
  <2>5. CASE ContainerStart
    BY <2>5 DEF ContainerStart
  <2>6. CASE NetworkRemove
    <3>1. \A n \in Name : /\ DropEndpoints(ctr)[n].owner = ctr[n].owner
                         /\ DropEndpoints(ctr)[n].state = ctr[n].state
      BY DEF DropEndpoints, Container
    <3> QED
      BY <2>6, <3>1 DEF NetworkRemove
  <2>7. CASE NetworkCreate
    BY <2>7 DEF NetworkCreate
  <2>8. CASE VolumeCreate \/ VolumeRemove
    BY <2>8 DEF VolumeCreate, VolumeRemove
  <2>9. CASE \/ EnsureNetwork \/ EnsureVolume \/ ShapeGuard \/ ListMembers \/ PruneNext
            \/ PruneEnd \/ InspectOne \/ inspectState \/ Remove \/ ListVolumes
            \/ RemoveVolume \/ RemoveNetwork \/ Interrupt
    BY <2>9 DEF EnsureNetwork, EnsureVolume, ShapeGuard, ListMembers, PruneNext, PruneEnd,
         InspectOne, inspectState, Remove, ListVolumes, RemoveVolume, RemoveNetwork, Interrupt
  <2>10. CASE \E up \in BOOLEAN, s \in ContainerSpec : Begin(up, s)
    BY <2>10 DEF Begin
  <2> QED
    BY <2>1, <2>2, <2>3, <2>4, <2>5, <2>6, <2>7, <2>8, <2>9, <2>10 DEF Next, Client
<1>2. [][Kept]_vars <=> ForeignUntouched
  BY PTL DEF ForeignUntouched
<1> QED
  BY <1>1, <1>2, DockerInvariant, PTL DEF Spec

-----------------------------------------------------------------------------
\* What an operation has achieved at each of its steps, as long as nobody else
\* touches the daemon.

\* The container n is as its spec wants it, but for its state.
Made(n) == Managed(n) /\ Matches(op.spec, n)

\* Container n and the volume it mounts are finished.
Ready(n) == /\ Made(n) /\ ctr[n].state = "running"
            /\ MountsVolume(op.spec) => vol[n] = "managed"

Ordinaling == Containing \cup {"volume", "volumeCreate"}

Ensuring ==
    quiet /\ op.up =>
      /\ pc = "networkCreate" => net = "absent"
      /\ pc \in Ordinaling \cup Pruning \cup {"shape"} => net = "managed"
      /\ pc = "volumeCreate" => vol[cur] = "absent"
      /\ pc \in Containing /\ MountsVolume(op.spec) => vol[cur] = "managed"
      /\ pc = "shape" /\ Single(op.spec) => vol[Base] = "managed"
      /\ pc = "create" => ~Exists(cur)
      /\ pc \in {"copy", "start"} => Made(cur)
      /\ pc = "started" => Made(cur) /\ ctr[cur].state = "running"

\* A set is pruned first and then ensured one ordinal after the other.
Scaling ==
    quiet /\ op.up /\ ~Single(op.spec) =>
      /\ pc \in {"prune", "drop"} =>
           \A n \in listReplicaMembers : n >= ReplicaCount(op.spec) => n \in todo
      /\ pc \in Ordinaling =>
           /\ \A n \in listReplicaMembers : n < ReplicaCount(op.spec)
           /\ \A n \in Targets(op.spec) : n < cur => Ready(n)

\* A removal has listed what is left to remove.
Removing ==
    quiet /\ ~op.up =>
      /\ pc = "members" => ~Managed(Base)
      /\ pc = "prune" => \A n \in Name : Managed(n) => n \in todo
      /\ pc = "drop" => \A n \in Name : Managed(n) => n \in todo \/ n = cur
      /\ pc \in {"volumes", "volumeNext", "volumeDrop", "networkDrop"} =>
           \A n \in Name : ~Managed(n)
      /\ pc \in {"volumeNext", "volumeDrop"} =>
           \A n \in Name : (op.spec.stable \/ n = Base) /\ vol[n] = "managed" => n \in todo
      /\ pc = "networkDrop" =>
           \A n \in Name : (op.spec.stable \/ n = Base) => vol[n] # "managed"

\* What an operation is about to remove or write is none of the containers that
\* are as the spec wants them, whoever acts in between.
Sparing ==
    /\ pc # "idle" => done = "none"
    /\ op.up /\ pc \in {"prune", "drop"} => \A n \in todo : n >= ReplicaCount(op.spec)
    /\ op.up /\ pc = "drop" => cur \in todo
    /\ pc = "replace" /\ held => ~Matches(op.spec, cur)
    /\ pc = "copy" /\ held => ctr[cur].state # "running"
    /\ \A n \in Ordinals : Managed(n) => ctr[n].hash.replicas = 0

EnsureInv == Ensuring /\ Scaling /\ Removing /\ Sparing /\ EnsuredExactly /\ DownLeavesNothing

\* Every step spares the containers that are as the spec wants them, whoever
\* takes it.
LEMMA SparingStep == IInv /\ Sparing /\ [Next]_vars => Sparing'
<1> SUFFICES ASSUME IInv, Sparing, [Next]_vars PROVE Sparing'
  OBVIOUS
<1>t. /\ op.spec \in ContainerSpec /\ ctr \in [Name -> Container] /\ cur \in Name
      /\ held \in BOOLEAN /\ todo \subseteq Name /\ op.up \in BOOLEAN
  BY DEF IInv, TypeOK, Operation
<1>u. ReplicaCount(op.spec) \in Int
  BY <1>t, TargetsAreNames
<1> USE NamesAreIntegers, <1>t, <1>u DEF IInv, Sparing, HeldIsOurs, Located, Managed, Matches,
      Containing, Pruning, Container
<1>1. ASSUME NEW up \in BOOLEAN, NEW s \in ContainerSpec, Begin(up, s) PROVE Sparing'
  BY <1>1 DEF Begin, daemon
<1>2. CASE Interrupt
  BY <1>2 DEF Interrupt, End, daemon
<1>3. CASE EnsureNetwork
  BY <1>3 DEF EnsureNetwork, AfterNetwork, Goto, Step, End, daemon
<1>4. CASE NetworkCreate
  BY <1>4 DEF NetworkCreate, AfterNetwork, Goto, Step
<1>5. CASE EnsureVolume
  BY <1>5 DEF EnsureVolume, AfterVolume, Goto, Step, End, daemon
<1>6. CASE VolumeCreate
  BY <1>6 DEF VolumeCreate, AfterVolume, Goto, Step
<1>7. CASE ShapeGuard
  BY <1>7 DEF ShapeGuard, Exists, Goto, Step, End, daemon
<1>8. CASE ListMembers
  BY <1>8 DEF ListMembers, Goto, daemon, listReplicaMembers
<1>9. CASE PruneNext
  BY <1>9 DEF PruneNext, Exists, Goto, End, daemon
<1>10. CASE PruneEnd
  BY <1>10 DEF PruneEnd, OrdinalStep, Goto, Step, daemon
<1>11. CASE ContainerRemove
  <2>1. CASE ~held
    BY <1>11, <2>1 DEF ContainerRemove, End, Fail, daemon
  <2>2. CASE held
    <3>1. /\ \A n \in Name : n # cur => ctr'[n] = ctr[n]
          /\ ctr'[cur].owner = "absent"
          /\ todo' = todo \ {cur} /\ UNCHANGED <<op, done, cur>>
          /\ \/ pc = "drop" /\ pc' = "prune"
             \/ pc = "replace" /\ pc' = "create"
      BY <1>11, <2>2 DEF ContainerRemove, Goto, NoContainer
    <3> QED
      BY <3>1
  <2> QED
    BY <2>1, <2>2
<1>12. CASE InspectOne
  BY <1>12 DEF InspectOne, Exists, Advance, OrdinalStep, Goto, Step, End, daemon
<1>13. CASE ContainerCreate
  BY <1>13 DEF ContainerCreate, specHash, Exists, Goto, End, Fail, daemon
<1>14. CASE copyFilesIn
  BY <1>14 DEF copyFilesIn, Goto, Step, End, Fail, daemon
<1>15. CASE ContainerStart
  BY <1>15 DEF ContainerStart, Goto, End, Fail, daemon
<1>16. CASE inspectState
  BY <1>16 DEF inspectState, Advance, OrdinalStep, Goto, End, daemon
<1>17. CASE Remove
  BY <1>17 DEF Remove, Exists, Goto, Step, End, daemon
<1>18. CASE ListVolumes
  BY <1>18 DEF ListVolumes, Goto, daemon
<1>19. CASE RemoveVolume
  BY <1>19 DEF RemoveVolume, Goto, End, daemon
<1>20. CASE VolumeRemove
  BY <1>20 DEF VolumeRemove, Goto, End, Fail, daemon
<1>21. CASE RemoveNetwork
  BY <1>21 DEF RemoveNetwork, Goto, End, daemon
<1>22. CASE NetworkRemove
  BY <1>22 DEF NetworkRemove, DropEndpoints, End
<1>23. CASE MeddleNetwork
  <2>1. \A n \in Name :
          /\ DropEndpoints(ctr)[n].owner = ctr[n].owner
          /\ DropEndpoints(ctr)[n].hash = ctr[n].hash
          /\ DropEndpoints(ctr)[n].state = ctr[n].state
          /\ ~DropEndpoints(ctr)[n].attached
    BY DEF DropEndpoints
  <2>2. \A n \in Name :
          /\ ctr'[n].owner = ctr[n].owner /\ ctr'[n].hash = ctr[n].hash
          /\ ctr'[n].state = ctr[n].state
          /\ ctr'[n].attached => ctr[n].attached
    BY <1>23, <2>1 DEF MeddleNetwork
  <2>3. UNCHANGED <<pc, op, cur, todo, done>>
    BY <1>23 DEF MeddleNetwork, Meddle
  <2>4. held' => held
    BY <1>23, Zenon DEF MeddleNetwork
  <2>5. Matches(op.spec, cur)' => Matches(op.spec, cur)
    BY <2>2, <2>3
  <2> HIDE DEF Matches
  <2> QED
    BY <2>2, <2>3, <2>4, <2>5
<1>24. ASSUME NEW n \in Name, MeddleContainer(n) PROVE Sparing'
  <2>1. /\ \A m \in Name : m # n => ctr'[m] = ctr[m]
        /\ ctr'[n] \in {NoContainer, ForeignContainer}
        /\ UNCHANGED <<pc, op, cur, todo, done>>
    BY <1>24 DEF MeddleContainer, Meddle
  <2>2. ctr'[n].owner # "managed"
    BY <2>1 DEF NoContainer, ForeignContainer
  <2>3. pc \in {"replace", "copy"} /\ held' => held /\ n # cur
    BY <1>24 DEF MeddleContainer, Exists
  <2> QED
    BY <2>1, <2>2, <2>3
<1>25. ASSUME NEW n \in Name, MeddleExit(n) PROVE Sparing'
  BY <1>25 DEF MeddleExit, Meddle
<1>26. ASSUME NEW n \in Name, MeddleVolume(n) PROVE Sparing'
  BY <1>26 DEF MeddleVolume, Meddle
<1>27. CASE UNCHANGED vars
  <2>1. UNCHANGED <<pc, op, done, cur, todo, held, ctr>>
    BY ONLY <1>27 DEF vars
  <2> QED
    BY <2>1
<1> QED
  BY <1>1, <1>2, <1>3, <1>4, <1>5, <1>6, <1>7, <1>8, <1>9, <1>10, <1>11, <1>12, <1>13, <1>14,
     <1>15, <1>16, <1>17, <1>18, <1>19, <1>20, <1>21, <1>22, <1>23, <1>24, <1>25, <1>26,
     <1>27 DEF Next, Client, Operator

\* What an operation has achieved stays achieved and adds up to its promise.
LEMMA AchievedStep ==
  IInv /\ EnsureInv /\ [Next]_vars =>
    Ensuring' /\ Scaling' /\ Removing' /\ EnsuredExactly' /\ DownLeavesNothing'
<1> DEFINE Achieved == Ensuring /\ Scaling /\ Removing /\ EnsuredExactly /\ DownLeavesNothing
<1> SUFFICES ASSUME IInv, EnsureInv, [Next]_vars PROVE Achieved'
  OBVIOUS
<1>t. /\ op.spec \in ContainerSpec /\ ctr \in [Name -> Container] /\ cur \in Name
      /\ todo \subseteq Name /\ vol \in [Name -> Owner]
  BY DEF IInv, TypeOK, Operation
<1>u. /\ Targets(op.spec) \subseteq Name /\ ReplicaCount(op.spec) \in Int
      /\ ~Single(op.spec) =>
           \A n \in Ordinals : n \in Targets(op.spec) <=> n < ReplicaCount(op.spec)
      /\ ~Single(op.spec) => Targets(op.spec) \subseteq Ordinals /\ 0 \in Targets(op.spec)
      /\ Single(op.spec) => Targets(op.spec) = {Base}
      /\ \A n \in Name : specHash(op.spec, n) # NoHash
  <2>1. ReplicaCount(op.spec) \in 1..MaxReplicas
    BY <1>t, TargetsAreNames
  <2>2. ~Single(op.spec) =>
          \A n \in Ordinals : n \in Targets(op.spec) <=> n < ReplicaCount(op.spec)
    BY <2>1, DockerAssumption DEF Targets, Ordinals
  <2> QED
    BY <1>t, <2>1, <2>2, TargetsAreNames
<1> USE NamesAreIntegers, <1>t, <1>u DEF IInv, EnsureInv, Ensuring, Scaling, Removing, Sparing,
      EnsuredExactly, DownLeavesNothing, HeldIsOurs, PastGuard, OneShape, Located, Managed, Matches,
      Made, Ready, Ordinaling, Containing, Pruning, Container, listReplicaMembers
<1>n. /\ \A n \in Name : n = Base \/ n \in Ordinals
      /\ \A n \in Ordinals : n \in Int /\ ~(n < 0)
      /\ \A n, m \in Name : n < m => n # m
  BY DEF Name, Ordinals, Base
<1>m. \A n \in Targets(op.spec) : n \in Name /\ (n < cur => n # cur)
  BY <1>t, <1>u, <1>n, Zenon
\* The container at cur is finished, and with the last one the operation is.
<1>a. ASSUME pc \in {"inspect", "started"}, Advance, UNCHANGED daemon, quiet => Ready(cur)
      PROVE  Achieved'
  <2>o. op.up /\ cur \in Targets(op.spec) /\ done = "none"
    BY <1>a
  <2>1. CASE cur # Base /\ cur + 1 < ReplicaCount(op.spec)
    <3>1. /\ ~Single(op.spec) /\ cur' = cur + 1 /\ UNCHANGED <<op, done, quiet, ctr, net, vol>>
          /\ pc' = OrdinalStep
      BY <1>a, <2>o, <2>1 DEF Advance, Goto, daemon
    <3>2. Ensuring'
      BY <3>1, <1>a, <2>o DEF OrdinalStep, MountsVolume
    <3>3. Scaling'
      BY <3>1, <1>a, <2>o DEF OrdinalStep
    <3> QED
      BY <3>1, <3>2, <3>3, <2>o
  <2>2. CASE ~(cur # Base /\ cur + 1 < ReplicaCount(op.spec))
    <3>1. /\ UNCHANGED <<op, quiet, ctr, net, vol>>
          /\ pc' = "idle" /\ done' = "up"
      BY <1>a, <2>2 DEF Advance, End, daemon
    <3>2. quiet => /\ \A n \in Targets(op.spec) : Ready(n)
                   /\ \A n \in Name : Managed(n) => n \in Targets(op.spec)
      <4>1. CASE Single(op.spec)
        BY <1>a, <1>n, <2>o, <4>1
      <4>2. CASE ~Single(op.spec)
        BY <1>a, <1>n, <2>o, <2>2, <4>2
      <4> QED
        BY <4>1, <4>2
    <3>3. EnsuredExactly'
      BY <3>1, <3>2, <1>a, <2>o
    <3> QED
      BY <3>1, <3>3
  <2> QED
    BY <2>1, <2>2
<1>1. ASSUME NEW up \in BOOLEAN, NEW s \in ContainerSpec, Begin(up, s) PROVE Achieved'
  BY <1>1 DEF Begin, daemon
<1>2. CASE Interrupt
  BY <1>2 DEF Interrupt, End, daemon
<1>3. CASE EnsureNetwork
  BY <1>3 DEF EnsureNetwork, AfterNetwork, Goto, Step, End, daemon
<1>4. CASE NetworkCreate
  BY <1>4 DEF NetworkCreate, AfterNetwork, Goto, Step
<1>5. CASE EnsureVolume
  BY <1>5 DEF EnsureVolume, AfterVolume, Goto, Step, End, daemon
<1>6. CASE VolumeCreate
  BY <1>6 DEF VolumeCreate, AfterVolume, Goto, Step
<1>7. CASE ShapeGuard
  BY <1>7 DEF ShapeGuard, Exists, Goto, Step, End, daemon
<1>8. CASE ListMembers
  BY <1>8, <1>n DEF ListMembers, Goto, daemon
<1>9. CASE PruneNext
  BY <1>9 DEF PruneNext, Exists, Goto, End, daemon
<1>10. CASE PruneEnd
  <2>1. CASE op.up
    <3>1. /\ pc = "prune" /\ todo = {} /\ cur' = 0 /\ pc' = OrdinalStep
          /\ UNCHANGED <<op, done, quiet, ctr, net, vol>>
      BY <1>10, <2>1 DEF PruneEnd, Goto, daemon
    <3>2. Ensuring'
      BY <3>1, <2>1 DEF OrdinalStep, MountsVolume
    <3>3. Scaling'
      <4>1. quiet => \A n \in listReplicaMembers : n < ReplicaCount(op.spec)
        BY <3>1, <2>1, <1>n
      <4>2. \A n \in Targets(op.spec) : ~Single(op.spec) => ~(n < 0)
        BY <1>n
      <4> QED
        BY <3>1, <2>1, <4>1, <4>2 DEF OrdinalStep
    <3> QED
      BY <3>1, <3>2, <3>3, <2>1
  <2>2. CASE ~op.up
    BY <1>10, <2>2 DEF PruneEnd, Goto, Step, daemon
  <2> QED
    BY <2>1, <2>2
<1>11. CASE ContainerRemove
  <2>1. CASE ~held
    BY <1>11, <2>1 DEF ContainerRemove, End, Fail, daemon
  <2>2. CASE held
    <3>1. /\ \A n \in Name : n # cur => ctr'[n] = ctr[n]
          /\ ctr'[cur].owner = "absent"
          /\ todo' = todo \ {cur} /\ UNCHANGED <<op, done, quiet, net, vol, cur>>
          /\ \/ pc = "drop" /\ pc' = "prune"
             \/ pc = "replace" /\ pc' = "create"
      BY <1>11, <2>2 DEF ContainerRemove, Goto, NoContainer
    <3>2. Ensuring'
      BY <3>1 DEF Exists
    <3>3. Scaling'
      <4>1. \A n \in listReplicaMembers' : n \in listReplicaMembers /\ n # cur
        BY <3>1, <1>n
      <4>2. CASE pc = "drop"
        BY <3>1, <4>1, <4>2
      <4>3. CASE pc = "replace"
        <5>1. \A n \in Targets(op.spec) : n < cur => ctr'[n] = ctr[n]
          BY <3>1, <1>m, Zenon
        <5>2. \A n \in Targets(op.spec) : n < cur /\ Ready(n) => Ready(n)'
          BY <3>1, <5>1
        <5> QED
          BY <3>1, <4>1, <4>3, <5>2
      <4> QED
        BY <3>1, <4>2, <4>3
    <3>4. Removing'
      BY <3>1
    <3> QED
      BY <3>1, <3>2, <3>3, <3>4
  <2> QED
    BY <2>1, <2>2
<1>12. CASE InspectOne
  <2> DEFINE Good == Exists(cur) /\ Matches(op.spec, cur)
             Up == ctr[cur].state = "running"
  <2>g. Good => Made(cur)
    BY DEF Exists
  <2>1. CASE Good /\ Up /\ Advance
    BY <1>12, <1>a, <2>1, <2>g DEF InspectOne
  <2>2. CASE Good /\ ~Up /\ Goto("start") /\ UNCHANGED <<cur, todo>>
    BY <1>12, <2>2, <2>g DEF InspectOne, Goto, daemon
  <2>3. CASE End("error")
    BY <1>12, <2>3 DEF InspectOne, End, daemon
  <2>4. CASE Managed(cur) /\ ~Good /\ Goto("replace") /\ UNCHANGED <<cur, todo>>
    BY <1>12, <2>4 DEF InspectOne, Goto, daemon
  <2>5. CASE ~Exists(cur) /\ Step("create")
    BY <1>12, <2>5 DEF InspectOne, Step, Goto, daemon, Exists
  <2> QED
    BY <1>12, <2>1, <2>2, <2>3, <2>4, <2>5 DEF InspectOne
<1>13. CASE ContainerCreate
  <2>1. CASE Exists(cur)
    BY <1>13, <2>1 DEF ContainerCreate, End, Fail, daemon
  <2>2. CASE ~Exists(cur)
    <3>1. /\ \A n \in Name : n # cur => ctr'[n] = ctr[n] /\ vol'[n] = vol[n]
          /\ ctr'[cur].owner = "managed" /\ ctr'[cur].hash = specHash(op.spec, cur)
          /\ net # "absent" => ctr'[cur].attached
          /\ vol[cur] = "managed" => vol'[cur] = "managed"
          /\ pc = "create" /\ pc' = "copy"
          /\ UNCHANGED <<op, done, quiet, net, cur, todo>>
      <4>1. pc = "create" /\ pc' = "copy" /\ UNCHANGED <<op, done, quiet, net, cur, todo>>
        BY <1>13, <2>2, Zenon DEF ContainerCreate, Goto
      <4> DEFINE on == net # "absent"
                 new == [owner |-> "managed", hash |-> specHash(op.spec, cur),
                         files |-> FALSE, attached |-> on, state |-> "created"]
      <4>2. ctr' = [ctr EXCEPT ![cur] = new]
        BY <1>13, <2>2, Zenon DEF ContainerCreate
      <4>3. /\ vol[cur] = "managed" => vol'[cur] = "managed"
            /\ \A n \in Name : n # cur => vol'[n] = vol[n]
        BY <1>13, <2>2 DEF ContainerCreate
      <4> HIDE DEF on
      <4>4. ctr'[cur].attached = on
        BY <4>2
      <4>5. net # "absent" => on
        BY DEF on
      <4> QED
        BY <4>1, <4>2, <4>3, <4>4, <4>5
    <3>2. Ensuring'
      BY <3>1
    <3>3. Scaling'
      <4>0. \A n \in Targets(op.spec) : n < cur => ctr'[n] = ctr[n] /\ vol'[n] = vol[n]
        BY <3>1, <1>m, Zenon
      <4>1. \A n \in Targets(op.spec) : n < cur /\ Ready(n) => Ready(n)'
        BY <3>1, <4>0
      <4>2. \A n \in listReplicaMembers' : n \in listReplicaMembers \/ n = cur
        BY <3>1
      <4> QED
        BY <3>1, <4>1, <4>2, <1>n
    <3> QED
      BY <3>1, <3>2, <3>3
  <2> QED
    BY <2>1, <2>2
<1>14. CASE copyFilesIn
  <2>1. CASE ~held
    BY <1>14, <2>1 DEF copyFilesIn, End, Fail, daemon
  <2>2. CASE held
    <3>1. /\ ctr' = [ctr EXCEPT ![cur].files = TRUE] /\ pc = "copy" /\ pc' = "start"
          /\ UNCHANGED <<op, done, quiet, net, vol, cur, todo>>
      BY <1>14, <2>2 DEF copyFilesIn, Goto, Step
    <3> QED
      BY <3>1
  <2> QED
    BY <2>1, <2>2
<1>15. CASE ContainerStart
  <2>1. CASE ~(held /\ ctr[cur].attached)
    BY <1>15, <2>1 DEF ContainerStart, End, Fail, daemon
  <2>2. CASE held /\ ctr[cur].attached
    <3>1. /\ ctr' = [ctr EXCEPT ![cur].state = "running"] /\ pc = "start" /\ pc' = "started"
          /\ UNCHANGED <<op, done, quiet, net, vol, cur, todo>>
      BY <1>15, <2>2 DEF ContainerStart, Goto
    <3> QED
      BY <3>1
  <2> QED
    BY <2>1, <2>2
<1>16. CASE inspectState
  <2>1. CASE Exists(cur) /\ Advance
    BY <1>16, <1>a, <2>1 DEF inspectState
  <2>2. CASE End("error")
    BY <1>16, <2>2 DEF inspectState, End, daemon
  <2> QED
    BY <1>16, <2>1, <2>2 DEF inspectState
<1>17. CASE Remove
  BY <1>17, <1>n DEF Remove, Exists, Goto, Step, End, daemon
<1>18. CASE ListVolumes
  BY <1>18 DEF ListVolumes, Goto, daemon
<1>19. CASE RemoveVolume
  BY <1>19 DEF RemoveVolume, Goto, End, daemon
<1>20. CASE VolumeRemove
  BY <1>20 DEF VolumeRemove, Goto, End, Fail, daemon
<1>21. CASE RemoveNetwork
  BY <1>21 DEF RemoveNetwork, Goto, End, daemon
<1>22. CASE NetworkRemove
  BY <1>22 DEF NetworkRemove, DropEndpoints, End
<1>23. CASE Operator
  BY <1>23 DEF Operator, MeddleContainer, MeddleExit, MeddleVolume, MeddleNetwork, Meddle
<1>24. CASE UNCHANGED vars
  <2>1. UNCHANGED <<ctr, net, vol, pc, op, cur, todo, done, quiet>>
    BY <1>24 DEF vars
  <2>2. \A n \in Name : (Ready(n) <=> Ready(n)') /\ (Made(n) <=> Made(n)')
    BY <2>1
  <2>3. Ensuring'
    BY <2>1, <2>2 DEF Exists
  <2>4. Scaling'
    BY <2>1, <2>2
  <2> QED
    BY <2>1, <2>3, <2>4
<1> QED
  BY <1>1, <1>2, <1>3, <1>4, <1>5, <1>6, <1>7, <1>8, <1>9, <1>10, <1>11, <1>12, <1>13, <1>14,
     <1>15, <1>16, <1>17, <1>18, <1>19, <1>20, <1>21, <1>22, <1>23, <1>24 DEF Next, Client

\* The invariant of the achievements holds in every reachable state.
LEMMA EnsureInvariant == Spec => []EnsureInv
<1>1. Init => EnsureInv
  BY NamesAreIntegers DEF Init, EnsureInv, Ensuring, Scaling, Removing, Sparing, EnsuredExactly,
       DownLeavesNothing, Ordinaling, Containing, Pruning, Managed, NoContainer
<1>2. IInv /\ EnsureInv /\ [Next]_vars => EnsureInv'
  <2>1. EnsureInv => Sparing
    BY DEF EnsureInv
  <2>2. Ensuring' /\ Scaling' /\ Removing' /\ Sparing' /\ EnsuredExactly' /\ DownLeavesNothing'
          => EnsureInv'
    BY DEF EnsureInv
  <2> QED
    BY <2>1, <2>2, SparingStep, AchievedStep
<1> QED
  BY <1>1, <1>2, DockerInvariant, PTL DEF Spec

\* An EnsureContainer that returned without an error and undisturbed has left
\* exactly the declared containers, running and made from the current spec, for
\* any number of replicas, contents and earlier interruptions.
THEOREM EnsureIsExact == Spec => []EnsuredExactly
<1>1. EnsureInv => EnsuredExactly
  BY DEF EnsureInv
<1> QED
  BY <1>1, EnsureInvariant, PTL

\* A Destroy that returned without an error and undisturbed has left no managed
\* container and no volume of the declared shape.
THEOREM RemovalIsComplete == Spec => []DownLeavesNothing
<1>1. EnsureInv => DownLeavesNothing
  BY DEF EnsureInv
<1> QED
  BY <1>1, EnsureInvariant, PTL

\* No step of an Ensure changes a running container that is what the spec asks
\* for, whatever has been interrupted or done by others before it.
THEOREM ReapplySpares == Spec => MatchingUndisturbed
<1> DEFINE Fits(n) == /\ pc # "idle" /\ op.up /\ meddled' = meddled
                      /\ n \in Targets(op.spec) /\ Managed(n)
                      /\ ctr[n].state = "running"
                      /\ ctr[n].hash.gen = op.spec.gen /\ ctr[n].hash.stable = op.spec.stable
                      /\ n = Base => ctr[n].hash.replicas = op.spec.replicas
                      /\ ctr[n].attached
           Spared == \A n \in Name : Fits(n) => ctr'[n] = ctr[n]
<1>1. IInv /\ Sparing /\ [Next]_vars => [Spared]_vars
  <2> SUFFICES ASSUME IInv, Sparing, Next, NEW n \in Name, Fits(n) PROVE ctr'[n] = ctr[n]
    OBVIOUS
  <2>t. /\ op.spec \in ContainerSpec /\ ctr \in [Name -> Container] /\ cur \in Name
        /\ meddled \in Int
    BY DEF IInv, TypeOK, Operation
  <2>u. ~Single(op.spec) => \A k \in Targets(op.spec) : ~(k >= ReplicaCount(op.spec))
    BY <2>t, TargetsAreNames DEF Targets
  <2>m. n # Base => n \in Ordinals /\ ctr[n].hash.replicas = 0
    BY DEF Sparing, Name
  <2>h. Matches(op.spec, n)
    <3>1. ctr[n].hash \in Hash
      BY <2>t DEF Container
    <3>2. ctr[n].hash = specHash(op.spec, n)
      BY <3>1, <2>m, <2>t DEF Hash, specHash, ContainerSpec
    <3> QED
      BY <3>2 DEF Matches
  <2>1. ~Operator
    <3>1. ~Meddle
      BY <2>t DEF Meddle
    <3>2. Operator => Meddle
      BY Zenon DEF Operator, MeddleContainer, MeddleExit, MeddleVolume, MeddleNetwork
    <3> QED
      BY <3>1, <3>2
  <2> USE <2>t DEF IInv, Fail, daemon, Managed, Located, Pruning
  <2>2. CASE ContainerRemove
    <3>1. CASE pc = "drop"
      BY <2>2, <3>1, <2>u DEF ContainerRemove, Sparing
    <3>2. CASE pc = "replace"
      BY <2>2, <3>2, <2>h DEF ContainerRemove, Sparing
    <3> QED
      BY <2>2, <3>1, <3>2 DEF ContainerRemove
  <2>3. CASE ContainerCreate
    BY <2>3 DEF ContainerCreate, Exists
  <2>4. CASE copyFilesIn
    BY <2>4 DEF copyFilesIn, Sparing
  <2>5. CASE ContainerStart
    BY <2>5 DEF ContainerStart, Container
  <2>6. CASE NetworkRemove
    BY <2>6 DEF NetworkRemove
  <2>7. CASE NetworkCreate \/ VolumeCreate \/ VolumeRemove
    BY <2>7 DEF NetworkCreate, VolumeCreate, VolumeRemove
  <2>8. CASE \/ EnsureNetwork \/ EnsureVolume \/ ShapeGuard \/ ListMembers \/ PruneNext
            \/ PruneEnd \/ InspectOne \/ inspectState \/ Remove \/ ListVolumes
            \/ RemoveVolume \/ RemoveNetwork \/ Interrupt
    BY <2>8 DEF EnsureNetwork, EnsureVolume, ShapeGuard, ListMembers, PruneNext, PruneEnd,
         InspectOne, inspectState, Remove, ListVolumes, RemoveVolume, RemoveNetwork, Interrupt
  <2>9. CASE \E up \in BOOLEAN, s \in ContainerSpec : Begin(up, s)
    BY <2>9 DEF Begin
  <2> QED
    BY <2>1, <2>2, <2>3, <2>4, <2>5, <2>6, <2>7, <2>8, <2>9 DEF Next, Client
<1>2. [][Spared]_vars <=> MatchingUndisturbed
  BY PTL DEF MatchingUndisturbed
<1>3. EnsureInv => Sparing
  BY DEF EnsureInv
<1> QED
  BY <1>1, <1>2, <1>3, DockerInvariant, EnsureInvariant, PTL DEF Spec

=============================================================================
