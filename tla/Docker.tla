---------------------------- MODULE Docker ----------------------------
(***************************************************************************)
(* The Docker runtime adapter: EnsureInstance's network, volume and        *)
(* container, single or fanned out to ordinals, and the removal a          *)
(* provider's Destroy asks for.  Every call to the daemon is one step, so  *)
(* the process may die, and an operator with a docker prompt may act,      *)
(* between any two of them.  One workload is modelled: its literal name is *)
(* Base and replica i of the set is named i; the volume a container mounts *)
(* has that container's name.                                              *)
(***************************************************************************)
EXTENDS Integers

CONSTANTS MaxReplicas,   \* the largest replica count a spec declares
          MaxGen,        \* how many different container contents there are
          MaxMeddling    \* how often anyone but platformctl acts

ASSUME DockerAssumption == /\ MaxReplicas \in Nat \ {0}
                           /\ MaxGen \in Nat \ {0}
                           /\ MaxMeddling \in Nat

VARIABLES ctr,      \* the daemon's containers, by name
          net,      \* the daemon's network
          vol,      \* the daemon's volumes
          pc,       \* the next call platformctl makes
          op,       \* the operation under way or last ended, with its spec
          cur,      \* the name the operation is at
          todo,     \* the names still to be removed
          held,     \* the object whose ID the last inspect returned still exists
          done,     \* how the last operation ended
          meddled,  \* steps taken by anyone but platformctl
          quiet     \* nobody else has acted since the operation began

daemon == <<ctr, net, vol>>
vars == <<ctr, net, vol, pc, op, cur, todo, held, done, meddled, quiet>>
-----------------------------------------------------------------------------
Base == -1
Ordinals == 0..(MaxReplicas - 1)
Name == {Base} \cup Ordinals

\* A spec: gen stands for its image, command, environment, files and ports.
ContainerSpec == [gen : 1..MaxGen, replicas : 0..MaxReplicas, stable : BOOLEAN]

Operation == [up : BOOLEAN, spec : ContainerSpec]

ReplicaCount(s) == IF s.replicas <= 1 THEN 1 ELSE s.replicas

Single(s) == ReplicaCount(s) <= 1 /\ ~s.stable

Targets(s) == IF Single(s) THEN {Base} ELSE 0..(ReplicaCount(s) - 1)

\* Fault: specHash with the size of the set left in every ordinal's spec.
specHashWithSetSize(s, n) == [gen |-> s.gen, stable |-> s.stable, replicas |-> s.replicas]

\* The spec's own replica count is cleared in an ordinal's spec.
specHash(s, n) == [gen |-> s.gen, stable |-> s.stable,
                   replicas |-> IF n = Base THEN s.replicas ELSE 0]

Hash == [gen : 0..MaxGen, replicas : 0..MaxReplicas, stable : BOOLEAN]

NoHash == [gen |-> 0, stable |-> FALSE, replicas |-> 0]

Owner == {"absent", "managed", "foreign"}

Container == [owner : Owner, hash : Hash, files : BOOLEAN, attached : BOOLEAN,
              state : {"created", "running", "exited"}]

NoContainer == [owner |-> "absent", hash |-> NoHash, files |-> FALSE,
                attached |-> FALSE, state |-> "exited"]

ForeignContainer == [owner |-> "foreign", hash |-> NoHash, files |-> FALSE,
                     attached |-> FALSE, state |-> "running"]

Managed(n) == ctr[n].owner = "managed"

Exists(n) == ctr[n].owner # "absent"

listReplicaMembers == {n \in Ordinals : Managed(n)}

\* The container needs nothing done: same spec, and still on its network.
Matches(s, n) == ctr[n].hash = specHash(s, n) /\ ctr[n].attached

MountsVolume(s) == Single(s) \/ s.stable

\* Docker refuses to remove a network with a running container on it.
ActiveEndpoints == \E n \in Name : Exists(n) /\ ctr[n].attached /\ ctr[n].state = "running"

DropEndpoints(c) == [n \in Name |-> [c[n] EXCEPT !.attached = FALSE]]
-----------------------------------------------------------------------------
\* On to the next call; Step keeps the operation's locals as they are.
Goto(l) == pc' = l /\ UNCHANGED <<op, done, quiet>>

Step(l) == Goto(l) /\ UNCHANGED <<cur, todo, held>>

\* The operation returns and its locals are gone.
End(result) == /\ pc' = "idle" /\ done' = result
               /\ cur' = Base /\ todo' = {} /\ held' = FALSE
               /\ UNCHANGED <<op, quiet>>

Fail == End("error") /\ UNCHANGED daemon

\* Any call may fail (the daemon is away, an image cannot be pulled, the context
\* is cancelled) and the process may die between two calls.
Interrupt == pc # "idle" /\ End("cut") /\ UNCHANGED daemon /\ UNCHANGED meddled

Begin(up, s) == /\ pc = "idle"
                /\ op' = [up |-> up, spec |-> s]
                /\ pc' = IF up THEN "network" ELSE "remove"
                /\ cur' = Base /\ todo' = {} /\ held' = FALSE
                /\ done' = "none" /\ quiet' = TRUE
                /\ UNCHANGED daemon /\ UNCHANGED meddled

\* A set's volumes are its ordinals' own; a single container's comes first.
AfterNetwork == Step(IF Single(op.spec) THEN "volume" ELSE "shape")

EnsureNetwork ==
    /\ pc = "network"
    /\ \/ net = "foreign" /\ End("error")
       \/ net = "managed" /\ AfterNetwork
       \/ net = "absent" /\ Step("networkCreate")
    /\ UNCHANGED daemon /\ UNCHANGED meddled

\* A conflict means someone else was faster, and is not an error.
NetworkCreate ==
    /\ pc = "networkCreate"
    /\ net' = IF net = "absent" THEN "managed" ELSE net
    /\ AfterNetwork
    /\ UNCHANGED <<ctr, vol, meddled>>

AfterVolume == Step(IF cur = Base THEN "shape" ELSE "inspect")

EnsureVolume ==
    /\ pc = "volume"
    /\ \/ vol[cur] = "foreign" /\ End("error")
       \/ vol[cur] = "managed" /\ AfterVolume
       \/ vol[cur] = "absent" /\ Step("volumeCreate")
    /\ UNCHANGED daemon /\ UNCHANGED meddled

\* Creating a volume that exists returns the one that exists.
VolumeCreate ==
    /\ pc = "volumeCreate"
    /\ vol' = [vol EXCEPT ![cur] = IF @ = "absent" THEN "managed" ELSE @]
    /\ AfterVolume
    /\ UNCHANGED <<ctr, net, meddled>>

\* Fault: ShapeGuard without the look for members before a single container.
ShapeGuardOneWay ==
    /\ pc = "shape"
    /\ \/ Single(op.spec) /\ Step("inspect")
       \/ ~Single(op.spec) /\ Exists(Base) /\ End("error")
       \/ ~Single(op.spec) /\ ~Exists(Base) /\ Step("members")
    /\ UNCHANGED daemon /\ UNCHANGED meddled

\* EnsureContainer, and the guard of ensureReplicaSet: no change of shape.
ShapeGuard ==
    /\ pc = "shape"
    /\ IF Single(op.spec)
       THEN \/ listReplicaMembers # {} /\ End("error")
            \/ listReplicaMembers = {} /\ Step("inspect")
       ELSE \/ Exists(Base) /\ End("error")
            \/ ~Exists(Base) /\ Step("members")
    /\ UNCHANGED daemon /\ UNCHANGED meddled

\* Fault: ListMembers with the comparison off by one.
ListMembersOffByOne ==
    /\ pc = "members" /\ Goto("prune")
    /\ todo' = {n \in listReplicaMembers : op.up => n > ReplicaCount(op.spec)}
    /\ UNCHANGED <<cur, held>> /\ UNCHANGED daemon /\ UNCHANGED meddled

\* pruneStaleOrdinals lists what is beyond the count, Remove every member.
ListMembers ==
    /\ pc = "members" /\ Goto("prune")
    /\ todo' = {n \in listReplicaMembers : op.up => n >= ReplicaCount(op.spec)}
    /\ UNCHANGED <<cur, held>> /\ UNCHANGED daemon /\ UNCHANGED meddled

OrdinalStep == IF op.spec.stable THEN "volume" ELSE "inspect"

\* Remove of the next listed member: inspect, then remove by ID.
PruneNext ==
    /\ pc = "prune"
    /\ \E n \in todo :
       /\ \A m \in todo : n <= m
       /\ \/ ~Exists(n) /\ Goto("prune") /\ todo' = todo \ {n} /\ UNCHANGED <<cur, held>>
          \/ Exists(n) /\ ~Managed(n) /\ End("error")
          \/ Managed(n) /\ Goto("drop") /\ cur' = n /\ held' = TRUE /\ UNCHANGED todo
    /\ UNCHANGED daemon /\ UNCHANGED meddled

PruneEnd ==
    /\ pc = "prune" /\ todo = {}
    /\ IF op.up THEN Goto(OrdinalStep) /\ cur' = 0 /\ UNCHANGED <<todo, held>>
                ELSE Step("volumes")
    /\ UNCHANGED daemon /\ UNCHANGED meddled

\* Fault: ContainerRemove by the name, whatever has it by now.
ContainerRemoveByName ==
    /\ pc \in {"drop", "replace"}
    /\ ctr' = [ctr EXCEPT ![cur] = NoContainer]
    /\ todo' = todo \ {cur} /\ held' = FALSE
    /\ Goto(IF pc = "drop" THEN "prune" ELSE "create")
    /\ UNCHANGED <<net, vol, cur, meddled>>

\* ContainerRemove by the ID that was inspected; an unknown ID is an error.
ContainerRemove ==
    /\ pc \in {"drop", "replace"}
    /\ \/ ~held /\ Fail
       \/ /\ held
          /\ ctr' = [ctr EXCEPT ![cur] = NoContainer]
          /\ todo' = todo \ {cur} /\ held' = FALSE
          /\ Goto(IF pc = "drop" THEN "prune" ELSE "create")
          /\ UNCHANGED <<net, vol, cur>>
    /\ UNCHANGED meddled

\* The container at cur is ensured: the next ordinal, or the end.
Advance ==
    IF cur # Base /\ cur + 1 < ReplicaCount(op.spec)
    THEN Goto(OrdinalStep) /\ cur' = cur + 1 /\ UNCHANGED <<todo, held>>
    ELSE End("up")

\* ensureOneContainer looks at what has the name.
InspectOne ==
    LET Good == Exists(cur) /\ Matches(op.spec, cur)
        Up == ctr[cur].state = "running"
    IN  /\ pc = "inspect"
        /\ \/ Good /\ Up /\ Advance
           \/ Good /\ ~Up /\ Goto("start") /\ held' = TRUE /\ UNCHANGED <<cur, todo>>
           \/ Exists(cur) /\ ~Good /\ ~Managed(cur) /\ End("error")
           \/ Managed(cur) /\ ~Good /\ Goto("replace") /\ held' = TRUE /\ UNCHANGED <<cur, todo>>
           \/ ~Exists(cur) /\ Step("create")
        /\ UNCHANGED daemon /\ UNCHANGED meddled

\* Docker makes a named volume that a container mounts and nobody made.
ContainerCreate ==
    /\ pc = "create"
    /\ \/ Exists(cur) /\ Fail
       \/ /\ ~Exists(cur)
          /\ ctr' = [ctr EXCEPT ![cur] =
                       [owner |-> "managed", hash |-> specHash(op.spec, cur),
                        files |-> FALSE, attached |-> net # "absent",
                        state |-> "created"]]
          /\ vol' = IF MountsVolume(op.spec) /\ vol[cur] = "absent"
                    THEN [vol EXCEPT ![cur] = "foreign"] ELSE vol
          /\ Goto("copy") /\ held' = TRUE
          /\ UNCHANGED <<net, cur, todo>>
    /\ UNCHANGED meddled

copyFilesIn ==
    /\ pc = "copy"
    /\ \/ ~held /\ Fail
       \/ /\ held
          /\ ctr' = [ctr EXCEPT ![cur].files = TRUE]
          /\ Step("start") /\ UNCHANGED <<net, vol>>
    /\ UNCHANGED meddled

ContainerStart ==
    /\ pc = "start"
    /\ \/ ~(held /\ ctr[cur].attached) /\ Fail
       \/ /\ held /\ ctr[cur].attached
          /\ ctr' = [ctr EXCEPT ![cur].state = "running"]
          /\ Goto("started") /\ held' = FALSE /\ UNCHANGED <<cur, todo>>
          /\ UNCHANGED <<net, vol>>
    /\ UNCHANGED meddled

\* Its state is reported whatever it is by now, unless it is gone.
inspectState ==
    /\ pc = "started"
    /\ \/ Exists(cur) /\ Advance
       \/ ~Exists(cur) /\ End("error")
    /\ UNCHANGED daemon /\ UNCHANGED meddled

\* Remove: the literal container, or else every member of the set.
Remove ==
    /\ pc = "remove"
    /\ \/ Managed(Base) /\ Goto("drop") /\ held' = TRUE /\ UNCHANGED <<cur, todo>>
       \/ Exists(Base) /\ ~Managed(Base) /\ End("error")
       \/ ~Exists(Base) /\ Step("members")
    /\ UNCHANGED daemon /\ UNCHANGED meddled

\* Fault: ListVolumes with the literal volume only, as if there were no sets.
ListVolumesLiteral ==
    /\ pc = "volumes" /\ Goto("volumeNext") /\ todo' = {Base}
    /\ UNCHANGED <<cur, held>> /\ UNCHANGED daemon /\ UNCHANGED meddled

\* A set's provider lists the managed volumes, any other names its own.
ListVolumes ==
    /\ pc = "volumes" /\ Goto("volumeNext")
    /\ todo' = IF op.spec.stable THEN {n \in Name : vol[n] = "managed"} ELSE {Base}
    /\ UNCHANGED <<cur, held>> /\ UNCHANGED daemon /\ UNCHANGED meddled

RemoveVolume ==
    /\ pc = "volumeNext"
    /\ \E n \in todo :
       \/ /\ vol[n] = "absent" /\ Goto("volumeNext")
          /\ todo' = todo \ {n} /\ UNCHANGED <<cur, held>>
       \/ vol[n] = "foreign" /\ End("error")
       \/ vol[n] = "managed" /\ Goto("volumeDrop") /\ cur' = n /\ UNCHANGED <<todo, held>>
    /\ UNCHANGED daemon /\ UNCHANGED meddled

\* By name, whoever's it is by now; refused while a container mounts it.
VolumeRemove ==
    /\ pc = "volumeDrop"
    /\ \/ Exists(cur) /\ Fail
       \/ /\ ~Exists(cur)
          /\ vol' = [vol EXCEPT ![cur] = "absent"]
          /\ todo' = todo \ {cur} /\ Goto("volumeNext")
          /\ UNCHANGED <<ctr, net, cur, held>>
    /\ UNCHANGED meddled

\* Every outcome of RemoveNetwork is ignored by the provider, a failed call too.
RemoveNetwork ==
    /\ pc = "volumeNext" /\ todo = {}
    /\ \/ net = "managed" /\ Goto("networkDrop") /\ held' = TRUE /\ UNCHANGED <<cur, todo>>
       \/ End("down")
    /\ UNCHANGED daemon /\ UNCHANGED meddled

NetworkRemove ==
    /\ pc = "networkDrop" /\ End("down")
    /\ \/ held /\ ~ActiveEndpoints /\ net' = "absent" /\ ctr' = DropEndpoints(ctr)
       \/ UNCHANGED <<ctr, net>>
    /\ UNCHANGED <<vol, meddled>>
-----------------------------------------------------------------------------
Meddle == /\ meddled < MaxMeddling /\ meddled' = meddled + 1
          /\ quiet' = FALSE
          /\ UNCHANGED <<pc, op, cur, todo, done>>

\* The operator removes a container, or starts one of their own by that name.
MeddleContainer(n) ==
    /\ Meddle /\ UNCHANGED <<net, vol>>
    /\ \/ /\ Exists(n) /\ ctr' = [ctr EXCEPT ![n] = NoContainer]
          /\ held' = IF n = cur /\ pc # "networkDrop" THEN FALSE ELSE held
       \/ /\ ~Exists(n) /\ ctr' = [ctr EXCEPT ![n] = ForeignContainer]
          /\ UNCHANGED held

\* A container's process ends.
MeddleExit(n) ==
    /\ Meddle /\ UNCHANGED <<net, vol, held>>
    /\ Exists(n) /\ ctr[n].state = "running"
    /\ ctr' = [ctr EXCEPT ![n].state = "exited"]

MeddleNetwork ==
    /\ Meddle /\ UNCHANGED vol
    /\ \/ /\ net # "absent" /\ ~ActiveEndpoints
          /\ net' = "absent" /\ ctr' = DropEndpoints(ctr)
          /\ held' = IF pc = "networkDrop" THEN FALSE ELSE held
       \/ net = "absent" /\ net' = "foreign" /\ UNCHANGED <<ctr, held>>

MeddleVolume(n) ==
    /\ Meddle /\ UNCHANGED <<ctr, net, held>>
    /\ \/ vol[n] # "absent" /\ ~Exists(n) /\ vol' = [vol EXCEPT ![n] = "absent"]
       \/ vol[n] = "absent" /\ vol' = [vol EXCEPT ![n] = "foreign"]

Init == /\ ctr = [n \in Name |-> NoContainer]
        /\ net = "absent"
        /\ vol = [n \in Name |-> "absent"]
        /\ pc = "idle" /\ cur = Base /\ todo = {} /\ held = FALSE /\ done = "none"
        /\ op = [up |-> FALSE, spec |-> [gen |-> 1, replicas |-> 0, stable |-> FALSE]]
        /\ meddled = 0 /\ quiet = TRUE

Client == \/ EnsureNetwork \/ NetworkCreate \/ EnsureVolume \/ VolumeCreate
          \/ ShapeGuard \/ ListMembers \/ PruneNext \/ PruneEnd
          \/ ContainerRemove \/ InspectOne \/ ContainerCreate \/ copyFilesIn
          \/ ContainerStart \/ inspectState \/ Remove \/ ListVolumes \/ RemoveVolume
          \/ VolumeRemove \/ RemoveNetwork \/ NetworkRemove

Operator == \/ \E n \in Name : MeddleContainer(n) \/ MeddleExit(n) \/ MeddleVolume(n)
            \/ MeddleNetwork

Next == \/ \E up \in BOOLEAN, s \in ContainerSpec : Begin(up, s)
        \/ Client \/ Interrupt \/ Operator

Spec == Init /\ [][Next]_vars
-----------------------------------------------------------------------------
Pcs == {"idle", "network", "networkCreate", "volume", "volumeCreate", "shape",
        "members", "prune", "drop", "inspect", "replace", "create", "copy", "start",
        "started", "remove", "volumes", "volumeNext", "volumeDrop", "networkDrop"}

\* The types of the daemon's objects and of the adapter's local state.
TypeOK == /\ ctr \in [Name -> Container]
          /\ net \in Owner
          /\ vol \in [Name -> Owner]
          /\ pc \in Pcs
          /\ op \in Operation
          /\ cur \in Name
          /\ todo \subseteq Name
          /\ held \in BOOLEAN
          /\ done \in {"none", "cut", "error", "up", "down"}
          /\ meddled \in 0..MaxMeddling /\ quiet \in BOOLEAN

\* ADR 004's two shapes never coexist: whatever interrupted operations, scaling,
\* shape changes and removals came before, a managed container with the literal
\* name and a managed ordinal never exist together (EnsureContainer's and
\* ensureReplicaSet's refusals), so the shared alias has one meaning and Remove,
\* which stops at the literal name, misses nothing.
OneShape == ~(Managed(Base) /\ listReplicaMembers # {})

\* When EnsureContainer returns without an error, and nobody else touched the
\* daemon while it ran, exactly the declared containers run, each created from
\* the current spec and on its network, stale ordinals are gone and the network
\* and the volumes they mount are platformctl's; whatever state earlier
\* interrupted operations and meddling left behind.
EnsuredExactly ==
    done = "up" /\ quiet =>
      /\ net = "managed"
      /\ \A n \in Name : Managed(n) <=> n \in Targets(op.spec)
      /\ \A n \in Targets(op.spec) :
           /\ Matches(op.spec, n) /\ ctr[n].state = "running"
           /\ MountsVolume(op.spec) => vol[n] = "managed"

\* ADR 029, residue-free removal: after a Destroy that returned without an error
\* no managed container and no volume of the declared shape is left.  (A network
\* may be, its removal is best effort.)
DownLeavesNothing ==
    done = "down" /\ quiet =>
      /\ \A n \in Name : ~Managed(n)
      /\ \A n \in Name : (op.spec.stable \/ n = Base) => vol[n] # "managed"

\* The package's promise never to touch unlabelled objects, for containers and
\* networks: no step of platformctl changes one that is not its own, even one
\* put in place of its own between the inspection and the removal.
ForeignUntouched ==
    [][meddled' = meddled =>
         /\ \A n \in Name : ctr[n].owner = "foreign" =>
                ctr'[n].owner = "foreign" /\ ctr'[n].state = ctr[n].state
         /\ net = "foreign" => net' = "foreign"]_vars

\* An Ensure leaves alone every running container that already is what its spec
\* asks for: re-applying is a no-op, and scaling from two to three recreates
\* neither of the two (ordinalContainerSpec clears Replicas from the hash).
MatchingUndisturbed ==
    [][\A n \in Name :
         /\ pc # "idle" /\ op.up /\ meddled' = meddled
         /\ n \in Targets(op.spec) /\ Managed(n)
         /\ ctr[n].state = "running"
         /\ ctr[n].hash.gen = op.spec.gen /\ ctr[n].hash.stable = op.spec.stable
         /\ n = Base => ctr[n].hash.replicas = op.spec.replicas
         /\ ctr[n].attached
         => ctr'[n] = ctr[n]]_vars

\* Why OneShape and ForeignUntouched hold.  Past the shape guard, an operation on
\* a single container has no member to meet and one on a set no literal container;
Containing == {"inspect", "replace", "create", "copy", "start", "started"}
Pruning == {"members", "prune", "drop"}

Located ==
    /\ pc \in {"volume", "volumeCreate"} => op.up /\ cur \in Targets(op.spec)
    /\ pc \in Containing => op.up /\ cur \in Targets(op.spec)
    /\ pc \in {"network", "networkCreate", "shape"} => op.up /\ cur = Base
    /\ pc = "remove" => cur = Base
    /\ pc \in Pruning /\ op.up => ~Single(op.spec)
    /\ pc \in {"remove", "volumes", "volumeNext", "volumeDrop", "networkDrop"} => ~op.up

PastGuard ==
    /\ pc \in Containing /\ Single(op.spec) => listReplicaMembers = {}
    /\ pc \in Containing \cup Pruning \cup {"volume", "volumeCreate"}
         /\ op.up /\ ~Single(op.spec) => ~Managed(Base)

\* a held ID is that of a managed object; and a container that is not
\* platformctl's does not carry a spec hash.
HeldIsOurs ==
    /\ pc \in {"drop", "replace", "copy", "start"} /\ held => Managed(cur)
    /\ pc = "networkDrop" /\ held => net = "managed"
    /\ \A n \in Name : ctr[n].owner # "managed" => ctr[n].hash = NoHash

\* The inductive invariant: the shapes stay apart because of where an operation
\* can be, what it has ruled out, and whose object it holds.
IInv == TypeOK /\ Located /\ PastGuard /\ HeldIsOurs /\ OneShape

=============================================================================
