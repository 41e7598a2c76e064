-------------------------- MODULE KubernetesProofs --------------------------
(***************************************************************************)
(* What holds of the Kubernetes runtime adapter for every set of           *)
(* containers, every specification of them and every number of faults.     *)
(***************************************************************************)
EXTENDS Kubernetes, TLAPS

UpSteps == {"namespace", "denyAll", "sameNamespace", "crossDomain", "EnsureVolume", "look",
            "service", "headless", "ordinals", "prune", "alias", "pdb", "external", "graph",
            "files", "pull", "create", "update", "WaitHealthy"}
DownSteps == {"find", "delete", "services", "noFiles", "noExternal", "noGraph", "noBudget",
              "waitObjectGone", "RemoveVolume", "listWorkloads", "deleteNamespace"}
Policies == {"denyAll", "sameNamespace", "crossDomain"}
First == {"namespace", "EnsureVolume", "look"} \cup Policies
Writes == {"create", "update"}
Drops == {"services", "noFiles", "noExternal", "noGraph", "noBudget"}
Companions == ensureDeployment \cup ensureStatefulSet

Hash == (Gen \cup {0}) \X BOOLEAN
Shape == {"none", "deployment", "statefulset"}
-----------------------------------------------------------------------------
(* The types of the variables. *)
ManifestTypes == /\ want \in [Ctr -> Gen] /\ \A c \in Ctr : want[c] \in Gens(c)
                 /\ iso \in {"none", "default", "graph"}
PolicyTypes == /\ ns \in {"none", "active", "terminating"}
               /\ wall \in BOOLEAN /\ same \in BOOLEAN /\ cross \in BOOLEAN
ObjectTypes == /\ wl \in [Ctr -> [shape : Shape, hash : Hash, dying : BOOLEAN]]
               /\ obj \in [Ctr -> [Companion -> Hash]]
               /\ headless \in [Ctr -> BOOLEAN] /\ vol \in [Ctr -> 0 .. 2]
WorkerTypes == /\ cmd \in {"idle", "up", "down"} /\ lapsed \in BOOLEAN
               /\ todo \in [Ctr -> SUBSET (UpSteps \cup DownSteps)]
               /\ res \in [Ctr -> {"none", "running", "ok", "failed"}]
GhostTypes == stale \subseteq Ctr /\ walled \subseteq Ctr /\ astray \subseteq Ctr /\ events \in Nat
TypeOK == ManifestTypes /\ PolicyTypes /\ ObjectTypes /\ WorkerTypes /\ GhostTypes

(* A hole is made behind a wall, which stands as long as the namespace does. *)
Walls == walled # {} => wall

(* A worker has steps of the command only, none when it has ended, and none  *)
(* about policies where there are none.                                      *)
CommandSteps(c) ==
  /\ cmd = "idle" => todo[c] = {}
  /\ cmd = "up" => todo[c] \subseteq UpSteps
  /\ cmd = "down" => todo[c] \subseteq DownSteps
  /\ res[c] # "running" => todo[c] = {}
  /\ iso = "none" => todo[c] \cap Policies = {}

(* A workload that is being deleted is none that vouches for anything. *)
Existing(c) ==
  /\ ~Found(c) => wl[c] = NoWorkload
  /\ wl[c].dying => c \in stale
  /\ want[c] = Portless => vol[c] = 0

(* What the specification with this hash asks for, behind a wall; and what   *)
(* the container has of it, the hole only if there was a wall.               *)
Wanted(h) == (IF h[1] = Portless THEN {} ELSE {"service"}) \cup Ordinals(h[1]) \cup Aliases(h[1])
               \cup (IF buildPodDisruptionBudget(h[1]) THEN {"pdb"} ELSE {})
               \cup (IF buildExternalIngressPolicy(h[1]) THEN {"external"} ELSE {})
               \cup (IF h[2] THEN {"graph"} ELSE {})
               \cup (IF ContainerSpec[h[1]].extras THEN {"files", "pull"} ELSE {})
Due(c, k, h) == k \in Wanted(h) /\ (k = "external" => c \in walled)
Exact(c, k, h) == obj[c][k] = IF Due(c, k, h) THEN h ELSE None
Looked(h) == Companion \ (Unlooked(h[1]) \ Wanted(h))
AddressFits(c, g) == headless[c] => ContainerSpec[g].stable \/ ~ContainerSpec[g].nodePort

(* The workload vouches for the companions: whatever wrote it, and whatever  *)
(* has happened since, the objects of a container nobody touched are those   *)
(* of the specification whose hash the workload carries.                     *)
Vouches(c) ==
  Found(c) /\ c \notin stale =>
    LET h == wl[c].hash
    IN /\ h[1] \in Gen
       /\ wl[c].shape = IF ContainerSpec[h[1]].stable THEN "statefulset" ELSE "deployment"
       /\ \A k \in Looked(h) : Exact(c, k, h)
       /\ AddressFits(c, h[1])

(* The step that makes a companion what the specification asks for. *)
StepOf(c, k) == IF k = "service" THEN IF ContainerSpec[want[c]].stable THEN "headless" ELSE k
                ELSE IF k \in OrdinalName
                     THEN IF k \in Ordinals(want[c]) THEN "ordinals" ELSE "prune"
                ELSE k
Working(c) == cmd = "up" /\ res[c] \in {"running", "ok"}
Building(c) == todo[c] \cap Writes # {}

(* The order of the steps of an apply. *)
UpOrder(c) ==
  Working(c) => /\ todo[c] \cap Companions # {} => Building(c)
                /\ todo[c] \cap Companions \subseteq EnsureContainer(c)
                /\ Building(c) => todo[c] \cap First = {}
(* What the steps that are done have brought about, in a namespace that      *)
(* stays: the claim, then the companions, then the workload.                 *)
Built(c) ==
  /\ \A k \in Looked(specHash(want[c])) :
       StepOf(c, k) \notin todo[c] => Exact(c, k, specHash(want[c]))
  /\ "service" \notin todo[c] => AddressFits(c, want[c])
UpSoFar(c) ==
  Working(c) /\ ~lapsed =>
    /\ HasVolume(want[c]) /\ "EnsureVolume" \notin todo[c] =>
         vol[c] >= ContainerSpec[want[c]].size
    /\ Building(c) => Built(c)
    /\ "look" \notin todo[c] /\ ~Building(c) /\ c \notin stale =>
         Found(c) /\ wl[c].hash = specHash(want[c])
ClosedSoFar(c) ==
  Working(c) /\ ~lapsed /\ iso # "none" =>
    /\ "denyAll" \notin todo[c] => wall
    /\ "sameNamespace" \notin todo[c] => same = (iso = "default")
    /\ "crossDomain" \notin todo[c] => (cross => \E d \in Ctr : Allowed(d))

(* What a removal that found the workload has removed so far. *)
Removed(c) ==
  /\ "waitObjectGone" \notin todo[c] => ~Found(c)
  /\ "services" \notin todo[c] => \A k \in Service : obj[c][k] = None
  /\ "noFiles" \notin todo[c] => obj[c]["files"] = None
  /\ "noExternal" \notin todo[c] => obj[c]["external"] = None
  /\ "noGraph" \notin todo[c] => obj[c]["graph"] = None
DownSoFar(c) ==
  cmd = "down" /\ res[c] \in {"running", "ok"} =>
    /\ "RemoveVolume" \notin todo[c] => vol[c] = 0
    /\ "find" \notin todo[c] /\ c \notin astray => Removed(c)
(* The companions are deleted after the workload that vouches for them. *)
DropsLast(c) == todo[c] \cap Drops # {} => "delete" \in todo[c] \/ c \in stale
(* A worker that has listed the workloads of the namespace found none. *)
Listed(c) == "deleteNamespace" \in todo[c] /\ "listWorkloads" \notin todo[c] => ~InUse

(* The inductive invariant. *)
Worker(c) == CommandSteps(c) /\ UpOrder(c) /\ DropsLast(c) /\ Listed(c)
Progress(c) == UpSoFar(c) /\ ClosedSoFar(c) /\ DownSoFar(c)
IInv == TypeOK /\ Walls
        /\ \A c \in Ctr : Existing(c) /\ Vouches(c) /\ Worker(c) /\ Progress(c)
-----------------------------------------------------------------------------
(* The steps a worker can have are those that have a place. *)
LEMMA Places == DOMAIN Place = UpSteps \cup DownSteps
  BY DEF Place, UpSteps, DownSteps

(* No two steps have the same place. *)
LEMMA PlaceInjective ==
  ASSUME NEW s \in UpSteps \cup DownSteps, NEW t \in UpSteps \cup DownSteps, Place[s] = Place[t]
  PROVE  s = t
  BY DEF Place, UpSteps, DownSteps

(* A place is a number. *)
LEMMA PlaceNat == \A s \in UpSteps \cup DownSteps : Place[s] \in Nat
  BY DEF Place, UpSteps, DownSteps

(* A worker has come to one step at a time. *)
LEMMA DoingOne ==
  ASSUME TypeOK, NEW c \in Ctr, NEW s, NEW t, Doing(c, s), Doing(c, t)
  PROVE  s = t
<1>1. s \in todo[c] /\ t \in todo[c] /\ Place[s] <= Place[t] /\ Place[t] <= Place[s]
  BY DEF Doing
<1>2. s \in UpSteps \cup DownSteps /\ t \in UpSteps \cup DownSteps
  BY <1>1 DEF TypeOK, WorkerTypes
<1>3. Place[s] = Place[t]
  BY <1>1, <1>2, PlaceNat
<1> QED
  BY <1>2, <1>3, PlaceInjective

(* The step a worker has come to is the only one that leaves its list. *)
LEMMA LeftIs ==
  ASSUME TypeOK, NEW c \in Ctr, NEW s, Doing(c, s)
  PROVE  s \in todo[c] /\ Left(c) = todo[c] \ {s}
<1>1. s \in todo[c]
  BY DEF Doing
<1>2. \A t \in todo[c] : Doing(c, t) <=> t = s
  BY DoingOne
<1> QED
  BY <1>1, <1>2 DEF Left

(* A step other than look and find adds none. *)
LEMMA AfterIs ==
  ASSUME TypeOK, NEW c \in Ctr, NEW s, Doing(c, s), s \notin {"look", "find"}
  PROVE  s \in todo[c] /\ After(c) = todo[c] \ {s}
<1>1. ~Doing(c, "look") /\ ~Doing(c, "find")
  BY DoingOne
<1>2. After(c) = Left(c)
  BY <1>1 DEF After
<1> QED
  BY <1>2, LeftIs

(* A worker looks at the workload after the namespace and the volume. *)
LEMMA FirstThings ==
  ASSUME TypeOK, NEW c \in Ctr, Doing(c, "look")
  PROVE  todo[c] \cap (First \ {"look"}) = {}
  BY DEF Doing, Place, First, Policies

(* The workload is written when no companion is left to write. *)
LEMMA WriteLast ==
  ASSUME TypeOK, NEW c \in Ctr, Doing(c, "create") \/ Doing(c, "update")
  PROVE  todo[c] \cap Companions = {}
  BY DEF Doing, Place, Companions, ensureDeployment, ensureStatefulSet

(* A removal comes to the companions after the workload. *)
LEMMA DropsAfterDelete ==
  ASSUME TypeOK, NEW c \in Ctr, NEW s \in Drops, Doing(c, s)
  PROVE  "delete" \notin todo[c]
  BY DEF Doing, Place, Drops

(* A removal comes to the namespace when nothing of the container is left. *)
LEMMA NetworkLast ==
  ASSUME TypeOK, NEW c \in Ctr, NEW s \in RemoveNetwork, Doing(c, s)
  PROVE  /\ todo[c] \cap (DownSteps \ RemoveNetwork) = {}
         /\ s = "deleteNamespace" => "listWorkloads" \notin todo[c]
  BY DEF Doing, Place, DownSteps, RemoveNetwork
-----------------------------------------------------------------------------
FormOK(f) == /\ f.stable \in BOOLEAN /\ f.nodePort \in BOOLEAN /\ f.extras \in BOOLEAN
             /\ f.opens \in BOOLEAN /\ f.size \in 0 .. 2

(* What every form of a ContainerSpec has. *)
LEMMA Forms ==
  /\ Gen = 1 .. 5 /\ Portless \in Gen
  /\ \A g \in Gen : FormOK(ContainerSpec[g])
  /\ ContainerSpec[Portless].size = 0 /\ ~ContainerSpec[Portless].nodePort
  /\ ~ContainerSpec[Portless].stable
<1>1. Gen = 1 .. 5
  BY DEF Gen, ContainerSpec
<1>2. /\ ContainerSpec[1] = Form(FALSE, 1, FALSE, FALSE, FALSE, 1)
      /\ ContainerSpec[2] = Form(FALSE, 2, TRUE,  TRUE,  TRUE,  2)
      /\ ContainerSpec[3] = Form(TRUE,  2, TRUE,  TRUE,  FALSE, 1)
      /\ ContainerSpec[4] = Form(TRUE,  1, FALSE, FALSE, FALSE, 1)
      /\ ContainerSpec[5] = Form(FALSE, 1, FALSE, FALSE, FALSE, 0)
  BY DEF ContainerSpec
<1>3. \A g \in Gen : g = 1 \/ g = 2 \/ g = 3 \/ g = 4 \/ g = 5
  BY <1>1
<1>4. /\ FormOK(Form(FALSE, 1, FALSE, FALSE, FALSE, 1))
      /\ FormOK(Form(FALSE, 2, TRUE,  TRUE,  TRUE,  2))
      /\ FormOK(Form(TRUE,  2, TRUE,  TRUE,  FALSE, 1))
      /\ FormOK(Form(TRUE,  1, FALSE, FALSE, FALSE, 1))
      /\ FormOK(Form(FALSE, 1, FALSE, FALSE, FALSE, 0))
  BY DEF Form, FormOK
<1>5. /\ FormOK(ContainerSpec[1]) /\ FormOK(ContainerSpec[2]) /\ FormOK(ContainerSpec[3])
      /\ FormOK(ContainerSpec[4]) /\ FormOK(ContainerSpec[5])
  BY <1>2, <1>4, Zenon
<1>6. \A g \in Gen : FormOK(ContainerSpec[g])
  BY <1>3, <1>5, Zenon
<1>7. LET f == Form(FALSE, 1, FALSE, FALSE, FALSE, 0)
      IN f.size = 0 /\ ~f.nodePort /\ ~f.stable
  BY DEF Form
<1>8. ContainerSpec[5].size = 0 /\ ~ContainerSpec[5].nodePort /\ ~ContainerSpec[5].stable
  BY <1>2, <1>7, Zenon
<1> QED
  BY <1>1, <1>6, <1>8 DEF Portless

(* The two parts of a hash, which differs from that of no object. *)
LEMMA SpecHash ==
  ASSUME NEW g \in Gen
  PROVE  /\ specHash(g) \in Hash /\ specHash(g) # None
         /\ specHash(g)[1] = g /\ (specHash(g)[2] <=> Peers(g))
<1>1. Gen = 1 .. 5 /\ ContainerSpec[g].extras \in BOOLEAN
  BY Forms DEF FormOK
<1>2. Peers(g) \in BOOLEAN
  BY <1>1 DEF Peers
<1>3. <<g, Peers(g)>> \in Hash
  BY <1>2 DEF Hash
<1>4. <<g, Peers(g)>> # <<0, FALSE>>
  <2>1. <<g, Peers(g)>>[1] = g /\ <<0, FALSE>>[1] = 0 /\ g # 0
    BY <1>1
  <2> QED
    BY <2>1
<1> QED
  BY <1>2, <1>3, <1>4 DEF specHash, None

(* What a hash asks for is what the specification asks for, the hole being   *)
(* asked for behind a wall only.                                             *)
LEMMA AskedWanted ==
  ASSUME NEW g \in Gen, NEW k \in Companion
  PROVE  /\ k # "external" => (k \in Wanted(specHash(g)) <=> k \in Asked(g))
         /\ k = "external" => /\ k \in Wanted(specHash(g)) <=> buildExternalIngressPolicy(g)
                              /\ k \in Asked(g) <=> buildExternalIngressPolicy(g) /\ wall
<1>1. specHash(g)[1] = g /\ (specHash(g)[2] <=> Peers(g))
  BY SpecHash
<1> QED
  BY <1>1 DEF Wanted, Asked, Hole, buildGraphScopedIngressPolicy, Ordinals, Aliases, OrdinalName

(* Companions are asked for by name. *)
LEMMA WantedParts ==
  ASSUME NEW h, NEW k \in Companion
  PROVE  /\ k = "service" => (k \in Wanted(h) <=> h[1] # Portless)
         /\ k \in OrdinalName => (k \in Wanted(h) <=> k \in Ordinals(h[1]))
         /\ k = "alias" => (k \in Wanted(h) <=> k \in Aliases(h[1]))
         /\ k = "pdb" => (k \in Wanted(h) <=> buildPodDisruptionBudget(h[1]))
         /\ k = "external" => (k \in Wanted(h) <=> buildExternalIngressPolicy(h[1]))
         /\ k = "graph" => (k \in Wanted(h) <=> h[2])
         /\ k = "files" => (k \in Wanted(h) <=> ContainerSpec[h[1]].extras)
         /\ k = "pull" => (k \in Wanted(h) <=> ContainerSpec[h[1]].extras)
  BY DEF Wanted, OrdinalName, Ordinals, Aliases

(* What a specification becomes as a workload. *)
LEMMA WorkloadIs ==
  ASSUME NEW g \in Gen
  PROVE  Workload(g) = [shape |-> IF ContainerSpec[g].stable THEN "statefulset" ELSE "deployment",
                        hash |-> specHash(g), dying |-> FALSE]
  BY DEF Workload, buildDeployment, buildStatefulSet

(* An update leaves the mark of a deletion. *)
LEMMA WrittenIs ==
  ASSUME NEW g \in Gen, NEW b \in BOOLEAN
  PROVE  /\ [Workload(g) EXCEPT !.dying = b] =
               [shape |-> IF ContainerSpec[g].stable THEN "statefulset" ELSE "deployment",
                hash |-> specHash(g), dying |-> b]
         /\ [Workload(g) EXCEPT !.dying = b] \in [shape : Shape, hash : Hash, dying : BOOLEAN]
<1>1. specHash(g) \in Hash
  BY SpecHash
<1>2. \A sh \in Shape, h \in Hash :
        LET w == [[shape |-> sh, hash |-> h, dying |-> FALSE] EXCEPT !.dying = b]
        IN /\ w = [shape |-> sh, hash |-> h, dying |-> b]
           /\ w \in [shape : Shape, hash : Hash, dying : BOOLEAN]
  OBVIOUS
<1>3. (IF ContainerSpec[g].stable THEN "statefulset" ELSE "deployment") \in Shape
  BY DEF Shape
<1> QED
  BY <1>1, <1>2, <1>3, WorkloadIs
-----------------------------------------------------------------------------
(* A step keeps what it does not own: all the other containers have. *)
Kept(d) == /\ wl'[d] = wl[d] /\ obj'[d] = obj[d] /\ headless'[d] = headless[d]
           /\ vol'[d] = vol[d]
SameMarks(d) == /\ (d \in stale' <=> d \in stale) /\ (d \in astray' <=> d \in astray)
                /\ (d \in walled' <=> d \in walled)

(* A worker's effect is on its own container. *)
LEMMA EffectLocal ==
  ASSUME TypeOK, NEW c \in Ctr, Effect(c), NEW d \in Ctr, d # c
  PROVE  Kept(d) /\ SameMarks(d)
<1> USE DEF TypeOK, ObjectTypes, Kept, SameMarks, cluster, ghosts
<1>1. CASE namespace(c) \/ denyAll(c) \/ sameNamespace(c) \/ crossDomain(c) \/ deleteNamespace(c)
  BY <1>1 DEF namespace, denyAll, sameNamespace, crossDomain, deleteNamespace
<1>2. CASE EnsureVolume(c) \/ RemoveVolume(c)
  BY <1>2 DEF EnsureVolume, RemoveVolume
<1>3. CASE \E ks, on : /\ Write(c, ks, on) /\ UNCHANGED headless
                       /\ walled' \in {walled, walled \cup {c}, walled \ {c}}
  BY <1>3 DEF Write
<1>4. CASE ensureHeadlessService(c)
  BY <1>4 DEF ensureHeadlessService, Write
<1>5. CASE writeWorkload(c)
  BY <1>5 DEF writeWorkload
<1>6. CASE deleteWorkload(c)
  BY <1>6 DEF deleteWorkload
<1>7. CASE \E s, ks : Drop(c, s, ks)
  BY <1>7 DEF Drop
<1>8. CASE find(c) \/ Looks(c)
  BY <1>8 DEF find, Looks
<1> QED
  BY <1>1, <1>2, <1>3, <1>4, <1>5, <1>6, <1>7, <1>8
     DEF Effect, ensureService, ensureOrdinalServices, pruneOrdinalServices, ensureAliasServices,
         ensurePodDisruptionBudget, ensureExternalIngressPolicy, ensureGraphScopedIngressPolicy,
         ensureFilesSecret, ensureImagePullSecret, Own, dropServices, dropFiles, dropExternal,
         dropGraph, dropBudget

(* The kinds of effect: on what the containers share, on a volume, on the    *)
(* companions, on the workload.                                              *)
Shared(c) == \/ namespace(c) \/ denyAll(c) \/ sameNamespace(c) \/ crossDomain(c)
             \/ deleteNamespace(c) \/ find(c) \/ Looks(c)
Writing(c) == \E ks \in SUBSET Companion : \E on :
                /\ Write(c, ks, on) /\ headless' \in {headless, [headless EXCEPT ![c] = TRUE]}
                /\ walled' \in {walled, walled \cup {c}, walled \ {c}}
Dropping(c) == \E s \in Drops, ks \in SUBSET Companion : Drop(c, s, ks)

(* The deletions of companions are of one kind. *)
LEMMA DropKinds ==
  ASSUME NEW c \in Ctr,
         dropServices(c) \/ dropFiles(c) \/ dropExternal(c) \/ dropGraph(c) \/ dropBudget(c)
  PROVE  Dropping(c)
<1>1. /\ Service \in SUBSET Companion
      /\ \A s \in {"pdb", "external", "graph", "files"} : {s} \in SUBSET Companion
  BY DEF Companion
<1> QED
  BY <1>1 DEF dropServices, dropFiles, dropExternal, dropGraph, dropBudget, Dropping, Drops

(* An effect is of one of these kinds. *)
LEMMA EffectKinds ==
  ASSUME NEW c \in Ctr, Effect(c)
  PROVE  \/ Shared(c) \/ EnsureVolume(c) \/ RemoveVolume(c) \/ Writing(c)
         \/ writeWorkload(c) \/ deleteWorkload(c) \/ Dropping(c)
<1>1. ASSUME NEW ks \in SUBSET Companion, NEW on, Write(c, ks, on), UNCHANGED headless,
             walled' \in {walled, walled \cup {c}, walled \ {c}}
      PROVE  Writing(c)
  BY <1>1 DEF Writing
<1>2. CASE ensureService(c) \/ ensurePodDisruptionBudget(c) \/ ensureExternalIngressPolicy(c)
           \/ ensureGraphScopedIngressPolicy(c) \/ ensureFilesSecret(c)
           \/ ensureImagePullSecret(c)
  <2>1. \A s \in {"service", "pdb", "external", "graph", "files", "pull"} :
          {s} \in SUBSET Companion
    BY DEF Companion, Service
  <2> QED
    BY <1>1, <1>2, <2>1
       DEF ensureService, ensurePodDisruptionBudget, ensureExternalIngressPolicy,
           ensureGraphScopedIngressPolicy, ensureFilesSecret, ensureImagePullSecret, Own
<1>3. CASE ensureOrdinalServices(c) \/ pruneOrdinalServices(c) \/ ensureAliasServices(c)
  <2>1. /\ Ordinals(want[c]) \in SUBSET Companion /\ Aliases(want[c]) \in SUBSET Companion
        /\ OrdinalName \ Ordinals(want[c]) \in SUBSET Companion
    BY DEF Ordinals, Aliases, OrdinalName, Companion, Service
  <2> QED
    BY <1>1, <1>3, <2>1 DEF ensureOrdinalServices, pruneOrdinalServices, ensureAliasServices
<1>4. CASE ensureHeadlessService(c)
  <2>1. {"service"} \in SUBSET Companion
    BY DEF Companion, Service
  <2> QED
    BY <1>4, <2>1 DEF ensureHeadlessService, Writing
<1> QED
  BY <1>2, <1>3, <1>4, DropKinds DEF Effect, Shared

(* Only the write of the workload takes a mark away. *)
LEMMA EffectMarks ==
  ASSUME NEW c \in Ctr, Effect(c), ~writeWorkload(c)
  PROVE  stale \subseteq stale'
<1>1. CASE Shared(c) \/ EnsureVolume(c) \/ RemoveVolume(c)
  BY <1>1 DEF Shared, namespace, denyAll, sameNamespace, crossDomain, deleteNamespace, find,
              Looks, EnsureVolume, RemoveVolume, ghosts
<1>2. CASE Writing(c) \/ deleteWorkload(c) \/ Dropping(c)
  BY <1>2 DEF Writing, Write, deleteWorkload, Dropping, Drop, ghosts
<1> QED
  BY <1>1, <1>2, EffectKinds

(* The types are kept by every effect. *)
LEMMA EffectTypes ==
  ASSUME TypeOK, NEW c \in Ctr, Effect(c)
  PROVE  /\ PolicyTypes' /\ ObjectTypes'
         /\ stale' \subseteq Ctr /\ walled' \subseteq Ctr /\ astray' \subseteq Ctr
<1>1. /\ want[c] \in Gen /\ specHash(want[c]) \in Hash
      /\ ContainerSpec[want[c]].size \in 0 .. 2 /\ Allowed(c) \in BOOLEAN
  BY SpecHash, Forms DEF TypeOK, ManifestTypes, FormOK, Allowed
<1>2. None \in Hash
  BY DEF None, Hash
<1> USE DEF TypeOK, PolicyTypes, ObjectTypes, GhostTypes, cluster, ghosts
<1>3. CASE Shared(c)
  BY <1>1, <1>3 DEF Shared, namespace, denyAll, sameNamespace, crossDomain, deleteNamespace,
                    find, Looks
<1>4. CASE EnsureVolume(c) \/ RemoveVolume(c)
  BY <1>1, <1>4 DEF EnsureVolume, RemoveVolume
<1>5. CASE Writing(c)
  <2>1. PICK ks \in SUBSET Companion : \E on :
               /\ Write(c, ks, on) /\ headless' \in {headless, [headless EXCEPT ![c] = TRUE]}
               /\ walled' \in {walled, walled \cup {c}, walled \ {c}}
    BY <1>5 DEF Writing
  <2>2. headless' \in [Ctr -> BOOLEAN]
    BY <2>1
  <2>3. obj' \in [Ctr -> [Companion -> Hash]]
    BY <1>1, <1>2, <2>1 DEF Write
  <2> QED
    BY <2>1, <2>2, <2>3 DEF Write
<1>6. CASE writeWorkload(c)
  <2> DEFINE w == [Workload(want[c]) EXCEPT !.dying = wl[c].dying]
  <2>1. w \in [shape : Shape, hash : Hash, dying : BOOLEAN]
    BY <1>1, WrittenIs
  <2>2. /\ wl' = [wl EXCEPT ![c] = w]
        /\ UNCHANGED <<ns, wall, same, cross, obj, headless, vol, walled, astray>>
        /\ stale' \in {stale \cup {c}, stale \ {c}}
    BY <1>6 DEF writeWorkload
  <2> HIDE DEF w
  <2> QED
    BY <2>1, <2>2
<1>7. CASE deleteWorkload(c)
  <2> DEFINE w == [wl[c] EXCEPT !.dying = TRUE]
  <2>1. w \in [shape : Shape, hash : Hash, dying : BOOLEAN]
    OBVIOUS
  <2>2. /\ wl' \in {wl, [wl EXCEPT ![c] = w]}
        /\ UNCHANGED <<ns, wall, same, cross, obj, headless, vol, walled, astray>>
        /\ stale' = stale \cup {c}
    BY <1>7 DEF deleteWorkload
  <2> HIDE DEF w
  <2> QED
    BY <2>1, <2>2
<1>8. CASE Dropping(c)
  BY <1>2, <1>8 DEF Dropping, Drop
<1> QED
  BY <1>3, <1>4, <1>5, <1>6, <1>7, <1>8, EffectKinds
-----------------------------------------------------------------------------
(* A container nothing happened to is vouched for as it was. *)
LEMMA VouchKept ==
  ASSUME NEW d \in Ctr, Vouches(d), wl'[d] = wl[d], obj'[d] = obj[d],
         headless'[d] = headless[d], Found(d) /\ d \notin stale' => d \notin stale,
         d \in walled' <=> d \in walled
  PROVE  Vouches(d)'
<1>1. Found(d)' <=> Found(d)
  BY DEF Found
<1>2. SUFFICES ASSUME Found(d), d \notin stale
               PROVE  Vouches(d)'
  BY <1>1 DEF Vouches
<1>3. \A h : Wanted(h)' = Wanted(h)
  BY DEF Wanted
<1>4. \A h : Looked(h)' = Looked(h)
  BY <1>3 DEF Looked
<1>5. \A k, h : Exact(d, k, h)' <=> Exact(d, k, h)
  BY <1>3 DEF Exact, Due
<1>6. \A g : AddressFits(d, g)' <=> AddressFits(d, g)
  BY DEF AddressFits
<1> QED
  BY <1>2, <1>4, <1>5, <1>6 DEF Vouches

(* Every companion has a step of its own. *)
LEMMA StepOfIn ==
  ASSUME NEW c \in Ctr, NEW k \in Companion
  PROVE  StepOf(c, k) \in Companions
  BY DEF StepOf, Companions, Companion, Service, OrdinalName, ensureDeployment, ensureStatefulSet

(* The steps of an apply are done in an apply. *)
LEMMA InUp ==
  ASSUME TypeOK, NEW c \in Ctr, CommandSteps(c), NEW s \in UpSteps, s \in todo[c]
  PROVE  cmd = "up" /\ res[c] = "running"
  BY DEF TypeOK, WorkerTypes, CommandSteps, UpSteps, DownSteps

(* The steps of a removal are done in a removal. *)
LEMMA InDown ==
  ASSUME TypeOK, NEW c \in Ctr, CommandSteps(c), NEW s \in DownSteps, s \in todo[c]
  PROVE  cmd = "down" /\ res[c] = "running"
  BY DEF TypeOK, WorkerTypes, CommandSteps, UpSteps, DownSteps

(* The workload is written when its companions are what the specification    *)
(* asks for, unless it goes with the namespace or is being deleted.          *)
LEMMA WriteVouches ==
  ASSUME IInv, NEW c \in Ctr, writeWorkload(c), UNCHANGED <<want, iso>>
  PROVE  Vouches(c)'
<1> DEFINE g == want[c]
           h == specHash(g)
<1>1. Doing(c, "create") \/ Doing(c, "update")
  BY DEF writeWorkload
<1>2. todo[c] \cap Companions = {} /\ Building(c)
  BY <1>1, WriteLast DEF IInv, Doing, Building, Writes
<1>3. Working(c)
  BY <1>1, InUp DEF IInv, Worker, Doing, UpSteps, Working
<1>4. g \in Gen /\ wl[c].dying \in BOOLEAN
  BY DEF IInv, TypeOK, ManifestTypes, ObjectTypes
<1>5. h[1] = g
  BY <1>4, SpecHash
<1>6. wl'[c] = [shape |-> IF ContainerSpec[g].stable THEN "statefulset" ELSE "deployment",
                hash |-> h, dying |-> wl[c].dying]
  BY <1>4, WrittenIs DEF writeWorkload, IInv, TypeOK, ObjectTypes
<1>7. CASE wl[c].dying \/ lapsed
  BY <1>7 DEF Vouches, writeWorkload
<1>8. CASE ~lapsed
  <2>1. Built(c)
    BY <1>2, <1>3, <1>8 DEF IInv, Progress, UpSoFar
  <2>2. \A k \in Looked(h) : Exact(c, k, h)
    BY <1>2, <2>1, StepOfIn DEF Built, Looked
  <2>3. AddressFits(c, g)
    BY <1>2, <2>1 DEF Built, Companions, ensureDeployment
  <2>4. \A x : Wanted(x)' = Wanted(x)
    BY DEF Wanted
  <2>5. \A x : Looked(x)' = Looked(x)
    BY <2>4 DEF Looked
  <2>6. \A k, x : Exact(c, k, x)' <=> Exact(c, k, x)
    BY <2>4 DEF Exact, Due, writeWorkload
  <2>7. \A x : AddressFits(c, x)' <=> AddressFits(c, x)
    BY DEF AddressFits, writeWorkload
  <2>8. PICK x, y : x = h /\ y = g
    OBVIOUS
  <2>9. /\ wl'[c].hash = x /\ x[1] = y /\ y \in Gen
        /\ wl'[c].shape = IF ContainerSpec[y].stable THEN "statefulset" ELSE "deployment"
    BY <1>4, <1>5, <1>6, <2>8
  <2>10. (\A k \in Looked(x)' : Exact(c, k, x)') /\ AddressFits(c, y)'
    BY <2>2, <2>3, <2>5, <2>6, <2>7, <2>8
  <2> HIDE DEF g, h
  <2> QED
    BY <2>9, <2>10 DEF Vouches
<1> QED
  BY <1>7, <1>8

(* Whatever a worker does, with or without an answer, every workload vouches *)
(* for its companions, and none that is being deleted is relied on.          *)
LEMMA EffectVouches ==
  ASSUME IInv, NEW c \in Ctr, Effect(c), UNCHANGED <<want, iso>>, NEW d \in Ctr
  PROVE  Vouches(d)'
<1>1. Vouches(d) /\ TypeOK
  BY DEF IInv
<1>3. CASE d # c
  BY <1>1, <1>3, EffectLocal, VouchKept DEF Kept, SameMarks
<1>4. CASE d = c /\ (Shared(c) \/ EnsureVolume(c) \/ RemoveVolume(c))
  <2>1. UNCHANGED <<wl, obj, headless, stale, walled>>
    BY <1>4 DEF Shared, namespace, denyAll, sameNamespace, crossDomain, deleteNamespace, find,
                Looks, EnsureVolume, RemoveVolume, cluster, ghosts
  <2> QED
    BY <1>1, <1>4, <2>1, VouchKept
<1>5. CASE d = c /\ Writing(c)
  BY <1>1, <1>5 DEF Writing, Write, Vouches, Found
<1>6. CASE d = c /\ writeWorkload(c)
  BY <1>6, WriteVouches
<1>7. CASE d = c /\ deleteWorkload(c)
  BY <1>7 DEF deleteWorkload, Vouches
<1>8. CASE d = c /\ Dropping(c)
  <2>1. PICK s \in Drops : Doing(c, s) /\ UNCHANGED stale
    BY <1>8 DEF Dropping, Drop, ghosts
  <2>2. "delete" \notin todo[c] /\ s \in todo[c]
    BY <1>1, <2>1, DropsAfterDelete DEF Doing
  <2>3. c \in stale'
    BY <2>1, <2>2 DEF IInv, Worker, DropsLast
  <2> QED
    BY <1>8, <2>3 DEF Vouches
<1> QED
  BY <1>3, <1>4, <1>5, <1>6, <1>7, <1>8, EffectKinds

(* What is being deleted is marked as touched, and stays so. *)
LEMMA EffectExisting ==
  ASSUME IInv, NEW c \in Ctr, Effect(c), UNCHANGED <<want, iso>>, NEW d \in Ctr
  PROVE  Existing(d)'
<1>1. TypeOK /\ Existing(d) /\ want' = want
  BY DEF IInv
<1>2. CASE d # c
  BY <1>1, <1>2, EffectLocal DEF Kept, SameMarks, Existing, Found
<1>3. CASE d = c /\ (Shared(c) \/ RemoveVolume(c) \/ EnsureVolume(c))
  <2>1. UNCHANGED <<wl, stale>> /\ (want[c] = Portless => vol'[c] = 0)
    <3>1. CASE Shared(c)
      BY <1>1, <1>3, <3>1
         DEF Shared, namespace, denyAll, sameNamespace, crossDomain, deleteNamespace, find,
             Looks, cluster, ghosts, Existing
    <3>2. CASE RemoveVolume(c)
      BY <1>1, <3>2 DEF RemoveVolume, ghosts, TypeOK, ObjectTypes
    <3>3. CASE EnsureVolume(c)
      BY <1>1, <3>3, Forms DEF EnsureVolume, ghosts, TypeOK, ObjectTypes
    <3> QED
      BY <1>3, <3>1, <3>2, <3>3
  <2> QED
    BY <1>1, <1>3, <2>1 DEF Existing, Found
<1>4. CASE d = c /\ (Writing(c) \/ Dropping(c))
  <2>1. UNCHANGED <<wl, vol>> /\ stale \subseteq stale'
    BY <1>4 DEF Writing, Write, Dropping, Drop, ghosts
  <2> QED
    BY <1>1, <1>4, <2>1 DEF Existing, Found
<1>5. CASE d = c /\ writeWorkload(c)
  <2>1. wl'[c] = [shape |-> IF ContainerSpec[want[c]].stable THEN "statefulset" ELSE "deployment",
                  hash |-> specHash(want[c]), dying |-> wl[c].dying]
    BY <1>5, WrittenIs DEF writeWorkload, TypeOK, ManifestTypes, ObjectTypes, IInv
  <2> QED
    BY <1>1, <1>5, <2>1 DEF Existing, Found, writeWorkload
<1>6. CASE d = c /\ deleteWorkload(c)
  <2>1. c \in stale' /\ vol' = vol /\ (~Found(c) => wl' = wl)
        /\ (Found(c) => wl'[c].shape = wl[c].shape)
    BY <1>1, <1>6 DEF deleteWorkload, TypeOK, ObjectTypes
  <2> QED
    BY <1>1, <1>6, <2>1 DEF Existing, Found
<1> QED
  BY <1>2, <1>3, <1>4, <1>5, <1>6, EffectKinds
-----------------------------------------------------------------------------
(* What a look and a find put on the list. *)
LEMMA AfterLook ==
  ASSUME TypeOK, NEW c \in Ctr, Doing(c, "look")
  PROVE  /\ wl[c].hash = specHash(want[c]) => After(c) = todo[c] \ {"look"}
         /\ wl[c].hash # specHash(want[c]) =>
              After(c) = (todo[c] \ {"look"}) \cup Needed(c, EnsureContainer(c))
                           \cup {IF Found(c) THEN "update" ELSE "create"}
<1>1. ~Doing(c, "find") /\ Left(c) = todo[c] \ {"look"}
  BY DoingOne, LeftIs
<1> QED
  BY <1>1 DEF After

(* A find puts on the list what the removal of that shape needs. *)
LEMMA AfterFind ==
  ASSUME TypeOK, NEW c \in Ctr, Doing(c, "find")
  PROVE  /\ ~Found(c) => After(c) = todo[c] \ {"find"}
         /\ Found(c) => After(c) = (todo[c] \ {"find"})
                          \cup Needed(c, IF wl[c].shape = "deployment" THEN removeDeployment
                                         ELSE removeStatefulSet)
<1>1. ~Doing(c, "look") /\ Left(c) = todo[c] \ {"find"}
  BY DoingOne, LeftIs
<1> QED
  BY <1>1 DEF After

(* Only steps of the operation are put on the list. *)
LEMMA NeededSubset ==
  ASSUME NEW c \in Ctr
  PROVE  /\ Needed(c, EnsureContainer(c)) \subseteq EnsureContainer(c)
         /\ EnsureContainer(c) \subseteq Companions /\ Companions \subseteq UpSteps
         /\ Needed(c, removeDeployment) \subseteq DownSteps \ (RemoveNetwork \cup {"find"})
         /\ Needed(c, removeStatefulSet) \subseteq DownSteps \ (RemoveNetwork \cup {"find"})
  BY DEF Needed, EnsureContainer, Companions, ensureDeployment, ensureStatefulSet, UpSteps,
         removeDeployment, removeStatefulSet, removeCommonContainerObjects, DownSteps,
         RemoveNetwork

(* A removal of what was found deletes the workload, its Services and what   *)
(* else there is, and waits for the workload to go.                          *)
LEMMA NeededDown ==
  ASSUME NEW c \in Ctr, NEW steps \in {removeDeployment, removeStatefulSet}
  PROVE  /\ {"delete", "services", "waitObjectGone"} \subseteq Needed(c, steps)
         /\ "noFiles" \notin Needed(c, steps) => obj[c]["files"] = None
         /\ "noExternal" \notin Needed(c, steps) => obj[c]["external"] = None
         /\ "noGraph" \notin Needed(c, steps) => obj[c]["graph"] = None
<1>1. {"delete", "services", "waitObjectGone", "noFiles", "noExternal", "noGraph"} \subseteq steps
  BY DEF removeDeployment, removeStatefulSet, removeCommonContainerObjects
<1>2. /\ Deletes("delete") = Companion /\ Deletes("services") = Companion
      /\ Deletes("waitObjectGone") = Companion /\ Deletes("noFiles") = {"files"}
      /\ Deletes("noExternal") = {"external"} /\ Deletes("noGraph") = {"graph"}
  BY DEF Deletes
<1> QED
  BY <1>1, <1>2 DEF Needed

(* A step that has an effect is one the worker has come to. *)
LEMMA EffectDoing ==
  ASSUME NEW c \in Ctr, Effect(c)
  PROVE  \E s : Doing(c, s)
  BY DEF Effect, namespace, denyAll, sameNamespace, crossDomain, EnsureVolume, ensureService,
         ensureHeadlessService, ensureOrdinalServices, pruneOrdinalServices, ensureAliasServices,
         ensurePodDisruptionBudget, ensureExternalIngressPolicy, ensureGraphScopedIngressPolicy,
         ensureFilesSecret, ensureImagePullSecret, Own, writeWorkload, find, deleteWorkload,
         dropServices, dropFiles, dropExternal, dropGraph, dropBudget, Drop, RemoveVolume,
         deleteNamespace, Looks

(* The effect is that of the step the worker has come to. *)
LEMMA EffectOf ==
  ASSUME TypeOK, NEW c \in Ctr, NEW s, Doing(c, s), Effect(c)
  PROVE  /\ s = "namespace" => namespace(c)
         /\ s = "denyAll" => denyAll(c)
         /\ s = "sameNamespace" => sameNamespace(c)
         /\ s = "crossDomain" => crossDomain(c)
         /\ s = "EnsureVolume" => EnsureVolume(c)
         /\ s = "service" => ensureService(c)
         /\ s = "headless" => ensureHeadlessService(c)
         /\ s = "ordinals" => ensureOrdinalServices(c)
         /\ s = "prune" => pruneOrdinalServices(c)
         /\ s = "alias" => ensureAliasServices(c)
         /\ s = "pdb" => ensurePodDisruptionBudget(c)
         /\ s = "external" => ensureExternalIngressPolicy(c)
         /\ s = "graph" => ensureGraphScopedIngressPolicy(c)
         /\ s = "files" => ensureFilesSecret(c)
         /\ s = "pull" => ensureImagePullSecret(c)
         /\ s \in Writes => writeWorkload(c)
         /\ s \in {"look", "WaitHealthy", "waitObjectGone", "listWorkloads"} => Looks(c)
         /\ s = "find" => find(c)
         /\ s = "delete" => deleteWorkload(c)
         /\ s = "services" => dropServices(c)
         /\ s = "noFiles" => dropFiles(c)
         /\ s = "noExternal" => dropExternal(c)
         /\ s = "noGraph" => dropGraph(c)
         /\ s = "noBudget" => dropBudget(c)
         /\ s = "RemoveVolume" => RemoveVolume(c)
         /\ s = "deleteNamespace" => deleteNamespace(c)
<1>1. \A t : Doing(c, t) => t = s
  BY DoingOne
<1> QED
  BY <1>1
     DEF Effect, namespace, denyAll, sameNamespace, crossDomain, EnsureVolume, ensureService,
         ensureHeadlessService, ensureOrdinalServices, pruneOrdinalServices, ensureAliasServices,
         ensurePodDisruptionBudget, ensureExternalIngressPolicy, ensureGraphScopedIngressPolicy,
         ensureFilesSecret, ensureImagePullSecret, Own, writeWorkload, find, deleteWorkload,
         dropServices, dropFiles, dropExternal, dropGraph, dropBudget, Drop, RemoveVolume,
         deleteNamespace, Looks, Writes

(* During a removal no workload comes into being. *)
LEMMA NoneNew ==
  ASSUME IInv, NEW c \in Ctr, Effect(c), cmd = "down", NEW d \in Ctr, Found(d)'
  PROVE  Found(d)
<1>1. TypeOK
  BY DEF IInv
<1>2. CASE writeWorkload(c)
  BY <1>1, <1>2, InUp DEF writeWorkload, Doing, UpSteps, IInv, Worker
<1>3. CASE deleteWorkload(c)
  BY <1>1, <1>3 DEF deleteWorkload, TypeOK, ObjectTypes, Found
<1>4. CASE Shared(c) \/ EnsureVolume(c) \/ RemoveVolume(c) \/ Writing(c) \/ Dropping(c)
  <2>1. wl' = wl
    BY <1>4 DEF Shared, namespace, denyAll, sameNamespace, crossDomain, deleteNamespace, find,
                Looks, cluster, EnsureVolume, RemoveVolume, Writing, Write, Dropping, Drop
  <2> QED
    BY <2>1 DEF Found
<1> QED
  BY <1>2, <1>3, <1>4, EffectKinds
-----------------------------------------------------------------------------
(* A worker's turn: a step, a refusal, or a call that fails.                 *)
Turn(c) == Step(c) \/ Stuck(c) \/ Fails(c)

(* A turn changes nothing of the manifests, the command or other workers. *)
LEMMA TurnFrame ==
  ASSUME TypeOK, NEW c \in Ctr, Turn(c)
  PROVE  /\ UNCHANGED <<want, iso, cmd, lapsed>> /\ events' \in Nat
         /\ Effect(c) \/ UNCHANGED <<cluster, ghosts>>
         /\ Running(c)
         /\ \A d \in Ctr \ {c} : todo'[d] = todo[d] /\ res'[d] = res[d] /\ Kept(d) /\ SameMarks(d)
<1>1. /\ UNCHANGED <<want, iso, cmd, lapsed>> /\ events' \in Nat
      /\ Effect(c) \/ UNCHANGED <<cluster, ghosts>>
      /\ Running(c)
  BY DEF Turn, Step, Stuck, Fails, Ends, Event, manifests, TypeOK, GhostTypes
<1>2. \A d \in Ctr \ {c} : todo'[d] = todo[d] /\ res'[d] = res[d]
  BY DEF Turn, Step, Stuck, Fails, Ends, TypeOK, WorkerTypes
<1>3. \A d \in Ctr \ {c} : Kept(d) /\ SameMarks(d)
  BY <1>1, EffectLocal DEF Kept, SameMarks, cluster, ghosts
<1> QED
  BY <1>1, <1>2, <1>3

(* What a worker has left are steps of its command. *)
LEMMA AfterCommand ==
  ASSUME TypeOK, NEW c \in Ctr, CommandSteps(c), Effect(c)
  PROVE  /\ After(c) \subseteq UpSteps \cup DownSteps
         /\ cmd = "up" => After(c) \subseteq UpSteps
         /\ cmd = "down" => After(c) \subseteq DownSteps
         /\ cmd # "idle"
         /\ iso = "none" => After(c) \cap Policies = {}
<1>1. PICK s : Doing(c, s)
  BY EffectDoing
<1>2. s \in todo[c] /\ todo[c] \subseteq UpSteps \cup DownSteps
  BY <1>1 DEF Doing, TypeOK, WorkerTypes
<1>3. cmd # "idle"
  BY <1>2 DEF CommandSteps
<1>4. CASE s \notin {"look", "find"}
  <2>1. After(c) = todo[c] \ {s}
    BY <1>1, <1>4, AfterIs
  <2> QED
    BY <1>2, <1>3, <2>1 DEF CommandSteps
<1>5. CASE s = "look"
  <2>1. /\ After(c) \subseteq todo[c] \cup Companions \cup Writes
        /\ Companions \cup Writes \subseteq UpSteps
    BY <1>1, <1>5, AfterLook, NeededSubset DEF Writes, UpSteps
  <2>2. (Companions \cup Writes) \cap Policies = {}
    BY DEF Companions, ensureDeployment, ensureStatefulSet, Writes, Policies
  <2>3. cmd = "up"
    BY <1>2, <1>5, InUp DEF UpSteps
  <2> QED
    BY <1>2, <2>1, <2>2, <2>3 DEF CommandSteps
<1>6. CASE s = "find"
  <2>1. After(c) \subseteq todo[c] \cup (DownSteps \ (RemoveNetwork \cup {"find"}))
    BY <1>1, <1>6, AfterFind, NeededSubset
  <2>2. DownSteps \cap Policies = {}
    BY DEF DownSteps, Policies
  <2>3. cmd = "down"
    BY <1>2, <1>6, InDown DEF DownSteps
  <2> QED
    BY <1>2, <2>1, <2>2, <2>3 DEF CommandSteps
<1> QED
  BY <1>4, <1>5, <1>6

(* A turn keeps the types and the steps of the command. *)
LEMMA TurnTypes ==
  ASSUME IInv, NEW c \in Ctr, Turn(c)
  PROVE  TypeOK' /\ \A d \in Ctr : CommandSteps(d)'
<1>1. TypeOK /\ CommandSteps(c) /\ \A d \in Ctr : CommandSteps(d)
  BY DEF IInv, Worker
<1>2. /\ UNCHANGED <<want, iso, cmd, lapsed>> /\ events' \in Nat
      /\ Effect(c) \/ UNCHANGED <<cluster, ghosts>>
      /\ Running(c)
      /\ \A d \in Ctr \ {c} : todo'[d] = todo[d] /\ res'[d] = res[d]
  BY <1>1, TurnFrame
<1>3. /\ PolicyTypes' /\ ObjectTypes'
      /\ stale' \subseteq Ctr /\ walled' \subseteq Ctr /\ astray' \subseteq Ctr
  BY <1>1, <1>2, EffectTypes DEF TypeOK, PolicyTypes, ObjectTypes, GhostTypes, cluster, ghosts
<1>4. Effect(c) => /\ After(c) \subseteq UpSteps \cup DownSteps
                   /\ cmd = "up" => After(c) \subseteq UpSteps
                   /\ cmd = "down" => After(c) \subseteq DownSteps
                   /\ cmd # "idle"
                   /\ iso = "none" => After(c) \cap Policies = {}
  BY <1>1, AfterCommand
<1>5. todo' \in [Ctr -> SUBSET (UpSteps \cup DownSteps)]
      /\ res' \in [Ctr -> {"none", "running", "ok", "failed"}]
  BY <1>1, <1>4 DEF Turn, Step, Stuck, Fails, Ends, TypeOK, WorkerTypes
<1>6. CommandSteps(c)'
  <2>1. CASE Step(c)
    <3>1. Effect(c) /\ todo'[c] = After(c) /\ (res'[c] # "running" => After(c) = {})
      BY <1>1, <2>1 DEF Step, Running, TypeOK, WorkerTypes
    <3> QED
      BY <1>2, <1>4, <3>1 DEF CommandSteps
  <2>2. CASE Stuck(c) \/ Fails(c)
    <3>1. todo'[c] = {}
      BY <1>1, <2>2 DEF Stuck, Fails, Ends, TypeOK, WorkerTypes
    <3> QED
      BY <3>1 DEF CommandSteps
  <2> QED
    BY <2>1, <2>2 DEF Turn
<1>7. \A d \in Ctr \ {c} : CommandSteps(d)'
  BY <1>1, <1>2 DEF CommandSteps
<1>8. ManifestTypes' /\ WorkerTypes' /\ GhostTypes'
  BY <1>1, <1>2, <1>3, <1>5 DEF TypeOK, ManifestTypes, WorkerTypes, GhostTypes
<1> QED
  BY <1>3, <1>6, <1>7, <1>8 DEF TypeOK

(* The order of an apply: the companions come with the workload that         *)
(* vouches for them, after everything else.                                  *)
LEMMA TurnUpOrder ==
  ASSUME IInv, NEW c \in Ctr, Turn(c), NEW d \in Ctr
  PROVE  UpOrder(d)'
<1>1. TypeOK /\ UpOrder(d) /\ UpOrder(c) /\ CommandSteps(c)
  BY DEF IInv, Worker
<1>2. UNCHANGED <<want, cmd>> /\ Running(c)
      /\ \A e \in Ctr \ {c} : todo'[e] = todo[e] /\ res'[e] = res[e]
  BY <1>1, TurnFrame
<1>3. CASE d # c
  BY <1>1, <1>2, <1>3 DEF UpOrder, Working, Building, EnsureContainer
<1>4. CASE d = c /\ (Stuck(c) \/ Fails(c))
  <2>1. todo'[c] = {}
    BY <1>1, <1>4 DEF Stuck, Fails, Ends, TypeOK, WorkerTypes
  <2> QED
    BY <1>4, <2>1 DEF UpOrder, Building
<1>5. CASE d = c /\ Step(c) /\ cmd = "up"
  <2>1. PICK s : Doing(c, s)
    BY <1>5, EffectDoing DEF Step
  <2>2. todo'[c] = After(c) /\ Working(c) /\ s \in todo[c]
    BY <1>1, <1>2, <1>5, <2>1 DEF Step, Running, Doing, TypeOK, WorkerTypes, Working
  <2>3. CASE s \notin {"look", "find"}
    <3>1. After(c) = todo[c] \ {s}
      BY <1>1, <2>1, <2>3, AfterIs
    <3>2. s \in Writes => todo[c] \cap Companions = {}
      BY <1>1, <2>1, WriteLast DEF Writes
    <3>3. Building(c) /\ s \notin Writes => Building(c)'
      BY <2>2, <3>1 DEF Building
    <3>4. Building(c)' => Building(c)
      BY <2>2, <3>1 DEF Building
    <3> QED
      BY <1>1, <1>2, <1>5, <2>2, <3>1, <3>2, <3>3, <3>4 DEF UpOrder, EnsureContainer
  <2>4. CASE s = "look"
    <3>1. todo[c] \cap Companions = {} /\ todo[c] \cap Writes = {}
      BY <1>1, <2>2, <2>4 DEF UpOrder, Building, First
    <3>2. todo[c] \cap First = {"look"}
      BY <1>1, <2>1, <2>2, <2>4, FirstThings DEF First
    <3>3. (Companions \cup Writes) \cap First = {}
      BY DEF Companions, ensureDeployment, ensureStatefulSet, Writes, First, Policies
    <3>4. \/ After(c) = todo[c] \ {"look"}
          \/ \E w \in Writes : After(c) = (todo[c] \ {"look"}) \cup Needed(c, EnsureContainer(c))
                                            \cup {w}
      BY <1>1, <2>1, <2>4, AfterLook DEF Writes
    <3>5. /\ Needed(c, EnsureContainer(c)) \subseteq EnsureContainer(c)
          /\ EnsureContainer(c) \subseteq Companions
      BY NeededSubset
    <3>6. CASE After(c) = todo[c] \ {"look"}
      BY <1>5, <2>2, <3>1, <3>6 DEF UpOrder, Building
    <3>7. ASSUME NEW w \in Writes, After(c) = (todo[c] \ {"look"})
                                     \cup Needed(c, EnsureContainer(c)) \cup {w}
          PROVE  UpOrder(c)'
      <4>1. Building(c)'
        BY <2>2, <3>7 DEF Building
      <4>2. w \notin Companions
        BY DEF Writes, Companions, ensureDeployment, ensureStatefulSet
      <4>3. todo'[c] \cap Companions \subseteq EnsureContainer(c)
        BY <2>2, <3>1, <3>5, <3>7, <4>2
      <4>4. todo'[c] \cap First = {}
        BY <2>2, <3>2, <3>3, <3>5, <3>7
      <4>5. EnsureContainer(c)' = EnsureContainer(c)
        BY <1>2 DEF EnsureContainer
      <4> QED
        BY <4>1, <4>3, <4>4, <4>5 DEF UpOrder
    <3> QED
      BY <1>5, <3>4, <3>6, <3>7
  <2>5. s # "find"
    BY <1>1, <1>5, <2>2, InDown DEF DownSteps
  <2> QED
    BY <2>3, <2>4, <2>5
<1>6. CASE cmd # "up"
  BY <1>2, <1>6 DEF UpOrder, Working
<1> QED
  BY <1>3, <1>4, <1>5, <1>6 DEF Turn

(* A removal marks what it touches before it removes the first companion.    *)
LEMMA TurnDropsLast ==
  ASSUME IInv, NEW c \in Ctr, Turn(c), NEW d \in Ctr
  PROVE  DropsLast(d)'
<1>1. TypeOK /\ DropsLast(d) /\ DropsLast(c) /\ CommandSteps(c)
  BY DEF IInv, Worker
<1>2. Running(c) /\ \A e \in Ctr \ {c} : todo'[e] = todo[e] /\ SameMarks(e)
  BY <1>1, TurnFrame
<1>3. CASE d # c
  BY <1>1, <1>2, <1>3 DEF DropsLast, SameMarks
<1>4. CASE d = c /\ (Stuck(c) \/ Fails(c))
  <2>1. todo'[c] = {}
    BY <1>1, <1>4 DEF Stuck, Fails, Ends, TypeOK, WorkerTypes
  <2> QED
    BY <1>4, <2>1 DEF DropsLast
<1>5. CASE d = c /\ Step(c)
  <2>1. PICK s : Doing(c, s)
    BY <1>5, EffectDoing DEF Step
  <2>2. todo'[c] = After(c) /\ s \in todo[c] /\ Effect(c)
    BY <1>1, <1>5, <2>1 DEF Step, Doing, TypeOK, WorkerTypes
  <2>3. s \in UpSteps \/ s \in DownSteps
    BY <1>1, <2>2 DEF TypeOK, WorkerTypes
  <2>4. CASE s \in UpSteps
    <3>1. After(c) \subseteq UpSteps
      BY <1>1, <2>2, <2>4, InUp, AfterCommand
    <3>2. UpSteps \cap Drops = {}
      BY DEF UpSteps, Drops
    <3> QED
      BY <1>5, <2>2, <3>1, <3>2 DEF DropsLast
  <2>5. CASE s \in DownSteps /\ s = "find"
    <3>1. CASE Found(c)
      <4>1. "delete" \in After(c)
        BY <1>1, <2>1, <2>5, <3>1, AfterFind, NeededDown
      <4> QED
        BY <1>5, <2>2, <4>1 DEF DropsLast
    <3>2. CASE ~Found(c)
      <4>1. After(c) = todo[c] \ {"find"}
        BY <1>1, <2>1, <2>5, <3>2, AfterFind
      <4>2. UNCHANGED stale
        <5>1. find(c)
          BY <1>1, <2>1, <2>2, <2>5, EffectOf
        <5> QED
          BY <5>1 DEF find
      <4> QED
        BY <1>1, <1>5, <2>2, <4>1, <4>2 DEF DropsLast
    <3> QED
      BY <3>1, <3>2
  <2>6. CASE s \in DownSteps /\ s # "find"
    <3>1. After(c) = todo[c] \ {s}
      BY <1>1, <2>1, <2>6, AfterIs DEF DownSteps
    <3>2. s = "delete" => c \in stale'
      BY <1>1, <2>1, <2>2, EffectOf DEF deleteWorkload
    <3>3. stale \subseteq stale'
      <4>1. ~writeWorkload(c)
        BY <1>1, <2>1, <2>6, DoingOne DEF writeWorkload, DownSteps
      <4> QED
        BY <2>2, <4>1, EffectMarks
    <3> QED
      BY <1>1, <1>5, <2>2, <3>1, <3>2, <3>3 DEF DropsLast
  <2> QED
    BY <2>3, <2>4, <2>5, <2>6
<1> QED
  BY <1>3, <1>4, <1>5 DEF Turn

(* A namespace that was found without workloads stays so until it goes.      *)
LEMMA TurnListed ==
  ASSUME IInv, NEW c \in Ctr, Turn(c), NEW d \in Ctr
  PROVE  Listed(d)'
<1>1. TypeOK /\ Listed(d) /\ CommandSteps(c) /\ CommandSteps(d)' /\ WorkerTypes'
  BY TurnTypes DEF IInv, Worker, TypeOK
<1>2. /\ Running(c) /\ cmd' = cmd
      /\ Effect(c) \/ UNCHANGED <<cluster, ghosts>>
      /\ \A e \in Ctr \ {c} : todo'[e] = todo[e]
  BY <1>1, TurnFrame
<1>3. SUFFICES ASSUME "deleteNamespace" \in todo'[d], "listWorkloads" \notin todo'[d]
               PROVE  ~InUse'
  BY DEF Listed
<1>4. cmd = "down"
  <2>1. cmd' \in {"idle", "up", "down"} /\ "deleteNamespace" \notin UpSteps
    BY <1>1 DEF WorkerTypes, UpSteps
  <2>2. (cmd' = "idle" => todo'[d] = {}) /\ (cmd' = "up" => todo'[d] \subseteq UpSteps)
    BY <1>1 DEF CommandSteps
  <2> QED
    BY <1>2, <1>3, <2>1, <2>2
<1>5. ~InUse => ~InUse'
  <2>1. CASE Effect(c)
    BY <1>4, <2>1, NoneNew DEF InUse
  <2>2. CASE UNCHANGED <<cluster, ghosts>>
    BY <2>2 DEF InUse, Found, cluster
  <2> QED
    BY <1>2, <2>1, <2>2
<1>6. CASE d # c
  BY <1>1, <1>2, <1>3, <1>5, <1>6 DEF Listed
<1>7. CASE d = c
  <2>1. Step(c)
    BY <1>1, <1>3, <1>7 DEF Turn, Stuck, Fails, Ends, TypeOK, WorkerTypes
  <2>2. PICK s : Doing(c, s)
    BY <2>1, EffectDoing DEF Step
  <2>3. todo'[c] = After(c) /\ s \in todo[c] /\ Able(c)
    BY <1>1, <2>1, <2>2 DEF Step, Doing, TypeOK, WorkerTypes
  <2>4. s # "look"
    BY <1>1, <1>4, <2>3, InUp DEF UpSteps
  <2>5. After(c) \cap RemoveNetwork = (todo[c] \ {s}) \cap RemoveNetwork
    <3>1. CASE s = "find"
      BY <1>1, <2>2, <3>1, AfterFind, NeededSubset
    <3>2. CASE s # "find"
      BY <1>1, <2>2, <2>4, <3>2, AfterIs
    <3> QED
      BY <3>1, <3>2
  <2>6. CASE s = "listWorkloads"
    BY <1>5, <2>2, <2>3, <2>6 DEF Able
  <2>7. CASE s # "listWorkloads"
    BY <1>1, <1>3, <1>5, <1>7, <2>3, <2>5, <2>7 DEF Listed, RemoveNetwork
  <2> QED
    BY <2>6, <2>7
<1> QED
  BY <1>6, <1>7
-----------------------------------------------------------------------------
(* A step leaves the list when the worker has come to it. *)
LEMMA AfterKeeps ==
  ASSUME NEW c \in Ctr, NEW t \in todo[c], t \notin After(c)
  PROVE  Doing(c, t)
  BY DEF After, Left

(* A worker that goes on working in an apply has taken a step. *)
LEMMA StillWorking ==
  ASSUME IInv, NEW c \in Ctr, Turn(c), Working(c)'
  PROVE  /\ Step(c) /\ Effect(c) /\ Able(c) /\ todo'[c] = After(c)
         /\ Working(c) /\ todo[c] \subseteq UpSteps
<1>1. TypeOK /\ CommandSteps(c) /\ Running(c) /\ cmd = "up"
  BY TurnFrame DEF IInv, Worker, Working
<1>2. todo[c] \subseteq UpSteps /\ Working(c)
  BY <1>1 DEF CommandSteps, Working, Running
<1>3. ASSUME Ends(c)
      PROVE  FALSE
  <2>1. \A s \in RemoveNetwork : ~Doing(c, s)
    BY <1>2 DEF Doing, UpSteps, RemoveNetwork
  <2>2. res'[c] = "failed"
    BY <1>1, <1>3, <2>1 DEF Ends, TypeOK, WorkerTypes
  <2> QED
    BY <2>2 DEF Working
<1>4. Step(c)
  BY <1>3 DEF Turn, Stuck, Fails
<1> QED
  BY <1>1, <1>2, <1>4 DEF Step, TypeOK, WorkerTypes

(* Who walls a namespace off leaves it walled off, whatever the others do.   *)
LEMMA TurnClosed ==
  ASSUME IInv, NEW c \in Ctr, Turn(c), NEW d \in Ctr
  PROVE  ClosedSoFar(d)' /\ Walls'
<1>1. TypeOK /\ ClosedSoFar(d) /\ CommandSteps(c) /\ Walls
  BY DEF IInv, Worker, Progress
<1>2. /\ Running(c) /\ UNCHANGED <<want, iso, cmd, lapsed>>
      /\ Effect(c) \/ UNCHANGED <<cluster, ghosts>>
      /\ \A e \in Ctr \ {c} : todo'[e] = todo[e] /\ res'[e] = res[e]
  BY <1>1, TurnFrame
<1>3. \A e : Allowed(e)' <=> Allowed(e)
  BY <1>2 DEF Allowed
<1>4. wall' # wall => denyAll(c)
  BY <1>2, EffectKinds
     DEF Shared, namespace, denyAll, sameNamespace, crossDomain, deleteNamespace, find, Looks,
         EnsureVolume, RemoveVolume, Writing, Write, writeWorkload, deleteWorkload, Dropping,
         Drop, cluster
<1>5. same' # same => sameNamespace(c)
  BY <1>2, EffectKinds
     DEF Shared, namespace, denyAll, sameNamespace, crossDomain, deleteNamespace, find, Looks,
         EnsureVolume, RemoveVolume, Writing, Write, writeWorkload, deleteWorkload, Dropping,
         Drop, cluster
<1>6. cross' # cross => crossDomain(c)
  BY <1>2, EffectKinds
     DEF Shared, namespace, denyAll, sameNamespace, crossDomain, deleteNamespace, find, Looks,
         EnsureVolume, RemoveVolume, Writing, Write, writeWorkload, deleteWorkload, Dropping,
         Drop, cluster
<1>7. denyAll(c) => wall'
  BY DEF denyAll
<1>8. sameNamespace(c) => same' = (iso # "graph")
  BY DEF sameNamespace
<1>9. crossDomain(c) => (cross' <=> Allowed(c))
  BY DEF crossDomain
<1>10. Walls'
  <2>1. walled' # walled => walled' \subseteq walled \/ wall
    BY <1>2 DEF Effect, namespace, denyAll, sameNamespace, crossDomain, EnsureVolume,
         ensureService, ensureHeadlessService, ensureOrdinalServices, pruneOrdinalServices,
         ensureAliasServices, ensurePodDisruptionBudget, ensureExternalIngressPolicy, Hole,
         ensureGraphScopedIngressPolicy, ensureFilesSecret, ensureImagePullSecret, Own,
         writeWorkload, find, deleteWorkload, dropServices, dropFiles, dropExternal, dropGraph,
         dropBudget, Drop, RemoveVolume, deleteNamespace, Looks, ghosts
  <2> QED
    BY <1>1, <1>4, <1>7, <2>1 DEF Walls
<1>11. SUFFICES ASSUME Working(d)', ~lapsed', iso' # "none"
                PROVE  ClosedSoFar(d)'
  BY <1>10 DEF ClosedSoFar
<1>12. Working(d) /\ ~lapsed /\ iso # "none"
  BY <1>2, <1>11, StillWorking DEF Working
<1>13. \A t \in todo[d] \ todo'[d] : d = c /\ Doing(c, t) /\ Effect(c)
  BY <1>2, <1>11, StillWorking, AfterKeeps
<1>14. "denyAll" \notin todo'[d] => wall'
  BY <1>1, <1>4, <1>7, <1>12, <1>13, EffectOf DEF ClosedSoFar
<1>15. "sameNamespace" \notin todo'[d] => same' = (iso = "default")
  <2>1. (iso # "graph") = (iso = "default")
    BY <1>1, <1>12 DEF TypeOK, ManifestTypes
  <2> QED
    BY <1>1, <1>5, <1>8, <1>12, <1>13, <2>1, EffectOf DEF ClosedSoFar
<1>16. "crossDomain" \notin todo'[d] => (cross' => \E e \in Ctr : Allowed(e))
  BY <1>1, <1>6, <1>9, <1>12, <1>13, EffectOf DEF ClosedSoFar
<1> QED
  BY <1>2, <1>3, <1>14, <1>15, <1>16 DEF ClosedSoFar
-----------------------------------------------------------------------------
(* What a step about companions makes of them. *)
LEMMA WriteIs ==
  ASSUME TypeOK, NEW c \in Ctr, NEW ks, NEW on, Write(c, ks, on), NEW k \in Companion
  PROVE  obj'[c][k] = IF k \in ks THEN IF on THEN specHash(want[c]) ELSE None ELSE obj[c][k]
  BY DEF Write, TypeOK, ObjectTypes

(* The steps that write companions of one kind each. *)
LEMMA NamedStep ==
  ASSUME NEW c \in Ctr, NEW k \in Companion \ (Service \ {"alias"})
  PROVE  StepOf(c, k) = k
  BY DEF StepOf, Companion, Service, OrdinalName

(* Such a step is that of no other companion. *)
LEMMA StepOfElse ==
  ASSUME NEW c \in Ctr, NEW k \in Companion, NEW s \in Companion \ Service, k # s
  PROVE  StepOf(c, k) # s
  BY DEF StepOf, Companion, Service, OrdinalName

(* A step about a companion of its own name: the companion is then what the  *)
(* specification asks for, and the others are what they were.                *)
LEMMA OwnExact ==
  ASSUME IInv, NEW c \in Ctr, UNCHANGED <<want, iso>>,
         NEW s \in Companion \ Service, NEW on, Write(c, {s}, on),
         on <=> Due(c, s, specHash(want[c]))',
         NEW k \in Companion
  PROVE  /\ StepOf(c, k) = s => Exact(c, k, specHash(want[c]))'
         /\ StepOf(c, k) # s => obj'[c][k] = obj[c][k]
<1>1. obj'[c][k] = IF k = s THEN IF on THEN specHash(want[c]) ELSE None ELSE obj[c][k]
  <2>1. obj'[c][k] = IF k \in {s} THEN IF on THEN specHash(want[c]) ELSE None ELSE obj[c][k]
    BY WriteIs DEF IInv
  <2> QED
    BY <2>1
<1>2. (StepOf(c, k) = s) <=> k = s
  BY StepOfElse, NamedStep
<1>3. specHash(want[c])' = specHash(want[c])
  BY DEF specHash, Peers
<1> QED
  BY <1>1, <1>2, <1>3 DEF Exact

(* Every step about companions leaves those it is for as the specification   *)
(* asks, and the others alone.                                               *)
LEMMA CompanionStep ==
  ASSUME IInv, NEW c \in Ctr, Working(c), ~lapsed, NEW s \in Companions, Doing(c, s), Effect(c),
         UNCHANGED <<want, iso>>, NEW k \in Companion
  PROVE  /\ StepOf(c, k) = s /\ k \in Looked(specHash(want[c])) => Exact(c, k, specHash(want[c]))'
         /\ StepOf(c, k) # s => obj'[c][k] = obj[c][k]
<1> DEFINE g == want[c]
           h == specHash(g)
<1>1. TypeOK /\ g \in Gen /\ UpOrder(c)
  BY DEF IInv, TypeOK, ManifestTypes, Worker
<1> TypeOK
  BY <1>1
<1>2. s \in todo[c] /\ todo[c] \cap First = {} /\ s \in EnsureContainer(c)
  BY <1>1 DEF Doing, UpOrder
<1>4. h[1] = g /\ (h[2] <=> Peers(g))
  BY <1>1, SpecHash
<1>5. h' = h /\ Wanted(h)' = Wanted(h)
  <2>1. h' = h
    BY DEF specHash, Peers
  <2> QED
    BY <2>1 DEF Wanted
<1>6. k # "external" =>
        (Exact(c, k, h)' <=> obj'[c][k] = IF k \in Wanted(h) THEN h ELSE None)
  BY <1>5 DEF Exact, Due
<1>a. s # "external" => (StepOf(c, k) = s => k # "external")
  BY DEF StepOf, OrdinalName
<1>7. CASE s \in {"pdb", "external", "graph", "files", "pull"}
  <2>1. s \in Companion \ Service
    BY <1>7 DEF Companion, Service, OrdinalName
  <2>2. \E on : Write(c, {s}, on) /\ (on <=> Due(c, s, h)')
    <3>1. CASE s = "pdb"
      BY <1>1, <1>4, <1>5, <2>1, <3>1, EffectOf, WantedParts
         DEF ensurePodDisruptionBudget, Own, Due
    <3>2. CASE s = "external"
      <4>1. ensureExternalIngressPolicy(c)
        BY <1>1, <3>2, EffectOf
      <4>2. Write(c, {s}, Hole(g)) /\ (c \in walled' <=> Hole(g))
        BY <3>2, <4>1 DEF ensureExternalIngressPolicy
      <4>3. s \in Wanted(h) <=> buildExternalIngressPolicy(g)
        BY <1>4, <2>1, <3>2, WantedParts
      <4>4. Due(c, s, h)' <=> Hole(g)
        BY <1>5, <3>2, <4>2, <4>3 DEF Due, Hole
      <4> QED
        BY <4>2, <4>4
    <3>3. CASE s = "graph"
      BY <1>1, <1>4, <1>5, <2>1, <3>3, EffectOf, WantedParts
         DEF ensureGraphScopedIngressPolicy, buildGraphScopedIngressPolicy, Own, Due
    <3>4. CASE s = "files"
      BY <1>1, <1>4, <1>5, <2>1, <3>4, EffectOf, WantedParts
         DEF ensureFilesSecret, buildFilesSecret, Own, Due
    <3>5. CASE s = "pull"
      BY <1>1, <1>4, <1>5, <2>1, <3>5, EffectOf, WantedParts
         DEF ensureImagePullSecret, buildImagePullSecret, Own, Due
    <3> QED
      BY <1>7, <3>1, <3>2, <3>3, <3>4, <3>5
  <2> QED
    BY <2>1, <2>2, OwnExact
<1>8. CASE s = "service"
  <2>1. ~ContainerSpec[g].stable
    BY <1>2, <1>8 DEF EnsureContainer, ensureStatefulSet
  <2>2. obj'[c][k] = IF k = "service" THEN IF g # Portless THEN h ELSE None ELSE obj[c][k]
    <3>1. Write(c, {"service"}, g # Portless)
      BY <1>1, <1>8, EffectOf DEF ensureService, Own
    <3> QED
      BY <1>1, <3>1 DEF Write, TypeOK, ObjectTypes
  <2>3. (StepOf(c, k) = s) <=> k = "service"
    BY <1>8, <2>1 DEF StepOf, OrdinalName
  <2>4. k = "service" => (k \in Wanted(h) <=> g # Portless)
    BY <1>4, WantedParts
  <2> QED
    BY <1>6, <1>a, <1>8, <2>2, <2>3, <2>4
<1>9. CASE s = "headless"
  <2>1. ContainerSpec[g].stable
    BY <1>2, <1>9 DEF EnsureContainer, ensureDeployment
  <2>2. g # Portless
    BY <2>1, Forms
  <2>3. Write(c, {"service"}, TRUE)
    BY <1>1, <1>9, EffectOf DEF ensureHeadlessService
  <2>4. obj'[c][k] = IF k \in {"service"} THEN h ELSE obj[c][k]
    BY <2>3 DEF Write, TypeOK, ObjectTypes
  <2>5. (StepOf(c, k) = s) <=> k = "service"
    BY <1>9, <2>1 DEF StepOf, OrdinalName, Companion, Service
  <2>6. k = "service" => (k \in Wanted(h) <=> g # Portless)
    BY <1>4, WantedParts
  <2> QED
    BY <1>6, <1>a, <1>9, <2>2, <2>4, <2>5, <2>6
<1>10. CASE s = "ordinals"
  <2>1. Write(c, Ordinals(g), TRUE)
    BY <1>1, <1>10, EffectOf DEF ensureOrdinalServices
  <2>2. obj'[c][k] = IF k \in Ordinals(g) THEN h ELSE obj[c][k]
    BY <2>1 DEF Write, TypeOK, ObjectTypes
  <2>3. (StepOf(c, k) = s) <=> k \in Ordinals(g)
    BY <1>10 DEF StepOf, OrdinalName, Companion, Service, Ordinals
  <2>4. k \in Ordinals(g) => k \in Wanted(h)
    BY <1>4 DEF Wanted
  <2> QED
    BY <1>6, <1>a, <1>10, <2>2, <2>3, <2>4
<1>11. CASE s = "prune"
  <2>1. Write(c, OrdinalName \ Ordinals(g), FALSE)
    BY <1>1, <1>11, EffectOf DEF pruneOrdinalServices
  <2>2. obj'[c][k] = IF k \in OrdinalName \ Ordinals(g)
                     THEN None ELSE obj[c][k]
    BY <2>1 DEF Write, TypeOK, ObjectTypes
  <2>3. (StepOf(c, k) = s) <=> k \in OrdinalName \ Ordinals(g)
    BY <1>11 DEF StepOf, OrdinalName, Companion, Service
  <2>4. k \in OrdinalName => (k \in Wanted(h) <=> k \in Ordinals(g))
    BY <1>4, WantedParts
  <2> QED
    BY <1>6, <1>a, <1>11, <2>2, <2>3, <2>4
<1>12. CASE s = "alias"
  <2>1. Write(c, Aliases(g), TRUE)
    BY <1>1, <1>12, EffectOf DEF ensureAliasServices
  <2>2. obj'[c][k] = IF k \in Aliases(g) THEN h ELSE obj[c][k]
    BY <2>1 DEF Write, TypeOK, ObjectTypes
  <2>3. (StepOf(c, k) = s) <=> k = "alias"
    BY <1>12 DEF StepOf, OrdinalName, Companion, Service
  <2>4. k = "alias" /\ k \in Looked(h) => k \in Wanted(h)
    BY DEF Looked, Unlooked
  <2>5. k = "alias" => (k \in Wanted(h) <=> k \in Aliases(g))
    BY <1>4, WantedParts
  <2>6. Aliases(g) \subseteq {"alias"}
    BY DEF Aliases
  <2> QED
    BY <1>6, <1>a, <1>12, <2>2, <2>3, <2>4, <2>5, <2>6
<1> QED
  BY <1>7, <1>8, <1>9, <1>10, <1>11, <1>12
     DEF Companions, ensureDeployment, ensureStatefulSet

(* What a look finds in order needs no step. *)
LEMMA DeletesIs ==
  /\ \A s \in {"service", "pdb", "external", "graph", "files", "pull"} : Deletes(s) = {s}
  /\ Deletes("prune") = OrdinalName /\ Deletes("headless") = Companion
  /\ Deletes("ordinals") = Companion
  BY DEF Deletes

(* A step that is not needed finds its companion as the spec asks for it. *)
LEMMA NeededUp ==
  ASSUME TypeOK, NEW c \in Ctr,
         NEW k \in Looked(specHash(want[c])), StepOf(c, k) \notin Needed(c, EnsureContainer(c))
  PROVE  Exact(c, k, specHash(want[c]))
<1> DEFINE g == want[c]
           h == specHash(g)
<1>1. g \in Gen /\ h[1] = g
  BY SpecHash DEF TypeOK, ManifestTypes
<1>3. k \in Companion /\ (k \in Unlooked(g) => k \in Wanted(h))
  BY <1>1 DEF Looked
<1>2. /\ k # "external" => (k \in Wanted(h) <=> k \in Asked(g))
      /\ k = "external" => (k \in Wanted(h) <=> buildExternalIngressPolicy(g))
  BY <1>1, <1>3, AskedWanted
<1>4. ASSUME NEW s \in EnsureContainer(c), s \notin Needed(c, EnsureContainer(c))
      PROVE  /\ s \notin Asked(g) /\ (s = "external" => ~buildExternalIngressPolicy(g))
             /\ (\A x \in Deletes(s) : obj[c][x] = None) /\ Deletes(s) # Companion
  BY <1>4 DEF Needed
<1>5. CASE k = "service"
  <2>1. ~ContainerSpec[g].stable
    <3>1. ContainerSpec[g].stable => StepOf(c, k) = "headless" /\ "headless" \in EnsureContainer(c)
      BY <1>5 DEF StepOf, EnsureContainer, ensureStatefulSet
    <3> QED
      BY <1>4, <3>1, DeletesIs
  <2>2. StepOf(c, k) = k /\ k \in EnsureContainer(c)
    BY <1>5, <2>1 DEF StepOf, EnsureContainer, ensureDeployment
  <2> QED
    BY <1>2, <1>4, <1>5, <2>2, DeletesIs DEF Exact, Due
<1>6. CASE k \in OrdinalName
  <2>1. ContainerSpec[g].stable
    <3>1. ~ContainerSpec[g].stable => k \in Unlooked(g) /\ Ordinals(g) = {}
      BY <1>6 DEF Unlooked, Ordinals
    <3> QED
      BY <1>1, <1>3, <1>6, <3>1, WantedParts
  <2>2. {"ordinals", "prune"} \subseteq EnsureContainer(c)
    BY <2>1 DEF EnsureContainer, ensureStatefulSet
  <2>3. StepOf(c, k) = IF k \in Ordinals(g) THEN "ordinals" ELSE "prune"
    BY <1>6 DEF StepOf, OrdinalName
  <2>4. k \notin Ordinals(g) /\ obj[c][k] = None
    BY <1>4, <1>6, <2>2, <2>3, DeletesIs
  <2> QED
    BY <1>1, <1>3, <1>6, <2>4, WantedParts DEF Exact, Due
<1>7. CASE k = "alias"
  <2>1. k \in Asked(g)
    BY <1>2, <1>3, <1>7 DEF Unlooked
  <2>2. StepOf(c, k) = k /\ k \in EnsureContainer(c)
    BY <1>7 DEF StepOf, OrdinalName, EnsureContainer, ensureStatefulSet, ensureDeployment
  <2> QED
    BY <1>4, <2>1, <2>2
<1>8. CASE k \in {"pdb", "external", "graph", "files", "pull"}
  <2>1. StepOf(c, k) = k /\ k \in EnsureContainer(c) /\ Deletes(k) = {k}
    BY <1>8, DeletesIs
       DEF StepOf, OrdinalName, EnsureContainer, ensureStatefulSet, ensureDeployment
  <2> QED
    BY <1>2, <1>4, <2>1 DEF Exact, Due
<1> QED
  BY <1>3, <1>5, <1>6, <1>7, <1>8 DEF Companion, Service

(* A Service that is not written can have no node port to clash with. *)
LEMMA NeededAddress ==
  ASSUME TypeOK, NEW c \in Ctr, "service" \notin Needed(c, EnsureContainer(c))
  PROVE  AddressFits(c, want[c])
<1>1. CASE ContainerSpec[want[c]].stable
  BY <1>1 DEF AddressFits
<1>2. CASE ~ContainerSpec[want[c]].stable
  <2>1. "service" \in EnsureContainer(c)
    BY <1>2 DEF EnsureContainer, ensureDeployment
  <2>2. want[c] = Portless
    BY <2>1 DEF Needed, Asked
  <2> QED
    BY <2>2, Forms DEF AddressFits
<1> QED
  BY <1>1, <1>2

(* A Service keeps the address that fits the specification. *)
LEMMA StepAddress ==
  ASSUME IInv, NEW c \in Ctr, Working(c), NEW s \in Companions, Doing(c, s), Effect(c), Able(c),
         want' = want, s # "service" => AddressFits(c, want[c])
  PROVE  AddressFits(c, want[c])'
<1>1. TypeOK /\ s \in EnsureContainer(c)
  BY DEF IInv, Worker, UpOrder, Doing
<1>2. CASE s = "service"
  <2>1. ~(headless[c] /\ ContainerSpec[want[c]].nodePort) /\ headless' = headless
    BY <1>1, <1>2, EffectOf DEF Able, ensureService, Own
  <2> QED
    BY <2>1 DEF AddressFits
<1>3. CASE s = "headless"
  BY <1>1, <1>3 DEF EnsureContainer, ensureDeployment, AddressFits
<1>4. CASE s \notin {"service", "headless"}
  <2>1. headless' = headless
    BY <1>1, <1>4, EffectOf
       DEF Companions, ensureDeployment, ensureStatefulSet, ensureOrdinalServices,
           pruneOrdinalServices, ensureAliasServices, ensurePodDisruptionBudget,
           ensureExternalIngressPolicy, ensureGraphScopedIngressPolicy, ensureFilesSecret,
           ensureImagePullSecret, Own
  <2> QED
    BY <1>4, <2>1 DEF AddressFits
<1> QED
  BY <1>2, <1>3, <1>4

(* What a worker has built is not undone by the turn of another. *)
LEMMA UpKept ==
  ASSUME NEW d \in Ctr, UpSoFar(d), Kept(d), SameMarks(d), UNCHANGED <<want, iso, cmd, lapsed>>,
         todo'[d] = todo[d], res'[d] = res[d]
  PROVE  UpSoFar(d)'
<1>1. Working(d)' = Working(d) /\ Building(d)' = Building(d) /\ Found(d)' = Found(d)
  BY DEF Working, Building, Found, Kept
<1>2. /\ specHash(want[d])' = specHash(want[d])
      /\ \A k : StepOf(d, k)' = StepOf(d, k)
      /\ \A h : Looked(h)' = Looked(h)
      /\ \A k, h : Exact(d, k, h)' = Exact(d, k, h)
      /\ \A g : AddressFits(d, g)' = AddressFits(d, g)
  <2>1. specHash(want[d])' = specHash(want[d])
    BY DEF specHash, Peers
  <2>2. \A h : Wanted(h)' = Wanted(h)
    BY DEF Wanted
  <2>3. \A k : StepOf(d, k)' = StepOf(d, k)
    BY DEF StepOf
  <2> QED
    BY <2>1, <2>2, <2>3 DEF Looked, Exact, Due, AddressFits, Kept, SameMarks
<1>3. Built(d)' = Built(d)
  BY <1>2 DEF Built
<1> QED
  BY <1>1, <1>2, <1>3 DEF UpSoFar, Kept, SameMarks

(* A companion that is left alone stays as it is. *)
LEMMA ExactKept ==
  ASSUME NEW c \in Ctr, UNCHANGED <<want, iso>>, NEW k, Exact(c, k, specHash(want[c])),
         obj'[c][k] = obj[c][k], k = "external" => (c \in walled' <=> c \in walled)
  PROVE  Exact(c, k, specHash(want[c]))'
<1>1. specHash(want[c])' = specHash(want[c])
  BY DEF specHash, Peers
<1>2. Wanted(specHash(want[c]))' = Wanted(specHash(want[c]))
  BY <1>1 DEF Wanted
<1> QED
  BY <1>1, <1>2 DEF Exact, Due

(* What it takes for the companions to be built after a step. *)
LEMMA BuiltNext ==
  ASSUME NEW c \in Ctr, UNCHANGED <<want, iso>>,
         \A k \in Looked(specHash(want[c])) :
           StepOf(c, k) \notin todo'[c] => Exact(c, k, specHash(want[c]))',
         "service" \notin todo'[c] => AddressFits(c, want[c])'
  PROVE  Built(c)'
<1>1. specHash(want[c])' = specHash(want[c])
  BY DEF specHash, Peers
<1>2. Looked(specHash(want[c]))' = Looked(specHash(want[c]))
  BY <1>1 DEF Looked, Wanted
<1>3. \A k : StepOf(c, k)' = StepOf(c, k)
  BY DEF StepOf
<1> QED
  BY <1>2, <1>3 DEF Built

(* What an apply has ensured stays ensured, whichever way the turn goes. *)
LEMMA TurnUpSoFar ==
  ASSUME IInv, NEW c \in Ctr, Turn(c), NEW d \in Ctr
  PROVE  UpSoFar(d)'
<1> DEFINE g == want[c]
           h == specHash(g)
<1>1. TypeOK /\ UpSoFar(d) /\ UpOrder(c) /\ Existing(c)
  BY DEF IInv, Worker, Progress
<1>2. /\ Running(c) /\ UNCHANGED <<want, iso, cmd, lapsed>>
      /\ \A e \in Ctr \ {c} : todo'[e] = todo[e] /\ res'[e] = res[e] /\ Kept(e) /\ SameMarks(e)
  BY <1>1, TurnFrame
<1>3. CASE d # c
  BY <1>1, <1>2, <1>3, UpKept
<1>4. SUFFICES ASSUME d = c, Working(c)', ~lapsed'
               PROVE  UpSoFar(c)'
  BY <1>3 DEF UpSoFar
<1>5. Step(c) /\ Effect(c) /\ Able(c) /\ todo'[c] = After(c) /\ Working(c) /\ ~lapsed
      /\ todo[c] \subseteq UpSteps
  BY <1>2, <1>4, StillWorking
<1>6. PICK s : Doing(c, s)
  BY <1>5, EffectDoing
<1>7. s \in UpSteps /\ s \in todo[c] /\ g \in Gen
  BY <1>1, <1>5, <1>6 DEF Doing, TypeOK, ManifestTypes
<1>8. HasVolume(g) /\ "EnsureVolume" \notin todo'[c] => vol'[c] >= ContainerSpec[g].size
  <2>1. CASE Doing(c, "EnsureVolume")
    <3>1. vol'[c] = ContainerSpec[g].size /\ ContainerSpec[g].size \in 0 .. 2
      BY <1>1, <1>5, <1>7, <2>1, EffectOf, Forms DEF EnsureVolume, TypeOK, ObjectTypes, FormOK
    <3> QED
      BY <3>1
  <2>2. CASE ~Doing(c, "EnsureVolume")
    <3>1. ~RemoveVolume(c) /\ ~Dropping(c) /\ ~EnsureVolume(c)
      BY <1>5, <2>2 DEF RemoveVolume, EnsureVolume, Dropping, Drop, Drops, Doing, UpSteps
    <3>2. vol' = vol
      BY <1>5, <3>1, EffectKinds
         DEF Shared, namespace, denyAll, sameNamespace, crossDomain, deleteNamespace, find, Looks,
             Writing, Write, writeWorkload, deleteWorkload, cluster
    <3>3. "EnsureVolume" \notin todo'[c] => "EnsureVolume" \notin todo[c]
      BY <1>5, <2>2, AfterKeeps
    <3> QED
      BY <1>1, <1>4, <1>5, <3>2, <3>3 DEF UpSoFar
  <2> QED
    BY <2>1, <2>2
<1>9. s \notin {"look", "find"} => todo'[c] = todo[c] \ {s}
  BY <1>1, <1>5, <1>6, AfterIs
<1>10. s # "find"
  BY <1>7 DEF UpSteps
<1>11. ASSUME Building(c)'
       PROVE  Built(c)'
  <2>1. CASE s = "look"
    <3>1. todo[c] \cap Writes = {}
      BY <1>1, <1>5, <1>7, <2>1 DEF UpOrder, Building, First
    <3>2. todo'[c] = (todo[c] \ {"look"}) \cup Needed(c, EnsureContainer(c))
                       \cup {IF Found(c) THEN "update" ELSE "create"}
      BY <1>1, <1>5, <1>6, <1>11, <2>1, <3>1, AfterLook DEF Building
    <3>3. UNCHANGED <<obj, headless, walled>>
      BY <1>1, <1>5, <1>6, <2>1, EffectOf DEF Looks, cluster, ghosts
    <3>5. ASSUME NEW k \in Looked(h), StepOf(c, k) \notin todo'[c]
          PROVE  Exact(c, k, h)'
      BY <1>1, <1>2, <3>2, <3>3, <3>5, NeededUp, ExactKept
    <3>6. ASSUME "service" \notin todo'[c]
          PROVE  AddressFits(c, g)'
      <4>1. AddressFits(c, g)
        BY <1>1, <3>2, <3>6, NeededAddress
      <4> QED
        BY <1>2, <3>3, <4>1 DEF AddressFits
    <3> QED
      BY <1>2, <3>5, <3>6, BuiltNext
  <2>2. CASE s # "look"
    <3>1. Building(c) /\ Built(c) /\ todo[c] \cap First = {}
      BY <1>1, <1>4, <1>5, <1>9, <1>10, <1>11, <2>2 DEF Building, UpSoFar, UpOrder
    <3>2. CASE s \in Companions
      <4>1. ASSUME NEW k \in Looked(h), StepOf(c, k) \notin todo'[c]
            PROVE  Exact(c, k, h)'
        <5>1. k \in Companion
          BY DEF Looked
        <5>2. CASE StepOf(c, k) = s
          BY <1>2, <1>5, <1>6, <3>2, <4>1, <5>1, <5>2, CompanionStep
        <5>3. CASE StepOf(c, k) # s
          <6>1. Exact(c, k, h)
            BY <1>9, <1>10, <2>2, <3>1, <4>1, <5>3 DEF Built
          <6>2. obj'[c][k] = obj[c][k]
            BY <1>2, <1>5, <1>6, <3>2, <5>1, <5>3, CompanionStep
          <6>3. k = "external" => walled' = walled
            <7>1. k = "external" => s # "external"
              BY <5>3 DEF StepOf, OrdinalName
            <7> QED
              BY <1>1, <1>5, <1>6, <3>2, <7>1, EffectOf
                 DEF Companions, ensureDeployment, ensureStatefulSet, ensureService,
                     ensureHeadlessService, ensureOrdinalServices, pruneOrdinalServices,
                     ensureAliasServices, ensurePodDisruptionBudget,
                     ensureGraphScopedIngressPolicy, ensureFilesSecret, ensureImagePullSecret, Own
          <6> QED
            BY <1>2, <6>1, <6>2, <6>3, ExactKept
        <5> QED
          BY <5>2, <5>3
      <4>2. ASSUME "service" \notin todo'[c]
            PROVE  AddressFits(c, g)'
        <5>1. s # "service" => AddressFits(c, g)
          BY <1>9, <1>10, <2>2, <3>1, <4>2 DEF Built
        <5> QED
          BY <1>2, <1>5, <1>6, <3>2, <5>1, StepAddress
      <4> QED
        BY <1>2, <4>1, <4>2, BuiltNext
    <3>3. CASE s \notin Companions
      <4>1. s \in Writes \cup {"WaitHealthy"}
        BY <1>7, <2>2, <3>1, <3>3
           DEF UpSteps, First, Policies, Companions, ensureDeployment, ensureStatefulSet, Writes
      <4>2. UNCHANGED <<obj, headless, walled>>
        BY <1>1, <1>5, <1>6, <4>1, EffectOf DEF Looks, cluster, ghosts, writeWorkload
      <4>3. ASSUME NEW k \in Looked(h), StepOf(c, k) \notin todo'[c]
            PROVE  Exact(c, k, h)'
        <5>1. StepOf(c, k) \in Companions
          BY StepOfIn DEF Looked
        <5>2. Exact(c, k, h)
          BY <1>9, <1>10, <2>2, <3>1, <3>3, <4>3, <5>1 DEF Built
        <5> QED
          BY <1>2, <4>2, <5>2, ExactKept
      <4>4. ASSUME "service" \notin todo'[c]
            PROVE  AddressFits(c, g)'
        <5>1. AddressFits(c, g)
          BY <1>9, <1>10, <2>2, <3>1, <3>3, <4>4 DEF Built, Companions, ensureDeployment
        <5> QED
          BY <1>2, <4>2, <5>1 DEF AddressFits
      <4> QED
        BY <1>2, <4>3, <4>4, BuiltNext
    <3> QED
      BY <3>2, <3>3
  <2> QED
    BY <2>1, <2>2
<1>12. ASSUME "look" \notin todo'[c], ~Building(c)', c \notin stale'
       PROVE  Found(c)' /\ wl'[c].hash = h
  <2>1. CASE s = "look"
    <3>1. wl[c].hash = h
      BY <1>1, <1>5, <1>6, <1>12, <2>1, AfterLook DEF Building, Writes
    <3>2. wl' = wl
      BY <1>1, <1>5, <1>6, <2>1, EffectOf DEF Looks, cluster
    <3>3. h # None
      BY <1>7, SpecHash
    <3>4. Found(c)
      BY <1>1, <3>1, <3>3 DEF Existing, NoWorkload
    <3> QED
      BY <3>1, <3>2, <3>4 DEF Found
  <2>2. CASE s \in Writes
    <3>1. writeWorkload(c)
      BY <1>1, <1>5, <1>6, <2>2, EffectOf
    <3>2. wl'[c] = [shape |-> IF ContainerSpec[g].stable THEN "statefulset" ELSE "deployment",
                    hash |-> h, dying |-> wl[c].dying]
      BY <1>1, <1>7, <3>1, WrittenIs DEF writeWorkload, TypeOK, ObjectTypes
    <3> QED
      BY <3>2 DEF Found
  <2>3. CASE s \notin Writes \cup {"look"}
    <3>1. ~writeWorkload(c) /\ ~deleteWorkload(c)
      BY <1>1, <1>5, <1>6, <2>3, DoingOne
         DEF writeWorkload, Writes, deleteWorkload, Doing, UpSteps
    <3>2. wl' = wl /\ stale \subseteq stale'
      BY <1>5, <3>1, EffectKinds, EffectMarks
         DEF Shared, namespace, denyAll, sameNamespace, crossDomain, deleteNamespace, find, Looks,
             EnsureVolume, RemoveVolume, Writing, Write, Dropping, Drop, cluster
    <3>3. "look" \notin todo[c] /\ ~Building(c)
      BY <1>9, <1>10, <1>12, <2>3 DEF Building
    <3> QED
      BY <1>1, <1>4, <1>5, <1>12, <3>2, <3>3 DEF UpSoFar, Found
  <2> QED
    BY <2>1, <2>2, <2>3
<1>13. (g = want'[c]) /\ (h = specHash(want[c])')
  BY <1>2 DEF specHash, Peers
<1> QED
  BY <1>8, <1>11, <1>12, <1>13 DEF UpSoFar
-----------------------------------------------------------------------------
(* A removal only takes away. *)
LEMMA DownEffect ==
  ASSUME IInv, NEW c \in Ctr, Effect(c), cmd = "down"
  PROVE  /\ \A k \in Companion : obj'[c][k] \in {obj[c][k], None}
         /\ vol'[c] \in {vol[c], 0}
         /\ ~find(c) => astray' = astray
<1>1. TypeOK /\ CommandSteps(c) /\ todo[c] \cap UpSteps = {}
  BY DEF IInv, Worker, CommandSteps, UpSteps, DownSteps
<1>2. CASE Shared(c)
  BY <1>2 DEF Shared, namespace, denyAll, sameNamespace, crossDomain, deleteNamespace, find, Looks,
              cluster, ghosts
<1>3. ~EnsureVolume(c) /\ ~writeWorkload(c)
  BY <1>1 DEF EnsureVolume, writeWorkload, Doing, UpSteps
<1>4. CASE RemoveVolume(c) \/ deleteWorkload(c)
  BY <1>1, <1>4 DEF RemoveVolume, deleteWorkload, ghosts, TypeOK, ObjectTypes
<1>5. CASE Dropping(c)
  BY <1>1, <1>5 DEF Dropping, Drop, ghosts, TypeOK, ObjectTypes
<1>6. CASE Writing(c) /\ ~Shared(c) /\ ~RemoveVolume(c) /\ ~deleteWorkload(c) /\ ~Dropping(c)
  <2>1. PICK s : Doing(c, s)
    BY EffectDoing
  <2>2. s \in DownSteps
    BY <1>1, <2>1 DEF Doing, TypeOK, WorkerTypes
  <2>3. \/ find(c) \/ Looks(c) \/ deleteWorkload(c) \/ RemoveVolume(c) \/ deleteNamespace(c)
        \/ dropServices(c) \/ dropFiles(c) \/ dropExternal(c) \/ dropGraph(c) \/ dropBudget(c)
    BY <1>1, <2>1, <2>2, EffectOf DEF DownSteps
  <2> QED
    BY <1>6, <2>3, DropKinds DEF Shared
<1> QED
  BY <1>2, <1>3, <1>4, <1>5, <1>6, EffectKinds

(* What has been removed stays removed, whichever way the turn goes. *)
LEMMA TurnDownSoFar ==
  ASSUME IInv, NEW c \in Ctr, Turn(c), NEW d \in Ctr
  PROVE  DownSoFar(d)'
<1>1. TypeOK /\ DownSoFar(d) /\ CommandSteps(c)
  BY DEF IInv, Worker, Progress
<1>2. /\ Running(c) /\ UNCHANGED <<want, iso, cmd, lapsed>>
      /\ Effect(c) \/ UNCHANGED <<cluster, ghosts>>
      /\ \A e \in Ctr \ {c} : todo'[e] = todo[e] /\ res'[e] = res[e] /\ Kept(e) /\ SameMarks(e)
  BY <1>1, TurnFrame
<1>3. CASE d # c
  <2>1. Found(d)' = Found(d)
    BY <1>2, <1>3 DEF Found, Kept
  <2> QED
    BY <1>1, <1>2, <1>3, <2>1 DEF DownSoFar, Removed, Kept, SameMarks
<1>4. SUFFICES ASSUME d = c, cmd' = "down", res'[c] \in {"running", "ok"}
               PROVE  DownSoFar(c)'
  BY <1>3 DEF DownSoFar
<1>5. cmd = "down" /\ res[c] = "running" /\ todo[c] \subseteq DownSteps /\ todo[c] # {}
  BY <1>1, <1>2, <1>4 DEF Running, CommandSteps
<1>6. /\ \A k \in Companion : obj'[c][k] \in {obj[c][k], None}
      /\ vol'[c] \in {vol[c], 0}
      /\ (~find(c) \/ ~Effect(c)) => astray' = astray
      /\ Found(c)' => Found(c)
  <2>1. CASE Effect(c)
    BY <1>5, <2>1, DownEffect, NoneNew
  <2>2. CASE ~Effect(c)
    BY <1>2, <2>2 DEF cluster, ghosts, Found
  <2> QED
    BY <2>1, <2>2
<1>7. Service \cup {"files", "external", "graph"} \subseteq Companion
  BY DEF Companion
<1>8. CASE Step(c)
  <2>1. PICK s : Doing(c, s)
    BY <1>8, EffectDoing DEF Step
  <2>2. /\ Effect(c) /\ Able(c) /\ todo'[c] = After(c)
        /\ s \in todo[c] /\ s \in DownSteps /\ s # "look"
    BY <1>1, <1>5, <1>8, <2>1 DEF Step, Doing, TypeOK, WorkerTypes, DownSteps
  <2>3. "RemoveVolume" \notin todo'[c] => vol'[c] = 0
    <3>1. CASE s = "RemoveVolume"
      BY <1>1, <2>1, <2>2, <3>1, EffectOf DEF RemoveVolume, TypeOK, ObjectTypes
    <3>2. CASE s # "RemoveVolume"
      BY <1>1, <1>4, <1>5, <1>6, <2>1, <2>2, <3>2, AfterKeeps, DoingOne DEF DownSoFar
    <3> QED
      BY <3>1, <3>2
  <2>4. ASSUME "find" \notin todo'[c], c \notin astray'
        PROVE  Removed(c)'
    <3>1. CASE s = "find"
      <4>1. Found(c)
        BY <1>1, <2>1, <2>2, <2>4, <3>1, EffectOf DEF find
      <4>2. PICK steps \in {removeDeployment, removeStatefulSet} :
              todo'[c] = (todo[c] \ {"find"}) \cup Needed(c, steps)
        BY <1>1, <2>1, <2>2, <3>1, <4>1, AfterFind
      <4>3. /\ {"delete", "services", "waitObjectGone"} \subseteq todo'[c]
            /\ "noFiles" \notin todo'[c] => obj[c]["files"] = None
            /\ "noExternal" \notin todo'[c] => obj[c]["external"] = None
            /\ "noGraph" \notin todo'[c] => obj[c]["graph"] = None
        BY <4>2, NeededDown
      <4> QED
        BY <1>6, <1>7, <4>3 DEF Removed
    <3>2. CASE s # "find"
      <4>1. ~find(c)
        BY <1>1, <2>1, <3>2, DoingOne DEF find
      <4>2. \A t \in todo[c] \ todo'[c] : t = s
        BY <1>1, <2>1, <2>2, AfterKeeps, DoingOne
      <4>3. Removed(c)
        BY <1>1, <1>4, <1>5, <1>6, <2>4, <3>2, <4>1, <4>2 DEF DownSoFar
      <4>4. s = "waitObjectGone" => ~Found(c)'
        BY <1>6, <2>1, <2>2 DEF Able
      <4>5. /\ s = "services" => \A k \in Service : obj'[c][k] = None
            /\ s = "noFiles" => obj'[c]["files"] = None
            /\ s = "noExternal" => obj'[c]["external"] = None
            /\ s = "noGraph" => obj'[c]["graph"] = None
        BY <1>1, <1>7, <2>1, <2>2, EffectOf
           DEF dropServices, dropFiles, dropExternal, dropGraph, Drop, TypeOK, ObjectTypes
      <4> QED
        BY <1>6, <1>7, <4>2, <4>3, <4>4, <4>5 DEF Removed
    <3> QED
      BY <3>1, <3>2
  <2> QED
    BY <2>3, <2>4 DEF DownSoFar
<1>9. CASE Ends(c) /\ ~Step(c)
  <2>1. PICK s \in RemoveNetwork : Doing(c, s)
    BY <1>1, <1>4, <1>5, <1>9 DEF Ends, TypeOK, WorkerTypes
  <2>2. todo[c] \cap (DownSteps \ RemoveNetwork) = {}
    BY <1>1, <2>1, NetworkLast
  <2>3. \A t \in DownSteps \ RemoveNetwork : t \notin todo[c]
    BY <2>2
  <2>4. vol[c] = 0 /\ (c \notin astray => Removed(c))
    BY <1>1, <1>4, <1>5, <2>3 DEF DownSoFar, DownSteps, RemoveNetwork
  <2>5. ~find(c)
    BY <2>3 DEF find, Doing, DownSteps, RemoveNetwork
  <2>6. Removed(c) => Removed(c)'
    BY <1>6, <1>7, <2>3 DEF Removed, DownSteps, RemoveNetwork
  <2> QED
    BY <1>6, <2>4, <2>5, <2>6 DEF DownSoFar
<1> QED
  BY <1>8, <1>9 DEF Turn, Stuck, Fails
-----------------------------------------------------------------------------
(* Every worker's turn keeps the invariant. *)
LEMMA TurnKeeps ==
  ASSUME IInv, NEW c \in Ctr, Turn(c)
  PROVE  IInv'
<1>1. TypeOK
  BY DEF IInv
<1>2. UNCHANGED <<want, iso>> /\ (Effect(c) \/ UNCHANGED <<cluster, ghosts>>)
  BY <1>1, TurnFrame
<1>3. TypeOK' /\ \A d \in Ctr : CommandSteps(d)'
  BY TurnTypes
<1>4. Walls' /\ \A d \in Ctr : ClosedSoFar(d)'
  BY TurnClosed
<1>5. ASSUME NEW d \in Ctr
      PROVE  Existing(d)' /\ Vouches(d)'
  <2>1. CASE Effect(c)
    BY <1>2, <2>1, EffectExisting, EffectVouches
  <2>2. CASE UNCHANGED <<cluster, ghosts>>
    <3>1. Existing(d) /\ Vouches(d)
      BY <1>2 DEF IInv
    <3>2. UNCHANGED <<wl, obj, headless, vol, stale, walled>>
      BY <2>2 DEF cluster, ghosts
    <3>3. Vouches(d)'
      BY <3>1, <3>2, VouchKept
    <3>4. Existing(d)'
      BY <1>2, <3>1, <3>2 DEF Existing, Found
    <3> QED
      BY <3>3, <3>4
  <2> QED
    BY <1>2, <2>1, <2>2
<1>6. ASSUME NEW d \in Ctr
      PROVE  Worker(d)' /\ Progress(d)'
  BY <1>3, <1>4, TurnUpOrder, TurnDropsLast, TurnListed, TurnUpSoFar, TurnDownSoFar
     DEF Worker, Progress
<1> QED
  BY <1>3, <1>4, <1>5, <1>6 DEF IInv

(* Between two commands nothing is claimed of the workers. *)
LEMMA IdleWorkers ==
  ASSUME cmd' = "idle", NEW d \in Ctr, todo'[d] = {}
  PROVE  Worker(d)' /\ Progress(d)'
  BY DEF Worker, Progress, CommandSteps, UpOrder, DropsLast, Listed, UpSoFar, ClosedSoFar,
         DownSoFar, Working

(* What the cluster holds is not disturbed by what leaves it alone. *)
LEMMA ClusterKept ==
  ASSUME IInv, UNCHANGED <<want, iso, cluster, stale, walled>>
  PROVE  Walls' /\ \A d \in Ctr : Existing(d)' /\ Vouches(d)'
<1>1. UNCHANGED <<wall, wl, obj, headless, vol, stale, walled>>
  BY DEF cluster
<1>2. Walls'
  BY <1>1 DEF Walls, IInv
<1>3. ASSUME NEW d \in Ctr
      PROVE  Existing(d)' /\ Vouches(d)'
  <2>1. Existing(d) /\ Vouches(d)
    BY DEF IInv
  <2>2. Vouches(d)'
    BY <1>1, <2>1, VouchKept
  <2>3. Existing(d)'
    BY <1>1, <2>1 DEF Existing, Found
  <2> QED
    BY <2>2, <2>3
<1> QED
  BY <1>2, <1>3

(* A command starts with all its steps before it. *)
LEMMA StartKeeps ==
  ASSUME IInv, StartUp \/ StartDown
  PROVE  IInv'
<1>1. UNCHANGED <<want, iso, cluster, ghosts, lapsed, events>> /\ TypeOK
  BY DEF StartUp, StartDown, Start, manifests, IInv
<1>2. Walls' /\ \A d \in Ctr : Existing(d)' /\ Vouches(d)'
  BY <1>1, ClusterKept DEF ghosts
<1>3. ASSUME NEW c \in Ctr
      PROVE  /\ Up(c) \subseteq UpSteps /\ Up(c) \cap (Companions \cup Writes \cup Drops) = {}
             /\ "look" \in Up(c) /\ (HasVolume(want[c]) => "EnsureVolume" \in Up(c))
             /\ iso # "none" => Policies \subseteq Up(c)
             /\ iso = "none" => Up(c) \cap Policies = {}
             /\ "deleteNamespace" \notin Up(c)
  BY DEF Up, UpSteps, EnsureNetwork, Companions, ensureDeployment, ensureStatefulSet, Writes,
         Drops, Policies
<1>4. ASSUME NEW c \in Ctr
      PROVE  /\ Down(c) \subseteq DownSteps /\ Down(c) \cap (Policies \cup Drops) = {}
             /\ "find" \in Down(c) /\ "listWorkloads" \in Down(c)
             /\ want[c] # Portless => "RemoveVolume" \in Down(c)
  BY DEF Down, DownSteps, RemoveNetwork, Drops, Policies
<1>5. CASE StartUp
  <2>1. PICK cs \in Targets :
          /\ cmd' = "up" /\ todo' = [c \in Ctr |-> IF c \in cs THEN Up(c) ELSE {}]
          /\ res' = [c \in Ctr |-> IF c \in cs THEN "running" ELSE "none"]
    BY <1>5 DEF StartUp, Start
  <2>2. TypeOK'
    BY <1>1, <1>3, <2>1
       DEF TypeOK, ManifestTypes, PolicyTypes, ObjectTypes, WorkerTypes, GhostTypes, cluster, ghosts
  <2>3. ASSUME NEW d \in Ctr
        PROVE  Worker(d)' /\ Progress(d)'
    <3>1. CASE d \in cs
      <4>1. todo'[d] = Up(d) /\ cmd' = "up" /\ res'[d] = "running"
        BY <2>1, <3>1
      <4>2. CommandSteps(d)' /\ DropsLast(d)' /\ Listed(d)'
        BY <1>1, <1>3, <4>1 DEF CommandSteps, DropsLast, Listed
      <4>3. ~Building(d)' /\ todo'[d] \cap Companions = {}
        BY <1>3, <4>1 DEF Building
      <4>4. UpOrder(d)'
        BY <4>3 DEF UpOrder
      <4>5. UpSoFar(d)' /\ ClosedSoFar(d)' /\ DownSoFar(d)'
        BY <1>1, <1>3, <4>1, <4>3 DEF UpSoFar, ClosedSoFar, DownSoFar, Policies
      <4> QED
        BY <4>2, <4>4, <4>5 DEF Worker, Progress
    <3>2. CASE d \notin cs
      <4>1. todo'[d] = {} /\ cmd' = "up" /\ res'[d] = "none"
        BY <2>1, <3>2
      <4> QED
        BY <4>1 DEF Worker, Progress, CommandSteps, UpOrder, DropsLast, Listed, UpSoFar,
                    ClosedSoFar, DownSoFar, Working
    <3> QED
      BY <3>1, <3>2
  <2> QED
    BY <1>2, <2>2, <2>3 DEF IInv
<1>6. CASE StartDown
  <2>1. PICK cs \in Targets :
          /\ cmd' = "down" /\ todo' = [c \in Ctr |-> IF c \in cs THEN Down(c) ELSE {}]
          /\ res' = [c \in Ctr |-> IF c \in cs THEN "running" ELSE "none"]
    BY <1>6 DEF StartDown, Start
  <2>2. TypeOK'
    BY <1>1, <1>4, <2>1
       DEF TypeOK, ManifestTypes, PolicyTypes, ObjectTypes, WorkerTypes, GhostTypes, cluster, ghosts
  <2>3. ASSUME NEW d \in Ctr
        PROVE  Worker(d)' /\ Progress(d)'
    <3>1. CASE d \in cs
      <4>1. todo'[d] = Down(d) /\ cmd' = "down" /\ res'[d] = "running"
        BY <2>1, <3>1
      <4>2. CommandSteps(d)' /\ DropsLast(d)' /\ Listed(d)'
        BY <1>1, <1>4, <4>1 DEF CommandSteps, DropsLast, Listed
      <4>3. UpOrder(d)' /\ UpSoFar(d)' /\ ClosedSoFar(d)'
        BY <4>1 DEF UpOrder, UpSoFar, ClosedSoFar, Working
      <4>4. DownSoFar(d)'
        BY <1>1, <1>4, <4>1 DEF DownSoFar, IInv, Existing, cluster
      <4> QED
        BY <4>2, <4>3, <4>4 DEF Worker, Progress
    <3>2. CASE d \notin cs
      <4>1. todo'[d] = {} /\ cmd' = "down" /\ res'[d] = "none"
        BY <2>1, <3>2
      <4> QED
        BY <4>1 DEF Worker, Progress, CommandSteps, UpOrder, DropsLast, Listed, UpSoFar,
                    ClosedSoFar, DownSoFar, Working
    <3> QED
      BY <3>1, <3>2
  <2> QED
    BY <1>2, <2>2, <2>3 DEF IInv
<1> QED
  BY <1>5, <1>6

(* The end of a command, and a crash, leave the cluster as it is. *)
LEMMA IdleKeeps ==
  ASSUME IInv, Crash \/ Finish
  PROVE  IInv'
<1>1. /\ UNCHANGED <<want, iso, cluster, stale, walled>> /\ TypeOK
      /\ cmd' = "idle" /\ todo' = [c \in Ctr |-> {}] /\ res' = [c \in Ctr |-> "none"]
      /\ lapsed' = FALSE /\ astray' = {} /\ events' \in Nat
  BY DEF Crash, Finish, Idle, Event, manifests, IInv, TypeOK, GhostTypes
<1>2. Walls' /\ \A d \in Ctr : Existing(d)' /\ Vouches(d)'
  BY <1>1, ClusterKept
<1>3. TypeOK'
  BY <1>1 DEF TypeOK, ManifestTypes, PolicyTypes, ObjectTypes, WorkerTypes, GhostTypes, cluster,
              ghosts
<1>4. \A d \in Ctr : Worker(d)' /\ Progress(d)'
  BY <1>1, IdleWorkers
<1> QED
  BY <1>2, <1>3, <1>4 DEF IInv

(* The manifests change while nothing runs. *)
LEMMA EditKeeps ==
  ASSUME IInv, Edit
  PROVE  IInv'
<1>1. /\ UNCHANGED <<cluster, cmd, todo, res, ghosts, lapsed>> /\ TypeOK
      /\ cmd = "idle" /\ events' \in Nat
  BY DEF Edit, Event, IInv, TypeOK, GhostTypes
<1>2. UNCHANGED <<ns, wall, same, cross, wl, obj, headless, vol, stale, walled, astray>>
  BY <1>1 DEF cluster, ghosts
<1>3. ManifestTypes'
  BY <1>1, KubernetesAssumption DEF Edit, TypeOK, ManifestTypes, Gens
<1>4. \A c \in Ctr : want'[c] = Portless => want[c] = Portless
  BY <1>1, KubernetesAssumption DEF Edit, TypeOK, ManifestTypes, Gens
<1>5. TypeOK'
  BY <1>1, <1>2, <1>3 DEF TypeOK, PolicyTypes, ObjectTypes, WorkerTypes, GhostTypes
<1>6. Walls'
  BY <1>2, <1>3 DEF Walls, IInv
<1>7. ASSUME NEW d \in Ctr
      PROVE  Existing(d)' /\ Vouches(d)'
  <2>1. Existing(d) /\ Vouches(d)
    BY DEF IInv
  <2>2. Vouches(d)'
    BY <1>2, <1>3, <2>1, VouchKept
  <2>3. Existing(d)'
    BY <1>2, <1>4, <2>1 DEF Existing, Found
  <2> QED
    BY <2>2, <2>3
<1>8. \A d \in Ctr : Worker(d)' /\ Progress(d)'
  BY <1>1, IdleWorkers DEF IInv, Worker, CommandSteps
<1> QED
  BY <1>5, <1>6, <1>7, <1>8 DEF IInv

(* A workload goes, by the garbage collector's hand or another's: nobody     *)
(* relied on it.                                                             *)
LEMMA GoneKeeps ==
  ASSUME IInv, NEW c \in Ctr, wl' = [wl EXCEPT ![c] = NoWorkload], c \in stale',
         stale' \subseteq Ctr, stale \subseteq stale', events' \in Nat,
         UNCHANGED <<want, iso, ns, wall, same, cross, obj, headless, vol, cmd, todo, res, walled,
                     astray, lapsed>>
  PROVE  IInv'
<1>1. TypeOK
  BY DEF IInv
<1>2. NoWorkload \in [shape : Shape, hash : Hash, dying : BOOLEAN]
  BY DEF NoWorkload, None, Shape, Hash
<1>3. TypeOK'
  BY <1>1, <1>2
     DEF TypeOK, ManifestTypes, PolicyTypes, ObjectTypes, WorkerTypes, GhostTypes
<1>4. wl'[c] = NoWorkload /\ \A d \in Ctr \ {c} : wl'[d] = wl[d]
  BY <1>1 DEF TypeOK, ObjectTypes
<1>5. ~Found(c)' /\ \A d \in Ctr : Found(d)' => Found(d)
  BY <1>4 DEF Found, NoWorkload
<1>6. Walls'
  BY DEF Walls, IInv
<1>7. ASSUME NEW d \in Ctr
      PROVE  Existing(d)' /\ Vouches(d)'
  <2>1. Existing(d) /\ Vouches(d)
    BY DEF IInv
  <2>2. CASE d = c
    BY <1>4, <1>5, <2>1, <2>2 DEF Existing, Vouches, NoWorkload
  <2>3. CASE d # c
    <3>1. Vouches(d)'
      BY <1>4, <2>1, <2>3, VouchKept
    <3>2. Existing(d)'
      BY <1>4, <2>1, <2>3 DEF Existing, Found
    <3> QED
      BY <3>1, <3>2
  <2> QED
    BY <2>2, <2>3
<1>8. ASSUME NEW d \in Ctr
      PROVE  Worker(d)' /\ Progress(d)'
  <2>1. Worker(d) /\ Progress(d)
    BY DEF IInv
  <2>2. CommandSteps(d)' /\ UpOrder(d)' /\ DropsLast(d)'
    BY <2>1 DEF Worker, CommandSteps, UpOrder, DropsLast, Working, Building, EnsureContainer
  <2>3. InUse' => InUse
    BY <1>5 DEF InUse
  <2>4. Listed(d)'
    BY <2>1, <2>3 DEF Worker, Listed
  <2>5. ClosedSoFar(d)' /\ DownSoFar(d)'
    BY <1>5, <2>1 DEF Progress, ClosedSoFar, DownSoFar, Removed, Working, Allowed
  <2>6. UpSoFar(d)'
    <3>1. Built(d)' = Built(d)
      <4>1. \A x : Wanted(x)' = Wanted(x)
        BY DEF Wanted
      <4>2. specHash(want[d])' = specHash(want[d])
        BY DEF specHash, Peers
      <4>3. \A k : StepOf(d, k)' = StepOf(d, k)
        BY DEF StepOf
      <4>4. \A x : Looked(x)' = Looked(x)
        BY <4>1 DEF Looked
      <4>5. \A k, x : Exact(d, k, x)' = Exact(d, k, x)
        BY <4>1 DEF Exact, Due
      <4>6. \A g : AddressFits(d, g)' = AddressFits(d, g)
        BY DEF AddressFits
      <4> QED
        BY <4>2, <4>3, <4>4, <4>5, <4>6 DEF Built
    <3>2. Building(d)' = Building(d) /\ Working(d)' = Working(d)
          /\ specHash(want[d])' = specHash(want[d])
      BY DEF Building, Working, specHash, Peers
    <3>3. d \notin stale' => d \notin stale /\ wl'[d] = wl[d]
      BY <1>4
    <3> QED
      BY <2>1, <3>1, <3>2, <3>3 DEF Progress, UpSoFar, Found
  <2> QED
    BY <2>2, <2>4, <2>5, <2>6 DEF Worker, Progress
<1> QED
  BY <1>3, <1>6, <1>7, <1>8 DEF IInv

(* The garbage collector takes a workload that was being deleted. *)
LEMMA VanishKeeps ==
  ASSUME IInv, NEW c \in Ctr, Vanish(c)
  PROVE  IInv'
<1>1. c \in stale
  BY DEF Vanish, IInv, Existing
<1>2. wl' = [wl EXCEPT ![c] = NoWorkload]
  BY DEF Vanish
<1>3. /\ UNCHANGED <<want, iso, ns, wall, same, cross, obj, headless, vol, cmd, todo, res,
                     walled, astray, lapsed>>
      /\ stale' = stale /\ events' = events
  BY DEF Vanish, manifests, ghosts
<1>4. stale \subseteq Ctr /\ events \in Nat
  BY DEF IInv, TypeOK, GhostTypes
<1> QED
  BY <1>1, <1>2, <1>3, <1>4, GoneKeeps

(* Someone deletes a workload, or a companion between two commands. *)
LEMMA MeddleKeeps ==
  ASSUME IInv, Meddle
  PROVE  IInv'
<1>1. /\ UNCHANGED <<want, iso, ns, wall, same, cross, headless, vol, cmd, todo, res, walled,
                     astray, lapsed>>
      /\ stale' = stale \cup {Subject} /\ events' \in Nat
  BY DEF Meddle, Event, manifests, IInv, TypeOK, GhostTypes
<1>2. TypeOK /\ Subject \in Ctr
  BY KubernetesAssumption DEF IInv
<1>3. stale' \subseteq Ctr /\ stale \subseteq stale' /\ Subject \in stale'
  BY <1>1, <1>2 DEF TypeOK, GhostTypes
<1>4. CASE wl' = [wl EXCEPT ![Subject] = NoWorkload] /\ UNCHANGED obj
  BY <1>1, <1>2, <1>3, <1>4, GoneKeeps
<1>5. CASE cmd = "idle" /\ UNCHANGED wl
           /\ \E k \in Companion : obj' = [obj EXCEPT ![Subject][k] = None]
  <2>1. /\ obj' \in [Ctr -> [Companion -> Hash]]
        /\ \A d \in Ctr \ {Subject} : obj'[d] = obj[d]
    <3>1. PICK k \in Companion : obj' = [obj EXCEPT ![Subject][k] = None]
      BY <1>5
    <3>2. None \in Hash
      BY DEF None, Hash
    <3>3. obj \in [Ctr -> [Companion -> Hash]]
      BY <1>2 DEF TypeOK, ObjectTypes
    <3> HIDE DEF Hash, None
    <3> QED
      BY <1>2, <3>1, <3>2, <3>3
  <2>2. TypeOK'
    BY <1>1, <1>2, <1>3, <1>5, <2>1
       DEF TypeOK, ManifestTypes, PolicyTypes, ObjectTypes, WorkerTypes, GhostTypes
  <2>3. Walls'
    BY <1>1 DEF Walls, IInv
  <2>4. ASSUME NEW d \in Ctr
        PROVE  Existing(d)' /\ Vouches(d)'
    <3>1. Existing(d) /\ Vouches(d)
      BY <1>1 DEF IInv
    <3>2. Existing(d)'
      BY <1>1, <1>3, <1>5, <3>1 DEF Existing, Found
    <3>3. CASE d = Subject
      BY <1>3, <3>2, <3>3 DEF Vouches
    <3>4. CASE d # Subject
      BY <1>1, <1>3, <1>5, <2>1, <3>1, <3>2, <3>4, VouchKept
    <3> QED
      BY <3>2, <3>3, <3>4
  <2>5. \A d \in Ctr : Worker(d)' /\ Progress(d)'
    BY <1>1, <1>5, IdleWorkers DEF IInv, Worker, CommandSteps
  <2> QED
    BY <2>2, <2>3, <2>4, <2>5 DEF IInv
<1> QED
  BY <1>4, <1>5 DEF Meddle

(* The namespace goes, and all that is in it. *)
LEMMA FinalizeKeeps ==
  ASSUME IInv, Finalize
  PROVE  IInv'
<1>1. /\ UNCHANGED <<want, iso, cmd, todo, res, stale, astray, events>> /\ TypeOK
      /\ ns' = "none" /\ wall' = FALSE /\ same' = FALSE /\ cross' = FALSE
      /\ wl' = [c \in Ctr |-> NoWorkload] /\ obj' = [c \in Ctr |-> NoCompanions]
      /\ headless' = [c \in Ctr |-> FALSE] /\ vol' = [c \in Ctr |-> 0]
      /\ walled' = {} /\ lapsed' = (cmd = "up")
  BY DEF Finalize, manifests, ghosts, IInv
<1>2. /\ NoWorkload \in [shape : Shape, hash : Hash, dying : BOOLEAN]
      /\ NoCompanions \in [Companion -> Hash]
      /\ \A k \in Companion : NoCompanions[k] = None
  BY DEF NoWorkload, NoCompanions, None, Shape, Hash
<1>3. TypeOK'
  <2>1. ObjectTypes'
    BY <1>1, <1>2 DEF ObjectTypes
  <2>2. ManifestTypes' /\ PolicyTypes' /\ WorkerTypes' /\ GhostTypes'
    BY <1>1 DEF TypeOK, ManifestTypes, PolicyTypes, WorkerTypes, GhostTypes
  <2> QED
    BY <2>1, <2>2 DEF TypeOK
<1>4. Walls'
  BY <1>1 DEF Walls
<1>5. ASSUME NEW d \in Ctr
      PROVE  /\ wl'[d] = NoWorkload /\ ~Found(d)' /\ vol'[d] = 0
             /\ \A k \in Companion : obj'[d][k] = None
  BY <1>1, <1>2 DEF Found, NoWorkload
<1>6. ASSUME NEW d \in Ctr
      PROVE  Existing(d)' /\ Vouches(d)'
  <2>1. ~wl'[d].dying
    BY <1>5 DEF NoWorkload
  <2> QED
    BY <1>5, <2>1 DEF Existing, Vouches
<1>7. ASSUME NEW d \in Ctr
      PROVE  Worker(d)' /\ Progress(d)'
  <2>1. Worker(d) /\ Progress(d)
    BY DEF IInv
  <2>2. CommandSteps(d)' /\ UpOrder(d)' /\ DropsLast(d)'
    BY <1>1, <2>1
       DEF Worker, CommandSteps, UpOrder, DropsLast, Working, Building, EnsureContainer
  <2>3. ~InUse'
    BY <1>5 DEF InUse
  <2>4. Working(d)' => lapsed'
    BY <1>1 DEF Working
  <2>5. Removed(d)'
    BY <1>5 DEF Removed, Companion, Service
  <2> QED
    BY <1>5, <2>2, <2>3, <2>4, <2>5
       DEF Worker, Progress, Listed, UpSoFar, ClosedSoFar, DownSoFar
<1> QED
  BY <1>3, <1>4, <1>6, <1>7 DEF IInv

(* Nothing happens. *)
LEMMA StutterKeeps ==
  ASSUME IInv, UNCHANGED vars
  PROVE  IInv'
<1>1. /\ UNCHANGED <<want, iso, ns, wall, same, cross, wl, obj, headless, vol, cmd, todo, res>>
      /\ UNCHANGED <<stale, walled, astray, lapsed, events>>
  BY DEF vars, manifests, cluster, ghosts
<1>2. TypeOK' /\ Walls'
  BY <1>1 DEF IInv, TypeOK, ManifestTypes, PolicyTypes, ObjectTypes, WorkerTypes, GhostTypes,
              Walls
<1>3. ASSUME NEW d \in Ctr
      PROVE  Existing(d)' /\ Vouches(d)' /\ Worker(d)' /\ Progress(d)'
  <2>1. Existing(d) /\ Vouches(d) /\ Worker(d) /\ Progress(d)
    BY DEF IInv
  <2>2. Existing(d)' /\ Vouches(d)'
    BY <1>1, <2>1, VouchKept DEF Existing, Found
  <2>3. Worker(d)'
    BY <1>1, <2>1 DEF Worker, CommandSteps, UpOrder, DropsLast, Listed, Working, Building,
                      EnsureContainer, InUse, Found
  <2>4. Progress(d)'
    BY <1>1, <2>1 DEF Progress, UpSoFar, ClosedSoFar, DownSoFar, Working, Building, Built,
                      Removed, Found, Allowed, specHash, Peers, Exact, Due, Looked, Wanted,
                      StepOf, AddressFits
  <2> QED
    BY <2>2, <2>3, <2>4
<1> QED
  BY <1>2, <1>3 DEF IInv

(* Nothing is there at first. *)
LEMMA InitIInv == Init => IInv
<1>1. SUFFICES ASSUME Init PROVE IInv
  OBVIOUS
<1>2. /\ NoWorkload \in [shape : Shape, hash : Hash, dying : BOOLEAN]
      /\ NoCompanions \in [Companion -> Hash]
  BY DEF NoWorkload, NoCompanions, None, Shape, Hash
<1>3. Gen = 1 .. 5 /\ Portless = 5 /\ Subject \in Ctr /\ Portless \in Gen
  BY Forms, KubernetesAssumption DEF Portless
<1>4. ManifestTypes
  BY <1>1, <1>3 DEF Init, ManifestTypes, Gens
<1>5. TypeOK
  <2>1. ObjectTypes
    BY <1>1, <1>2 DEF Init, ObjectTypes
  <2>2. PolicyTypes /\ WorkerTypes /\ GhostTypes
    BY <1>1 DEF Init, PolicyTypes, WorkerTypes, GhostTypes
  <2> QED
    BY <1>4, <2>1, <2>2 DEF TypeOK
<1>6. Walls
  BY <1>1 DEF Init, Walls
<1>7. ASSUME NEW c \in Ctr
      PROVE  Existing(c) /\ Vouches(c) /\ Worker(c) /\ Progress(c)
  <2>1. /\ wl[c] = NoWorkload /\ vol[c] = 0 /\ todo[c] = {} /\ res[c] = "none" /\ cmd = "idle"
        /\ NoWorkload.shape = "none" /\ NoWorkload.dying = FALSE
    BY <1>1 DEF Init, NoWorkload
  <2>2. ~Found(c)
    BY <2>1 DEF Found
  <2>3. Existing(c) /\ Vouches(c)
    BY <2>1, <2>2 DEF Existing, Vouches
  <2>4. Worker(c) /\ Progress(c)
    BY <2>1 DEF Worker, Progress, CommandSteps, UpOrder, DropsLast, Listed, UpSoFar,
                ClosedSoFar, DownSoFar, Working
  <2> QED
    BY <2>3, <2>4
<1> QED
  BY <1>5, <1>6, <1>7 DEF IInv

(* Every step keeps the invariant, whichever worker, controller, operator or *)
(* fault makes it.                                                           *)
LEMMA NextKeeps == IInv /\ [Next]_vars => IInv'
<1>1. SUFFICES ASSUME IInv, [Next]_vars
               PROVE  IInv'
  OBVIOUS
<1>2. CASE StartUp \/ StartDown
  BY <1>1, <1>2, StartKeeps
<1>3. CASE Crash \/ Finish
  BY <1>1, <1>3, IdleKeeps
<1>4. CASE Finalize
  BY <1>1, <1>4, FinalizeKeeps
<1>5. CASE Edit
  BY <1>1, <1>5, EditKeeps
<1>6. CASE Meddle
  BY <1>1, <1>6, MeddleKeeps
<1>7. ASSUME NEW c \in Ctr, Step(c) \/ Stuck(c) \/ Fails(c)
      PROVE  IInv'
  BY <1>1, <1>7, TurnKeeps DEF Turn
<1>8. ASSUME NEW c \in Ctr, Vanish(c)
      PROVE  IInv'
  BY <1>1, <1>8, VanishKeeps
<1>9. CASE UNCHANGED vars
  BY <1>1, <1>9, StutterKeeps
<1> QED
  BY <1>1, <1>2, <1>3, <1>4, <1>5, <1>6, <1>7, <1>8, <1>9 DEF Next

(* The inductive invariant holds of every behaviour of the adapter: the hash *)
(* on a workload nobody touched vouches for its companions, and each worker  *)
(* has brought about what the steps it has done were for (container.go,      *)
(* network.go, lifecycle.go).                                                *)
THEOREM Invariance == Spec => []IInv
<1>1. Init => IInv
  BY InitIInv
<1>2. IInv /\ [Next]_vars => IInv'
  BY NextKeeps
<1> QED
  BY <1>1, <1>2, PTL DEF Spec

(* The variables keep their types. *)
THEOREM TypeCorrect == Spec => []TypeOK
<1>1. IInv => TypeOK
  BY DEF IInv
<1> QED
  BY <1>1, Invariance, PTL

(* A worker that succeeded has no step left. *)
LEMMA DoneIs ==
  ASSUME IInv, NEW c \in Ctr, NEW name, Done(c, name)
  PROVE  /\ todo[c] = {} /\ ~Building(c) /\ ~lapsed /\ res[c] = "ok" /\ cmd = name
         /\ Existing(c) /\ Vouches(c) /\ Progress(c)
<1>1. cmd = name /\ res[c] = "ok" /\ ~lapsed /\ Worker(c) /\ Existing(c) /\ Vouches(c) /\ Progress(c)
  BY DEF Done, IInv
<1>2. todo[c] = {}
  BY <1>1 DEF Worker, CommandSteps
<1> QED
  BY <1>1, <1>2 DEF Building

(* EnsureNetwork that succeeds leaves the namespace as closed as declared,   *)
(* whatever other workers, faults and operators do meanwhile (network.go).   *)
THEOREM NetworkIsClosed == Spec => []IsolationRealized
<1>1. IInv => IsolationRealized
  <2>1. SUFFICES ASSUME IInv, NEW c \in Ctr, Done(c, "up"), iso # "none"
                 PROVE  wall /\ same = (iso = "default") /\ (cross => \E d \in Ctr : Allowed(d))
    BY DEF IsolationRealized
  <2>2. todo[c] = {} /\ Working(c) /\ ~lapsed /\ ClosedSoFar(c)
    BY <2>1, DoneIs DEF Progress, Working
  <2> QED
    BY <2>1, <2>2 DEF ClosedSoFar
<1> QED
  BY <1>1, Invariance, PTL

(* A removal that found the workload leaves nothing of the container,        *)
(* whichever shape it had and however often it failed before (container.go,  *)
(* lifecycle.go).                                                            *)
THEOREM RemovalIsComplete == Spec => []RemovedLeavesNothing
<1>1. IInv => RemovedLeavesNothing
  <2>1. SUFFICES ASSUME IInv, NEW c \in Ctr, Done(c, "down"), c \notin astray
                 PROVE  /\ wl[c] = NoWorkload /\ vol[c] = 0
                        /\ \A k \in Service \cup {"files", "external", "graph"} : obj[c][k] = None
    BY DEF RemovedLeavesNothing
  <2>2. /\ todo[c] = {} /\ cmd = "down" /\ res[c] = "ok" /\ Existing(c) /\ DownSoFar(c)
    BY <2>1, DoneIs DEF Progress
  <2>3. vol[c] = 0 /\ Removed(c)
    BY <2>1, <2>2 DEF DownSoFar
  <2> QED
    BY <2>2, <2>3 DEF Removed, Existing
<1> QED
  BY <1>1, Invariance, PTL

(* EnsureContainer that succeeds leaves the workload of the spec with        *)
(* exactly its companions: the early return on an unchanged hash never       *)
(* leaves those of another spec behind (container.go).  The one companion the*)
(* hash does not vouch for, the hole of a node port, is there if it was      *)
(* ensured behind a wall and is missing otherwise.                           *)
THEOREM EnsureIsExact == Spec => []EnsuredExactly
<1>1. IInv => EnsuredExactly
  <2>1. SUFFICES ASSUME IInv, NEW c \in Ctr, Done(c, "up"), c \notin stale
                 PROVE
          /\ wl[c] = Workload(want[c])
          /\ \A k \in Companion \ (Unlooked(want[c]) \ Asked(want[c])) :
               obj[c][k] = IF k \in Owed(c) THEN specHash(want[c]) ELSE None
          /\ headless[c] => ContainerSpec[want[c]].stable \/ ~ContainerSpec[want[c]].nodePort
          /\ HasVolume(want[c]) => vol[c] >= ContainerSpec[want[c]].size
    BY DEF EnsuredExactly
  <2> DEFINE g == want[c]
             h == specHash(g)
  <2>2. /\ todo[c] = {} /\ Working(c) /\ ~lapsed /\ ~Building(c)
        /\ UpSoFar(c) /\ Existing(c) /\ Vouches(c)
    BY <2>1, DoneIs DEF Progress, Working
  <2>3. TypeOK /\ g \in Gen
    BY <2>1 DEF IInv, TypeOK, ManifestTypes
  <2>4. Found(c) /\ wl[c].hash = h
    BY <2>1, <2>2 DEF UpSoFar
  <2>5. /\ wl[c].shape = IF ContainerSpec[h[1]].stable THEN "statefulset" ELSE "deployment"
        /\ \A k \in Looked(h) : Exact(c, k, h)
        /\ AddressFits(c, h[1])
    BY <2>1, <2>2, <2>4 DEF Vouches
  <2>6. h[1] = g
    BY <2>3, SpecHash
  <2>7. wl[c] = Workload(g)
    <3>1. wl[c].dying = FALSE
      BY <2>1, <2>2, <2>3 DEF Existing, TypeOK, ObjectTypes
    <3>2. wl[c] = [shape |-> wl[c].shape, hash |-> wl[c].hash, dying |-> wl[c].dying]
      BY <2>3 DEF TypeOK, ObjectTypes
    <3> QED
      BY <2>3, <2>4, <2>5, <2>6, <3>1, <3>2, WorkloadIs, Zenon
  <2>8. c \in walled => wall
    BY <2>1 DEF IInv, Walls
  <2>9. ASSUME NEW k \in Companion \ (Unlooked(g) \ Asked(g))
        PROVE  obj[c][k] = IF k \in Owed(c) THEN h ELSE None
    <3>1. "external" \notin Unlooked(g)
      BY DEF Unlooked, OrdinalName
    <3>2. k \in Looked(h)
      BY <2>3, <2>6, <3>1, AskedWanted DEF Looked
    <3>3. Due(c, k, h) <=> k \in Owed(c)
      BY <2>3, <2>8, AskedWanted DEF Due, Owed
    <3> QED
      BY <2>5, <3>2, <3>3 DEF Exact
  <2>10. headless[c] => ContainerSpec[g].stable \/ ~ContainerSpec[g].nodePort
    BY <2>5, <2>6 DEF AddressFits
  <2>11. HasVolume(g) => vol[c] >= ContainerSpec[g].size
    BY <2>2 DEF UpSoFar
  <2> QED
    BY <2>7, <2>9, <2>10, <2>11
<1> QED
  BY <1>1, Invariance, PTL

(* Only RemoveNetwork makes a namespace terminate. *)
LEMMA TerminatingBy ==
  ASSUME TypeOK, [Next]_vars, ns = "active", ns' = "terminating"
  PROVE  \E c \in Ctr : Turn(c) /\ deleteNamespace(c)
<1>1. ns' # ns
  OBVIOUS
<1>2. ~(StartUp \/ StartDown \/ Crash \/ Finish \/ Edit \/ Finalize \/ Meddle \/ UNCHANGED vars)
  BY <1>1 DEF StartUp, StartDown, Start, Crash, Finish, Idle, Edit, Finalize, Meddle, vars,
              cluster
<1>3. \A c \in Ctr : ~Vanish(c)
  BY <1>1 DEF Vanish
<1>4. PICK c \in Ctr : Turn(c)
  BY <1>2, <1>3 DEF Next, Turn
<1>5. Effect(c)
  BY <1>1, <1>4, TurnFrame DEF cluster
<1>6. deleteNamespace(c)
  <2>1. Shared(c)
    BY <1>1, <1>5, EffectKinds
       DEF EnsureVolume, RemoveVolume, Writing, Write, writeWorkload, deleteWorkload, Dropping,
           Drop, ensureHeadlessService
  <2> QED
    BY <1>1, <2>1
       DEF Shared, namespace, denyAll, sameNamespace, crossDomain, find, Looks, cluster
<1> QED
  BY <1>4, <1>6

(* No workload is taken by the deletion of its namespace: when RemoveNetwork *)
(* deletes it every workload is gone, however the removals of siblings       *)
(* interleave (network.go).                                                  *)
THEOREM NamespaceGoesLast == Spec => SiblingsSurvive
<1>1. IInv /\ [Next]_vars
        => [ns = "active" /\ ns' = "terminating" => \A c \in Ctr : wl'[c] = NoWorkload]_vars
  <2>1. SUFFICES ASSUME IInv, [Next]_vars, ns = "active", ns' = "terminating", NEW d \in Ctr
                 PROVE  wl'[d] = NoWorkload
    OBVIOUS
  <2>2. PICK c \in Ctr : Turn(c) /\ deleteNamespace(c)
    BY <2>1, TerminatingBy DEF IInv
  <2>3. "deleteNamespace" \in todo[c] /\ "listWorkloads" \notin todo[c]
    BY <2>1, <2>2, NetworkLast DEF deleteNamespace, Doing, IInv, RemoveNetwork
  <2>4. ~InUse
    BY <2>1, <2>3 DEF IInv, Worker, Listed
  <2>5. wl[d] = NoWorkload
    BY <2>1, <2>4 DEF InUse, IInv, Existing
  <2>6. wl' = wl
    BY <2>2 DEF deleteNamespace
  <2> QED
    BY <2>5, <2>6
<1> QED
  BY <1>1, Invariance, PTL DEF SiblingsSurvive, Spec
=============================================================================
