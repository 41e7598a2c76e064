----------------------------- MODULE Kubernetes -----------------------------
(***************************************************************************)
(* The Kubernetes runtime adapter (internal/adapters/runtime/kubernetes):  *)
(* a network is a namespace with its NetworkPolicies, a container is a     *)
(* Deployment or a StatefulSet with companions: Services, a disruption     *)
(* budget, policies, Secrets.  The containers of one namespace are         *)
(* ensured or removed concurrently, one worker each; a step is one write   *)
(* to the API server, with the read before it.  A call may fail, with or   *)
(* without its effect, the process may die, the cluster's controllers act  *)
(* in their own time and an operator may delete objects.                   *)
(***************************************************************************)
EXTENDS Integers

CONSTANTS Ctr,        \* the containers of the namespace
          Subject,    \* the one whose spec takes every form; the others have one
          Targets,    \* the sets of containers that one command may work on
          MaxEvents   \* bound on edits, faults and meddling in a behaviour

ASSUME KubernetesAssumption == /\ Subject \in Ctr
                               /\ Targets \subseteq SUBSET Ctr
                               /\ MaxEvents \in Nat

(* The forms of a ContainerSpec and its VolumeSpec.  extras: aliases, files, *)
(* credentials for the image and peers in the access graph; opens: it is a   *)
(* Connection's, whose network lets another domain in.  The last form, that  *)
(* of the siblings, has neither ports nor a volume.                          *)
Form(stable, replicas, nodePort, extras, opens, size) ==
  [stable |-> stable, replicas |-> replicas, nodePort |-> nodePort, extras |-> extras,
   opens |-> opens, size |-> size]
ContainerSpec == << Form(FALSE, 1, FALSE, FALSE, FALSE, 1),
                    Form(FALSE, 2, TRUE,  TRUE,  TRUE,  2),
                    Form(TRUE,  2, TRUE,  TRUE,  FALSE, 1),
                    Form(TRUE,  1, FALSE, FALSE, FALSE, 1),
                    Form(FALSE, 1, FALSE, FALSE, FALSE, 0) >>
Gen == DOMAIN ContainerSpec
Portless == 5
Gens(c) == IF c = Subject THEN Gen \ {Portless} ELSE {Portless}
HasVolume(g) == ContainerSpec[g].size > 0 /\ ~ContainerSpec[g].stable

VARIABLES
  want, iso,          \* declared: form of each container, isolation policy
  ns,                 \* the namespace: none, active or terminating
  wall, same, cross,  \* its policies: default deny, allow same namespace, cross domain
  wl,                 \* the workload of each container, with the hash it carries
  obj,                \* its companions, with the hash of the spec that wrote them
  headless,           \* the Service of its name is headless
  vol,                \* the size of its volume, 0 if absent
  cmd, todo, res,     \* the command, the steps left and the result of each worker
  stale,              \* companions touched since the workload was last written
  walled,             \* its external-ingress policy was last ensured behind a wall
  astray,             \* this command's Remove found no workload to remove them with
  lapsed,             \* a namespace that was terminating went during this apply
  events              \* edits, faults and meddling so far

cluster == <<ns, wall, same, cross, wl, obj, headless, vol>>
ghosts == <<stale, walled, astray>>
manifests == <<want, iso>>
vars == <<manifests, cluster, cmd, todo, res, ghosts, lapsed, events>>
-----------------------------------------------------------------------------
OrdinalName == {"ordinal 0", "ordinal 1"}
Service == {"service", "alias"} \cup OrdinalName
Companion == Service \cup {"pdb", "external", "graph", "files", "pull"}
None == <<0, FALSE>>
NoWorkload == [shape |-> "none", hash |-> None, dying |-> FALSE]
NoCompanions == [k \in Companion |-> None]

(* The peers, which the engine adds in the graph-scoped mode, are part of    *)
(* the spec.                                                                 *)
Peers(g) == iso = "graph" /\ ContainerSpec[g].extras
specHash(g) == <<g, Peers(g)>>

(* What the converters make of a spec. *)
buildDeployment(g) == [shape |-> "deployment", hash |-> specHash(g), dying |-> FALSE]
buildStatefulSet(g) == [shape |-> "statefulset", hash |-> specHash(g), dying |-> FALSE]
Workload(g) == IF ContainerSpec[g].stable THEN buildStatefulSet(g) ELSE buildDeployment(g)
buildPodDisruptionBudget(g) == ContainerSpec[g].replicas > 1
buildExternalIngressPolicy(g) == ContainerSpec[g].nodePort
buildGraphScopedIngressPolicy(g) == Peers(g)
buildFilesSecret(g) == ContainerSpec[g].extras
buildImagePullSecret(g) == ContainerSpec[g].extras
Aliases(g) == IF ContainerSpec[g].extras THEN {"alias"} ELSE {}
Ordinals(g) == IF ~ContainerSpec[g].stable THEN {}
               ELSE IF ContainerSpec[g].replicas = 2 THEN OrdinalName ELSE {"ordinal 0"}
(* Where there is no wall a pod-selecting policy would restrict. *)
Hole(g) == buildExternalIngressPolicy(g) /\ wall
(* The companions a spec asks for. *)
Asked(g) == (IF g = Portless THEN {} ELSE {"service"}) \cup Ordinals(g) \cup Aliases(g)
              \cup (IF buildPodDisruptionBudget(g) THEN {"pdb"} ELSE {})
              \cup (IF Hole(g) THEN {"external"} ELSE {})
              \cup (IF buildGraphScopedIngressPolicy(g) THEN {"graph"} ELSE {})
              \cup (IF ContainerSpec[g].extras THEN {"files", "pull"} ELSE {})
-----------------------------------------------------------------------------
(* Fault: the workload, which carries the hash, is written first. *)
hashBeforeCompanions ==
  [namespace |-> 1, denyAll |-> 2, sameNamespace |-> 3, crossDomain |-> 4,
   EnsureVolume |-> 5, look |-> 6, create |-> 7, update |-> 8, service |-> 9,
   headless |-> 10, ordinals |-> 11, prune |-> 12, alias |-> 13, pdb |-> 14,
   external |-> 15, graph |-> 16, files |-> 17, pull |-> 18, WaitHealthy |-> 19,
   find |-> 20, delete |-> 21, services |-> 22, noFiles |-> 23, noExternal |-> 24,
   noGraph |-> 25, noBudget |-> 26, waitObjectGone |-> 27, RemoveVolume |-> 28,
   listWorkloads |-> 29, deleteNamespace |-> 30]
(* The place of each step: those of EnsureNetwork, EnsureVolume,             *)
(* EnsureContainer and WaitHealthy, then those of Remove, RemoveVolume and   *)
(* RemoveNetwork.                                                            *)
Place ==
  [namespace |-> 1, denyAll |-> 2, sameNamespace |-> 3, crossDomain |-> 4,
   EnsureVolume |-> 5, look |-> 6, service |-> 7, headless |-> 8, ordinals |-> 9,
   prune |-> 10, alias |-> 11, pdb |-> 12, external |-> 13, graph |-> 14, files |-> 15,
   pull |-> 16, create |-> 17, update |-> 18, WaitHealthy |-> 19, find |-> 20,
   delete |-> 21, services |-> 22, noFiles |-> 23, noExternal |-> 24, noGraph |-> 25,
   noBudget |-> 26, waitObjectGone |-> 27, RemoveVolume |-> 28, listWorkloads |-> 29,
   deleteNamespace |-> 30]

EnsureNetwork == {"namespace"}
  \cup IF iso = "none" THEN {} ELSE {"denyAll", "sameNamespace", "crossDomain"}

ensureDeployment == {"service", "alias", "pdb", "external", "graph", "files", "pull"}
ensureStatefulSet ==
  {"headless", "ordinals", "prune", "alias", "pdb", "external", "graph", "files", "pull"}
EnsureContainer(c) == IF ContainerSpec[want[c]].stable THEN ensureStatefulSet
                      ELSE ensureDeployment

Up(c) == EnsureNetwork \cup (IF HasVolume(want[c]) THEN {"EnsureVolume"} ELSE {})
           \cup {"look", "WaitHealthy"}

(* As the providers' Destroy calls them. *)
removeCommonContainerObjects == {"services", "noFiles", "noExternal", "noGraph"}
removeDeployment == {"delete", "waitObjectGone"} \cup removeCommonContainerObjects
removeStatefulSet == removeDeployment \cup {"noBudget"}
RemoveNetwork == {"listWorkloads", "deleteNamespace"}
Down(c) == {"find"} \cup (IF want[c] = Portless THEN {} ELSE {"RemoveVolume"})
             \cup RemoveNetwork
-----------------------------------------------------------------------------
(* The steps.  A worker does the first of those it has left.  Each says what *)
(* the cluster becomes; Able is when it can work.                            *)
Doing(c, s) ==
  /\ s \in todo[c]
  /\ \A t \in todo[c] : Place[s] <= Place[t]
Found(c) == wl[c].shape # "none"
(* RemoveNetwork refuses while a workload is listed. *)
(* Fault: the namespace is not looked into. *)
neverInUse == FALSE
InUse == \E d \in Ctr : Found(d)

namespace(c) ==
  /\ Doing(c, "namespace")
  /\ ns' = IF ns = "none" THEN "active" ELSE ns
  /\ UNCHANGED <<wall, same, cross, wl, obj, headless, vol, ghosts>>
denyAll(c) ==
  /\ Doing(c, "denyAll") /\ wall' = TRUE
  /\ UNCHANGED <<ns, same, cross, wl, obj, headless, vol, ghosts>>
(* Fault: the rule of the time before the gate is left in place. *)
keepSameNamespace(c) ==
  /\ Doing(c, "sameNamespace") /\ same' = (same \/ iso # "graph")
  /\ UNCHANGED <<ns, wall, cross, wl, obj, headless, vol, ghosts>>
sameNamespace(c) ==
  /\ Doing(c, "sameNamespace") /\ same' = (iso # "graph")
  /\ UNCHANGED <<ns, wall, cross, wl, obj, headless, vol, ghosts>>
(* The allow-list becomes that of the caller, and only a Connection has one. *)
Allowed(c) == ContainerSpec[want[c]].opens
crossDomain(c) ==
  /\ Doing(c, "crossDomain") /\ cross' = Allowed(c)
  /\ UNCHANGED <<ns, wall, same, wl, obj, headless, vol, ghosts>>

EnsureVolume(c) ==
  /\ Doing(c, "EnsureVolume") /\ vol' = [vol EXCEPT ![c] = ContainerSpec[want[c]].size]
  /\ UNCHANGED <<ns, wall, same, cross, wl, obj, headless, ghosts>>

(* Companions are created, updated or deleted to what the spec asks for. *)
Write(c, ks, on) ==
  /\ obj' = [obj EXCEPT ![c] = [k \in Companion |->
               IF k \notin ks THEN @[k] ELSE IF on THEN specHash(want[c]) ELSE None]]
  /\ stale' = IF Found(c) THEN stale \cup {c} ELSE stale
  /\ UNCHANGED <<ns, wall, same, cross, wl, vol, astray>>
Own(c, s, on) == Doing(c, s) /\ Write(c, {s}, on) /\ UNCHANGED <<headless, walled>>

ensureService(c) == Own(c, "service", want[c] # Portless)
ensureHeadlessService(c) == /\ Doing(c, "headless") /\ Write(c, {"service"}, TRUE)
                            /\ headless' = [headless EXCEPT ![c] = TRUE]
                            /\ UNCHANGED walled
ensureOrdinalServices(c) ==
  /\ Doing(c, "ordinals") /\ Write(c, Ordinals(want[c]), TRUE)
  /\ UNCHANGED <<headless, walled>>
pruneOrdinalServices(c) ==
  /\ Doing(c, "prune") /\ Write(c, OrdinalName \ Ordinals(want[c]), FALSE)
  /\ UNCHANGED <<headless, walled>>
(* The aliases of an earlier spec are not looked for. *)
ensureAliasServices(c) ==
  /\ Doing(c, "alias") /\ Write(c, Aliases(want[c]), TRUE)
  /\ UNCHANGED <<headless, walled>>
ensurePodDisruptionBudget(c) == Own(c, "pdb", buildPodDisruptionBudget(want[c]))
ensureExternalIngressPolicy(c) ==
  /\ Doing(c, "external") /\ Write(c, {"external"}, Hole(want[c])) /\ UNCHANGED headless
  /\ walled' = IF Hole(want[c]) THEN walled \cup {c} ELSE walled \ {c}
ensureGraphScopedIngressPolicy(c) == Own(c, "graph", buildGraphScopedIngressPolicy(want[c]))
ensureFilesSecret(c) == Own(c, "files", buildFilesSecret(want[c]))
ensureImagePullSecret(c) == Own(c, "pull", buildImagePullSecret(want[c]))

(* Created, or updated in place: a workload that is being deleted stays so. *)
writeWorkload(c) ==
  /\ Doing(c, "create") \/ Doing(c, "update")
  /\ wl' = [wl EXCEPT ![c] = [Workload(want[c]) EXCEPT !.dying = wl[c].dying]]
  /\ stale' = IF wl[c].dying \/ lapsed THEN stale \cup {c} ELSE stale \ {c}
  /\ UNCHANGED <<ns, wall, same, cross, obj, headless, vol, walled, astray>>

(* In the foreground: the object stays until its pods are gone. *)
deleteWorkload(c) ==
  /\ Doing(c, "delete")
  /\ wl' = IF Found(c) THEN [wl EXCEPT ![c].dying = TRUE] ELSE wl
  /\ stale' = stale \cup {c}
  /\ UNCHANGED <<ns, wall, same, cross, obj, headless, vol, walled, astray>>
Drop(c, s, ks) ==
  /\ Doing(c, s)
  /\ obj' = [obj EXCEPT ![c] = [k \in Companion |-> IF k \in ks THEN None ELSE @[k]]]
  /\ headless' = IF "service" \in ks THEN [headless EXCEPT ![c] = FALSE] ELSE headless
  /\ UNCHANGED <<ns, wall, same, cross, wl, vol, ghosts>>
(* Fault: only the Service of the container's own name is deleted. *)
dropServiceByName(c) == Drop(c, "services", {"service"})
dropServices(c) == Drop(c, "services", Service)
dropFiles(c) == Drop(c, "noFiles", {"files"})
dropExternal(c) == Drop(c, "noExternal", {"external"})
dropGraph(c) == Drop(c, "noGraph", {"graph"})
dropBudget(c) == Drop(c, "noBudget", {"pdb"})
RemoveVolume(c) ==
  /\ Doing(c, "RemoveVolume") /\ vol' = [vol EXCEPT ![c] = 0]
  /\ UNCHANGED <<ns, wall, same, cross, wl, obj, headless, ghosts>>
deleteNamespace(c) ==
  /\ Doing(c, "deleteNamespace") /\ ns' = IF ns = "none" THEN ns ELSE "terminating"
  /\ UNCHANGED <<wall, same, cross, wl, obj, headless, vol, ghosts>>

(* Only the workload is looked for: without it nothing is removed. *)
find(c) == /\ Doing(c, "find")
           /\ astray' = IF Found(c) THEN astray \ {c} ELSE astray \cup {c}
           /\ UNCHANGED <<cluster, stale, walled>>
Looks(c) == /\ \E s \in {"look", "WaitHealthy", "waitObjectGone", "listWorkloads"} : Doing(c, s)
            /\ UNCHANGED <<cluster, ghosts>>

Effect(c) ==
  \/ namespace(c) \/ denyAll(c) \/ sameNamespace(c) \/ crossDomain(c) \/ EnsureVolume(c)
  \/ ensureService(c) \/ ensureHeadlessService(c) \/ ensureOrdinalServices(c)
  \/ pruneOrdinalServices(c) \/ ensureAliasServices(c) \/ ensurePodDisruptionBudget(c)
  \/ ensureExternalIngressPolicy(c) \/ ensureGraphScopedIngressPolicy(c) \/ ensureFilesSecret(c)
  \/ ensureImagePullSecret(c) \/ writeWorkload(c) \/ find(c) \/ deleteWorkload(c)
  \/ dropServices(c) \/ dropFiles(c) \/ dropExternal(c) \/ dropGraph(c) \/ dropBudget(c)
  \/ RemoveVolume(c) \/ deleteNamespace(c) \/ Looks(c)

(* Nothing is created in a namespace that is absent or terminating; what     *)
(* exists can be updated and deleted.                                        *)
CanWrite(c, k) == ns = "active" \/ obj[c][k] # None

Able(c) ==
  LET g == want[c]
  IN /\ Doing(c, "denyAll") => wall \/ ns = "active"
     /\ Doing(c, "sameNamespace") => iso = "graph" \/ same \/ ns = "active"
     /\ Doing(c, "crossDomain") => ~Allowed(c) \/ cross \/ ns = "active"
     (* A claim may grow and never shrinks. *)
     /\ Doing(c, "EnsureVolume") =>
          vol[c] <= ContainerSpec[g].size /\ (vol[c] > 0 \/ ns = "active")
     (* A workload of the other shape is refused. *)
     /\ Doing(c, "look") => wl[c].shape \in {"none", Workload(g).shape}
     (* A Service keeps its cluster address, and a node port needs one. *)
     /\ Doing(c, "service") =>
          CanWrite(c, "service") /\ ~(headless[c] /\ ContainerSpec[g].nodePort)
     /\ Doing(c, "headless") =>
          CanWrite(c, "service") /\ (obj[c]["service"] # None => headless[c])
     /\ Doing(c, "ordinals") => \A k \in Ordinals(g) : CanWrite(c, k)
     /\ Doing(c, "alias") => \A k \in Aliases(g) : CanWrite(c, k)
     /\ \A k \in {"pdb", "external", "graph", "files", "pull"} :
          Doing(c, k) /\ k \in Asked(g) => CanWrite(c, k)
     /\ Doing(c, "create") => ns = "active" /\ ~Found(c)
     /\ Doing(c, "update") => Found(c)
     (* Pods do not start without their claim. *)
     /\ Doing(c, "WaitHealthy") => Found(c) /\ (HasVolume(g) => vol[c] > 0)
     /\ Doing(c, "waitObjectGone") => ~Found(c)
     /\ Doing(c, "listWorkloads") => ns # "none" /\ ~InUse

(* To delete what is not there is no step of its own. *)
Deletes(s) == CASE s \in {"service", "pdb", "external", "graph", "files", "pull"} -> {s}
                [] s = "prune" -> OrdinalName [] s = "alias" -> {}
                [] s = "noFiles" -> {"files"} [] s = "noExternal" -> {"external"}
                [] s = "noGraph" -> {"graph"} [] s = "noBudget" -> {"pdb"}
                [] OTHER -> Companion
Needed(c, steps) ==
  {s \in steps : \/ s \in Asked(want[c])
                 \/ s = "external" /\ buildExternalIngressPolicy(want[c])
                 \/ \E k \in Deletes(s) : obj[c][k] # None
                 \/ Deletes(s) = Companion}

(* What is left to do.  A workload with the spec's hash is left as it is,    *)
(* and its companions with it.                                               *)
Left(c) == {s \in todo[c] : ~Doing(c, s)}
After(c) ==
  CASE Doing(c, "look") /\ wl[c].hash # specHash(want[c]) ->
         Left(c) \cup Needed(c, EnsureContainer(c))
                 \cup {IF Found(c) THEN "update" ELSE "create"}
    [] Doing(c, "find") /\ Found(c) ->
         Left(c) \cup Needed(c, IF wl[c].shape = "deployment" THEN removeDeployment
                                ELSE removeStatefulSet)
    [] OTHER -> Left(c)
-----------------------------------------------------------------------------
Event == events < MaxEvents /\ events' = events + 1

Init ==
  /\ want = [c \in Ctr |-> IF c = Subject THEN 1 ELSE Portless] /\ iso \in {"none", "default"}
  /\ ns = "none" /\ wall = FALSE /\ same = FALSE /\ cross = FALSE
  /\ wl = [c \in Ctr |-> NoWorkload] /\ obj = [c \in Ctr |-> NoCompanions]
  /\ headless = [c \in Ctr |-> FALSE] /\ vol = [c \in Ctr |-> 0]
  /\ cmd = "idle" /\ todo = [c \in Ctr |-> {}] /\ res = [c \in Ctr |-> "none"]
  /\ stale = {} /\ walled = {} /\ astray = {} /\ lapsed = FALSE /\ events = 0

(* A command works on some of the containers, side by side. *)
Start(name, steps(_)) ==
  /\ cmd = "idle" /\ cmd' = name
  /\ \E cs \in Targets :
       /\ todo' = [c \in Ctr |-> IF c \in cs THEN steps(c) ELSE {}]
       /\ res' = [c \in Ctr |-> IF c \in cs THEN "running" ELSE "none"]
  /\ UNCHANGED <<manifests, cluster, ghosts, lapsed, events>>
StartUp == Start("up", Up)
StartDown == Start("down", Down)

Running(c) == res[c] = "running" /\ todo[c] # {}
Step(c) ==
  /\ Running(c) /\ Able(c) /\ Effect(c)
  /\ LET left == After(c)
     IN /\ todo' = [todo EXCEPT ![c] = left]
        /\ res' = [res EXCEPT ![c] = IF left = {} THEN "ok" ELSE @]
  /\ UNCHANGED <<manifests, cmd, lapsed, events>>

(* The callers of RemoveNetwork drop its error. *)
Ends(c) == /\ todo' = [todo EXCEPT ![c] = {}]
           /\ res' = [res EXCEPT ![c] = IF \E s \in RemoveNetwork : Doing(c, s)
                                        THEN "ok" ELSE "failed"]
           /\ UNCHANGED <<manifests, cmd, lapsed>>
(* A refusal, or a wait that gives up. *)
Stuck(c) == Running(c) /\ ~Able(c) /\ Ends(c) /\ UNCHANGED <<cluster, ghosts, events>>
(* An error, or an answer that does not come. *)
Fails(c) ==
  /\ Running(c) /\ Event /\ Able(c)
  /\ Ends(c)
  /\ UNCHANGED <<cluster, ghosts>> \/ Effect(c)
Idle == /\ cmd' = "idle" /\ todo' = [c \in Ctr |-> {}] /\ res' = [c \in Ctr |-> "none"]
        /\ lapsed' = FALSE /\ astray' = {}
        /\ UNCHANGED <<manifests, cluster, stale, walled>>
Crash == cmd # "idle" /\ Event /\ Idle
Finish == cmd # "idle" /\ (\A c \in Ctr : res[c] # "running") /\ UNCHANGED events /\ Idle

(* The cluster's controllers. *)
Vanish(c) ==
  /\ wl[c].dying /\ wl' = [wl EXCEPT ![c] = NoWorkload]
  /\ UNCHANGED <<manifests, ns, wall, same, cross, obj, headless, vol, cmd, todo, res, ghosts,
                 lapsed, events>>
Finalize ==
  /\ ns = "terminating" /\ ns' = "none"
  /\ wall' = FALSE /\ same' = FALSE /\ cross' = FALSE
  /\ wl' = [c \in Ctr |-> NoWorkload] /\ obj' = [c \in Ctr |-> NoCompanions]
  /\ headless' = [c \in Ctr |-> FALSE] /\ vol' = [c \in Ctr |-> 0]
  /\ walled' = {} /\ lapsed' = (cmd = "up")
  /\ UNCHANGED <<manifests, cmd, todo, res, stale, astray, events>>

(* Someone edits the manifests between two commands. *)
Edit ==
  /\ cmd = "idle" /\ Event
  /\ \/ \E g \in Gens(Subject) \ {want[Subject]} : want' = [want EXCEPT ![Subject] = g]
        /\ UNCHANGED iso
     \/ iso' \in {"none", "default", "graph"} \ {iso} /\ UNCHANGED want
  /\ UNCHANGED <<cluster, cmd, todo, res, ghosts, lapsed>>
(* Someone deletes the workload, or between two commands a companion. *)
Meddle ==
  /\ Event
  /\ \/ /\ wl[Subject].shape # "none" /\ wl' = [wl EXCEPT ![Subject] = NoWorkload]
        /\ UNCHANGED obj
     \/ /\ cmd = "idle"
        /\ \E k \in Companion \ {"service"} :
             obj[Subject][k] # None /\ obj' = [obj EXCEPT ![Subject][k] = None]
        /\ UNCHANGED wl
  /\ stale' = stale \cup {Subject}
  /\ UNCHANGED <<manifests, ns, wall, same, cross, headless, vol, cmd, todo, res, walled,
                 astray, lapsed>>

Next == \/ StartUp \/ StartDown \/ Crash \/ Finish \/ Finalize \/ Edit \/ Meddle
        \/ \E c \in Ctr : Step(c) \/ Stuck(c) \/ Fails(c) \/ Vanish(c)
Spec == Init /\ [][Next]_vars
-----------------------------------------------------------------------------
(* EnsureNetwork takes a namespace that is going for one that stays: what it *)
(* and the steps after it ensured there may be gone from the next one.       *)
Done(c, name) == cmd = name /\ res[c] = "ok" /\ ~lapsed

(* An EnsureContainer that succeeds leaves the workload the spec asks for    *)
(* and, unless someone touched the companions since, exactly its companions: *)
(* the hash on the workload vouches for objects written before it, also by   *)
(* attempts that were cut short.  (Aliases, and the ordinals of a set that   *)
(* became a Deployment, are not looked for.  The hole for a node port is made*)
(* only behind a wall, and the wall is no part of the hash: where isolation  *)
(* was turned on after the workload was written, EnsureContainer returns     *)
(* early and the hole stays unmade until the specification changes.)         *)
Owed(c) == {k \in Asked(want[c]) : k = "external" => c \in walled}
Unlooked(g) == {"alias"} \cup IF ContainerSpec[g].stable THEN {} ELSE OrdinalName
EnsuredExactly ==
  \A c \in Ctr : Done(c, "up") /\ c \notin stale =>
    /\ wl[c] = Workload(want[c])
    /\ \A k \in Companion \ (Unlooked(want[c]) \ Asked(want[c])) :
         obj[c][k] = IF k \in Owed(c) THEN specHash(want[c]) ELSE None
    /\ headless[c] => ContainerSpec[want[c]].stable \/ ~ContainerSpec[want[c]].nodePort
    /\ HasVolume(want[c]) => vol[c] >= ContainerSpec[want[c]].size

(* A Remove that found the workload leaves nothing that addresses the        *)
(* container or opens the wall for it, whichever shape it has.               *)
RemovedLeavesNothing ==
  \A c \in Ctr : Done(c, "down") /\ c \notin astray =>
    /\ wl[c] = NoWorkload /\ vol[c] = 0
    /\ \A k \in Service \cup {"files", "external", "graph"} : obj[c][k] = None

(* The deletion of a namespace, which takes all that is in it, never takes a *)
(* workload: RemoveNetwork comes to it only when the last one is gone.       *)
SiblingsSurvive ==
  [][ns = "active" /\ ns' = "terminating" => \A c \in Ctr : wl'[c] = NoWorkload]_vars

(* After an EnsureNetwork of any container the namespace is as closed as     *)
(* declared: the wall stands, the blanket rule is there only outside the     *)
(* graph-scoped mode, and no cross-domain hole outlives its Connection.      *)
IsolationRealized ==
  \A c \in Ctr : Done(c, "up") /\ iso # "none" =>
    wall /\ same = (iso = "default") /\ (cross => \E d \in Ctr : Allowed(d))
=============================================================================
