----------------------------- MODULE Providers ------------------------------
(***************************************************************************)
(* One Provider of any type with its items, reconciled, probed and         *)
(* destroyed by the engine through the provider adapter's program (module  *)
(* ProviderPrograms).  The items of a level run concurrently, every step   *)
(* may fail, with or without its effect, the process may die, and an       *)
(* operator may stop or remove things behind the tool's back.              *)
(*                                                                         *)
(* The engine is module Engine's, reduced to two levels: the instance is   *)
(* reconciled before its items and deleted after them.  The manifest of a  *)
(* resource is its generation.                                             *)
(***************************************************************************)
EXTENDS Integers, ProviderPrograms

CONSTANTS Kinds,     \* the provider types the behaviours are about
          Item,      \* the resources that name the Provider
          Lone,      \* the one of them for types whose items do not interact
          Retain,    \* the items whose deletionPolicy is retain
          MaxEdits, MaxFaults, MaxMeddling,  \* bounds on a behaviour
          MaxMishaps                         \* on faults and meddling, where items interact

ASSUME ProvidersAssumption == /\ Kinds \subseteq Types
                              /\ Retain \subseteq Item
                              /\ Lone \in Item
                              /\ "instance" \notin Item
                              /\ {MaxEdits, MaxFaults, MaxMeddling, MaxMishaps} \subseteq Nat

Inst == "instance"
Res == {Inst} \cup Item
Ordinals == 0..2
Nodes(g) == IF g = 1 THEN {0} ELSE Ordinals    \* a set of 1 node, or of 3
Absent == <<0, 0>>                             \* no container

VARIABLES
  type,           \* the Provider's type
  want,           \* generation in the manifests, 0 if undeclared
  facts,          \* what other resources publish, for Rendered types
  rec,            \* generation recorded in the state, 0 if none
  cmd, plan,      \* the command, and how far each entry is
  todo,           \* the steps left of each running entry
  box, up,        \* the instance's container, as <<generation, facts>>
  aux,            \* the second workload, likewise
  vol,            \* the data volume exists
  nodes,          \* ordinals of a node set
  own,            \* generation of each item's container, 0 if none
  live,           \* the facets of each item that exist
  snap,           \* the lifecycle configuration an item has read
  pki,            \* ingress on Kubernetes: the CA, who signed each leaf, the CA
                  \* an item works with, and the items recorded as not Ready
  outcome,        \* how the last command ended
  tainted,        \* a reconcile began and has not succeeded since
  undercut,       \* another entry's step took something away from it
  left,           \* deleted from the state, but not from the world
  quiet,          \* no meddling since the command began
  edits, faults, meddling

world == <<box, up, aux, vol, nodes, own, live, snap, pki, undercut, left>>
manifests == <<type, want, facts, edits>>
vars == <<type, want, facts, rec, cmd, plan, todo, box, up, aux, vol, nodes, own, live, snap,
          pki, outcome, tainted, undercut, left, quiet, edits, faults, meddling>>
-----------------------------------------------------------------------------
Serving == IF type \in Sets THEN nodes # {} ELSE box # Absent /\ up
DesiredBox == <<want[Inst], IF type \in Rendered THEN facts ELSE 1>>
(* Datasets share a bucket, Connections a CA and Catalogs the instance's     *)
(* environment; other items touch nothing of each other.                    *)
Items == IF type \in {"s3", "ingressKube", "nessie"} THEN Item ELSE IF HasItems(type) THEN {Lone} ELSE {}
Desired(i) == Demand(type, want[i])
(* The environment that a Catalog's warehouse gives the instance. *)
hasWarehouse(i) == type = "nessie" /\ nessie_warehouse(want[i])
WarehouseBox(i) == <<want[Inst], IF i = Lone THEN 2 ELSE 3>>
Lineage == IF type = "debezium" THEN {"lineage"} ELSE {}
(* The state a process without a volume loses when it ends. *)
Forget == live' = IF home(type) = "memory" THEN [i \in Item |-> {}] ELSE live

(* Provider.Probe: TRUE when it reports no drift.                           *)
probeTopic(i) == live[i] = Desired(i)
redpanda_Probe(i) == Serving /\ probeTopic(i)
probeLifecycleDrift(i) == "rule" \in Desired(i) /\ "rule" \notin live[i]
s3_Probe(i) == Serving /\ "bucket" \in live[i] /\ ~probeLifecycleDrift(i)
postgres_Probe(i) == Serving /\ {"database", "role"} \subseteq live[i]
mysql_Probe(i) == Serving /\ {"database", "role"} \subseteq live[i]
nessie_Probe(i) == Serving /\ Desired(i) \subseteq live[i]      \* the branch exists
routesEquivalent(i) == ingress_desiredRoute(want[i]) = live[i] \ {"cert"}
ingress_Probe(i) == Serving /\ routesEquivalent(i) /\ "cert" \in live[i]
(* The route, whether it has TLS, and the chain of its certificate. *)
certChainsToCA(i) == pki.ca # 0 /\ pki.leaf[i] = pki.ca
probeConnectionKubernetes(i) ==
  live[i] = Desired(i) /\ ("tls" \in Desired(i) => certChainsToCA(i))
proxy_Probe(i) == own[i] # 0
wireguard_Probe(i) == own[i] # 0

(* The keys of the desired configuration are compared, no others. *)
ConnectorState(i) == IF live[i] = {} THEN "none" ELSE IF "FAILED" \in live[i] THEN "FAILED" ELSE "RUNNING"
connectorConfigDrift(i) == ~(Desired(i) \subseteq live[i])
(* Fault: the configuration is not compared. *)
connectorStateOnly(i) == Serving /\ ConnectorState(i) = "RUNNING"
probeConnector(i) == Serving /\ ConnectorState(i) = "RUNNING" /\ ~connectorConfigDrift(i)
debezium_Probe(i) == probeConnector(i)
jdbcsink_Probe(i) == probeConnector(i)
s3sink_Probe(i) == probeConnector(i)
s3source_Probe(i) == probeConnector(i)

ProbeItem(i) ==
  CASE type = "redpanda" -> redpanda_Probe(i)
    [] type = "s3" -> s3_Probe(i)
    [] type = "postgres" -> postgres_Probe(i)
    [] type = "mysql" -> mysql_Probe(i)
    [] type = "nessie" -> nessie_Probe(i)
    [] type = "debezium" -> debezium_Probe(i)
    [] type = "jdbcsink" -> jdbcsink_Probe(i)
    [] type = "s3sink" -> s3sink_Probe(i)
    [] type = "s3source" -> s3source_Probe(i)
    [] type = "ingress" -> ingress_Probe(i)
    [] type = "ingressKube" -> probeConnectionKubernetes(i)
    [] type = "proxy" -> proxy_Probe(i)
    [] type = "wireguard" -> wireguard_Probe(i)

diffScrapeConfig == box[2] # facts
prometheus_Probe == Serving /\ ~diffScrapeConfig
grafana_Probe == Serving /\ box[2] = facts
trino_Probe == Serving /\ aux # Absent /\ aux[1] = want[Inst] /\ box[2] = facts
openlineage_Probe == Serving /\ aux # Absent
container_Probe == Serving
probeExporter == aux # Absent
probeBrokerSet == Nodes(want[Inst]) \subseteq nodes
probeInstanceSet == Nodes(want[Inst]) \subseteq nodes

ProbeInstance ==
  CASE type = "prometheus" -> prometheus_Probe
    [] type = "grafana" -> grafana_Probe
    [] type = "trino" -> trino_Probe
    [] type \in {"postgres", "mysql"} -> Serving /\ probeExporter
    [] type = "openlineage" -> openlineage_Probe
    [] type = "container" -> container_Probe
    [] type = "redpandaSet" -> probeBrokerSet
    [] type = "s3Set" -> probeInstanceSet
    [] type \in Bare -> TRUE
    [] OTHER -> Serving

Probe(r) == IF r = Inst THEN ProbeInstance ELSE ProbeItem(r)
-----------------------------------------------------------------------------
(* The steps.  Each says what the world becomes; Able is when it can work   *)
(* at all, and a step that cannot makes its entry fail.                     *)

Doing(r, s) == todo[r] # <<>> /\ Head(todo[r]) = s
(* Steps that need no running instance. *)
Unaided == {"EnsureContainer", "ensureDerivedWarehouseConfig", "EnsureVolume", "EnsureSet", "EnsureOwn",
            "refuseShrink",
            "ensureLocalCA", "dropDriftedCatalog", "RemoveContainer", "RemoveVolume",
            "RemoveAux", "RemoveSet", "RemoveOwn", "ReturnIfRetained",
            "ReturnUnlessRunning", "ReturnUnlessReachable", "keepBranch", "getCA", "putCA", "putLeaf", "EnsureIngress",
            "RemoveIngress", "RemoveTLSSecret", "RemoveNetwork"}
Waits == {"WaitHealthy", "waitSchemaRegistryReady", "waitClusterFormed", "waitTopicSettled",
          "waitNodeSetServing", "waitReadyReachable", "waitAPIReady", "waitReady",
          "waitCoordinatorReady", "waitWorkersHealthy", "waitRouteServing",
          "waitForwarderServing", "waitTunnelServing",
          "verifyLogicalWAL", "verifyBinlog", "topicDial", "resolveDatasetDial", "ReachableAddr",
          "workerURLs", "preflight", "refuseShrink", "ensureSuperuser", "ensureMonitoringUser",
          "ensureAdminCredential"}

(* Ordinals at and above the declared count are looked for one by one until *)
(* the first that is missing.                                               *)
(* Fault: the set is not scanned. *)
shrinkAllowed == TRUE
refuseShrink == want[Inst] = 1 => 1 \notin nodes
shrinks(i) == ~(live[i] \subseteq Desired(i))

(* What the waits and dials wait for.  They give up after a time, which is  *)
(* a failure of the step.                                                   *)
waitClusterFormed == Nodes(want[Inst]) \subseteq nodes     \* every broker sees n brokers
waitNodeSetServing == 0 \in nodes                          \* ordinal 0 lists buckets
waitTopicSettled(i) == probeTopic(i)
waitReady == ~diffScrapeConfig                             \* as many active targets as declared
waitForwarderServing(i) == own[i] # 0
waitTunnelServing(i) == own[i] # 0
waitRouteServing(i) == live[i] \ {"cert"} # {}

Able(r) ==
  LET s == Head(todo[r])
  IN CASE s = "refuseShrink" -> refuseShrink
       [] s = "waitClusterFormed" -> waitClusterFormed
       [] s = "waitNodeSetServing" -> waitNodeSetServing
       [] s = "ensureTopic" -> Serving /\ ~shrinks(r)
       [] s = "waitTopicSettled" -> Serving /\ waitTopicSettled(r)
       [] s = "waitReady" -> Serving /\ waitReady
       [] s = "waitForwarderServing" -> waitForwarderServing(r)
       [] s = "waitTunnelServing" -> waitTunnelServing(r)
       [] s = "waitRouteServing" -> Serving /\ waitRouteServing(r)
       [] s = "waitWorkersHealthy" -> aux # Absent
       [] s = "EnsureAux" -> type = "openlineage" \/ Serving
       [] s = "ConfigureLineage" -> Serving /\ live[r] # {}
       [] s = "WaitConnectorRunning" -> Serving /\ ConnectorState(r) # "none"
       [] OTHER -> s \in Unaided \/ Serving

EnsureVolume(r) == /\ Doing(r, "EnsureVolume") /\ vol' = TRUE
                   /\ UNCHANGED <<box, up, aux, nodes, own, live, snap, pki, undercut, left>>

(* A container that differs is removed and created, one that is stopped is  *)
(* started, one that runs and matches is left alone.                        *)
EnsureContainer(r) ==
  /\ Doing(r, "EnsureContainer")
  /\ box' = DesiredBox /\ up' = TRUE
  /\ IF box = DesiredBox /\ up THEN UNCHANGED <<live, undercut>>
     ELSE Forget /\ undercut' = undercut \cup {i \in Item : hasWarehouse(i)}
  /\ UNCHANGED <<aux, vol, nodes, own, snap, pki, left>>
(* A Catalog with a warehouse ensures the instance again, with another       *)
(* environment: the container is replaced, and what is in its memory lost.   *)
ensureDerivedWarehouseConfig(i) ==
  /\ Doing(i, "ensureDerivedWarehouseConfig")
  /\ IF hasWarehouse(i) /\ (box # WarehouseBox(i) \/ ~up)
     THEN /\ box' = WarehouseBox(i) /\ up' = TRUE /\ Forget
          /\ undercut' = (undercut \cup Items) \ {i}
     ELSE UNCHANGED <<box, up, live>> /\ undercut' = undercut \ {i}
  /\ UNCHANGED <<aux, vol, nodes, own, snap, pki, left>>
EnsureCut(r) ==
  /\ box # Absent
  /\ \/ Doing(r, "EnsureContainer") /\ box # DesiredBox
     \/ Doing(r, "ensureDerivedWarehouseConfig") /\ hasWarehouse(r) /\ box # WarehouseBox(r)
  /\ box' = Absent /\ up' = FALSE /\ Forget
  /\ UNCHANGED <<aux, vol, nodes, own, snap, pki, undercut, left>>
EnsureAux(r) == /\ Doing(r, "EnsureAux") /\ aux' = DesiredBox
                /\ UNCHANGED <<box, up, vol, nodes, own, live, snap, pki, undercut, left>>
EnsureSet(r) == /\ Doing(r, "EnsureSet")
                /\ nodes' = Nodes(want[Inst]) /\ box' = DesiredBox /\ up' = TRUE /\ vol' = TRUE
                /\ UNCHANGED <<aux, own, live, snap, pki, undercut, left>>
EnsureOwn(i) == /\ Doing(i, "EnsureOwn") /\ own' = [own EXCEPT ![i] = want[i]]
                /\ UNCHANGED <<box, up, aux, vol, nodes, live, snap, pki, undercut, left>>

(* Remove's error is dropped. *)
coordinatorCatalogDrifted == box # Absent /\ box[2] # facts
dropDriftedCatalog(r) ==
  /\ Doing(r, "dropDriftedCatalog")
  /\ \/ coordinatorCatalogDrifted /\ box' = Absent /\ up' = FALSE
     \/ UNCHANGED <<box, up>>
  /\ UNCHANGED <<aux, vol, nodes, own, live, snap, pki, undercut, left>>

(* The CA of the running proxy is read back; without it a new one is made,   *)
(* which changes the container's files and so replaces the container.        *)
ensureLocalCA(r) ==
  /\ Doing(r, "ensureLocalCA")
  /\ \/ UNCHANGED <<box, up, live>>
     \/ box # Absent /\ box' = Absent /\ up' = FALSE /\ Forget
  /\ UNCHANGED <<aux, vol, nodes, own, snap, pki, undercut, left>>

Put(i, facets) == live' = [live EXCEPT ![i] = facets]
Changed(i, s, facets) == /\ Doing(i, s) /\ Put(i, facets)
                         /\ UNCHANGED <<box, up, aux, vol, nodes, own, snap, pki, undercut, left>>

ensureTopic(i) == Changed(i, "ensureTopic", Desired(i))
deleteTopic(i) == Changed(i, "deleteTopic", {})
ensureDatabase(i) == Changed(i, "ensureDatabase", live[i] \cup {"database"})
ensureReplicationRole(i) == Changed(i, "ensureReplicationRole", live[i] \cup {"role"})
ensureReplicationUser(i) == Changed(i, "ensureReplicationUser", live[i] \cup {"role"})
ensurePublication(i) == Changed(i, "ensurePublication", live[i] \cup {"publication"})
dropDatabase(i) == Changed(i, "dropDatabase", {})
ensureBranch(i) == Changed(i, "ensureBranch", live[i] \cup Desired(i))
ensureRoute(i) ==
  Changed(i, "ensureRoute", (live[i] \cap {"cert"}) \cup ingress_desiredRoute(want[i]))
ensureCert(i) == Changed(i, "ensureCert", live[i] \cup {"cert"})
deleteRoute(i) == Changed(i, "deleteRoute", live[i] \cap {"cert"})
deleteCert(i) == Changed(i, "deleteCert", live[i] \ {"cert"})

(* A configuration is replaced; a failed connector whose configuration did  *)
(* not change stays failed until WaitConnectorRunning restarts it.          *)
PutConnectorConfig(i) ==
  Changed(i, "PutConnectorConfig",
          Desired(i) \cup IF live[i] \ {"FAILED"} = Desired(i) THEN live[i] \cap {"FAILED"} ELSE {})
WaitConnectorRunning(i) == Changed(i, "WaitConnectorRunning", live[i] \ {"FAILED"})
(* The configuration is read, extended and written back. *)
ConfigureLineage(i) == Changed(i, "ConfigureLineage", live[i] \cup {"lineage"})
DeleteConnector(i) == Changed(i, "DeleteConnector", {})

(* The Datasets share one bucket, and so its lifecycle configuration.        *)
Rules == {i \in Item : "rule" \in live[i]}
ensureBucket(i) ==
  /\ Doing(i, "ensureBucket")
  /\ live' = [j \in Item |-> live[j] \cup {"bucket"}]
  /\ UNCHANGED <<box, up, aux, vol, nodes, own, snap, pki, undercut, left>>
getLifecycleConfig(i) ==
  /\ Doing(i, "getLifecycleConfig") /\ snap' = [snap EXCEPT ![i] = Rules]
  /\ UNCHANGED <<box, up, aux, vol, nodes, own, live, pki, undercut, left>>
(* Written when the Dataset's own rule is missing: the whole configuration.  *)
setLifecycle(i) ==
  /\ Doing(i, "setLifecycle")
  /\ snap' = [snap EXCEPT ![i] = {}]
  /\ IF "rule" \in Desired(i) /\ i \notin snap[i]
     THEN /\ live' = [j \in Item |-> IF j \in snap[i] \cup {i} THEN live[j] \cup {"rule"}
                                     ELSE live[j] \ {"rule"}]
          /\ undercut' = undercut \cup (Rules \ (snap[i] \cup {i}))
     ELSE UNCHANGED <<live, undercut>>
  /\ UNCHANGED <<box, up, aux, vol, nodes, own, pki, left>>
(* The objects go; the bucket goes with them unless others are in it.        *)
removeDataset(i) ==
  /\ Doing(i, "removeDataset")
  /\ \/ /\ live' = [j \in Item |-> {}]
        /\ undercut' = undercut \cup {j \in Item \ {i} : live[j] # {}}
        /\ UNCHANGED left
     \/ /\ Item # {i} /\ left' = left \cup {i} /\ UNCHANGED <<live, undercut>>
  /\ UNCHANGED <<box, up, aux, vol, nodes, own, snap, pki>>

(* resolveCertKubernetes: the CA is read, or made when there is none; then    *)
(* the certificate is kept if that CA signed it, or made.  EnsureTLSSecret    *)
(* writes over a Secret it has found, but takes one created meanwhile for     *)
(* its own.                                                                   *)
InTLS(i) == "tls" \in Desired(i)
NewCA == CHOOSE n \in 1..7 : n # pki.ca /\ \A j \in Item : n \notin {pki.leaf[j], pki.hold[j]}
CertStep(i, s, p) == /\ Doing(i, s) /\ pki' = IF InTLS(i) THEN p ELSE pki
                     /\ UNCHANGED <<box, up, aux, vol, nodes, own, live, snap, left>>
getCA(i) ==
  /\ CertStep(i, "getCA", [pki EXCEPT !.hold[i] = IF pki.ca # 0 THEN pki.ca ELSE NewCA])
  /\ UNCHANGED undercut
putCA(i) ==
  \/ /\ CertStep(i, "putCA", [pki EXCEPT !.ca = pki.hold[i]])
     /\ undercut' = undercut \cup {j \in Item : pki.ca # 0 /\ pki.ca # pki.hold[i] /\ j # i}
  \/ /\ pki.ca \notin {0, pki.hold[i]} /\ CertStep(i, "putCA", pki)
     /\ undercut' = IF InTLS(i) THEN undercut \cup {i} ELSE undercut
putLeaf(i) == /\ CertStep(i, "putLeaf", [pki EXCEPT !.leaf[i] = pki.hold[i]])
              /\ UNCHANGED undercut

(* Without a certificate the Ingress is written without TLS, the resource is *)
(* recorded as not Ready, and the reconcile succeeds.                        *)
EnsureIngress(i) ==
  /\ Doing(i, "EnsureIngress")
  /\ Put(i, IF pki.hold[i] = -1 THEN Desired(i) \ {"tls"} ELSE Desired(i))
  /\ pki' = [pki EXCEPT !.hold[i] = 0,
                        !.unready = IF pki.hold[i] = -1 THEN @ \cup {i} ELSE @ \ {i}]
  /\ UNCHANGED <<box, up, aux, vol, nodes, own, snap, undercut, left>>
RemoveIngress(i) == Changed(i, "RemoveIngress", {})
RemoveTLSSecret(i) == /\ Doing(i, "RemoveTLSSecret") /\ pki' = [pki EXCEPT !.leaf[i] = 0]
                      /\ UNCHANGED <<box, up, aux, vol, nodes, own, live, snap, undercut, left>>
(* The namespace goes, with all that is in it, unless a workload is in it;   *)
(* the error is dropped.                                                     *)
RemoveNetwork(r) ==
  /\ Doing(r, "RemoveNetwork")
  /\ \/ /\ pki' = [pki EXCEPT !.ca = 0, !.leaf = [i \in Item |-> 0]]
        /\ live' = [i \in Item |-> {}]
     \/ UNCHANGED <<pki, live>>
  /\ UNCHANGED <<box, up, aux, vol, nodes, own, snap, undercut, left>>

RemoveContainer(r) == /\ Doing(r, "RemoveContainer")
                      /\ box' = Absent /\ up' = FALSE /\ Forget
                      /\ UNCHANGED <<aux, vol, nodes, own, snap, pki, undercut, left>>
RemoveAux(r) == /\ Doing(r, "RemoveAux") /\ aux' = Absent
                /\ UNCHANGED <<box, up, vol, nodes, own, live, snap, pki, undercut, left>>
RemoveVolume(r) == /\ Doing(r, "RemoveVolume") /\ vol' = FALSE
                   /\ live' = IF home(type) = "volume" THEN [i \in Item |-> {}] ELSE live
                   /\ UNCHANGED <<box, up, aux, nodes, own, snap, pki, undercut, left>>
RemoveSet(r) == /\ Doing(r, "RemoveSet") /\ nodes' = {} /\ box' = Absent /\ up' = FALSE
                /\ UNCHANGED <<aux, vol, own, live, snap, pki, undercut, left>>
RemoveOwn(i) == /\ Doing(i, "RemoveOwn") /\ own' = [own EXCEPT ![i] = 0]
                /\ UNCHANGED <<box, up, aux, vol, nodes, live, snap, pki, undercut, left>>

(* Steps that only look: their condition is in Able.  (ensureSuperuser and   *)
(* the monitoring role are module Rotation's.)                               *)
Looks(r) == Head(todo[r]) \in Waits /\ UNCHANGED world

Effect(r) ==
  \/ EnsureVolume(r) \/ EnsureContainer(r) \/ EnsureAux(r) \/ EnsureSet(r) \/ dropDriftedCatalog(r)
  \/ ensureLocalCA(r) \/ RemoveContainer(r) \/ RemoveAux(r) \/ RemoveVolume(r) \/ RemoveSet(r)
  \/ RemoveNetwork(r)
  \/ Looks(r)
  \/ /\ r \in Item
     /\ \/ ensureDerivedWarehouseConfig(r)
        \/ EnsureOwn(r) \/ RemoveOwn(r) \/ ensureTopic(r) \/ deleteTopic(r) \/ ensureDatabase(r)
        \/ ensureReplicationRole(r) \/ ensureReplicationUser(r) \/ ensurePublication(r) \/ dropDatabase(r) \/ ensureBranch(r)
        \/ ensureRoute(r) \/ ensureCert(r) \/ deleteRoute(r) \/ deleteCert(r)
        \/ PutConnectorConfig(r) \/ WaitConnectorRunning(r) \/ ConfigureLineage(r)
        \/ DeleteConnector(r) \/ ensureBucket(r) \/ getLifecycleConfig(r) \/ setLifecycle(r)
        \/ removeDataset(r) \/ getCA(r) \/ putCA(r) \/ putLeaf(r) \/ EnsureIngress(r)
        \/ RemoveIngress(r) \/ RemoveTLSSecret(r)
-----------------------------------------------------------------------------
(* The engine.  An entry is planned as noop, reconcile or delete, then runs, *)
(* then is done or failed.                                                   *)

Ended == {"none", "done", "failed"}
Level(r) == IF plan[r] \in {"delete", "deleting"}
            THEN IF r = Inst THEN 4 ELSE 3
            ELSE IF r = Inst THEN 1 ELSE 2
CanBegin(r) == /\ plan[r] \in {"noop", "reconcile", "delete"}
               /\ \A q \in Res : plan[q] \in Ended \/ Level(q) >= Level(r)

(* An item's entry is skipped when the instance failed; in a destroy the     *)
(* instance's is when an item failed.                                        *)
Blocked(r) == \/ r # Inst /\ plan[r] # "delete" /\ plan[Inst] = "failed"
              \/ r = Inst /\ cmd = "destroy" /\ \E i \in Item : plan[i] = "failed"

Init ==
  /\ type \in Kinds
  /\ want = [r \in Res |-> IF r \in {Inst} \cup Items THEN 1 ELSE 0]
  /\ facts = 1
  /\ rec = [r \in Res |-> 0]
  /\ cmd = "idle" /\ plan = [r \in Res |-> "none"] /\ todo = [r \in Res |-> <<>>]
  /\ box = Absent /\ up = FALSE /\ aux = Absent /\ vol = FALSE /\ nodes = {}
  /\ own = [i \in Item |-> 0] /\ live = [i \in Item |-> {}] /\ snap = [i \in Item |-> {}]
  /\ pki = [ca |-> 0, leaf |-> [i \in Item |-> 0], hold |-> [i \in Item |-> 0], unready |-> {}]
  /\ outcome = "none" /\ tainted = {} /\ undercut = {} /\ left = {} /\ quiet = TRUE
  /\ edits = 0 /\ faults = 0 /\ meddling = 0

(* A probe finds what another entry took away, but not a warehouse. *)
Unnoticed == {i \in undercut : hasWarehouse(i)}

StartApply ==
  /\ cmd = "idle"
  /\ cmd' = "apply" /\ outcome' = "running" /\ quiet' = TRUE
  /\ undercut' = Unnoticed
  /\ plan' = [r \in Res |->
       CASE want[r] = 0 /\ rec[r] = 0 -> "none"
         [] want[r] = 0 /\ rec[r] # 0 -> "delete"
         [] want[r] # 0 /\ rec[r] = want[r] /\ rec[Inst] = want[Inst] -> "noop"
         [] OTHER -> "reconcile"]
  /\ UNCHANGED <<manifests, rec, todo, box, up, aux, vol, nodes, own, live, snap, pki, tainted, left,
                 faults, meddling>>

StartDestroy ==
  /\ cmd = "idle"
  /\ \E r \in Res : want[r] # 0 /\ rec[r] # 0
  /\ cmd' = "destroy" /\ outcome' = "running" /\ quiet' = TRUE /\ undercut' = Unnoticed
  /\ plan' = [r \in Res |-> IF want[r] # 0 /\ rec[r] # 0 THEN "delete" ELSE "none"]
  /\ UNCHANGED <<manifests, rec, todo, box, up, aux, vol, nodes, own, live, snap, pki, tainted, left,
                 faults, meddling>>

Settle(r, p) == /\ plan' = [plan EXCEPT ![r] = p] /\ todo' = [todo EXCEPT ![r] = <<>>]
                /\ UNCHANGED <<manifests, cmd, outcome, quiet, meddling>>

Skip(r) == /\ CanBegin(r) /\ Blocked(r) /\ Settle(r, "failed")
           /\ UNCHANGED <<world, rec, tainted, faults>>

(* processEntry's drift check of an entry without a change. *)
Noop(r) == /\ CanBegin(r) /\ ~Blocked(r) /\ plan[r] = "noop" /\ Probe(r)
           /\ Settle(r, "done")
           /\ UNCHANGED <<world, rec, tainted, faults>>

Begin(r) ==
  /\ CanBegin(r) /\ ~Blocked(r)
  /\ plan[r] = "noop" => ~Probe(r)
  /\ plan' = [plan EXCEPT ![r] = IF @ = "delete" THEN "deleting" ELSE "reconciling"]
  /\ todo' = [todo EXCEPT ![r] =
       IF plan[r] = "delete"
       THEN IF r = Inst THEN DestroyInstance(type) ELSE DestroyItem(type)
       ELSE IF r = Inst THEN ReconcileInstance(type) ELSE ReconcileItem(type)]
  /\ tainted' = IF plan[r] = "delete" THEN tainted ELSE tainted \cup {r}
  /\ left' = left \ {r}
  /\ UNCHANGED <<manifests, rec, cmd, box, up, aux, vol, nodes, own, live, snap, pki, undercut, outcome,
                 quiet, faults, meddling>>

Running(r) == plan[r] \in {"reconciling", "deleting"}

Proceed(r) ==
  /\ Running(r) /\ todo[r] # <<>> /\ Able(r) /\ Effect(r)
  /\ todo' = [todo EXCEPT ![r] = Tail(@)]
  /\ UNCHANGED <<manifests, rec, cmd, plan, outcome, tainted, quiet, faults, meddling>>

(* The early returns of Destroy: it succeeds without the rest. *)
ReturnsEarly(r) ==
  \/ Doing(r, "ReturnIfRetained") /\ r \in Retain
  \/ Doing(r, "ReturnUnlessRunning") /\ ~Serving
  \/ Doing(r, "ReturnUnlessReachable") /\ ~Serving
  \/ Doing(r, "keepBranch")
Return(r) ==
  /\ Running(r) /\ ReturnsEarly(r)
  /\ todo' = [todo EXCEPT ![r] = <<>>]
  /\ left' = IF r \in Item /\ live[r] # {} THEN left \cup {r} ELSE left
  /\ UNCHANGED <<manifests, rec, cmd, plan, box, up, aux, vol, nodes, own, live, snap, pki, undercut,
                 outcome, tainted, quiet, faults, meddling>>
GoOn(r) ==
  /\ Running(r) /\ ~ReturnsEarly(r)
  /\ \E s \in {"ReturnIfRetained", "ReturnUnlessRunning", "ReturnUnlessReachable"} : Doing(r, s)
  /\ todo' = [todo EXCEPT ![r] = Tail(@)]
  /\ UNCHANGED <<manifests, world, rec, cmd, plan, outcome, tainted, quiet, faults, meddling>>

(* The program has run: the state is updated and saved. *)
Record(r) ==
  /\ Running(r) /\ todo[r] = <<>>
  /\ rec' = [rec EXCEPT ![r] = IF plan[r] = "deleting" THEN 0 ELSE want[r]]
  /\ tainted' = tainted \ {r}
  /\ Settle(r, "done")
  /\ UNCHANGED <<world, faults>>

(* Where items interact, MaxMishaps bounds the mishaps of both kinds together. *)
Within == Items = Item => faults + meddling < MaxMishaps
Fault == faults < MaxFaults /\ Within /\ faults' = faults + 1
Intrusion == meddling < MaxMeddling /\ Within /\ meddling' = meddling + 1

(* A step that cannot work, or that fails for a reason of its own: before    *)
(* or after its effect, or half way through a replacement.                   *)
Stuck(r) == /\ Running(r) /\ todo[r] # <<>> /\ ~Able(r) /\ Settle(r, "failed")
            /\ UNCHANGED <<world, rec, tainted, faults>>
CertSteps == {"getCA", "putCA", "putLeaf"}
Fails(r) == /\ Running(r) /\ todo[r] # <<>> /\ Head(todo[r]) \notin CertSteps
            /\ Fault
            /\ \/ UNCHANGED world
               \/ Able(r) /\ Effect(r)
               \/ EnsureCut(r)
            /\ Settle(r, "failed")
            /\ UNCHANGED <<rec, tainted>>
(* No certificate is no failure of the reconcile. *)
CertFails(i) ==
  /\ Running(i) /\ todo[i] # <<>> /\ Head(todo[i]) \in CertSteps /\ InTLS(i)
  /\ Fault
  /\ pki' = [pki EXCEPT !.hold[i] = -1]
  /\ todo' = [todo EXCEPT ![i] = <<"EnsureIngress">>]
  /\ UNCHANGED <<manifests, rec, cmd, plan, box, up, aux, vol, nodes, own, live, snap, undercut,
                 left, outcome, tainted, quiet, meddling>>

(* What matters of a leaf between commands is whether it chains to the CA:   *)
(* 1 stands for the CA that is there, and 2 for all that were.               *)
Certificates ==
  [pki EXCEPT !.hold = [i \in Item |-> 0], !.ca = IF @ = 0 THEN 0 ELSE 1,
              !.leaf = [i \in Item |-> IF @[i] = 0 THEN 0 ELSE IF @[i] = pki.ca THEN 1 ELSE 2]]
Exit(o) == /\ cmd' = "idle" /\ outcome' = o
           /\ plan' = [r \in Res |-> "none"] /\ todo' = [r \in Res |-> <<>>]
           /\ snap' = [i \in Item |-> {}] /\ pki' = Certificates
           /\ UNCHANGED <<manifests, rec, box, up, aux, vol, nodes, own, live, undercut, left,
                          tainted, quiet, meddling>>
Finish == /\ cmd # "idle" /\ \A r \in Res : plan[r] \in Ended
          /\ Exit(IF \E r \in Res : plan[r] = "failed" THEN "failed"
                  ELSE IF cmd = "apply" THEN "applied" ELSE "destroyed")
          /\ UNCHANGED faults
Crash == /\ cmd # "idle" /\ Fault /\ Exit("crashed")
-----------------------------------------------------------------------------
(* The manifests change between commands. *)
Edit ==
  /\ cmd = "idle" /\ edits < MaxEdits /\ edits' = edits + 1
  /\ \/ \E r \in Res, g \in 0..2 :
          /\ g # want[r]
          /\ r # Inst => r \in Items /\ want[Inst] # 0
          /\ want' = [q \in Res |-> IF q = r THEN g ELSE IF r = Inst /\ g = 0 THEN 0 ELSE want[q]]
          /\ UNCHANGED facts
     \/ type \in Rendered /\ facts' = 3 - facts /\ UNCHANGED want
  /\ outcome' = "none"
  /\ UNCHANGED <<type, rec, cmd, plan, todo, world, tainted, quiet, faults, meddling>>

(* Somebody stops or removes something behind the tool's back. *)
Meddle ==
  /\ Intrusion
  /\ quiet' = FALSE
  /\ \/ up /\ type \notin Sets /\ up' = FALSE /\ Forget /\ UNCHANGED <<box, aux, nodes, own>>
     \/ box # Absent /\ type \notin Sets /\ box' = Absent /\ up' = FALSE /\ Forget
        /\ UNCHANGED <<aux, nodes, own>>
     \/ aux # Absent /\ aux' = Absent /\ UNCHANGED <<box, up, nodes, own, live>>
     \/ \E n \in nodes : nodes' = nodes \ {n} /\ UNCHANGED <<box, up, aux, own, live>>
     \/ \E i \in Item : own[i] # 0 /\ own' = [own EXCEPT ![i] = 0]
                        /\ UNCHANGED <<box, up, aux, nodes, live>>
     \/ \E i \in Item : /\ live[i] # {} /\ type # "s3"
                        /\ type = "ingressKube" => cmd = "idle"
                        /\ \/ Put(i, {})
                           \/ type \in Connectors /\ Put(i, live[i] \cup {"FAILED"})
                        /\ UNCHANGED <<box, up, aux, nodes, own>>
  /\ outcome' = IF cmd = "idle" THEN "none" ELSE outcome
  /\ UNCHANGED <<manifests, rec, cmd, plan, todo, vol, snap, pki, undercut, left, tainted, faults>>
(* Somebody removes the CA's Secret. *)
LoseCA == /\ cmd = "idle" /\ pki.ca # 0 /\ Intrusion
          /\ pki' = [pki EXCEPT !.ca = 0]
          /\ quiet' = FALSE /\ outcome' = "none"
          /\ UNCHANGED <<manifests, rec, cmd, plan, todo, box, up, aux, vol, nodes, own, live, snap,
                         undercut, left, tainted, faults>>

Next == \/ StartApply \/ StartDestroy \/ Finish \/ Crash \/ Edit \/ Meddle \/ LoseCA
        \/ \E r \in Res : \/ Skip(r) \/ Noop(r) \/ Begin(r) \/ Proceed(r) \/ Return(r) \/ GoOn(r)
                          \/ Record(r) \/ Stuck(r) \/ Fails(r)
        \/ \E i \in Item : CertFails(i)
Spec == Init /\ [][Next]_vars
-----------------------------------------------------------------------------
(* What the manifests ask for exists as asked; a warehouse that its Catalog  *)
(* no longer names stays in the environment.                                 *)
DerivedBoxes == IF type = "nessie" THEN {WarehouseBox(i) : i \in Item} ELSE {}
Realized(r) ==
  IF r = Inst
  THEN /\ type \notin Bare => box \in {DesiredBox} \cup DerivedBoxes
       /\ type \in HasAux => aux = DesiredBox
       /\ type \in Sets => nodes = Nodes(want[Inst])
  ELSE /\ Desired(r) \cup Lineage \subseteq live[r]
       /\ hasWarehouse(r) => box = WarehouseBox(r)
       /\ type \in Proxies => own[r] = want[r]
       /\ (type = "ingressKube" /\ InTLS(r)) => certChainsToCA(r)

(* What a Probe does not compare: an instance's container with its spec, a   *)
(* forwarder's container, the publication, the lineage settings.             *)
Blind(r) == r = Inst \/ type \in Proxies \cup {"debezium", "postgres"}

(* An apply that reports success has made the world what the manifests say,  *)
(* and a probe agrees: whatever was drifted, recreated, half done by a run   *)
(* that died, or lost with the instance's memory while the instance itself   *)
(* was being healed.  What the state itself records as not Ready is not      *)
(* claimed, nor the part a Probe does not compare, when an earlier reconcile *)
(* of the resource failed and the manifest was then changed back, so that    *)
(* nothing is planned.  Nor is what another entry of the same apply took     *)
(* away (undercut), which the code does not prevent:                         *)
(*  - a Dataset's write of the bucket's lifecycle loses a rule that another  *)
(*    Dataset has put since it was read, though bucket.go:206-213 promises   *)
(*    never to clobber a sibling's rule; and its removal may take the bucket;*)
(*  - Connections that make a CA at the same time replace each other's;      *)
(*  - a Catalog's warehouse replaces the instance's container, with another  *)
(*    Catalog's warehouse or branch.                                         *)
(* The next apply has to make up for the first two and for the branch: a     *)
(* probe finds them.  The warehouse no probe compares (nessie.go:276-278     *)
(* says so), and it stays lost, also when the instance is healed alone.      *)
ApplyConverges ==
  (outcome = "applied" /\ quiet) =>
     \A r \in Res : want[r] # 0 =>
       \/ r \in undercut \cup pki.unready
       \/ Probe(r) /\ (Realized(r) \/ (r \in tainted /\ Blind(r)))

(* What is left of an item, apart from a bucket another Dataset uses. *)
Remains(i) ==
  live[i] \ IF type = "s3" /\ \E j \in Item \ {i} : rec[j] # 0 \/ j \in tainted \cup left
            THEN {"bucket"} ELSE {}

(* What a successful apply or destroy has dropped from the state is gone     *)
(* from the world: containers, exporters, volumes, nodes and, unless Destroy *)
(* returned early (left), the item.  A resource whose first reconcile failed *)
(* was never recorded and is not meant.                                      *)
NothingLeftBehind ==
  (outcome \in {"applied", "destroyed"} /\ quiet) =>
     /\ (rec[Inst] = 0 /\ Inst \notin tainted) => box = Absent /\ aux = Absent /\ nodes = {} /\ ~vol
     /\ \A i \in Item : (rec[i] = 0 /\ i \notin tainted \cup left) =>
          Remains(i) = {} /\ own[i] = 0 /\ pki.leaf[i] = 0

(* No step of an apply takes away an item that lives in a volume or in       *)
(* Kafka, or a node of a set: that needs a destroy of it or of its instance, *)
(* somebody else's act, or a Dataset's neighbour (undercut).  A set that has *)
(* a gap is not meant: refuseShrink does not look past it.                   *)
Destroying(r) == plan[r] = "deleting"
DataKept ==
  [][/\ \A i \in Item :
          (home(type) \in {"volume", "kafka"} /\ live[i] # {} /\ live'[i] = {})
             => Destroying(i) \/ Destroying(Inst) \/ meddling' # meddling \/ i \in undercut'
     /\ (nodes \in {Nodes(1), Nodes(2)} /\ ~(nodes \subseteq nodes'))
             => Destroying(Inst) \/ meddling' # meddling
    ]_vars
=============================================================================
