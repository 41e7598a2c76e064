-------------------------- MODULE ProviderPrograms --------------------------
(***************************************************************************)
(* What the provider adapters (internal/adapters/providers) do, step by    *)
(* step: for each function that Reconcile or Destroy dispatches to, the    *)
(* sequence of calls that read or change something outside the process.    *)
(* Module Providers gives the steps their meaning and runs them.           *)
(*                                                                         *)
(* A Provider resource is an instance (or, with a declared count, a set of *)
(* nodes); the resources that name it are its items: topics, Datasets,     *)
(* databases, catalogs, connectors, Connections.  A step is named after    *)
(* the function it stands for.                                             *)
(***************************************************************************)
EXTENDS Naturals, Sequences

Stores == {"redpanda", "s3", "postgres", "mysql"}
Connectors == {"debezium", "jdbcsink", "s3sink", "s3source"}
Proxies == {"proxy", "wireguard"}
(* Providers without a workload of their own. *)
Bare == Proxies \cup {"ingressKube"}
Observers == {"prometheus", "grafana", "trino", "openlineage"}
Sets == {"redpandaSet", "s3Set"}
Types == Stores \cup Connectors \cup Proxies \cup Observers \cup Sets
           \cup {"nessie", "ingress", "ingressKube", "container"}

(* Where an item of the type lives: in the instance's volume, in the memory *)
(* of its process, in Kafka, in a container of its own, or in the cluster.  *)
home(t) == CASE t \in Stores -> "volume"
             [] t \in {"nessie", "ingress"} -> "memory"
             [] t \in Connectors -> "kafka"
             [] t \in Proxies -> "container"
             [] t = "ingressKube" -> "cluster"
             [] OTHER -> "none"
HasItems(t) == home(t) # "none"

(* Types whose containers are rendered from what other resources published: *)
(* scrape targets, the datasource's address, the catalog's endpoint.        *)
Rendered == {"prometheus", "grafana", "trino"}

(* Types with a second workload: exporter, workers, database. *)
HasAux == {"postgres", "mysql", "trino", "openlineage"}
-----------------------------------------------------------------------------
(* providerkit.EnsureInstance: network, volume if any, container, health. *)
EnsureInstance(volume) == volume \o <<"EnsureContainer", "WaitHealthy">>
WithVolume == <<"EnsureVolume">>
NoVolume == <<>>

redpanda_reconcileBroker == EnsureInstance(WithVolume) \o <<"waitSchemaRegistryReady">>
redpanda_reconcileBrokerSet == <<"refuseShrink", "EnsureSet", "waitClusterFormed">>
redpanda_reconcileTopic == <<"topicDial", "ensureTopic", "waitTopicSettled">>
redpanda_DestroyTopic == <<"ReturnUnlessRunning", "topicDial", "deleteTopic">>

s3_reconcileInstance == EnsureInstance(WithVolume)
s3_reconcileInstanceSet == <<"refuseShrink", "EnsureSet", "waitNodeSetServing">>
s3_reconcileDataset ==
  <<"ensureBucket", "resolveDatasetDial", "getLifecycleConfig", "setLifecycle">>
s3_DestroyDataset ==
  <<"ReturnIfRetained", "ReturnUnlessRunning", "resolveDatasetDial", "removeDataset">>

postgres_reconcileInstance ==
  EnsureInstance(WithVolume) \o <<"ensureSuperuser", "ensureMonitoringUser", "EnsureAux">>
postgres_reconcileSource ==
  <<"waitReadyReachable", "ensureDatabase", "ensureReplicationRole", "ensurePublication",
    "verifyLogicalWAL">>
postgres_DestroySource ==
  <<"ReturnIfRetained", "ReturnUnlessRunning", "ReachableAddr", "dropDatabase">>

mysql_reconcileInstance ==
  EnsureInstance(WithVolume) \o <<"ensureSuperuser", "ensureMonitoringUser", "EnsureAux">>
mysql_reconcileSource ==
  <<"waitReadyReachable", "ensureDatabase", "ensureReplicationUser", "verifyBinlog">>
mysql_DestroySource ==
  <<"ReturnIfRetained", "ReturnUnlessRunning", "ReachableAddr", "dropDatabase">>

nessie_reconcileInstance == EnsureInstance(NoVolume) \o <<"waitAPIReady">>
nessie_reconcileCatalog ==
  <<"ensureDerivedWarehouseConfig", "waitAPIReady", "ReachableAddr", "ensureBranch">>
nessie_DestroyCatalog == <<"keepBranch">>

debezium_reconcileWorker == EnsureInstance(NoVolume)
debezium_reconcileConnector ==
  <<"preflight", "workerURLs", "PutConnectorConfig", "WaitConnectorRunning">>
debezium_ConfigureLineage == <<"workerURLs", "ConfigureLineage">>
jdbcsink_reconcileWorker == EnsureInstance(NoVolume)
jdbcsink_reconcileConnector ==
  <<"preflight", "workerURLs", "PutConnectorConfig", "WaitConnectorRunning">>
s3sink_reconcileWorker == EnsureInstance(NoVolume)
s3sink_reconcileConnector == <<"workerURLs", "PutConnectorConfig", "WaitConnectorRunning">>
s3source_reconcileWorker == EnsureInstance(NoVolume)
s3source_reconcileConnector == <<"workerURLs", "PutConnectorConfig", "WaitConnectorRunning">>
deleteBinding == <<"ReturnUnlessRunning", "workerURLs", "DeleteConnector">>
debezium_DestroyBinding == deleteBinding
jdbcsink_DestroyBinding == deleteBinding
s3sink_DestroyBinding == deleteBinding
s3source_DestroyBinding == deleteBinding

ingress_reconcileInstance == <<"ensureLocalCA">> \o EnsureInstance(NoVolume)
ingress_reconcileConnection ==
  <<"ReachableAddr", "ensureRoute", "ensureCert", "waitRouteServing">>
ingress_destroyConnection == <<"ReturnUnlessReachable", "deleteRoute", "deleteCert">>

(* On Kubernetes a Connection is an Ingress and, with TLS, a Secret whose    *)
(* certificate the Provider's CA has signed.                                 *)
ingressKube_reconcileInstance == <<>>
ingressKube_reconcileConnection == <<"getCA", "putCA", "putLeaf", "EnsureIngress">>
ingressKube_destroyConnection == <<"RemoveIngress", "RemoveTLSSecret">>
ingressKube_DestroyProvider == <<"RemoveNetwork">>

proxy_reconcileInstance == <<>>
proxy_reconcileConnection == <<"EnsureOwn", "waitForwarderServing">>
wireguard_reconcileInstance == <<>>
wireguard_reconcileConnection == <<"EnsureOwn", "waitTunnelServing">>
proxy_DestroyConnection == <<"RemoveOwn">>
wireguard_DestroyConnection == <<"RemoveOwn">>

prometheus_reconcileInstance == EnsureInstance(NoVolume) \o <<"waitReady">>
grafana_Reconcile == EnsureInstance(NoVolume) \o <<"waitAPIReady", "ensureAdminCredential">>
trino_reconcileInstance ==
  <<"dropDriftedCatalog">> \o EnsureInstance(NoVolume) \o
  <<"EnsureAux", "waitCoordinatorReady", "waitWorkersHealthy">>
container_Reconcile == EnsureInstance(WithVolume)
openlineage_Reconcile == <<"EnsureVolume", "EnsureAux", "EnsureContainer", "waitAPIReady">>

(* Fault: the exporter, the workers and the database are forgotten. *)
DestroyMainOnly(t) ==
  CASE t \in Sets -> <<"RemoveSet", "RemoveVolume">>
    [] t \in Bare -> <<>>
    [] t \in Stores \cup {"openlineage", "container"} -> <<"RemoveContainer", "RemoveVolume">>
    [] OTHER -> <<"RemoveContainer">>

(* The Provider case of Destroy; RemoveNetwork follows everywhere, and its   *)
(* error is dropped.                                                         *)
redpanda_DestroyProvider == <<"RemoveContainer", "RemoveVolume">>
s3_DestroyProvider == <<"RemoveContainer", "RemoveVolume">>
set_DestroyProvider == <<"RemoveSet", "RemoveVolume">>
postgres_DestroyProvider == <<"RemoveAux", "RemoveContainer", "RemoveVolume">>
mysql_DestroyProvider == <<"RemoveAux", "RemoveContainer", "RemoveVolume">>
trino_DestroyProvider == <<"RemoveContainer", "RemoveAux">>
container_DestroyProvider == <<"RemoveContainer", "RemoveVolume">>
openlineage_DestroyProvider == <<"RemoveContainer", "RemoveAux", "RemoveVolume">>
proxies_DestroyProvider == <<>>
nessie_DestroyProvider == <<"RemoveContainer">>
ingress_DestroyProvider == <<"RemoveContainer">>
grafana_DestroyProvider == <<"RemoveContainer">>
prometheus_DestroyProvider == <<"RemoveContainer">>
connectors_DestroyProvider == <<"RemoveContainer">>

DestroyInstance(t) ==
  CASE t = "redpanda" -> redpanda_DestroyProvider
    [] t = "s3" -> s3_DestroyProvider
    [] t \in Sets -> set_DestroyProvider
    [] t = "postgres" -> postgres_DestroyProvider
    [] t = "mysql" -> mysql_DestroyProvider
    [] t = "trino" -> trino_DestroyProvider
    [] t = "openlineage" -> openlineage_DestroyProvider
    [] t = "container" -> container_DestroyProvider
    [] t \in Proxies -> proxies_DestroyProvider
    [] t = "nessie" -> nessie_DestroyProvider
    [] t = "ingress" -> ingress_DestroyProvider
    [] t = "ingressKube" -> ingressKube_DestroyProvider
    [] t = "grafana" -> grafana_DestroyProvider
    [] t = "prometheus" -> prometheus_DestroyProvider
    [] t \in Connectors -> connectors_DestroyProvider
-----------------------------------------------------------------------------
(* Provider.Reconcile and Provider.Destroy of each type, by kind. *)
ReconcileInstance(t) ==
  CASE t = "redpanda" -> redpanda_reconcileBroker
    [] t = "redpandaSet" -> redpanda_reconcileBrokerSet
    [] t = "s3" -> s3_reconcileInstance
    [] t = "s3Set" -> s3_reconcileInstanceSet
    [] t = "postgres" -> postgres_reconcileInstance
    [] t = "mysql" -> mysql_reconcileInstance
    [] t = "nessie" -> nessie_reconcileInstance
    [] t = "debezium" -> debezium_reconcileWorker
    [] t = "jdbcsink" -> jdbcsink_reconcileWorker
    [] t = "s3sink" -> s3sink_reconcileWorker
    [] t = "s3source" -> s3source_reconcileWorker
    [] t = "ingress" -> ingress_reconcileInstance
    [] t = "ingressKube" -> ingressKube_reconcileInstance
    [] t = "proxy" -> proxy_reconcileInstance
    [] t = "wireguard" -> wireguard_reconcileInstance
    [] t = "prometheus" -> prometheus_reconcileInstance
    [] t = "grafana" -> grafana_Reconcile
    [] t = "trino" -> trino_reconcileInstance
    [] t = "openlineage" -> openlineage_Reconcile
    [] t = "container" -> container_Reconcile

ReconcileItem(t) ==
  CASE t = "redpanda" -> redpanda_reconcileTopic
    [] t = "s3" -> s3_reconcileDataset
    [] t = "postgres" -> postgres_reconcileSource
    [] t = "mysql" -> mysql_reconcileSource
    [] t = "nessie" -> nessie_reconcileCatalog
    [] t = "debezium" -> debezium_reconcileConnector \o debezium_ConfigureLineage
    [] t = "jdbcsink" -> jdbcsink_reconcileConnector
    [] t = "s3sink" -> s3sink_reconcileConnector
    [] t = "s3source" -> s3source_reconcileConnector
    [] t = "ingress" -> ingress_reconcileConnection
    [] t = "ingressKube" -> ingressKube_reconcileConnection
    [] t = "proxy" -> proxy_reconcileConnection
    [] t = "wireguard" -> wireguard_reconcileConnection

DestroyItem(t) ==
  CASE t = "redpanda" -> redpanda_DestroyTopic
    [] t = "s3" -> s3_DestroyDataset
    [] t = "postgres" -> postgres_DestroySource
    [] t = "mysql" -> mysql_DestroySource
    [] t = "nessie" -> nessie_DestroyCatalog
    [] t = "debezium" -> debezium_DestroyBinding
    [] t = "jdbcsink" -> jdbcsink_DestroyBinding
    [] t = "s3sink" -> s3sink_DestroyBinding
    [] t = "s3source" -> s3source_DestroyBinding
    [] t = "ingress" -> ingress_destroyConnection
    [] t = "ingressKube" -> ingressKube_destroyConnection
    [] t = "proxy" -> proxy_DestroyConnection
    [] t = "wireguard" -> wireguard_DestroyConnection
-----------------------------------------------------------------------------
(* What an item is made of, and what generation g of its manifest asks for. *)
(* Two generations stand for any change of the manifest: more partitions, a *)
(* lifecycle rule, another converter with a schema registry and TLS, a dead *)
(* letter queue, another upstream.                                          *)

redpanda_topic(g) == IF g = 1 THEN {"topic"} ELSE {"topic", "grown"}
s3_dataset(g) == IF g = 1 THEN {"bucket"} ELSE {"bucket", "rule"}
postgres_source == {"database", "role", "publication"}
mysql_source == {"database", "role"}
(* With a warehouse the Catalog keeps to the branch every new instance has. *)
nessie_warehouse(g) == g = 2
nessie_catalog(g) == IF nessie_warehouse(g) THEN {} ELSE {"branch"}

debezium_applyConverterConfig(g) == IF g = 1 THEN {"json"} ELSE {"avro", "registry"}
debezium_applyTLSConfig(g) == IF g = 1 THEN {} ELSE {"tls"}
debezium_buildDesiredConnector(g) ==
  {"source", "history"} \cup debezium_applyConverterConfig(g) \cup debezium_applyTLSConfig(g)

jdbcsink_applyConverterConfig(g) == IF g = 1 THEN {"json"} ELSE {"avro", "registry"}
jdbcsink_applyDeadLetterConfig(g) == IF g = 1 THEN {} ELSE {"dlq"}
jdbcsink_buildDesiredConnector(g) ==
  {"sink"} \cup jdbcsink_applyConverterConfig(g) \cup jdbcsink_applyDeadLetterConfig(g)

s3sink_applyConverterConfig(g) == IF g = 1 THEN {"json"} ELSE {"avro", "registry"}
s3sink_applyDeadLetterConfig(g) == IF g = 1 THEN {} ELSE {"dlq"}
s3sink_desiredConnectorConfig(g) ==
  {"sink"} \cup s3sink_applyConverterConfig(g) \cup s3sink_applyDeadLetterConfig(g)

s3source_applyValueConverterConfig(g) == IF g = 1 THEN {"json"} ELSE {"avro", "registry"}
s3source_desiredConnectorConfig(g) == {"source"} \cup s3source_applyValueConverterConfig(g)

ingress_desiredRoute(g) == IF g = 1 THEN {"upstream 1"} ELSE {"upstream 2"}

ingressKube_route(g) == IF g = 1 THEN {"upstream 1", "tls"} ELSE {"upstream 2"}

(* The manifest's demand, without what ConfigureLineage adds. *)
Demand(t, g) ==
  CASE t = "redpanda" -> redpanda_topic(g)
    [] t = "s3" -> s3_dataset(g)
    [] t = "postgres" -> postgres_source
    [] t = "mysql" -> mysql_source
    [] t = "nessie" -> nessie_catalog(g)
    [] t = "debezium" -> debezium_buildDesiredConnector(g)
    [] t = "jdbcsink" -> jdbcsink_buildDesiredConnector(g)
    [] t = "s3sink" -> s3sink_desiredConnectorConfig(g)
    [] t = "s3source" -> s3source_desiredConnectorConfig(g)
    [] t = "ingress" -> ingress_desiredRoute(g) \cup {"cert"}
    [] t = "ingressKube" -> ingressKube_route(g)
    [] OTHER -> {}

Facets == UNION {Demand(t, g) : t \in Types, g \in 1..2} \cup {"lineage", "FAILED"}
=============================================================================
