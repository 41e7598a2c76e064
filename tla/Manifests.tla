----------------------------- MODULE Manifests -----------------------------
(***************************************************************************)
(* What a set of manifests means before anything runs: the envelopes the   *)
(* loader makes of them, the dependency graph their references span, what  *)
(* the compatibility check and the feature gates accept.  Everything here  *)
(* is a function of the set; the actions that use it are in Wiring.        *)
(*                                                                         *)
(* An envelope is a record.  Names are well formed, so the DNS label       *)
(* checks are left out.  `refs' holds the NameRefs of the envelope by the  *)
(* field they stand in (metadata.observers, spec.tls.secretRef and the     *)
(* fields of spec.configuration and spec.options included), and `opts' the *)
(* configuration keys that matter here, each present or absent.            *)
(***************************************************************************)
EXTENDS Naturals, FiniteSets, Sequences

Blank == [kind |-> "", ns |-> "", name |-> "", domain |-> "", labels |-> {}, exempt |-> {},
          refs |-> {}, secretRefs |-> {}, external |-> FALSE, type |-> "", runtime |-> "docker",
          host |-> "", target |-> "", access |-> {}, opts |-> {}, mode |-> "", engine |-> "",
          format |-> "", scheme |-> "tcp"]

Ref(field, name) == [field |-> field, ns |-> "", name |-> name]

NormalizeNamespace(n) == IF n = "" THEN "default" ELSE n
NormalizeDomain(d) == IF d = "" THEN "default" ELSE d

(* The loader's envelope of a document: namespace and domain are defaulted  *)
(* here, so no later step can tell an undeclared domain from "default".     *)
envelopeFrom(doc) ==
  [doc EXCEPT !.ns = NormalizeNamespace(@), !.domain = NormalizeDomain(@)]

(* A project is a record of its runtime and spec.zeroTrust; P holds the one *)
(* of the manifest directory, if it has one.  A Provider without a runtime  *)
(* inherits the project's.                                                  *)
ResolveProjectRuntime(S, P) ==
  {IF e.kind = "Provider" /\ e.runtime = "" THEN [e EXCEPT !.runtime = p.runtime] ELSE e : e \in S, p \in P}
    \cup IF P = {} THEN S ELSE {}

(* One that declares another runtime is refused. *)
OneRuntime(S, P) == \A e \in S, p \in P : e.kind = "Provider" => e.runtime = p.runtime

Key(e) == <<e.kind, e.ns, e.name>>
NamespaceOf(k) == k[2]

RefFromSpec(e, field) == {r \in e.refs : r.field = field}
Has(e, field) == RefFromSpec(e, field) # {}
NamespaceOr(r, ns) == IF r.ns = "" THEN NormalizeNamespace(ns) ELSE r.ns
RefKey(e, field, kind) ==
  LET r == CHOOSE x \in RefFromSpec(e, field) : TRUE IN <<kind, NamespaceOr(r, e.ns), r.name>>

(* plan.SpecHash: kind, name, namespace, observers and spec; neither the    *)
(* domain nor protect, labels and annotations.                              *)
SpecHash(e) == [e EXCEPT !.domain = "", !.labels = {}, !.exempt = {}, !.opts = @ \ {"protect"}]

ByKey(S) == [k \in {Key(e) : e \in S} |-> CHOOSE e \in S : Key(e) = k]

-----------------------------------------------------------------------------
(* graph.Build *)

allowedKinds(field) ==
  CASE field \in {"providerRef", "via", "configuration.warehouseProviderRef",
                  "metadata.observers"} -> {"Provider"}
    [] field = "connectionRef" -> {"Connection", "SecretReference"}
    [] field \in {"secretRef", "tls.secretRef"} -> {"SecretReference"}
    [] field = "warehouseRef" -> {"Dataset"}
    [] field = "configuration.catalogRef" -> {"Catalog"}
    [] OTHER -> {"Provider", "Connection", "SecretReference", "Source", "EventStream",
                 "Dataset", "Catalog", "Binding"}

(* The fields that make edges.  configuration.prometheusRef and             *)
(* options.deadLetter.stream are references that make none.                 *)
refFields == {"providerRef", "sourceRef", "targetRef", "connectionRef", "secretRef",
              "warehouseRef", "via", "configuration.catalogRef",
              "configuration.warehouseProviderRef", "tls.secretRef", "metadata.observers"}

(* The index by namespace and name, filtered by kind. *)
Named(S, ns, name, kinds) == {Key(t) : t \in {t \in S : t.ns = ns /\ t.name = name /\ t.kind \in kinds}}
Targets(S, e, r) == Named(S, NamespaceOr(r, e.ns), r.name, allowedKinds(r.field))
EdgeRefs(e) == {r \in e.refs : r.field \in refFields}
SecretKeys(e) == {<<"SecretReference", e.ns, n>> : n \in e.secretRefs}

(* Fault: catalogRef is left out of the reference fields. *)
EdgesWithoutCatalog(S, e) ==
  UNION {Targets(S, e, r) : r \in {x \in EdgeRefs(e) : x.field # "configuration.catalogRef"}} \cup SecretKeys(e)

(* The edges of one envelope.  A managed Connection also depends on every   *)
(* resource of its namespace that its target host names, itself excepted.   *)
EdgesOf(S, e) ==
  UNION {Targets(S, e, r) : r \in EdgeRefs(e)} \cup SecretKeys(e)
    \cup IF e.kind = "Connection" /\ ~e.external
         THEN Named(S, e.ns, e.target, allowedKinds("")) \ {Key(e)} ELSE {}

Edges(S) == LET R == ByKey(S) IN [k \in DOMAIN R |-> EdgesOf(S, R[k])]

(* A dangling reference is an error and so is one that several kinds answer. *)
Resolves(S, e) ==
  /\ \A r \in EdgeRefs(e) : Cardinality(Targets(S, e, r)) = 1
  /\ SecretKeys(e) \subseteq DOMAIN ByKey(S)

RECURSIVE Closure(_, _)
Closure(E, ks) ==
  LET more == ks \cup UNION {E[k] : k \in ks} IN IF more = ks THEN ks ELSE Closure(E, more)

Dependencies(E, k) == Closure(E, E[k])
Dependents(E, k) == {d \in DOMAIN E : k \in Dependencies(E, d)}

findCycle(E) == \E k \in DOMAIN E : k \in Dependencies(E, k)

Build(S) ==
  /\ \A e, f \in S : Key(e) = Key(f) => e = f
  /\ \A e \in S : Resolves(S, e)
  /\ ~findCycle(Edges(S))

RECURSIVE Levels(_, _)
Levels(E, ks) ==
  LET free == {k \in ks : E[k] \cap ks = {}} IN IF ks = {} THEN <<>> ELSE <<free>> \o Levels(E, ks \ free)

TopologicalLevels(E) == Levels(E, DOMAIN E)

-----------------------------------------------------------------------------
(* manifest.Validate: each kind's FromEnvelope *)

AllowedKindPairs(mode) ==
  CASE mode = "cdc" -> {<<"Source", "EventStream">>}
    [] mode = "sink" -> {<<"EventStream", "Dataset">>, <<"EventStream", "Source">>}
    [] mode = "ingest" -> {<<"Dataset", "EventStream">>}
    [] OTHER -> {}

providerValid(e) == e.type # "" /\ e.runtime # "" /\ (e.external => Has(e, "connectionRef"))
sourceValid(e) == e.engine # "" /\ Has(e, IF e.external THEN "connectionRef" ELSE "providerRef")
streamValid(e) == e.external \/ Has(e, "providerRef")
datasetValid(e) == e.format # "" /\ (e.external \/ Has(e, "providerRef"))
catalogValid(e) == e.engine # "" /\ Has(e, IF e.external THEN "connectionRef" ELSE "providerRef")

managedTLSValid(e) == e.scheme = "https" <=> "tls" \in e.opts
connectionValid(e) ==
  IF e.external THEN e.host # "" /\ e.target = "" /\ ~Has(e, "via")
  ELSE Has(e, "providerRef") /\ e.target # "" /\ managedTLSValid(e)

bindingValid(e) ==
  /\ AllowedKindPairs(e.mode) # {}
  /\ \A f \in {"sourceRef", "targetRef", "providerRef"} : Has(e, f)
  /\ Has(e, "options.deadLetter.stream") => e.mode = "sink"

Validate(S) ==
  /\ \A e, f \in S : Key(e) = Key(f) => e = f
  /\ \A e \in S :
       CASE e.kind = "Provider" -> providerValid(e)
         [] e.kind = "Source" -> sourceValid(e)
         [] e.kind = "EventStream" -> streamValid(e)
         [] e.kind = "Binding" -> bindingValid(e)
         [] e.kind = "Dataset" -> datasetValid(e)
         [] e.kind = "Catalog" -> catalogValid(e)
         [] e.kind = "Connection" -> connectionValid(e)
         [] e.kind = "SecretReference" -> TRUE
         [] OTHER -> FALSE

(* What the loader accepts, and the envelopes it makes of the documents. *)
Envelopes(docs, P) == ResolveProjectRuntime({envelopeFrom(d) : d \in docs}, P)
Load(docs, P) == OneRuntime(Envelopes(docs, P), P) /\ Validate(Envelopes(docs, P))

-----------------------------------------------------------------------------
(* The feature gates and the registry *)

(* The gates this build enables by default, of those the model looks at. *)
DefaultGates ==
  {"DockerRuntime", "KubernetesRuntime", "RedpandaProvider", "PostgresProvider", "DebeziumCDCProvider",
   "ObjectStoreProvider", "MySQLProvider", "NessieProvider", "OpenLineageProvider", "ProxyProvider",
   "DriftDetection", "ExternalResourceConfiguration", "SchemaRegistrySupport"}

(* ZeroTrust switches a family of gates on. *)
zeroTrustFamily == {"MediatedConnections", "GraphScopedAccess", "LabelScopedAccess", "PolicyEngine"}
enabled(G) == IF "ZeroTrust" \in G THEN G \cup zeroTrustFamily ELSE G

(* The gate each provider type is registered under, "" for none. *)
providerGate ==
  [noop |-> "", container |-> "", redpanda |-> "RedpandaProvider", postgres |-> "PostgresProvider", debezium |-> "DebeziumCDCProvider",
   s3 |-> "ObjectStoreProvider", minio |-> "ObjectStoreProvider", s3sink |-> "ObjectStoreProvider",
   jdbcsink |-> "JDBCSinkProvider", s3source |-> "IngestProvider", mysql |-> "MySQLProvider",
   mariadb |-> "MySQLProvider", nessie |-> "NessieProvider", openlineage |-> "OpenLineageProvider",
   proxy |-> "ProxyProvider", prometheus |-> "MonitoringStackProvider", grafana |-> "MonitoringStackProvider",
   ingress |-> "IngressProvider", trino |-> "TrinoProvider", wireguard |-> "TunnelProvider",
   openziti |-> "MediatedConnections"]
Provider(G, type) == type \in DOMAIN providerGate /\ providerGate[type] \in G \cup {""}
Runtime(G, type) ==
  \/ type = "fake"
  \/ type = "docker" /\ "DockerRuntime" \in G
  \/ type = "kubernetes" /\ "KubernetesRuntime" \in G

-----------------------------------------------------------------------------
(* Capabilities the adapters declare *)

SupportedSourceEngines(type) ==
  IF type = "debezium" THEN {"postgres", "mysql", "mariadb", "mongodb"} ELSE {}
SupportedSinkFormats(type) == IF type = "s3sink" THEN {"json", "jsonl", "csv", "parquet"} ELSE {}
SupportedSinkEngines(type) == IF type = "jdbcsink" THEN {"postgres", "mysql"} ELSE {}
SupportedIngestFormats(type) == IF type = "s3source" THEN {"jsonl", "avro", "parquet"} ELSE {}
SupportedCatalogEngines(type) == IF type = "nessie" THEN {"nessie"} ELSE {}
SupportedConnectionSchemes(type) ==
  CASE type = "ingress" -> {"http", "https"}
    [] type \in {"proxy", "wireguard", "openziti"} -> {"tcp"}
    [] OTHER -> {}
SupportedSchemaFormats(p) ==
  IF p.type = "redpanda" /\ "schemaRegistry" \in p.opts THEN {"avro", "json", "protobuf"} ELSE {"json"}
TunnelCapable(type) == type = "wireguard"
ViaConsuming(type) == type = "proxy"
MediationCapable(p) == p.type = "openziti"
LineageAware(type) == type = "debezium"
Workers == {"debezium", "s3sink", "s3source", "jdbcsink"}
Databases == {"postgres", "mysql", "mariadb"}

(* redpanda answers with the address of its own container. *)
KafkaBootstrapAddress(p) == IF p.type = "redpanda" THEN {Key(p)} ELSE {}

-----------------------------------------------------------------------------
(* compatibility.Check *)

resolveKind(S, e, field, kind) ==
  IF Has(e, field) THEN LET k == RefKey(e, field, kind) IN {t \in S : Key(t) = k} ELSE {}
ProviderOf(S, e) == resolveKind(S, e, "providerRef", "Provider")
Endpoints(S, e, kind) == resolveKind(S, e, "sourceRef", kind) \cup resolveKind(S, e, "targetRef", kind)
resolve(S, e, field) ==
  {t \in S : \E r \in RefFromSpec(e, field) : t.name = r.name /\ t.ns = NamespaceOr(r, e.ns)}

(* resolveKafkaBootstrapTarget: the broker behind the streams the worker's  *)
(* Bindings touch (sourceRef before targetRef), if it is exactly one.       *)
StreamOf(S, b) ==
  LET s == resolveKind(S, b, "sourceRef", "EventStream")
  IN IF s # {} THEN s ELSE resolveKind(S, b, "targetRef", "EventStream")
resolveKafkaBootstrapTarget(S, worker) ==
  LET bs == {b \in S : b.kind = "Binding" /\ worker \in {Key(p) : p \in ProviderOf(S, b)}}
      brokers == UNION {UNION {ProviderOf(S, s) : s \in StreamOf(S, b)} : b \in bs}
      found == UNION {KafkaBootstrapAddress(p) : p \in brokers}
  IN IF Cardinality(found) = 1 THEN found ELSE {}

(* Runtime objects live in the realizing Provider's domain. *)
domainCoherent(S, e) ==
  e.kind = "Provider" \/ \A p \in ProviderOf(S, e) : e.domain = p.domain

(* The adapters' ValidateSpec, given the inferred bootstrapServers: a       *)
(* Connect worker needs brokers and its listed secret, a store or database  *)
(* its credentials, and a redpanda cluster leaves ports and registry alone. *)
ValidateWorker(S, p) ==
  "bootstrapServers" \in p.opts \/ resolveKafkaBootstrapTarget(S, Key(p)) # {}
ValidateStore(p) == p.secretRefs # {}
ValidateDatabase(p) == p.secretRefs # {}
ValidateDashboards(p) == p.secretRefs # {}
ValidateTunnel(p) == p.secretRefs # {}
ValidateCluster(p) == "replicas" \in p.opts => p.opts \cap {"hostPort", "schemaRegistry"} = {}

checkProvider(G, S, p) ==
  /\ Provider(G, p.type)
  /\ CASE p.type \in Workers -> ValidateWorker(S, p)
       [] p.type \in {"s3", "minio"} -> ValidateStore(p)
       [] p.type \in Databases -> ValidateDatabase(p)
       [] p.type = "grafana" -> ValidateDashboards(p)
       [] p.type = "wireguard" -> ValidateTunnel(p)
       [] p.type = "redpanda" -> ValidateCluster(p)
       [] OTHER -> TRUE

(* A replicated stream (factor 3) needs at least that many brokers. *)
ValidateStreamReplication(p) == p.type = "redpanda" => "replicas" \in p.opts
checkStream(S, e) ==
  ~e.external /\ "replicated" \in e.opts =>
    /\ ProviderOf(S, e) # {}
    /\ \A p \in ProviderOf(S, e) : ValidateStreamReplication(p)

checkCatalog(S, e) ==
  ~e.external => /\ ProviderOf(S, e) # {}
                 /\ \A p \in ProviderOf(S, e) : e.engine \in SupportedCatalogEngines(p.type)

(* The scheme, then spec.via: both the tunnel and the Provider that         *)
(* consumes it must be able to.                                             *)
checkConnection(S, e) ==
  ~e.external =>
    /\ ProviderOf(S, e) # {}
    /\ \A p \in ProviderOf(S, e) :
         /\ e.scheme \in SupportedConnectionSchemes(p.type)
         /\ Has(e, "via") => /\ ViaConsuming(p.type)
                             /\ \E t \in resolveKind(S, e, "via", "Provider") : TunnelCapable(t.type)

(* No adapter implements ConfigureExternal, so External with a providerRef  *)
(* is always refused.                                                       *)
checkExternal(e) == e.external => ~Has(e, "providerRef")
checkConnectionRef(S, e) ==
  Has(e, "connectionRef") =>
    Cardinality({t \in resolve(S, e, "connectionRef") : t.kind \in allowedKinds("connectionRef")}) = 1

checkResourceCapabilities(G, S, e) ==
  /\ checkExternal(e)
  /\ checkConnectionRef(S, e)
  /\ CASE e.kind = "Provider" -> checkProvider(G, S, e)
       [] e.kind = "EventStream" -> checkStream(S, e)
       [] e.kind = "Catalog" -> checkCatalog(S, e)
       [] e.kind = "Connection" -> checkConnection(S, e)
       [] OTHER -> TRUE

pairSupported(p, mode, s, t) ==
  CASE mode = "cdc" -> s.engine \in SupportedSourceEngines(p.type)
    [] mode = "sink" /\ t.kind = "Dataset" -> t.format \in SupportedSinkFormats(p.type)
    [] mode = "sink" /\ t.kind = "Source" -> t.engine \in SupportedSinkEngines(p.type)
    [] mode = "ingest" -> s.format \in SupportedIngestFormats(p.type)

(* Fault: only parquet sinks are looked at. *)
checkSchemaFormatOfSinks(S, e, s, t) ==
  e.mode = "sink" /\ t.format = "parquet" =>
    \E p \in ProviderOf(S, s) : "avro" \in SupportedSchemaFormats(p)

(* A schema-carrying format, and a parquet Dataset sink, need the registry  *)
(* of the stream's own Provider.                                            *)
NeedsRegistry(e, t) == e.format \in {"avro", "protobuf"} \/ (e.mode = "sink" /\ t.format = "parquet")
checkSchemaFormat(S, e, s, t) ==
  NeedsRegistry(e, t) =>
    LET stream == IF s.kind = "EventStream" THEN s ELSE t
    IN /\ ProviderOf(S, stream) # {}
       /\ \A p \in ProviderOf(S, stream) :
            /\ e.format \in {"avro", "protobuf"} => e.format \in SupportedSchemaFormats(p)
            /\ e.mode = "sink" /\ t.format = "parquet" => "avro" \in SupportedSchemaFormats(p)

checkDeadLetterQueue(S, e) ==
  Has(e, "options.deadLetter.stream") => resolveKind(S, e, "options.deadLetter.stream", "EventStream") # {}

checkBinding(S, e) ==
  /\ \E s \in resolve(S, e, "sourceRef"), t \in resolve(S, e, "targetRef"), p \in ProviderOf(S, e) :
       /\ resolve(S, e, "sourceRef") = {s} /\ resolve(S, e, "targetRef") = {t}
       /\ <<s.kind, t.kind>> \in AllowedKindPairs(e.mode)
       /\ pairSupported(p, e.mode, s, t)
       /\ checkSchemaFormat(S, e, s, t)
  /\ checkDeadLetterQueue(S, e)

Check(G, S) ==
  /\ \A e \in S : domainCoherent(S, e)
  /\ \A e \in S : checkResourceCapabilities(G, S, e)
  /\ \A e \in S : e.kind = "Binding" => checkBinding(S, e)

-----------------------------------------------------------------------------
(* The checks of the CLI that ask for a gate, G the set of enabled ones *)

checkExternalGate(G, e) == e.external => "ExternalResourceConfiguration" \in G
checkZeroTrustNoWideGrants(G, e) == "ZeroTrust" \in G => e.access = {}
checkSchemaRegistryGate(G, e) ==
  \/ e.kind = "Provider" /\ "schemaRegistry" \in e.opts
  \/ e.kind = "Binding" /\ e.format \in {"avro", "protobuf"}
  => "SchemaRegistrySupport" \in G
checkHighAvailabilityGate(G, e) == e.kind = "Provider" /\ "replicas" \in e.opts => "HighAvailability" \in G
checkMonitoringMetricsGate(G, e) ==
  e.kind = "Provider" /\ e.type \in Databases /\ "metrics" \in e.opts => "MonitoringStackProvider" \in G
kubernetesPreflight(G, e) == e.kind = "Provider" /\ e.runtime = "kubernetes" => "KubernetesRuntime" \in G

Gated(G, S) ==
  \A e \in S : /\ checkExternalGate(G, e)
               /\ checkZeroTrustNoWideGrants(G, e)
               /\ checkSchemaRegistryGate(G, e)
               /\ checkHighAvailabilityGate(G, e)
               /\ checkMonitoringMetricsGate(G, e)
               /\ kubernetesPreflight(G, e)
=============================================================================
