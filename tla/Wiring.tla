------------------------------- MODULE Wiring -------------------------------
(***************************************************************************)
(* How resources learn of each other.  `platformctl apply' loads and       *)
(* validates the manifests, plans, and reconciles level by level; for each *)
(* entry the engine builds one request that carries the addresses,         *)
(* credentials, scrape targets and networks the provider is to use.  Most  *)
(* of these are facts other resources published when they were reconciled, *)
(* so what a resource is wired with depends on when it was last            *)
(* reconciled.  The model follows a few small platforms through edits of   *)
(* their manifests, rotated and vanished secrets, failures, crashes and    *)
(* drift, and asks what is true of the wiring once apply has nothing left  *)
(* to do.                                                                  *)
(*                                                                         *)
(* An entry is one step: within a level an entry reads the published facts *)
(* once (factsSnapshot) and publishes its own once, and no two entries of  *)
(* a level read each other, so every outcome of concurrent entries is that *)
(* of some order.  Engine models the scheduling itself and the state file. *)
(***************************************************************************)
EXTENDS Access

CONSTANTS
  MaxEdits,    \* changes of manifests, gates and secrets
  MaxFaults    \* failed calls, crashes and lost containers

VARIABLES
  fam,         \* which platform
  tog,         \* its options, and the optional feature gates that are on
  secret,      \* what the store holds for SecretReference sec: a version, or "gone"
  recs,        \* the state: key -> what the last successful reconcile recorded
  wired,       \* key -> the request of that reconcile, as the live object has it
  down,        \* Providers whose container was lost
  app,         \* the running apply, or Idle
  edits, faults,
  lost,        \* history: keys whose planned reconcile did not complete since
  settled      \* history: the last apply found nothing to do, nothing changed since it began

vars == <<fam, tog, secret, recs, wired, down, app, edits, faults, lost, settled>>

-----------------------------------------------------------------------------
(* The platforms *)

Doc(kind, name, refs) == [Blank EXCEPT !.kind = kind, !.name = name, !.refs = refs]
Prov(name, type, secrets) ==
  [Blank EXCEPT !.kind = "Provider", !.name = name, !.type = type, !.secretRefs = secrets]
On(t, x, S) == IF x \in t THEN S ELSE {}

Secret(name) == Doc("SecretReference", name, {})
Stream(broker) == Doc("EventStream", "es", {Ref("providerRef", broker)})
Cdc(name) == [Doc("Binding", name, {Ref("providerRef", "wk"), Ref("sourceRef", "src"), Ref("targetRef", "es")})
                EXCEPT !.mode = "cdc"]

(* Change data capture with a registry, lineage and monitoring, from a      *)
(* database of its own or an external one, to a broker that another may     *)
(* replace.                                                                 *)
StreamPlatform(t) ==
  LET broker == IF "moved" \in t THEN "rp2" ELSE "rp"
      engine == IF "mysql" \in t THEN "mysql" ELSE "postgres"
  IN
  {Secret("sec"), Stream(broker),
   [Prov(broker, "redpanda", {}) EXCEPT !.opts = On(t, "registry", {"schemaRegistry"})],
   [Prov("pg", engine, {"sec"}) EXCEPT !.opts = On(t, "monitor", {"metrics"})],
   Prov("wk", "debezium", {"sec"}),
   [Doc("Source", "src", IF "external" \in t THEN {Ref("connectionRef", "cx")} ELSE {Ref("providerRef", "pg")})
      EXCEPT !.engine = engine, !.external = "external" \in t],
   [Cdc("bd") EXCEPT !.format = IF "avro" \in t THEN "avro" ELSE "",
                     !.refs = @ \cup On(t, "lineage", {Ref("metadata.observers", "ol")})]}
  \cup On(t, "external", {[Doc("Connection", "cx", {Ref("secretRef", "sec")}) EXCEPT !.external = TRUE, !.host = "db"]})
  \cup On(t, "lineage", {Prov("ol", "openlineage", {})})
  \cup On(t, "monitor", {Prov("pm", "prometheus", {}), Prov("gf", "grafana", {"sec"})})

(* A lakehouse: a store, a catalog on it and a query engine. *)
LakePlatform(t) ==
  LET listed == {"sec"} \cup On(t, "listed", {"sec2"})
  IN {Secret("sec"), Secret("sec2"),
      Prov("st", "s3", IF "creds" \in t THEN {"sec2"} ELSE {"sec"}),
      [Doc("Dataset", "ds", {Ref("providerRef", "st")}) EXCEPT !.format = "parquet"],
      Prov("ne", "nessie", listed),
      [Doc("Catalog", "ca", {Ref("providerRef", "ne")} \cup On(t, "warehouse", {Ref("warehouseRef", "ds")}))
         EXCEPT !.engine = "nessie"],
      [Prov("tr", "trino", listed) EXCEPT !.refs = {Ref("configuration.catalogRef", "ca")}]}
     \cup On(t, "second", {Prov("st2", "s3", {"sec"})})

(* A database behind a Connection, its consumer, and a Provider of another  *)
(* namespace that a grant may admit, with a runtime of their own or as a    *)
(* project.                                                                 *)
RuntimeOf(t) == IF "kubernetes" \in t THEN "kubernetes" ELSE "docker"
ProjectOf(t) == On(t, "project", {[runtime |-> RuntimeOf(t), zeroTrust |-> TRUE]})
ReachPlatform(t) ==
  LET rt == IF "project" \in t THEN "" ELSE RuntimeOf(t)
      dm == IF "edge" \in t THEN "edge" ELSE ""
      gold == [labels |-> {<<"tier", "gold">>}, exprs |-> {}]
      grant == [ns |-> "apps", selector |-> On(t, "selector", {gold})]
      at(d, ex) == [d EXCEPT !.domain = dm, !.exempt = On(t, "exempt", ex)]
  IN {Secret("sec"), Stream("rp"),
      [Prov("rp", "redpanda", {}) EXCEPT !.runtime = rt, !.opts = On(t, "HighAvailability", {"replicas"})],
      [Prov("pg", "postgres", {"sec"}) EXCEPT !.runtime = rt, !.access = On(t, "grant", {grant}),
                                              !.exempt = On(t, "exempt", {"wide"})],
      [Prov("px", IF "mediated" \in t THEN "openziti" ELSE "proxy", {}) EXCEPT !.runtime = rt],
      [Doc("Connection", "cn", {Ref("providerRef", "px")}) EXCEPT !.target = "pg"],
      at([Prov("wk", "debezium", {"sec"}) EXCEPT !.runtime = rt], {}),
      at([Doc("Source", "src", {Ref("connectionRef", "cn")})
            EXCEPT !.engine = "postgres", !.external = TRUE, !.labels = On(t, "edge", {<<"zone", "edge">>})],
         {"cross", "edges"}),
      at(Cdc("bd"), {"cross", "twice", "remove"}),
      [Prov("ap", "trino", {}) EXCEPT !.ns = "apps", !.runtime = rt, !.labels = {<<"tier", "gold">>}],
      [Prov("aq", "trino", {}) EXCEPT !.ns = "apps", !.runtime = rt]}
     \cup On(t, "twice", {at(Cdc("bd2"), {})})

Families ==
  [stream |-> {"registry", "avro", "lineage", "monitor", "external", "moved"},
   lake |-> {"warehouse", "second", "creds", "listed", "TrinoProvider"},
   reach |-> {"mediated", "grant", "selector", "edge", "exempt", "twice", "kubernetes", "project",
              "noZeroTrust", "GraphScopedAccess", "LabelScopedAccess", "PolicyEngine", "HighAvailability"}]

(* Where each platform starts. *)
Starts ==
  LET with(ts, gates) == {t \cup gates : t \in ts}
  IN [stream |-> with({{"registry", "avro", "mysql"}, {"lineage", "monitor"}}, {"MonitoringStackProvider"}) \cup {{"monitor"}},
      lake |-> with({{}, {"warehouse"}, {"warehouse", "second", "listed"}}, {"TrinoProvider"}),
      reach |-> with({{"GraphScopedAccess", "mediated", "grant"},
                      {"GraphScopedAccess", "LabelScopedAccess", "grant", "selector"},
                      {"GraphScopedAccess", "kubernetes", "grant"},
                      {"edge", "PolicyEngine", "exempt"}}, {"TrinoProvider", "MediatedConnections"})
                \cup {{"project", "mediated", "TrinoProvider"}}]

Platform(f, t) ==
  CASE f = "stream" -> StreamPlatform(t) [] f = "lake" -> LakePlatform(t) [] f = "reach" -> ReachPlatform(t)

Declared == Envelopes(Platform(fam, tog), ProjectOf(tog))

(* A project is zero-trust unless it or --no-zero-trust says otherwise, and *)
(* --feature-gates enables others.  The monitoring gate may be given only   *)
(* as long as something needs it.                                           *)
zeroTrust == (\E p \in ProjectOf(tog) : p.zeroTrust) /\ "noZeroTrust" \notin tog
FeatureGates ==
  (tog \cap {"GraphScopedAccess", "LabelScopedAccess", "PolicyEngine", "HighAvailability",
             "MonitoringStackProvider", "TrinoProvider", "MediatedConnections"})
    \cup On(tog, "monitor", {"MonitoringStackProvider"})
Gates == enabled(DefaultGates \cup FeatureGates \cup IF zeroTrust THEN {"ZeroTrust"} ELSE {})
Scoped == "LabelScopedAccess" \in Gates

AnyOf(labels, exprs) == [labels |-> labels, exprs |-> exprs]
Policies ==
  {[id |-> "cross", effect |-> "deny", exemptible |-> TRUE, on |-> "crossDomain", from |-> "edge", to |-> "default"],
   [id |-> "wide", effect |-> "deny", exemptible |-> FALSE, on |-> "grant", ns |-> "apps"],
   [id |-> "edges", effect |-> "deny", exemptible |-> FALSE, on |-> "selector",
    from |-> AnyOf({<<"zone", "edge">>}, {}),
    to |-> AnyOf({}, {[key |-> "tier", op |-> "DoesNotExist", values |-> {}]})],
   [id |-> "outside", effect |-> "warn", exemptible |-> FALSE, on |-> "field",
    match |-> [kinds |-> {"Source"}, name |-> "", labels |-> {}, selector |-> {}],
    assert |-> [field |-> "spec.external", op |-> "absent", values |-> {}]],
   [id |-> "twice", effect |-> "deny", exemptible |-> TRUE, on |-> "finding", code |-> "DL001"],
   [id |-> "spread", effect |-> "deny", exemptible |-> FALSE, on |-> "finding", code |-> "DL-redpanda-001"],
   [id |-> "remove", effect |-> "deny", exemptible |-> TRUE, on |-> "plan", action |-> "delete", kind |-> "Provider"]}

-----------------------------------------------------------------------------
(* Secrets: the store holds a version of sec, sec2 never changes. *)

Values(n) == IF n = "sec" THEN secret ELSE "v1"
Resolve(n) == Values(n) # "gone"
PreflightSecrets(S) == \A e \in S : e.kind = "SecretReference" => Resolve(e.name)
SecretFingerprint(k) == Values(k[3])
SecretHashes(S) == [k \in {Key(e) : e \in {e \in S : e.kind = "SecretReference"}} |-> SecretFingerprint(k)]

-----------------------------------------------------------------------------
(* The plan *)

isExternalNoProvider(e) == e.external /\ ~Has(e, "providerRef")

secretMaterialChanged(h, k) ==
  k \in DOMAIN h /\ k \in DOMAIN recs /\ recs[k].secret # h[k]
dependencySecretChanged(h, k, d) == d \in DOMAIN h /\ <<d, h[d]>> \notin recs[k].depSecrets

OwnChange(R, h, k) ==
  k \notin DOMAIN recs \/ SpecHash(recs[k].env) # SpecHash(R[k]) \/ secretMaterialChanged(h, k)

RECURSIVE Changes(_, _, _, _)
Changes(R, E, h, k) ==
  \/ OwnChange(R, h, k)
  \/ ~R[k].external /\ \E d \in E[k] : Changes(R, E, h, d) \/ dependencySecretChanged(h, k, d)

PlannedAction(R, E, h, k) ==
  CASE k \notin DOMAIN R -> "delete"
    [] ~Changes(R, E, h, k) -> "noop"
    [] R[k].external -> "configure"
    [] k \notin DOMAIN recs -> "create"
    [] OTHER -> "update"

Plan(S, E) ==
  LET R == ByKey(S) IN [k \in DOMAIN R \cup DOMAIN recs |-> PlannedAction(R, E, SecretHashes(S), k)]

(* Deletes are in levels of their own after the others, dependents first by *)
(* what the state recorded.                                                 *)
computeApplyDeletes(absent) ==
  LET up == Levels([k \in absent |-> recs[k].deps], absent)
  IN [i \in 1..Len(up) |-> up[Len(up) + 1 - i]]

(* loadAndValidate: the loader, the graph, the compatibility check, the     *)
(* gates in order and the policies.                                         *)
loadAndValidate(S) ==
  /\ Load(Platform(fam, tog), ProjectOf(tog))
  /\ Build(S)
  /\ Check(Gates, S)
  /\ Gated(Gates, S)
  /\ enforcePolicies(Gates, Policies, S, DOMAIN recs)

-----------------------------------------------------------------------------
(* resolveRequest, for an envelope e among the resources B (the declared    *)
(* ones and the last-applied manifests of those being deleted)              *)

Published(k, name) == k \in DOMAIN recs /\ name \in recs[k].endpoints
Sole(S) == IF Cardinality(S) = 1 THEN S ELSE {}
OfType(B, ns, types) == {p \in B : p.kind = "Provider" /\ p.ns = ns /\ p.type \in types}

resolveProviderS3Fact(p) == IF Published(Key(p), "s3") THEN {<<Key(p), p.secretRefs>>} ELSE {}
resolveDatasetS3Facts(B, d) ==
  UNION {resolveProviderS3Fact(p) : p \in {p \in ProviderOf(B, d) : p.ns = d.ns}}
resolveWarehouseFacts(B, e) ==
  IF e.kind # "Catalog" THEN {}
  ELSE UNION {resolveDatasetS3Facts(B, d) : d \in resolveKind(B, e, "warehouseRef", "Dataset")}

(* The catalog of a query engine and the store behind it: by the Catalog's  *)
(* warehouseRef, else by configuration.warehouseProviderRef, else the only  *)
(* store of the namespace.                                                  *)
WarehouseStore(B, e) ==
  IF Has(e, "configuration.warehouseProviderRef")
  THEN resolveKind(B, e, "configuration.warehouseProviderRef", "Provider")
  ELSE Sole(OfType(B, e.ns, {"s3", "minio"}))
resolveCatalogFacts(B, e) ==
  LET cs == {c \in resolveKind(B, e, "configuration.catalogRef", "Catalog") : Published(Key(c), "iceberg-rest")}
      chained == UNION {resolveWarehouseFacts(B, c) : c \in cs}
      stores == IF chained # {} THEN chained ELSE UNION {resolveProviderS3Fact(p) : p \in WarehouseStore(B, e)}
  IN IF e.kind # "Provider" THEN {} ELSE {<<Key(c), s>> : c \in cs, s \in stores}

resolvePrometheusURL(B, e) ==
  IF e.kind # "Provider" THEN {}
  ELSE {Key(p) : p \in {p \in IF Has(e, "configuration.prometheusRef")
                              THEN resolveKind(B, e, "configuration.prometheusRef", "Provider")
                              ELSE Sole(OfType(B, e.ns, {"prometheus"})) : Published(Key(p), "prometheus")}}

(* Every Provider of the namespace the state knows to publish metrics. *)
resolveMetricsTargets(e) ==
  IF e.kind # "Provider" THEN {}
  ELSE {k \in DOMAIN recs : k[1] = "Provider" /\ NamespaceOf(k) = e.ns /\ Published(k, "metrics")}

resolveSchemaRegistryURL(B, e) ==
  IF e.kind # "Binding"
     \/ ~\E t \in Endpoints(B, e, "Dataset") \cup {e} : NeedsRegistry(e, t) THEN {}
  ELSE {Key(p) : p \in {p \in UNION {ProviderOf(B, s) : s \in StreamOf(B, e)} : Published(Key(p), "schema-registry")}}

resolveKafkaBootstrapServers(B, p) ==
  IF "bootstrapServers" \in p.opts THEN {} ELSE resolveKafkaBootstrapTarget(B, Key(p))

resolveLineageEndpoint(B, e) ==
  {Key(o) : o \in {o \in resolveKind(B, e, "metadata.observers", "Provider") : Published(Key(o), "url")}}

(* domainRuntime: the networks the container of a request joins and, on     *)
(* Kubernetes, the peers it admits.  The names are injective.               *)
NetworkName(domain) == <<"domain", {domain}>>
EdgeNetworkName(a, b) == <<"edge", {a, b}>>

PrivateNetworkName(domain, self) == <<"private", {<<domain, self>>}>>

consumerDomainHoles(B, c) ==
  {e.domain : e \in {e \in B : e.kind # "Connection" /\ resolveKind({c}, e, "connectionRef", "Connection") # {}}}
    \ {c.domain}

edgeNetworks(self, peers) == {EdgeNetworkName(self, p) : p \in peers}
k8sPeers(R, ingress) == {<<NetworkName(ContainerDomain(R, p)), p>> : p \in ingress}

newDomainRuntime(R, edges, p, e) ==
  LET self == Key(p)
      scoped == "GraphScopedAccess" \in Gates
      local == scoped /\ p.runtime # "kubernetes"
  IN [nets |-> IF local THEN {PrivateNetworkName(p.domain, self)}
                             \cup edgeNetworks(self, MembershipEdges(R, edges, self, Scoped))
               ELSE {NetworkName(p.domain)} \cup
                    IF ~scoped /\ e.kind = "Connection"
                    THEN {NetworkName(d) : d \in consumerDomainHoles({R[k] : k \in DOMAIN R}, e)} ELSE {},
      peers |-> IF scoped /\ ~local THEN k8sPeers(R, IngressPeers(R, edges, self, Scoped)) ELSE {}]

Realizers(B, e) == IF e.kind = "Provider" THEN {e} ELSE ProviderOf(B, e)

(* resolveRequest's errors: no Provider, one whose type or runtime is not   *)
(* enabled, a secret that does not resolve, or a graph that cannot be       *)
(* rebuilt for the access edges.                                            *)
requestFails(B, builds, e) ==
  \/ Realizers(B, e) = {}
  \/ \E p \in Realizers(B, e) : ~Provider(Gates, p.type) \/ ~Runtime(Gates, p.runtime)
  \/ \E p \in Realizers(B, e) : \E n \in p.secretRefs :
       ~Resolve(n) \/ ~\E x \in B : Key(x) = <<"SecretReference", p.ns, n>>
  \/ "GraphScopedAccess" \in Gates /\ ~builds

NoRequest == [facts |-> {}, secrets |-> {}, lineage |-> {}]
NoNetworks == [nets |-> {}, peers |-> {}]

(* Which facts a request carries, each tagged with its field. *)
Facts(B, p, e) ==
  {<<"registry", v>> : v \in resolveSchemaRegistryURL(B, e)}
    \cup {<<"bootstrap", v>> : v \in IF p.type \in Workers THEN resolveKafkaBootstrapServers(B, p) ELSE {}}
    \cup {<<"target", v>> : v \in IF p.type = "prometheus" THEN resolveMetricsTargets(e) ELSE {}}
    \cup {<<"prometheus", v>> : v \in IF p.type = "grafana" THEN resolvePrometheusURL(B, e) ELSE {}}
    \cup {<<"warehouse", v>> : v \in resolveWarehouseFacts(B, e)}
    \cup {<<"catalog", v>> : v \in IF p.type = "trino" THEN resolveCatalogFacts(B, e) ELSE {}}

HasContainer(e) == e.kind \in {"Provider", "Connection"}

resolveRequest(B, e) ==
  LET p == CHOOSE p \in Realizers(B, e) : TRUE
  IN [facts |-> Facts(B, p, e), secrets |-> {<<n, Values(n)>> : n \in p.secretRefs},
      lineage |-> IF LineageAware(p.type) THEN resolveLineageEndpoint(B, e) ELSE {}]

(* The request gives a Binding its worker's brokers too; of the connectors   *)
(* only that of a MySQL source has them in its configuration.               *)
Kept(B, e) ==
  {f \in resolveRequest(B, e).facts :
     f[1] = "bootstrap" /\ e.kind = "Binding" =>
       \E s \in resolveKind(B, e, "sourceRef", "Source") : s.engine \in {"mysql", "mariadb"}}

Of(req, field) == {f[2] : f \in {f \in req.facts : f[1] = field}}

(* What the adapters refuse: a schema-carrying format without a registry, a *)
(* worker without brokers, a warehouse credential the Provider does not     *)
(* list itself, an observer without an endpoint.                            *)
applyConverterConfig(e, req) ==
  e.kind = "Binding" /\ e.format \in {"avro", "protobuf"} => Of(req, "registry") # {}
warehouseFactsEnv(p, req) == \A s \in Of(req, "warehouse") : s[2] \subseteq p.secretRefs
catalogFile(p, req) == \A c \in Of(req, "catalog") : c[2][2] \subseteq p.secretRefs
Brokers(e, req) ==
  e.kind = "Provider" /\ e.type \in Workers => "bootstrapServers" \in e.opts \/ Of(req, "bootstrap") # {}
Observed(p, e, req) == LineageAware(p.type) /\ Has(e, "metadata.observers") => req.lineage # {}

Unlisted(p, req) == ~warehouseFactsEnv(p, req) \/ ~catalogFile(p, req)
Refuses(B, e, req) ==
  \E p \in Realizers(B, e) :
    ~(applyConverterConfig(e, req) /\ Brokers(e, req) /\ Observed(p, e, req)) \/ Unlisted(p, req)

(* The endpoints a reconcile publishes. *)
Publishes(B, e) ==
  CASE e.kind = "Catalog" -> {"iceberg-rest"}
    [] e.type = "redpanda" -> {"metrics"} \cup IF "schemaRegistry" \in e.opts THEN {"schema-registry"} ELSE {}
    [] e.type \in Databases -> e.opts \cap {"metrics"}
    [] e.type = "s3" -> {"s3", "metrics"}
    [] e.type = "prometheus" -> {"prometheus"}
    [] e.type = "openlineage" -> {"url"}
    [] OTHER -> {}

-----------------------------------------------------------------------------
(* One apply *)

Idle == [on |-> FALSE]

LOCAL Put(f, k, v) == [x \in DOMAIN f \cup {k} |-> IF x = k THEN v ELSE f[x]]
LOCAL Del(f, ks) == [x \in DOMAIN f \ ks |-> f[x]]

(* Everything apply refuses before it touches anything. *)
Admitted(S, plan) ==
  /\ loadAndValidate(S)
  /\ PreflightSecrets(S)
  /\ enforcePlanPolicies(Gates, Policies, S, plan)

(* byKey: last-applied manifests stand in for what is being deleted.  It    *)
(* and what every request derives from it stay the same through the apply.  *)
StartApply ==
  LET S == Declared
      E == Edges(S)
      plan == Plan(S, E)
      B == S \cup {recs[k].env : k \in DOMAIN recs \ DOMAIN E}
      builds == "GraphScopedAccess" \in Gates /\ Build(B)
  IN /\ ~app.on
     /\ Admitted(S, plan) = TRUE
     /\ app' = [on |-> TRUE, byKey |-> ByKey(B), builds |-> builds,
                edges |-> IF builds THEN deriveGraphAccessEdges(ByKey(B)) ELSE {},
                deps |-> [k \in DOMAIN E |-> Dependencies(E, k)],
                todo |-> TopologicalLevels(E) \o computeApplyDeletes(DOMAIN recs \ DOMAIN E),
                plan |-> plan, phase |-> [k \in DOMAIN plan |-> "pending"], blocked |-> {},
                hashes |-> SecretHashes(S)]
     /\ settled' = FALSE
     /\ UNCHANGED <<fam, tog, secret, recs, wired, down, edits, faults, lost>>

Known == {app.byKey[k] : k \in DOMAIN app.byKey}
Env(k) == app.byKey[k]
Deleting(k) == app.plan[k] = "delete"

(* Only these read what resources they do not depend on have published, so  *)
(* only their place among the entries of a level matters: they may come at  *)
(* any point, the others in a fixed order.                                  *)
ReadsUnordered(k) ==
  Env(k).type \in {"prometheus", "grafana"} \/ Has(Env(k), "configuration.catalogRef")

(* The entries of the current level that may be next: the level barrier.    *)
Due ==
  LET level == Head(app.todo)
      fixed == {k \in level : ~ReadsUnordered(k)}
  IN (level \ fixed) \cup IF fixed = {} THEN {} ELSE {CHOOSE k \in fixed : TRUE}

Without(levels, k) ==
  IF Head(levels) = {k} THEN Tail(levels) ELSE <<Head(levels) \ {k}>> \o Tail(levels)
Mark(k, p, b) ==
  app' = [app EXCEPT !.todo = Without(@, k), !.phase[k] = p, !.blocked = @ \cup b]
Fallout(k) == {d \in DOMAIN app.deps : k \in app.deps[d]}

secretReferenceStatus(e, priorHash) ==
  CASE ~Resolve(e.name) -> "unresolvable"
    [] priorHash \notin {"", Values(e.name)} -> "changed"
    [] OTHER -> "ready"

(* A connectionRef resolves to a Connection whose credentials, if it has    *)
(* any, resolve, or to a SecretReference that does.                         *)
resolveConnectionRef(B, e) ==
  LET cs == resolveKind(B, e, "connectionRef", "Connection")
  IN IF cs = {} THEN \E s \in resolveKind(B, e, "connectionRef", "SecretReference") : Resolve(s.name)
     ELSE \A c \in cs : \A r \in RefFromSpec(c, "secretRef") : Resolve(r.name)

(* Beyond that the endpoint is dialled; one that does not answer is a Fail. *)
externalConnectionStatus(B, e) ==
  IF Has(e, "connectionRef") /\ ~resolveConnectionRef(B, e) THEN "unresolvable" ELSE "ready"

(* Whether the two kinds of entry without a Provider get through. *)
reconcileSecretReference(e) == secretReferenceStatus(e, "") # "unresolvable"
reconcileExternal(B, e) == externalConnectionStatus(B, e) = "ready"

TargetsDiffer(live, facts) == live # facts
DatasourceDiffers(live, facts) == facts = {} \/ live # facts

(* Probe's verdict on an entry planned as a noop.  prometheus compares its  *)
(* targets, grafana its datasource, a Binding its connector configuration;  *)
(* the other Providers look at their container only.                        *)
Drifts(k) ==
  LET e == Env(k)
      facts == Kept(Known, e)
  IN /\ "DriftDetection" \in Gates /\ ~e.external /\ k \in DOMAIN recs
     /\ IF e.kind = "SecretReference" THEN secretReferenceStatus(e, recs[k].secret) # "ready"
        ELSE \/ requestFails(Known, app.builds, e)
             \/ k \in down
             \/ e.type = "prometheus" /\ TargetsDiffer(wired[k].facts, facts)
             \/ e.type = "grafana" /\ DatasourceDiffers(wired[k].facts, facts)
             \/ e.kind = "Binding" /\ wired[k].facts # facts

(* Whether reconcileOne gets through without a call failing: by kind, a     *)
(* secret resolves, an external resource's connection resolves, a managed   *)
(* one has a request its adapter accepts.                                   *)
Refused(k) ==
  LET e == Env(k)
  IN CASE e.kind = "SecretReference" -> ~reconcileSecretReference(e)
       [] isExternalNoProvider(e) -> ~reconcileExternal(Known, e)
       [] OTHER -> requestFails(Known, app.builds, e) \/ Refuses(Known, e, resolveRequest(Known, e))

(* applyDeleteOne: the same request, then Destroy; a SecretReference or an  *)
(* external resource is only forgotten.                                     *)
DeleteRefused(k) ==
  LET e == Env(k)
  IN e.kind # "SecretReference" /\ ~isExternalNoProvider(e) /\ requestFails(Known, app.builds, e)

(* processEntry: which way an entry goes. *)
Course(k) ==
  CASE k \in app.blocked -> "skip"
    [] Deleting(k) -> IF DeleteRefused(k) THEN "refuse" ELSE "delete"
    [] app.plan[k] = "noop" /\ ~Drifts(k) -> "noop"
    [] OTHER -> IF Refused(k) THEN "refuse" ELSE "reconcile"

(* Skipped behind a failed dependency, or nothing to do. *)
Pass(k, outcome) ==
  /\ Mark(k, outcome, {})
  /\ UNCHANGED <<fam, tog, secret, recs, wired, down, edits, faults, lost, settled>>

SecretDeps(k) == {d \in app.deps[k] : d[1] = "SecretReference"}

Recorded(k) ==
  LET e == Env(k)
  IN [env |-> e, endpoints |-> Publishes(Known, e),
      deps |-> app.deps[k],
      secret |-> IF k \in DOMAIN app.hashes THEN app.hashes[k] ELSE "",
      depSecrets |-> {<<d, recs[d].secret>> : d \in SecretDeps(k) \cap DOMAIN recs}]

(* A nessie Catalog keeps its warehouse in its Provider's container, which  *)
(* the Provider's own reconcile makes anew without it.                      *)
Wiped(k) ==
  IF Env(k).type # "nessie" THEN {}
  ELSE {c \in DOMAIN wired : c[1] = "Catalog" /\ k \in {Key(p) : p \in ProviderOf(Known, Env(c))}}

Reconcile(k) ==
  /\ Mark(k, "ok", {})
  /\ recs' = Put(recs, k, Recorded(k))
  /\ wired' = LET e == Env(k)
                  provided == e.kind # "SecretReference" /\ ~isExternalNoProvider(e)
                  req == IF provided THEN resolveRequest(Known, e) ELSE NoRequest
                  rt == IF HasContainer(e) /\ ~e.external
                        THEN newDomainRuntime(app.byKey, app.edges, CHOOSE p \in Realizers(Known, e) : TRUE, e)
                        ELSE NoNetworks
                  rest == [j \in DOMAIN wired |-> IF j \in Wiped(k) THEN [wired[j] EXCEPT !.facts = {}] ELSE wired[j]]
                  stamp == IF Known = Declared THEN tog ELSE {"partial"}
              IN Put(rest, k, [facts |-> IF provided THEN Kept(Known, e) ELSE {}, secrets |-> req.secrets, lineage |-> req.lineage,
                               nets |-> rt.nets, peers |-> rt.peers, under |-> stamp])
  /\ down' = down \ {k}
  /\ lost' = (lost \ {k}) \cup IF app.plan[k] = "noop" THEN Wiped(k) ELSE {}
  /\ UNCHANGED <<fam, tog, secret, edits, faults, settled>>

(* The request, or the adapter, refuses: no call had to fail for this. *)
Refuse(k) ==
  /\ Mark(k, "refused", Fallout(k))
  /\ UNCHANGED <<fam, tog, secret, recs, wired, down, edits, faults, lost, settled>>

(* A call fails, or an external endpoint does not answer.  The reach        *)
(* platform, whose wiring does not depend on published facts, only crashes. *)
Fail(k) ==
  /\ fam # "reach" /\ faults < MaxFaults
  /\ faults' = faults + 1
  /\ Mark(k, "failed", Fallout(k))
  /\ UNCHANGED <<fam, tog, secret, recs, wired, down, edits, lost, settled>>

Delete(k) ==
  /\ Mark(k, "ok", {})
  /\ recs' = Del(recs, {k})
  /\ wired' = Del(wired, {k})
  /\ down' = down \ {k}
  /\ lost' = lost \ {k}
  /\ UNCHANGED <<fam, tog, secret, edits, faults, settled>>

(* What apply meant to reconcile and did not. *)
Missed == {k \in DOMAIN app.plan : app.plan[k] # "noop" /\ app.phase[k] # "ok"}

Finish ==
  /\ app.on /\ app.todo = <<>>
  /\ app' = Idle
  /\ lost' = lost \cup Missed
  /\ settled' = /\ \A k \in DOMAIN app.plan : app.phase[k] = "noop"
               /\ app.hashes = SecretHashes(Declared)
  /\ UNCHANGED <<fam, tog, secret, recs, wired, down, edits, faults>>

Crash ==
  /\ app.on /\ faults < MaxFaults
  /\ faults' = faults + 1
  /\ app' = Idle
  /\ lost' = lost \cup Missed
  /\ UNCHANGED <<fam, tog, secret, recs, wired, down, edits, settled>>

-----------------------------------------------------------------------------
(* The operator and the world *)

(* One change is enough where what is wired does not depend on the past. *)
Budget == IF fam = "reach" THEN 1 ELSE MaxEdits

(* An option or a gate is switched between two commands, and perhaps back. *)
Edit(x) ==
  /\ ~app.on /\ Len(edits) < Budget
  /\ \A i \in DOMAIN edits : edits[i] = x
  /\ edits' = Append(edits, x)
  /\ tog' = IF x \in tog THEN tog \ {x} ELSE tog \cup {x}
  /\ settled' = FALSE
  /\ UNCHANGED <<fam, secret, recs, wired, down, app, faults, lost>>

(* The secret is rotated, or its source vanishes, at any time. *)
Rotate ==
  /\ fam # "reach" /\ edits = <<>> /\ MaxEdits > 0
  /\ edits' = <<"secret">>
  /\ secret' \in {"v2", "gone"}
  /\ settled' = FALSE
  /\ UNCHANGED <<fam, tog, recs, wired, down, app, faults, lost>>

Lose(k) ==
  /\ fam # "reach" /\ ~app.on /\ faults < MaxFaults
  /\ k[1] = "Provider" /\ k \in DOMAIN recs
  /\ faults' = faults + 1
  /\ down' = down \cup {k}
  /\ settled' = FALSE
  /\ UNCHANGED <<fam, tog, secret, recs, wired, app, edits, lost>>

Init ==
  /\ fam \in DOMAIN Families
  /\ tog \in Starts[fam]
  /\ secret = "v1"
  /\ recs = <<>> /\ wired = <<>> /\ down = {}
  /\ app = Idle
  /\ edits = <<>> /\ faults = 0
  /\ lost = {} /\ settled = FALSE

Entry(k) ==
  LET course == Course(k)
  IN \/ course = "skip" /\ Pass(k, "skipped")
     \/ course = "noop" /\ Pass(k, "noop")
     \/ course = "reconcile" /\ Reconcile(k)
     \/ course = "delete" /\ Delete(k)
     \/ course = "refuse" /\ Refuse(k)
     \/ course \in {"reconcile", "delete"} /\ Fail(k)

Next ==
  \/ StartApply
  \/ app.on /\ app.todo # <<>> /\ \E k \in Due : Entry(k)
  \/ Finish
  \/ Crash
  \/ \E x \in Families[fam] : Edit(x)
  \/ Rotate
  \/ \E k \in DOMAIN recs : Lose(k)

Spec == Init /\ [][Next]_vars

-----------------------------------------------------------------------------
(* Properties *)

Realized(e) == e.kind # "SecretReference" /\ ~e.external

(* Two of the facts no edge leads to and no probe compares: the brokers that *)
(* a Connect worker infers from its Bindings (debezium.go:159-165, Probe     *)
(* :735-751), and the store that a query engine infers when its Catalog      *)
(* names no warehouse.                                                       *)
Unrefreshed(S, e, field) ==
  \/ field = "bootstrap" /\ e.kind = "Provider"
  \/ field = "catalog" /\ \A c \in resolveKind(S, e, "configuration.catalogRef", "Catalog") : ~Has(c, "warehouseRef")

(* When an apply finds nothing to do, every managed resource is wired with   *)
(* what a request built now would carry: registry, a MySQL connector's       *)
(* brokers, warehouse, scrape targets, lineage endpoint and credentials,     *)
(* although each was resolved whenever its resource was last reconciled.     *)
(* The exceptions are what a worker and a query engine infer (Unrefreshed),  *)
(* and a resource whose update failed and was reverted, or whose             *)
(* configuration healing wiped.                                              *)
FactsSettle ==
  settled => \A e \in Declared : Realized(e) /\ Key(e) \notin lost =>
    LET now == resolveRequest(Declared, e)
        was == wired[Key(e)]
        fresh(facts) == {f \in facts : ~Unrefreshed(Declared, e, f[1])}
    IN /\ fresh(was.facts) = fresh(Kept(Declared, e))
       /\ was.secrets = now.secrets
       /\ was.lineage = now.lineage

(* x reaches y by declaration: something of x refers to something of y,     *)
(* something of x needs a Connection that y mediates, or x grants access to *)
(* y's namespace and y's labels.                                            *)
DeclaredReach(x, y) ==
  LET R == ByKey(Declared)
      of(p) == {k \in DOMAIN R : ContainerOf(R, k) = p}
  IN \/ \E k \in of(x) : EdgesOf(Declared, R[k]) \cap of(y) # {}
     \/ \E c \in DOMAIN R : /\ isMediatedConnection(R, c) /\ y = RefKey(R[c], "providerRef", "Provider")
                            /\ \E k \in of(x) : c \in Dependencies(Edges(Declared), k)
     \/ \E k \in of(x) : \E g \in R[k].access :
          g.ns = NamespaceOf(y) /\ \A sel \in g.selector : Scoped /\ Selects(sel, R[y].labels)

(* Two Providers reconciled under the manifests and gates of now can reach  *)
(* each other exactly when one reaches the other by declaration: on Docker  *)
(* they share a network, which each derived on its own and one of them      *)
(* before the other existed; on Kubernetes the policy of the one admits the *)
(* other.  Without GraphScopedAccess a Connection is in the network of      *)
(* every domain that consumes it.                                           *)
Current(k) == k \in DOMAIN wired /\ wired[k].under = tog
ReachIsDeclared ==
  fam = "reach" /\ ~app.on =>
    LET ps == {e \in Declared : e.kind = "Provider" /\ Current(Key(e))}
        scoped == "GraphScopedAccess" \in Gates
    IN /\ \A p, q \in ps : p # q /\ scoped =>
            LET x == Key(p)
                y == Key(q)
            IN IF p.runtime = "kubernetes"
               THEN (<<NetworkName(p.domain), x>> \in wired[y].peers) <=> DeclaredReach(x, y)
               ELSE (wired[x].nets \cap wired[y].nets # {}) <=> (DeclaredReach(x, y) \/ DeclaredReach(y, x))
       /\ \A e \in Declared : ~scoped =>
            \A c \in resolveKind(Declared, e, "connectionRef", "Connection") :
              Current(Key(c)) => NetworkName(e.domain) \in wired[Key(c)].nets

(* The audit calls denied exactly what would make a command fail: its       *)
(* denied edges and grants belong to the resources that the edge and grant  *)
(* rules deny, exemptions and gates included.                               *)
AuditAgrees ==
  fam = "reach" /\ ~app.on =>
    {a.owner : a \in {a \in Audit(Policies, Declared, Scoped) : a.verdict = "denied"}}
      = {d.resource : d \in {d \in Run({r \in Policies : r.on \in {"crossDomain", "selector", "grant"}},
                                      Declared, {}, Scoped) : d.effect = "deny" /\ ~d.exempted}}

(* What was admitted can be carried out: no entry of a running apply is     *)
(* refused for what its manifests say.  The exceptions are a secret that    *)
(* vanished after the preflight, a warehouse credential the engine does not *)
(* list, last-applied manifests that no longer form a graph, and a removed  *)
(* Provider whose feature gate was switched off with it.                    *)
AdmittedResolves ==
  app.on => \A k \in DOMAIN app.plan : app.phase[k] = "refused" =>
    \/ secret = "gone"
    \/ \E p \in Realizers(Known, Env(k)) : Unlisted(p, resolveRequest(Known, Env(k)))
    \/ "GraphScopedAccess" \in Gates /\ ~app.builds
    \/ Deleting(k) /\ \E p \in Realizers(Known, Env(k)) : ~Provider(Gates, p.type)
=============================================================================
