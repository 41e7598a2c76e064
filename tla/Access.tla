------------------------------- MODULE Access -------------------------------
(***************************************************************************)
(* Who may reach whom.  The access graph that the engine compiles from the *)
(* references and spec.access grants of a manifest set, the design lints,  *)
(* and the policy engine: the decisions of Run and RunPlan that gate every *)
(* command, and Audit, which reports the verdict on each edge.             *)
(*                                                                         *)
(* R is a map from keys to envelopes, S a set of envelopes, P a set of     *)
(* policy rules.  Labels are sets of <<key, value>> pairs.                 *)
(***************************************************************************)
EXTENDS Manifests

LOCAL Values(R) == {R[k] : k \in DOMAIN R}

(* Selectors: matchLabels and matchExpressions. *)
Satisfied(req, labels) ==
  LET values == {l[2] : l \in {l \in labels : l[1] = req.key}}
  IN CASE req.op = "In" -> values # {} /\ values \subseteq req.values
       [] req.op = "NotIn" -> values \cap req.values = {}
       [] req.op = "Exists" -> values # {}
       [] req.op = "DoesNotExist" -> values = {}
       [] OTHER -> FALSE

Selects(sel, labels) == sel.labels \subseteq labels /\ \A q \in sel.exprs : Satisfied(q, labels)

selectorValid(sel) ==
  /\ sel.labels # {} \/ sel.exprs # {}
  /\ \A q \in sel.exprs : /\ q.op \in {"In", "NotIn"} => q.values # {}
                          /\ q.op \in {"Exists", "DoesNotExist"} => q.values = {}

-----------------------------------------------------------------------------
(* graphaccess *)

(* The container that stands for a resource: its own for a Provider or a    *)
(* Connection, its Provider's for anything with a providerRef.              *)
ContainerOf(R, k) ==
  IF k \notin DOMAIN R THEN k
  ELSE LET e == R[k]
       IN IF e.kind \in {"Provider", "Connection"} \/ ~Has(e, "providerRef") THEN k
          ELSE RefKey(e, "providerRef", "Provider")

ContainerDomain(R, k) ==
  IF k \notin DOMAIN R THEN "default"
  ELSE LET e == R[k]
           p == RefKey(e, "providerRef", "Provider")
       IN IF e.kind = "Connection" /\ Has(e, "providerRef") /\ p \in DOMAIN R THEN R[p].domain ELSE e.domain

DeriveEdges(S) == UNION {{<<k, d>> : d \in Edges(S)[k]} : k \in DOMAIN Edges(S)}

isMediatedConnection(R, k) ==
  /\ k \in DOMAIN R
  /\ R[k].kind = "Connection" /\ ~R[k].external /\ Has(R[k], "providerRef")
  /\ LET p == RefKey(R[k], "providerRef", "Provider") IN p \in DOMAIN R /\ MediationCapable(R[p])

CompileMediatedConnections(R) == {k \in DOMAIN R : isMediatedConnection(R, k)}

(* A mediated Connection also joins the container of every resource that    *)
(* depends on it, however indirectly, to its own Provider.                  *)
MediatedConsumerEdges(R, E) ==
  {<<c, p>> \in (DOMAIN R) \X (DOMAIN R) :
     /\ c # p /\ R[c].kind = "Provider"
     /\ \E k \in CompileMediatedConnections(R) :
          /\ p = RefKey(R[k], "providerRef", "Provider")
          /\ \E d \in Dependents(E, k) : ContainerOf(R, d) = c}

deriveGraphAccessEdges(R) == DeriveEdges(Values(R)) \cup MediatedConsumerEdges(R, Edges(Values(R)))

containerMembers(R, self) == {self} \cup {k \in DOMAIN R : ContainerOf(R, k) = self}
GrantsOf(R, self) == UNION {R[k].access : k \in containerMembers(R, self) \cap DOMAIN R}

(* A grant without a selector admits its whole namespace; one with a        *)
(* selector admits nothing unless LabelScopedAccess is on.                  *)
grantAdmits(g, e, scoped) == \A sel \in g.selector : scoped /\ Selects(sel, e.labels)

addGrantedContainers(R, g, self, scoped) ==
  {c \in {ContainerOf(R, k) : k \in DOMAIN R} \ {self} :
     NamespaceOf(c) = g.ns /\ c \in DOMAIN R /\ grantAdmits(g, R[c], scoped)}

EgressPeers(R, edges, self, scoped) ==
  ({ContainerOf(R, e[2]) : e \in {x \in edges : x[1] \in containerMembers(R, self)}} \ {self})
    \cup UNION {addGrantedContainers(R, g, self, scoped) : g \in GrantsOf(R, self)}

(* Fault: the ingress side forgets the grants others declare. *)
IngressPeersByEdge(R, edges, self, scoped) ==
  {ContainerOf(R, e[1]) : e \in {x \in edges : x[2] \in containerMembers(R, self)}} \ {self}

IngressPeers(R, edges, self, scoped) ==
  ({ContainerOf(R, e[1]) : e \in {x \in edges : x[2] \in containerMembers(R, self)}} \ {self})
    \cup {c \in {ContainerOf(R, k) : k \in DOMAIN R} \ {self} :
            \E k \in DOMAIN R : /\ ContainerOf(R, k) = c
                                /\ \E g \in R[k].access : /\ g.ns = NamespaceOf(self)
                                                          /\ grantAdmits(g, R[self], scoped)}

MembershipEdges(R, edges, self, scoped) ==
  EgressPeers(R, edges, self, scoped) \cup IngressPeers(R, edges, self, scoped)

-----------------------------------------------------------------------------
(* lint: Bindings that capture the same Source or write the same target.    *)
(* No Binding here sets options.tables or options.table and every Dataset   *)
(* has a bucket of its own, so equal targets mean overlap.                  *)

lintDuplicateCapture(S) ==
  {[code |-> "DL001", resource |-> Key(b)] :
     b \in {b \in S : b.kind = "Binding" /\ b.mode = "cdc" /\
              \E c \in S \ {b} : /\ c.kind = "Binding" /\ c.mode = "cdc"
                                 /\ resolveKind(S, b, "sourceRef", "Source") # {}
                                 /\ resolveKind(S, b, "sourceRef", "Source") = resolveKind(S, c, "sourceRef", "Source")}}

Found(code, es) == {[code |-> code, resource |-> Key(e)] : e \in es}

(* The members of key's domain that share their key, if they have one. *)
collideOnKey(key) == {b \in DOMAIN key : key[b] # {} /\ \E c \in DOMAIN key \ {b} : key[c] = key[b]}

lintSinkCollision(S) ==
  LET target(b) == resolveKind(S, b, "targetRef", "Dataset") \cup resolveKind(S, b, "targetRef", "Source")
      sinks == {b \in S : b.kind = "Binding" /\ b.mode = "sink"}
  IN Found("DL002", collideOnKey([b \in sinks |-> target(b)]))

(* debezium: connectors of one server, each with a replication slot of its  *)
(* own, whichever Sources they capture.                                     *)
Captures(S) ==
  {b \in S : b.kind = "Binding" /\ b.mode = "cdc" /\ \E p \in ProviderOf(S, b) : p.type = "debezium"}
Server(S, b) ==
  UNION {ProviderOf(S, s) : s \in {s \in resolveKind(S, b, "sourceRef", "Source") : ~s.external}}
lintReplicationSlotPressure(S) ==
  Found("DL-debezium-001", collideOnKey([b \in Captures(S) |-> Server(S, b)]))

(* redpanda: a stream of one replica on a Provider of several brokers. *)
lintReplicationBelowBrokers(S) ==
  Found("DL-redpanda-001",
        {e \in S : /\ e.kind = "EventStream" /\ ~e.external /\ "replicated" \notin e.opts
                   /\ \E p \in ProviderOf(S, e) : p.type = "redpanda" /\ "replicas" \in p.opts})

(* Each provider type that is declared contributes its lints, once. *)
runProviderLints(S) ==
  LET types == {p.type : p \in {p \in S : p.kind = "Provider"}}
  IN (IF "debezium" \in types THEN lintReplicationSlotPressure(S) ELSE {})
       \cup IF "redpanda" \in types THEN lintReplicationBelowBrokers(S) ELSE {}
Needed(S, e) == Dependents(Edges(S), Key(e)) # {}

lintObserverNotConsumed(S) ==
  Found("DL003",
        {e \in S : Has(e, "metadata.observers") /\ \E p \in ProviderOf(S, e) : ~LineageAware(p.type)})
lintPlaintextBoundary(S) ==
  Found("DL004",
        {e \in S : /\ e.kind = "Connection" /\ ~e.external /\ e.scheme # "https"
                   /\ \E p \in ProviderOf(S, e) : "https" \in SupportedConnectionSchemes(p.type)})
lintOrphanedEventStream(S) ==
  Found("DL010", {e \in S : e.kind = "EventStream" /\ ~Needed(S, e)})
lintUnreferencedResources(S) ==
  Found("DL011", {e \in S : e.kind = "Catalog" /\ ~Needed(S, e)})
    \cup Found("DL012",
               {e \in S : e.kind \in {"SecretReference", "Connection", "Provider"} /\ ~Needed(S, e)})
lintDeadEndPipeline(S) ==
  Found("DL013",
        {b \in S : /\ b.kind = "Binding" /\ b.mode = "cdc"
                   /\ \E k \in EdgesOf(S, b) : k[1] = "EventStream" /\ Cardinality(Dependents(Edges(S), k)) <= 1})
lintNamespaceWideGrant(S) ==
  Found("DL022", {e \in S : \E g \in e.access : g.selector = {}})

(* Data that may be dropped: no deletionPolicy, and no protection while the *)
(* state (the keys K) knows a resource that is no longer declared.          *)
Data(S) == {e \in S : e.kind \in {"Dataset", "Source"} /\ ~e.external}
lintDeletionPolicyUnset(S) == Found("DL020", {e \in Data(S) : "deletionPolicy" \notin e.opts})
lintProtectUnset(S, K) ==
  IF K \subseteq {Key(e) : e \in S} THEN {} ELSE Found("DL021", {e \in Data(S) : "protect" \notin e.opts})

Findings(S, K) ==
  lintDuplicateCapture(S) \cup lintSinkCollision(S) \cup lintObserverNotConsumed(S)
    \cup lintPlaintextBoundary(S) \cup lintOrphanedEventStream(S) \cup lintUnreferencedResources(S)
    \cup lintDeadEndPipeline(S) \cup lintDeletionPolicyUnset(S) \cup lintProtectUnset(S, K)
    \cup lintNamespaceWideGrant(S) \cup runProviderLints(S)

-----------------------------------------------------------------------------
(* Policy rules: records with `id', `effect', `exemptible' and the clause   *)
(* that Rule.Kind tells them apart by, here the field `on'.                 *)

RuleValid(r) ==
  /\ r.effect \in {"deny", "warn"}
  /\ CASE r.on = "field" -> \A sel \in r.match.selector : selectorValid(sel)
       [] r.on = "selector" -> selectorValid(r.from) /\ selectorValid(r.to)
       [] r.on = "crossDomain" -> r.from # "" /\ r.to # ""
       [] r.on \in {"finding", "plan", "grant"} -> TRUE
       [] OTHER -> FALSE

PoliciesValid(P) ==
  /\ \A r, q \in P : r.id = q.id => r = q
  /\ \A r \in P : RuleValid(r)

MatchSelects(m, e) ==
  /\ m.kinds # {} => e.kind \in m.kinds
  /\ m.name # "" => e.name = m.name
  /\ m.labels \subseteq e.labels
  /\ \A sel \in m.selector : Selects(sel, e.labels)

(* The two fields rules look at: metadata.domain and spec.external, which   *)
(* is absent when it is not set.                                            *)
FieldValue(e, field) ==
  IF field = "metadata.domain" THEN {e.domain} ELSE IF e.external THEN {"true"} ELSE {}

AssertSatisfied(a, e) ==
  LET v == FieldValue(e, a.field)
  IN CASE a.op = "absent" -> v = {}
       [] a.op = "in" -> v # {} /\ v \subseteq a.values
       [] a.op = "equals" -> v = a.values
       [] a.op = "notEquals" -> v # a.values

(* The edges policies speak about: a Binding's, from its source to its      *)
(* target, and a connectionRef's, from its owner to the Connection.         *)
crossDomainEdges(S) ==
  UNION {{[owner |-> e, from |-> f, to |-> t] : f \in resolve(S, e, "sourceRef"),
                                                t \in resolve(S, e, "targetRef")}
           : e \in {e \in S : e.kind = "Binding"}}
  \cup UNION {{[owner |-> e, from |-> e, to |-> t] :
                 t \in {t \in resolve(S, e, "connectionRef") : t.kind = "Connection"}}
                : e \in {e \in S : e.kind # "Binding"}}

evaluateFieldAssert(r, S) ==
  {Key(e) : e \in {e \in S : MatchSelects(r.match, e) /\ ~AssertSatisfied(r.assert, e)}}
evaluateFinding(r, F) == {f.resource : f \in {f \in F : f.code = r.code}}
evaluateCrossDomain(r, S) ==
  {Key(x.owner) : x \in {x \in crossDomainEdges(S) : x.from.domain = r.from /\ x.to.domain = r.to}}
evaluateEdgeSelector(r, S) ==
  {Key(x.owner) : x \in {x \in crossDomainEdges(S) : Selects(r.from, x.from.labels) /\ Selects(r.to, x.to.labels)}}
evaluateGrant(r, S) == {Key(e) : e \in {e \in S : \E g \in e.access : g.ns = r.ns}}
evaluatePlan(r, plan) == {k \in DOMAIN plan : plan[k] = r.action /\ (r.kind # "" => k[1] = r.kind)}

Exempt(r, e) == r.exemptible /\ r.id \in e.exempt

(* applyExemptions: only an exemptible rule, and only for a resource that   *)
(* is in the manifest set.                                                  *)
applyExemptions(S, r, ks) ==
  {[rule |-> r.id, effect |-> r.effect, resource |-> k,
    exempted |-> \E e \in S : Key(e) = k /\ Exempt(r, e)] : k \in ks}

Run(P, S, F, scoped) ==
  UNION {applyExemptions(S, r,
           CASE r.on = "field" -> IF r.match.selector = {} \/ scoped THEN evaluateFieldAssert(r, S) ELSE {}
             [] r.on = "finding" -> evaluateFinding(r, F)
             [] r.on = "crossDomain" -> evaluateCrossDomain(r, S)
             [] r.on = "selector" -> IF scoped THEN evaluateEdgeSelector(r, S) ELSE {}
             [] r.on = "grant" -> evaluateGrant(r, S)
             [] OTHER -> {}) : r \in P}

RunPlan(P, S, plan) ==
  UNION {applyExemptions(S, r, IF r.on = "plan" THEN evaluatePlan(r, plan) ELSE {}) : r \in P}

denyError(decisions) == \E d \in decisions : d.effect = "deny" /\ ~d.exempted

(* With the PolicyEngine gate off, or without policies, nothing is denied. *)
evaluatePolicies(G, P, S, K) ==
  IF "PolicyEngine" \in G /\ P # {} THEN Run(P, S, Findings(S, K), "LabelScopedAccess" \in G) ELSE {}
enforcePolicies(G, P, S, K) ==
  ("PolicyEngine" \in G => PoliciesValid(P)) /\ ~denyError(evaluatePolicies(G, P, S, K))
enforcePlanPolicies(G, P, S, plan) ==
  "PolicyEngine" \in G /\ P # {} => ~denyError(RunPlan(P, S, plan))

-----------------------------------------------------------------------------
(* Audit *)

matchingEdgeRules(P, x, scoped) ==
  {r \in P : \/ r.on = "crossDomain" /\ x.from.domain = r.from /\ x.to.domain = r.to
             \/ r.on = "selector" /\ scoped /\ Selects(r.from, x.from.labels) /\ Selects(r.to, x.to.labels)}
matchingGrantRules(P, ns) == {r \in P : r.on = "grant" /\ r.ns = ns}

(* Fault: an exemption counts whether or not the rule allows one. *)
exemptionForAny(owner, r) == r.id \in owner.exempt
exemptionFor(owner, r) == Exempt(r, owner)

(* Denied by the first deny rule that the owner is not exempted from. *)
resolveVerdict(matching, owner) ==
  IF \E r \in matching : r.effect = "deny" /\ ~exemptionFor(owner, r) THEN "denied" ELSE "permitted"

Audit(P, S, scoped) ==
  {[owner |-> Key(x.owner), via |-> <<Key(x.from), Key(x.to)>>,
    verdict |-> resolveVerdict(matchingEdgeRules(P, x, scoped), x.owner)] : x \in crossDomainEdges(S)}
  \cup UNION {{[owner |-> Key(e), via |-> <<Key(e), g.ns>>,
                verdict |-> resolveVerdict(matchingGrantRules(P, g.ns), e)] : g \in e.access} : e \in S}
=============================================================================
