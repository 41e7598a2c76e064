----------------------------- MODULE Resources -----------------------------
(***************************************************************************)
(* The vocabulary the engine's modules share: manifests, recorded state,   *)
(* lifecycles and the dependency graph.                                    *)
(*                                                                         *)
(* Go maps keyed by resource.Key are TLA+ functions whose DOMAIN is a      *)
(* subset of Key.  A spec is reduced to its hash: plan.SpecHash is         *)
(* injective here, and metadata.protect is not part of what is hashed.     *)
(***************************************************************************)
EXTENDS Naturals, FiniteSets

CONSTANTS
  Key,          \* resource keys (namespace, kind, name)
  SecretKey,    \* the keys whose kind is SecretReference
  NoProvider,   \* spec.providerRef is absent and the kind is not Provider
  NoEnvelope    \* ResourceState.LastApplied is nil (state of an old version)

ASSUME KeyAssumption ==
  /\ IsFiniteSet(Key)
  /\ SecretKey \subseteq Key
  /\ NoProvider \notin Key

-----------------------------------------------------------------------------
(* Maps *)

Put(f, k, v) == [x \in DOMAIN f \cup {k} |-> IF x = k THEN v ELSE f[x]]
Del(f, k) == [x \in DOMAIN f \ {k} |-> f[x]]

Empty == [x \in {} |-> {}]

-----------------------------------------------------------------------------
(* A manifest envelope.  `prov' is the Provider that realizes the resource: *)
(* itself for a Provider, its providerRef otherwise.                        *)

Envelope == [hash: Nat, deps: SUBSET Key, prov: Key \cup {NoProvider},
             external: BOOLEAN, protect: BOOLEAN]

(* One state entry: SpecHash, Imported, LastApplied, Dependencies (the      *)
(* transitive closure), SecretHash and DependencyHashes.  Fingerprints are  *)
(* naturals and 0 is the empty string.                                      *)
ResourceState == [hash: Nat, imported: BOOLEAN, env: Envelope \cup {NoEnvelope},
                  deps: SUBSET Key, secret: Nat, depSecrets: [Key -> Nat]]

NoHashes == [k \in Key |-> 0]

(* resource.LifecycleOf: External wins over Imported over Managed. *)
LifecycleOf(env, imported) ==
  IF env.external THEN "External" ELSE IF imported THEN "Imported" ELSE "Managed"

(* isExternalNoProvider: nothing in the platform realizes the resource. *)
isExternalNoProvider(env) == env.external /\ env.prov = NoProvider

(* The kind handlers whose del hook is deleteStateOnly: deleting one is     *)
(* forgetting its entry, and reconciling one touches no runtime object.     *)
StateOnly(k, env) == k \in SecretKey \/ isExternalNoProvider(env)

-----------------------------------------------------------------------------
(* The dependency graph of a set of envelopes *)

Edges(m, k) == IF k \in DOMAIN m THEN m[k].deps ELSE {}

Closed(m, S) == \A x \in S : Edges(m, x) \subseteq S

(* Graph.Dependencies: the transitive set of resources k depends on, as the *)
(* least set that holds k's edges and is closed under edges.                *)
Dependencies(m, k) ==
  {d \in Key : \A S \in SUBSET Key : (Edges(m, k) \subseteq S /\ Closed(m, S)) => d \in S}

(* Graph.Dependents: the transitive set of resources that depend on k. *)
Dependents(m, k) == {d \in DOMAIN m : k \in Dependencies(m, d)}

(* The depth TopologicalLevels and computeApplyDeletes assign: 0 without    *)
(* dependencies, else one more than the deepest dependency.                 *)
IsDepth(g, lv) ==
  \A k \in DOMAIN g :
    /\ \A d \in g[k] : lv[d] < lv[k]
    /\ lv[k] # 0 => \E d \in g[k] : lv[k] = lv[d] + 1

Depths(g) == {lv \in [DOMAIN g -> 0..Cardinality(Key)] : IsDepth(g, lv)}
Levels(g) == CHOOSE lv \in Depths(g) : TRUE
Height == Cardinality(Key) + 1

EdgeMap(m) == [k \in DOMAIN m |-> m[k].deps]

(* What graph.Build accepts: every reference resolves and there is no cycle. *)
Buildable(m) ==
  /\ DOMAIN m \subseteq Key
  /\ \A k \in DOMAIN m : m[k] \in Envelope /\ m[k].deps \subseteq DOMAIN m
  /\ Depths(EdgeMap(m)) # {}
=============================================================================
