------------------------------ MODULE MCEngine ------------------------------
(***************************************************************************)
(* Instances of Engine: a secret s, a provider p that may read it,         *)
(* resources a, b and c that the provider realizes, and External ones e    *)
(* and x.                                                                  *)
(***************************************************************************)
EXTENDS Engine

CONSTANTS s, p, a, b, c, e, x

Env(h, deps, prov) ==
  [hash |-> h, deps |-> deps, prov |-> prov, external |-> FALSE, protect |-> FALSE]

Pick(m, ks) == [k \in ks |-> m[k]]

(* A diamond: a and b on the provider p, c on both.  Then only b is left, or *)
(* b is changed and a is gone: c is a Connection whose target host named a,  *)
(* so that without a its own spec and hash are the same, but it depends on   *)
(* less.                                                                     *)
Diamond ==
  [k \in {p, a, b, c} |-> IF k = p THEN Env(1, {}, p)
                          ELSE Env(1, IF k = c THEN {p, a, b} ELSE {p}, p)]
Narrow == [Pick(Diamond, {p, b, c}) EXCEPT ![b].hash = 2, ![c].deps = {p, b}]
DiamondManifests == {Diamond, Pick(Diamond, {p, b}), Narrow}

(* Lifecycles: e is External with a provider, x External without one, a may *)
(* be imported; the provider reads the secret s, and no longer does so      *)
(* where only it is left.                                                   *)
Mixed ==
  [k \in {s, p, a, e, x} |->
     CASE k = s -> Env(1, {}, NoProvider)
       [] k = p -> Env(1, {s}, p)
       [] k = a -> Env(1, {p}, p)
       [] k = e -> [Env(1, {p}, p) EXCEPT !.external = TRUE]
       [] k = x -> [Env(1, {}, NoProvider) EXCEPT !.external = TRUE, !.protect = TRUE]]
MixedManifests == {Mixed, [Pick(Mixed, {s, p}) EXCEPT ![p] = Env(2, {}, p)]}

(* An entry written before LastApplied was recorded, and an object made out *)
(* of band.                                                                 *)
Legacy == [k \in {a} |-> [hash |-> 1, imported |-> FALSE, env |-> NoEnvelope, deps |-> {},
                          secret |-> 0, depSecrets |-> NoHashes]]
LegacyState == {Empty, Legacy}
Preexisting == {Empty, [k \in {a} |-> [hash |-> 1, seen |-> NoHashes]]}
MixedOptions == {{}, {"external", "heal"}, {"imported", "halt"}}

HaltOptions == {{}, {"halt"}}

NoState == {Empty}
NoObjects == {Empty}
=============================================================================
