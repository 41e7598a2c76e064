------------------------------ MODULE Overlay -------------------------------
(***************************************************************************)
(* The mediation plane on OpenZiti: a controller with its database and a   *)
(* router, either declared as a Provider (openziti/instance.go) or kept by *)
(* the engine as the platform fabric (openziti/fabric.go,                  *)
(* engine/mediation_fabric.go), and the mediated Connections of a Provider *)
(* (openziti/connection.go, identity.go): a service and a terminator for   *)
(* the target, an identity and a dial policy for the consumer, and a       *)
(* tunneler that enrols with a one-time token.  The Connections run        *)
(* concurrently; a step may fail with or without its effect, the process   *)
(* may die, an operator may remove the controller's container.  A          *)
(* Connection has one consumer, which may come and go.                     *)
(***************************************************************************)
EXTENDS Integers, Sequences, FiniteSets, TLC

CONSTANTS Conn,                       \* the mediated Connections
          Sharings,                   \* what those of a Provider may have in common
          MaxEdits, MaxMishaps        \* bounds on a behaviour

ASSUME OverlayAssumption == /\ IsFiniteSet(Conn) /\ "plane" \notin Conn
                            /\ Sharings \subseteq {"consumer", "target", "nothing"}
                            /\ {MaxEdits, MaxMishaps} \subseteq Nat

VARIABLES
  kind,           \* "fabric" or "provider"
  shared,         \* what the Connections have in common: "consumer", "target" or "nothing"
  declared,       \* the Connections in the manifests
  reads,          \* those with a consumer among the resources of the next command
  recorded,       \* the entries of the state, the plane's included
  ctrl, router,   \* containers: none, with the one-time secret, stable
  admin, cred,    \* password in the controller's database, and in the file on its volume
  rrec, keys, erp,\* the router's record, its keys, the policies that let it serve
  svc, term,      \* targets with a service, with a terminator
  ident, policy,  \* incarnation of each consumer's identity; dial policies
  tunnel, token, idvol,  \* tunneler of a Connection, its token, the identity on its volume
  held, minted, jwt,     \* what the process holds: password, whether new, tokens
  cmd, work, todo,       \* the command, the entries and their steps left
  undercut,       \* the identity that a Connection's tunneler holds was taken away
  dropped,        \* a sibling's removal took a Connection's service away
  remaking,       \* targets whose terminator a reconcile dropped to make another
  left,           \* destroyed by this command, which could not tell what to revoke
  orphaned,       \* the controller's volume was left alone, or could not be read
  edits, mishaps

plane == "plane"
Entry == Conn \cup {plane}
db == <<rrec, erp, svc, term, ident, policy>>
tunnels == <<tunnel, token, idvol>>
hosts == <<ctrl, router, admin, cred, keys>>
process == <<held, minted, jwt>>
faults == <<undercut, dropped, remaking>>
ghosts == <<faults, left, orphaned>>
world == <<hosts, db, tunnels, process, ghosts>>
manifests == <<kind, shared, declared, reads, edits>>
vars == <<manifests, recorded, world, cmd, work, todo, mishaps>>

Owner(c, what) == IF shared = what THEN "both" ELSE c
consumer(c) == Owner(c, "consumer")
target(c) == Owner(c, "target")
Party == Conn \cup {"both"}
New(used) == CHOOSE n \in 1..(Cardinality(used) + 1) : n \notin used
-----------------------------------------------------------------------------
(* The programs. *)

mintedController ==
  <<"controller", "waitControllerServing", "settleController", "waitControllerServing">>
Router == <<"upsertEdgeRouter", "catchAll">>
EnsureFabric == <<"resolveCredential">>
reconcileInstance == <<"controller", "waitControllerServing">> \o Router
enrolRouter == <<"enrolRouter", "waitEdgeRouterVerified", "router">>
DestroyPlane == <<"dropRouter", "removeRouter", "removeController", "removeRouterVolume",
                  "removeControllerVolume">>
destroyInstance == DestroyPlane
DestroyFabric == DestroyPlane

(* The router's record, which the plane has just ensured, is only looked up. *)
(* Fault: a Connection is ready once its container is. *)
readyWhenCreated == <<"upsertService", "dropTerminator", "createTerminator", "mintIdentity",
                      "RealizeEdge", "tunnel">>
reconcileConnection == <<"upsertService", "dropTerminator", "createTerminator", "mintIdentity",
                         "RealizeEdge", "tunnel", "waitMediatedServing">>
enrolTunnel == <<"tunnelWithToken", "waitTunnelEnrolled">>
destroyConnection == <<"removeTunnel", "removeIdentityVolume", "trySession", "RevokeEdge",
                       "RevokeIdentity", "deleteTerminators", "deleteService">>
(* These are done for the consumers that the graph names now, if any. *)
ForConsumers == {"mintIdentity", "RealizeEdge", "RevokeEdge", "RevokeIdentity"}

(* ensureMediationFabric does nothing without a mediated edge, declared or   *)
(* still to be deleted; the Connections of a fabric are no objects of it.    *)
anyMediatedEdge(edges) == edges # {}
Up(e) == CASE e # plane /\ kind = "provider" -> reconcileConnection
           [] e = plane /\ kind = "provider" -> reconcileInstance
           [] e = plane /\ kind = "fabric" /\ anyMediatedEdge(declared \cup (recorded \ {plane}))
                -> EnsureFabric
           [] OTHER -> <<>>
(* maybeDestroyMediationFabric: when the state has no mediated edge left. *)
Down(e) == CASE e # plane /\ kind = "provider" -> destroyConnection
             [] e = plane /\ kind = "provider" -> destroyInstance
             [] e = plane /\ kind = "fabric" /\ ~anyMediatedEdge(recorded \ {plane}) -> DestroyFabric
             [] OTHER -> <<>>
-----------------------------------------------------------------------------
Doing(e, s) == todo[e] # <<>> /\ Head(todo[e]) = s
Serving == ctrl # "none" /\ admin # 0
newSession == Serving /\ held = admin            \* a session of the process works

(* The plane. *)

(* The credential is read back from the controller's volume, through its     *)
(* container; where that is gone, or the file is, or the read fails or gives *)
(* something else, a new one is minted.                                      *)
Orphan == orphaned' = (orphaned \/ (ctrl = "none" /\ admin # 0))
(* Fault: a credential is minted each time. *)
mintAlways(e) ==
  /\ Doing(e, "resolveCredential") /\ Orphan
  /\ minted' = TRUE /\ held' = New({admin, cred, held})
  /\ UNCHANGED <<hosts, db, tunnels, jwt, faults, left>>
resolveFabricAdminCredential(e) ==
  /\ Doing(e, "resolveCredential")
  /\ \/ minted' = ~(ctrl # "none" /\ cred # 0) /\ Orphan
     \/ minted' = TRUE /\ orphaned' = TRUE
  /\ held' = IF minted' THEN New({admin, cred, held}) ELSE cred
  /\ UNCHANGED <<hosts, db, tunnels, jwt, faults, left>>
(* With a new credential the container has it in its environment, and in a   *)
(* file on its volume.  A container with another environment is removed, and *)
(* then the new one is created.                                              *)
Outdated == ctrl = "boot" \/ (minted /\ ctrl = "stable")
controller(e) ==
  /\ Doing(e, "controller")
  /\ ctrl' = IF Outdated THEN "none" ELSE IF minted THEN "boot" ELSE "stable"
  /\ cred' = IF ~Outdated /\ minted THEN held ELSE cred
  /\ UNCHANGED <<router, admin, keys, db, tunnels, process, ghosts>>
settleController(e) ==
  /\ Doing(e, "settleController") /\ ctrl' = IF Outdated THEN "none" ELSE "stable"
  /\ UNCHANGED <<router, admin, cred, keys, db, tunnels, process, ghosts>>
upsertEdgeRouter(e) ==
  /\ Doing(e, "upsertEdgeRouter") /\ rrec' = IF rrec = "none" THEN "new" ELSE rrec
  /\ UNCHANGED <<hosts, erp, svc, term, ident, policy, tunnels, process, ghosts>>
ensureRouter(e) ==
  /\ \/ Doing(e, "enrolRouter") /\ router' = "enrolling"
     \/ Doing(e, "router") /\ router' = "stable"
  /\ UNCHANGED <<ctrl, admin, cred, keys, db, tunnels, process, ghosts>>
upsertCatchAllRouterPolicies(e) ==
  /\ Doing(e, "catchAll") /\ erp' = TRUE
  /\ UNCHANGED <<hosts, rrec, svc, term, ident, policy, tunnels, process, ghosts>>

(* The record goes when the controller can be reached; errors are dropped.   *)
dropRouter(e) ==
  /\ Doing(e, "dropRouter")
  /\ \/ /\ Serving /\ (kind = "fabric" => cred = admin)
        /\ rrec' = "none" /\ keys' = FALSE
     \/ UNCHANGED <<rrec, keys>>
  /\ UNCHANGED <<ctrl, router, admin, cred, erp, svc, term, ident, policy, tunnels, process, ghosts>>
removeRouter(e) == /\ Doing(e, "removeRouter") /\ router' = "none"
                   /\ UNCHANGED <<ctrl, admin, cred, keys, db, tunnels, process, ghosts>>
removeController(e) == /\ Doing(e, "removeController") /\ ctrl' = "none" /\ orphaned' = TRUE
                       /\ UNCHANGED <<router, admin, cred, keys, db, tunnels, process, faults, left>>
removeRouterVolume(e) == /\ Doing(e, "removeRouterVolume") /\ keys' = FALSE
                         /\ UNCHANGED <<ctrl, router, admin, cred, db, tunnels, process, ghosts>>
removeControllerVolume(e) ==
  /\ Doing(e, "removeControllerVolume")
  /\ admin' = 0 /\ cred' = 0 /\ rrec' = "none" /\ keys' = FALSE
  /\ erp' = FALSE /\ svc' = {} /\ term' = {}
  /\ ident' = [p \in Party |-> 0] /\ policy' = {} /\ orphaned' = FALSE
  /\ undercut' = undercut \cup {c \in Conn : idvol[c] # 0} /\ remaking' = {}
  /\ UNCHANGED <<ctrl, router, tunnels, process, dropped, left>>
-----------------------------------------------------------------------------
(* The Connections. *)
upsertService(c) ==
  /\ Doing(c, "upsertService") /\ svc' = svc \cup {target(c)}
  /\ UNCHANGED <<hosts, rrec, erp, term, ident, policy, tunnels, process, ghosts>>
(* The address read back has the scheme it was posted with and never equals  *)
(* the one wanted, so each reconcile drops the terminator and makes another. *)
upsertTransportTerminator(c) ==
  /\ \/ /\ Doing(c, "dropTerminator") /\ term' = term \ {target(c)}
        /\ remaking' = IF target(c) \in term THEN remaking \cup {target(c)} ELSE remaking
     \/ /\ Doing(c, "createTerminator") /\ term' = term \cup {target(c)}
        /\ remaking' = remaking \ {target(c)}
  /\ UNCHANGED <<hosts, rrec, erp, svc, ident, policy, tunnels, process, undercut,
                 dropped, left, orphaned>>
(* A token comes with a new identity, and only then. *)
mintIdentityWithToken(c) ==
  /\ Doing(c, "mintIdentity")
  /\ LET w == consumer(c)
         n == New(UNION {{ident[w], idvol[d], token[d], jwt[d]} :
                           d \in {d \in Conn : consumer(d) = w}})
     IN IF c \in reads /\ ident[w] = 0 THEN ident' = [ident EXCEPT ![w] = n] /\ jwt' = [jwt EXCEPT ![c] = n]
        ELSE jwt' = [jwt EXCEPT ![c] = 0] /\ UNCHANGED ident
  /\ UNCHANGED <<hosts, rrec, erp, svc, term, policy, tunnels, held, minted, ghosts>>
RealizeEdge(c) ==
  /\ Doing(c, "RealizeEdge")
  /\ policy' = IF c \in reads THEN policy \cup {<<consumer(c), target(c)>>} ELSE policy
  /\ dropped' = dropped \ {c}
  /\ UNCHANGED <<hosts, rrec, erp, svc, term, ident, tunnels, process, undercut,
                 remaking, left, orphaned>>
ensureTunnel(c) ==
  /\ \/ /\ Doing(c, "tunnelWithToken") /\ tunnel' = [tunnel EXCEPT ![c] = "enrolling"]
        /\ token' = [token EXCEPT ![c] = jwt[c]]
     \/ /\ Doing(c, "tunnel") /\ tunnel' = [tunnel EXCEPT ![c] = "stable"]
        /\ token' = [token EXCEPT ![c] = 0]
  /\ UNCHANGED <<hosts, db, idvol, process, ghosts>>

removeTunnel(c) ==
  /\ Doing(c, "removeTunnel") /\ tunnel' = [tunnel EXCEPT ![c] = "none"]
  /\ token' = [token EXCEPT ![c] = 0]
  /\ UNCHANGED <<hosts, db, idvol, process, ghosts>>
removeIdentityVolume(c) ==
  /\ Doing(c, "removeIdentityVolume") /\ idvol' = [idvol EXCEPT ![c] = 0]
  /\ undercut' = undercut \ {c}
  /\ UNCHANGED <<hosts, db, tunnel, token, process, dropped,
                 remaking, left, orphaned>>
(* Without a session, or where compileMediatedConnection fails or does not   *)
(* find the Connection, the removal ends here, and succeeds.                 *)
trySession(c) ==
  /\ Doing(c, "trySession")
  /\ \/ left' = left \cup {c}
     \/ newSession /\ left' = left
  /\ UNCHANGED <<hosts, db, tunnels, process, faults, orphaned>>
RevokeEdge(c) ==
  /\ Doing(c, "RevokeEdge")
  /\ policy' = IF c \in reads THEN policy \ {<<consumer(c), target(c)>>} ELSE policy
  /\ UNCHANGED <<hosts, rrec, erp, svc, term, ident, tunnels, process, ghosts>>
(* Every policy that names the consumer goes before its identity does.       *)
(* Fault: the controller is trusted to drop them with the identity. *)
trustCascade(c) ==
  /\ Doing(c, "RevokeIdentity")
  /\ IF c \in reads
     THEN /\ ident' = [ident EXCEPT ![consumer(c)] = 0]
          /\ undercut' = undercut \cup {d \in Conn \ {c} : consumer(d) = consumer(c)}
     ELSE UNCHANGED <<ident, undercut>>
  /\ UNCHANGED <<hosts, rrec, erp, svc, term, policy, tunnels, process, dropped,
                 remaking, left, orphaned>>
RevokeIdentity(c) ==
  /\ Doing(c, "RevokeIdentity")
  /\ IF c \in reads
     THEN /\ policy' = {p \in policy : p[1] # consumer(c)}
          /\ ident' = [ident EXCEPT ![consumer(c)] = 0]
          /\ undercut' = undercut \cup {d \in Conn \ {c} : consumer(d) = consumer(c)}
     ELSE UNCHANGED <<policy, ident, undercut>>
  /\ UNCHANGED <<hosts, rrec, erp, svc, term, tunnels, process, dropped,
                 remaking, left, orphaned>>
(* The service is looked for by the name of the target the graph has now;    *)
(* where that is another, there is nothing to delete.                        *)
deleteTerminatorsForService(c) ==
  /\ Doing(c, "deleteTerminators")
  /\ \/ /\ term' = term \ {target(c)} /\ UNCHANGED left
        /\ dropped' = dropped \cup {d \in Conn \ {c} : target(d) = target(c)}
     \/ left' = left \cup {c} /\ UNCHANGED <<term, dropped>>
  /\ UNCHANGED <<hosts, rrec, erp, svc, ident, policy, tunnels, process, undercut,
                 remaking, orphaned>>
deleteService(c) ==
  /\ Doing(c, "deleteService") /\ svc' = svc \ {target(c)}
  /\ UNCHANGED <<hosts, rrec, erp, term, ident, policy, tunnels, process, ghosts>>

Looks(e) == /\ Head(todo[e]) \in {"waitControllerServing", "waitEdgeRouterVerified",
                                  "waitTunnelEnrolled", "waitMediatedServing"}
            /\ UNCHANGED world

Effect(e) ==
  \/ resolveFabricAdminCredential(e) \/ controller(e) \/ settleController(e) \/ upsertEdgeRouter(e)
  \/ ensureRouter(e) \/ upsertCatchAllRouterPolicies(e) \/ dropRouter(e) \/ removeRouter(e)
  \/ removeController(e) \/ removeRouterVolume(e) \/ removeControllerVolume(e) \/ Looks(e)
  \/ /\ e \in Conn
     /\ \/ upsertService(e) \/ upsertTransportTerminator(e) \/ mintIdentityWithToken(e)
        \/ RealizeEdge(e) \/ ensureTunnel(e) \/ removeTunnel(e) \/ removeIdentityVolume(e)
        \/ trySession(e) \/ RevokeEdge(e) \/ RevokeIdentity(e) \/ deleteTerminatorsForService(e)
        \/ deleteService(e)

(* What the waits wait for.  A tunneler listens once it has an identity. *)
waitControllerServing == Serving
waitEdgeRouterVerified == rrec = "verified"
waitTunnelEnrolled(c) == idvol[c] # 0
waitMediatedServing(c) == tunnel[c] # "none" /\ idvol[c] # 0
(* Steps that need no session; newSession fails where the first that does    *)
(* need one cannot be taken.                                                 *)
Local == {"resolveCredential", "controller", "settleController", "router", "enrolRouter", "dropRouter",
          "removeRouter", "removeController", "removeRouterVolume", "removeControllerVolume",
          "tunnel", "tunnelWithToken", "removeTunnel", "removeIdentityVolume", "trySession"}
Able(e) == LET s == Head(todo[e])
           IN CASE s = "waitControllerServing" -> waitControllerServing
                [] s = "waitEdgeRouterVerified" -> waitEdgeRouterVerified
                [] s = "waitTunnelEnrolled" -> waitTunnelEnrolled(e)
                [] s = "waitMediatedServing" -> waitMediatedServing(e)
                [] OTHER -> s \in Local \/ newSession \/ (s \in ForConsumers /\ e \notin reads)

After(e) ==
  LET rest == Tail(todo[e])
  IN CASE Doing(e, "resolveCredential") ->
            (IF minted' THEN mintedController ELSE <<"controller", "waitControllerServing">>) \o Router
       [] (Doing(e, "controller") \/ Doing(e, "settleController")) /\ Outdated -> todo[e]
       [] Doing(e, "upsertEdgeRouter") /\ e = plane ->
            (IF rrec' = "verified" THEN <<"router">> ELSE enrolRouter) \o rest
       [] Doing(e, "mintIdentity") /\ jwt'[e] # 0 ->
            <<Head(rest)>> \o enrolTunnel \o Tail(rest)
       [] (Doing(e, "trySession") \/ Doing(e, "deleteTerminators")) /\ e \in left' -> <<>>
       [] OTHER -> rest
-----------------------------------------------------------------------------
Secret == 1                              \* a Provider's password is its secret's
Init ==
  /\ \/ kind = "fabric" /\ shared = "nothing"
     \/ kind = "provider" /\ shared \in Sharings
  /\ declared = Conn /\ reads = Conn /\ recorded = {}
  /\ ctrl = "none" /\ router = "none" /\ admin = 0 /\ cred = 0 /\ keys = FALSE
  /\ rrec = "none" /\ erp = FALSE /\ svc = {} /\ term = {}
  /\ ident = [p \in Party |-> 0] /\ policy = {}
  /\ tunnel = [c \in Conn |-> "none"] /\ token = [c \in Conn |-> 0] /\ idvol = [c \in Conn |-> 0]
  /\ held = IF kind = "provider" THEN Secret ELSE 0
  /\ minted = FALSE /\ jwt = [c \in Conn |-> 0]
  /\ cmd = "idle" /\ work = [e \in Entry |-> "none"] /\ todo = [e \in Entry |-> <<>>]
  /\ undercut = {} /\ dropped = {} /\ remaking = {} /\ left = {} /\ orphaned = FALSE /\ edits = 0 /\ mishaps = 0

(* The plane is ensured before the Connections, which are deleted after the  *)
(* others are reconciled; it goes last, and only in a destroy.  What is      *)
(* recorded and has not changed is probed, and a probe reconciles.           *)
StartApply ==
  /\ cmd = "idle" /\ cmd' = "apply"
  /\ work' = [e \in Entry |-> IF e \in declared \cup {plane} THEN "up"
                              ELSE IF e \in recorded THEN "down" ELSE "none"]
  /\ UNCHANGED <<manifests, recorded, world, todo, mishaps>>
StartDestroy ==
  /\ cmd = "idle" /\ recorded # {} /\ cmd' = "destroy"
  /\ work' = [e \in Entry |-> IF e \in recorded /\ e \in declared \cup {plane} THEN "down" ELSE "none"]
  /\ UNCHANGED <<manifests, recorded, world, todo, mishaps>>

Ended == {"none", "upped", "downed", "failed"}
Level(e) == CASE work[e] \in {"up", "upping"} -> IF e = plane THEN 1 ELSE 2
              [] OTHER -> IF e = plane THEN 4 ELSE 3
(* A failed plane blocks the Connections; in a destroy they block it. *)
Blocked(e) == IF e = plane THEN cmd = "destroy" /\ \E c \in Conn : work[c] = "failed"
              ELSE work[plane] = "failed"
Begin(e) ==
  /\ work[e] \in {"up", "down"}
  /\ \A d \in Entry : work[d] \in Ended \/ Level(d) >= Level(e)
  /\ IF Blocked(e) THEN work' = [work EXCEPT ![e] = "failed"] /\ UNCHANGED todo
     ELSE IF work[e] = "up" THEN work' = [work EXCEPT ![e] = "upping"] /\ todo' = [todo EXCEPT ![e] = Up(e)]
     ELSE work' = [work EXCEPT ![e] = "downing"] /\ todo' = [todo EXCEPT ![e] = Down(e)]
  /\ UNCHANGED <<manifests, recorded, world, cmd, mishaps>>

Busy(e) == work[e] \in {"upping", "downing"}
Running(e) == Busy(e) /\ todo[e] # <<>>
Step(e) ==
  /\ Running(e) /\ Able(e) /\ Effect(e) /\ todo' = [todo EXCEPT ![e] = After(e)]
  /\ UNCHANGED <<manifests, recorded, cmd, work, mishaps>>
(* The result is recorded and saved.  A fabric without edges is not touched. *)
Touched(e) == ~(e = plane /\ kind = "fabric" /\ Up(plane) = <<>> /\ cmd = "apply")
Done(e) ==
  /\ Busy(e) /\ todo[e] = <<>>
  /\ \/ /\ work[e] = "upping" /\ work' = [work EXCEPT ![e] = "upped"]
        /\ recorded' = IF Touched(e) THEN recorded \cup {e} ELSE recorded
     \/ /\ work[e] = "downing" /\ work' = [work EXCEPT ![e] = "downed"]
        /\ recorded' = IF e = plane /\ Down(e) = <<>> THEN recorded ELSE recorded \ {e}
  /\ UNCHANGED <<manifests, world, cmd, todo, mishaps>>
(* A failed fabric is recorded as such. *)
Failed(e) ==
  /\ work' = [work EXCEPT ![e] = "failed"] /\ todo' = [todo EXCEPT ![e] = <<>>]
  /\ recorded' = IF e = plane /\ kind = "fabric" /\ cmd = "apply" THEN recorded \cup {e} ELSE recorded
  /\ UNCHANGED <<manifests, cmd>>
Stuck(e) == Running(e) /\ ~Able(e) /\ Failed(e) /\ UNCHANGED <<world, mishaps>>
Mishap == mishaps < MaxMishaps /\ mishaps' = mishaps + 1
Fails(e) == Running(e) /\ Able(e) /\ Mishap /\ Failed(e) /\ (Effect(e) \/ UNCHANGED world)
Idle == /\ cmd' = "idle" /\ work' = [e \in Entry |-> "none"] /\ todo' = [e \in Entry |-> <<>>]
        /\ jwt' = [c \in Conn |-> 0] /\ minted' = FALSE
        /\ held' = IF kind = "fabric" THEN 0 ELSE held
        /\ left' = {}
        /\ UNCHANGED <<manifests, recorded, hosts, db, tunnels, faults, orphaned>>
Crash == cmd # "idle" /\ Mishap /\ Idle
Finish == cmd # "idle" /\ (\A e \in Entry : work[e] \in Ended) /\ Idle /\ UNCHANGED mishaps

(* The containers.  A controller makes its database once, and only with a    *)
(* credential; a router and a tunneler use a token once.                     *)
Bootstrap ==
  /\ admin = 0
  /\ \/ kind = "provider" /\ ctrl # "none" /\ admin' = Secret
     \/ kind = "fabric" /\ ctrl = "boot" /\ admin' = cred
  /\ UNCHANGED <<manifests, recorded, ctrl, router, cred, keys, db, tunnels, process, ghosts, cmd,
                 work, todo, mishaps>>
EnrolRouter ==
  /\ router = "enrolling" /\ rrec = "new" /\ Serving
  /\ rrec' = "verified" /\ keys' = TRUE
  /\ UNCHANGED <<manifests, recorded, ctrl, router, admin, cred, erp, svc, term, ident, policy,
                 tunnels, process, ghosts, cmd, work, todo, mishaps>>
EnrolTunnel(c) ==
  /\ idvol[c] = 0 /\ token[c] # 0 /\ token[c] = ident[consumer(c)] /\ Serving
  /\ idvol' = [idvol EXCEPT ![c] = token[c]]
  /\ UNCHANGED <<manifests, recorded, hosts, db, tunnel, token, process, ghosts, cmd, work, todo,
                 mishaps>>

(* A Connection comes or goes, or its consumer.  A consumer that goes in the *)
(* same apply is still among the resources, one that went before is not.     *)
Toggle(S, c) == IF c \in S THEN S \ {c} ELSE S \cup {c}
Edit ==
  /\ cmd = "idle" /\ edits < MaxEdits /\ edits' = edits + 1
  /\ \E c \in Conn :
       \/ declared' = Toggle(declared, c) /\ UNCHANGED reads
       \/ kind = "provider" /\ reads' = Toggle(reads, c) /\ UNCHANGED declared
  /\ UNCHANGED <<kind, shared, recorded, world, cmd, work, todo, mishaps>>
Meddle ==
  /\ Mishap /\ ctrl # "none" /\ ctrl' = "none" /\ orphaned' = TRUE
  /\ UNCHANGED <<manifests, recorded, router, admin, cred, keys, db, tunnels, process, faults, left,
                 cmd, work, todo>>

Next == \/ StartApply \/ StartDestroy \/ Crash \/ Finish \/ Bootstrap \/ EnrolRouter \/ Edit \/ Meddle
        \/ \E c \in Conn : EnrolTunnel(c)
        \/ \E e \in Entry : Begin(e) \/ Step(e) \/ Done(e) \/ Stuck(e) \/ Fails(e)
Spec == Init /\ [][Next]_vars
ConnSymmetry == Permutations(Conn)
-----------------------------------------------------------------------------
(* What a reconcile reports ready can carry traffic: the router runs with    *)
(* the keys of its record and no container still carries a one-time secret;  *)
(* the Connection has its service and terminator, its consumer, where the    *)
(* graph names one, a policy, and the tunneler the consumer's present        *)
(* identity; unless the removal of a sibling or of the plane took them away, *)
(* or a sibling is making the terminator again.                              *)
ReadyMeansMediated ==
  /\ work[plane] = "upped" /\ plane \in recorded /\ ~orphaned =>
       /\ ctrl = "stable" \/ ~anyMediatedEdge(declared)
       /\ anyMediatedEdge(declared) => router = "stable" /\ rrec = "verified" /\ keys /\ erp
  /\ \A c \in Conn : kind = "provider" /\ work[c] = "upped" /\ c \notin undercut \cup dropped =>
       /\ target(c) \in svc \cap (term \cup remaking)
       /\ idvol[c] # 0 /\ idvol[c] = ident[consumer(c)]
       /\ tunnel[c] = "stable" /\ token[c] = 0
       /\ c \in reads => <<consumer(c), target(c)>> \in policy

(* A removal that had a session, and found what it had realized in the graph *)
(* of its command, leaves no way to dial: no service, and for the consumer   *)
(* that graph names no identity and no policy.  It revokes nobody else: a    *)
(* consumer that was taken away by an earlier command keeps its identity and *)
(* its policy (destroyConnection, connection.go:428-440), and may dial again *)
(* once the service is back; and a removal that cannot compile the graph, or *)
(* finds another target in it, reports success all the same (:416-420).      *)
RevokedLeavesNoAccess ==
  \A c \in Conn : kind = "provider" /\ work[c] = "downed" /\ c \notin left =>
    /\ target(c) \notin svc \cup term
    /\ c \in reads => ident[consumer(c)] = 0 /\ \A p \in policy : p[1] # consumer(c)

(* The credential on the fabric's volume is the one its database was made    *)
(* with, so that no later apply is locked out, wherever between the mint,    *)
(* the bootstrap and the settling an apply is cut short; unless a credential *)
(* is minted over a database that has one: its container was gone (removed   *)
(* by an operator, by half a destroy, or by a recreation that was cut before *)
(* the new container was created), or the read failed.  The comment of       *)
(* resolveFabricAdminCredential calls that mint harmless (fabric.go:306-312).*)
CredentialKept == admin # 0 /\ kind = "fabric" /\ ~orphaned => cred = admin
=============================================================================
