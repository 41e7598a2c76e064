---------------------------- MODULE OverlayProofs ----------------------------
(***************************************************************************)
(* The mediation plane keeps its credential, reports ready only what can   *)
(* carry traffic and leaves no access behind, for any finite set of        *)
(* Connections and any number of edits and mishaps.                        *)
(***************************************************************************)
EXTENDS Overlay, FiniteSetTheorems, SequenceTheorems, TLAPS

\* The steps the plane may have left, by where its reconcile or its removal is:
\* a credential to resolve; one was minted; none was; the router; the removal.
Credentials == <<"resolveCredential">>
Minted1 == <<"controller", "waitControllerServing", "settleController",
             "waitControllerServing", "upsertEdgeRouter", "catchAll">>
Minted2 == <<"waitControllerServing", "settleController",
             "waitControllerServing", "upsertEdgeRouter", "catchAll">>
Minted3 == <<"settleController", "waitControllerServing", "upsertEdgeRouter", "catchAll">>
Plane1 == <<"controller", "waitControllerServing", "upsertEdgeRouter", "catchAll">>
Plane2 == <<"waitControllerServing", "upsertEdgeRouter", "catchAll">>
Plane3 == <<"upsertEdgeRouter", "catchAll">>
Router1 == <<"enrolRouter", "waitEdgeRouterVerified", "router", "catchAll">>
Router2 == <<"waitEdgeRouterVerified", "router", "catchAll">>
Router3 == <<"router", "catchAll">>
Router4 == <<"catchAll">>
Raze1 == <<"dropRouter", "removeRouter", "removeController", "removeRouterVolume",
           "removeControllerVolume">>
Raze2 == <<"removeRouter", "removeController", "removeRouterVolume", "removeControllerVolume">>
Raze3 == <<"removeController", "removeRouterVolume", "removeControllerVolume">>
Raze4 == <<"removeRouterVolume", "removeControllerVolume">>
Raze5 == <<"removeControllerVolume">>

\* The steps a Connection may have left: its reconcile, with or without a token
\* to enrol with, and its removal.
Conn1 == <<"upsertService", "dropTerminator", "createTerminator", "mintIdentity",
           "RealizeEdge", "tunnel", "waitMediatedServing">>
Conn2 == <<"dropTerminator", "createTerminator", "mintIdentity",
           "RealizeEdge", "tunnel", "waitMediatedServing">>
Conn3 == <<"createTerminator", "mintIdentity", "RealizeEdge", "tunnel", "waitMediatedServing">>
Conn4 == <<"mintIdentity", "RealizeEdge", "tunnel", "waitMediatedServing">>
Plain == <<"RealizeEdge", "tunnel", "waitMediatedServing">>
Token1 == <<"RealizeEdge", "tunnelWithToken", "waitTunnelEnrolled", "tunnel", "waitMediatedServing">>
Token2 == <<"tunnelWithToken", "waitTunnelEnrolled", "tunnel", "waitMediatedServing">>
Token3 == <<"waitTunnelEnrolled", "tunnel", "waitMediatedServing">>
Last1 == <<"tunnel", "waitMediatedServing">>
Last2 == <<"waitMediatedServing">>
Drop1 == <<"removeTunnel", "removeIdentityVolume", "trySession", "RevokeEdge", "RevokeIdentity",
           "deleteTerminators", "deleteService">>
Drop2 == <<"removeIdentityVolume", "trySession", "RevokeEdge", "RevokeIdentity",
           "deleteTerminators", "deleteService">>
Drop3 == <<"trySession", "RevokeEdge", "RevokeIdentity", "deleteTerminators", "deleteService">>
Drop4 == <<"RevokeEdge", "RevokeIdentity", "deleteTerminators", "deleteService">>
Drop5 == <<"RevokeIdentity", "deleteTerminators", "deleteService">>
Drop6 == <<"deleteTerminators", "deleteService">>
Drop7 == <<"deleteService">>
End == <<>>

Enrolling == {Router1, Router2, Router3, Router4}
PlaneUp == {Credentials, Minted1, Minted2, Minted3, Plane1, Plane2, Plane3, End} \cup Enrolling
PlaneDown == {Raze1, Raze2, Raze3, Raze4, Raze5, End}
ConnUp == {Conn1, Conn2, Conn3, Conn4, Plain, Token1, Token2, Token3, Last1, Last2, End}
ConnDown == {Drop1, Drop2, Drop3, Drop4, Drop5, Drop6, Drop7, End}
Plan == PlaneUp \cup PlaneDown \cup ConnUp \cup ConnDown

Work == {"none", "up", "upping", "upped", "down", "downing", "downed", "failed"}

\* The types, but for the Boolean variables.
Data ==
  /\ ctrl \in {"none", "boot", "stable"} /\ router \in {"none", "enrolling", "stable"}
  /\ admin \in Nat /\ cred \in Nat /\ held \in Nat
  /\ rrec \in {"none", "new", "verified"} /\ svc \subseteq Party /\ term \subseteq Party
  /\ ident \in [Party -> Nat] /\ policy \subseteq Party \X Party
  /\ tunnel \in [Conn -> {"none", "enrolling", "stable"}]
  /\ token \in [Conn -> Nat] /\ idvol \in [Conn -> Nat] /\ jwt \in [Conn -> Nat]
  /\ undercut \subseteq Conn /\ dropped \subseteq Conn /\ remaking \subseteq Party
  /\ left \subseteq Conn
Control ==
  /\ kind \in {"fabric", "provider"} /\ shared \in {"consumer", "target", "nothing"}
  /\ declared \subseteq Conn /\ reads \subseteq Conn /\ recorded \subseteq Entry
  /\ cmd \in {"idle", "apply", "destroy"} /\ work \in [Entry -> Work] /\ todo \in [Entry -> Plan]
  /\ edits \in 0..MaxEdits /\ mishaps \in 0..MaxMishaps

\* Which way a command goes, and that the removals come after the reconciles.
Ordered ==
  /\ cmd = "idle" => \A e \in Entry : work[e] = "none"
  /\ cmd = "destroy" => \A e \in Entry : work[e] \notin {"up", "upping", "upped"}
  /\ cmd = "apply" => work[plane] \notin {"down", "downing", "downed"}
  /\ \A c \in Conn : work[c] \in {"downing", "downed"} =>
       \A e \in Entry : work[e] \notin {"up", "upping"}

\* The steps that are left fit the work.
Planned ==
  /\ \A e \in Entry : ~Busy(e) => todo[e] = End
  /\ work[plane] = "upping" => todo[plane] \in PlaneUp
  /\ work[plane] = "downing" => todo[plane] \in PlaneDown
  /\ \A c \in Conn : /\ work[c] = "upping" => todo[c] \in ConnUp
                     /\ work[c] = "downing" => todo[c] \in ConnDown
                     /\ kind = "fabric" => todo[c] = End
  /\ todo[plane] \in {Credentials, Minted1, Minted2, Minted3} \/ minted => kind = "fabric"
  /\ todo[plane] \in {Minted1, Minted2, Minted3} => minted
  /\ todo[plane] = Plane1 => ~minted

\* A credential is minted only where no database was made with another one.
Credited ==
  /\ kind = "fabric" /\ todo[plane] = Minted1 =>
       orphaned \/ (admin = 0 /\ (ctrl = "none" \/ cred = 0))
  /\ CredentialKept

\* What the plane's reconcile has achieved when it is where it is.
PlaneGood == /\ ctrl = "stable" /\ router = "stable" /\ rrec = "verified" /\ erp
Planed ==
  /\ rrec = "verified" /\ ~orphaned => keys
  /\ todo[plane] \in {Raze4, Raze5} => orphaned
  /\ work[plane] = "upping" /\ ~orphaned =>
       /\ todo[plane] \in {Plane2, Plane3} \cup Enrolling => ctrl = "stable"
       /\ todo[plane] \in {Router3, Router4} => rrec = "verified"
       /\ todo[plane] = Router4 => router = "stable"
       /\ todo[plane] = End /\ declared # {} => PlaneGood
  /\ work[plane] = "upped" /\ ~orphaned /\ declared # {} => PlaneGood

\* The identity on a tunneler's volume is its consumer's, unless it was taken away.
Fresh(c) == c \notin undercut /\ idvol[c] # 0 => idvol[c] = ident[consumer(c)]

\* What a Connection's reconcile has achieved when it is where it is.
Edge(c) == <<consumer(c), target(c)>>
Hosted(c) == target(c) \in svc /\ target(c) \in term \cup remaking
Tunneled(c) == tunnel[c] = "stable" /\ token[c] = 0
Connecting(c) ==
  /\ work[c] = "upping" =>
       /\ todo[c] # Conn1 => target(c) \in svc
       /\ todo[c] \notin {Conn1, Conn2, Conn3} => target(c) \in term \cup remaking
       /\ todo[c] \in {Token2, Token3, Last1, Last2, End} /\ c \in reads => Edge(c) \in policy
       /\ todo[c] \in {Last2, End} => Tunneled(c)
       /\ todo[c] = End => idvol[c] # 0
  /\ work[c] = "upped" /\ c \notin undercut /\ c \notin dropped =>
       Hosted(c) /\ (c \in reads => Edge(c) \in policy) /\ Tunneled(c) /\ idvol[c] # 0

\* What a Connection's removal has achieved when it is where it is.
NoDial(c) == c \in reads => ident[consumer(c)] = 0 /\ \A p \in policy : p[1] # consumer(c)
Disconnecting(c) ==
  /\ c \in left => work[c] \in {"downing", "downed", "failed"} /\ todo[c] = End
  /\ work[c] = "downing" =>
       /\ todo[c] \in {Drop2, Drop3, Drop4, Drop5, Drop6, Drop7} => token[c] = 0
       /\ todo[c] \in {Drop3, Drop4, Drop5, Drop6, Drop7} => idvol[c] = 0
       /\ todo[c] \in {Drop6, Drop7} => NoDial(c)
       /\ todo[c] = Drop7 => /\ target(c) \notin term
                             /\ \A d \in Conn \ {c} : target(d) = target(c) => d \in dropped
  /\ work[c] \in {"downing", "downed"} /\ todo[c] = End /\ c \notin left =>
       NoDial(c) /\ target(c) \notin svc \cup term

Connected ==
  /\ \A c \in Conn : Fresh(c)
  /\ kind = "provider" => \A c \in Conn : Connecting(c) /\ Disconnecting(c)

OverlayInv == Data /\ Control /\ Ordered /\ Planned /\ Credited /\ Planed /\ Connected
-----------------------------------------------------------------------------
\* A number that is not in use exists, and is not the one for none.
LEMMA NewIsNew ==
  ASSUME NEW used, IsFiniteSet(used)
  PROVE  New(used) \in Nat /\ New(used) # 0 /\ New(used) \notin used
<1> DEFINE k == Cardinality(used)
<1>1. k \in Nat
  BY FS_CardinalityType
<1>2. IsFiniteSet(1..(k + 1)) /\ Cardinality(1..(k + 1)) = k + 1
  BY <1>1, FS_Interval
<1>3. ~(1..(k + 1) \subseteq used)
  BY <1>1, <1>2, FS_Subset
<1>4. \E n \in 1..(k + 1) : n \notin used
  BY <1>3
<1>5. New(used) \in 1..(k + 1) /\ New(used) \notin used
  BY <1>4 DEF New
<1> QED
  BY <1>1, <1>5

\* The first step of each of the plane's plans, and what is left after it.
LEMMA PlaneStages ==
  /\ Credentials # End /\ Head(Credentials) = "resolveCredential"
  /\ Minted1 # End /\ Head(Minted1) = "controller" /\ Tail(Minted1) = Minted2
  /\ Minted2 # End /\ Head(Minted2) = "waitControllerServing" /\ Tail(Minted2) = Minted3
  /\ Minted3 # End /\ Head(Minted3) = "settleController" /\ Tail(Minted3) = Plane2
  /\ Plane1 # End /\ Head(Plane1) = "controller" /\ Tail(Plane1) = Plane2
  /\ Plane2 # End /\ Head(Plane2) = "waitControllerServing" /\ Tail(Plane2) = Plane3
  /\ Plane3 # End /\ Head(Plane3) = "upsertEdgeRouter" /\ Tail(Plane3) = Router4
  /\ Router1 # End /\ Head(Router1) = "enrolRouter" /\ Tail(Router1) = Router2
  /\ Router2 # End /\ Head(Router2) = "waitEdgeRouterVerified" /\ Tail(Router2) = Router3
  /\ Router3 # End /\ Head(Router3) = "router" /\ Tail(Router3) = Router4
  /\ Router4 # End /\ Head(Router4) = "catchAll" /\ Tail(Router4) = End
  /\ Raze1 # End /\ Head(Raze1) = "dropRouter" /\ Tail(Raze1) = Raze2
  /\ Raze2 # End /\ Head(Raze2) = "removeRouter" /\ Tail(Raze2) = Raze3
  /\ Raze3 # End /\ Head(Raze3) = "removeController" /\ Tail(Raze3) = Raze4
  /\ Raze4 # End /\ Head(Raze4) = "removeRouterVolume" /\ Tail(Raze4) = Raze5
  /\ Raze5 # End /\ Head(Raze5) = "removeControllerVolume" /\ Tail(Raze5) = End
  BY DEF Credentials, Minted1, Minted2, Minted3, Plane1, Plane2, Plane3, Router1,
       Router2, Router3, Router4, Raze1, Raze2, Raze3, Raze4, Raze5, End

\* The first step of each of a Connection's plans, and what is left after it.
LEMMA ConnStages ==
  /\ Conn1 # End /\ Head(Conn1) = "upsertService" /\ Tail(Conn1) = Conn2
  /\ Conn2 # End /\ Head(Conn2) = "dropTerminator" /\ Tail(Conn2) = Conn3
  /\ Conn3 # End /\ Head(Conn3) = "createTerminator" /\ Tail(Conn3) = Conn4
  /\ Conn4 # End /\ Head(Conn4) = "mintIdentity" /\ Tail(Conn4) = Plain
  /\ Plain # End /\ Head(Plain) = "RealizeEdge" /\ Tail(Plain) = Last1
  /\ Token1 # End /\ Head(Token1) = "RealizeEdge" /\ Tail(Token1) = Token2
  /\ Token2 # End /\ Head(Token2) = "tunnelWithToken" /\ Tail(Token2) = Token3
  /\ Token3 # End /\ Head(Token3) = "waitTunnelEnrolled" /\ Tail(Token3) = Last1
  /\ Last1 # End /\ Head(Last1) = "tunnel" /\ Tail(Last1) = Last2
  /\ Last2 # End /\ Head(Last2) = "waitMediatedServing" /\ Tail(Last2) = End
  /\ Drop1 # End /\ Head(Drop1) = "removeTunnel" /\ Tail(Drop1) = Drop2
  /\ Drop2 # End /\ Head(Drop2) = "removeIdentityVolume" /\ Tail(Drop2) = Drop3
  /\ Drop3 # End /\ Head(Drop3) = "trySession" /\ Tail(Drop3) = Drop4
  /\ Drop4 # End /\ Head(Drop4) = "RevokeEdge" /\ Tail(Drop4) = Drop5
  /\ Drop5 # End /\ Head(Drop5) = "RevokeIdentity" /\ Tail(Drop5) = Drop6
  /\ Drop6 # End /\ Head(Drop6) = "deleteTerminators" /\ Tail(Drop6) = Drop7
  /\ Drop7 # End /\ Head(Drop7) = "deleteService" /\ Tail(Drop7) = End
  BY DEF Conn1, Conn2, Conn3, Conn4, Plain, Token1, Token2, Token3, Last1, Last2, Drop1,
       Drop2, Drop3, Drop4, Drop5, Drop6, Drop7, End

\* Plans with the same first step are told apart by what comes later.
LEMMA Apart == Minted1 # Plane1 /\ Minted2 # Plane2 /\ Plain # Token1
  BY DEF Minted1, Minted2, Plane1, Plane2, Plain, Token1

\* No two of the plane's plans are the same.
LEMMA PlaneDistinct ==
  /\ Credentials \notin {Minted1, Minted2, Minted3, Plane1, Plane2, Plane3, Router1,
       Router2, Router3, Router4, Raze1, Raze2, Raze3, Raze4, Raze5, End}
  /\ Minted1 \notin {Minted2, Minted3, Plane1, Plane2, Plane3, Router1, Router2, Router3,
       Router4, Raze1, Raze2, Raze3, Raze4, Raze5, End}
  /\ Minted2 \notin {Minted3, Plane1, Plane2, Plane3, Router1, Router2, Router3, Router4,
       Raze1, Raze2, Raze3, Raze4, Raze5, End}
  /\ Minted3 \notin {Plane1, Plane2, Plane3, Router1, Router2, Router3, Router4, Raze1,
       Raze2, Raze3, Raze4, Raze5, End}
  /\ Plane1 \notin {Plane2, Plane3, Router1, Router2, Router3, Router4, Raze1, Raze2,
       Raze3, Raze4, Raze5, End}
  /\ Plane2 \notin {Plane3, Router1, Router2, Router3, Router4, Raze1, Raze2, Raze3,
       Raze4, Raze5, End}
  /\ Plane3 \notin {Router1, Router2, Router3, Router4, Raze1, Raze2, Raze3, Raze4, Raze5,
       End}
  /\ Router1 \notin {Router2, Router3, Router4, Raze1, Raze2, Raze3, Raze4, Raze5, End}
  /\ Router2 \notin {Router3, Router4, Raze1, Raze2, Raze3, Raze4, Raze5, End}
  /\ Router3 \notin {Router4, Raze1, Raze2, Raze3, Raze4, Raze5, End}
  /\ Router4 \notin {Raze1, Raze2, Raze3, Raze4, Raze5, End}
  /\ Raze1 \notin {Raze2, Raze3, Raze4, Raze5, End}
  /\ Raze2 \notin {Raze3, Raze4, Raze5, End}
  /\ Raze3 \notin {Raze4, Raze5, End}
  /\ Raze4 \notin {Raze5, End}
  /\ Raze5 \notin {End}
<1>1. Credentials \notin {Minted1, Minted2, Minted3, Plane1, Plane2, Plane3, Router1,
       Router2, Router3, Router4, Raze1, Raze2, Raze3, Raze4, Raze5, End}
  BY PlaneStages, Apart
<1>2. Minted1 \notin {Minted2, Minted3, Plane1, Plane2, Plane3, Router1, Router2, Router3,
       Router4, Raze1, Raze2, Raze3, Raze4, Raze5, End}
  BY PlaneStages, Apart
<1>3. Minted2 \notin {Minted3, Plane1, Plane2, Plane3, Router1, Router2, Router3, Router4,
       Raze1, Raze2, Raze3, Raze4, Raze5, End}
  BY PlaneStages, Apart
<1>4. Minted3 \notin {Plane1, Plane2, Plane3, Router1, Router2, Router3, Router4, Raze1,
       Raze2, Raze3, Raze4, Raze5, End}
  BY PlaneStages, Apart
<1>5. Plane1 \notin {Plane2, Plane3, Router1, Router2, Router3, Router4, Raze1, Raze2,
       Raze3, Raze4, Raze5, End}
  BY PlaneStages, Apart
<1>6. Plane2 \notin {Plane3, Router1, Router2, Router3, Router4, Raze1, Raze2, Raze3,
       Raze4, Raze5, End}
  BY PlaneStages, Apart
<1>7. Plane3 \notin {Router1, Router2, Router3, Router4, Raze1, Raze2, Raze3, Raze4, Raze5,
       End}
  BY PlaneStages, Apart
<1>8. Router1 \notin {Router2, Router3, Router4, Raze1, Raze2, Raze3, Raze4, Raze5, End}
  BY PlaneStages, Apart
<1>9. Router2 \notin {Router3, Router4, Raze1, Raze2, Raze3, Raze4, Raze5, End}
  BY PlaneStages, Apart
<1>10. Router3 \notin {Router4, Raze1, Raze2, Raze3, Raze4, Raze5, End}
  BY PlaneStages, Apart
<1>11. Router4 \notin {Raze1, Raze2, Raze3, Raze4, Raze5, End}
  BY PlaneStages, Apart
<1>12. Raze1 \notin {Raze2, Raze3, Raze4, Raze5, End}
  BY PlaneStages, Apart
<1>13. Raze2 \notin {Raze3, Raze4, Raze5, End}
  BY PlaneStages, Apart
<1>14. Raze3 \notin {Raze4, Raze5, End}
  BY PlaneStages, Apart
<1>15. Raze4 \notin {Raze5, End}
  BY PlaneStages, Apart
<1>16. Raze5 \notin {End}
  BY PlaneStages, Apart
<1> QED
  BY <1>1, <1>2, <1>3, <1>4, <1>5, <1>6, <1>7, <1>8, <1>9, <1>10, <1>11, <1>12, <1>13,
     <1>14, <1>15, <1>16

\* No two of a Connection's plans are the same.
LEMMA ConnDistinct ==
  /\ Conn1 \notin {Conn2, Conn3, Conn4, Plain, Token1, Token2, Token3, Last1, Last2,
       Drop1, Drop2, Drop3, Drop4, Drop5, Drop6, Drop7, End}
  /\ Conn2 \notin {Conn3, Conn4, Plain, Token1, Token2, Token3, Last1, Last2, Drop1,
       Drop2, Drop3, Drop4, Drop5, Drop6, Drop7, End}
  /\ Conn3 \notin {Conn4, Plain, Token1, Token2, Token3, Last1, Last2, Drop1, Drop2,
       Drop3, Drop4, Drop5, Drop6, Drop7, End}
  /\ Conn4 \notin {Plain, Token1, Token2, Token3, Last1, Last2, Drop1, Drop2, Drop3,
       Drop4, Drop5, Drop6, Drop7, End}
  /\ Plain \notin {Token1, Token2, Token3, Last1, Last2, Drop1, Drop2, Drop3, Drop4,
       Drop5, Drop6, Drop7, End}
  /\ Token1 \notin {Token2, Token3, Last1, Last2, Drop1, Drop2, Drop3, Drop4, Drop5,
       Drop6, Drop7, End}
  /\ Token2 \notin {Token3, Last1, Last2, Drop1, Drop2, Drop3, Drop4, Drop5, Drop6, Drop7,
       End}
  /\ Token3 \notin {Last1, Last2, Drop1, Drop2, Drop3, Drop4, Drop5, Drop6, Drop7, End}
  /\ Last1 \notin {Last2, Drop1, Drop2, Drop3, Drop4, Drop5, Drop6, Drop7, End}
  /\ Last2 \notin {Drop1, Drop2, Drop3, Drop4, Drop5, Drop6, Drop7, End}
  /\ Drop1 \notin {Drop2, Drop3, Drop4, Drop5, Drop6, Drop7, End}
  /\ Drop2 \notin {Drop3, Drop4, Drop5, Drop6, Drop7, End}
  /\ Drop3 \notin {Drop4, Drop5, Drop6, Drop7, End}
  /\ Drop4 \notin {Drop5, Drop6, Drop7, End}
  /\ Drop5 \notin {Drop6, Drop7, End}
  /\ Drop6 \notin {Drop7, End}
  /\ Drop7 \notin {End}
<1>h. /\ Head(Conn1) = "upsertService" /\ Head(Conn2) = "dropTerminator"
      /\ Head(Conn3) = "createTerminator" /\ Head(Conn4) = "mintIdentity"
      /\ Head(Plain) = "RealizeEdge" /\ Head(Token1) = "RealizeEdge"
      /\ Head(Token2) = "tunnelWithToken" /\ Head(Token3) = "waitTunnelEnrolled"
      /\ Head(Last1) = "tunnel" /\ Head(Last2) = "waitMediatedServing"
      /\ Head(Drop1) = "removeTunnel" /\ Head(Drop2) = "removeIdentityVolume"
      /\ Head(Drop3) = "trySession" /\ Head(Drop4) = "RevokeEdge"
      /\ Head(Drop5) = "RevokeIdentity" /\ Head(Drop6) = "deleteTerminators"
      /\ Head(Drop7) = "deleteService"
  BY ConnStages
<1>e. End \notin {Conn1, Conn2, Conn3, Conn4, Plain, Token1, Token2, Token3, Last1, Last2, Drop1,
                Drop2, Drop3, Drop4, Drop5, Drop6, Drop7}
  BY ConnStages
<1>1. Conn1 \notin {Conn2, Conn3, Conn4, Plain, Token1, Token2, Token3, Last1, Last2,
       Drop1, Drop2, Drop3, Drop4, Drop5, Drop6, Drop7, End}
  BY <1>h, <1>e, Apart
<1>2. Conn2 \notin {Conn3, Conn4, Plain, Token1, Token2, Token3, Last1, Last2, Drop1,
       Drop2, Drop3, Drop4, Drop5, Drop6, Drop7, End}
  BY <1>h, <1>e, Apart
<1>3. Conn3 \notin {Conn4, Plain, Token1, Token2, Token3, Last1, Last2, Drop1, Drop2,
       Drop3, Drop4, Drop5, Drop6, Drop7, End}
  BY <1>h, <1>e, Apart
<1>4. Conn4 \notin {Plain, Token1, Token2, Token3, Last1, Last2, Drop1, Drop2, Drop3,
       Drop4, Drop5, Drop6, Drop7, End}
  BY <1>h, <1>e, Apart
<1>5. Plain \notin {Token1, Token2, Token3, Last1, Last2, Drop1, Drop2, Drop3, Drop4,
       Drop5, Drop6, Drop7, End}
  BY <1>h, <1>e, Apart
<1>6. Token1 \notin {Token2, Token3, Last1, Last2, Drop1, Drop2, Drop3, Drop4, Drop5,
       Drop6, Drop7, End}
  BY <1>h, <1>e, Apart
<1>7. Token2 \notin {Token3, Last1, Last2, Drop1, Drop2, Drop3, Drop4, Drop5, Drop6, Drop7,
       End}
  BY <1>h, <1>e, Apart
<1>8. Token3 \notin {Last1, Last2, Drop1, Drop2, Drop3, Drop4, Drop5, Drop6, Drop7, End}
  BY <1>h, <1>e, Apart
<1>9. Last1 \notin {Last2, Drop1, Drop2, Drop3, Drop4, Drop5, Drop6, Drop7, End}
  BY <1>h, <1>e, Apart
<1>10. Last2 \notin {Drop1, Drop2, Drop3, Drop4, Drop5, Drop6, Drop7, End}
  BY <1>h, <1>e, Apart
<1>11. Drop1 \notin {Drop2, Drop3, Drop4, Drop5, Drop6, Drop7, End}
  BY <1>h, <1>e, Apart
<1>12. Drop2 \notin {Drop3, Drop4, Drop5, Drop6, Drop7, End}
  BY <1>h, <1>e, Apart
<1>13. Drop3 \notin {Drop4, Drop5, Drop6, Drop7, End}
  BY <1>h, <1>e, Apart
<1>14. Drop4 \notin {Drop5, Drop6, Drop7, End}
  BY <1>h, <1>e, Apart
<1>15. Drop5 \notin {Drop6, Drop7, End}
  BY <1>h, <1>e, Apart
<1>16. Drop6 \notin {Drop7, End}
  BY <1>h, <1>e, Apart
<1>17. Drop7 \notin {End}
  BY <1>h, <1>e, Apart
<1> QED
  BY <1>1, <1>2, <1>3, <1>4, <1>5, <1>6, <1>7, <1>8, <1>9, <1>10, <1>11, <1>12, <1>13,
     <1>14, <1>15, <1>16, <1>17

\* Two sequences put together are the sequence with their elements in order.
LEMMA Joined ==
  ASSUME NEW S, NEW s \in Seq(S), NEW t \in Seq(S), NEW u \in Seq(S),
         Len(u) = Len(s) + Len(t),
         \A i \in 1..Len(s) : u[i] = s[i],
         \A i \in 1..Len(t) : u[Len(s) + i] = t[i]
  PROVE  s \o t = u
<1>1. /\ s \o t \in Seq(S) /\ Len(s \o t) = Len(u)
      /\ \A i \in 1..Len(u) : (s \o t)[i] = IF i <= Len(s) THEN s[i] ELSE t[i - Len(s)]
  BY ConcatProperties
<1>2. \A i \in 1..Len(u) : (s \o t)[i] = u[i]
  <2> SUFFICES ASSUME NEW i \in 1..Len(u) PROVE (s \o t)[i] = u[i]
    OBVIOUS
  <2>0. Len(s) \in Nat /\ Len(t) \in Nat
    OBVIOUS
  <2>1. CASE i <= Len(s)
    BY <1>1, <2>0, <2>1
  <2>2. CASE ~(i <= Len(s))
    <3>1. i - Len(s) \in 1..Len(t) /\ Len(s) + (i - Len(s)) = i
      BY <2>0, <2>2
    <3> QED
      BY <1>1, <2>2, <3>1
  <2> QED
    BY <2>1, <2>2
<1> QED
  BY <1>1, <1>2, SeqEqual

\* The programs, put together from their parts, are these plans.
LEMMA Programs ==
  /\ mintedController \o Router = Minted1
  /\ <<"controller", "waitControllerServing">> \o Router = Plane1
  /\ <<"router">> \o Router4 = Router3 /\ enrolRouter \o Router4 = Router1
  /\ <<"RealizeEdge">> \o enrolTunnel \o Last1 = Token1
<1> DEFINE S == {"controller", "waitControllerServing", "settleController", "upsertEdgeRouter",
                 "catchAll", "enrolRouter", "waitEdgeRouterVerified", "router", "RealizeEdge",
                 "tunnelWithToken", "waitTunnelEnrolled", "tunnel", "waitMediatedServing"}
           start == <<"controller", "waitControllerServing">>
           one == <<"router">>
           edge == <<"RealizeEdge">>
           head == <<"RealizeEdge", "tunnelWithToken", "waitTunnelEnrolled">>
<1> USE DEF mintedController, Router, Minted1, Plane1, Router1, Router3, Router4, enrolRouter,
      enrolTunnel, Last1, Token1
<1>1. mintedController \in Seq(S) /\ Router \in Seq(S) /\ Minted1 \in Seq(S)
  OBVIOUS
<1>2. start \in Seq(S) /\ Plane1 \in Seq(S) /\ one \in Seq(S) /\ edge \in Seq(S)
  OBVIOUS
<1>3. head \in Seq(S) /\ Last1 \in Seq(S) /\ Token1 \in Seq(S) /\ enrolTunnel \in Seq(S)
  OBVIOUS
<1>4. Router4 \in Seq(S) /\ Router3 \in Seq(S) /\ enrolRouter \in Seq(S) /\ Router1 \in Seq(S)
  OBVIOUS
<1> HIDE DEF S
<1>5. mintedController \o Router = Minted1
  <2>1. /\ Len(Minted1) = Len(mintedController) + Len(Router)
        /\ \A i \in 1..Len(mintedController) : Minted1[i] = mintedController[i]
        /\ \A i \in 1..Len(Router) : Minted1[Len(mintedController) + i] = Router[i]
    OBVIOUS
  <2> HIDE DEF mintedController, Router, Minted1
  <2> QED
    BY <1>1, <2>1, Joined, Zenon
<1>6. start \o Router = Plane1
  <2>1. /\ Len(Plane1) = Len(start) + Len(Router)
        /\ \A i \in 1..Len(start) : Plane1[i] = start[i]
        /\ \A i \in 1..Len(Router) : Plane1[Len(start) + i] = Router[i]
    OBVIOUS
  <2> HIDE DEF start, Router, Plane1
  <2> QED
    BY <1>1, <1>2, <2>1, Joined, Zenon
<1>7. one \o Router4 = Router3
  <2>1. /\ Len(Router3) = Len(one) + Len(Router4)
        /\ \A i \in 1..Len(one) : Router3[i] = one[i]
        /\ \A i \in 1..Len(Router4) : Router3[Len(one) + i] = Router4[i]
    OBVIOUS
  <2>2. one \in Seq(S) /\ Router4 \in Seq(S) /\ Router3 \in Seq(S)
    BY <1>2, <1>4
  <2> HIDE DEF one, Router4, Router3
  <2> QED
    BY <2>1, <2>2, Joined, Zenon
<1>8. enrolRouter \o Router4 = Router1
  <2>1. /\ Len(Router1) = Len(enrolRouter) + Len(Router4)
        /\ \A i \in 1..Len(enrolRouter) : Router1[i] = enrolRouter[i]
        /\ \A i \in 1..Len(Router4) : Router1[Len(enrolRouter) + i] = Router4[i]
    OBVIOUS
  <2> HIDE DEF enrolRouter, Router4, Router1
  <2> QED
    BY <1>4, <2>1, Joined, Zenon
<1>9. edge \o enrolTunnel = head
  <2>1. /\ Len(head) = Len(edge) + Len(enrolTunnel)
        /\ \A i \in 1..Len(edge) : head[i] = edge[i]
        /\ \A i \in 1..Len(enrolTunnel) : head[Len(edge) + i] = enrolTunnel[i]
    OBVIOUS
  <2>2. edge \in Seq(S) /\ enrolTunnel \in Seq(S) /\ head \in Seq(S)
    BY <1>2, <1>3
  <2> HIDE DEF edge, enrolTunnel, head
  <2> QED
    BY <2>1, <2>2, Joined, Zenon
<1>10. head \o Last1 = Token1
  <2>1. /\ Len(Token1) = Len(head) + Len(Last1)
        /\ \A i \in 1..Len(head) : Token1[i] = head[i]
        /\ \A i \in 1..Len(Last1) : Token1[Len(head) + i] = Last1[i]
    OBVIOUS
  <2> HIDE DEF head, Last1, Token1
  <2> QED
    BY <1>3, <2>1, Joined, Zenon
<1> QED
  BY <1>5, <1>6, <1>7, <1>8, <1>9, <1>10

\* Where the plane's reconcile goes from each of its steps.
LEMMA PlaneUpMoves ==
  ASSUME todo[plane] \in PlaneUp, todo[plane] # End
  PROVE
         \/ todo[plane] = Credentials /\ Doing(plane, "resolveCredential")
               /\ After(plane) = IF minted' THEN Minted1 ELSE Plane1
         \/ todo[plane] = Minted1 /\ Doing(plane, "controller") 
               /\ After(plane) = IF Outdated THEN Minted1 ELSE Minted2
         \/ todo[plane] = Minted2 /\ Doing(plane, "waitControllerServing") /\ After(plane) = Minted3
         \/ todo[plane] = Minted3 /\ Doing(plane, "settleController")
               /\ After(plane) = IF Outdated THEN Minted3 ELSE Plane2
         \/ todo[plane] = Plane1 /\ Doing(plane, "controller")
               /\ After(plane) = IF Outdated THEN Plane1 ELSE Plane2
         \/ todo[plane] = Plane2 /\ Doing(plane, "waitControllerServing") /\ After(plane) = Plane3
         \/ todo[plane] = Plane3 /\ Doing(plane, "upsertEdgeRouter")
               /\ After(plane) = IF rrec' = "verified" THEN Router3 ELSE Router1
         \/ todo[plane] = Router1 /\ Doing(plane, "enrolRouter") /\ After(plane) = Router2
         \/ todo[plane] = Router2 /\ Doing(plane, "waitEdgeRouterVerified") /\ After(plane) = Router3
         \/ todo[plane] = Router3 /\ Doing(plane, "router") /\ After(plane) = Router4
         \/ todo[plane] = Router4 /\ Doing(plane, "catchAll") /\ After(plane) = End
<1>1. CASE todo[plane] = Credentials
  <2>1. Credentials # End /\ Head(Credentials) = "resolveCredential"
    BY PlaneStages
  <2> QED
    BY <1>1, <2>1, Programs DEF Doing, After, End
<1>2. CASE todo[plane] = Minted1
  <2>1. Minted1 # End /\ Head(Minted1) = "controller" /\ Tail(Minted1) = Minted2
    BY PlaneStages
  <2> QED
    BY <1>2, <2>1 DEF Doing, After, End
<1>3. CASE todo[plane] = Minted2
  <2>1. Minted2 # End /\ Head(Minted2) = "waitControllerServing" /\ Tail(Minted2) = Minted3
    BY PlaneStages
  <2> QED
    BY <1>3, <2>1 DEF Doing, After, End
<1>4. CASE todo[plane] = Minted3
  <2>1. Minted3 # End /\ Head(Minted3) = "settleController" /\ Tail(Minted3) = Plane2
    BY PlaneStages
  <2> QED
    BY <1>4, <2>1 DEF Doing, After, End
<1>5. CASE todo[plane] = Plane1
  <2>1. Plane1 # End /\ Head(Plane1) = "controller" /\ Tail(Plane1) = Plane2
    BY PlaneStages
  <2> QED
    BY <1>5, <2>1 DEF Doing, After, End
<1>6. CASE todo[plane] = Plane2
  <2>1. Plane2 # End /\ Head(Plane2) = "waitControllerServing" /\ Tail(Plane2) = Plane3
    BY PlaneStages
  <2> QED
    BY <1>6, <2>1 DEF Doing, After, End
<1>7. CASE todo[plane] = Plane3
  <2>1. Plane3 # End /\ Head(Plane3) = "upsertEdgeRouter" /\ Tail(Plane3) = Router4
    BY PlaneStages
  <2> QED
    BY <1>7, <2>1, Programs DEF Doing, After, End
<1>8. CASE todo[plane] = Router1
  <2>1. Router1 # End /\ Head(Router1) = "enrolRouter" /\ Tail(Router1) = Router2
    BY PlaneStages
  <2> QED
    BY <1>8, <2>1 DEF Doing, After, End
<1>9. CASE todo[plane] = Router2
  <2>1. Router2 # End /\ Head(Router2) = "waitEdgeRouterVerified" /\ Tail(Router2) = Router3
    BY PlaneStages
  <2> QED
    BY <1>9, <2>1 DEF Doing, After, End
<1>10. CASE todo[plane] = Router3
  <2>1. Router3 # End /\ Head(Router3) = "router" /\ Tail(Router3) = Router4
    BY PlaneStages
  <2> QED
    BY <1>10, <2>1 DEF Doing, After, End
<1>11. CASE todo[plane] = Router4
  <2>1. Router4 # End /\ Head(Router4) = "catchAll" /\ Tail(Router4) = End
    BY PlaneStages
  <2> QED
    BY <1>11, <2>1 DEF Doing, After, End
<1> QED
  BY <1>1, <1>2, <1>3, <1>4, <1>5, <1>6, <1>7, <1>8, <1>9, <1>10, <1>11 DEF PlaneUp, Enrolling

\* Where its removal goes.
LEMMA PlaneDownMoves ==
  ASSUME todo[plane] \in PlaneDown, todo[plane] # End
  PROVE
         \/ todo[plane] = Raze1 /\ Doing(plane, "dropRouter") /\ After(plane) = Raze2
         \/ todo[plane] = Raze2 /\ Doing(plane, "removeRouter") /\ After(plane) = Raze3
         \/ todo[plane] = Raze3 /\ Doing(plane, "removeController") /\ After(plane) = Raze4
         \/ todo[plane] = Raze4 /\ Doing(plane, "removeRouterVolume") /\ After(plane) = Raze5
         \/ todo[plane] = Raze5 /\ Doing(plane, "removeControllerVolume") /\ After(plane) = End
<1>1. CASE todo[plane] = Raze1
  <2>1. Raze1 # End /\ Head(Raze1) = "dropRouter" /\ Tail(Raze1) = Raze2
    BY PlaneStages
  <2> QED
    BY <1>1, <2>1 DEF Doing, After, End
<1>2. CASE todo[plane] = Raze2
  <2>1. Raze2 # End /\ Head(Raze2) = "removeRouter" /\ Tail(Raze2) = Raze3
    BY PlaneStages
  <2> QED
    BY <1>2, <2>1 DEF Doing, After, End
<1>3. CASE todo[plane] = Raze3
  <2>1. Raze3 # End /\ Head(Raze3) = "removeController" /\ Tail(Raze3) = Raze4
    BY PlaneStages
  <2> QED
    BY <1>3, <2>1 DEF Doing, After, End
<1>4. CASE todo[plane] = Raze4
  <2>1. Raze4 # End /\ Head(Raze4) = "removeRouterVolume" /\ Tail(Raze4) = Raze5
    BY PlaneStages
  <2> QED
    BY <1>4, <2>1 DEF Doing, After, End
<1>5. CASE todo[plane] = Raze5
  <2>1. Raze5 # End /\ Head(Raze5) = "removeControllerVolume" /\ Tail(Raze5) = End
    BY PlaneStages
  <2> QED
    BY <1>5, <2>1 DEF Doing, After, End
<1> QED
  BY <1>1, <1>2, <1>3, <1>4, <1>5 DEF PlaneDown

\* Where a Connection's reconcile goes.
LEMMA ConnUpMoves ==
  ASSUME NEW c \in Conn, todo[c] \in ConnUp, todo[c] # End
  PROVE
         \/ todo[c] = Conn1 /\ Doing(c, "upsertService") /\ After(c) = Conn2
         \/ todo[c] = Conn2 /\ Doing(c, "dropTerminator") /\ After(c) = Conn3
         \/ todo[c] = Conn3 /\ Doing(c, "createTerminator") /\ After(c) = Conn4
         \/ todo[c] = Conn4 /\ Doing(c, "mintIdentity")
               /\ After(c) = IF jwt'[c] # 0 THEN Token1 ELSE Plain
         \/ todo[c] = Plain /\ Doing(c, "RealizeEdge") /\ After(c) = Last1
         \/ todo[c] = Token1 /\ Doing(c, "RealizeEdge") /\ After(c) = Token2
         \/ todo[c] = Token2 /\ Doing(c, "tunnelWithToken") /\ After(c) = Token3
         \/ todo[c] = Token3 /\ Doing(c, "waitTunnelEnrolled") /\ After(c) = Last1
         \/ todo[c] = Last1 /\ Doing(c, "tunnel") /\ After(c) = Last2
         \/ todo[c] = Last2 /\ Doing(c, "waitMediatedServing") /\ After(c) = End
<1>1. CASE todo[c] = Conn1
  <2>1. Conn1 # End /\ Head(Conn1) = "upsertService" /\ Tail(Conn1) = Conn2
    BY ConnStages
  <2> QED
    BY <1>1, <2>1 DEF Doing, After, End
<1>2. CASE todo[c] = Conn2
  <2>1. Conn2 # End /\ Head(Conn2) = "dropTerminator" /\ Tail(Conn2) = Conn3
    BY ConnStages
  <2> QED
    BY <1>2, <2>1 DEF Doing, After, End
<1>3. CASE todo[c] = Conn3
  <2>1. Conn3 # End /\ Head(Conn3) = "createTerminator" /\ Tail(Conn3) = Conn4
    BY ConnStages
  <2> QED
    BY <1>3, <2>1 DEF Doing, After, End
<1>4. CASE todo[c] = Conn4
  <2>1. Conn4 # End /\ Head(Conn4) = "mintIdentity" /\ Tail(Conn4) = Plain
        /\ Head(Plain) = "RealizeEdge" /\ Tail(Plain) = Last1
    BY ConnStages
  <2> QED
    BY <1>4, <2>1, Programs DEF Doing, After, End
<1>5. CASE todo[c] = Plain
  <2>1. Plain # End /\ Head(Plain) = "RealizeEdge" /\ Tail(Plain) = Last1
    BY ConnStages
  <2> QED
    BY <1>5, <2>1 DEF Doing, After, End
<1>6. CASE todo[c] = Token1
  <2>1. Token1 # End /\ Head(Token1) = "RealizeEdge" /\ Tail(Token1) = Token2
    BY ConnStages
  <2> QED
    BY <1>6, <2>1 DEF Doing, After, End
<1>7. CASE todo[c] = Token2
  <2>1. Token2 # End /\ Head(Token2) = "tunnelWithToken" /\ Tail(Token2) = Token3
    BY ConnStages
  <2> QED
    BY <1>7, <2>1 DEF Doing, After, End
<1>8. CASE todo[c] = Token3
  <2>1. Token3 # End /\ Head(Token3) = "waitTunnelEnrolled" /\ Tail(Token3) = Last1
    BY ConnStages
  <2> QED
    BY <1>8, <2>1 DEF Doing, After, End
<1>9. CASE todo[c] = Last1
  <2>1. Last1 # End /\ Head(Last1) = "tunnel" /\ Tail(Last1) = Last2
    BY ConnStages
  <2> QED
    BY <1>9, <2>1 DEF Doing, After, End
<1>10. CASE todo[c] = Last2
  <2>1. Last2 # End /\ Head(Last2) = "waitMediatedServing" /\ Tail(Last2) = End
    BY ConnStages
  <2> QED
    BY <1>10, <2>1 DEF Doing, After, End
<1> QED
  BY <1>1, <1>2, <1>3, <1>4, <1>5, <1>6, <1>7, <1>8, <1>9, <1>10 DEF ConnUp

\* Where its removal goes.
LEMMA ConnDownMoves ==
  ASSUME NEW c \in Conn, todo[c] \in ConnDown, todo[c] # End
  PROVE
         \/ todo[c] = Drop1 /\ Doing(c, "removeTunnel") /\ After(c) = Drop2
         \/ todo[c] = Drop2 /\ Doing(c, "removeIdentityVolume") /\ After(c) = Drop3
         \/ todo[c] = Drop3 /\ Doing(c, "trySession")
               /\ After(c) = IF c \in left' THEN End ELSE Drop4
         \/ todo[c] = Drop4 /\ Doing(c, "RevokeEdge") /\ After(c) = Drop5
         \/ todo[c] = Drop5 /\ Doing(c, "RevokeIdentity") /\ After(c) = Drop6
         \/ todo[c] = Drop6 /\ Doing(c, "deleteTerminators")
               /\ After(c) = IF c \in left' THEN End ELSE Drop7
         \/ todo[c] = Drop7 /\ Doing(c, "deleteService") /\ After(c) = End
<1>1. CASE todo[c] = Drop1
  <2>1. Drop1 # End /\ Head(Drop1) = "removeTunnel" /\ Tail(Drop1) = Drop2
    BY ConnStages
  <2> QED
    BY <1>1, <2>1 DEF Doing, After, End
<1>2. CASE todo[c] = Drop2
  <2>1. Drop2 # End /\ Head(Drop2) = "removeIdentityVolume" /\ Tail(Drop2) = Drop3
    BY ConnStages
  <2> QED
    BY <1>2, <2>1 DEF Doing, After, End
<1>3. CASE todo[c] = Drop3
  <2>1. Drop3 # End /\ Head(Drop3) = "trySession" /\ Tail(Drop3) = Drop4
    BY ConnStages
  <2> QED
    BY <1>3, <2>1 DEF Doing, After, End
<1>4. CASE todo[c] = Drop4
  <2>1. Drop4 # End /\ Head(Drop4) = "RevokeEdge" /\ Tail(Drop4) = Drop5
    BY ConnStages
  <2> QED
    BY <1>4, <2>1 DEF Doing, After, End
<1>5. CASE todo[c] = Drop5
  <2>1. Drop5 # End /\ Head(Drop5) = "RevokeIdentity" /\ Tail(Drop5) = Drop6
    BY ConnStages
  <2> QED
    BY <1>5, <2>1 DEF Doing, After, End
<1>6. CASE todo[c] = Drop6
  <2>1. Drop6 # End /\ Head(Drop6) = "deleteTerminators" /\ Tail(Drop6) = Drop7
    BY ConnStages
  <2> QED
    BY <1>6, <2>1 DEF Doing, After, End
<1>7. CASE todo[c] = Drop7
  <2>1. Drop7 # End /\ Head(Drop7) = "deleteService" /\ Tail(Drop7) = End
    BY ConnStages
  <2> QED
    BY <1>7, <2>1 DEF Doing, After, End
<1> QED
  BY <1>1, <1>2, <1>3, <1>4, <1>5, <1>6, <1>7 DEF ConnDown

\* A function has finitely many values on a finite set.
LEMMA ValuesFinite ==
  ASSUME NEW S, IsFiniteSet(S), NEW f
  PROVE  IsFiniteSet({f[x] : x \in S})
<1> DEFINE T == {f[x] : x \in S}
           g == [x \in S |-> f[x]]
<1>1. g \in Surjection(S, T)
  BY DEF Surjection
<1> QED
  BY <1>1, FS_Surjection

\* The ends of a Connection's edge are parties.
LEMMA Parties == \A c \in Conn : consumer(c) \in Party /\ target(c) \in Party
  BY DEF consumer, target, Owner, Party

\* The effect of every step has the declared types.
LEMMA EffectTypes ==
  ASSUME Data, NEW e \in Entry, Effect(e)
  PROVE  Data'
<1> USE Parties DEF Data
<1>1. CASE resolveFabricAdminCredential(e)
  <2>1. IsFiniteSet({admin, cred, held})
    <3>1. {admin, cred, held} = ({admin} \cup {cred}) \cup {held}
      OBVIOUS
    <3>2. IsFiniteSet({admin}) /\ IsFiniteSet({cred}) /\ IsFiniteSet({held})
      BY FS_Singleton
    <3>3. IsFiniteSet({admin} \cup {cred})
      BY <3>2, FS_Union
    <3>4. IsFiniteSet(({admin} \cup {cred}) \cup {held})
      BY <3>2, <3>3, FS_Union, Zenon
    <3> QED
      BY <3>1, <3>4, Zenon
  <2>2. New({admin, cred, held}) \in Nat
    BY <2>1, NewIsNew
  <2>3. held' \in Nat
    BY <1>1, <2>2 DEF resolveFabricAdminCredential
  <2> QED
    BY <1>1, <2>3 DEF resolveFabricAdminCredential, hosts, db, tunnels, ghosts, faults
<1>2. CASE controller(e)
  BY <1>2 DEF controller, hosts, db, tunnels, process, ghosts, faults
<1>3. CASE settleController(e)
  BY <1>3 DEF settleController, hosts, db, tunnels, process, ghosts, faults
<1>4. CASE upsertEdgeRouter(e)
  BY <1>4 DEF upsertEdgeRouter, hosts, db, tunnels, process, ghosts, faults
<1>5. CASE ensureRouter(e)
  BY <1>5 DEF ensureRouter, hosts, db, tunnels, process, ghosts, faults
<1>6. CASE upsertCatchAllRouterPolicies(e)
  BY <1>6 DEF upsertCatchAllRouterPolicies, hosts, db, tunnels, process, ghosts, faults
<1>7. CASE dropRouter(e)
  BY <1>7 DEF dropRouter, hosts, db, tunnels, process, ghosts, faults
<1>8. CASE removeRouter(e)
  BY <1>8 DEF removeRouter, hosts, db, tunnels, process, ghosts, faults
<1>9. CASE removeController(e)
  BY <1>9 DEF removeController, hosts, db, tunnels, process, ghosts, faults
<1>10. CASE removeRouterVolume(e)
  BY <1>10 DEF removeRouterVolume, hosts, db, tunnels, process, ghosts, faults
<1>11. CASE removeControllerVolume(e)
  BY <1>11 DEF removeControllerVolume, hosts, db, tunnels, process, ghosts, faults
<1>12. CASE Looks(e)
  BY <1>12 DEF Looks, hosts, db, tunnels, process, ghosts, faults, world
<1>13. CASE e \in Conn /\ upsertService(e)
  BY <1>13 DEF upsertService, hosts, db, tunnels, process, ghosts, faults
<1>14. CASE e \in Conn /\ upsertTransportTerminator(e)
  BY <1>14 DEF upsertTransportTerminator, hosts, db, tunnels, process, ghosts, faults
<1>15. CASE e \in Conn /\ mintIdentityWithToken(e)
  <2> DEFINE w == consumer(e)
             D == {d \in Conn : consumer(d) = w}
             used == UNION {{ident[w], idvol[d], token[d], jwt[d]} : d \in D}
  <2>1. IsFiniteSet(used)
    <3> DEFINE I == {idvol[d] : d \in Conn}
               T == {token[d] : d \in Conn}
               J == {jwt[d] : d \in Conn}
               K == {ident[w]}
    <3>1. IsFiniteSet(I) /\ IsFiniteSet(T) /\ IsFiniteSet(J) /\ IsFiniteSet(K)
      <4>1. IsFiniteSet(I) /\ IsFiniteSet(T) /\ IsFiniteSet(J)
        BY OverlayAssumption, ValuesFinite
      <4>2. IsFiniteSet(K)
        BY FS_Singleton, Zenon
      <4> QED
        BY <4>1, <4>2
    <3>2. used \subseteq ((I \cup T) \cup J) \cup K
      OBVIOUS
    <3> HIDE DEF I, T, J, K, used
    <3>3. IsFiniteSet(I \cup T)
      BY <3>1, FS_Union
    <3>4. IsFiniteSet((I \cup T) \cup J)
      BY <3>1, <3>3, FS_Union
    <3>5. IsFiniteSet(((I \cup T) \cup J) \cup K)
      BY <3>1, <3>4, FS_Union
    <3> QED
      BY <3>2, <3>5, FS_Subset
  <2>2. New(used) \in Nat
    BY <2>1, NewIsNew
  <2> HIDE DEF used
  <2>3. \/ ident' = [ident EXCEPT ![consumer(e)] = New(used)] /\ jwt' = [jwt EXCEPT ![e] = New(used)]
        \/ ident' = ident /\ jwt' = [jwt EXCEPT ![e] = 0]
    BY <1>15 DEF mintIdentityWithToken, used
  <2>4. ident' \in [Party -> Nat] /\ jwt' \in [Conn -> Nat]
    BY <1>15, <2>2, <2>3
  <2> QED
    BY <1>15, <2>4 DEF mintIdentityWithToken, hosts, db, tunnels, ghosts, faults
<1>16. CASE e \in Conn /\ RealizeEdge(e)
  BY <1>16 DEF RealizeEdge, hosts, db, tunnels, process, ghosts, faults
<1>17. CASE e \in Conn /\ ensureTunnel(e)
  BY <1>17 DEF ensureTunnel, hosts, db, tunnels, process, ghosts, faults
<1>18. CASE e \in Conn /\ removeTunnel(e)
  BY <1>18 DEF removeTunnel, hosts, db, tunnels, process, ghosts, faults
<1>19. CASE e \in Conn /\ removeIdentityVolume(e)
  BY <1>19 DEF removeIdentityVolume, hosts, db, tunnels, process, ghosts, faults
<1>20. CASE e \in Conn /\ trySession(e)
  BY <1>20 DEF trySession, hosts, db, tunnels, process, ghosts, faults
<1>21. CASE e \in Conn /\ RevokeEdge(e)
  BY <1>21 DEF RevokeEdge, hosts, db, tunnels, process, ghosts, faults
<1>22. CASE e \in Conn /\ RevokeIdentity(e)
  BY <1>22 DEF RevokeIdentity, hosts, db, tunnels, process, ghosts, faults
<1>23. CASE e \in Conn /\ deleteTerminatorsForService(e)
  BY <1>23 DEF deleteTerminatorsForService, hosts, db, tunnels, process, ghosts, faults
<1>24. CASE e \in Conn /\ deleteService(e)
  BY <1>24 DEF deleteService, hosts, db, tunnels, process, ghosts, faults
<1> QED
  BY <1>1, <1>2, <1>3, <1>4, <1>5, <1>6, <1>7, <1>8, <1>9, <1>10, <1>11, <1>12, <1>13,
     <1>14, <1>15, <1>16, <1>17, <1>18, <1>19, <1>20, <1>21, <1>22, <1>23, <1>24 DEF Effect

\* The plane is no Connection.
LEMMA Entries == plane \in Entry /\ plane \notin Conn /\ Conn \subseteq Entry
                 /\ \A e \in Entry : e = plane \/ e \in Conn
  BY OverlayAssumption DEF Entry, plane

\* What is left after a step is a plan of the same work.
LEMMA AfterPlans ==
  ASSUME Control, Planned, NEW e \in Entry, Running(e)
  PROVE  /\ After(e) \in Plan
         /\ e = plane /\ work[e] = "upping" => After(e) \in PlaneUp
         /\ e = plane /\ work[e] = "downing" => After(e) \in PlaneDown
         /\ e \in Conn /\ work[e] = "upping" => After(e) \in ConnUp
         /\ e \in Conn /\ work[e] = "downing" => After(e) \in ConnDown
<1>0. todo[e] # End /\ work[e] \in {"upping", "downing"}
  BY DEF Running, Busy, End
<1>1. CASE e = plane /\ work[e] = "upping"
  <2>1. After(plane) \in PlaneUp
    BY <1>0, <1>1, PlaneUpMoves DEF Planned, PlaneUp, Enrolling
  <2> QED
    BY <1>1, <2>1, Entries DEF Plan
<1>2. CASE e = plane /\ work[e] = "downing"
  <2>1. After(plane) \in PlaneDown
    BY <1>0, <1>2, PlaneDownMoves DEF Planned, PlaneDown
  <2> QED
    BY <1>2, <2>1, Entries DEF Plan
<1>3. CASE e \in Conn /\ work[e] = "upping"
  <2>1. After(e) \in ConnUp
    BY <1>0, <1>3, ConnUpMoves DEF Planned, ConnUp
  <2> QED
    BY <1>3, <2>1, Entries DEF Plan
<1>4. CASE e \in Conn /\ work[e] = "downing"
  <2>1. After(e) \in ConnDown
    BY <1>0, <1>4, ConnDownMoves DEF Planned, ConnDown
  <2> QED
    BY <1>4, <2>1, Entries DEF Plan
<1> QED
  BY <1>0, <1>1, <1>2, <1>3, <1>4, Entries

\* What a work begins with is a plan of it.
LEMMA FirstPlans ==
  ASSUME Control, NEW e \in Entry
  PROVE  /\ Up(e) \in Plan /\ Down(e) \in Plan
         /\ e = plane => Up(e) \in {Credentials, Plane1, End} /\ Down(e) \in {Raze1, End}
         /\ e \in Conn => Up(e) \in {Conn1, End} /\ Down(e) \in {Drop1, End}
         /\ e \in Conn /\ kind = "fabric" => Up(e) = End /\ Down(e) = End
         /\ e \in Conn /\ kind = "provider" => Up(e) = Conn1 /\ Down(e) = Drop1
         /\ kind = "provider" => Up(plane) = Plane1
         /\ kind = "fabric" => Up(plane) \in {Credentials, End}
         /\ Up(plane) = End => declared = {}
<1>1. /\ reconcileConnection = Conn1 /\ destroyConnection = Drop1 /\ EnsureFabric = Credentials
      /\ destroyInstance = Raze1 /\ DestroyFabric = Raze1
  BY DEF reconcileConnection, destroyConnection, EnsureFabric, destroyInstance, DestroyFabric,
       DestroyPlane, Conn1, Drop1, Credentials, Raze1
<1>2. reconcileInstance = Plane1
  BY Programs DEF reconcileInstance
<1>3. Credentials # End /\ Plane1 # End
  BY PlaneStages
<1>4. kind \in {"fabric", "provider"}
  BY DEF Control
<1>5. /\ kind = "provider" => Up(plane) = Plane1 /\ Down(plane) = Raze1
      /\ kind = "fabric" => /\ Up(plane) = IF declared \cup (recorded \ {plane}) # {}
                                           THEN Credentials ELSE End
                            /\ Down(plane) \in {Raze1, End}
  BY <1>1, <1>2 DEF Up, Down, End, anyMediatedEdge
<1>6. \A c \in Conn : /\ kind = "provider" => Up(c) = Conn1 /\ Down(c) = Drop1
                      /\ kind = "fabric" => Up(c) = End /\ Down(c) = End
  BY <1>1, Entries DEF Up, Down, End
<1>7. {Credentials, Plane1, End, Raze1, Conn1, Drop1} \subseteq Plan
  BY DEF Plan, PlaneUp, PlaneDown, ConnUp, ConnDown
<1>8. CASE e = plane
  BY <1>3, <1>4, <1>5, <1>7, <1>8, Entries
<1>9. CASE e \in Conn
  BY <1>3, <1>4, <1>5, <1>6, <1>7, <1>9, Entries
<1> QED
  BY <1>8, <1>9, Entries

\* Every step leaves the types right.
LEMMA TypeStep == Data /\ Control /\ Planned /\ [Next]_vars => Data' /\ Control'
<1> SUFFICES ASSUME Data, Control, Planned, [Next]_vars PROVE Data' /\ Control'
  OBVIOUS
<1> USE Entries, OverlayAssumption
<1>1. CASE StartApply
  BY <1>1 DEF Data, Control, Work, Plan, PlaneUp, End, Secret, StartApply,
       manifests, world, hosts, db, tunnels, process, ghosts, faults
<1>2. CASE StartDestroy
  BY <1>2 DEF Data, Control, Work, Plan, PlaneUp, End, Secret, StartDestroy,
       manifests, world, hosts, db, tunnels, process, ghosts, faults
<1>3. CASE Crash
  BY <1>3 DEF Data, Control, Work, Plan, PlaneUp, End, Secret, Crash, Mishap, Idle,
       manifests, world, hosts, db, tunnels, process, ghosts, faults
<1>4. CASE Finish
  BY <1>4 DEF Data, Control, Work, Plan, PlaneUp, End, Secret, Finish, Idle,
       manifests, world, hosts, db, tunnels, process, ghosts, faults
<1>5. CASE Bootstrap
  BY <1>5 DEF Data, Control, Work, Plan, PlaneUp, End, Secret, Bootstrap,
       manifests, world, hosts, db, tunnels, process, ghosts, faults
<1>6. CASE EnrolRouter
  BY <1>6 DEF Data, Control, Work, Plan, PlaneUp, End, Secret, EnrolRouter,
       manifests, world, hosts, db, tunnels, process, ghosts, faults
<1>7. CASE Edit
  <2>1. Data'
    BY <1>7 DEF Data, Edit, world, hosts, db, tunnels, process, ghosts, faults
  <2>2. declared' \subseteq Conn /\ reads' \subseteq Conn /\ edits' \in 0..MaxEdits
    BY <1>7 DEF Control, Edit, Toggle
  <2>3. UNCHANGED <<kind, shared, recorded, cmd, work, todo, mishaps>>
    BY <1>7 DEF Edit
  <2> QED
    BY <2>1, <2>2, <2>3 DEF Control
<1>8. CASE Meddle
  BY <1>8 DEF Data, Control, Work, Plan, PlaneUp, End, Secret, Meddle, Mishap,
       manifests, world, hosts, db, tunnels, process, ghosts, faults
<1>9. ASSUME NEW c \in Conn, EnrolTunnel(c) PROVE Data' /\ Control'
  BY <1>9 DEF Data, Control, EnrolTunnel, manifests, world, hosts, db, tunnels, process, ghosts, faults
<1>10. ASSUME NEW e \in Entry, Begin(e) PROVE Data' /\ Control'
  BY <1>10, FirstPlans DEF Data, Control, Work, Begin, manifests, world, hosts, db, tunnels, process,
       ghosts, faults
<1>11. ASSUME NEW e \in Entry, Step(e) PROVE Data' /\ Control'
  <2>1. Data'
    BY <1>11, EffectTypes DEF Step
  <2>2. Control'
    BY <1>11, AfterPlans DEF Control, Step, manifests
  <2> QED
    BY <2>1, <2>2
<1>12. ASSUME NEW e \in Entry, Done(e) PROVE Data' /\ Control'
  <2>1. Data'
    BY <1>12 DEF Data, Done, world, hosts, db, tunnels, process, ghosts, faults
  <2>2. recorded' \subseteq Entry /\ work' \in [Entry -> Work]
    BY <1>12 DEF Control, Work, Done
  <2>3. UNCHANGED <<kind, shared, declared, reads, edits, cmd, todo, mishaps>>
    BY <1>12 DEF Done, manifests
  <2> QED
    BY <2>1, <2>2, <2>3 DEF Control
<1>13. ASSUME NEW e \in Entry, Stuck(e) PROVE Data' /\ Control'
  BY <1>13 DEF Data, Control, Work, Plan, PlaneUp, End, Stuck, Failed,
       manifests, world, hosts, db, tunnels, process, ghosts, faults
<1>14. ASSUME NEW e \in Entry, Fails(e) PROVE Data' /\ Control'
  <2>1. Data'
    <3>1. CASE Effect(e)
      BY <3>1, EffectTypes
    <3>2. CASE UNCHANGED world
      BY <3>2 DEF Data, world, hosts, db, tunnels, process, ghosts, faults
    <3> QED
      BY <1>14, <3>1, <3>2 DEF Fails
  <2>2. Control'
    BY <1>14 DEF Control, Work, Plan, PlaneUp, End, Fails, Failed, Mishap, manifests
  <2> QED
    BY <2>1, <2>2
<1>15. CASE UNCHANGED vars
  BY <1>15 DEF Data, Control, vars, manifests, world, hosts, db, tunnels, process, ghosts, faults
<1> QED
  BY <1>1, <1>2, <1>3, <1>4, <1>5, <1>6, <1>7, <1>8, <1>9, <1>10, <1>11, <1>12, <1>13, <1>14, <1>15
     DEF Next

\* A command keeps its way, and its removals come after its reconciles.
LEMMA OrderStep == Control /\ Ordered /\ [Next]_vars => Ordered'
<1> SUFFICES ASSUME Control, Ordered, [Next]_vars PROVE Ordered'
  OBVIOUS
<1>t. work \in [Entry -> Work]
  BY DEF Control
<1> USE Entries, <1>t DEF Ordered
<1>1. CASE StartApply \/ StartDestroy
  BY <1>1 DEF StartApply, StartDestroy
<1>2. CASE Crash \/ Finish
  BY <1>2 DEF Crash, Finish, Idle
<1>3. ASSUME NEW e \in Entry, Begin(e) PROVE Ordered'
  <2>1. UNCHANGED cmd /\ work[e] \in {"up", "down"}
    BY <1>3 DEF Begin
  <2>2. \A d \in Entry : d # e => work'[d] = work[d]
    BY <1>3 DEF Begin
  <2>3. CASE work'[e] = "failed"
    BY <2>1, <2>2, <2>3
  <2>4. CASE work[e] = "up" /\ work'[e] = "upping"
    BY <2>1, <2>2, <2>4
  <2>5. CASE work[e] = "down" /\ work'[e] = "downing"
    <3>1. e \in Conn => \A d \in Entry : work[d] \notin {"up", "upping"}
      BY <1>3, <2>5 DEF Begin, Level, Ended
    <3> QED
      BY <2>1, <2>2, <2>5, <3>1
  <2> QED
    BY <1>3, <2>1, <2>3, <2>4, <2>5 DEF Begin
<1>4. ASSUME NEW e \in Entry, Done(e) PROVE Ordered'
  <2>1. /\ UNCHANGED cmd /\ \A d \in Entry : d # e => work'[d] = work[d]
        /\ \/ work[e] = "upping" /\ work'[e] = "upped"
           \/ work[e] = "downing" /\ work'[e] = "downed"
    BY <1>4 DEF Done
  <2> QED
    BY <2>1
<1>5. ASSUME NEW e \in Entry, Stuck(e) \/ Fails(e) PROVE Ordered'
  <2>1. /\ UNCHANGED cmd /\ \A d \in Entry : d # e => work'[d] = work[d]
        /\ work'[e] = "failed" /\ cmd # "idle"
    BY <1>5 DEF Stuck, Fails, Failed, Running, Busy
  <2> QED
    BY <2>1
<1>6. CASE \/ Bootstrap \/ EnrolRouter \/ Edit \/ Meddle \/ \E c \in Conn : EnrolTunnel(c)
           \/ \E e \in Entry : Step(e) \/ UNCHANGED vars
  BY <1>6 DEF Bootstrap, EnrolRouter, Edit, Meddle, EnrolTunnel, Step, vars
<1> QED
  BY <1>1, <1>2, <1>3, <1>4, <1>5, <1>6 DEF Next

\* The effects of a Connection's steps, and those of the plane's.
ConnEffect(c) ==
  \/ upsertService(c) \/ upsertTransportTerminator(c) \/ mintIdentityWithToken(c)
  \/ RealizeEdge(c) \/ ensureTunnel(c) \/ removeTunnel(c) \/ removeIdentityVolume(c)
  \/ trySession(c) \/ RevokeEdge(c) \/ RevokeIdentity(c) \/ deleteTerminatorsForService(c)
  \/ deleteService(c) \/ Looks(c)
PlaneEffect(e) ==
  \/ resolveFabricAdminCredential(e) \/ controller(e) \/ settleController(e)
  \/ upsertEdgeRouter(e) \/ ensureRouter(e) \/ upsertCatchAllRouterPolicies(e) \/ dropRouter(e)
  \/ removeRouter(e) \/ removeController(e) \/ removeRouterVolume(e)
  \/ removeControllerVolume(e) \/ Looks(e)

\* A Connection has the effects of a Connection, and the plane those of the plane.
LEMMA Whose ==
  ASSUME Control, Planned, NEW e \in Entry, Running(e), Effect(e)
  PROVE  /\ e \in Conn => kind = "provider" /\ ConnEffect(e)
         /\ e = plane => PlaneEffect(e)
<1>0. todo[e] # End /\ work[e] \in {"upping", "downing"}
  BY DEF Running, Busy, End
<1>1. CASE e \in Conn
  <2>1. kind = "provider"
    BY <1>0, <1>1 DEF Planned, Control
  <2>2. Head(todo[e]) \notin
          {"resolveCredential", "controller", "settleController", "upsertEdgeRouter", "enrolRouter",
           "router", "catchAll", "dropRouter", "removeRouter", "removeController",
           "removeRouterVolume", "removeControllerVolume"}
    <3>1. CASE work[e] = "upping"
      BY <1>0, <1>1, <3>1, ConnUpMoves DEF Planned, Doing
    <3>2. CASE work[e] = "downing"
      BY <1>0, <1>1, <3>2, ConnDownMoves DEF Planned, Doing
    <3> QED
      BY <1>0, <3>1, <3>2
  <2>3. ~(\/ resolveFabricAdminCredential(e) \/ controller(e) \/ settleController(e)
          \/ upsertEdgeRouter(e) \/ ensureRouter(e) \/ upsertCatchAllRouterPolicies(e)
          \/ dropRouter(e) \/ removeRouter(e) \/ removeController(e) \/ removeRouterVolume(e)
          \/ removeControllerVolume(e))
    BY <2>2 DEF Doing, resolveFabricAdminCredential, controller, settleController, upsertEdgeRouter,
         ensureRouter, upsertCatchAllRouterPolicies, dropRouter, removeRouter, removeController,
         removeRouterVolume, removeControllerVolume
  <2> QED
    BY <1>1, <2>1, <2>3, Entries, Zenon DEF Effect, ConnEffect
<1>2. CASE e = plane
  BY <1>2, Entries, Zenon DEF Effect, PlaneEffect
<1> QED
  BY <1>1, <1>2, Entries

\* What the effects of a Connection's steps leave alone.
LEMMA ConnFrame ==
  ASSUME NEW c \in Conn, ConnEffect(c)
  PROVE  UNCHANGED <<hosts, rrec, erp, held, minted, orphaned>>
<1>1. CASE \/ upsertService(c) \/ upsertTransportTerminator(c) \/ mintIdentityWithToken(c)
           \/ RealizeEdge(c) \/ ensureTunnel(c)
  BY <1>1 DEF upsertService, upsertTransportTerminator, mintIdentityWithToken, RealizeEdge,
       ensureTunnel, process, ghosts, db
<1>2. CASE \/ removeTunnel(c) \/ removeIdentityVolume(c) \/ trySession(c) \/ RevokeEdge(c)
  BY <1>2 DEF removeTunnel, removeIdentityVolume, trySession, RevokeEdge, process, ghosts, db
<1>3. CASE \/ RevokeIdentity(c) \/ deleteTerminatorsForService(c) \/ deleteService(c) \/ Looks(c)
  BY <1>3 DEF RevokeIdentity, deleteTerminatorsForService, deleteService, Looks, world, process,
       ghosts, db
<1> QED
  BY <1>1, <1>2, <1>3 DEF ConnEffect

\* What the effects of the plane's steps leave alone.
LEMMA PlaneFrame ==
  ASSUME PlaneEffect(plane)
  PROVE  /\ UNCHANGED <<tunnels, jwt, dropped, left>>
         /\ \/ UNCHANGED <<svc, term, ident, policy, undercut, remaking>>
            \/ removeControllerVolume(plane)
         /\ minted' = minted \/ Doing(plane, "resolveCredential")
<1>1. CASE \/ resolveFabricAdminCredential(plane) \/ controller(plane) \/ settleController(plane)
           \/ upsertEdgeRouter(plane) \/ ensureRouter(plane)
  BY <1>1 DEF resolveFabricAdminCredential, controller, settleController, upsertEdgeRouter,
       ensureRouter, process, ghosts, db, faults
<1>2. CASE \/ upsertCatchAllRouterPolicies(plane) \/ dropRouter(plane) \/ removeRouter(plane)
           \/ removeController(plane)
  BY <1>2 DEF upsertCatchAllRouterPolicies, dropRouter, removeRouter, removeController, process,
       ghosts, db, faults
<1>3. CASE removeRouterVolume(plane) \/ removeControllerVolume(plane) \/ Looks(plane)
  BY <1>3 DEF removeRouterVolume, removeControllerVolume, Looks, world, process, ghosts, db, faults
<1> QED
  BY <1>1, <1>2, <1>3 DEF PlaneEffect

\* The steps left keep fitting the work.
LEMMA PlanStep == Control /\ Ordered /\ Planned /\ [Next]_vars => Planned'
<1> SUFFICES ASSUME Control, Ordered, Planned, [Next]_vars PROVE Planned'
  OBVIOUS
<1>t. work \in [Entry -> Work] /\ todo \in [Entry -> Plan] /\ kind \in {"fabric", "provider"}
  BY DEF Control
<1> DEFINE Early == {Credentials, Minted1, Minted2, Minted3}
           Late == {Plane2, Plane3, Router1, Router2, Router3, Router4,
                    Raze1, Raze2, Raze3, Raze4, Raze5, End}
<1>n. /\ \A x \in Late : x \notin Early /\ x # Plane1
      /\ Plane1 \notin Early /\ Credentials \notin {Minted1, Minted2, Minted3}
      /\ Minted3 \notin {Minted1, Minted2}
  BY PlaneDistinct
<1> USE Entries, <1>t DEF Planned, Busy
\* Only the resolution of the fabric's credential mints one.
<1>m. ASSUME NEW e \in Entry, Running(e), Effect(e)
      PROVE  \/ minted' = minted
             \/ e = plane /\ todo[e] = Credentials /\ kind = "fabric"
  <2>1. CASE e \in Conn
    BY <1>m, <2>1, Whose, ConnFrame
  <2>2. CASE e = plane
    <3>1. minted' = minted \/ Doing(plane, "resolveCredential")
      BY <1>m, <2>2, Whose, PlaneFrame
    <3>2. Doing(plane, "resolveCredential") => todo[plane] = Credentials
      <4>0. todo[plane] # End /\ work[plane] \in {"upping", "downing"}
        BY <1>m, <2>2 DEF Running, End
      <4>1. CASE work[plane] = "upping"
        BY <4>0, <4>1, PlaneUpMoves DEF Doing
      <4>2. CASE work[plane] = "downing"
        BY <4>0, <4>2, PlaneDownMoves DEF Doing
      <4> QED
        BY <4>0, <4>1, <4>2
    <3> QED
      BY <2>2, <3>1, <3>2
  <2> QED
    BY <2>1, <2>2
<1>1. CASE StartApply \/ StartDestroy
  BY <1>1 DEF StartApply, StartDestroy, Ordered, manifests, world, process
<1>2. CASE Crash \/ Finish
  <2>1. UNCHANGED kind /\ ~minted' /\ \A e \in Entry : work'[e] = "none" /\ todo'[e] = End
    BY <1>2 DEF Crash, Finish, Idle, manifests, End
  <2> QED
    BY <2>1, <1>n
<1>3. ASSUME NEW e \in Entry, Begin(e) PROVE Planned'
  <2>1. /\ \A d \in Entry : d # e => work'[d] = work[d] /\ todo'[d] = todo[d]
        /\ UNCHANGED <<kind, minted>> /\ work[e] \in {"up", "down"} /\ todo[e] = End
    BY <1>3 DEF Begin, manifests, world, process
  <2>2. CASE work'[e] = "failed" /\ todo'[e] = End
    BY <2>1, <2>2, <1>n
  <2>3. CASE work[e] = "up" /\ work'[e] = "upping" /\ todo'[e] = Up(e)
    <3>1. CASE e = plane
      <4>1. Up(plane) \in PlaneUp
        BY FirstPlans DEF PlaneUp
      <4>2. /\ kind = "provider" => Up(plane) = Plane1
            /\ kind = "fabric" => Up(plane) \in {Credentials, End}
        BY FirstPlans
      <4> QED
        BY <2>1, <2>3, <3>1, <4>1, <4>2, <1>n
    <3>2. CASE e \in Conn
      <4>1. Up(e) \in ConnUp /\ (kind = "fabric" => Up(e) = End)
        BY <3>2, FirstPlans DEF ConnUp
      <4> QED
        BY <2>1, <2>3, <3>2, <4>1
    <3> QED
      BY <3>1, <3>2
  <2>4. CASE work[e] = "down" /\ work'[e] = "downing" /\ todo'[e] = Down(e)
    <3>1. CASE e = plane
      <4>1. Down(plane) \in PlaneDown /\ Down(plane) \in {Raze1, End}
        BY FirstPlans DEF PlaneDown
      <4> QED
        BY <2>1, <2>4, <3>1, <4>1, <1>n
    <3>2. CASE e \in Conn
      <4>1. Down(e) \in ConnDown /\ (kind = "fabric" => Down(e) = End)
        BY <3>2, FirstPlans DEF ConnDown
      <4> QED
        BY <2>1, <2>4, <3>2, <4>1
    <3> QED
      BY <3>1, <3>2
  <2> QED
    BY <1>3, <2>1, <2>2, <2>3, <2>4 DEF Begin
<1>4. ASSUME NEW e \in Entry, Done(e) PROVE Planned'
  <2>1. /\ \A d \in Entry : d # e => work'[d] = work[d]
        /\ UNCHANGED <<kind, minted, todo>> /\ todo[e] = End
        /\ work'[e] \in {"upped", "downed"}
    BY <1>4 DEF Done, manifests, world, process, End
  <2> QED
    BY <2>1
<1>5. ASSUME NEW e \in Entry, Stuck(e) \/ Fails(e) PROVE Planned'
  <2>1. /\ \A d \in Entry : d # e => work'[d] = work[d] /\ todo'[d] = todo[d]
        /\ work'[e] = "failed" /\ todo'[e] = End /\ UNCHANGED kind
    BY <1>5 DEF Stuck, Fails, Failed, manifests, End
  <2>2. minted' => kind = "fabric"
    BY <1>5, <1>m DEF Stuck, Fails, world, process
  <2>3. e = plane \/ minted' = minted
    BY <1>5, <1>m DEF Stuck, Fails, world, process
  <2>4. CASE e = plane
    BY <2>1, <2>2, <2>4, <1>n
  <2>5. CASE e \in Conn
    BY <2>1, <2>2, <2>3, <2>5
  <2> QED
    BY <2>4, <2>5
<1>6. ASSUME NEW e \in Entry, Step(e) PROVE Planned'
  <2>1. /\ \A d \in Entry : d # e => todo'[d] = todo[d]
        /\ todo'[e] = After(e) /\ UNCHANGED <<work, kind>> /\ Running(e) /\ Effect(e)
        /\ todo[e] # End /\ work[e] \in {"upping", "downing"}
    BY <1>6 DEF Step, manifests, Running, End
  <2>2. CASE e \in Conn
    BY <2>1, <2>2, AfterPlans, <1>m
  <2>3. CASE e = plane
    <3>1. /\ work[plane] = "upping" => After(plane) \in PlaneUp
          /\ work[plane] = "downing" => After(plane) \in PlaneDown
      BY <2>1, <2>3, AfterPlans
    <3>2. minted' = minted \/ (todo[plane] = Credentials /\ kind = "fabric")
      BY <2>1, <2>3, <1>m
    <3>3. CASE work[plane] = "upping"
      <4>1. \/ todo[plane] = Credentials /\ todo'[plane] = IF minted' THEN Minted1 ELSE Plane1
            \/ todo[plane] = Minted1 /\ todo'[plane] \in {Minted1, Minted2}
            \/ todo[plane] = Minted2 /\ todo'[plane] = Minted3
            \/ todo[plane] \in {Minted3, Plane1} /\ todo'[plane] = todo[plane]
            \/ todo[plane] \notin {Credentials, Minted1, Minted2} /\ todo'[plane] \in Late
        <5>1. {Plane2, Plane3, Router1, Router2, Router3, Router4, End} \subseteq Late
          OBVIOUS
        <5>2. Minted3 \notin {Credentials, Minted1, Minted2} /\ Plane1 \notin Early
          BY <1>n
        <5> HIDE DEF Late
        <5> QED
          BY <2>1, <2>3, <3>3, <5>1, <5>2, <1>n, PlaneUpMoves
      <4> HIDE DEF Late
      <4> QED
        BY <2>1, <2>3, <3>1, <3>2, <3>3, <4>1, <1>n
    <3>4. CASE work[plane] = "downing"
      <4>1. todo'[plane] \in Late /\ todo[plane] \in Late
        BY <2>1, <2>3, <3>4, PlaneDownMoves
      <4> HIDE DEF Late
      <4> QED
        BY <2>1, <2>3, <3>1, <3>2, <3>4, <4>1, <1>n
    <3> QED
      BY <2>1, <2>3, <3>3, <3>4
  <2> QED
    BY <2>2, <2>3
<1>7. CASE \/ Bootstrap \/ EnrolRouter \/ Edit \/ Meddle \/ \E c \in Conn : EnrolTunnel(c)
           \/ UNCHANGED vars
  BY <1>7 DEF Bootstrap, EnrolRouter, Edit, Meddle, EnrolTunnel, vars, manifests, process, world
<1> QED
  BY <1>1, <1>2, <1>3, <1>4, <1>5, <1>6, <1>7 DEF Next

\* The effects of the plane's steps keep the credential and the router's keys.
LEMMA PlaneEffectKeeps ==
  ASSUME Control, Planned, Credited, Planed, Running(plane), PlaneEffect(plane), UNCHANGED kind
  PROVE  /\ CredentialKept'
         /\ rrec' = "verified" /\ ~orphaned' => keys'
         /\ Doing(plane, "resolveCredential") /\ minted' =>
              orphaned' \/ (admin' = 0 /\ (ctrl' = "none" \/ cred' = 0))
<1>0. todo[plane] # End /\ work[plane] \in {"upping", "downing"}
  BY DEF Running, Busy, End
<1>p. /\ work[plane] = "upping" => todo[plane] \in PlaneUp
      /\ work[plane] = "downing" => todo[plane] \in PlaneDown
  BY DEF Planned
<1>h. /\ Doing(plane, "controller") => todo[plane] \in {Minted1, Plane1}
      /\ Doing(plane, "removeRouterVolume") => todo[plane] = Raze4
      /\ Doing(plane, "resolveCredential") => todo[plane] = Credentials
  <2>1. CASE work[plane] = "upping"
    BY <1>0, <1>p, <2>1, PlaneUpMoves DEF Doing
  <2>2. CASE work[plane] = "downing"
    BY <1>0, <1>p, <2>2, PlaneDownMoves DEF Doing
  <2> QED
    BY <1>0, <2>1, <2>2
<1>k. kind \in {"fabric", "provider"}
  BY DEF Control
<1> USE DEF Credited, Planed, CredentialKept
<1>1. CASE resolveFabricAdminCredential(plane)
  <2>1. UNCHANGED <<admin, ctrl, cred, rrec, keys>>
    BY <1>1 DEF resolveFabricAdminCredential, hosts, db
  <2>2. kind = "fabric"
    BY <1>1, <1>h DEF Planned, resolveFabricAdminCredential
  <2>3. ~orphaned' => /\ ~orphaned /\ (ctrl # "none" \/ admin = 0)
                      /\ minted' => ctrl = "none" \/ cred = 0
    BY <1>1 DEF resolveFabricAdminCredential, Orphan
  <2> QED
    BY <2>1, <2>2, <2>3
<1>2. CASE controller(plane)
  <2>1. UNCHANGED <<admin, orphaned, rrec, keys>> /\ ~Doing(plane, "resolveCredential")
    BY <1>2 DEF controller, db, ghosts, Doing
  <2>2. CASE minted
    <3>1. kind = "fabric" /\ todo[plane] = Minted1
      BY <1>2, <1>h, <2>2 DEF Planned, controller
    <3>2. orphaned \/ admin = 0
      BY <3>1
    <3> QED
      BY <2>1, <3>2
  <2>3. CASE ~minted
    <3>1. cred' = cred
      BY <1>2, <2>3 DEF controller
    <3> QED
      BY <2>1, <3>1
  <2> QED
    BY <2>2, <2>3
<1>3. CASE settleController(plane)
  BY <1>3 DEF settleController, db, ghosts, Doing
<1>4. CASE upsertEdgeRouter(plane)
  BY <1>4 DEF upsertEdgeRouter, hosts, ghosts, Doing
<1>5. CASE ensureRouter(plane)
  BY <1>5 DEF ensureRouter, db, ghosts, Doing
<1>6. CASE upsertCatchAllRouterPolicies(plane)
  BY <1>6 DEF upsertCatchAllRouterPolicies, hosts, ghosts, Doing
<1>7. CASE dropRouter(plane)
  BY <1>7 DEF dropRouter, ghosts, Doing
<1>8. CASE removeRouter(plane)
  BY <1>8 DEF removeRouter, db, ghosts, Doing
<1>9. CASE removeController(plane)
  BY <1>9 DEF removeController, db, Doing
<1>10. CASE removeRouterVolume(plane)
  BY <1>10, <1>h DEF removeRouterVolume, db, ghosts, Doing
<1>11. CASE removeControllerVolume(plane)
  BY <1>11 DEF removeControllerVolume, Doing
<1>12. CASE Looks(plane)
  BY <1>12 DEF Looks, world, hosts, db, ghosts, Doing
<1> QED
  BY <1>1, <1>2, <1>3, <1>4, <1>5, <1>6, <1>7, <1>8, <1>9, <1>10, <1>11, <1>12 DEF PlaneEffect

\* The first step that is left says which effect the plane's step has.
LEMMA PlaneDoes ==
  ASSUME PlaneEffect(plane)
  PROVE  /\ Doing(plane, "resolveCredential") => resolveFabricAdminCredential(plane)
         /\ Doing(plane, "controller") => controller(plane)
         /\ Doing(plane, "settleController") => settleController(plane)
         /\ Doing(plane, "upsertEdgeRouter") => upsertEdgeRouter(plane)
         /\ Doing(plane, "enrolRouter") \/ Doing(plane, "router") => ensureRouter(plane)
         /\ Doing(plane, "catchAll") => upsertCatchAllRouterPolicies(plane)
         /\ Doing(plane, "removeController") => removeController(plane)
         /\ Doing(plane, "removeRouterVolume") => removeRouterVolume(plane)
         /\ Doing(plane, "waitControllerServing") \/ Doing(plane, "waitEdgeRouterVerified")
              => Looks(plane)
<1> DEFINE h == Head(todo[plane])
<1>1. /\ resolveFabricAdminCredential(plane) => h = "resolveCredential"
      /\ controller(plane) => h = "controller"
      /\ settleController(plane) => h = "settleController"
      /\ upsertEdgeRouter(plane) => h = "upsertEdgeRouter"
      /\ ensureRouter(plane) => h \in {"enrolRouter", "router"}
      /\ upsertCatchAllRouterPolicies(plane) => h = "catchAll"
      /\ dropRouter(plane) => h = "dropRouter"
      /\ removeRouter(plane) => h = "removeRouter"
      /\ removeController(plane) => h = "removeController"
      /\ removeRouterVolume(plane) => h = "removeRouterVolume"
      /\ removeControllerVolume(plane) => h = "removeControllerVolume"
      /\ Looks(plane) => h \in {"waitControllerServing", "waitEdgeRouterVerified",
                                 "waitTunnelEnrolled", "waitMediatedServing"}
  BY DEF Doing, resolveFabricAdminCredential, controller, settleController, upsertEdgeRouter,
       ensureRouter, upsertCatchAllRouterPolicies, dropRouter, removeRouter, removeController,
       removeRouterVolume, removeControllerVolume, Looks
<1>2. \A x : Doing(plane, x) => h = x
  BY DEF Doing
<1> QED
  BY <1>1, <1>2 DEF PlaneEffect

\* The plane keeps its credential, and what its reconcile achieved.
LEMMA PlaneStep ==
  Control /\ Ordered /\ Planned /\ Credited /\ Planed /\ [Next]_vars => Credited' /\ Planed'
<1> SUFFICES ASSUME Control, Ordered, Planned, Credited, Planed, [Next]_vars
             PROVE  Credited' /\ Planed'
  OBVIOUS
<1>t. work \in [Entry -> Work] /\ todo \in [Entry -> Plan] /\ kind \in {"fabric", "provider"}
  BY DEF Control
<1>b. \A e \in Entry : work[e] \notin {"upping", "downing"} => todo[e] = End
  BY DEF Planned, Busy
<1> USE Entries, <1>t, <1>b DEF Credited, Planed, CredentialKept, PlaneGood, Enrolling
\* A step that leaves the plane and what is about it alone.
<1>f. ASSUME UNCHANGED <<hosts, rrec, erp, orphaned, kind, declared, work[plane], todo[plane]>>
      PROVE  Credited' /\ Planed'
  BY <1>f DEF hosts
<1>1. CASE StartApply \/ StartDestroy
  <2>1. /\ UNCHANGED <<hosts, rrec, erp, orphaned, kind, declared, todo>> /\ cmd = "idle"
        /\ work'[plane] \in {"up", "down", "none"}
    BY <1>1 DEF StartApply, StartDestroy, manifests, world, db, ghosts
  <2>2. todo[plane] = End
    BY <2>1 DEF Ordered
  <2> QED
    BY <2>1, <2>2, PlaneDistinct DEF hosts
<1>2. CASE Crash \/ Finish
  <2>1. /\ UNCHANGED <<hosts, rrec, erp, orphaned, kind>>
        /\ work'[plane] = "none" /\ todo'[plane] = End
    BY <1>2 DEF Crash, Finish, Idle, manifests, db, ghosts, End
  <2> QED
    BY <2>1, PlaneDistinct DEF hosts
<1>3. CASE Bootstrap
  BY <1>3 DEF Bootstrap, manifests, db, ghosts
<1>4. CASE EnrolRouter
  BY <1>4 DEF EnrolRouter, manifests, ghosts
<1>5. CASE Edit
  <2>1. UNCHANGED <<hosts, rrec, erp, orphaned, kind, work, todo>> /\ work[plane] = "none"
    BY <1>5 DEF Edit, Ordered, world, db, ghosts
  <2> QED
    BY <2>1 DEF hosts
<1>6. CASE Meddle
  BY <1>6 DEF Meddle, manifests, db
<1>7. ASSUME NEW c \in Conn, EnrolTunnel(c) PROVE Credited' /\ Planed'
  BY <1>7, <1>f DEF EnrolTunnel, manifests, db, ghosts
<1>8. ASSUME NEW e \in Entry, Begin(e) PROVE Credited' /\ Planed'
  <2>1. /\ UNCHANGED <<hosts, rrec, erp, orphaned, kind, declared>>
        /\ \A d \in Entry : d # e => work'[d] = work[d] /\ todo'[d] = todo[d]
        /\ work[e] \in {"up", "down"} /\ todo[e] = End
    BY <1>8 DEF Begin, manifests, world, db, ghosts
  <2>2. CASE e \in Conn
    BY <2>1, <2>2, <1>f
  <2>3. CASE e = plane
    <3>1. /\ work'[plane] \in {"upping", "downing", "failed"}
          /\ todo'[plane] \in {Credentials, Plane1, Raze1, End}
          /\ work'[plane] = "upping" /\ todo'[plane] = End => declared = {}
      BY <1>8, <2>1, <2>3, FirstPlans DEF Begin
    <3> QED
      BY <2>1, <3>1, PlaneDistinct DEF hosts
  <2> QED
    BY <2>2, <2>3
<1>9. ASSUME NEW e \in Entry, Done(e) PROVE Credited' /\ Planed'
  <2>1. /\ UNCHANGED <<hosts, rrec, erp, orphaned, kind, declared, todo>>
        /\ \A d \in Entry : d # e => work'[d] = work[d]
        /\ \/ work[e] = "upping" /\ work'[e] = "upped"
           \/ work[e] = "downing" /\ work'[e] = "downed"
        /\ todo[e] = End
    BY <1>9 DEF Done, manifests, world, db, ghosts, End
  <2>2. CASE e \in Conn
    BY <2>1, <2>2, <1>f
  <2>3. CASE e = plane
    BY <2>1, <2>3, PlaneDistinct DEF hosts
  <2> QED
    BY <2>2, <2>3
\* The effect of a step, whether the step ends well or not.
<1>e. ASSUME NEW e \in Entry, Running(e), Effect(e) \/ UNCHANGED world, UNCHANGED kind
      PROVE  /\ e \in Conn => UNCHANGED <<hosts, rrec, erp, orphaned>>
             /\ e = plane => /\ CredentialKept'
                             /\ rrec' = "verified" /\ ~orphaned' => keys'
  <2>1. CASE Effect(e)
    BY <1>e, <2>1, Whose, ConnFrame, PlaneEffectKeeps
  <2>2. CASE UNCHANGED world
    BY <2>2, <1>e DEF world, hosts, db, ghosts
  <2> QED
    BY <1>e, <2>1, <2>2
<1>10. ASSUME NEW e \in Entry, Stuck(e) \/ Fails(e) PROVE Credited' /\ Planed'
  <2>1. /\ UNCHANGED <<kind, declared>> /\ Running(e) /\ (Effect(e) \/ UNCHANGED world)
        /\ \A d \in Entry : d # e => work'[d] = work[d] /\ todo'[d] = todo[d]
        /\ work'[e] = "failed" /\ todo'[e] = End
    BY <1>10 DEF Stuck, Fails, Failed, manifests, End
  <2>2. CASE e \in Conn
    BY <2>1, <2>2, <1>e, <1>f
  <2>3. CASE e = plane
    BY <2>1, <2>3, <1>e, PlaneDistinct
  <2> QED
    BY <2>2, <2>3
<1>11. ASSUME NEW e \in Entry, Step(e) PROVE Credited' /\ Planed'
  <2>1. /\ UNCHANGED <<kind, declared, work>> /\ Running(e) /\ Able(e) /\ Effect(e)
        /\ \A d \in Entry : d # e => todo'[d] = todo[d]
        /\ todo'[e] = After(e) /\ todo[e] # End /\ work[e] \in {"upping", "downing"}
    BY <1>11 DEF Step, manifests, Running, Busy, End
  <2>2. CASE e \in Conn
    BY <2>1, <2>2, <1>e, <1>f
  <2>3. CASE e = plane
    <3>k. /\ CredentialKept'
          /\ rrec' = "verified" /\ ~orphaned' => keys'
      BY <2>1, <2>3, <1>e
    <3>p. PlaneEffect(plane)
      BY <2>1, <2>3, Whose
    <3>1. CASE work[plane] = "downing"
      <4>1. \/ todo[plane] \in {Raze1, Raze2, Raze5} /\ todo'[plane] \in {Raze2, Raze3, End}
            \/ /\ todo[plane] = Raze3 /\ todo'[plane] = Raze4
               /\ Doing(plane, "removeController")
            \/ /\ todo[plane] = Raze4 /\ todo'[plane] = Raze5
               /\ Doing(plane, "removeRouterVolume")
        BY <2>1, <2>3, <3>1, PlaneDownMoves DEF Planned
      <4>2. todo'[plane] \in {Raze4, Raze5} => orphaned'
        BY <4>1, <3>p, PlaneDoes, PlaneDistinct DEF removeController, removeRouterVolume, ghosts
      <4>3. todo'[plane] # Minted1
        BY <4>1, PlaneDistinct
      <4> QED
        BY <2>1, <3>1, <3>k, <4>2, <4>3
    <3>2. CASE work[plane] = "upping"
      <4>u. todo[plane] \in PlaneUp
        BY <3>2 DEF Planned
      <4>s. todo'[plane] = After(plane)
        BY <2>1, <2>3
      <4>0. todo'[plane] \notin {Raze4, Raze5} /\ work'[plane] = "upping"
        BY <2>1, <2>3, <3>2, <4>u, <4>s, PlaneUpMoves, PlaneDistinct
      <4>1. CASE todo[plane] = Credentials
        <5>1. Doing(plane, "resolveCredential") /\ todo'[plane] = IF minted' THEN Minted1 ELSE Plane1
          BY <2>1, <2>3, <4>1, <4>u, <4>s, PlaneUpMoves, PlaneDistinct
        <5>2. minted' => orphaned' \/ (admin' = 0 /\ (ctrl' = "none" \/ cred' = 0))
          BY <2>1, <2>3, <3>p, <5>1, PlaneEffectKeeps
        <5> QED
          BY <3>k, <4>0, <5>1, <5>2, PlaneDistinct
      <4>2. CASE todo[plane] \in {Minted1, Minted2}
        <5>1. \/ todo'[plane] \in {Minted2, Minted3}
              \/ /\ todo'[plane] = Minted1 /\ todo[plane] = Minted1
                 /\ Outdated /\ Doing(plane, "controller")
          BY <2>1, <2>3, <4>2, <4>u, <4>s, PlaneUpMoves, PlaneDistinct
        <5>2. CASE todo'[plane] \in {Minted2, Minted3}
          BY <3>k, <4>0, <5>2, PlaneDistinct
        <5>3. CASE /\ todo'[plane] = Minted1 /\ todo[plane] = Minted1
                   /\ Outdated /\ Doing(plane, "controller")
          <6>1. ctrl' = "none" /\ UNCHANGED <<admin, orphaned>>
            BY <3>p, <5>3, PlaneDoes DEF controller, ghosts
          <6>2. kind = "fabric" => orphaned \/ admin = 0
            BY <5>3
          <6> QED
            BY <2>1, <3>k, <4>0, <5>3, <6>1, <6>2, PlaneDistinct
        <5> QED
          BY <5>1, <5>2, <5>3
      <4>3. CASE todo[plane] \in {Minted3, Plane1}
        <5>1. /\ \/ todo'[plane] = Plane2 /\ ~Outdated
                 \/ todo'[plane] \in {Minted3, Plane1}
              /\ Doing(plane, "settleController") \/ (Doing(plane, "controller") /\ ~minted)
          BY <2>1, <2>3, <4>3, <4>u, <4>s, PlaneUpMoves, PlaneDistinct DEF Planned
        <5>2. ~Outdated => ctrl' = "stable"
          BY <3>p, <5>1, PlaneDoes DEF settleController, controller
        <5> QED
          BY <3>k, <4>0, <5>1, <5>2, PlaneDistinct
      <4>4. CASE todo[plane] = Plane2
        <5>1. todo'[plane] = Plane3 /\ Doing(plane, "waitControllerServing")
          BY <2>1, <2>3, <4>4, <4>u, <4>s, PlaneUpMoves, PlaneDistinct
        <5>2. UNCHANGED <<ctrl, orphaned>>
          BY <3>p, <5>1, PlaneDoes DEF Looks, world, hosts, ghosts
        <5> QED
          BY <3>2, <3>k, <4>0, <4>4, <5>1, <5>2, PlaneDistinct
      <4>5. CASE todo[plane] = Plane3
        <5>1. /\ todo'[plane] = IF rrec' = "verified" THEN Router3 ELSE Router1
              /\ Doing(plane, "upsertEdgeRouter")
          BY <2>1, <2>3, <4>5, <4>u, <4>s, PlaneUpMoves, PlaneDistinct
        <5>2. UNCHANGED <<ctrl, orphaned>>
          BY <3>p, <5>1, PlaneDoes DEF upsertEdgeRouter, hosts, ghosts
        <5> QED
          BY <3>2, <3>k, <4>0, <4>5, <5>1, <5>2, PlaneDistinct
      <4>6. CASE todo[plane] = Router1
        <5>1. todo'[plane] = Router2 /\ Doing(plane, "enrolRouter")
          BY <2>1, <2>3, <4>6, <4>u, <4>s, PlaneUpMoves, PlaneDistinct
        <5>2. UNCHANGED <<ctrl, orphaned>>
          BY <3>p, <5>1, PlaneDoes DEF ensureRouter, ghosts
        <5> QED
          BY <3>2, <3>k, <4>0, <4>6, <5>1, <5>2, PlaneDistinct
      <4>7. CASE todo[plane] = Router2
        <5>1. todo'[plane] = Router3 /\ Doing(plane, "waitEdgeRouterVerified")
          BY <2>1, <2>3, <4>7, <4>u, <4>s, PlaneUpMoves, PlaneDistinct
        <5>2. UNCHANGED <<ctrl, orphaned, rrec>>
          BY <3>p, <5>1, PlaneDoes DEF Looks, world, hosts, db, ghosts
        <5>3. rrec = "verified"
          BY <2>1, <2>3, <5>1 DEF Able, Doing, waitEdgeRouterVerified
        <5> QED
          BY <3>2, <3>k, <4>0, <4>7, <5>1, <5>2, <5>3, PlaneDistinct
      <4>8. CASE todo[plane] = Router3
        <5>1. todo'[plane] = Router4 /\ Doing(plane, "router")
          BY <2>1, <2>3, <4>8, <4>u, <4>s, PlaneUpMoves, PlaneDistinct
        <5>2. UNCHANGED <<ctrl, orphaned, rrec>> /\ router' = "stable"
          BY <3>p, <5>1, PlaneDoes DEF ensureRouter, Doing, db, ghosts
        <5> QED
          BY <3>2, <3>k, <4>0, <4>8, <5>1, <5>2, PlaneDistinct
      <4>9. CASE todo[plane] = Router4
        <5>1. todo'[plane] = End /\ Doing(plane, "catchAll")
          BY <2>1, <2>3, <4>9, <4>u, <4>s, PlaneUpMoves, PlaneDistinct
        <5>2. UNCHANGED <<ctrl, router, orphaned, rrec>> /\ erp'
          BY <3>p, <5>1, PlaneDoes DEF upsertCatchAllRouterPolicies, hosts, ghosts
        <5> QED
          BY <3>2, <3>k, <4>0, <4>9, <5>1, <5>2, PlaneDistinct
      <4> QED
        BY <2>1, <2>3, <4>u, <4>1, <4>2, <4>3, <4>4, <4>5, <4>6, <4>7, <4>8, <4>9 DEF PlaneUp
    <3> QED
      BY <2>1, <2>3, <3>1, <3>2
  <2> QED
    BY <2>2, <2>3
<1>12. CASE UNCHANGED vars
  BY <1>12, <1>f DEF vars, manifests, world, db, ghosts
<1> QED
  BY <1>1, <1>2, <1>3, <1>4, <1>5, <1>6, <1>7, <1>8, <1>9, <1>10, <1>11, <1>12 DEF Next

\* The first step that is left says what a Connection is at.
LEMMA ConnAt ==
  ASSUME Control, Planned, NEW c \in Conn, Running(c)
  PROVE
         /\ Doing(c, "upsertService") => work[c] = "upping" /\ todo[c] = Conn1
         /\ Doing(c, "dropTerminator") => work[c] = "upping" /\ todo[c] = Conn2
         /\ Doing(c, "createTerminator") => work[c] = "upping" /\ todo[c] = Conn3
         /\ Doing(c, "mintIdentity") => work[c] = "upping" /\ todo[c] = Conn4
         /\ Doing(c, "RealizeEdge") => work[c] = "upping" /\ todo[c] \in {Plain, Token1}
         /\ Doing(c, "tunnelWithToken") => work[c] = "upping" /\ todo[c] = Token2
         /\ Doing(c, "tunnel") => work[c] = "upping" /\ todo[c] = Last1
         /\ Doing(c, "removeTunnel") => work[c] = "downing" /\ todo[c] = Drop1
         /\ Doing(c, "removeIdentityVolume") => work[c] = "downing" /\ todo[c] = Drop2
         /\ Doing(c, "trySession") => work[c] = "downing" /\ todo[c] = Drop3
         /\ Doing(c, "RevokeEdge") => work[c] = "downing" /\ todo[c] = Drop4
         /\ Doing(c, "RevokeIdentity") => work[c] = "downing" /\ todo[c] = Drop5
         /\ Doing(c, "deleteTerminators") => work[c] = "downing" /\ todo[c] = Drop6
         /\ Doing(c, "deleteService") => work[c] = "downing" /\ todo[c] = Drop7
<1>0. todo[c] # End /\ work[c] \in {"upping", "downing"}
  BY DEF Running, Busy, End
<1>1. CASE work[c] = "upping"
  BY <1>0, <1>1, ConnUpMoves DEF Planned, Doing
<1>2. CASE work[c] = "downing"
  BY <1>0, <1>2, ConnDownMoves DEF Planned, Doing
<1> QED
  BY <1>0, <1>1, <1>2

\* Two Connections differ in their consumer or in their target.
LEMMA EdgesDiffer == \A c, d \in Conn : c # d => consumer(c) # consumer(d) \/ target(c) # target(d)
  BY DEF consumer, target, Owner

\* A removal keeps what it has achieved where nothing is added.
LEMMA DisconnectingKept ==
  ASSUME NEW d \in Conn, Disconnecting(d), UNCHANGED <<work[d], todo[d], token[d], idvol[d]>>,
         \A c \in Conn : UNCHANGED <<consumer(c), target(c)>>, UNCHANGED reads,
         d \in left' <=> d \in left, ident'[consumer(d)] \in {0, ident[consumer(d)]},
         policy' \subseteq policy, svc' \subseteq svc, term' \subseteq term, dropped \subseteq dropped'
  PROVE  Disconnecting(d)'
<1>1. NoDial(d) => NoDial(d)'
  BY DEF NoDial
<1>2. /\ (\A c \in Conn \ {d} : target(c) = target(d) => c \in dropped)
           => (\A c \in Conn \ {d} : target(c) = target(d) => c \in dropped)'
      /\ target(d) \notin term => (target(d) \notin term)'
      /\ target(d) \notin svc \cup term => (target(d) \notin svc \cup term)'
  OBVIOUS
<1> QED
  BY <1>1, <1>2 DEF Disconnecting

\* What a Connection's step does to its siblings, and to the identities.
LEMMA ConnOthers ==
  ASSUME Data, Control, Ordered, Planned, Connected, NEW e \in Conn, Running(e), ConnEffect(e),
         kind = "provider", UNCHANGED <<shared, reads>>
  PROVE  /\ \A d \in Conn : Fresh(d)'
         /\ \A d \in Conn \ {e} : UNCHANGED <<work[d], todo[d]>> =>
              Connecting(d)' /\ Disconnecting(d)'
<1>c. \A d \in Conn : Fresh(d) /\ Connecting(d) /\ Disconnecting(d)
  BY DEF Connected
<1>s. \A d \in Conn : UNCHANGED <<consumer(d), target(d)>>
  BY DEF consumer, target, Owner
<1>o. work[e] = "downing" => \A d \in Conn : work[d] # "upping"
  BY Entries DEF Ordered
<1>u. work[e] = "upping" => \A d \in Conn : work[d] \notin {"downing", "downed"}
  BY Entries DEF Ordered
<1>t. /\ ident \in [Party -> Nat] /\ tunnel \in [Conn -> {"none", "enrolling", "stable"}]
      /\ token \in [Conn -> Nat] /\ idvol \in [Conn -> Nat]
  BY DEF Data
<1> DEFINE Others == \A d \in Conn \ {e} : UNCHANGED <<work[d], todo[d]>> =>
                       Connecting(d)' /\ Disconnecting(d)'
           Freshes == \A d \in Conn : Fresh(d)'
<1> USE Parties, <1>c, <1>s, <1>t DEF Fresh, Connecting, Disconnecting, Hosted, Tunneled, NoDial, Edge
<1>1. CASE upsertService(e)
  <2>1. work[e] = "upping"
    BY <1>1, ConnAt DEF upsertService
  <2>2. Freshes
    BY <1>1 DEF upsertService, db, tunnels, ghosts, faults
  <2>3. Others
    BY <1>1, <2>1, <1>u DEF upsertService, db, tunnels, ghosts, faults
  <2> QED
    BY <2>2, <2>3
<1>2. CASE upsertTransportTerminator(e)
  <2>1. work[e] = "upping"
    BY <1>2, ConnAt DEF upsertTransportTerminator
  <2>2. Freshes
    BY <1>2 DEF upsertTransportTerminator, db, tunnels, ghosts, faults
  <2>3. Others
    BY <1>2, <2>1, <1>u DEF upsertTransportTerminator, db, tunnels, ghosts, faults
  <2> QED
    BY <2>2, <2>3
<1>3. CASE mintIdentityWithToken(e)
  <2>1. work[e] = "upping"
    BY <1>3, ConnAt DEF mintIdentityWithToken
  <2>2. Freshes
    <3>1. UNCHANGED <<undercut, idvol>>
      BY <1>3 DEF mintIdentityWithToken, tunnels, ghosts, faults
    <3>2. \A p \in Party : ident[p] # 0 => ident'[p] = ident[p]
      BY <1>3 DEF mintIdentityWithToken
    <3>3. \A d \in Conn : ident[consumer(d)] # 0 => ident'[consumer(d)] = ident[consumer(d)]
      BY <3>2, Parties, Zenon
    <3>4. ASSUME NEW d \in Conn PROVE Fresh(d)'
      <4>1. Fresh(d) /\ UNCHANGED <<idvol[d], consumer(d)>>
        BY <3>1, <1>c, <1>s
      <4> QED
        BY ONLY <3>1, <3>3, <4>1 DEF Fresh
    <3> QED
      BY <3>4
  <2>3. Others
    BY <1>3, <2>1, <1>u DEF mintIdentityWithToken, db, tunnels, ghosts, faults
  <2> QED
    BY <2>2, <2>3
<1>4. CASE RealizeEdge(e)
  <2>1. work[e] = "upping"
    BY <1>4, ConnAt DEF RealizeEdge
  <2>2. Freshes
    BY <1>4 DEF RealizeEdge, db, tunnels, ghosts, faults
  <2>3. Others
    BY <1>4, <2>1, <1>u DEF RealizeEdge, db, tunnels, ghosts, faults
  <2> QED
    BY <2>2, <2>3
<1>5. CASE ensureTunnel(e)
  <2>1. work[e] = "upping"
    BY <1>5, ConnAt DEF ensureTunnel
  <2>2. Freshes
    BY <1>5 DEF ensureTunnel, db, tunnels, ghosts, faults
  <2>3. Others
    BY <1>5, <2>1, <1>u DEF ensureTunnel, db, tunnels, ghosts, faults
  <2> QED
    BY <2>2, <2>3
<1>6. CASE removeTunnel(e)
  <2>1. work[e] = "downing"
    BY <1>6, ConnAt DEF removeTunnel
  <2>2. Freshes
    BY <1>6 DEF removeTunnel, db, tunnels, ghosts, faults
  <2>3. Others
    BY <1>6, <2>1, <1>o DEF removeTunnel, db, tunnels, ghosts, faults
  <2> QED
    BY <2>2, <2>3
<1>7. CASE removeIdentityVolume(e)
  <2>1. work[e] = "downing"
    BY <1>7, ConnAt DEF removeIdentityVolume
  <2>2. Freshes
    BY <1>7 DEF removeIdentityVolume, db, tunnels, ghosts, faults
  <2>3. Others
    BY <1>7, <2>1, <1>o DEF removeIdentityVolume, db, tunnels, ghosts, faults
  <2> QED
    BY <2>2, <2>3
<1>8. CASE trySession(e)
  <2>1. work[e] = "downing"
    BY <1>8, ConnAt DEF trySession
  <2>2. Freshes
    BY <1>8 DEF trySession, db, tunnels, ghosts, faults
  <2>3. Others
    BY <1>8, <2>1, <1>o DEF trySession, db, tunnels, ghosts, faults
  <2> QED
    BY <2>2, <2>3
<1>9. CASE RevokeEdge(e)
  <2>1. work[e] = "downing"
    BY <1>9, ConnAt DEF RevokeEdge
  <2>2. Freshes
    BY <1>9 DEF RevokeEdge, db, tunnels, ghosts, faults
  <2>3. Others
    <3>1. \A d \in Conn \ {e} : Edge(d) \in policy => Edge(d) \in policy'
      BY <1>9, EdgesDiffer DEF RevokeEdge
    <3>2. \A q \in policy' : q \in policy
      BY <1>9 DEF RevokeEdge
    <3>3. UNCHANGED <<svc, term, ident, tunnel, token, idvol, undercut, dropped, remaking, left>>
      BY <1>9 DEF RevokeEdge, tunnels, ghosts, faults
    <3>4. \A d \in Conn \ {e} : UNCHANGED <<work[d], todo[d]>> => Connecting(d)'
      BY <2>1, <1>o, <3>1, <3>3
    <3>5. \A d \in Conn \ {e} : UNCHANGED <<work[d], todo[d]>> => Disconnecting(d)'
      BY <3>2, <3>3, DisconnectingKept
    <3> QED
      BY <3>4, <3>5
  <2> QED
    BY <2>2, <2>3
<1>10. CASE RevokeIdentity(e)
  <2>1. work[e] = "downing"
    BY <1>10, ConnAt DEF RevokeIdentity
  <2>2. Freshes
    <3>1. todo[e] = Drop5
      BY <1>10, ConnAt DEF RevokeIdentity
    <3>2. idvol[e] = 0
      BY <2>1, <3>1
    <3>3. CASE e \in reads
      <4>1. /\ ident' = [ident EXCEPT ![consumer(e)] = 0] /\ idvol' = idvol
            /\ undercut' = undercut \cup {d \in Conn \ {e} : consumer(d) = consumer(e)}
        BY <1>10, <3>3 DEF RevokeIdentity, tunnels
      <4> QED
        BY <3>2, <4>1
    <3>4. CASE e \notin reads
      <4>1. UNCHANGED <<ident, undercut, idvol>>
        BY <1>10, <3>4 DEF RevokeIdentity, tunnels
      <4> QED
        BY <4>1
    <3> QED
      BY <3>3, <3>4
  <2>3. Others
    BY <1>10, <2>1, <1>o DEF RevokeIdentity, db, tunnels, ghosts, faults
  <2> QED
    BY <2>2, <2>3
<1>11. CASE deleteTerminatorsForService(e)
  <2>1. work[e] = "downing"
    BY <1>11, ConnAt DEF deleteTerminatorsForService
  <2>2. Freshes
    BY <1>11 DEF deleteTerminatorsForService, db, tunnels, ghosts, faults
  <2>3. Others
    BY <1>11, <2>1, <1>o DEF deleteTerminatorsForService, db, tunnels, ghosts, faults
  <2> QED
    BY <2>2, <2>3
<1>12. CASE deleteService(e)
  <2>1. work[e] = "downing"
    BY <1>12, ConnAt DEF deleteService
  <2>2. Freshes
    BY <1>12 DEF deleteService, db, tunnels, ghosts, faults
  <2>3. Others
    <3>1. todo[e] = Drop7
      BY <1>12, ConnAt DEF deleteService
    <3>2. \A d \in Conn \ {e} : target(d) = target(e) => d \in dropped
      BY <2>1, <3>1
    <3>3. /\ UNCHANGED <<term, ident, policy, tunnel, token, idvol>>
          /\ UNCHANGED <<undercut, dropped, remaking, left>> /\ svc' = svc \ {target(e)}
      BY <1>12 DEF deleteService, tunnels, ghosts, faults
    <3>4. \A d \in Conn \ {e} : UNCHANGED <<work[d], todo[d]>> => Connecting(d)'
      BY <2>1, <1>o, <3>2, <3>3
    <3>5. \A d \in Conn \ {e} : UNCHANGED <<work[d], todo[d]>> => Disconnecting(d)'
      BY <3>3, DisconnectingKept
    <3> QED
      BY <3>4, <3>5
  <2> QED
    BY <2>2, <2>3
<1>13. CASE Looks(e)
  <2>1. /\ UNCHANGED <<svc, term, ident, policy, tunnel, token, idvol>>
        /\ UNCHANGED <<undercut, dropped, remaking, left>>
    BY <1>13 DEF Looks, world, db, tunnels, ghosts, faults
  <2>2. \A d \in Conn \ {e} : UNCHANGED <<work[d], todo[d]>> => Connecting(d)'
    BY <2>1
  <2>3. \A d \in Conn \ {e} : UNCHANGED <<work[d], todo[d]>> => Disconnecting(d)'
    BY <2>1, DisconnectingKept
  <2>4. Freshes
    BY <2>1
  <2> QED
    BY <2>2, <2>3, <2>4
<1> QED
  BY <1>1, <1>2, <1>3, <1>4, <1>5, <1>6, <1>7, <1>8, <1>9, <1>10, <1>11, <1>12, <1>13 DEF ConnEffect

\* The first step that is left says which effect a Connection's step has.
LEMMA ConnDoes ==
  ASSUME NEW c \in Conn, ConnEffect(c)
  PROVE
         /\ Doing(c, "upsertService") => upsertService(c)
         /\ Doing(c, "dropTerminator") \/ Doing(c, "createTerminator") => upsertTransportTerminator(c)
         /\ Doing(c, "mintIdentity") => mintIdentityWithToken(c)
         /\ Doing(c, "RealizeEdge") => RealizeEdge(c)
         /\ Doing(c, "tunnelWithToken") \/ Doing(c, "tunnel") => ensureTunnel(c)
         /\ Doing(c, "removeTunnel") => removeTunnel(c)
         /\ Doing(c, "removeIdentityVolume") => removeIdentityVolume(c)
         /\ Doing(c, "trySession") => trySession(c)
         /\ Doing(c, "RevokeEdge") => RevokeEdge(c)
         /\ Doing(c, "RevokeIdentity") => RevokeIdentity(c)
         /\ Doing(c, "deleteTerminators") => deleteTerminatorsForService(c)
         /\ Doing(c, "deleteService") => deleteService(c)
         /\ Doing(c, "waitTunnelEnrolled") \/ Doing(c, "waitMediatedServing") => Looks(c)
<1> DEFINE h == Head(todo[c])
<1>1. /\ upsertService(c) => h = "upsertService"
      /\ upsertTransportTerminator(c) => h \in {"dropTerminator", "createTerminator"}
      /\ mintIdentityWithToken(c) => h = "mintIdentity"
      /\ RealizeEdge(c) => h = "RealizeEdge"
      /\ ensureTunnel(c) => h \in {"tunnelWithToken", "tunnel"}
      /\ removeTunnel(c) => h = "removeTunnel"
      /\ removeIdentityVolume(c) => h = "removeIdentityVolume"
      /\ trySession(c) => h = "trySession"
      /\ RevokeEdge(c) => h = "RevokeEdge"
      /\ RevokeIdentity(c) => h = "RevokeIdentity"
      /\ deleteTerminatorsForService(c) => h = "deleteTerminators"
      /\ deleteService(c) => h = "deleteService"
      /\ Looks(c) => h \in {"waitControllerServing", "waitEdgeRouterVerified",
                             "waitTunnelEnrolled", "waitMediatedServing"}
  BY DEF Doing, upsertService, upsertTransportTerminator, mintIdentityWithToken, RealizeEdge,
       ensureTunnel, removeTunnel, removeIdentityVolume, trySession, RevokeEdge, RevokeIdentity,
       deleteTerminatorsForService, deleteService, Looks
<1>2. \A x : Doing(c, x) => h = x
  BY DEF Doing
<1> QED
  BY <1>1, <1>2 DEF ConnEffect

\* Each step of a Connection's reconcile adds what comes with it.
LEMMA ConnectingStep ==
  ASSUME Data, Control, Planned, NEW c \in Conn, Running(c), Able(c), ConnEffect(c),
         UNCHANGED <<shared, reads>>, work[c] = "upping", Connecting(c), Disconnecting(c), UNCHANGED work[c], todo'[c] = After(c)
  PROVE  Connecting(c)' /\ Disconnecting(c)'
<1>0. todo[c] # End
  BY DEF Running, End
<1>p. todo[c] \in ConnUp
  BY DEF Planned
<1>a. \/ todo[c] = Conn1 /\ Doing(c, "upsertService") /\ todo'[c] = Conn2
      \/ todo[c] = Conn2 /\ Doing(c, "dropTerminator") /\ todo'[c] = Conn3
      \/ todo[c] = Conn3 /\ Doing(c, "createTerminator") /\ todo'[c] = Conn4
      \/ todo[c] = Conn4 /\ Doing(c, "mintIdentity") /\ todo'[c] \in {Token1, Plain}
      \/ todo[c] = Plain /\ Doing(c, "RealizeEdge") /\ todo'[c] = Last1
      \/ todo[c] = Token1 /\ Doing(c, "RealizeEdge") /\ todo'[c] = Token2
      \/ todo[c] = Token2 /\ Doing(c, "tunnelWithToken") /\ todo'[c] = Token3
      \/ todo[c] = Token3 /\ Doing(c, "waitTunnelEnrolled") /\ todo'[c] = Last1
      \/ todo[c] = Last1 /\ Doing(c, "tunnel") /\ todo'[c] = Last2
      \/ todo[c] = Last2 /\ Doing(c, "waitMediatedServing") /\ todo'[c] = End
  BY <1>0, <1>p, ConnUpMoves
<1>s. UNCHANGED <<consumer(c), target(c)>>
  BY DEF consumer, target, Owner
<1>t. /\ tunnel \in [Conn -> {"none", "enrolling", "stable"}]
      /\ token \in [Conn -> Nat] /\ idvol \in [Conn -> Nat]
  BY DEF Data
<1>d. Disconnecting(c)'
  <2>1. c \notin left
    BY DEF Disconnecting
  <2>2. ~trySession(c) /\ ~deleteTerminatorsForService(c)
    BY ConnAt DEF trySession, deleteTerminatorsForService
  <2>3. left' = left
    BY <2>2 DEF ConnEffect, upsertService, upsertTransportTerminator, mintIdentityWithToken,
         RealizeEdge, ensureTunnel, removeTunnel, removeIdentityVolume, RevokeEdge, RevokeIdentity,
         deleteService, Looks, world, ghosts
  <2> QED
    BY <2>1, <2>3 DEF Disconnecting
<1>q. SUFFICES Connecting(c)'
  BY <1>d
<1> USE <1>s, <1>t DEF Connecting, Tunneled, Edge
<1>1. CASE todo[c] = Conn1
  <2>1. todo'[c] = Conn2 /\ (Doing(c, "upsertService"))
    BY <1>a, <1>1, ConnDistinct
  <2>2. target(c) \in svc'
    BY <2>1, ConnDoes DEF upsertService
  <2> QED
    BY <1>1, <2>1, <2>2, ConnDistinct
<1>2. CASE todo[c] = Conn2
  <2>1. todo'[c] = Conn3 /\ (Doing(c, "dropTerminator"))
    BY <1>a, <1>2, ConnDistinct
  <2>2. UNCHANGED svc
    BY <2>1, ConnDoes DEF upsertTransportTerminator
  <2> QED
    BY <1>2, <2>1, <2>2, ConnDistinct
<1>3. CASE todo[c] = Conn3
  <2>1. todo'[c] = Conn4 /\ (Doing(c, "createTerminator"))
    BY <1>a, <1>3, ConnDistinct
  <2>2. UNCHANGED svc /\ target(c) \in term'
    BY <2>1, ConnDoes DEF upsertTransportTerminator, Doing
  <2> QED
    BY <1>3, <2>1, <2>2, ConnDistinct
<1>4. CASE todo[c] = Conn4
  <2>1. todo'[c] \in {Token1, Plain} /\ (Doing(c, "mintIdentity"))
    BY <1>a, <1>4, ConnDistinct
  <2>2. UNCHANGED <<svc, term, remaking>>
    BY <2>1, ConnDoes DEF mintIdentityWithToken, ghosts, faults
  <2> QED
    BY <1>4, <2>1, <2>2, ConnDistinct
<1>5. CASE todo[c] \in {Plain, Token1}
  <2>1. todo'[c] \in {Last1, Token2} /\ (Doing(c, "RealizeEdge"))
    BY <1>a, <1>5, ConnDistinct
  <2>2. UNCHANGED <<svc, term, remaking>> /\ (c \in reads => Edge(c) \in policy')
    BY <2>1, ConnDoes DEF RealizeEdge
  <2> QED
    BY <1>5, <2>1, <2>2, ConnDistinct
<1>6. CASE todo[c] \in {Token2, Token3}
  <2>1. todo'[c] \in {Token3, Last1} /\ (Doing(c, "tunnelWithToken") \/ Doing(c, "waitTunnelEnrolled"))
    BY <1>a, <1>6, ConnDistinct
  <2>2. UNCHANGED <<svc, term, remaking, policy>>
    BY <2>1, ConnDoes DEF ensureTunnel, Looks, world, db, ghosts, faults
  <2> QED
    BY <1>6, <2>1, <2>2, ConnDistinct
<1>7. CASE todo[c] = Last1
  <2>1. todo'[c] = Last2 /\ (Doing(c, "tunnel"))
    BY <1>a, <1>7, ConnDistinct
  <2>2. UNCHANGED <<svc, term, remaking, policy>> /\ tunnel'[c] = "stable" /\ token'[c] = 0
    BY <2>1, ConnDoes DEF ensureTunnel, Doing, db, ghosts, faults
  <2> QED
    BY <1>7, <2>1, <2>2, ConnDistinct
<1>8. CASE todo[c] = Last2
  <2>1. todo'[c] = End /\ Doing(c, "waitMediatedServing")
    BY <1>a, <1>8, ConnDistinct
  <2>2. UNCHANGED <<svc, term, remaking, policy, tunnel, token, idvol>>
    BY <2>1, ConnDoes DEF Looks, world, db, tunnels, ghosts, faults
  <2>3. idvol[c] # 0
    BY <2>1 DEF Able, Doing, waitMediatedServing
  <2> QED
    BY <1>8, <2>1, <2>2, <2>3, ConnDistinct
<1> QED
  BY <1>a, <1>1, <1>2, <1>3, <1>4, <1>5, <1>6, <1>7, <1>8

\* Each step of a Connection's removal takes away what comes with it.
LEMMA DisconnectingStep ==
  ASSUME Data, Control, Planned, NEW c \in Conn, Running(c), ConnEffect(c),
         UNCHANGED <<shared, reads>>, work[c] = "downing", Disconnecting(c), UNCHANGED work[c], todo'[c] = After(c)
  PROVE  Connecting(c)' /\ Disconnecting(c)'
<1>0. todo[c] # End
  BY DEF Running, End
<1>p. todo[c] \in ConnDown
  BY DEF Planned
<1>a. \/ todo[c] = Drop1 /\ Doing(c, "removeTunnel") /\ todo'[c] = Drop2
      \/ todo[c] = Drop2 /\ Doing(c, "removeIdentityVolume") /\ todo'[c] = Drop3
      \/ todo[c] = Drop3 /\ Doing(c, "trySession") /\ todo'[c] = IF c \in left' THEN End ELSE Drop4
      \/ todo[c] = Drop4 /\ Doing(c, "RevokeEdge") /\ todo'[c] = Drop5
      \/ todo[c] = Drop5 /\ Doing(c, "RevokeIdentity") /\ todo'[c] = Drop6
      \/ todo[c] = Drop6 /\ Doing(c, "deleteTerminators")
           /\ todo'[c] = IF c \in left' THEN End ELSE Drop7
      \/ todo[c] = Drop7 /\ Doing(c, "deleteService") /\ todo'[c] = End
  BY <1>0, <1>p, ConnDownMoves
<1>s. \A d \in Conn : UNCHANGED <<consumer(d), target(d)>>
  BY DEF consumer, target, Owner
<1>t. /\ tunnel \in [Conn -> {"none", "enrolling", "stable"}] /\ ident \in [Party -> Nat]
      /\ token \in [Conn -> Nat] /\ idvol \in [Conn -> Nat]
  BY DEF Data
<1>d. Connecting(c)'
  BY DEF Connecting
<1>q. SUFFICES Disconnecting(c)'
  BY <1>d
<1>l. c \notin left
  BY <1>0 DEF Disconnecting
<1> USE Parties, <1>l, <1>s, <1>t DEF Disconnecting
<1>1. CASE todo[c] = Drop1
  <2>1. todo'[c] = Drop2 /\ Doing(c, "removeTunnel")
    BY <1>a, <1>1, ConnDistinct
  <2>2. token'[c] = 0 /\ left' = left
    BY <2>1, ConnDoes DEF removeTunnel, ghosts
  <2> QED
    BY <1>1, <2>1, <2>2, ConnDistinct
<1>2. CASE todo[c] = Drop2
  <2>1. todo'[c] = Drop3 /\ Doing(c, "removeIdentityVolume")
    BY <1>a, <1>2, ConnDistinct
  <2>2. UNCHANGED <<token, left>> /\ idvol'[c] = 0
    BY <2>1, ConnDoes DEF removeIdentityVolume
  <2> QED
    BY <1>2, <2>1, <2>2, ConnDistinct
<1>3. CASE todo[c] = Drop3
  <2>1. todo'[c] = (IF c \in left' THEN End ELSE Drop4) /\ Doing(c, "trySession")
    BY <1>a, <1>3, ConnDistinct
  <2>2. UNCHANGED <<token, idvol>>
    BY <2>1, ConnDoes DEF trySession, tunnels
  <2> QED
    BY <1>3, <2>1, <2>2, ConnDistinct
<1>4. CASE todo[c] = Drop4
  <2>1. todo'[c] = Drop5 /\ Doing(c, "RevokeEdge")
    BY <1>a, <1>4, ConnDistinct
  <2>2. UNCHANGED <<token, idvol, left>>
    BY <2>1, ConnDoes DEF RevokeEdge, tunnels, ghosts
  <2> QED
    BY <1>4, <2>1, <2>2, ConnDistinct
<1>5. CASE todo[c] = Drop5
  <2>1. todo'[c] = Drop6 /\ Doing(c, "RevokeIdentity")
    BY <1>a, <1>5, ConnDistinct
  <2>2. UNCHANGED <<token, idvol, left>> /\ NoDial(c)'
    BY <2>1, ConnDoes DEF RevokeIdentity, tunnels, NoDial
  <2> QED
    BY <1>5, <2>1, <2>2, ConnDistinct
<1>6. CASE todo[c] = Drop6
  <2>1. todo'[c] = (IF c \in left' THEN End ELSE Drop7) /\ Doing(c, "deleteTerminators")
    BY <1>a, <1>6, ConnDistinct
  <2>2. /\ UNCHANGED <<token, idvol, ident, policy>>
        /\ c \notin left' => /\ target(c) \notin term'
                             /\ \A d \in Conn \ {c} : target(d) = target(c) => d \in dropped'
    BY <2>1, ConnDoes DEF deleteTerminatorsForService, tunnels
  <2> QED
    BY <1>6, <2>1, <2>2, ConnDistinct DEF NoDial
<1>7. CASE todo[c] = Drop7
  <2>1. todo'[c] = End /\ Doing(c, "deleteService")
    BY <1>a, <1>7, ConnDistinct
  <2>2. UNCHANGED <<token, idvol, left, ident, policy, term>> /\ target(c) \notin svc'
    BY <2>1, ConnDoes DEF deleteService, tunnels, ghosts
  <2> QED
    BY <1>7, <2>1, <2>2, ConnDistinct DEF NoDial
<1> QED
  BY <1>a, <1>1, <1>2, <1>3, <1>4, <1>5, <1>6, <1>7

\* The plane's volume goes only in a destroy, when nobody is reconciled.
LEMMA RazedAlone ==
  ASSUME Control, Ordered, Planned, Running(plane), removeControllerVolume(plane)
  PROVE  \A c \in Conn : work[c] \notin {"up", "upping", "upped"}
<1>0. todo[plane] # End /\ work[plane] \in {"upping", "downing"}
  BY DEF Running, Busy, End
<1>1. Doing(plane, "removeControllerVolume")
  BY DEF removeControllerVolume
<1>2. work[plane] # "upping"
  <2> SUFFICES ASSUME work[plane] = "upping" PROVE FALSE
    OBVIOUS
  <2> QED
    BY <1>0, <1>1, PlaneUpMoves DEF Planned, Doing
<1>3. cmd = "destroy"
  BY <1>0, <1>2, Entries DEF Ordered, Control
<1> QED
  BY <1>3, Entries DEF Ordered

\* What the plane's step does to the Connections.
LEMMA ConnsUnderPlane ==
  ASSUME Data, Control, Ordered, Planned, Connected, Running(plane), PlaneEffect(plane),
         UNCHANGED <<kind, shared, reads>>, \A c \in Conn : UNCHANGED <<work[c], todo[c]>>
  PROVE  Connected'
<1>s. \A c \in Conn : UNCHANGED <<consumer(c), target(c)>>
  BY DEF consumer, target, Owner
<1>1. UNCHANGED <<tunnel, token, idvol, dropped, left>>
  BY PlaneFrame DEF tunnels
<1>2. CASE UNCHANGED <<svc, term, ident, policy, undercut, remaking>>
  BY <1>s, <1>1, <1>2 DEF Connected, Fresh, Connecting, Disconnecting, Hosted, Tunneled, NoDial, Edge
<1>3. CASE removeControllerVolume(plane)
  <2>1. \A c \in Conn : work[c] \notin {"up", "upping", "upped"}
    BY <1>3, RazedAlone
  <2>2. /\ svc' = {} /\ term' = {} /\ policy' = {}
        /\ ident' = [p \in Party |-> 0] /\ undercut' = undercut \cup {c \in Conn : idvol[c] # 0}
    BY <1>3 DEF removeControllerVolume
  <2>3. \A c \in Conn : Fresh(c)'
    BY <1>1, <2>2 DEF Fresh
  <2>4. \A c \in Conn : Connecting(c)'
    BY <2>1 DEF Connecting
  <2>5. ASSUME NEW c \in Conn, Disconnecting(c) PROVE Disconnecting(c)'
    <3>1. ident'[consumer(c)] = 0
      BY <2>2, <1>s, Parties
    <3> QED
      BY <1>s, <1>1, <2>2, <2>5, <3>1, DisconnectingKept
  <2> QED
    BY <2>3, <2>4, <2>5 DEF Connected
<1> QED
  BY <1>2, <1>3, PlaneFrame

\* The Connections keep what their reconciles and removals achieved.
LEMMA ConnStep == Data /\ Control /\ Ordered /\ Planned /\ Connected /\ [Next]_vars => Connected'
<1> SUFFICES ASSUME Data, Control, Ordered, Planned, Connected, [Next]_vars PROVE Connected'
  OBVIOUS
<1>t. work \in [Entry -> Work] /\ todo \in [Entry -> Plan] /\ kind \in {"fabric", "provider"}
  BY DEF Control
<1>b. \A e \in Entry : work[e] \notin {"upping", "downing"} => todo[e] = End
  BY DEF Planned, Busy
<1> USE Entries, <1>t, <1>b
<1> DEFINE Objects == <<svc, term, ident, policy, tunnel, token, idvol, undercut, dropped,
                        remaking, left>>
\* A step that leaves every object of the Connections alone.
<1>g. ASSUME UNCHANGED <<kind, shared, reads, Objects>>
      PROVE  /\ \A c \in Conn : Fresh(c)'
             /\ \A c \in Conn : UNCHANGED <<work[c], todo[c]>> =>
                  (Connecting(c) => Connecting(c)') /\ (Disconnecting(c) => Disconnecting(c)')
  BY <1>g DEF Connected, Fresh, Connecting, Disconnecting, Hosted, Tunneled, NoDial, Edge,
       consumer, target, Owner
<1>f. ASSUME UNCHANGED <<kind, shared, reads, Objects>>, \A c \in Conn : UNCHANGED <<work[c], todo[c]>>
      PROVE  Connected'
  BY <1>f, <1>g DEF Connected
\* Between two commands no removal is remembered.
<1>i. cmd = "idle" /\ kind = "provider" => \A c \in Conn : c \notin left /\ work[c] = "none"
  BY DEF Ordered, Connected, Disconnecting
<1>1. CASE StartApply \/ StartDestroy
  <2>1. UNCHANGED <<kind, shared, reads, Objects, todo>> /\ cmd = "idle"
    BY <1>1 DEF StartApply, StartDestroy, manifests, world, db, tunnels, ghosts, faults
  <2>2. \A c \in Conn : work'[c] \in {"up", "down", "none"}
    BY <1>1 DEF StartApply, StartDestroy
  <2>3. kind = "provider" => \A c \in Conn : c \notin left
    BY <2>1, <1>i
  <2>4. kind = "provider" => \A c \in Conn : Connecting(c)' /\ Disconnecting(c)'
    BY <2>1, <2>2, <2>3 DEF Connecting, Disconnecting
  <2> QED
    BY <2>1, <2>4, <1>g DEF Connected
<1>2. CASE Crash \/ Finish
  <2>1. /\ UNCHANGED <<kind, shared, ident, idvol, undercut>> /\ left' = {}
        /\ \A c \in Conn : work'[c] = "none"
    BY <1>2 DEF Crash, Finish, Idle, manifests, db, tunnels, faults
  <2>2. \A c \in Conn : Connecting(c)' /\ Disconnecting(c)'
    BY <2>1 DEF Connecting, Disconnecting
  <2>3. \A c \in Conn : Fresh(c)'
    BY <2>1 DEF Connected, Fresh, consumer, Owner
  <2> QED
    BY <2>2, <2>3 DEF Connected
<1>3. CASE Bootstrap
  BY <1>3, <1>f DEF Bootstrap, manifests, db, tunnels, ghosts, faults
<1>4. CASE EnrolRouter
  BY <1>4, <1>f DEF EnrolRouter, manifests, tunnels, ghosts, faults
<1>5. CASE Edit
  <2>1. /\ UNCHANGED <<kind, shared, ident, idvol, undercut, left>> /\ cmd = "idle"
        /\ \A c \in Conn : work'[c] = work[c]
    BY <1>5 DEF Edit, world, db, tunnels, ghosts, faults
  <2>2. kind = "provider" => \A c \in Conn : c \notin left /\ work[c] = "none"
    BY <2>1, <1>i
  <2>3. kind = "provider" => \A c \in Conn : Connecting(c)' /\ Disconnecting(c)'
    BY <2>1, <2>2 DEF Connecting, Disconnecting
  <2>4. \A c \in Conn : Fresh(c)'
    BY <2>1 DEF Connected, Fresh, consumer, Owner
  <2> QED
    BY <2>1, <2>3, <2>4 DEF Connected
<1>6. CASE Meddle
  BY <1>6, <1>f DEF Meddle, manifests, db, tunnels, faults
<1>7. ASSUME NEW c \in Conn, EnrolTunnel(c) PROVE Connected'
  <2>1. /\ UNCHANGED <<kind, shared, reads, svc, term, ident, policy, tunnel, token>>
        /\ UNCHANGED <<undercut, dropped, remaking, left, work, todo>>
        /\ idvol[c] = 0 /\ token[c] # 0 /\ token[c] = ident[consumer(c)]
        /\ idvol' = [idvol EXCEPT ![c] = token[c]]
    BY <1>7 DEF EnrolTunnel, manifests, db, ghosts, faults
  <2>2. idvol \in [Conn -> Nat]
    BY DEF Data
  <2>3. \A d \in Conn : UNCHANGED <<consumer(d), target(d)>>
    BY <2>1 DEF consumer, target, Owner
  <2>4. \A d \in Conn : Fresh(d)'
    BY <2>1, <2>2, <2>3 DEF Connected, Fresh
  <2>5. \A d \in Conn : Connecting(d) => Connecting(d)'
    BY <2>1, <2>2, <2>3 DEF Connecting, Hosted, Tunneled, Edge
  <2>6. ASSUME NEW d \in Conn, Disconnecting(d) PROVE Disconnecting(d)'
    <3>1. CASE d = c
      <4>1. work[c] = "downing" =>
              todo[c] \notin {Drop2, Drop3, Drop4, Drop5, Drop6, Drop7}
        BY <2>1, <2>6, <3>1 DEF Disconnecting
      <4> QED
        BY <2>1, <2>3, <2>6, <3>1, <4>1 DEF Disconnecting, NoDial
    <3>2. CASE d # c
      <4>1. idvol'[d] = idvol[d]
        BY <2>1, <2>2, <3>2
      <4> QED
        BY <2>1, <2>3, <2>6, <4>1, DisconnectingKept
    <3> QED
      BY <3>1, <3>2
  <2> QED
    BY <2>1, <2>4, <2>5, <2>6 DEF Connected
<1>8. ASSUME NEW e \in Entry, Begin(e) PROVE Connected'
  <2>1. /\ UNCHANGED <<kind, shared, reads, Objects>>
        /\ \A d \in Entry : d # e => work'[d] = work[d] /\ todo'[d] = todo[d]
    BY <1>8 DEF Begin, manifests, world, db, tunnels, ghosts, faults
  <2>2. CASE e = plane
    BY <2>1, <2>2, <1>f
  <2>3. CASE e \in Conn
    <3>1. kind = "provider" => \/ work'[e] = "upping" /\ todo'[e] = Conn1
                               \/ work'[e] = "downing" /\ todo'[e] = Drop1
                               \/ work'[e] = "failed"
      BY <1>8, <2>3, FirstPlans DEF Begin
    <3>l. kind = "provider" => e \notin left'
      BY <1>8, <2>1, <2>3 DEF Begin, Connected, Disconnecting
    <3>2. kind = "provider" => Connecting(e)' /\ Disconnecting(e)'
      BY <3>1, <3>l, ConnDistinct DEF Connecting, Disconnecting
    <3> QED
      BY <2>1, <2>3, <3>2, <1>g DEF Connected
  <2> QED
    BY <2>2, <2>3
<1>9. ASSUME NEW e \in Entry, Done(e) PROVE Connected'
  <2>1. /\ UNCHANGED <<kind, shared, reads, Objects, todo>>
        /\ \A d \in Entry : d # e => work'[d] = work[d]
        /\ \/ work[e] = "upping" /\ work'[e] = "upped"
           \/ work[e] = "downing" /\ work'[e] = "downed"
        /\ todo[e] = End
    BY <1>9 DEF Done, manifests, world, db, tunnels, ghosts, faults, End
  <2>2. CASE e = plane
    BY <2>1, <2>2, <1>f
  <2>3. CASE e \in Conn
    <3>1. \A d \in Conn : UNCHANGED <<consumer(d), target(d)>>
      BY <2>1 DEF consumer, target, Owner
    <3>2. kind = "provider" => Connecting(e)' /\ Disconnecting(e)'
      BY <2>1, <2>3, <3>1, ConnDistinct
         DEF Connected, Connecting, Disconnecting, Hosted, Tunneled, NoDial, Edge
    <3> QED
      BY <2>1, <2>3, <3>2, <1>g DEF Connected
  <2> QED
    BY <2>2, <2>3
<1>10. ASSUME NEW e \in Entry, Stuck(e) \/ Fails(e) PROVE Connected'
  <2>1. /\ UNCHANGED <<kind, shared, reads>> /\ Running(e) /\ (Effect(e) \/ UNCHANGED world)
        /\ \A d \in Entry : d # e => work'[d] = work[d] /\ todo'[d] = todo[d]
        /\ work'[e] = "failed" /\ todo'[e] = End
    BY <1>10 DEF Stuck, Fails, Failed, manifests, End
  <2>2. CASE e = plane
    <3>1. CASE Effect(e)
      BY <2>1, <2>2, <3>1, Whose, ConnsUnderPlane
    <3>2. CASE UNCHANGED world
      BY <2>1, <2>2, <3>2, <1>f DEF world, db, tunnels, ghosts, faults
    <3> QED
      BY <2>1, <3>1, <3>2
  <2>3. CASE e \in Conn
    <3>0. Connecting(e)' /\ Disconnecting(e)'
      BY <2>1 DEF Connecting, Disconnecting
    <3>1. CASE Effect(e)
      <4>1. kind = "provider" /\ ConnEffect(e)
        BY <2>1, <2>3, <3>1, Whose
      <4> QED
        BY <2>1, <2>3, <3>0, <4>1, ConnOthers DEF Connected
    <3>2. CASE UNCHANGED world
      <4>1. UNCHANGED Objects
        BY <3>2 DEF world, db, tunnels, ghosts, faults
      <4> QED
        BY <2>1, <2>3, <3>0, <4>1, <1>g DEF Connected
    <3> QED
      BY <2>1, <3>1, <3>2
  <2> QED
    BY <2>2, <2>3
<1>11. ASSUME NEW e \in Entry, Step(e) PROVE Connected'
  <2>1. /\ UNCHANGED <<kind, shared, reads, work>> /\ Running(e) /\ Able(e) /\ Effect(e)
        /\ \A d \in Entry : d # e => todo'[d] = todo[d]
        /\ todo'[e] = After(e)
    BY <1>11 DEF Step, manifests
  <2>2. CASE e = plane
    BY <2>1, <2>2, Whose, ConnsUnderPlane
  <2>3. CASE e \in Conn
    <3>1. kind = "provider" /\ ConnEffect(e)
      BY <2>1, <2>3, Whose
    <3>2. work[e] \in {"upping", "downing"} /\ Connecting(e) /\ Disconnecting(e)
      BY <2>1, <2>3, <3>1 DEF Running, Busy, Connected
    <3>3. Connecting(e)' /\ Disconnecting(e)'
      BY <2>1, <2>3, <3>1, <3>2, ConnectingStep, DisconnectingStep
    <3> QED
      BY <2>1, <2>3, <3>1, <3>3, ConnOthers DEF Connected
  <2> QED
    BY <2>2, <2>3
<1>12. CASE UNCHANGED vars
  BY <1>12, <1>f DEF vars, manifests, world, db, tunnels, ghosts, faults
<1> QED
  BY <1>1, <1>2, <1>3, <1>4, <1>5, <1>6, <1>7, <1>8, <1>9, <1>10, <1>11, <1>12 DEF Next
-----------------------------------------------------------------------------
\* The invariant of the plane and its Connections: every stage of a reconcile
\* and of a removal has what its earlier steps made or took away, whatever the
\* siblings, the containers, an operator or a crash did in between.
THEOREM OverlayInvariant == Spec => []OverlayInv
<1>1. Init => OverlayInv
  <2> SUFFICES ASSUME Init PROVE OverlayInv
    OBVIOUS
  <2>1. Data
    BY OverlayAssumption DEF Init, Data, Secret
  <2>2. Control
    <3>1. kind \in {"fabric", "provider"} /\ shared \in {"consumer", "target", "nothing"}
      BY OverlayAssumption DEF Init
    <3>2. todo \in [Entry -> Plan] /\ work \in [Entry -> Work]
      BY DEF Init, Work, Plan, ConnUp, End
    <3> QED
      BY <3>1, <3>2, OverlayAssumption DEF Init, Control
  <2>3. Ordered
    BY Entries DEF Init, Ordered
  <2>4. Planned
    BY Entries, PlaneDistinct DEF Init, Planned, End
  <2>5. Credited /\ Planed
    BY Entries, PlaneDistinct DEF Init, Credited, CredentialKept, Planed, End
  <2>6. Connected
    BY Entries DEF Init, Connected, Fresh, Connecting, Disconnecting
  <2> QED
    BY <2>1, <2>2, <2>3, <2>4, <2>5, <2>6 DEF OverlayInv
<1>2. OverlayInv /\ [Next]_vars => OverlayInv'
  BY TypeStep, OrderStep, PlanStep, PlaneStep, ConnStep DEF OverlayInv
<1> QED
  BY <1>1, <1>2, PTL DEF Spec

\* A credential is minted over a database that was made with another only where
\* resolveFabricAdminCredential finds no container to read through, or the read
\* fails: wherever else an apply of the fabric is cut short, between the mint, the
\* bootstrap and the settling, the file on the volume has the database's credential.
THEOREM CredentialSurvives == Spec => []CredentialKept
<1>1. OverlayInv => CredentialKept
  BY DEF OverlayInv, Credited
<1> QED
  BY <1>1, OverlayInvariant, PTL

\* reconcileInstance, EnsureFabric and reconcileConnection report ready only what
\* can carry traffic: with concurrent siblings, failed steps and crashes.
THEOREM ReadyIsMediated == Spec => []ReadyMeansMediated
<1>1. OverlayInv => ReadyMeansMediated
  <2> SUFFICES ASSUME OverlayInv PROVE ReadyMeansMediated
    OBVIOUS
  <2>1. work[plane] = "upped" /\ ~orphaned /\ declared # {} =>
          ctrl = "stable" /\ router = "stable" /\ rrec = "verified" /\ keys /\ erp
    BY DEF OverlayInv, Planed, PlaneGood
  <2>2. ASSUME NEW c \in Conn, kind = "provider", work[c] = "upped", c \notin undercut \cup dropped
        PROVE  /\ target(c) \in svc \cap (term \cup remaking)
               /\ c \in reads => <<consumer(c), target(c)>> \in policy
               /\ idvol[c] # 0 /\ idvol[c] = ident[consumer(c)]
               /\ tunnel[c] = "stable" /\ token[c] = 0
    BY <2>2 DEF OverlayInv, Connected, Connecting, Fresh, Hosted, Edge, Tunneled
  <2> QED
    BY <2>1, <2>2, Zenon DEF ReadyMeansMediated, anyMediatedEdge
<1> QED
  BY <1>1, OverlayInvariant, PTL

\* destroyConnection, where it has a session and finds the Connection and its target
\* in the graph, leaves the consumers which that graph names no way to dial: also
\* while siblings that share the consumer or the target are removed alongside it.
THEOREM RevocationIsComplete == Spec => []RevokedLeavesNoAccess
<1>1. OverlayInv => RevokedLeavesNoAccess
  <2> SUFFICES ASSUME OverlayInv, NEW c \in Conn, kind = "provider", work[c] = "downed", c \notin left
               PROVE  /\ c \in reads => ident[consumer(c)] = 0 /\ \A p \in policy : p[1] # consumer(c)
                      /\ target(c) \notin svc \cup term
    BY DEF RevokedLeavesNoAccess
  <2>1. todo[c] = End
    BY Entries DEF OverlayInv, Planned, Busy
  <2> QED
    BY <2>1 DEF OverlayInv, Connected, Disconnecting, NoDial
<1> QED
  BY <1>1, OverlayInvariant, PTL
=============================================================================
