--------------------------- MODULE Rotation ---------------------------
(***************************************************************************)
(* The administrator's password of a managed database (postgres, mysql):   *)
(* the provider's instance reconcile around providerkit's credential       *)
(* rotation, the exporter's password beside it, and the provider's         *)
(* destroy.  platformctl keeps no old secret: what the running container   *)
(* was created with is the only copy.  The database keeps its passwords in *)
(* the data volume, which outlives the container.  The calls of one        *)
(* reconcile are steps, and it may be interrupted between any two.         *)
(***************************************************************************)
EXTENDS Naturals

CONSTANTS Accounts,    \* the administrator's accounts, one per client host
          Remote,      \* the account a connection over the network uses
          MaxSecret,   \* passwords are 1..MaxSecret
          OutOfBand    \* somebody may remove containers behind platformctl's back

ASSUME RotationAssumption == /\ Remote \in Accounts
                             /\ MaxSecret \in Nat \ {0}
                             /\ OutOfBand \in BOOLEAN

VARIABLES want,      \* what the SecretReference resolves to
          boot,      \* the password file of the container, 0 without a container
          acct,      \* the password of each account in the volume, 0 when empty
          role,      \* the password of the monitoring role in the volume
          exporter,  \* the password file of the exporter, 0 without one
          pc, des, old, mon, metrics, todo,   \* the reconcile's locals
          done,      \* how the last operation ended
          cut,       \* something was interrupted or removed since the volume was made
          misread    \* a read that failed was taken for the absence of a container

local == <<pc, des, old, mon, metrics, todo>>
vars == <<want, boot, acct, role, exporter, pc, des, old, mon, metrics, todo, done, cut,
          misread>>
-----------------------------------------------------------------------------
Secret == 1..MaxSecret
Maybe == 0..MaxSecret

Empty == \A a \in Accounts : acct[a] = 0

\* The image's entrypoint initialises an empty volume with the file's password.
Started(p) == acct' = IF Empty THEN [a \in Accounts |-> p] ELSE acct

Authenticates(p) == acct[Remote] = p

Goto(l) == pc' = l /\ UNCHANGED <<des, old, mon, metrics, todo, done, cut, misread>>

End(result) == /\ pc' = "idle" /\ done' = result /\ todo' = {}
               /\ UNCHANGED <<des, old, mon, metrics, cut, misread>>

\* The operator gives the secret another value.
ChangeSecret == /\ want' \in Secret \ {want}
                /\ UNCHANGED <<boot, acct, role, exporter, done, cut, misread>> /\ UNCHANGED local

\* resolveRequest has resolved the secret when Reconcile is called.
Reconcile(m) == /\ pc = "idle" /\ pc' = "live"
                /\ des' = want /\ old' = 0 /\ mon' = 0 /\ metrics' = m /\ todo' = {}
                /\ done' = "none"
                /\ UNCHANGED <<want, boot, acct, role, exporter, cut, misread>>

\* Fault: liveSuperuser when it reads the container that replaced the old one.
liveSuperuserTooLate == /\ pc = "live" /\ pc' = "ensure"
                        /\ old' = IF boot = 0 THEN 0 ELSE des
                        /\ UNCHANGED <<want, boot, acct, role, exporter>>
                        /\ UNCHANGED <<des, mon, metrics, todo, done, cut, misread>>

\* The password the container was created with is read before it is replaced.  An
\* error of the read is not told from the absence of a container.
liveSuperuser == /\ pc = "live" /\ pc' = "ensure"
                 /\ \/ old' = boot /\ UNCHANGED misread
                    \/ boot # 0 /\ old' = 0 /\ misread' = TRUE
                 /\ UNCHANGED <<want, boot, acct, role, exporter>>
                 /\ UNCHANGED <<des, mon, metrics, todo, done, cut>>

\* EnsureInstance: the file's content is in the spec hash, so another password is
\* another container on the same volume.
EnsureRemove == /\ pc = "ensure" /\ boot \notin {0, des} /\ boot' = 0
                /\ Goto("ensure") /\ UNCHANGED <<want, acct, role, exporter>>

EnsureStart == /\ pc = "ensure" /\ boot \in {0, des} /\ boot' = des /\ Started(des)
               /\ Goto("run") /\ UNCHANGED <<want, role, exporter>>

NoPreviousOrUnchanged == old = 0 \/ old = des

\* The administrator can log in; the sidecar comes next, if there is one.
Verified == IF metrics THEN Goto("monitor") ELSE End("ok")

\* Fault: Run when the absence of a previous password counts as success.
RunTrusting == /\ pc = "run"
               /\ \/ (Authenticates(des) \/ NoPreviousOrUnchanged) /\ Verified
                  \/ /\ ~Authenticates(des) /\ ~NoPreviousOrUnchanged
                     /\ pc' = "rotate" /\ todo' = Accounts
                     /\ UNCHANGED <<des, old, mon, metrics, done, cut, misread>>
               /\ UNCHANGED <<want, boot, acct, role, exporter>>

\* CredentialRotation.Run: the desired password, else the previous, else give up.
Run == /\ pc = "run"
       /\ \/ Authenticates(des) /\ Verified
          \/ ~Authenticates(des) /\ NoPreviousOrUnchanged /\ End("unreachable")
          \/ /\ ~Authenticates(des) /\ ~NoPreviousOrUnchanged /\ ~Authenticates(old)
             /\ End("exhausted")
          \/ /\ ~Authenticates(des) /\ ~NoPreviousOrUnchanged /\ Authenticates(old)
             /\ pc' = "rotate" /\ todo' = Accounts
             /\ UNCHANGED <<des, old, mon, metrics, done, cut, misread>>
       /\ UNCHANGED <<want, boot, acct, role, exporter>>

\* One ALTER per account, in the order the server lists them.
Rotate(a) == /\ pc = "rotate" /\ a \in todo
             /\ acct' = [acct EXCEPT ![a] = des] /\ todo' = todo \ {a}
             /\ UNCHANGED <<want, boot, role, exporter>>
             /\ UNCHANGED <<pc, des, old, mon, metrics, done, cut, misread>>

VerifyRotated == /\ pc = "rotate" /\ todo = {}
                 /\ \/ Authenticates(des) /\ Verified
                    \/ ~Authenticates(des) /\ End("unreachable")
                 /\ UNCHANGED <<want, boot, acct, role, exporter>>

\* Fault: liveMonitorPassword with a new password on every reconcile.
freshMonitorPassword ==
    /\ pc = "monitor" /\ pc' = "role" /\ mon' \in Secret
    /\ UNCHANGED <<want, boot, acct, role, exporter>>
    /\ UNCHANGED <<des, old, metrics, todo, done, cut, misread>>

\* The exporter's password is the one it runs with, or a new random one if it
\* cannot be read; the role gets it first, then the container.
liveMonitorPassword ==
    /\ pc = "monitor" /\ pc' = "role"
    /\ \/ exporter # 0 /\ mon' = exporter /\ UNCHANGED misread
       \/ exporter = 0 /\ mon' \in Secret /\ UNCHANGED misread
       \/ exporter # 0 /\ mon' \in Secret /\ misread' = TRUE
    /\ UNCHANGED <<want, boot, acct, role, exporter>>
    /\ UNCHANGED <<des, old, metrics, todo, done, cut>>

ensureMonitoringUser ==
    /\ pc = "role"
    /\ \/ Authenticates(des) /\ role' = mon /\ Goto("exporter")
       \/ ~Authenticates(des) /\ End("error") /\ UNCHANGED role
    /\ UNCHANGED <<want, boot, acct, exporter>>

\* The exporter's file is in its spec hash too.
ExporterRemove == /\ pc = "exporter" /\ exporter \notin {0, mon} /\ exporter' = 0
                  /\ Goto("exporter") /\ UNCHANGED <<want, boot, acct, role>>

ensureExporter == /\ pc = "exporter" /\ exporter \in {0, mon} /\ exporter' = mon
                  /\ End("ok") /\ UNCHANGED <<want, boot, acct, role>>

\* Destroy: the exporter, the container and last the volume.
Destroy == /\ pc = "idle" /\ pc' = "destroy" /\ done' = "none"
           /\ UNCHANGED <<want, boot, acct, role, exporter>>
           /\ UNCHANGED <<des, old, mon, metrics, todo, cut, misread>>

DestroyExporter == /\ pc = "destroy" /\ exporter' = 0 /\ Goto("destroyInstance")
                   /\ UNCHANGED <<want, boot, acct, role>>

DestroyInstance == /\ pc = "destroyInstance" /\ boot' = 0 /\ Goto("destroyVolume")
                   /\ UNCHANGED <<want, acct, role, exporter>>

DestroyVolume == /\ pc = "destroyVolume" /\ pc' = "idle" /\ done' = "gone"
                 /\ acct' = [a \in Accounts |-> 0] /\ role' = 0
                 /\ cut' = FALSE /\ misread' = FALSE
                 /\ UNCHANGED <<want, boot, exporter, des, old, mon, metrics, todo>>

\* A call fails, a wait times out, or the process is stopped.
Interrupt == /\ pc # "idle" /\ pc' = "idle" /\ done' = "cut" /\ cut' = TRUE /\ todo' = {}
             /\ UNCHANGED <<want, boot, acct, role, exporter, des, old, mon, metrics, misread>>

\* Containers are removed behind platformctl's back, between two commands.
Vanish == /\ OutOfBand /\ pc = "idle"
          /\ \/ boot # 0 /\ boot' = 0 /\ UNCHANGED exporter
             \/ exporter # 0 /\ exporter' = 0 /\ UNCHANGED boot
          /\ cut' = TRUE /\ done' = "none"
          /\ UNCHANGED <<want, acct, role, misread>> /\ UNCHANGED local

Init == /\ want = 1 /\ boot = 0 /\ acct = [a \in Accounts |-> 0] /\ role = 0 /\ exporter = 0
        /\ pc = "idle" /\ des = 1 /\ old = 0 /\ mon = 0 /\ metrics = FALSE /\ todo = {}
        /\ done = "none" /\ cut = FALSE /\ misread = FALSE

Next == \/ \E m \in BOOLEAN : Reconcile(m)
        \/ \E a \in Accounts : Rotate(a)
        \/ ChangeSecret \/ liveSuperuser \/ EnsureRemove \/ EnsureStart \/ Run
        \/ VerifyRotated \/ liveMonitorPassword \/ ensureMonitoringUser \/ ExporterRemove
        \/ ensureExporter \/ Destroy \/ DestroyExporter \/ DestroyInstance \/ DestroyVolume
        \/ Interrupt \/ Vanish

Spec == Init /\ [][Next]_vars
-----------------------------------------------------------------------------
Destroying == {"destroy", "destroyInstance", "destroyVolume"}

\* The types of the passwords and of the reconcile's locals.
TypeOK == /\ want \in Secret /\ boot \in Maybe
          /\ acct \in [Accounts -> Maybe]
          /\ role \in Maybe /\ exporter \in Maybe
          /\ pc \in {"idle", "live", "ensure", "run", "rotate", "monitor", "role",
                     "exporter"} \cup Destroying
          /\ des \in Secret /\ old \in Maybe /\ mon \in Maybe
          /\ metrics \in BOOLEAN /\ todo \subseteq Accounts
          /\ done \in {"none", "ok", "unreachable", "exhausted", "error", "gone", "cut"}
          /\ cut \in BOOLEAN /\ misread \in BOOLEAN

\* Ready means what it says: an instance reported Ready accepts the password that
\* was asked for over the network and was created with it, and its exporter runs
\* with the monitoring role's password, whatever was interrupted before.
ReadyAuthenticates ==
    done = "ok" => /\ Authenticates(des) /\ boot = des
                   /\ metrics => exporter = role /\ role # 0

\* Where the administrator's password can be found when nothing was interrupted or
\* misread:
\* every account has the password of the container's file or, while a container
\* is being replaced, the one the reconcile read from its predecessor.
PasswordKept ==
    ~cut /\ ~misread /\ ~Empty /\ pc \notin Destroying =>
       \A a \in Accounts :
          /\ pc \in {"ensure", "run"} => acct[a] = IF old = 0 THEN boot ELSE old
          /\ pc = "rotate" => acct[a] = IF a \in todo THEN old ELSE des
          /\ pc \notin {"ensure", "run", "rotate"} => acct[a] = boot

\* Changing the secret, at any time and any number of times, never locks the
\* administrator out: a reconcile gives up for lack of a password only when an
\* earlier operation was interrupted, a container removed behind its back or the
\* old password's read failed.
GivesUpOnlyIfCut == done \in {"unreachable", "exhausted"} => cut \/ misread

\* As long as its file could be read, the exporter that runs has the monitoring
\* role's password, so unlike the administrator's it survives an interruption
\* anywhere: the role is changed only while no exporter runs.
ExporterKept == exporter # 0 /\ ~misread => exporter = role

\* What is true at each point of a reconcile, interrupted before or not.
Progress ==
    /\ boot # 0 => ~Empty
    /\ pc = "ensure" => (boot \in {0, old} \/ misread) /\ (old # 0 => ~Empty)
    /\ pc \in {"run", "rotate", "monitor", "role", "exporter"} => boot = des /\ ~Empty
    /\ pc \in {"monitor", "role", "exporter"} => Authenticates(des) /\ metrics
    /\ pc \in {"role", "exporter"} => mon # 0 /\ (exporter # 0 /\ ~misread => exporter = mon)
    /\ pc = "exporter" => role = mon
    /\ pc \in {"destroyInstance", "destroyVolume"} => exporter = 0
    /\ pc = "destroyVolume" => boot = 0
    /\ done = "ok" => pc = "idle"
    /\ done \in {"unreachable", "exhausted"} => pc = "idle"

\* The inductive invariant.
IInv == /\ TypeOK /\ Progress /\ PasswordKept /\ ReadyAuthenticates
        /\ GivesUpOnlyIfCut /\ ExporterKept
=============================================================================
