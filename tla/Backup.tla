------------------------------- MODULE Backup -------------------------------
(***************************************************************************)
(* backup and restore (cmd/platformctl/backup.go, engine/backup.go) of a   *)
(* database (dbbackup over dbjob) and of a Dataset (s3/backup.go).         *)
(*                                                                         *)
(* A database's pipeline is a producer and a consumer that share a FIFO:   *)
(* two containers on Docker, two containers of one Job on Kubernetes.  The *)
(* command only polls them, and learns how a side ended from a file the    *)
(* side's script writes last.  A dump is N chunks; its checksum is         *)
(* abstracted to the number of chunks that were hashed.  A restore streams *)
(* into a scratch database that is renamed over the target at the end.     *)
(***************************************************************************)
EXTENDS Integers

CONSTANTS Key,          \* object keys; each backup writes a new one
          N,            \* chunks of a complete dump, objects of a Dataset
          MaxCommands,  \* bound on the commands of one behaviour
          MaxFaults     \* bound on the calls that fail for no other reason

ASSUME BackupAssumption == /\ N \in Nat \ {0}
                           /\ MaxCommands \in Nat
                           /\ MaxFaults \in Nat

None == -1      \* no object, no sidecar, no database
Orig == N + 1   \* what the target held before the first restore
NoKey == "no key"

Engines == {"postgres", "mysql", "s3"}
Runtimes == {"docker", "kubernetes"}
Sides == {"producer", "consumer"}

VARIABLES
  eng, rt,      \* the provider's type and its runtime
  store,        \* chunks of the object at each key, or None
  sidecar,      \* the checksum in each key's manifest sidecar, or None
  target, scratch, old,   \* contents of the three databases, or None
  cmd, key, pc, \* the command, its object key, and where it is
  side,         \* what the runtime has of each side
  sent, got,    \* chunks that entered and left the FIFO
  seen,         \* what the poll of each side has told
  verdict,      \* how the pipeline ended
  outcome,      \* how the last command ended
  hurt,         \* a removal or drop failed, or a call that failed took effect
  cancelled,    \* the command's context
  faults, commands        \* counters for the bounds

dbs == <<target, scratch, old>>
pipe == <<side, sent, got>>
bounds == <<cancelled, faults, commands>>
vars == <<eng, rt, store, sidecar, target, scratch, old, cmd, key, pc, side, sent, got,
          seen, verdict, outcome, hurt, cancelled, faults, commands>>
-----------------------------------------------------------------------------
Running(s) == side[s] = "running"
Gone == [s \in Sides |-> "absent"]

(* A call with the command's context fails once that is cancelled, and may   *)
(* fail without a reason.                                                    *)
MayFail == \/ cancelled /\ UNCHANGED faults
           \/ ~cancelled /\ faults < MaxFaults /\ faults' = faults + 1
Succeeds == ~cancelled /\ UNCHANGED faults
(* A call with context.WithoutCancel. *)
Detached == UNCHANGED faults
DetachedFails == faults < MaxFaults /\ faults' = faults + 1

(* A one-shot container, or Job, that is awaited under the command's context *)
(* and removed without it: its exit file, or its exit code, is the answer.   *)
runOneShotJob(ok, fails) == (Succeeds /\ ok) \/ (MayFail /\ fails)
RunOneShot(ok, fails) == \/ rt = "kubernetes" /\ runOneShotJob(ok, fails)
                         \/ rt = "docker" /\ Succeeds /\ ok
                         \/ rt = "docker" /\ MayFail /\ fails

Goto(p) == pc' = p /\ UNCHANGED <<eng, rt, cmd, key, verdict, outcome, hurt, cancelled, commands>>
Verdict(v, p) == /\ pc' = p /\ verdict' = v
                 /\ UNCHANGED <<eng, rt, cmd, key, outcome, hurt, cancelled, commands>>
Return(o) == /\ pc' = "idle" /\ outcome' = o
             /\ UNCHANGED <<eng, rt, cmd, key, verdict, hurt, cancelled, commands>>
(* The pipeline fails by a call that did what it was asked all the same.     *)
Unnoticed(p) == /\ pc' = p /\ verdict' = "error" /\ hurt' = TRUE
                /\ UNCHANGED <<eng, rt, cmd, key, outcome, cancelled, commands>>
(* So does the command itself, or a removal on its way out fails. *)
FailHurt == /\ pc' = "idle" /\ outcome' = "failed" /\ hurt' = TRUE
            /\ UNCHANGED <<eng, rt, cmd, key, verdict, cancelled, commands>>
(* The step's error is dropped and the command goes on. *)
Ignored(p) == /\ pc' = p /\ hurt' = TRUE
              /\ UNCHANGED <<eng, rt, cmd, key, verdict, outcome, cancelled, commands>>
-----------------------------------------------------------------------------
(* The commands *)

(* What a command is given and finds, as far as it decides whether it runs.  *)
Inputs == [gate : BOOLEAN, capable : BOOLEAN, url : BOOLEAN, credentials : BOOLEAN,
           applied : BOOLEAN, named : BOOLEAN, consent : BOOLEAN, protect : BOOLEAN]

(* A URL needs a SecretReference with both keys. *)
resolveURLLocation(i) == i.url /\ i.credentials
(* A Dataset's provider has published its address when it was applied. *)
objectStoreEndpointFact(i) == i.applied
resolveDatasetLocation(i) == ~i.url /\ i.credentials /\ objectStoreEndpointFact(i)
ResolveObjectStoreLocation(i) == resolveURLLocation(i) \/ resolveDatasetLocation(i)

(* Engine.Backup, and Engine.Restore, which overwrites only with consent and *)
(* never what is protected.  A database's backup is named by its object.     *)
MayBackup(i) == i.gate /\ ResolveObjectStoreLocation(i) /\ i.capable
MayRestore(i) == /\ MayBackup(i) /\ i.consent /\ ~i.protect
                 /\ eng # "s3" => i.named

(* A container a crash left behind has ended before the next command begins. *)
Begin(c, k) ==
  /\ pc = "idle" /\ commands < MaxCommands /\ \A s \in Sides : ~Running(s)
  /\ cmd' = c /\ key' = k /\ commands' = commands + 1
  /\ outcome' = "none" /\ verdict' = "none" /\ hurt' = FALSE /\ cancelled' = FALSE
  /\ side' = Gone /\ sent' = 0 /\ got' = 0 /\ seen' = [s \in Sides |-> "running"]
  /\ UNCHANGED <<eng, rt, store, sidecar, target, faults>>

(* newBackupCmd: every key carries the time the command was begun. *)
newBackupCmd(k) ==
  /\ store[k] = None /\ sidecar[k] = None
  /\ Begin("backup", k) /\ UNCHANGED <<scratch, old>>
  /\ \E i \in Inputs : pc' = IF ~MayBackup(i) THEN "refused"
                              ELSE IF eng = "s3" THEN "sync" ELSE "ensure"

(* newRestoreCmd names the key of an object, which may not exist. *)
newRestoreCmd(k) ==
  /\ Begin("restore", k) /\ scratch' = None /\ old' = None
  /\ \E i \in Inputs : pc' = IF ~MayRestore(i) THEN "refused"
                              ELSE IF eng = "s3" THEN "sync" ELSE "readManifest"

(* The command ends before it touched anything. *)
Refuse ==
  /\ pc = "refused" /\ Return("failed")
  /\ UNCHANGED <<store, sidecar, faults, seen>> /\ UNCHANGED dbs /\ UNCHANGED pipe
-----------------------------------------------------------------------------
(* s3.syncObjects: one object after the other, no integrity, no cleanup. *)

Synced == got' = got + 1 /\ UNCHANGED <<side, sent>>

syncObjects ==
  /\ pc = "sync" /\ got < IF cmd = "backup" THEN N ELSE store[key]
  /\ Succeeds /\ Goto("sync") /\ Synced
  /\ IF cmd = "backup"
       THEN /\ store' = [store EXCEPT ![key] = got + 1] /\ UNCHANGED target
       ELSE /\ target' = got + 1 /\ UNCHANGED store
  /\ UNCHANGED <<sidecar, scratch, old, seen>>

(* Fault: an object that cannot be copied is skipped. *)
syncSkips ==
  /\ pc = "sync"
  /\ \/ got >= (IF cmd = "backup" THEN N ELSE store[key]) /\ Succeeds
     \/ MayFail
  /\ Return("ok")
  /\ UNCHANGED <<store, sidecar, seen>> /\ UNCHANGED dbs /\ UNCHANGED pipe

syncEnds ==
  /\ pc = "sync"
  /\ \/ /\ got >= IF cmd = "backup" THEN N ELSE store[key]
        /\ Succeeds /\ Return("ok")
     \/ MayFail /\ Return("failed")
  /\ UNCHANGED <<store, sidecar, seen>> /\ UNCHANGED dbs /\ UNCHANGED pipe
-----------------------------------------------------------------------------
(* The scripts of the two sides *)

Dump == IF cmd = "backup" THEN N ELSE IF store[key] = None THEN 0 ELSE store[key]

(* tee into the FIFO, which holds one chunk and needs an open reader. *)
ProducerSends ==
  /\ Running("producer") /\ Running("consumer") /\ sent < Dump /\ sent = got
  /\ sent' = sent + 1
  /\ UNCHANGED <<eng, rt, store, sidecar, cmd, key, pc, side, got, seen, verdict, outcome, hurt>>
  /\ UNCHANGED dbs /\ UNCHANGED bounds

(* The exit code of the command, not of tee, is what the script records last.*)
ProducerEnds ==
  /\ Running("producer")
  /\ \/ sent = Dump /\ ~(cmd = "restore" /\ store[key] = None)
        /\ side' = [side EXCEPT !["producer"] = "zero"]
     \/ side' = [side EXCEPT !["producer"] = "nonzero"]
  /\ UNCHANGED <<eng, rt, store, sidecar, cmd, key, pc, sent, got, seen, verdict, outcome, hurt>>
  /\ UNCHANGED dbs /\ UNCHANGED bounds

(* mc pipe buffers; psql and mysql execute what they read. *)
ConsumerReads ==
  /\ Running("consumer") /\ got < sent
  /\ got' = got + 1
  /\ scratch' = IF cmd = "restore" /\ scratch # None THEN got + 1 ELSE scratch
  /\ UNCHANGED <<eng, rt, store, sidecar, target, old, cmd, key, pc, side, sent, seen, verdict,
                 outcome, hurt>>
  /\ UNCHANGED bounds

(* The end of the stream, however the producer ended: an upload completes    *)
(* with what it was given.                                                   *)
ConsumerEnds ==
  /\ Running("consumer")
  /\ \/ /\ ~Running("producer") /\ got = sent
        /\ side' = [side EXCEPT !["consumer"] = "zero"]
        /\ store' = IF cmd = "backup" THEN [store EXCEPT ![key] = got] ELSE store
     \/ side' = [side EXCEPT !["consumer"] = "nonzero"] /\ UNCHANGED store
  /\ UNCHANGED <<eng, rt, sidecar, cmd, key, pc, sent, got, seen, verdict, outcome, hurt>>
  /\ UNCHANGED dbs /\ UNCHANGED bounds

(* A container is killed before its script could record anything. *)
Killed(s) ==
  /\ Running(s) /\ side' = [side EXCEPT ![s] = "killed"]
  /\ UNCHANGED <<eng, rt, store, sidecar, cmd, key, pc, sent, got, seen, verdict, outcome, hurt>>
  /\ UNCHANGED dbs /\ UNCHANGED bounds
-----------------------------------------------------------------------------
(* dbjob.RunPipeline on Docker *)

Unchanged == UNCHANGED <<store, sidecar, seen>> /\ UNCHANGED dbs

(* EnsureContainer of one side; an error may come before or after the start. *)
ensureSide(s, at, next) ==
  /\ rt = "docker" /\ pc = at
  /\ \/ side' = [side EXCEPT ![s] = "running"] /\ Succeeds /\ Goto(next)
     \/ side' = side /\ MayFail /\ Verdict("error", "deferred")
     \/ side' = [side EXCEPT ![s] = "running"] /\ MayFail /\ Unnoticed("deferred")
  /\ UNCHANGED <<sent, got>> /\ Unchanged

ensureProducer == ensureSide("producer", "ensure", "ensureConsumer")
ensureConsumer == ensureSide("consumer", "ensureConsumer", "poll")

(* pollSide: what one inspection and the exit file tell; done stays done.    *)
pollSide(s) ==
  CASE seen[s] = "zero" -> "zero"
    [] Running(s) -> "running"
    [] side[s] \in {"zero", "nonzero"} -> side[s]
    [] OTHER -> "error"

pollProducer ==
  /\ rt = "docker" /\ pc = "poll"
  /\ \/ Succeeds /\ seen' = [seen EXCEPT !["producer"] = pollSide("producer")]
     \/ MayFail /\ seen' = [seen EXCEPT !["producer"] = "error"]
  /\ Goto("pollConsumer")
  /\ UNCHANGED <<store, sidecar>> /\ UNCHANGED dbs /\ UNCHANGED pipe

pollConsumer ==
  /\ rt = "docker" /\ pc = "pollConsumer"
  /\ \/ Succeeds /\ seen' = [seen EXCEPT !["consumer"] = pollSide("consumer")]
     \/ MayFail /\ seen' = [seen EXCEPT !["consumer"] = "error"]
  /\ Goto("judge")
  /\ UNCHANGED <<store, sidecar>> /\ UNCHANGED dbs /\ UNCHANGED pipe

(* waitPipeline: the first bad news of either side ends the wait; so do a    *)
(* side's own deadline and the context.  readResult may fail as well.        *)
waitPipeline ==
  /\ rt = "docker" /\ pc = "judge"
  /\ \/ /\ \A s \in Sides : seen[s] = "zero"
        /\ \/ Succeeds /\ Verdict("ok", "deferred")
           \/ MayFail /\ Verdict("error", "removeProducer")
     \/ /\ \E s \in Sides : seen[s] \in {"nonzero", "error"}
        /\ Verdict("error", "removeProducer") /\ UNCHANGED faults
     \/ /\ \A s \in Sides : seen[s] \in {"running", "zero"}
        /\ \E s \in Sides : seen[s] = "running"
        /\ \/ Goto("poll") /\ UNCHANGED faults
           \/ Verdict("error", "removeProducer") /\ UNCHANGED faults
  /\ UNCHANGED pipe /\ Unchanged

(* Both sides are removed before the cleanup, so that neither can write after*)
(* it.  A failed removal is ignored.                                         *)
removeSide(s, at, next) ==
  /\ rt = "docker" /\ pc = at
  /\ \/ side' = [side EXCEPT ![s] = "absent"] /\ Detached /\ Goto(next)
     \/ side' = side /\ DetachedFails /\ Ignored(next)
  /\ UNCHANGED <<sent, got>> /\ Unchanged

(* Fault: only the producer is removed before the cleanup. *)
removeConsumerLater ==
  /\ rt = "docker" /\ pc = "removeConsumer" /\ UNCHANGED faults
  /\ Goto(IF cmd = "backup" THEN "cleanup" ELSE "deferred")
  /\ UNCHANGED pipe /\ Unchanged

removeProducer == removeSide("producer", "removeProducer", "removeConsumer")
removeConsumer == removeSide("consumer", "removeConsumer",
                             IF cmd = "backup" THEN "cleanup" ELSE "deferred")

(* The deferred removals; every return of RunPipeline passes them. *)
deferred ==
  /\ rt = "docker" /\ pc = "deferred"
  /\ \/ side' = Gone /\ Detached /\ Goto("piped")
     \/ side' = side /\ DetachedFails /\ Ignored("piped")
  /\ UNCHANGED <<sent, got>> /\ Unchanged
-----------------------------------------------------------------------------
(* dbjob.runJobPipeline on Kubernetes *)

(* buildJob: both sides are containers of the Job's only pod; a third one    *)
(* keeps the pod alive so that their files can be read.                      *)
buildJob == [s \in Sides |-> "running"]

(* EnsureJob: an error after the creation leaves the Job where it is. *)
ensureJob ==
  /\ rt = "kubernetes" /\ pc = "ensure"
  /\ \/ side' = buildJob /\ Succeeds /\ Goto("poll")
     \/ side' = Gone /\ MayFail /\ Verdict("error", "piped")
     \/ side' = buildJob /\ MayFail /\ Unnoticed("piped")
  /\ UNCHANGED <<sent, got>> /\ Unchanged

(* InspectJob: a script's failure does not show in its container's exit code.*)
Terminated(s) == side[s] \in {"zero", "nonzero", "killed"}
ExitCode(s) == IF side[s] = "killed" THEN 137 ELSE 0

(* Fault: the exit codes of the containers decide. *)
jobVerdictFromContainers ==
  IF \A s \in Sides : ExitCode(s) = 0 THEN "ok" ELSE "error"

(* checkJobSideExits: the sentinel files decide once both have terminated.   *)
checkJobSideExits ==
  IF \A s \in Sides : side[s] = "zero" THEN "ok" ELSE "error"

(* waitJobPipeline: a container that was killed is seen at once; deadlines   *)
(* and the context as on Docker.                                             *)
waitJobPipeline ==
  /\ rt = "kubernetes" /\ pc = "poll"
  /\ \/ /\ \E s \in Sides : Terminated(s) /\ ExitCode(s) # 0
        /\ Verdict("error", "removeJob") /\ UNCHANGED faults
     \/ /\ \A s \in Sides : Terminated(s) /\ ExitCode(s) = 0
        /\ Succeeds /\ Verdict(checkJobSideExits, "removeJob")
     \/ MayFail /\ Verdict("error", "removeJob")
     \/ /\ \E s \in Sides : ~Terminated(s)
        /\ Verdict("error", "removeJob") /\ UNCHANGED faults
  /\ UNCHANGED pipe /\ Unchanged

(* RemoveJob waits until the pod is gone; its error is ignored. *)
removeJob ==
  /\ rt = "kubernetes" /\ pc = "removeJob"
  /\ LET next == IF verdict = "error" /\ cmd = "backup" THEN "cleanup" ELSE "piped"
     IN \/ side' = Gone /\ Detached /\ Goto(next)
        \/ side' = side /\ DetachedFails /\ Ignored(next)
  /\ UNCHANGED <<sent, got>> /\ Unchanged
-----------------------------------------------------------------------------
(* dbbackup.Backup *)

(* The one-shot mc rm --force runs under the command's context. *)
cleanup ==
  /\ pc = "cleanup"
  /\ LET next == IF rt = "docker" THEN "deferred" ELSE "piped"
     IN RunOneShot(store' = [store EXCEPT ![key] = None] /\ Goto(next),
                   store' = store /\ Ignored(next))
  /\ UNCHANGED <<sidecar, seen>> /\ UNCHANGED dbs /\ UNCHANGED pipe

BackupPiped ==
  /\ pc = "piped" /\ cmd = "backup" /\ UNCHANGED faults
  /\ IF verdict = "ok" THEN Goto("persist") ELSE Return("failed")
  /\ UNCHANGED pipe /\ Unchanged

(* The sidecar holds the checksum of what the producer's tee was given.  The *)
(* write may take effect although its answer is lost.                        *)
PersistManifest ==
  /\ pc = "persist"
  /\ LET written == [sidecar EXCEPT ![key] = sent]
     IN RunOneShot(sidecar' = written /\ Return("ok"),
                   sidecar' \in {sidecar, written} /\ Return("failed"))
  /\ UNCHANGED <<store, seen>> /\ UNCHANGED dbs /\ UNCHANGED pipe
-----------------------------------------------------------------------------
(* dbbackup.Restore *)

ReadManifest ==
  /\ pc = "readManifest"
  /\ RunOneShot(IF sidecar[key] # None THEN Goto("headroom") ELSE Return("failed"),
                Return("failed"))
  /\ UNCHANGED pipe /\ Unchanged

(* Twice the dump must fit on the instance's volume. *)
CheckDiskHeadroom ==
  /\ pc = "headroom"
  /\ RunOneShot(Goto("createScratch") \/ Return("failed"), Return("failed"))
  /\ UNCHANGED pipe /\ Unchanged

(* A create that fails returns without a drop, whether or not the server had *)
(* created the database.                                                     *)
EnsureDatabase ==
  /\ pc = "createScratch"
  /\ \/ scratch' = 0 /\ Succeeds /\ Goto("ensure")
     \/ UNCHANGED scratch /\ MayFail /\ Return("failed")
     \/ scratch' = 0 /\ MayFail /\ FailHurt
  /\ UNCHANGED <<store, sidecar, target, old, seen>> /\ UNCHANGED pipe

RestorePiped ==
  /\ pc = "piped" /\ cmd = "restore" /\ UNCHANGED faults
  /\ Goto(IF verdict = "ok" THEN "verify" ELSE "dropScratch")
  /\ UNCHANGED pipe /\ Unchanged

VerifyIntegrity ==
  /\ pc = "verify" /\ UNCHANGED faults
  /\ Goto(IF sent = sidecar[key]
            THEN IF eng = "mysql" THEN "ensureOld" ELSE "promote"
            ELSE "dropScratch")
  /\ UNCHANGED pipe /\ Unchanged

(* mysql renames tables between schemas, so the old schema must exist. *)
ensureOld ==
  /\ pc = "ensureOld"
  /\ \/ old' = 0 /\ Succeeds /\ Goto("promote")
     \/ UNCHANGED old /\ MayFail /\ Goto("dropScratch")
     \/ old' = 0 /\ MayFail /\ Ignored("dropScratch")
  /\ UNCHANGED <<store, sidecar, target, scratch, seen>> /\ UNCHANGED pipe

(* The rename that makes the scratch the target commits, and the answer      *)
(* arrives or is lost; or it does not commit.                                *)
Promotion(emptied) ==
  /\ \/ MayFail /\ Goto("dropScratch") /\ UNCHANGED <<target, old, scratch>>
     \/ /\ target' = scratch /\ old' = target /\ scratch' = emptied
        /\ \/ Succeeds /\ Goto("dropOld")
           \/ MayFail /\ Ignored("dropScratch")
  /\ UNCHANGED <<store, sidecar, seen>> /\ UNCHANGED pipe

(* postgres.promoteDatabase: both databases are renamed in one transaction. *)
postgresPromote == pc = "promote" /\ eng = "postgres" /\ Promotion(None)

(* Fault: the target's tables and the scratch's are moved by two statements. *)
mysqlPromoteInTwoSteps ==
  /\ pc = "promote" /\ eng = "mysql"
  /\ \/ /\ target' = 0 /\ old' = target /\ UNCHANGED scratch
        /\ MayFail /\ Goto("dropScratch")
        /\ UNCHANGED <<store, sidecar, seen>> /\ UNCHANGED pipe
     \/ Promotion(0)

(* mysql.promoteDatabase: all tables in one RENAME TABLE.  It refuses an     *)
(* empty scratch, which cannot have the checksum of a dump with tables.      *)
mysqlPromote == pc = "promote" /\ eng = "mysql" /\ Promotion(0)

(* After the promotion the drops only warn. *)
dropOld ==
  /\ pc = "dropOld"
  /\ LET next == IF eng = "mysql" THEN "dropEmptied" ELSE "restored"
     IN \/ old' = None /\ Succeeds /\ Goto(next)
        \/ UNCHANGED old /\ MayFail /\ Ignored(next)
  /\ UNCHANGED <<store, sidecar, target, scratch, seen>> /\ UNCHANGED pipe

dropEmptied ==
  /\ pc = "dropEmptied"
  /\ \/ scratch' = None /\ Succeeds /\ Goto("restored")
     \/ UNCHANGED scratch /\ MayFail /\ Ignored("restored")
  /\ UNCHANGED <<store, sidecar, target, old, seen>> /\ UNCHANGED pipe

Restored ==
  /\ pc = "restored" /\ Return("ok") /\ UNCHANGED faults
  /\ UNCHANGED pipe /\ Unchanged

(* The error path, under the command's context; mysql also drops the schema  *)
(* the target's tables were to move to.                                      *)
dropScratch ==
  /\ pc = "dropScratch"
  /\ \/ scratch' = None /\ Succeeds /\ Goto("dropAside")
     \/ UNCHANGED scratch /\ MayFail /\ Ignored("dropAside")
  /\ UNCHANGED <<store, sidecar, target, old, seen>> /\ UNCHANGED pipe

dropAside ==
  /\ pc = "dropAside"
  /\ \/ /\ eng = "mysql" /\ old # None
        /\ \/ old' = None /\ Succeeds /\ Return("failed")
           \/ UNCHANGED old /\ MayFail /\ FailHurt
     \/ /\ ~(eng = "mysql" /\ old # None) /\ UNCHANGED <<old, faults>> /\ Return("failed")
  /\ UNCHANGED <<store, sidecar, target, scratch, seen>> /\ UNCHANGED pipe
-----------------------------------------------------------------------------
(* The environment *)

Cancel ==
  /\ pc # "idle" /\ ~cancelled /\ cancelled' = TRUE
  /\ UNCHANGED <<eng, rt, store, sidecar, cmd, key, pc, seen, verdict, outcome, hurt, faults,
                 commands>>
  /\ UNCHANGED dbs /\ UNCHANGED pipe

(* The process dies; its containers go on. *)
Crash ==
  /\ pc # "idle" /\ faults < MaxFaults /\ faults' = faults + 1
  /\ pc' = "idle" /\ outcome' = "died"
  /\ UNCHANGED <<eng, rt, store, sidecar, cmd, key, seen, verdict, hurt, cancelled, commands>>
  /\ UNCHANGED dbs /\ UNCHANGED pipe

(* An object is truncated in the store, between two commands. *)
Truncate(k) ==
  /\ pc = "idle" /\ store[k] > 0 /\ faults < MaxFaults /\ faults' = faults + 1
  /\ store' = [store EXCEPT ![k] = @ - 1] /\ outcome' = "none"
  /\ UNCHANGED <<eng, rt, sidecar, cmd, key, pc, seen, verdict, hurt, cancelled, commands>>
  /\ UNCHANGED dbs /\ UNCHANGED pipe

Init ==
  /\ eng \in Engines /\ rt \in Runtimes
  /\ store = [k \in Key |-> None] /\ sidecar = [k \in Key |-> None]
  /\ target = Orig /\ scratch = None /\ old = None
  /\ cmd = "none" /\ key = NoKey /\ pc = "idle"
  /\ side = Gone /\ sent = 0 /\ got = 0 /\ seen = [s \in Sides |-> "running"]
  /\ verdict = "none" /\ outcome = "none" /\ hurt = FALSE
  /\ cancelled = FALSE /\ faults = 0 /\ commands = 0

Side == \/ ProducerSends \/ ProducerEnds \/ ConsumerReads \/ ConsumerEnds
        \/ \E s \in Sides : Killed(s)

Pipeline == \/ ensureProducer \/ ensureConsumer \/ pollProducer \/ pollConsumer
            \/ waitPipeline \/ removeProducer \/ removeConsumer \/ deferred
            \/ ensureJob \/ waitJobPipeline \/ removeJob \/ cleanup

Next == \/ \E k \in Key : newBackupCmd(k) \/ newRestoreCmd(k) \/ Truncate(k)
        \/ Refuse \/ syncObjects \/ syncEnds
        \/ Side \/ Pipeline
        \/ BackupPiped \/ PersistManifest
        \/ ReadManifest \/ CheckDiskHeadroom \/ EnsureDatabase \/ RestorePiped
        \/ VerifyIntegrity \/ ensureOld \/ postgresPromote \/ mysqlPromote \/ dropOld \/ dropEmptied
        \/ Restored \/ dropScratch \/ dropAside
        \/ Cancel \/ Crash

Spec == Init /\ [][Next]_vars
-----------------------------------------------------------------------------
(* A manifest sidecar certifies a whole dump: whatever was killed, cancelled *)
(* or lost, no sidecar is ever written for a stream that was cut.            *)
SidecarMeansWhole == \A k \in Key : sidecar[k] \in {None, N}

(* Whatever happens to a restore, and to the object it reads, the database   *)
(* holds what it held or a whole dump: never a part of one, never nothing.   *)
(* dbjob.VerifyIntegrity says otherwise of a checksum mismatch: its comment  *)
(* and its error (dbjob.go:725-738) call the target untrustworthy, not rolled*)
(* back.  They are older than the scratch database: dbbackup.Restore streams *)
(* into that one and drops it, and the target is never written before the    *)
(* promotion.                                                                *)
TargetWhole == eng # "s3" => target \in {Orig, N}

(* A command that reports success did all of it: the backup's object is the  *)
(* whole dump with its sidecar, the restored target the whole backup.        *)
SuccessIsWhole ==
  outcome = "ok" =>
    /\ cmd = "backup" => store[key] = N /\ (eng # "s3" => sidecar[key] = N)
    /\ cmd = "restore" => /\ eng # "s3" => target = N
                          /\ eng = "s3" /\ store[key] > 0 => target = store[key]

(* A failure that is reported leaves nothing behind, as long as no cleanup   *)
(* failed itself and no failed call took effect: no partial object, no       *)
(* scratch database, no running side.                                        *)
FailureLeavesNothing ==
  outcome = "failed" /\ ~hurt /\ eng # "s3" =>
    /\ \A s \in Sides : ~Running(s)
    /\ cmd = "backup" => store[key] \in {None, N}
    /\ cmd = "restore" => scratch = None /\ old = None
=============================================================================
