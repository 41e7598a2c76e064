---------------------------- MODULE BackupProofs ----------------------------
(***************************************************************************)
(* What backup and restore promise, for any dump, any set of keys and any  *)
(* number of commands and faults: the four invariants of Backup.           *)
(*                                                                         *)
(* None of them is inductive.  They hold because of what a command may     *)
(* conclude at each of its steps from what the two sides left behind, so   *)
(* the invariant has a part for every kind of such a conclusion.           *)
(***************************************************************************)
EXTENDS Backup, TLAPS

(* Where a command is before it starts a side, while it waits for both, and  *)
(* as long as a restore's scratch database is the copy of the stream.        *)
Fresh == {"refused", "readManifest", "headroom", "createScratch", "ensure"}
Waiting == {"poll", "pollConsumer", "judge"}
Streaming == {"ensure", "ensureConsumer", "removeProducer", "removeConsumer", "removeJob",
              "deferred", "piped", "verify", "ensureOld", "promote"} \cup Waiting

(* Where it may be once the pipeline failed, and succeeded. *)
Failing == {"removeProducer", "removeConsumer", "cleanup"}
Passed == {"persist", "verify", "ensureOld", "promote", "dropOld", "dropEmptied", "restored"}

BackupSteps == {"persist", "cleanup"}
RestoreSteps == {"readManifest", "headroom", "createScratch", "verify", "ensureOld", "promote",
                 "dropOld", "dropEmptied", "restored", "dropScratch", "dropAside"}

Steps == {"idle", "sync"} \cup Fresh \cup Streaming \cup Failing \cup Passed \cup RestoreSteps

Types ==
  /\ eng \in Engines /\ rt \in Runtimes
  /\ store \in [Key -> None..N] /\ sidecar \in [Key -> None..N]
  /\ target \in 0..Orig /\ scratch \in None..N /\ old \in None..Orig
  /\ cmd \in {"none", "backup", "restore"} /\ pc \in Steps
  /\ side \in [Sides -> {"absent", "running", "zero", "nonzero", "killed"}]
  /\ sent \in 0..N /\ got \in 0..N
  /\ seen \in [Sides -> {"running", "zero", "nonzero", "error"}]
  /\ verdict \in {"none", "ok", "error"} /\ outcome \in {"none", "ok", "failed", "died"}
  /\ faults \in Nat /\ commands \in Nat

(* The two Boolean variables, apart because no other part is needed to keep  *)
(* their type.                                                               *)
Flags == hurt \in BOOLEAN /\ cancelled \in BOOLEAN

(* What the command's step says about the command. *)
Control ==
  /\ cmd = "none" => pc = "idle" /\ side = Gone
  /\ cmd # "none" => key \in Key
  /\ pc \in BackupSteps => cmd = "backup"
  /\ pc \in RestoreSteps => cmd = "restore"
  /\ pc # "idle" => outcome = "none"
  /\ pc \in Fresh \cup {"sync", "ensureConsumer"} \cup Waiting => verdict = "none"
  /\ pc \in Failing => verdict = "error"
  /\ pc \in Passed => verdict = "ok"
  /\ pc \in {"removeJob", "deferred", "piped"} => verdict \in {"ok", "error"}
  /\ pc = "ensureOld" => eng = "mysql"

(* A Dataset is copied by the command itself, object by object. *)
Sync ==
  /\ eng = "s3" => pc \in {"idle", "refused", "sync"} /\ side = Gone
  /\ pc = "sync" =>
       /\ eng = "s3" /\ cmd # "none"
       /\ cmd = "backup" => store[key] = IF got = 0 THEN None ELSE got
       /\ cmd = "restore" => got = 0 \/ (got <= store[key] /\ target = got)

(* No side has run when a command starts one, and a backup's key is free.    *)
Unstarted ==
  /\ pc \in Fresh => side = Gone /\ sent = 0 /\ got = 0 /\ seen = [s \in Sides |-> "running"]
  /\ pc = "ensureConsumer" => /\ side["consumer"] = "absent" /\ got = 0
                              /\ seen = [s \in Sides |-> "running"]
  /\ pc \in Fresh \cup {"ensureConsumer"} /\ cmd = "backup" => store[key] = None
  /\ pc \in {"refused", "readManifest", "headroom", "createScratch"} /\ cmd = "restore" =>
       scratch = None

(* What a side that ended well has done: a backup's producer sent the whole  *)
(* dump, and a consumer saw the end of the stream and stored what it read.   *)
Ended ==
  /\ eng # "s3" => got <= sent
  /\ side["producer"] = "zero" /\ cmd = "backup" => sent = N
  /\ side["consumer"] = "zero" => ~Running("producer") /\ got = sent
  /\ side["consumer"] = "zero" /\ cmd = "backup" /\ pc \in Waiting => store[key] = got

(* The poll has not been told of an end that did not happen. *)
Polled == pc \in Waiting => \A s \in Sides : seen[s] = "zero" => side[s] = "zero"

(* A pipeline that passed has carried all of the dump, and is over. *)
Carried ==
  verdict = "ok" =>
    /\ \A s \in Sides : ~Running(s)
    /\ got = sent
    /\ cmd = "backup" => sent = N /\ (pc # "idle" => store[key] = N)

(* The scratch database holds what was read of the stream until it becomes   *)
(* the target, and what becomes the target has the sidecar's checksum.       *)
Scratch ==
  /\ cmd = "restore" /\ pc \in Streaming => scratch = got
  /\ pc \in {"ensureOld", "promote"} => sent = N
  /\ pc \in {"dropOld", "dropEmptied", "restored"} => target = N

(* What is gone on the way out of a failure, unless a removal failed. *)
Cleaned ==
  ~hurt =>
    /\ pc = "removeConsumer" => ~Running("producer")
    /\ pc \in {"cleanup", "piped", "dropScratch", "dropAside"} => \A s \in Sides : ~Running(s)
    /\ pc \in {"deferred", "piped"} /\ verdict = "error" /\ cmd = "backup" =>
         store[key] = None /\ ~Running("consumer")
    /\ pc = "dropAside" => scratch = None
    /\ /\ cmd = "restore"
       /\ pc \in Fresh \cup Streaming \cup {"dropScratch", "dropAside"}
       /\ eng = "postgres" \/ pc \notin {"promote", "dropScratch", "dropAside"}
       => old = None

(* Nothing runs any more once a command has succeeded. *)
Still == outcome = "ok" => \A s \in Sides : ~Running(s)

BackupInv == /\ Types /\ Control /\ Sync /\ Unstarted /\ Ended /\ Polled /\ Carried /\ Scratch
             /\ Cleaned /\ Still
             /\ SidecarMeansWhole /\ TargetWhole /\ SuccessIsWhole /\ FailureLeavesNothing
-----------------------------------------------------------------------------
(* Before the first command there is neither an object nor a side. *)
LEMMA InitBackup == Init => BackupInv /\ Flags
<1>1. Init => BackupInv
  BY BackupAssumption DEF Init, BackupInv, Types, Control, Sync, Unstarted, Ended, Polled,
     Carried,
     Scratch, Cleaned, Still, SidecarMeansWhole, TargetWhole, SuccessIsWhole, FailureLeavesNothing,
     Engines, Runtimes, Sides, Gone, None, Orig, Fresh, Waiting, Streaming, Failing, Passed,
     BackupSteps, RestoreSteps, Steps, Running
<1>2. Init => Flags
  BY Zenon DEF Init, Flags
<1> QED
  BY <1>1, <1>2

(* Every step leaves the flags alone or sets them. *)
LEMMA StepFlags == Flags /\ [Next]_vars => Flags'
<1> SUFFICES ASSUME Flags, [Next]_vars PROVE Flags'
  OBVIOUS
<1> USE DEF Flags, MayFail, Succeeds, Detached, DetachedFails, Goto, Verdict, Return,
   Unnoticed, FailHurt, Ignored, Unchanged, dbs, pipe, bounds, Begin, vars
<1>1. CASE \E k \in Key : newBackupCmd(k) \/ newRestoreCmd(k) \/ Truncate(k)
  BY <1>1, Zenon DEF newBackupCmd, newRestoreCmd, Truncate
<1>2. CASE Refuse \/ syncObjects \/ syncEnds \/ Cancel \/ Crash
  BY <1>2, Zenon DEF Refuse, syncObjects, syncEnds, Cancel, Crash
<1>3. CASE Side
  BY <1>3, Zenon DEF Side, ProducerSends, ProducerEnds, ConsumerReads, ConsumerEnds, Killed
<1>4. CASE Pipeline
  BY <1>4, Zenon DEF Pipeline, ensureProducer, ensureConsumer, ensureSide, pollProducer,
     pollConsumer, waitPipeline, removeProducer, removeConsumer, removeSide, deferred, ensureJob,
     waitJobPipeline, removeJob, cleanup, RunOneShot, runOneShotJob
<1>5. CASE BackupPiped \/ PersistManifest \/ ReadManifest \/ CheckDiskHeadroom \/ EnsureDatabase
  BY <1>5, Zenon DEF BackupPiped, PersistManifest, ReadManifest, CheckDiskHeadroom,
     EnsureDatabase,
     RunOneShot, runOneShotJob
<1>6. CASE RestorePiped \/ VerifyIntegrity \/ ensureOld \/ postgresPromote \/ mysqlPromote
  BY <1>6, Zenon DEF RestorePiped, VerifyIntegrity, ensureOld, postgresPromote, mysqlPromote,
     Promotion
<1>7. CASE dropOld \/ dropEmptied
  BY <1>7, Zenon DEF dropOld, dropEmptied
<1>8. CASE Restored
  BY <1>8, Zenon DEF Restored
<1>9. CASE dropScratch
  BY <1>9, Zenon DEF dropScratch
<1>10. CASE dropAside
  BY <1>10, Zenon DEF dropAside
<1>11. CASE UNCHANGED vars
  BY <1>11, Zenon DEF vars
<1> QED
  BY <1>1, <1>2, <1>3, <1>4, <1>5, <1>6, <1>7, <1>8, <1>9, <1>10, <1>11, Zenon DEF Next

(* Every step of the command, of a side or of the environment keeps the parts. *)
LEMMA StepBackup == BackupInv /\ [Next]_vars => BackupInv'
<1> SUFFICES ASSUME BackupInv, [Next]_vars PROVE BackupInv'
  OBVIOUS
<1> USE BackupAssumption DEF BackupInv, Types, Control, Sync, Unstarted, Ended, Polled, Carried,
   Scratch, Cleaned, Still, SidecarMeansWhole, TargetWhole, SuccessIsWhole, FailureLeavesNothing,
   Engines, Runtimes, Sides, Gone, None, Orig, Fresh, Waiting, Streaming, Failing, Passed,
   BackupSteps, RestoreSteps, Steps, Running, MayFail, Succeeds, Detached, DetachedFails,
   Goto, Verdict, Return, Unnoticed, FailHurt, Ignored, Unchanged, dbs, pipe, bounds
<1>1. ASSUME NEW k \in Key, newBackupCmd(k) PROVE BackupInv'
  BY <1>1 DEF newBackupCmd, Begin, MayBackup, Inputs
<1>2. ASSUME NEW k \in Key, newRestoreCmd(k) PROVE BackupInv'
  BY <1>2 DEF newRestoreCmd, Begin, MayRestore, Inputs
<1>3. ASSUME NEW k \in Key, Truncate(k) PROVE BackupInv'
  BY <1>3 DEF Truncate
<1>4. ASSUME NEW s \in Sides, Killed(s) PROVE BackupInv'
  BY <1>4 DEF Killed
<1>5. CASE Refuse
  BY <1>5 DEF Refuse
<1>6. CASE syncObjects
  BY <1>6 DEF syncObjects, Synced
<1>7. CASE syncEnds
  BY <1>7 DEF syncEnds
<1>8. CASE ProducerSends
  BY <1>8 DEF ProducerSends, Dump
<1>9. CASE ProducerEnds
  BY <1>9 DEF ProducerEnds, Dump
<1>10. CASE ConsumerReads
  BY <1>10 DEF ConsumerReads
<1>11. CASE ConsumerEnds
  BY <1>11 DEF ConsumerEnds
<1>12. CASE ensureProducer
  BY <1>12 DEF ensureProducer, ensureSide
<1>13. CASE ensureConsumer
  BY <1>13 DEF ensureConsumer, ensureSide
<1>14. CASE pollProducer
  BY <1>14 DEF pollProducer, pollSide
<1>15. CASE pollConsumer
  BY <1>15 DEF pollConsumer, pollSide
<1>16. CASE waitPipeline
  BY <1>16 DEF waitPipeline
<1>17. CASE removeProducer
  BY <1>17 DEF removeProducer, removeSide
<1>18. CASE removeConsumer
  BY <1>18 DEF removeConsumer, removeSide
<1>19. CASE deferred
  BY <1>19 DEF deferred
<1>20. CASE ensureJob
  BY <1>20 DEF ensureJob, buildJob
<1>21. CASE waitJobPipeline
  BY <1>21 DEF waitJobPipeline, Terminated, ExitCode, checkJobSideExits
<1>22. CASE removeJob
  BY <1>22 DEF removeJob
<1>23. CASE cleanup
  BY <1>23 DEF cleanup, RunOneShot, runOneShotJob
<1>24. CASE BackupPiped
  BY <1>24 DEF BackupPiped
<1>25. CASE PersistManifest
  BY <1>25 DEF PersistManifest, RunOneShot, runOneShotJob
<1>26. CASE ReadManifest
  BY <1>26 DEF ReadManifest, RunOneShot, runOneShotJob
<1>27. CASE CheckDiskHeadroom
  BY <1>27 DEF CheckDiskHeadroom, RunOneShot, runOneShotJob
<1>28. CASE EnsureDatabase
  BY <1>28 DEF EnsureDatabase
<1>29. CASE RestorePiped
  BY <1>29 DEF RestorePiped
<1>30. CASE VerifyIntegrity
  BY <1>30 DEF VerifyIntegrity
<1>31. CASE ensureOld
  BY <1>31 DEF ensureOld
<1>32. CASE postgresPromote
  BY <1>32 DEF postgresPromote, Promotion
<1>33. CASE mysqlPromote
  BY <1>33 DEF mysqlPromote, Promotion
<1>34. CASE dropOld
  BY <1>34 DEF dropOld
<1>35. CASE dropEmptied
  BY <1>35 DEF dropEmptied
<1>36. CASE Restored
  BY <1>36 DEF Restored
<1>37. CASE dropScratch
  BY <1>37 DEF dropScratch
<1>38. CASE dropAside
  BY <1>38 DEF dropAside
<1>39. CASE Cancel
  BY <1>39 DEF Cancel
<1>40. CASE Crash
  BY <1>40 DEF Crash
<1>41. CASE UNCHANGED vars
  BY <1>41 DEF vars
<1> QED
  BY <1>1, <1>2, <1>3, <1>4, <1>5, <1>6, <1>7, <1>8, <1>9, <1>10, <1>11, <1>12, <1>13, <1>14,
     <1>15, <1>16, <1>17, <1>18, <1>19, <1>20, <1>21, <1>22, <1>23, <1>24, <1>25, <1>26, <1>27,
     <1>28, <1>29, <1>30, <1>31, <1>32, <1>33, <1>34, <1>35, <1>36, <1>37, <1>38, <1>39, <1>40,
     <1>41 DEF Next, Side, Pipeline

(* Whatever fails, is killed or cancelled, a command concludes no more at    *)
(* any step than the two sides have done.                                    *)
THEOREM BackupInvariant == Spec => [](BackupInv /\ Flags)
<1>1. Init => BackupInv /\ Flags
  BY InitBackup
<1>2. (BackupInv /\ Flags) /\ [Next]_vars => (BackupInv /\ Flags)'
  BY StepBackup, StepFlags
<1> QED
  BY <1>1, <1>2, PTL DEF Spec

(* dbbackup.Backup writes a sidecar for whole dumps only, whatever happened  *)
(* to the two sides of its pipeline.                                         *)
THEOREM SidecarsCertify == Spec => []SidecarMeansWhole
BY BackupInvariant, PTL DEF BackupInv

(* dbbackup.Restore leaves in the database what it held or a whole dump: the *)
(* rename happens only after the stream was compared with the sidecar.  The  *)
(* error of a mismatch (dbjob.go:738) warns of more than can happen.         *)
THEOREM RestoreIsAllOrNothing == Spec => []TargetWhole
BY BackupInvariant, PTL DEF BackupInv

(* A backup or restore that reports success has done all of it. *)
THEOREM SuccessIsComplete == Spec => []SuccessIsWhole
BY BackupInvariant, PTL DEF BackupInv

(* A failed backup or restore leaves no partial object, no scratch database  *)
(* and no running side, unless a cleanup failed too.                         *)
THEOREM FailureCleansUp == Spec => []FailureLeavesNothing
BY BackupInvariant, PTL DEF BackupInv
=============================================================================
