------------------------ MODULE RotationProofs ------------------------
(***************************************************************************)
(* The credential rotation keeps the administrator's and the exporter's    *)
(* passwords, for any set of accounts and any number of secret values.     *)
(***************************************************************************)
EXTENDS Rotation, TLAPS

\* The invariant holds in the initial state.
LEMMA InitInv == Init => IInv
<1> SUFFICES ASSUME Init PROVE IInv
  OBVIOUS
<1>5. metrics \in BOOLEAN /\ cut \in BOOLEAN /\ misread \in BOOLEAN
  BY Zenon DEF Init
<1>1. TypeOK
  BY <1>5, RotationAssumption DEF Init, TypeOK, Secret, Maybe, Destroying
<1>2. Progress
  BY DEF Init, Progress
<1>3. PasswordKept
  BY DEF Init, PasswordKept, Empty
<1>4. ReadyAuthenticates /\ GivesUpOnlyIfCut /\ ExporterKept
  BY DEF Init, ReadyAuthenticates, GivesUpOnlyIfCut, ExporterKept
<1> QED
  BY <1>1, <1>2, <1>3, <1>4 DEF IInv

\* Every step preserves it.
LEMMA StepInv == IInv /\ [Next]_vars => IInv'
<1> SUFFICES ASSUME IInv, [Next]_vars PROVE IInv'
  OBVIOUS
<1> USE RotationAssumption
    DEF IInv, TypeOK, Progress, PasswordKept, ReadyAuthenticates, GivesUpOnlyIfCut,
        ExporterKept, Empty, Authenticates, Secret, Maybe, Destroying, Goto, End
<1>1. ASSUME NEW m \in BOOLEAN, Reconcile(m) PROVE IInv'
  BY <1>1 DEF Reconcile
<1>2. ASSUME NEW a \in Accounts, Rotate(a) PROVE IInv'
  BY <1>2 DEF Rotate
<1>3. CASE ChangeSecret
  BY <1>3 DEF ChangeSecret, local
<1>4. CASE liveSuperuser
  <2>1. misread' \in BOOLEAN
    BY <1>4, Zenon DEF liveSuperuser
  <2>2. old' \in {0, boot} /\ (old' = boot \/ misread')
    BY <1>4, Zenon DEF liveSuperuser
  <2>3. ~misread' => ~misread
    BY <1>4 DEF liveSuperuser
  <2>4. TypeOK'
    BY <1>4, <2>1, <2>2 DEF liveSuperuser
  <2> QED
    BY <1>4, <2>2, <2>3, <2>4 DEF liveSuperuser
<1>5. CASE EnsureRemove
  BY <1>5 DEF EnsureRemove
<1>6. CASE EnsureStart
  <2>1. CASE Empty
    <3>1. \A a \in Accounts : acct'[a] = des
      BY <1>6, <2>1 DEF EnsureStart, Started
    <3>2. acct' \in [Accounts -> Maybe]
      BY <1>6, <2>1 DEF EnsureStart, Started
    <3>3. old = 0
      BY <1>6, <2>1 DEF EnsureStart
    <3> QED
      BY <1>6, <3>1, <3>2, <3>3 DEF EnsureStart
  <2>2. CASE ~Empty
    BY <1>6, <2>2 DEF EnsureStart, Started
  <2> QED
    BY <2>1, <2>2
<1>7. CASE Run
  BY <1>7 DEF Run, Verified, NoPreviousOrUnchanged
<1>8. CASE VerifyRotated
  BY <1>8 DEF VerifyRotated, Verified
<1>9. CASE liveMonitorPassword
  <2>1. misread' \in BOOLEAN
    BY <1>9, Zenon DEF liveMonitorPassword
  <2>2. mon' \in Secret
    BY <1>9 DEF liveMonitorPassword
  <2>3. exporter # 0 /\ ~misread' => mon' = exporter
    BY <1>9, Zenon DEF liveMonitorPassword
  <2>4. ~misread' => ~misread
    BY <1>9 DEF liveMonitorPassword
  <2>5. TypeOK'
    BY <1>9, <2>1, <2>2 DEF liveMonitorPassword
  <2> QED
    BY <1>9, <2>2, <2>3, <2>4, <2>5 DEF liveMonitorPassword
<1>10. CASE ensureMonitoringUser
  BY <1>10 DEF ensureMonitoringUser
<1>11. CASE ensureExporter
  BY <1>11 DEF ensureExporter
<1>12. CASE Destroy
  BY <1>12 DEF Destroy
<1>13. CASE DestroyExporter
  BY <1>13 DEF DestroyExporter
<1>14. CASE DestroyInstance
  BY <1>14 DEF DestroyInstance
<1>15. CASE DestroyVolume
  BY <1>15 DEF DestroyVolume
<1>16. CASE Interrupt
  BY <1>16 DEF Interrupt
<1>17. CASE Vanish
  BY <1>17 DEF Vanish, local
<1>18. CASE ExporterRemove
  BY <1>18 DEF ExporterRemove
<1>19. CASE UNCHANGED vars
  BY <1>19 DEF vars
<1> QED
  BY <1>1, <1>2, <1>3, <1>4, <1>5, <1>6, <1>7, <1>8, <1>9,
     <1>10, <1>11, <1>12, <1>13, <1>14, <1>15, <1>16, <1>17, <1>18, <1>19 DEF Next

\* The types, the progress facts and the safety properties in every reachable state.
THEOREM RotationInvariant == Spec => []IInv
<1> QED
  BY InitInv, StepInv, PTL DEF Spec

\* An instance reported Ready accepts the password asked for (Reconcile's Ready).
THEOREM ReadyIsTrue == Spec => []ReadyAuthenticates
<1> QED
  BY RotationInvariant, PTL DEF IInv

\* Rotation gives up only after an interruption (CredentialRotation.Run's errors).
THEOREM RotationSucceeds == Spec => []GivesUpOnlyIfCut
<1> QED
  BY RotationInvariant, PTL DEF IInv

\* The exporter that runs can log in, interruptions or not (ensureExporter).
THEOREM ExporterSurvives == Spec => []ExporterKept
<1> QED
  BY RotationInvariant, PTL DEF IInv
=============================================================================
