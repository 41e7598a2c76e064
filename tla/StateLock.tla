----------------------------- MODULE StateLock -----------------------------
(***************************************************************************)
(* What the state.StateStore port promises of Lock: between a successful   *)
(* Lock and its unlock no other Lock succeeds.  A holder that dies is no   *)
(* holder any more.  Engine and Commands rely on this; LeaseLock           *)
(* implements it while its clients are timely.                             *)
(***************************************************************************)
CONSTANT Client
VARIABLE holders  \* the live clients whose Lock returned and that have not unlocked

Acquire(c) == holders = {} /\ holders' = {c}
Release(c) == holders = {c} /\ holders' = {}

Init == holders = {}
Next == \E c \in Client : Acquire(c) \/ Release(c)
Spec == Init /\ [][Next]_holders
=============================================================================
