---------------------------- MODULE AbstractLock ----------------------------
(***************************************************************************)
(* What a mutex promises.                                                   *)
(***************************************************************************)
CONSTANT Threads
VARIABLE holders

Init == holders = {}
Acquire(t) == holders = {} /\ holders' = {t}
Release(t) == holders = {t} /\ holders' = {}
Next == \E t \in Threads : Acquire(t) \/ Release(t)
Spec == Init /\ [][Next]_holders
=============================================================================
