--------------------------- MODULE AbstractFence ---------------------------
(***************************************************************************)
(* What a job's completion fence promises, and what module UtilQueue takes  *)
(* a fence to be: a wait returns true when the fence is signalled, and only *)
(* a wait with a timeout may return false.                                  *)
(***************************************************************************)
CONSTANT Threads

VARIABLES
  unsignalled,  \* {} or {the fence}
  wait          \* each thread: waiting, or how its last wait ended

vars == <<unsignalled, wait>>

Waiting == {"waiting", "timed"}

Init == unsignalled = {} /\ wait = [t \in Threads |-> "true"]

Reset ==
  /\ unsignalled = {} /\ \A t \in Threads : wait[t] \notin Waiting
  /\ unsignalled' = {"fence"} /\ wait' = wait

Signal == unsignalled # {} /\ unsignalled' = {} /\ wait' = wait

Begin(t) ==
  /\ wait[t] \notin Waiting
  /\ \E how \in Waiting : wait' = [wait EXCEPT ![t] = how]
  /\ unsignalled' = unsignalled

ReturnTrue(t) ==
  /\ wait[t] \in Waiting /\ unsignalled = {}
  /\ wait' = [wait EXCEPT ![t] = "true"] /\ unsignalled' = unsignalled

ReturnFalse(t) ==
  /\ wait[t] = "timed"
  /\ wait' = [wait EXCEPT ![t] = "false"] /\ unsignalled' = unsignalled

Next ==
  Reset \/ Signal \/ \E t \in Threads : Begin(t) \/ ReturnTrue(t) \/ ReturnFalse(t)

Spec == Init /\ [][Next]_vars
=============================================================================
