---------------------------- MODULE SceneService ----------------------------
(***************************************************************************)
(* What a screen's rasterizer promises to its contexts: scenes are rendered *)
(* one at a time, a bin is drawn only while its scene is, and the rendering *)
(* of a scene is over only when all of its bins have been drawn.            *)
(***************************************************************************)
CONSTANTS
  Contexts,   \* a context has one scene
  Bins        \* the bins a scene may have commands in

VARIABLES
  phase,      \* "idle", "submitted" or "rendering"
  todo        \* the bins of the scene still to be drawn

Init ==
  /\ phase = [c \in Contexts |-> "idle"]
  /\ todo = [c \in Contexts |-> {}]

Submit(c) ==
  /\ phase[c] = "idle"
  /\ phase' = [phase EXCEPT ![c] = "submitted"]
  /\ \E b \in SUBSET Bins : todo' = [todo EXCEPT ![c] = b]

Start(c) ==
  /\ phase[c] = "submitted"
  /\ \A d \in Contexts : phase[d] # "rendering"
  /\ phase' = [phase EXCEPT ![c] = "rendering"]
  /\ UNCHANGED todo

Draw(c) ==
  /\ phase[c] = "rendering"
  /\ \E b \in todo[c] : todo' = [todo EXCEPT ![c] = @ \ {b}]
  /\ UNCHANGED phase

Finish(c) ==
  /\ phase[c] = "rendering" /\ todo[c] = {}
  /\ phase' = [phase EXCEPT ![c] = "idle"]
  /\ UNCHANGED todo

Next == \E c \in Contexts : Submit(c) \/ Start(c) \/ Draw(c) \/ Finish(c)

\* What must happen: a rendering that has begun comes to its end.
Fairness ==
  \A c \in Contexts : WF_<<phase, todo>>(Draw(c)) /\ WF_<<phase, todo>>(Finish(c))

Spec == Init /\ [][Next]_<<phase, todo>>
FairSpec == Spec /\ Fairness
=============================================================================
