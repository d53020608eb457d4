--------------------------- MODULE StepLifecycle ---------------------------
(***************************************************************************)
(* What the runtime commands promise about a branch, whatever the number   *)
(* of processes, crashes and stale reads behind them: each accepted write  *)
(* moves the revision by one and concerns one step; a step is registered   *)
(* once, after the steps it depends on; its dependencies never change; it  *)
(* is completed after them, and stays completed.                           *)
(*                                                                         *)
(* RuntimeMutation implements this specification (its property             *)
(* LifecycleSpec).                                                         *)
(***************************************************************************)
EXTENDS Naturals

CONSTANT Steps

VARIABLES revision,    \* number of accepted writes
          planned,     \* registered steps
          completed,   \* completed steps
          deps         \* dependencies of each registered step

vars == <<revision, planned, completed, deps>>

Init == /\ revision = 0
        /\ planned = {}
        /\ completed = {}
        /\ deps = [s \in Steps |-> {}]

Register(s) ==
  /\ s \notin planned
  /\ \E D \in SUBSET planned : deps' = [deps EXCEPT ![s] = D]
  /\ planned' = planned \cup {s}
  /\ UNCHANGED completed

\* Start and checkpoint: the step is worked on, its lifecycle does not move.
Work(s) ==
  /\ s \in planned
  /\ UNCHANGED <<planned, completed, deps>>

Complete(s) ==
  /\ s \in planned
  /\ deps[s] \subseteq completed
  /\ completed' = completed \cup {s}
  /\ UNCHANGED <<planned, deps>>

Next == /\ revision' = revision + 1
        /\ \E s \in Steps : Register(s) \/ Work(s) \/ Complete(s)

Spec == Init /\ [][Next]_vars

=============================================================================
