---------------------------- MODULE StepProgress ----------------------------
(***************************************************************************)
(* The progress document of a branch and the pure functions the runtime    *)
(* commands apply to it: the payload of the "progress" stage snapshot, the *)
(* rules of domain/workflow_rules.py, the selection of the next step in    *)
(* domain/progress.py and domain/step_resolution.py, and the progress part *)
(* of the plans built in workflow/planning.py and                          *)
(* workflow/implementation.py.  There is no state here.                    *)
(*                                                                         *)
(* A step's kind, covers and catalog entry are left out: no rule of the    *)
(* lifecycle reads them.  Its TDD policy is the constant TddRequired, its  *)
(* dependencies are data, given when it is registered.                     *)
(***************************************************************************)
EXTENDS Integers, Sequences, SequencesExt

CONSTANTS Steps,        \* the step identifiers a plan may use
          NoStep,       \* Python's None where a step id is expected
          TddRequired   \* the steps registered with tddPolicy = "required"

ASSUME StepAssumption == /\ NoStep \notin Steps
                         /\ TddRequired \subseteq Steps

Evidence == {"red", "green", "refactor"}
Phases == {"not_started", "red", "green", "refactor", "completed", "waived"}
Statuses == {"absent", "planned", "in_progress", "completed"}
NoPhase == "none"

Progress == [planned   : Seq(Steps),
             completed : SUBSET Steps,
             deps      : [Steps -> SUBSET Steps],
             status    : [Steps -> Statuses],
             phase     : [Steps -> Phases],
             evidence  : [Steps -> SUBSET Evidence],
             current   : Steps \cup {NoStep}]

EmptyProgress ==
  [planned   |-> <<>>,
   completed |-> {},
   deps      |-> [s \in Steps |-> {}],
   status    |-> [s \in Steps |-> "absent"],
   phase     |-> [s \in Steps |-> "not_started"],
   evidence  |-> [s \in Steps |-> {}],
   current   |-> NoStep]

Planned(p) == ToSet(p.planned)

IsReady(p, s) == p.deps[s] \subseteq p.completed

(***************************************************************************)
(* Rules: what a command checks before it prepares its mutation.           *)
(***************************************************************************)

\* A step that may be worked on: planned and not completed.
Selectable(p, s) == s \in Planned(p) /\ s \notin p.completed

\* Variant: dependencies may be registered later.
CanRegisterUnplanned(p, s, deps) == s \notin Planned(p) /\ s \notin deps

CanRegister(p, s, deps) == /\ s \notin Planned(p)
                           /\ s \notin deps
                           /\ deps \subseteq Planned(p)

CanStart(p, s) == Selectable(p, s) /\ IsReady(p, s)

AllowedPhases(s) == IF s \in TddRequired
                      THEN {"not_started", "red", "green", "refactor"}
                      ELSE {"waived"}

CanCheckpoint(p, s, phase) == /\ Selectable(p, s)
                              /\ phase = NoPhase \/ phase \in AllowedPhases(s)

\* Variant: the dependencies are not looked at.
CanCompleteUnready(p, s, ev) ==
  Selectable(p, s) /\ (s \in TddRequired => Evidence \subseteq p.evidence[s] \cup ev)

CanComplete(p, s, ev) ==
  /\ Selectable(p, s)
  /\ IsReady(p, s)
  /\ s \in TddRequired => Evidence \subseteq p.evidence[s] \cup ev

(***************************************************************************)
(* Selection of a step.                                                    *)
(***************************************************************************)

\* The positions of the plan whose state is "ready".
ReadyPositions(p) ==
  {i \in DOMAIN p.planned : /\ p.planned[i] \notin p.completed
                            /\ p.status[p.planned[i]] # "completed"
                            /\ IsReady(p, p.planned[i])}

IsFirst(i, S) == i \in S /\ \A j \in S : i <= j

\* The first ready step in planning order, NoStep when there is none.
NextExecutable(p) ==
  IF \E i \in DOMAIN p.planned : IsFirst(i, ReadyPositions(p))
    THEN p.planned[CHOOSE i \in DOMAIN p.planned : IsFirst(i, ReadyPositions(p))]
    ELSE NoStep

\* The step a command works on: the one it names, else the session's, else
\* the progress document's; a command that requires readiness passes over
\* the candidates that are not ready.
ResolveStep(p, explicit, sessionStep, requireReady) ==
  LET usable(s) == /\ s # NoStep
                   /\ requireReady => CanStart(p, s)
  IN  CASE usable(explicit)    -> explicit
        [] ~usable(explicit) /\ usable(sessionStep) -> sessionStep
        [] ~usable(explicit) /\ ~usable(sessionStep) /\ usable(p.current) -> p.current
        [] OTHER -> NextExecutable(p)

(***************************************************************************)
(* Plans: the progress document each accepted command writes.              *)
(***************************************************************************)

RegisterStep(p, s, deps) ==
  [p EXCEPT !.planned     = IF s \in Planned(p) THEN @ ELSE Append(@, s),
            !.status[s]   = "planned",
            !.phase[s]    = IF s \in TddRequired THEN "not_started" ELSE "waived",
            !.evidence[s] = {},
            !.deps[s]     = deps]

\* Variant: the other steps keep their status.
SetActiveAlone(p, s) == [p EXCEPT !.status[s] = "in_progress", !.current = s]

\* No step but s stays in progress.
SetActive(p, s) ==
  [p EXCEPT !.status  = [c \in Steps |->
                           IF c = s /\ p.status[c] # "absent" THEN "in_progress"
                           ELSE IF p.status[c] = "in_progress" THEN "planned"
                           ELSE p.status[c]],
            !.current = s]

StartStep(p, s) == SetActive(p, s)

CheckpointStep(p, s, phase, ev) ==
  [SetActive(p, s) EXCEPT !.status[s]   = "in_progress",
                          !.phase[s]    = IF phase = NoPhase THEN @ ELSE phase,
                          !.evidence[s] = @ \cup ev]

\* Variant: the evidence on the command line is checked and not stored.
MarkCompletedUnrecorded(p, s, ev) ==
  [p EXCEPT !.completed = @ \cup {s}, !.status[s] = "completed",
            !.phase[s] = IF s \in TddRequired THEN "completed" ELSE "waived"]

MarkCompleted(p, s, ev) ==
  [p EXCEPT !.completed   = @ \cup {s},
            !.status[s]   = "completed",
            !.phase[s]    = IF s \in TddRequired THEN "completed" ELSE "waived",
            !.evidence[s] = @ \cup ev]

\* Completion selects the next step; the others leave "in_progress" only when
\* there is one.
CompleteStep(p, s, ev) ==
  LET done == MarkCompleted(p, s, ev)
      next == NextExecutable(done)
  IN  [done EXCEPT
         !.current = next,
         !.status  = IF next = NoStep THEN @
                     ELSE [c \in Steps |->
                             IF done.status[c] = "in_progress" /\ c # s /\ c # next
                               THEN "planned" ELSE done.status[c]]]

(***************************************************************************)
(* Conflict detection.                                                     *)
(***************************************************************************)

\* What a conflict detector compares of one step.
Signature(p, s) == <<s \in Planned(p), s \in p.completed, p.status[s],
                     p.phase[s], p.evidence[s], p.deps[s]>>

(***************************************************************************)
(* Validation: what validate_progress demands of a progress document.      *)
(***************************************************************************)

Finished(p, s) == s \in p.completed \/ p.status[s] = "completed"

ValidateProgress(p) ==
  /\ p.current \in Planned(p) \cup {NoStep}
  /\ p.completed \subseteq Planned(p)
  /\ \A s \in Steps : p.status[s] # "absent" <=> s \in Planned(p)
  /\ \A s \in Planned(p) :
       /\ p.deps[s] \subseteq Planned(p)
       /\ s \notin TddRequired => p.phase[s] = "waived"
       /\ s \in TddRequired /\ Finished(p, s) =>
            p.phase[s] = "completed" /\ p.evidence[s] = Evidence

=============================================================================
