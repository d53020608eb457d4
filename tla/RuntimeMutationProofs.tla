------------------------ MODULE RuntimeMutationProofs ------------------------
(***************************************************************************)
(* Proofs about RuntimeMutation, for every set of processes, sessions and  *)
(* steps, every lease duration and every bound on the revision.            *)
(*                                                                         *)
(* The first part shows what the plans of StepProgress do to a progress    *)
(* document: they keep its type and its order, keep what earlier commands  *)
(* wrote, and keep completed steps justified.                              *)
(*                                                                         *)
(* In the second part the safety properties are not inductive: they follow *)
(* from what each process still knows when it reaches its commit.          *)
(* Known(w) says it: the base state is current when the revision is, what  *)
(* the rules established at the first read has stayed true because no      *)
(* command takes anything back, and a caller's revision is never ahead of  *)
(* the base.                                                               *)
(***************************************************************************)
EXTENDS RuntimeMutation, SequenceTheorems, WellFoundedInduction, NaturalsInduction, TLAPS

\* What one command may do to the document: nothing registered, completed or
\* recorded before it is taken back.
Extends(p, q) ==
  /\ Planned(p) \subseteq Planned(q)
  /\ p.completed \subseteq q.completed
  /\ \A s \in Planned(p) : p.evidence[s] \subseteq q.evidence[s] /\ q.deps[s] = p.deps[s]

\* The document's own invariants, as the properties of RuntimeMutation state
\* them of the canonical one.
DependenciesFirst(p) == \A s \in p.completed : s \in Planned(p) /\ IsReady(p, s)
EvidenceRecorded(p) == \A s \in p.completed \cap TddRequired : p.evidence[s] = Evidence
OneInProgress(p) ==
  \A s, t \in Steps : p.status[s] = "in_progress" /\ p.status[t] = "in_progress" => s = t

\* The plan is an order of the dependencies: each stands before its dependent.
\* And a step that says it is completed is listed as completed.
Before(p, i) == {p.planned[j] : j \in {k \in DOMAIN p.planned : k < i}}
PlanOrdered(p) ==
  /\ \A i \in DOMAIN p.planned : p.deps[p.planned[i]] \subseteq Before(p, i)
  /\ \A s \in Steps : p.status[s] = "completed" => s \in p.completed

----------------------------------------------------------------------------

\* The set of planned steps, as a set of values of the plan.
LEMMA PlannedInSteps ==
  ASSUME NEW p \in Progress
  PROVE  Planned(p) \subseteq Steps
BY DEF Planned, ToSet, Progress

\* Registering adds one step to the plan.
LEMMA PlannedAfterAppend ==
  ASSUME NEW p \in Progress, NEW s \in Steps
  PROVE  /\ Append(p.planned, s) \in Seq(Steps)
         /\ ToSet(Append(p.planned, s)) = ToSet(p.planned) \cup {s}
<1>1. p.planned \in Seq(Steps)
  BY DEF Progress
<1>2. Append(p.planned, s) \in Seq(Steps)
  BY <1>1
<1>3. ASSUME NEW t \in ToSet(Append(p.planned, s))
      PROVE  t \in ToSet(p.planned) \cup {s}
  BY <1>1, <1>3 DEF ToSet
<1>4. ASSUME NEW t \in ToSet(p.planned)
      PROVE  t \in ToSet(Append(p.planned, s))
  <2>1. PICK i \in DOMAIN p.planned : p.planned[i] = t
    BY <1>4 DEF ToSet
  <2>2. i \in DOMAIN Append(p.planned, s) /\ Append(p.planned, s)[i] = t
    BY <1>1, <2>1
  <2> QED
    BY <2>2 DEF ToSet
<1>5. s \in ToSet(Append(p.planned, s))
  <2>1. /\ Len(p.planned) + 1 \in DOMAIN Append(p.planned, s)
        /\ Append(p.planned, s)[Len(p.planned) + 1] = s
    BY <1>1
  <2> QED
    BY <2>1 DEF ToSet
<1> QED
  BY <1>2, <1>3, <1>4, <1>5

\* The next executable step is a planned step, or there is none.
LEMMA NextExecutableType ==
  ASSUME NEW p \in Progress
  PROVE  NextExecutable(p) \in Planned(p) \cup {NoStep}
<1>1. CASE \E i \in DOMAIN p.planned : IsFirst(i, ReadyPositions(p))
  <2> DEFINE first == CHOOSE i \in DOMAIN p.planned : IsFirst(i, ReadyPositions(p))
  <2>1. first \in DOMAIN p.planned
    BY <1>1
  <2>2. p.planned[first] \in Planned(p)
    BY <2>1 DEF Planned, ToSet
  <2> QED
    BY <1>1, <2>2 DEF NextExecutable
<1>2. CASE ~ \E i \in DOMAIN p.planned : IsFirst(i, ReadyPositions(p))
  BY <1>2 DEF NextExecutable
<1> QED
  BY <1>1, <1>2

----------------------------------------------------------------------------

\* What the plan of a registration does to a document.
Registered(p, q, s, D) ==
  /\ q \in Progress
  /\ Extends(p, q)
  /\ Planned(q) = Planned(p) \cup {s}
  /\ q.completed = p.completed
  /\ q.deps = [p.deps EXCEPT ![s] = D]
  /\ q.status = [p.status EXCEPT ![s] = "planned"]

\* Registering keeps the type and takes nothing back, when the step is new.
LEMMA RegisterKeeps ==
  ASSUME NEW p \in Progress, NEW s \in Steps, NEW D \in SUBSET Steps, s \notin Planned(p)
  PROVE  Registered(p, RegisterStep(p, s, D), s, D)
<1> DEFINE q == RegisterStep(p, s, D)
<1>1. /\ q.planned = Append(p.planned, s)
      /\ q.completed = p.completed
      /\ q.deps = [p.deps EXCEPT ![s] = D]
      /\ q.status = [p.status EXCEPT ![s] = "planned"]
      /\ q.phase = [p.phase EXCEPT ![s] = IF s \in TddRequired THEN "not_started" ELSE "waived"]
      /\ q.evidence = [p.evidence EXCEPT ![s] = {}]
      /\ q.current = p.current
  BY DEF RegisterStep, Progress
<1>2. q \in Progress
  <2>2. q.planned \in Seq(Steps)
    BY <1>1, PlannedAfterAppend
  <2>3. q.completed \in SUBSET Steps /\ q.deps \in [Steps -> SUBSET Steps]
    BY <1>1 DEF Progress
  <2>4. q.status \in [Steps -> Statuses]
    BY <1>1 DEF Progress, Statuses
  <2>5. q.phase \in [Steps -> Phases]
    BY <1>1 DEF Progress, Phases
  <2>6. q.evidence \in [Steps -> SUBSET Evidence] /\ q.current \in Steps \cup {NoStep}
    BY <1>1 DEF Progress
  <2> QED
    BY <1>1, <2>2, <2>3, <2>4, <2>5, <2>6 DEF Progress, RegisterStep
<1>3. Planned(q) = Planned(p) \cup {s}
  BY <1>1, PlannedAfterAppend DEF Planned
<1>4. Extends(p, q)
  <2>1. \A t \in Planned(p) : q.evidence[t] = p.evidence[t] /\ q.deps[t] = p.deps[t]
    BY <1>1, PlannedInSteps DEF Progress
  <2> HIDE DEF q
  <2> QED
    BY <1>1, <1>3, <2>1 DEF Extends
<1> HIDE DEF q
<1> HIDE DEF q
<1>5. Registered(p, q, s, D)
  BY <1>1, <1>2, <1>3, <1>4 DEF Registered
<1> QED
  BY <1>5 DEF q

\* The fields set_active_step writes.
LEMMA SetActiveFields ==
  ASSUME NEW p \in Progress, NEW s \in Steps
  PROVE  LET q == SetActive(p, s)
         IN  /\ q \in Progress
             /\ q.planned = p.planned /\ q.completed = p.completed
             /\ q.deps = p.deps /\ q.evidence = p.evidence
             /\ \A t \in Steps : q.status[t] = "in_progress" => t = s
<1> DEFINE q == SetActive(p, s)
<1>1. /\ q.planned = p.planned /\ q.completed = p.completed
      /\ q.deps = p.deps /\ q.evidence = p.evidence
      /\ q.phase = p.phase /\ q.current = s
      /\ q.status = [c \in Steps |->
                       IF c = s /\ p.status[c] # "absent" THEN "in_progress"
                       ELSE IF p.status[c] = "in_progress" THEN "planned"
                       ELSE p.status[c]]
  BY DEF SetActive, Progress
<1>2. q.status \in [Steps -> Statuses]
  BY <1>1 DEF Progress, Statuses
<1>3. q \in Progress
  BY <1>1, <1>2 DEF SetActive, Progress
<1>4. \A t \in Steps : q.status[t] = "in_progress" => t = s
  BY <1>1
<1> HIDE DEF q
<1>5. /\ q \in Progress /\ q.planned = p.planned /\ q.completed = p.completed
      /\ q.deps = p.deps /\ q.evidence = p.evidence
      /\ \A t \in Steps : q.status[t] = "in_progress" => t = s
  BY <1>1, <1>3, <1>4
<1> QED
  BY <1>5 DEF q

\* Starting a step changes no step's dependencies, evidence or completion, and
\* leaves no other step in progress.
LEMMA StartKeeps ==
  ASSUME NEW p \in Progress, NEW s \in Steps
  PROVE  LET q == StartStep(p, s)
         IN  /\ q \in Progress
             /\ Extends(p, q) /\ Planned(q) = Planned(p)
             /\ q.completed = p.completed /\ q.deps = p.deps
             /\ OneInProgress(q)
BY SetActiveFields DEF StartStep, Extends, Planned, OneInProgress

\* A checkpoint adds evidence to its step and changes no completion.
LEMMA CheckpointKeeps ==
  ASSUME NEW p \in Progress, NEW s \in Steps,
         NEW f \in Phases \cup {NoPhase}, NEW E \in SUBSET Evidence
  PROVE  LET q == CheckpointStep(p, s, f, E)
         IN  /\ q \in Progress
             /\ Extends(p, q) /\ Planned(q) = Planned(p)
             /\ q.completed = p.completed /\ q.deps = p.deps
             /\ OneInProgress(q)
<1> DEFINE a == SetActive(p, s)
           q == CheckpointStep(p, s, f, E)
<1>1. /\ a \in Progress
      /\ a.planned = p.planned /\ a.completed = p.completed
      /\ a.deps = p.deps /\ a.evidence = p.evidence
      /\ \A t \in Steps : a.status[t] = "in_progress" => t = s
  BY SetActiveFields
<1> HIDE DEF a
<1>2. /\ q.planned = a.planned /\ q.completed = a.completed /\ q.deps = a.deps
      /\ q.current = a.current
      /\ q.status = [a.status EXCEPT ![s] = "in_progress"]
      /\ q.phase = [a.phase EXCEPT ![s] = IF f = NoPhase THEN @ ELSE f]
      /\ q.evidence = [a.evidence EXCEPT ![s] = @ \cup E]
  BY <1>1 DEF CheckpointStep, Progress, a
<1>3. q.status \in [Steps -> Statuses]
  BY <1>1, <1>2 DEF Progress, Statuses
<1>4. q.phase \in [Steps -> Phases]
  BY <1>1, <1>2 DEF Progress, Phases, NoPhase
<1>5. q.evidence \in [Steps -> SUBSET Evidence]
  BY <1>1, <1>2 DEF Progress
<1>6. q \in Progress
  BY <1>1, <1>2, <1>3, <1>4, <1>5 DEF Progress, CheckpointStep, a
<1> HIDE DEF q
<1>7. \A t \in Steps : p.evidence[t] \subseteq q.evidence[t]
  BY <1>1, <1>2 DEF Progress
<1>8. Planned(q) = Planned(p)
  BY <1>1, <1>2 DEF Planned
<1>9. Extends(p, q)
  BY <1>1, <1>2, <1>7, <1>8, PlannedInSteps DEF Extends
<1>10. OneInProgress(q)
  BY <1>1, <1>2 DEF OneInProgress, Progress
<1> QED
  BY <1>1, <1>2, <1>6, <1>8, <1>9, <1>10 DEF q

\* Completing a step adds it, with its evidence, and takes nothing back.
LEMMA CompleteKeeps ==
  ASSUME NEW p \in Progress, NEW s \in Planned(p), NEW E \in SUBSET Evidence
  PROVE  LET q == CompleteStep(p, s, E)
         IN  /\ q \in Progress
             /\ Extends(p, q) /\ Planned(q) = Planned(p)
             /\ q.completed = p.completed \cup {s}
             /\ q.deps = p.deps
             /\ q.evidence[s] = p.evidence[s] \cup E
             /\ OneInProgress(p) => OneInProgress(q)
<1> DEFINE d == MarkCompleted(p, s, E)
           next == NextExecutable(d)
           q == CompleteStep(p, s, E)
<1>1. s \in Steps
  BY PlannedInSteps
<1>2. /\ d.planned = p.planned /\ d.deps = p.deps /\ d.current = p.current
      /\ d.completed = p.completed \cup {s}
      /\ d.status = [p.status EXCEPT ![s] = "completed"]
      /\ d.phase = [p.phase EXCEPT ![s] = IF s \in TddRequired THEN "completed" ELSE "waived"]
      /\ d.evidence = [p.evidence EXCEPT ![s] = @ \cup E]
  BY DEF MarkCompleted, Progress
<1>3. d \in Progress
  <2>1. d.status \in [Steps -> Statuses] /\ d.phase \in [Steps -> Phases]
    BY <1>2 DEF Progress, Statuses, Phases
  <2>2. d.evidence \in [Steps -> SUBSET Evidence] /\ d.completed \in SUBSET Steps
    BY <1>1, <1>2 DEF Progress
  <2> QED
    BY <1>1, <1>2, <2>1, <2>2 DEF MarkCompleted, Progress
<1>4. next \in Steps \cup {NoStep}
  BY <1>3, NextExecutableType, PlannedInSteps
<1> HIDE DEF d, next
<1>5. /\ q.planned = d.planned /\ q.completed = d.completed /\ q.deps = d.deps
      /\ q.phase = d.phase /\ q.evidence = d.evidence
      /\ q.current = next
      /\ q.status = IF next = NoStep THEN d.status
                    ELSE [c \in Steps |->
                            IF d.status[c] = "in_progress" /\ c # s /\ c # next
                              THEN "planned" ELSE d.status[c]]
  BY <1>3 DEF CompleteStep, Progress, d, next
<1>6. q.status \in [Steps -> Statuses]
  BY <1>3, <1>5 DEF Progress, Statuses
<1>7. q \in Progress
  BY <1>3, <1>4, <1>5, <1>6 DEF CompleteStep, Progress, d, next
<1> HIDE DEF q
<1>8. Planned(q) = Planned(p)
  BY <1>2, <1>5 DEF Planned
<1>9. /\ \A t \in Steps : p.evidence[t] \subseteq q.evidence[t]
      /\ q.evidence[s] = p.evidence[s] \cup E
  BY <1>1, <1>2, <1>5 DEF Progress
<1>10. Extends(p, q)
  BY <1>2, <1>5, <1>8, <1>9, PlannedInSteps DEF Extends
<1>11. \A t \in Steps : q.status[t] = "in_progress" => p.status[t] = "in_progress"
  BY <1>1, <1>2, <1>3, <1>5 DEF Progress
<1>12. OneInProgress(p) => OneInProgress(q)
  BY <1>11 DEF OneInProgress
<1> QED
  BY <1>2, <1>5, <1>7, <1>8, <1>9, <1>10, <1>12 DEF q

\* Whatever step a plan is made for, planned or not, it is a progress document.
LEMMA RegisterType ==
  ASSUME NEW p \in Progress, NEW s \in Steps, NEW D \in SUBSET Steps
  PROVE  RegisterStep(p, s, D) \in Progress
<1> DEFINE q == RegisterStep(p, s, D)
<1>1. /\ q.planned = IF s \in Planned(p) THEN p.planned ELSE Append(p.planned, s)
      /\ q.completed = p.completed /\ q.current = p.current
      /\ q.deps = [p.deps EXCEPT ![s] = D]
      /\ q.status = [p.status EXCEPT ![s] = "planned"]
      /\ q.phase = [p.phase EXCEPT ![s] = IF s \in TddRequired THEN "not_started" ELSE "waived"]
      /\ q.evidence = [p.evidence EXCEPT ![s] = {}]
  BY DEF RegisterStep, Progress
<1>2. q.planned \in Seq(Steps)
  BY <1>1, PlannedAfterAppend DEF Progress
<1>3. /\ q.completed \in SUBSET Steps /\ q.deps \in [Steps -> SUBSET Steps]
      /\ q.evidence \in [Steps -> SUBSET Evidence] /\ q.current \in Steps \cup {NoStep}
  BY <1>1 DEF Progress
<1>4. q.status \in [Steps -> Statuses] /\ q.phase \in [Steps -> Phases]
  BY <1>1 DEF Progress, Statuses, Phases
<1> QED
  BY <1>1, <1>2, <1>3, <1>4 DEF Progress, RegisterStep

LEMMA CompleteType ==
  ASSUME NEW p \in Progress, NEW s \in Steps, NEW E \in SUBSET Evidence
  PROVE  CompleteStep(p, s, E) \in Progress
<1> DEFINE d == MarkCompleted(p, s, E)
           next == NextExecutable(d)
           q == CompleteStep(p, s, E)
<1>1. /\ d.planned = p.planned /\ d.deps = p.deps /\ d.current = p.current
      /\ d.completed = p.completed \cup {s}
      /\ d.status = [p.status EXCEPT ![s] = "completed"]
      /\ d.phase = [p.phase EXCEPT ![s] = IF s \in TddRequired THEN "completed" ELSE "waived"]
      /\ d.evidence = [p.evidence EXCEPT ![s] = @ \cup E]
  BY DEF MarkCompleted, Progress
<1>2. d \in Progress
  <2>1. d.status \in [Steps -> Statuses] /\ d.phase \in [Steps -> Phases]
    BY <1>1 DEF Progress, Statuses, Phases
  <2>2. d.evidence \in [Steps -> SUBSET Evidence] /\ d.completed \in SUBSET Steps
    BY <1>1 DEF Progress
  <2> QED
    BY <1>1, <2>1, <2>2 DEF MarkCompleted, Progress
<1>3. next \in Steps \cup {NoStep}
  BY <1>2, NextExecutableType, PlannedInSteps
<1> HIDE DEF d, next
<1>4. q.status = IF next = NoStep THEN d.status
                 ELSE [c \in Steps |->
                         IF d.status[c] = "in_progress" /\ c # s /\ c # next
                           THEN "planned" ELSE d.status[c]]
  BY <1>2 DEF CompleteStep, Progress, d, next
<1>5. q.status \in [Steps -> Statuses]
  BY <1>2, <1>4 DEF Progress, Statuses
<1> QED
  BY <1>2, <1>3, <1>5 DEF CompleteStep, Progress, d, next

\* A command that takes nothing back and completes no step, or one that was
\* ready and has its evidence, keeps the completed steps justified.
LEMMA StaysJustified ==
  ASSUME NEW p \in Progress, NEW q \in Progress, NEW s \in Planned(p),
         Extends(p, q), DependenciesFirst(p), EvidenceRecorded(p),
         \/ q.completed = p.completed
         \/ /\ q.completed = p.completed \cup {s}
            /\ IsReady(p, s)
            /\ s \in TddRequired => q.evidence[s] = Evidence
  PROVE  DependenciesFirst(q) /\ EvidenceRecorded(q)
<1>1. ASSUME NEW t \in q.completed
      PROVE  t \in Planned(p) /\ IsReady(p, t)
  BY <1>1 DEF DependenciesFirst
<1>2. DependenciesFirst(q)
  <2> SUFFICES ASSUME NEW t \in q.completed
               PROVE  t \in Planned(q) /\ IsReady(q, t)
    BY DEF DependenciesFirst
  <2> QED
    BY <1>1 DEF Extends, IsReady
<1>3. EvidenceRecorded(q)
  <2> SUFFICES ASSUME NEW t \in q.completed \cap TddRequired
               PROVE  q.evidence[t] = Evidence
    BY DEF EvidenceRecorded
  <2>1. t \in Steps /\ q.evidence[t] \in SUBSET Evidence
    BY <1>1, PlannedInSteps DEF Progress
  <2>2. CASE t \in p.completed
    BY <2>1, <2>2, <1>1 DEF EvidenceRecorded, Extends
  <2>3. CASE t \notin p.completed
    BY <2>3
  <2> QED
    BY <2>2, <2>3
<1> QED
  BY <1>2, <1>3

\* The same for a registration, which plans a step and completes none.
LEMMA RegistrationJustified ==
  ASSUME NEW p \in Progress, NEW q \in Progress,
         Extends(p, q), DependenciesFirst(p), EvidenceRecorded(p),
         q.completed = p.completed
  PROVE  DependenciesFirst(q) /\ EvidenceRecorded(q)
<1>1. DependenciesFirst(q)
  BY DEF DependenciesFirst, Extends, IsReady
<1>2. EvidenceRecorded(q)
  <2> SUFFICES ASSUME NEW t \in q.completed \cap TddRequired
               PROVE  q.evidence[t] = Evidence
    BY DEF EvidenceRecorded
  <2>1. t \in Planned(p) /\ p.evidence[t] = Evidence
    BY DEF DependenciesFirst, EvidenceRecorded
  <2>2. q.evidence[t] \in SUBSET Evidence
    BY <2>1, PlannedInSteps DEF Progress
  <2> QED
    BY <2>1, <2>2 DEF Extends
<1> QED
  BY <1>1, <1>2

----------------------------------------------------------------------------

\* A set of numbers that is not empty has a smallest member.
LEMMA SmallestIn ==
  ASSUME NEW S \in SUBSET Nat, S # {}
  PROVE  \E n \in S : \A m \in S : n <= m
<1>1. PICK n \in S : \A m \in S : ~ (<<m, n>> \in OpToRel(<, Nat))
  BY NatLessThanWellFounded, WFMin
<1>2. \A m \in S : ~ (m < n)
  BY <1>1 DEF OpToRel
<1> QED
  BY <1>2

\* In an ordered plan the first step that is not completed can be executed.
LEMMA OrderedPlanMoves ==
  ASSUME NEW p \in Progress, PlanOrdered(p)
  PROVE  Planned(p) \subseteq p.completed \/ NextExecutable(p) # NoStep
<1> SUFFICES ASSUME NEW s \in Planned(p), s \notin p.completed
             PROVE  NextExecutable(p) # NoStep
  OBVIOUS
<1> DEFINE Open == {i \in DOMAIN p.planned : p.planned[i] \notin p.completed}
<1>1. DOMAIN p.planned \in SUBSET Nat /\ \A i \in DOMAIN p.planned : p.planned[i] \in Steps
  BY DEF Progress
<1>2. Open \in SUBSET Nat /\ Open # {}
  BY <1>1 DEF Planned, ToSet
<1>3. PICK i \in Open : \A j \in Open : i <= j
  BY <1>2, SmallestIn
<1>4. Before(p, i) \subseteq p.completed
  <2> SUFFICES ASSUME NEW k \in DOMAIN p.planned, k < i
               PROVE  p.planned[k] \in p.completed
    BY DEF Before
  <2>1. ~ (i <= k)
    BY <1>1
  <2> QED
    BY <1>3, <2>1
<1>5. i \in ReadyPositions(p)
  BY <1>1, <1>4 DEF PlanOrdered, ReadyPositions, IsReady
<1>6. ReadyPositions(p) \in SUBSET Nat
  BY <1>1 DEF ReadyPositions
<1>7. \E f \in DOMAIN p.planned : IsFirst(f, ReadyPositions(p))
  <2>1. PICK f \in ReadyPositions(p) : \A j \in ReadyPositions(p) : f <= j
    BY <1>5, <1>6, SmallestIn
  <2> QED
    BY <2>1 DEF IsFirst, ReadyPositions
<1> DEFINE first == CHOOSE f \in DOMAIN p.planned : IsFirst(f, ReadyPositions(p))
<1>8. first \in DOMAIN p.planned
  BY <1>7
<1>9. NextExecutable(p) = p.planned[first]
  BY <1>7 DEF NextExecutable
<1> QED
  BY <1>1, <1>8, <1>9, StepAssumption

\* A plan that keeps its order and its dependencies, and marks no step as
\* completed without listing it, stays ordered.
LEMMA SamePlanOrdered ==
  ASSUME NEW p \in Progress, NEW q \in Progress, PlanOrdered(p),
         q.planned = p.planned, q.deps = p.deps,
         \A s \in Steps : q.status[s] = "completed" => s \in q.completed
  PROVE  PlanOrdered(q)
BY DEF PlanOrdered, Before

\* Registering a step behind its dependencies keeps the plan ordered.
LEMMA RegisterOrdered ==
  ASSUME NEW p \in Progress, NEW s \in Steps, NEW D \in SUBSET Planned(p),
         s \notin Planned(p), PlanOrdered(p)
  PROVE  PlanOrdered(RegisterStep(p, s, D))
<1> DEFINE q == RegisterStep(p, s, D)
<1>1. /\ q.planned = Append(p.planned, s) /\ q.completed = p.completed
      /\ q.deps = [p.deps EXCEPT ![s] = D]
      /\ q.status = [p.status EXCEPT ![s] = "planned"]
  BY DEF RegisterStep, Progress
<1> HIDE DEF q
<1>2. \A t \in Steps : q.status[t] = "completed" => t \in q.completed
  BY <1>1 DEF Progress, PlanOrdered
<1>3. /\ p.planned \in Seq(Steps) /\ Len(p.planned) \in Nat
      /\ DOMAIN p.planned = 1..Len(p.planned)
      /\ DOMAIN q.planned = 1..(Len(p.planned) + 1)
      /\ q.planned[Len(p.planned) + 1] = s
      /\ \A i \in DOMAIN p.planned : q.planned[i] = p.planned[i]
  BY <1>1 DEF Progress
<1>4. ASSUME NEW i \in DOMAIN q.planned
      PROVE  q.deps[q.planned[i]] \subseteq Before(q, i)
  <2>1. CASE i \in DOMAIN p.planned
    <3>1. p.planned[i] \in Planned(p) /\ p.planned[i] \in Steps
      BY <1>3, <2>1 DEF Planned, ToSet
    <3>2. q.deps[q.planned[i]] = p.deps[p.planned[i]]
      BY <1>1, <1>3, <2>1, <3>1 DEF Progress
    <3>3. Before(p, i) \subseteq Before(q, i)
      BY <1>3, <2>1 DEF Before
    <3> QED
      BY <2>1, <3>2, <3>3 DEF PlanOrdered
  <2>2. CASE i = Len(p.planned) + 1
    <3>1. q.deps[q.planned[i]] = D
      BY <1>1, <1>3, <2>2 DEF Progress
    <3>2. Planned(p) \subseteq Before(q, i)
      BY <1>3, <2>2 DEF Planned, ToSet, Before
    <3> QED
      BY <3>1, <3>2
  <2> QED
    BY <1>3, <2>1, <2>2
<1>5. PlanOrdered(q)
  BY <1>2, <1>4 DEF PlanOrdered
<1> QED
  BY <1>5 DEF q

\* Starting, checkpointing and completing keep the plan's order.
LEMMA StartOrdered ==
  ASSUME NEW p \in Progress, NEW s \in Steps, PlanOrdered(p)
  PROVE  PlanOrdered(StartStep(p, s)) /\ StartStep(p, s).planned = p.planned
<1> DEFINE q == StartStep(p, s)
<1>1. q \in Progress /\ q.planned = p.planned /\ q.completed = p.completed /\ q.deps = p.deps
  BY SetActiveFields DEF StartStep
<1>2. \A t \in Steps : q.status[t] = "completed" => p.status[t] = "completed"
  BY DEF StartStep, SetActive, Progress
<1> HIDE DEF q
<1>3. PlanOrdered(q)
  BY <1>1, <1>2, SamePlanOrdered DEF PlanOrdered
<1> QED
  BY <1>1, <1>3 DEF q

LEMMA CheckpointOrdered ==
  ASSUME NEW p \in Progress, NEW s \in Steps, PlanOrdered(p),
         NEW f \in Phases \cup {NoPhase}, NEW E \in SUBSET Evidence
  PROVE  /\ PlanOrdered(CheckpointStep(p, s, f, E))
         /\ CheckpointStep(p, s, f, E).planned = p.planned
<1> DEFINE a == SetActive(p, s)
           q == CheckpointStep(p, s, f, E)
<1>1. /\ a \in Progress /\ a.planned = p.planned
      /\ a.completed = p.completed /\ a.deps = p.deps
  BY SetActiveFields
<1>6. \A t \in Steps : a.status[t] = "completed" => p.status[t] = "completed"
  BY DEF SetActive, Progress
<1> HIDE DEF a
<1>2. /\ q.planned = a.planned /\ q.completed = a.completed /\ q.deps = a.deps
      /\ q.status = [a.status EXCEPT ![s] = "in_progress"]
  BY <1>1 DEF CheckpointStep, Progress, a
<1>3. q \in Progress
  BY CheckpointKeeps
<1> HIDE DEF q
<1>4. \A t \in Steps : q.status[t] = "completed" => p.status[t] = "completed"
  BY <1>1, <1>2, <1>6 DEF Progress
<1>5. PlanOrdered(q) /\ q.planned = p.planned
  BY <1>1, <1>2, <1>3, <1>4, SamePlanOrdered DEF PlanOrdered
<1> QED
  BY <1>5 DEF q

LEMMA CompleteOrdered ==
  ASSUME NEW p \in Progress, NEW s \in Planned(p), PlanOrdered(p), NEW E \in SUBSET Evidence
  PROVE  PlanOrdered(CompleteStep(p, s, E)) /\ CompleteStep(p, s, E).planned = p.planned
<1> DEFINE d == MarkCompleted(p, s, E)
           next == NextExecutable(d)
           q == CompleteStep(p, s, E)
<1>1. s \in Steps
  BY PlannedInSteps
<1>2. /\ d.planned = p.planned /\ d.deps = p.deps
      /\ d.completed = p.completed \cup {s}
      /\ d.status = [p.status EXCEPT ![s] = "completed"]
  BY DEF MarkCompleted, Progress
<1>3. /\ q.planned = d.planned /\ q.completed = d.completed /\ q.deps = d.deps
      /\ q.status = IF next = NoStep THEN d.status
                    ELSE [c \in Steps |->
                            IF d.status[c] = "in_progress" /\ c # s /\ c # next
                              THEN "planned" ELSE d.status[c]]
  BY DEF CompleteStep, MarkCompleted, Progress
<1>4. q \in Progress
  BY CompleteKeeps
<1> HIDE DEF d, next, q
<1>5. \A t \in Steps : q.status[t] = "completed" => t \in q.completed
  <2>1. \A t \in Steps : q.status[t] = "completed" => d.status[t] = "completed"
    BY <1>3
  <2> QED
    BY <1>1, <1>2, <1>3, <2>1 DEF Progress, PlanOrdered
<1>6. PlanOrdered(q) /\ q.planned = p.planned
  BY <1>2, <1>3, <1>4, <1>5, SamePlanOrdered
<1> QED
  BY <1>6 DEF q

\* The order of the plan is only ever prolonged.
LEMMA PlanProlonged ==
  ASSUME NEW old \in Seq(Steps), NEW new \in Seq(Steps),
         new = old \/ \E s \in Steps : new = Append(old, s)
  PROVE  IsPrefix(old, new)
<1>1. /\ Len(old) \in Nat /\ Len(new) \in Nat /\ Len(old) <= Len(new)
      /\ \A i \in 1..Len(old) : old[i] = new[i]
  OBVIOUS
<1>2. SubSeq(old, 1, Len(old)) = SubSeq(new, 1, Len(old))
  <2>1. SubSeq(old, 1, Len(old)) = [i \in 1..Len(old) |-> old[i]]
    BY <1>1
  <2>2. SubSeq(new, 1, Len(old)) = [i \in 1..Len(old) |-> new[i]]
    BY <1>1
  <2> QED
    BY <1>1, <2>1, <2>2
<1> QED
  BY <1>1, <1>2 DEF IsPrefix

(***************************************************************************)
(* The runtime.                                                            *)
(***************************************************************************)

HasBase(c) == c.pc \in {"loaded", "ready"}
ReadsBase(c) == c.pc \in {"revision_read", "loaded", "ready"}
PastRules(c) == c.kind \in ImplementKinds /\ c.pc \in {"validated", "revision_read", "ready"}

\* What the rules established for an implementation command.
StillAllowed(p, c) ==
  /\ c.step \in Planned(p)
  /\ c.kind = "complete" => /\ IsReady(p, c.step)
                            /\ c.step \in TddRequired => Evidence \subseteq p.evidence[c.step] \cup c.ev

Known(w) ==
  LET c == cmd[w]
  IN  /\ c.expected # NoRevision => c.expected <= revision
      /\ ReadsBase(c) => /\ c.baseRev <= revision
                         /\ c.expected # NoRevision => c.expected <= c.baseRev
      /\ c.pc = "loaded" => c.kind = "register"
      /\ HasBase(c) /\ c.baseRev = revision => c.base = progress
      /\ PastRules(c) => StillAllowed(progress, c)
      /\ c.kind = "register" /\ c.pc # "idle" /\ c.pc # "returning" => c.step \in Steps
      /\ c.kind = "register" /\ c.pc = "ready" => /\ c.step \notin Planned(c.base)
                                                  /\ c.deps \subseteq Planned(progress)
      /\ c.kind # "register" /\ c.pc = "releasing" => c.step \in Steps

IInv == /\ TypeOK
        /\ DependenciesFirst(progress)
        /\ EvidenceRecorded(progress)
        /\ OneInProgress(progress)
        /\ PlanOrdered(progress)
        /\ \A w \in Writers : Known(w)

USE StepAssumption, WriterAssumption, ScopeAssumption, InputAssumption, BoundAssumption

----------------------------------------------------------------------------

LEMMA EmptyProgressType == EmptyProgress \in Progress /\ Planned(EmptyProgress) = {}
<1>1. EmptyProgress \in Progress
  BY DEF EmptyProgress, Progress, Statuses, Phases
<1>2. Planned(EmptyProgress) = {}
  BY DEF EmptyProgress, Planned, ToSet
<1> QED
  BY <1>1, <1>2

LEMMA IdleType == Idle \in Command
BY EmptyProgressType DEF Idle, Command, Control, Kinds, ImplementKinds, NoRevision, NoPhase

\* The initial states satisfy the inductive invariant.
LEMMA InitInvariant == Init => IInv
<1> SUFFICES ASSUME Init PROVE IInv
  OBVIOUS
<1>1. TypeOK
  BY EmptyProgressType, IdleType
     DEF Init, TypeOK, NoLease, Lease, Owners
<1>2. /\ DependenciesFirst(progress) /\ EvidenceRecorded(progress) /\ OneInProgress(progress)
      /\ PlanOrdered(progress)
  BY DEF Init, EmptyProgress, DependenciesFirst, EvidenceRecorded, OneInProgress, PlanOrdered
<1>3. ASSUME NEW w \in Writers PROVE Known(w)
  BY DEF Init, Known, Idle, ReadsBase, HasBase, PastRules, NoRevision, ImplementKinds
<1> QED
  BY <1>1, <1>2, <1>3 DEF IInv

----------------------------------------------------------------------------

\* What the rules established survives every command that takes nothing back.
LEMMA AllowedIsStable ==
  ASSUME NEW p \in Progress, NEW q \in Progress, NEW c \in Command,
         Extends(p, q), StillAllowed(p, c)
  PROVE  StillAllowed(q, c)
BY DEF StillAllowed, Extends, IsReady

\* A command in memory stays right when another one's step leaves the
\* canonical state alone, or moves its revision on.
LEMMA OthersKnow ==
  ASSUME IInv, NEW v \in Writers, cmd'[v] = cmd[v], progress' \in Progress,
         Extends(progress, progress'),
         \/ revision' = revision /\ progress' = progress
         \/ revision' = revision + 1
  PROVE  Known(v)'
<1>1. /\ Known(v) /\ cmd[v] \in Command /\ progress \in Progress /\ revision \in Nat
      /\ cmd[v].baseRev \in Nat /\ cmd[v].expected \in Nat \cup {NoRevision}
  BY DEF IInv, TypeOK, Command
<1>2. StillAllowed(progress, cmd[v]) => StillAllowed(progress', cmd[v])
  BY <1>1, AllowedIsStable
<1>3. Planned(progress) \subseteq Planned(progress')
  BY DEF Extends
<1>4. CASE revision' = revision /\ progress' = progress
  BY <1>1, <1>4 DEF Known
<1>5. CASE revision' = revision + 1
  <2>1. cmd[v].expected # NoRevision => cmd[v].expected <= revision'
    BY <1>1, <1>5 DEF Known, NoRevision
  <2>2. ReadsBase(cmd[v]) => /\ cmd[v].baseRev <= revision' /\ cmd[v].baseRev # revision'
                             /\ cmd[v].expected # NoRevision => cmd[v].expected <= cmd[v].baseRev
    BY <1>1, <1>5 DEF Known
  <2>3. HasBase(cmd[v]) => ReadsBase(cmd[v])
    BY DEF HasBase, ReadsBase
  <2> QED
    BY <1>1, <1>2, <1>3, <2>1, <2>2, <2>3 DEF Known
<1> QED
  BY <1>4, <1>5

\* The canonical state extends itself.
LEMMA ExtendsReflexive ==
  ASSUME NEW p \in Progress
  PROVE  Extends(p, p)
BY DEF Extends

\* A step that leaves the canonical state alone and moves one process keeps the
\* invariant, when it keeps the types and what that process knows.
LEMMA QuietStep ==
  ASSUME IInv, NEW w \in Writers, NEW c \in Command,
         cmd' = [cmd EXCEPT ![w] = c],
         leases' \in [Scopes -> Lease],
         UNCHANGED <<revision, progress, sessionStep>>,
         Known(w)'
  PROVE  IInv'
<1>1. TypeOK'
  BY DEF IInv, TypeOK
<1>2. ASSUME NEW v \in Writers PROVE Known(v)'
  <2>1. CASE v = w
    BY <2>1
  <2>2. CASE v # w
    <3>1. cmd'[v] = cmd[v]
      BY <2>2 DEF IInv, TypeOK
    <3>2. Extends(progress, progress') /\ progress' \in Progress
      BY ExtendsReflexive DEF IInv, TypeOK
    <3> QED
      BY <3>1, <3>2, OthersKnow
  <2> QED
    BY <2>1, <2>2
<1> QED
  BY <1>1, <1>2 DEF IInv

\* Nothing is known of a process between its commands, or on its way out.
LEMMA NothingToKnow ==
  ASSUME NEW w \in Writers, cmd'[w].expected = NoRevision,
         \/ cmd'[w].pc \in {"idle", "returning"}
         \/ cmd'[w].pc = "releasing" /\ cmd'[w].step \in Steps
  PROVE  Known(w)'
BY DEF Known, ReadsBase, HasBase, PastRules

----------------------------------------------------------------------------

LEMMA ToIdle ==
  ASSUME IInv, NEW w \in Writers,
         cmd' = [cmd EXCEPT ![w] = Idle],
         leases' \in [Scopes -> Lease],
         UNCHANGED <<revision, progress, sessionStep>>
  PROVE  IInv'
<1>1. cmd'[w] = Idle
  BY DEF IInv, TypeOK
<1>2. Known(w)'
  BY <1>1, NothingToKnow DEF Idle
<1> QED
  BY <1>2, IdleType, QuietStep

LEMMA LeasesType ==
  ASSUME IInv
  PROVE  leases \in [Scopes -> Lease]
BY DEF IInv, TypeOK

LEMMA BeginInvariant ==
  ASSUME IInv, NEW w \in Writers, Begin(w)
  PROVE  IInv'
<1>1. PICK expected \in {NoRevision, revision} :
        \/ \E s \in Steps : \E deps \in SUBSET (Steps \ {s}) :
             BeginRegister(w, s, deps, expected)
        \/ \E kind \in ImplementKinds, s \in Steps \cup {NoStep}, input \in Inputs :
             BeginImplement(w, kind, s, input, expected)
  BY DEF Begin
<1>2. /\ expected \in Nat \cup {NoRevision} /\ revision \in Nat
      /\ expected # NoRevision => expected <= revision
  BY DEF IInv, TypeOK
<1>3. leases' \in [Scopes -> Lease] /\ UNCHANGED <<revision, progress, sessionStep>>
  BY LeasesType DEF Begin
<1>4. CASE \E s \in Steps : \E deps \in SUBSET (Steps \ {s}) :
             BeginRegister(w, s, deps, expected)
  <2>0. PICK s \in Steps : \E deps \in SUBSET (Steps \ {s}) : BeginRegister(w, s, deps, expected)
    BY <1>4
  <2>1. PICK deps \in SUBSET (Steps \ {s}) : BeginRegister(w, s, deps, expected)
    BY <2>0
  <2> DEFINE c == [Idle EXCEPT !.pc = "called", !.kind = "register",
                               !.step = s, !.deps = deps, !.expected = expected]
  <2>2. c \in Command
    BY <1>2, IdleType DEF Command, Control, Kinds
  <2>3. /\ c.pc = "called" /\ c.kind = "register" /\ c.step = s
        /\ c.expected = expected
    BY IdleType DEF Command
  <2>4. cmd' = [cmd EXCEPT ![w] = c]
    BY <2>1 DEF BeginRegister
  <2> HIDE DEF c
  <2>5. cmd'[w] = c
    BY <2>4 DEF IInv, TypeOK
  <2>6. Known(w)'
    BY <1>2, <1>3, <2>3, <2>5 DEF Known, ReadsBase, HasBase, PastRules, ImplementKinds
  <2> QED
    BY <1>3, <2>2, <2>4, <2>6, QuietStep
<1>5. CASE \E kind \in ImplementKinds, s \in Steps \cup {NoStep}, input \in Inputs :
             BeginImplement(w, kind, s, input, expected)
  <2>1. PICK kind \in ImplementKinds, s \in Steps \cup {NoStep}, input \in Inputs :
          BeginImplement(w, kind, s, input, expected)
    BY <1>5
  <2> DEFINE phase == IF kind = "checkpoint" THEN input.phase ELSE NoPhase
             ev == IF kind = "start" THEN {} ELSE input.ev
             c == [Idle EXCEPT !.pc = "called", !.kind = kind, !.explicit = s,
                               !.phase = phase, !.ev = ev, !.expected = expected]
  <2>2. phase \in Phases \cup {NoPhase} /\ ev \in SUBSET Evidence
    OBVIOUS
  <2>3. cmd' = [cmd EXCEPT ![w] = c]
    BY <2>1 DEF BeginImplement
  <2> HIDE DEF phase, ev
  <2>4. c \in Command
    BY <1>2, <2>2, IdleType DEF Command, Control, Kinds
  <2>5. c.pc = "called" /\ c.kind = kind /\ c.expected = expected
    BY IdleType DEF Command
  <2> HIDE DEF c
  <2>6. cmd'[w] = c
    BY <2>3 DEF IInv, TypeOK
  <2>7. Known(w)'
    BY <1>2, <1>3, <2>5, <2>6 DEF Known, ReadsBase, HasBase, PastRules, ImplementKinds
  <2> QED
    BY <1>3, <2>3, <2>4, <2>7, QuietStep
<1> QED
  BY <1>1, <1>4, <1>5

\* A resolved step is a step, or none.
LEMMA ResolvedType ==
  ASSUME TypeOK, NEW w \in Writers
  PROVE  Resolved(w, progress) \in Steps \cup {NoStep}
<1>1. /\ cmd[w].explicit \in Steps \cup {NoStep}
      /\ sessionStep[SessionOf[w]] \in Steps \cup {NoStep}
      /\ progress.current \in Steps \cup {NoStep}
      /\ NextExecutable(progress) \in Steps \cup {NoStep}
  BY NextExecutableType, PlannedInSteps DEF TypeOK, Command, Progress
<1> QED
  BY <1>1 DEF Resolved, ResolveStep

LEMMA ValidateStepInvariant ==
  ASSUME IInv, NEW w \in Writers, ValidateStep(w)
  PROVE  IInv'
<1> DEFINE s == Resolved(w, progress)
           c == [cmd[w] EXCEPT !.pc = "validated", !.step = s]
<1>1. cmd[w] \in Command /\ progress \in Progress /\ Known(w) /\ cmd[w].pc = "called"
  BY DEF IInv, TypeOK, ValidateStep
<1>2. s \in Steps
  BY ResolvedType DEF IInv, ValidateStep
<1>3. cmd' = [cmd EXCEPT ![w] = c]
  BY DEF ValidateStep, IInv, TypeOK
<1>4. c \in Command
  BY <1>1, <1>2 DEF Command, Control
<1>5. /\ c.pc = "validated" /\ c.step = s /\ c.kind = cmd[w].kind
      /\ c.ev = cmd[w].ev /\ c.expected = cmd[w].expected
  BY <1>1 DEF Command
<1>6. c.kind \in ImplementKinds /\ Rules(progress, cmd[w], s)
  BY <1>5 DEF ValidateStep
<1>7. StillAllowed(progress, c)
  <2>1. CASE c.kind = "start"
    BY <1>5, <1>6, <2>1 DEF Rules, CanStart, Selectable, StillAllowed
  <2>2. CASE c.kind = "checkpoint"
    BY <1>5, <1>6, <2>2 DEF Rules, CanCheckpoint, Selectable, StillAllowed
  <2>3. CASE c.kind = "complete"
    <3>1. CanComplete(progress, s, c.ev)
      BY <1>5, <1>6, <2>3 DEF Rules
    <3> QED
      BY <1>5, <3>1 DEF CanComplete, Selectable, StillAllowed
  <2> QED
    BY <1>6, <2>1, <2>2, <2>3 DEF ImplementKinds
<1> HIDE DEF c, s
<1>8. cmd'[w] = c /\ leases' \in [Scopes -> Lease] /\ UNCHANGED <<revision, progress, sessionStep>>
  BY <1>3, LeasesType DEF IInv, TypeOK, ValidateStep
<1>9. Known(w)'
  BY <1>1, <1>2, <1>5, <1>6, <1>7, <1>8
     DEF Known, ReadsBase, HasBase, ImplementKinds
<1> QED
  BY <1>3, <1>4, <1>8, <1>9, QuietStep

LEMMA ReadRevisionInvariant ==
  ASSUME IInv, NEW w \in Writers, ReadRevision(w)
  PROVE  IInv'
<1> DEFINE c == [cmd[w] EXCEPT !.pc = "revision_read", !.baseRev = revision]
<1>1. /\ cmd[w] \in Command /\ Known(w) /\ revision \in Nat
      /\ \/ cmd[w].pc = "validated"
         \/ cmd[w].pc = "called" /\ cmd[w].kind = "register"
  BY DEF IInv, TypeOK, ReadRevision
<1>2. cmd' = [cmd EXCEPT ![w] = c]
  BY DEF ReadRevision, IInv, TypeOK
<1>3. c \in Command
  BY <1>1 DEF Command, Control
<1>4. /\ c.pc = "revision_read" /\ c.baseRev = revision
      /\ c.step = cmd[w].step /\ c.kind = cmd[w].kind
      /\ c.ev = cmd[w].ev /\ c.expected = cmd[w].expected
  BY <1>1 DEF Command
<1> HIDE DEF c
<1>5. cmd'[w] = c /\ leases' \in [Scopes -> Lease] /\ UNCHANGED <<revision, progress, sessionStep>>
  BY <1>2, LeasesType DEF IInv, TypeOK, ReadRevision
<1>6. PastRules(c) => StillAllowed(progress, c)
  BY <1>1, <1>4 DEF Known, PastRules, StillAllowed, ImplementKinds
<1>7. c.kind = "register" => c.step \in Steps
  BY <1>1, <1>4 DEF Known
<1>8. Known(w)'
  BY <1>1, <1>4, <1>5, <1>6, <1>7 DEF Known, ReadsBase, HasBase
<1> QED
  BY <1>2, <1>3, <1>5, <1>8, QuietStep

LEMMA ReadSnapshotInvariant ==
  ASSUME IInv, NEW w \in Writers, ReadSnapshot(w)
  PROVE  IInv'
<1> DEFINE c == [cmd[w] EXCEPT !.pc = IF cmd[w].kind = "register" THEN "loaded" ELSE "ready",
                               !.base = progress]
<1>1. /\ cmd[w] \in Command /\ Known(w) /\ progress \in Progress
      /\ cmd[w].pc = "revision_read"
  BY DEF IInv, TypeOK, ReadSnapshot
<1>2. cmd' = [cmd EXCEPT ![w] = c]
  BY DEF ReadSnapshot, IInv, TypeOK
<1>3. c \in Command
  BY <1>1 DEF Command, Control
<1>4. /\ c.pc = IF cmd[w].kind = "register" THEN "loaded" ELSE "ready"
      /\ c.base = progress /\ c.baseRev = cmd[w].baseRev
      /\ c.step = cmd[w].step /\ c.kind = cmd[w].kind
      /\ c.ev = cmd[w].ev /\ c.expected = cmd[w].expected
  BY <1>1 DEF Command
<1> HIDE DEF c
<1>5. cmd'[w] = c /\ leases' \in [Scopes -> Lease] /\ UNCHANGED <<revision, progress, sessionStep>>
  BY <1>2, LeasesType DEF IInv, TypeOK, ReadSnapshot
<1>6. PastRules(c) => StillAllowed(progress, c)
  BY <1>1, <1>4 DEF Known, PastRules, StillAllowed, ImplementKinds
<1>7. Known(w)'
  BY <1>1, <1>4, <1>5, <1>6 DEF Known, ReadsBase
<1> QED
  BY <1>2, <1>3, <1>5, <1>7, QuietStep

LEMMA ValidateRegistrationInvariant ==
  ASSUME IInv, NEW w \in Writers, ValidateRegistration(w)
  PROVE  IInv'
<1> DEFINE c == [cmd[w] EXCEPT !.pc = "ready"]
<1>1. /\ cmd[w] \in Command /\ Known(w) /\ cmd[w].pc = "loaded"
  BY DEF IInv, TypeOK, ValidateRegistration
<1>2. cmd' = [cmd EXCEPT ![w] = c]
  BY DEF ValidateRegistration, IInv, TypeOK
<1>3. c \in Command
  BY <1>1 DEF Command, Control
<1>4. /\ c.pc = "ready" /\ c.base = cmd[w].base /\ c.baseRev = cmd[w].baseRev
      /\ c.step = cmd[w].step /\ c.kind = cmd[w].kind /\ c.deps = cmd[w].deps
      /\ c.ev = cmd[w].ev /\ c.expected = cmd[w].expected
  BY <1>1 DEF Command
<1> HIDE DEF c
<1>5. cmd'[w] = c /\ leases' \in [Scopes -> Lease] /\ UNCHANGED <<revision, progress, sessionStep>>
  BY <1>2, LeasesType DEF IInv, TypeOK, ValidateRegistration
<1>6. c.kind = "register" => c.step \notin Planned(c.base) /\ c.deps \subseteq Planned(progress)
  BY <1>4 DEF ValidateRegistration, Rules, CanRegister
<1>7. Known(w)'
  BY <1>1, <1>4, <1>5, <1>6 DEF Known, ReadsBase, HasBase, PastRules, ImplementKinds
<1> QED
  BY <1>2, <1>3, <1>5, <1>7, QuietStep

----------------------------------------------------------------------------

\* The state an accepted plan is built from is the canonical one: a base whose
\* revision is still the store's is the store's progress.
LEMMA CurrentIsCanonical ==
  ASSUME IInv, NEW w \in Writers, cmd[w].pc = "ready"
  PROVE  Current(cmd[w]) = progress
BY DEF IInv, Known, HasBase, Current

\* What an accepted command needs still holds when it commits.
LEMMA ReadyAtCommit ==
  ASSUME IInv, NEW w \in Writers, cmd[w].pc = "ready", ~HasConflict(w)
  PROVE  /\ cmd[w].step \in Steps
         /\ cmd[w].kind # "register" => StillAllowed(progress, cmd[w])
         /\ cmd[w].kind = "register" => /\ cmd[w].step \notin Planned(progress)
                                        /\ cmd[w].deps \subseteq Planned(progress)
<1> DEFINE c == cmd[w]
<1>1. Known(w) /\ c \in Command /\ revision \in Nat /\ progress \in Progress
  BY DEF IInv, TypeOK
<1>2. c.kind # "register" => PastRules(c)
  BY <1>1 DEF PastRules, Command, Kinds
<1>3. c.kind # "register" => StillAllowed(progress, c)
  BY <1>1, <1>2 DEF Known
<1>4. c.step \in Steps
  BY <1>1, <1>3, PlannedInSteps DEF Known, StillAllowed
<1>5. ASSUME c.kind = "register"
      PROVE  c.step \notin Planned(progress) /\ c.deps \subseteq Planned(progress)
  <2>1. c.step \notin Planned(c.base) /\ c.deps \subseteq Planned(progress)
    BY <1>1, <1>5 DEF Known
  <2>2. CASE revision = c.baseRev
    <3>1. c.base = progress
      BY <1>1, <2>2 DEF Known, HasBase
    <3> QED
      BY <2>1, <3>1
  <2>3. CASE revision # c.baseRev
    <3>1. revision # Expected(c)
      BY <1>1, <2>3 DEF Expected, Known, ReadsBase, Command, NoRevision
    <3>2. ~DetectConflict(w, progress)
      BY <3>1, CurrentIsCanonical DEF HasConflict
    <3> QED
      BY <1>5, <2>1, <3>2 DEF DetectConflict
  <2> QED
    BY <2>2, <2>3
<1> QED
  BY <1>3, <1>4, <1>5

\* What an accepted write is: the plan of its command, on the canonical state.
LEMMA AcceptedIsPlanned ==
  ASSUME IInv, NEW w \in Writers, Accept(w)
  PROVE  /\ cmd[w].step \in Steps /\ cmd[w].deps \in SUBSET Steps
         /\ cmd[w].ev \in SUBSET Evidence /\ cmd[w].phase \in Phases \cup {NoPhase}
         /\ \/ /\ cmd[w].kind = "register"
               /\ cmd[w].step \notin Planned(progress) /\ cmd[w].deps \subseteq Planned(progress)
               /\ progress' = RegisterStep(progress, cmd[w].step, cmd[w].deps)
            \/ cmd[w].kind = "start" /\ progress' = StartStep(progress, cmd[w].step)
            \/ /\ cmd[w].kind = "checkpoint"
               /\ progress' = CheckpointStep(progress, cmd[w].step, cmd[w].phase, cmd[w].ev)
            \/ /\ cmd[w].kind = "complete"
               /\ cmd[w].step \in Planned(progress) /\ IsReady(progress, cmd[w].step)
               /\ cmd[w].step \in TddRequired =>
                    Evidence \subseteq progress.evidence[cmd[w].step] \cup cmd[w].ev
               /\ progress' = CompleteStep(progress, cmd[w].step, cmd[w].ev)
<1>1. cmd[w] \in Command
  BY DEF IInv, TypeOK
<1>2. progress' = Plan(progress, cmd[w]) /\ cmd[w].pc = "ready" /\ ~HasConflict(w)
  BY CurrentIsCanonical DEF Accept
<1>3. /\ cmd[w].step \in Steps
      /\ cmd[w].kind # "register" => StillAllowed(progress, cmd[w])
      /\ cmd[w].kind = "register" => /\ cmd[w].step \notin Planned(progress)
                                     /\ cmd[w].deps \subseteq Planned(progress)
  BY <1>2, ReadyAtCommit
<1> QED
  BY <1>1, <1>2, <1>3 DEF Command, Kinds, ImplementKinds, Plan, StillAllowed

\* What an accepted write does to the canonical progress.
LEMMA AcceptedPlan ==
  ASSUME IInv, NEW w \in Writers, Accept(w)
  PROVE  /\ progress' \in Progress
         /\ Extends(progress, progress')
         /\ DependenciesFirst(progress') /\ EvidenceRecorded(progress')
         /\ OneInProgress(progress')
<1>1. /\ progress \in Progress
      /\ DependenciesFirst(progress) /\ EvidenceRecorded(progress) /\ OneInProgress(progress)
  BY DEF IInv, TypeOK
<1> SUFFICES ASSUME NEW s \in Steps, NEW D \in SUBSET Steps,
                    NEW E \in SUBSET Evidence, NEW f \in Phases \cup {NoPhase},
                    \/ s \notin Planned(progress) /\ progress' = RegisterStep(progress, s, D)
                    \/ progress' = StartStep(progress, s)
                    \/ progress' = CheckpointStep(progress, s, f, E)
                    \/ /\ s \in Planned(progress) /\ IsReady(progress, s)
                       /\ s \in TddRequired => Evidence \subseteq progress.evidence[s] \cup E
                       /\ progress' = CompleteStep(progress, s, E)
             PROVE  /\ progress' \in Progress
                    /\ Extends(progress, progress')
                    /\ DependenciesFirst(progress') /\ EvidenceRecorded(progress')
                    /\ OneInProgress(progress')
  BY AcceptedIsPlanned
<1>2. CASE s \notin Planned(progress) /\ progress' = RegisterStep(progress, s, D)
  <2>0. progress \in Progress /\ s \notin Planned(progress)
    BY <1>1, <1>2
  <2>1. /\ progress' \in Progress /\ Extends(progress, progress')
        /\ progress'.completed = progress.completed
        /\ progress'.status = [progress.status EXCEPT ![s] = "planned"]
    <3>1. Registered(progress, RegisterStep(progress, s, D), s, D)
      BY <2>0, RegisterKeeps, Zenon
    <3> QED
      BY <1>2, <3>1 DEF Registered
  <2>2. OneInProgress(progress')
    BY <1>1, <2>1 DEF OneInProgress, Progress
  <2> QED
    BY <1>1, <2>1, <2>2, RegistrationJustified
<1>3. CASE progress' = StartStep(progress, s) \/ progress' = CheckpointStep(progress, s, f, E)
  <2>1. /\ progress' \in Progress /\ Extends(progress, progress')
        /\ progress'.completed = progress.completed /\ OneInProgress(progress')
    BY <1>1, <1>3, StartKeeps, CheckpointKeeps
  <2> QED
    BY <1>1, <2>1, RegistrationJustified
<1>4. CASE /\ s \in Planned(progress) /\ IsReady(progress, s)
           /\ s \in TddRequired => Evidence \subseteq progress.evidence[s] \cup E
           /\ progress' = CompleteStep(progress, s, E)
  <2>1. /\ progress' \in Progress /\ Extends(progress, progress')
        /\ progress'.completed = progress.completed \cup {s}
        /\ progress'.evidence[s] = progress.evidence[s] \cup E
        /\ OneInProgress(progress')
    BY <1>1, <1>4, CompleteKeeps
  <2>2. s \in TddRequired => progress'.evidence[s] = Evidence
    BY <1>1, <1>4, <2>1 DEF Progress
  <2> QED
    BY <1>1, <1>4, <2>1, <2>2, StaysJustified
<1> QED
  BY <1>2, <1>3, <1>4

\* It only prolongs the plan, which stays an order of its dependencies.
LEMMA AcceptedPlanOrdered ==
  ASSUME IInv, NEW w \in Writers, Accept(w)
  PROVE  PlanOrdered(progress') /\ IsPrefix(progress.planned, progress'.planned)
<1>1. progress \in Progress /\ PlanOrdered(progress) /\ progress.planned \in Seq(Steps)
  BY DEF IInv, TypeOK, Progress
<1> SUFFICES ASSUME NEW s \in Steps, NEW D \in SUBSET Steps,
                    NEW E \in SUBSET Evidence, NEW f \in Phases \cup {NoPhase},
                    \/ /\ s \notin Planned(progress) /\ D \subseteq Planned(progress)
                       /\ progress' = RegisterStep(progress, s, D)
                    \/ progress' = StartStep(progress, s)
                    \/ progress' = CheckpointStep(progress, s, f, E)
                    \/ s \in Planned(progress) /\ progress' = CompleteStep(progress, s, E)
             PROVE  PlanOrdered(progress') /\ IsPrefix(progress.planned, progress'.planned)
  BY AcceptedIsPlanned
<1>2. CASE /\ s \notin Planned(progress) /\ D \subseteq Planned(progress)
           /\ progress' = RegisterStep(progress, s, D)
  <2>1. PlanOrdered(progress')
    BY <1>1, <1>2, RegisterOrdered
  <2>2. progress'.planned = Append(progress.planned, s)
    BY <1>1, <1>2 DEF RegisterStep, Progress
  <2>3. progress'.planned \in Seq(Steps)
    BY <1>1, <2>2
  <2> QED
    BY <1>1, <2>1, <2>2, <2>3, PlanProlonged
<1>3. CASE \/ progress' = StartStep(progress, s)
           \/ progress' = CheckpointStep(progress, s, f, E)
           \/ s \in Planned(progress) /\ progress' = CompleteStep(progress, s, E)
  <2>1. PlanOrdered(progress') /\ progress'.planned = progress.planned
    BY <1>1, <1>3, StartOrdered, CheckpointOrdered, CompleteOrdered
  <2> QED
    BY <1>1, <2>1, PlanProlonged
<1> QED
  BY <1>2, <1>3

----------------------------------------------------------------------------

\* The lease a commit takes is a row of the table.
LEMMA AcquireType ==
  ASSUME IInv, NEW w \in Writers, Scope(cmd[w]) \in Scopes, Acquire(w)
  PROVE  leases' \in [Scopes -> Lease]
<1>1. [owner |-> w, ttl |-> TTL] \in Lease
  BY DEF Lease, Owners
<1> QED
  BY <1>1, LeasesType DEF Acquire

\* A command past its commit is well typed and needs to know nothing more.
LEMMA CommittedKnows ==
  ASSUME IInv, NEW w \in Writers, cmd[w].step \in Steps, Committed(w)
  PROVE  \E c \in Command : cmd' = [cmd EXCEPT ![w] = c] /\ Known(w)'
<1> DEFINE c == [Idle EXCEPT !.pc = "releasing", !.kind = cmd[w].kind, !.step = cmd[w].step]
<1>1. c \in Command
  BY IdleType DEF Command, Control, IInv, TypeOK
<1>2. c.pc = "releasing" /\ c.step = cmd[w].step /\ c.expected = NoRevision
  BY IdleType DEF Command, Idle
<1>3. cmd' = [cmd EXCEPT ![w] = c]
  BY DEF Committed
<1> HIDE DEF c
<1>4. cmd'[w] = c
  BY <1>3 DEF IInv, TypeOK
<1>5. Known(w)'
  BY <1>2, <1>4, NothingToKnow
<1> QED
  BY <1>1, <1>3, <1>5

LEMMA ConflictInvariant ==
  ASSUME IInv, NEW w \in Writers, Conflict(w)
  PROVE  IInv'
<1>1. /\ cmd[w].pc = "ready" /\ Known(w) /\ cmd[w] \in Command /\ progress \in Progress
  BY DEF IInv, TypeOK, Conflict
<1>2. cmd[w].step \in Steps
  <2>1. CASE cmd[w].kind = "register"
    BY <1>1, <2>1 DEF Known
  <2>2. CASE cmd[w].kind # "register"
    <3>1. PastRules(cmd[w])
      BY <1>1, <2>2 DEF PastRules, Command, Kinds
    <3> QED
      BY <1>1, <3>1, PlannedInSteps DEF Known, StillAllowed
  <2> QED
    BY <2>1, <2>2
<1>3. leases' \in [Scopes -> Lease]
  BY <1>2, AcquireType DEF Conflict, Scope, Scopes
<1>4. \E c \in Command : cmd' = [cmd EXCEPT ![w] = c] /\ Known(w)'
  BY <1>2, CommittedKnows DEF Conflict
<1> QED
  BY <1>3, <1>4, QuietStep DEF Conflict

LEMMA AcceptInvariant ==
  ASSUME IInv, NEW w \in Writers, Accept(w)
  PROVE  IInv'
<1>1. /\ progress' \in Progress /\ Extends(progress, progress')
      /\ DependenciesFirst(progress') /\ EvidenceRecorded(progress')
      /\ OneInProgress(progress') /\ PlanOrdered(progress')
  BY AcceptedPlan, AcceptedPlanOrdered
<1>2. cmd[w].step \in Steps
  BY ReadyAtCommit DEF Accept
<1>3. leases' \in [Scopes -> Lease]
  BY <1>2, AcquireType DEF Accept, Scope, Scopes
<1>4. PICK c \in Command : cmd' = [cmd EXCEPT ![w] = c] /\ Known(w)'
  BY <1>2, CommittedKnows DEF Accept
<1>5. revision \in Nat /\ revision' = revision + 1
  BY DEF Accept, IInv, TypeOK
<1>6. TypeOK'
  <2>1. SessionStep(progress', cmd[w]) \in Steps \cup {NoStep}
    BY <1>1, <1>2 DEF SessionStep, Progress
  <2>2. sessionStep' \in [Sessions -> Steps \cup {NoStep}]
    BY <2>1 DEF Accept, IInv, TypeOK
  <2>3. cmd' \in [Writers -> Command]
    BY <1>4 DEF IInv, TypeOK
  <2> QED
    BY <1>1, <1>3, <1>5, <2>2, <2>3 DEF TypeOK
<1>7. ASSUME NEW v \in Writers PROVE Known(v)'
  <2>1. CASE v = w
    BY <1>4, <2>1
  <2>2. CASE v # w
    <3>1. cmd'[v] = cmd[v]
      BY <1>4, <2>2 DEF IInv, TypeOK
    <3> QED
      BY <1>1, <1>5, <3>1, OthersKnow
  <2> QED
    BY <2>1, <2>2
<1> QED
  BY <1>1, <1>6, <1>7 DEF IInv

LEMMA ReleaseLeaseInvariant ==
  ASSUME IInv, NEW w \in Writers, ReleaseLease(w)
  PROVE  IInv'
<1> DEFINE c == [Idle EXCEPT !.pc = "returning"]
<1>1. c \in Command /\ c.pc = "returning" /\ c.expected = NoRevision
  BY IdleType DEF Command, Control, Idle
<1>2. cmd' = [cmd EXCEPT ![w] = c]
  BY DEF ReleaseLease
<1> HIDE DEF c
<1>3. cmd'[w] = c
  BY <1>2 DEF IInv, TypeOK
<1>4. Known(w)'
  BY <1>1, <1>3, NothingToKnow
<1>5. leases' \in [Scopes -> Lease]
  <2>1. NoLease \in Lease
    BY DEF NoLease, Lease, Owners
  <2> QED
    BY <2>1, LeasesType DEF ReleaseLease
<1> QED
  BY <1>1, <1>2, <1>4, <1>5, QuietStep DEF ReleaseLease

LEMMA CrashInvariant ==
  ASSUME IInv, NEW w \in Writers, Crash(w)
  PROVE  IInv'
<1>1. leases' \in [Scopes -> Lease]
  BY LeasesType DEF Crash, Orphaned, Lease, Owners
<1> QED
  BY <1>1, ToIdle DEF Crash

LEMMA TickInvariant ==
  ASSUME IInv, Tick
  PROVE  IInv'
<1>1. leases' \in [Scopes -> Lease]
  BY LeasesType DEF Tick, Lease
<1>2. TypeOK'
  BY <1>1 DEF IInv, TypeOK, Tick
<1>3. ASSUME NEW v \in Writers PROVE Known(v)'
  BY DEF IInv, Known, Tick
<1> QED
  BY <1>2, <1>3 DEF IInv, Tick

\* Every step of the system keeps the inductive invariant.
LEMMA StepInvariant == IInv /\ [Next]_vars => IInv'
<1> SUFFICES ASSUME IInv, [Next]_vars PROVE IInv'
  OBVIOUS
<1>1. ASSUME NEW w \in Writers, Begin(w) PROVE IInv'
  BY <1>1, BeginInvariant
<1>2. ASSUME NEW w \in Writers, ValidateStep(w) PROVE IInv'
  BY <1>2, ValidateStepInvariant
<1>3. ASSUME NEW w \in Writers, ReadRevision(w) PROVE IInv'
  BY <1>3, ReadRevisionInvariant
<1>4. ASSUME NEW w \in Writers, ReadSnapshot(w) PROVE IInv'
  BY <1>4, ReadSnapshotInvariant
<1>5. ASSUME NEW w \in Writers, ValidateRegistration(w) PROVE IInv'
  BY <1>5, ValidateRegistrationInvariant
<1>6. ASSUME NEW w \in Writers, Reject(w) \/ ScopeBusy(w) \/ Return(w) PROVE IInv'
  BY <1>6, ToIdle, LeasesType DEF Reject, ScopeBusy, Return
<1>7. ASSUME NEW w \in Writers, Conflict(w) PROVE IInv'
  BY <1>7, ConflictInvariant
<1>8. ASSUME NEW w \in Writers, Accept(w) PROVE IInv'
  BY <1>8, AcceptInvariant
<1>9. ASSUME NEW w \in Writers, ReleaseLease(w) PROVE IInv'
  BY <1>9, ReleaseLeaseInvariant
<1>10. ASSUME NEW w \in Writers, Crash(w) PROVE IInv'
  BY <1>10, CrashInvariant
<1>11. CASE Tick
  BY <1>11, TickInvariant
<1>12. CASE UNCHANGED vars
  BY <1>12 DEF vars, IInv, TypeOK, Known
<1> QED
  BY <1>1, <1>2, <1>3, <1>4, <1>5, <1>6, <1>7, <1>8, <1>9, <1>10, <1>11, <1>12
     DEF Next, Step, Commit

\* IInv is an invariant of the specification.
THEOREM Invariance == Spec => []IInv
<1> QED
  BY InitInvariant, StepInvariant, PTL DEF Spec

----------------------------------------------------------------------------

\* Type correctness, for every instance.
THEOREM TypeCorrect == Spec => []TypeOK
<1>1. IInv => TypeOK
  BY DEF IInv
<1> QED
  BY Invariance, <1>1, PTL

\* No interleaving of any number of commands completes a step before its
\* dependencies, or without the evidence its policy demands, or leaves two
\* steps in progress.
THEOREM CompletionIsJustified ==
  Spec => [](CompletedAfterDependencies /\ CompletedWithEvidence /\ AtMostOneInProgress)
<1>1. IInv => CompletedAfterDependencies /\ CompletedWithEvidence /\ AtMostOneInProgress
  BY DEF IInv, DependenciesFirst, EvidenceRecorded, OneInProgress,
         CompletedAfterDependencies, CompletedWithEvidence, AtMostOneInProgress
<1> QED
  BY Invariance, <1>1, PTL

\* A step that is completed has the evidence its policy demands.
THEOREM EvidenceIsRecorded == Spec => []CompletedWithEvidence
  BY CompletionIsJustified, PTL

\* At most one step of the branch is in progress.
THEOREM OneStepAtATime == Spec => []AtMostOneInProgress
  BY CompletionIsJustified, PTL

\* A base state is the canonical one as long as the revision has not moved, so
\* the commit may build its plan on it without a reload.
THEOREM BaseMayBeReused == Spec => []BaseIsCurrent
<1>1. IInv => BaseIsCurrent
  BY DEF IInv, Known, HasBase, BaseIsCurrent
<1> QED
  BY Invariance, <1>1, PTL

----------------------------------------------------------------------------

\* Only an accepted write moves the canonical state.
LEMMA OnlyAcceptMoves ==
  ASSUME [Next]_vars
  PROVE  \/ UNCHANGED <<revision, progress>>
         \/ \E w \in Writers : Accept(w)
BY DEF Next, Step, Commit, Begin, Reject, ValidateStep, ReadRevision, ReadSnapshot,
       ValidateRegistration, ScopeBusy, Conflict, ReleaseLease, Return, Crash, Tick, vars

\* An accepted command is one step of the lifecycle its caller is promised.
LEMMA AcceptIsLifecycleStep ==
  ASSUME IInv, NEW w \in Writers, Accept(w)
  PROVE  Lifecycle!Next
<1> DEFINE c == cmd[w]
<1>1. /\ c \in Command /\ progress \in Progress /\ c.kind \in Kinds
      /\ c.deps \in SUBSET Steps /\ c.ev \in SUBSET Evidence /\ c.phase \in Phases \cup {NoPhase}
  BY DEF IInv, TypeOK, Command
<1>2. /\ revision' = revision + 1 /\ progress' = Plan(progress, c)
  BY CurrentIsCanonical DEF Accept
<1>3. /\ c.step \in Steps
      /\ c.kind # "register" => StillAllowed(progress, c)
      /\ c.kind = "register" => /\ c.step \notin Planned(progress)
                                /\ c.deps \subseteq Planned(progress)
  BY ReadyAtCommit DEF Accept
<1> HIDE DEF c
<1>4. CASE c.kind = "register"
  <2>1. progress' = RegisterStep(progress, c.step, c.deps)
    BY <1>2, <1>4 DEF Plan
  <2>2. /\ Planned(progress') = Planned(progress) \cup {c.step}
        /\ progress'.completed = progress.completed
        /\ progress'.deps = [progress.deps EXCEPT ![c.step] = c.deps]
    <3>1. PICK s \in Steps, D \in SUBSET Steps : s = c.step /\ D = c.deps
      BY <1>1, <1>3
    <3>2. s \notin Planned(progress)
      BY <1>3, <1>4, <3>1
    <3>3. progress' = RegisterStep(progress, s, D)
      BY <2>1, <3>1
    <3>4. Registered(progress, RegisterStep(progress, s, D), s, D)
      BY <1>1, <3>2, RegisterKeeps, Zenon
    <3> QED
      BY <3>1, <3>3, <3>4 DEF Registered
  <2>3. Lifecycle!Register(c.step)
    BY <1>3, <1>4, <2>2 DEF Lifecycle!Register
  <2> QED
    BY <1>2, <1>3, <2>3 DEF Lifecycle!Next
<1>5. CASE c.kind \in {"start", "checkpoint"}
  <2>1. \/ progress' = StartStep(progress, c.step)
        \/ progress' = CheckpointStep(progress, c.step, c.phase, c.ev)
    BY <1>2, <1>5 DEF Plan
  <2>2. /\ Planned(progress') = Planned(progress)
        /\ progress'.completed = progress.completed /\ progress'.deps = progress.deps
    BY <1>1, <1>3, <2>1, StartKeeps, CheckpointKeeps
  <2>3. Lifecycle!Work(c.step)
    BY <1>3, <1>5, <2>2 DEF Lifecycle!Work, StillAllowed
  <2> QED
    BY <1>2, <1>3, <2>3 DEF Lifecycle!Next
<1>6. CASE c.kind = "complete"
  <2>1. progress' = CompleteStep(progress, c.step, c.ev)
    BY <1>2, <1>6 DEF Plan
  <2>2. c.step \in Planned(progress) /\ IsReady(progress, c.step)
    BY <1>3, <1>6 DEF StillAllowed
  <2>3. /\ Planned(progress') = Planned(progress)
        /\ progress'.completed = progress.completed \cup {c.step}
        /\ progress'.deps = progress.deps
    BY <1>1, <2>1, <2>2, CompleteKeeps
  <2>4. Lifecycle!Complete(c.step)
    BY <2>2, <2>3 DEF Lifecycle!Complete, IsReady
  <2> QED
    BY <1>2, <1>3, <2>4 DEF Lifecycle!Next
<1> QED
  BY <1>1, <1>4, <1>5, <1>6 DEF Kinds, ImplementKinds

\* The commands, with their stale reads, races, crashes and leases, implement
\* the lifecycle of StepLifecycle.
THEOREM ImplementsLifecycle == Spec => LifecycleSpec
<1>1. Init => Lifecycle!Init
  <2> SUFFICES ASSUME Init PROVE Lifecycle!Init
    OBVIOUS
  <2>1. Planned(progress) = {} /\ revision = 0
    BY EmptyProgressType DEF Init
  <2>2. progress.completed = {} /\ progress.deps = [s \in Steps |-> {}]
    BY DEF Init, EmptyProgress
  <2> QED
    BY <2>1, <2>2 DEF Lifecycle!Init
<1>2. IInv /\ [Next]_vars => [Lifecycle!Next]_(Lifecycle!vars)
  <2> SUFFICES ASSUME IInv, [Next]_vars
               PROVE  [Lifecycle!Next]_(Lifecycle!vars)
    OBVIOUS
  <2>1. CASE UNCHANGED <<revision, progress>>
    BY <2>1 DEF Lifecycle!vars, Planned
  <2>2. CASE \E w \in Writers : Accept(w)
    BY <2>2, AcceptIsLifecycleStep
  <2> QED
    BY <2>1, <2>2, OnlyAcceptMoves
<1> QED
  BY <1>1, <1>2, Invariance, PTL DEF Spec, LifecycleSpec, Lifecycle!Spec

\* No accepted implementation command is built over a change of its step that
\* its base state does not show.
THEOREM StepUnchangedSinceBase == Spec => AcceptedOverUnchangedStep
<1> DEFINE A == \A w \in Writers : Accepting(w) /\ cmd[w].kind # "register" =>
                  Signature(cmd[w].base, cmd[w].step) = Signature(progress, cmd[w].step)
<1>1. ASSUME IInv, NEW w \in Writers, Accept(w), cmd[w].kind # "register"
      PROVE  Signature(cmd[w].base, cmd[w].step) = Signature(progress, cmd[w].step)
  <2>1. Current(cmd[w]) = progress /\ ~HasConflict(w) /\ Known(w) /\ cmd[w].pc = "ready"
    BY <1>1, CurrentIsCanonical DEF Accept, IInv
  <2>2. CASE revision = cmd[w].baseRev
    BY <2>1, <2>2 DEF Known, HasBase
  <2>3. CASE revision # cmd[w].baseRev
    <3>1. revision \in Nat /\ cmd[w].baseRev \in Nat /\ cmd[w].expected \in Nat \cup {NoRevision}
      BY <1>1 DEF IInv, TypeOK, Command
    <3>2. revision # Expected(cmd[w])
      BY <2>1, <2>3, <3>1 DEF Known, ReadsBase, Expected, NoRevision
    <3> QED
      BY <1>1, <2>1, <3>2 DEF HasConflict, DetectConflict
  <2> QED
    BY <2>2, <2>3
<1>2. ASSUME IInv, [Next]_vars, NEW w \in Writers, Accepting(w)
      PROVE  Accept(w)
  <2>1. revision \in Nat /\ revision' # revision
    BY <1>2 DEF IInv, TypeOK, Accepting
  <2>2. PICK v \in Writers : Accept(v)
    BY <1>2, <2>1, OnlyAcceptMoves
  <2>3. CASE v = w
    BY <2>2, <2>3
  <2>4. CASE v # w
    <3>1. cmd'[w] = cmd[w]
      BY <1>2, <2>2, <2>4 DEF Accept, Committed, IInv, TypeOK
    <3> QED
      BY <1>2, <3>1 DEF Accepting
  <2> QED
    BY <2>3, <2>4
<1>3. IInv /\ [Next]_vars => [A]_vars
  BY <1>1, <1>2
<1> QED
  BY <1>3, Invariance, PTL DEF Spec, AcceptedOverUnchangedStep

----------------------------------------------------------------------------

\* However many processes register steps and their dependencies, a planned step
\* that is not completed leaves one that can be executed: the plan is an order
\* of its dependencies, so its first open step is ready.
THEOREM PlanNeverWedges == Spec => []NeverWedged
<1>1. IInv => NeverWedged
  BY OrderedPlanMoves DEF IInv, TypeOK, NeverWedged
<1> QED
  BY Invariance, <1>1, PTL

\* No later command takes back what an accepted one wrote: the plan's order,
\* the dependencies, the completions and the evidence of the registered steps.
THEOREM NothingIsLost == Spec => NothingLost
<1> DEFINE Kept == /\ IsPrefix(progress.planned, progress'.planned)
                   /\ progress.completed \subseteq progress'.completed
                   /\ \A s \in Planned(progress) :
                        /\ progress.evidence[s] \subseteq progress'.evidence[s]
                        /\ progress'.deps[s] = progress.deps[s]
<1>1. IInv /\ [Next]_vars => [Kept]_vars
  <2> SUFFICES ASSUME IInv, [Next]_vars PROVE Kept
    OBVIOUS
  <2>1. CASE UNCHANGED <<revision, progress>>
    <3>1. progress \in Progress /\ progress.planned \in Seq(Steps)
      BY DEF IInv, TypeOK, Progress
    <3>2. IsPrefix(progress.planned, progress.planned)
      BY <3>1, PlanProlonged
    <3> QED
      BY <2>1, <3>2
  <2>2. ASSUME NEW w \in Writers, Accept(w) PROVE Kept
    <3>1. Extends(progress, progress')
      BY <2>2, AcceptedPlan
    <3>2. IsPrefix(progress.planned, progress'.planned)
      BY <2>2, AcceptedPlanOrdered
    <3> QED
      BY <3>1, <3>2 DEF Extends
  <2> QED
    BY <2>1, <2>2, OnlyAcceptMoves
<1> QED
  BY <1>1, Invariance, PTL DEF Spec, NothingLost

\* What one step does to the row of a live lease: a commit leaves the row of
\* another owner alone, a release deletes its own only, a crash orphans its own.
LEMMA LiveRowKept ==
  ASSUME IInv, [Next]_vars, NEW l \in Scopes, NEW w \in Writers,
         leases[l].owner = w, leases[l].ttl > 0, cmd'[w] = cmd[w]
  PROVE  leases'[l].owner = w
<1>1. leases \in [Scopes -> Lease] /\ leases[l] \in Lease
  BY DEF IInv, TypeOK
<1>2. CASE UNCHANGED leases
  BY <1>2
<1>3. ASSUME NEW v \in Writers, Conflict(v) \/ Accept(v) PROVE leases'[l].owner = w
  <2>1. ~Busy(Scope(cmd[v]), v) /\ Acquire(v) /\ Committed(v) /\ cmd[v].pc = "ready"
    BY <1>3 DEF Conflict, Accept
  <2>2. v # w
    <3>1. cmd'[v].pc = "releasing"
      BY <2>1, IdleType DEF Committed, Command, IInv, TypeOK
    <3> QED
      BY <2>1, <3>1
  <2>3. l # Scope(cmd[v])
    BY <2>1, <2>2 DEF Busy
  <2> QED
    BY <1>1, <2>1, <2>3 DEF Acquire
<1>4. ASSUME NEW v \in Writers, ReleaseLease(v) PROVE leases'[l].owner = w
  <2>1. v # w
    <3>1. cmd'[v].pc = "returning" /\ cmd[v].pc = "releasing"
      BY <1>4, IdleType DEF ReleaseLease, Command, IInv, TypeOK
    <3> QED
      BY <3>1
  <2> QED
    BY <1>1, <1>4, <2>1 DEF ReleaseLease
<1>5. ASSUME NEW v \in Writers, Crash(v) PROVE leases'[l].owner = w
  <2>1. v # w
    <3>1. cmd'[v].pc = "idle" /\ cmd[v].pc # "idle"
      BY <1>5, IdleType DEF Crash, Idle, IInv, TypeOK
    <3> QED
      BY <3>1
  <2> QED
    BY <1>1, <1>5, <2>1 DEF Crash, Orphaned
<1>6. CASE Tick
  BY <1>1, <1>6 DEF Tick, Lease
<1> QED
  BY <1>2, <1>3, <1>4, <1>5, <1>6
     DEF Next, Step, Commit, Begin, Reject, ValidateStep, ReadRevision, ReadSnapshot,
         ValidateRegistration, ScopeBusy, Return, vars

\* A live lease changes hands only by a step of its owner, for any number of
\* processes and any lease duration.
THEOREM LeaseIsRespected == Spec => LiveLeaseIsRespected
<1> DEFINE Respected == \A l \in Scopes, w \in Writers :
             leases[l].owner = w /\ leases[l].ttl > 0 /\ leases'[l].owner # w
               => cmd'[w] # cmd[w]
<1>1. IInv /\ [Next]_vars => [Respected]_vars
  BY LiveRowKept
<1> QED
  BY <1>1, Invariance, PTL DEF Spec, LiveLeaseIsRespected

=============================================================================
