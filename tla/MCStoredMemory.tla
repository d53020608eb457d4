--------------------------- MODULE MCStoredMemory ---------------------------
(* A small instance of the stored memory.                                    *)
EXTENDS StoredMemory, MCStageMemory, TLC

CONSTANTS r1, r2, n1, n2, orig, m1, e1, e2, l1

MCProcesses == {c1, c2}
MCMergeIds == {m1}
MCVersions == {1, 2}
MCEvidence == {e1, e2}
MCLinks == {l1}
MCProposals == {"p1"}
MCTypes == {"semantic_cleanup", "semantic_update", "artifact_update"}
MCArtifacts == {a}
MCRecords == {b1}
MCScopes == {MCArtifacts, MCRecords}
MCIds == {r1, r2}
MCNamespaces == {n1, n2}

-----------------------------------------------------------------------------
(* What the branches of a merge hold: they differ in one section.            *)
PlannedStep == [EmptyStep EXCEPT !.planned = TRUE]
StepsOfBranches ==
  {EmptyStep, PlannedStep, [PlannedStep EXCEPT !.status = 1],
   [PlannedStep EXCEPT !.status = 2, !.completed = TRUE, !.links = {l1}]}

InSnapshot == {[EmptyMemory EXCEPT !.snapshot = v] : v \in 0..2}
InStep == {[EmptyMemory EXCEPT !.step = s] : s \in StepsOfBranches}
InCurrent ==
  {[EmptyMemory EXCEPT !.step = s, !.current = c] :
     s \in {EmptyStep, PlannedStep}, c \in {NoStep, Step, OtherStep}}
  \ {[EmptyMemory EXCEPT !.current = Step]}
InRecord ==
  {EmptyMemory} \union
  {[EmptyMemory EXCEPT !.record = <<[print |-> Original, evidence |-> {e}]>>] :
     e \in {e1, e2}}

BranchesDiffer ==
  UNION {[Branches -> section] :
           section \in {InSnapshot, InStep, InCurrent, InRecord}}

Edited ==
  {[EmptyMemory EXCEPT !.snapshot = 2, !.step = PlannedStep,
      !.record = <<[print |-> Original, evidence |-> {e2}]>>]}

-----------------------------------------------------------------------------
\* What a part that stays still begins with is chosen once.
MCStoredInit ==
  /\ StoredInit(BranchesDiffer, MCDocuments)
  /\ part # "stages" => stage = "deploy" /\ docs = Others("deploy")
  /\ part # "index" => active = n1

MCStoredSpec == MCStoredInit /\ [][StoredNext(Edited)]_storedVars

\* The processes of every part, the ids of records and the contents of sources.
StoredSymmetry == Permutations({c1, c2}) \union Permutations({r1, r2})
=============================================================================
