---------------------------- MODULE StoredMemory ----------------------------
(* The memory a project stores, one of its parts at a time: a branch merge,  *)
(* the commands on one stage document, the index queue, runtime proposals,   *)
(* and the semantic records.  `part` names the one that moves; the others    *)
(* stay as they begin.                                                       *)
EXTENDS BranchMerge, Proposals, IndexJobs, SemanticKnowledge, StageMemory

VARIABLES part,
          stage   \* the stage the commands work on

storedVars == <<part, mergeVars, stage, stageVars, indexVars, proposalVars,
                knowledgeVars>>

NoBranches == [b \in Branches |-> EmptyMemory]

\* `branches` are what the branches of a merge may hold, `documents` the
\* documents and step rows the commands on a stage may find.
StoredInit(branches, documents) ==
  /\ part \in {"merge", "stages", "index", "proposals", "knowledge"}
  /\ MergeInit(IF part = "merge" THEN branches ELSE {NoBranches})
  /\ stage \in Stages /\ StageInit(documents[stage])
  /\ IndexInit
  /\ ProposalInit
  /\ KnowledgeInit

StoredNext(memories) ==
  /\ UNCHANGED <<part, stage>>
  /\ \/ /\ part = "merge" /\ MergeNext(memories)
        /\ UNCHANGED <<stageVars, indexVars, proposalVars, knowledgeVars>>
     \/ /\ part = "stages" /\ StageNext({stage})
        /\ UNCHANGED <<mergeVars, indexVars, proposalVars, knowledgeVars>>
     \/ /\ part = "index" /\ IndexNext
        /\ UNCHANGED <<mergeVars, stageVars, proposalVars, knowledgeVars>>
     \/ /\ part = "proposals" /\ ProposalNext
        /\ UNCHANGED <<mergeVars, stageVars, indexVars, knowledgeVars>>
     \/ /\ part = "knowledge" /\ KnowledgeNext
        /\ UNCHANGED <<mergeVars, stageVars, indexVars, proposalVars>>

StoredSpec(branches, memories, documents) ==
  StoredInit(branches, documents) /\ [][StoredNext(memories)]_storedVars

-----------------------------------------------------------------------------
\* Every part of the stored memory is of its type.
StoredTypeOK ==
  MergeTypeOK /\ StageTypeOK /\ IndexTypeOK /\ ProposalTypeOK /\ KnowledgeTypeOK
=============================================================================
