------------------------- MODULE StoredMemoryProofs -------------------------
(***************************************************************************)
(* The parts of the stored memory together: each does in the composition   *)
(* what it does on its own, so that what is proved of a part holds here.   *)
(***************************************************************************)
EXTENDS StoredMemory, IndexMergeProofs, RecordProofs, StageProofs

\* What a branch of the composition begins with: what a merge finds, or nothing.
Beginnings(branches) == branches \cup {NoBranches}
AllDocuments(documents) == UNION {documents[s] : s \in Stages}

LEMMA NoBranchesIsMemory == NoBranches \in [Branches -> Memory]
  BY EmptyIsMemory DEF NoBranches

\* A part begins as it does on its own.
LEMMA PartsStart ==
  ASSUME NEW branches, NEW documents, StoredInit(branches, documents)
  PROVE  /\ MergeInit(Beginnings(branches)) /\ StageInit(AllDocuments(documents))
         /\ IndexInit /\ ProposalInit /\ KnowledgeInit /\ stage \in Stages
<1>1. MergeInit(Beginnings(branches))
  <2>1. MergeInit(IF part = "merge" THEN branches ELSE {NoBranches})
    BY DEF StoredInit
  <2>2. PICK offered : offered = (IF part = "merge" THEN branches ELSE {NoBranches})
    OBVIOUS
  <2>3. MergeInit(offered) /\ offered \subseteq Beginnings(branches)
    BY <2>1, <2>2 DEF Beginnings
  <2> QED
    BY <2>3 DEF MergeInit
<1>2. stage \in Stages /\ StageInit(documents[stage])
  BY DEF StoredInit
<1>3. documents[stage] \subseteq AllDocuments(documents)
  BY <1>2 DEF AllDocuments
<1>4. StageInit(AllDocuments(documents))
  BY <1>2, <1>3 DEF StageInit
<1> QED
  BY <1>1, <1>2, <1>4 DEF StoredInit

\* The commands on one stage are among the commands on all of them.
LEMMA OneStageOfAll ==
  ASSUME stage \in Stages, StageNext({stage})
  PROVE  StageNext(Stages)
<1>1. ASSUME NEW c \in Commands,
             \/ \E patch \in Patches[stage] : DecideCapture(c, stage, patch)
             \/ \E actions, contracts \in Notes : DecideCheckpoint(c, stage, actions, contracts)
             \/ \E payload \in Payloads[stage], summary \in {NoText, Summary}, claimed \in BOOLEAN :
                  DecideReplace(c, stage, payload, summary, claimed)
             \/ \E operations \in Operations[stage], claimed \in BOOLEAN :
                  DecidePrune(c, stage, operations, claimed)
      PROVE  StageNext(Stages)
  BY <1>1, Zenon DEF StageNext
<1>2. ASSUME NEW c \in Commands, OpenBranch(c) \/ CommitWrite(c) \/ SnapshotConflict(c) \/ CommandDies(c)
      PROVE  StageNext(Stages)
  BY <1>2, Zenon DEF StageNext
<1>4. ASSUME NEW c \in Commands, \E n \in Ends({stage}) : ReadOn(c, n)
      PROVE  StageNext(Stages)
  <2>1. ASSUME NEW n \in 1..9 PROVE n \in Ends(Stages)
    BY <2>1, EveryReadMayEnd
  <2>2. Ends({stage}) \subseteq Ends(Stages)
    BY <2>1, LoadOrderCovers DEF Ends
  <2> QED
    BY <1>4, <2>2, Zenon DEF StageNext
<1>3. ASSUME stage \in PlanStages, NEW row \in StepRows, RegisterPlanned(stage, row)
      PROVE  StageNext(Stages)
  BY <1>3, Zenon DEF StageNext
<1> QED
  BY <1>1, <1>2, <1>3, <1>4, Zenon DEF StageNext

\* Every step of the composition is one of a part, or leaves the part alone.
LEMMA PartsStep ==
  ASSUME NEW memories, stage \in Stages, [StoredNext(memories)]_storedVars
  PROVE  /\ [MergeNext(memories)]_mergeVars /\ [StageNext(Stages)]_stageVars
         /\ [IndexNext]_indexVars /\ [ProposalNext]_proposalVars
         /\ [KnowledgeNext]_knowledgeVars /\ stage' = stage
<1>1. storedVars' = storedVars =>
        /\ mergeVars' = mergeVars /\ stageVars' = stageVars /\ indexVars' = indexVars
        /\ proposalVars' = proposalVars /\ knowledgeVars' = knowledgeVars /\ stage' = stage
  BY DEF storedVars
<1>2. StoredNext(memories) =>
        /\ MergeNext(memories) \/ mergeVars' = mergeVars
        /\ StageNext({stage}) \/ stageVars' = stageVars
        /\ IndexNext \/ indexVars' = indexVars
        /\ ProposalNext \/ proposalVars' = proposalVars
        /\ KnowledgeNext \/ knowledgeVars' = knowledgeVars
        /\ stage' = stage
  BY Zenon DEF StoredNext
<1> QED
  BY <1>1, <1>2, OneStageOfAll

LEMMA StoredPartsRun ==
  ASSUME NEW branches, NEW memories, NEW documents
  PROVE  StoredSpec(branches, memories, documents) =>
           /\ MergeSpec(Beginnings(branches), memories)
           /\ StageSpec(AllDocuments(documents))
           /\ IndexSpec /\ ProposalSpec /\ KnowledgeSpec
<1> DEFINE Named == stage \in Stages
<1>1. StoredInit(branches, documents) =>
        /\ MergeInit(Beginnings(branches)) /\ StageInit(AllDocuments(documents))
        /\ IndexInit /\ ProposalInit /\ KnowledgeInit /\ Named
  BY PartsStart
<1>2. Named /\ [StoredNext(memories)]_storedVars =>
        /\ [MergeNext(memories)]_mergeVars /\ [StageNext(Stages)]_stageVars
        /\ [IndexNext]_indexVars /\ [ProposalNext]_proposalVars
        /\ [KnowledgeNext]_knowledgeVars /\ Named'
  BY PartsStep
<1> QED
  BY <1>1, <1>2, PTL DEF StoredSpec, MergeSpec, StageSpec, IndexSpec, ProposalSpec, KnowledgeSpec

\* The files, rows, documents, jobs, proposals and records of a project keep
\* their form, whichever of its parts is at work, when the branches a merge
\* begins with have the form of a memory and the documents a stage begins with
\* are sound: of the fields of their stage, and complete where they are ratified.
THEOREM StoredTypesHold ==
  ASSUME NEW branches \in SUBSET [Branches -> Memory], NEW memories \in SUBSET Memory,
         NEW documents, \A s \in Stages : \A i \in documents[s] : SoundMemory(i)
  PROVE  StoredSpec(branches, memories, documents) => []StoredTypeOK
<1>1. Beginnings(branches) \in SUBSET [Branches -> Memory]
  BY NoBranchesIsMemory DEF Beginnings
<1>2. \A i \in AllDocuments(documents) : SoundMemory(i)
  BY DEF AllDocuments
<1>3. MergeSpec(Beginnings(branches), memories) => []MergeTypeOK
  BY <1>1, MergeTypesHold
<1>4. StageSpec(AllDocuments(documents)) => []StageTypeOK
  BY <1>2, StageTypesHold
<1>5. MergeTypeOK /\ StageTypeOK /\ IndexTypeOK /\ ProposalTypeOK /\ KnowledgeTypeOK => StoredTypeOK
  BY DEF StoredTypeOK
<1> QED
  BY <1>3, <1>4, <1>5, IndexTypesHold, ProposalTypesHold, KnowledgeTypesHold, StoredPartsRun, PTL
=============================================================================
