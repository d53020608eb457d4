---------------------------- MODULE StageMemory ----------------------------
(***************************************************************************)
(* The commands that write the stage documents of a branch: capture        *)
(* (semantic/capture_persistence.py), the checkpoint that ratifies a       *)
(* document (semantic/checkpoint.py) and the two cleanups, snapshots       *)
(* replace and snapshots prune (application/snapshot_cleanup.py).          *)
(*                                                                         *)
(* Each loads the branch, decides, and commits later with                  *)
(* commit_runtime_mutation, which compares the document of the command's   *)
(* own stage with the one that was loaded when the branch revision moved.  *)
(* The load is no snapshot of the branch: its revision, the progress, and  *)
(* then each document are read one after the other, and others may commit  *)
(* in between (memory/shared/system_store/canonical_state.py).             *)
(* Capture and checkpoint are applied to the latest document; a cleanup    *)
(* writes the candidate it made of the document it loaded.  These commands *)
(* take no lease: only checkpoints of review and security do, which have   *)
(* no document.  An expected revision older than the loaded one makes the  *)
(* same comparison.                                                        *)
(*                                                                         *)
(* The comparison sees the time of the last update, too, which counts      *)
(* seconds: here all the commands run within one.                          *)
(***************************************************************************)
EXTENDS StageDocuments

CONSTANTS Commands,     \* commands in flight
          Summary,      \* the summary of a checkpoint
          Patches,      \* what captures bring to each stage
          Payloads,     \* the documents that replace one of each stage
          Operations,   \* sets of entries that are pruned from each stage
          Notes,        \* sets of next actions and of contracts, of checkpoints
          StepRows,     \* catalog rows that steps are registered with
          MaxRevision   \* bound: commits

\* The interface refuses an empty summary, and a step id that is not one.
ASSUME StageAssumption ==
  /\ Summary # NoText /\ MaxRevision \in Nat
  /\ \A row \in StepRows : row.id # NoText
  /\ \A s \in Stages : \A p \in Payloads[s] : p = [f \in DOMAIN Default(s) |-> p[f]]

VARIABLES docs,      \* the document of each stage: body, summary, ratified, revision
          progress,  \* the steps registered in each plan, as the catalog row each was registered with
          branchRevision,
          pending    \* what each command has loaded and decided to write

stageVars == <<docs, progress, branchRevision, pending>>

NoCommand == [kind |-> "none"]

Rows(stage) == CASE stage = "mvp.design"       -> {"screens", "flows"}
                 [] stage = "mvp.architecture" -> {"entities", "endpoints"}
                 [] stage = "feature.init"     -> FeatureInitRows
                 [] stage \in PlanStages       -> {"stepCatalog"}
                 [] OTHER                      -> {}

IsText(stage, field) == field \notin Rows(stage) /\ Default(stage)[field] = NoText

\* The entries of a document, by field and key.
Held(stage, body) ==
  UNION {CASE f \in Rows(stage)   -> {<<f, r.id>> : r \in body[f]}
           [] IsText(stage, f)    -> {}
           [] OTHER               -> {<<f, e>> : e \in body[f]} : f \in DOMAIN body}

Fresh(stage) == [body |-> Default(stage), summary |-> NoText, ratified |-> FALSE, revision |-> 0]

\* initial: documents and progress that commands have led to before.
StageInit(initial) ==
  /\ \E i \in initial : docs = i.docs /\ progress = i.progress
  /\ branchRevision = 0
  /\ pending = [c \in Commands |-> NoCommand]

(***************************************************************************)
(* The load.                                                               *)
(***************************************************************************)

\* After the revision.
LoadOrder == <<"progress", "mvp.concept", "mvp.design", "mvp.tech", "deploy",
               "mvp.architecture", "mvp.plan", "feature.init", "feature.plan">>

First(n) == {LoadOrder[i] : i \in 1..n}

\* Where a run of reads may end when commands work on `worked` only: a read of
\* what nobody writes is one step with the reads around it.
Ends(worked) ==
  LET written == worked \cup {x \in {"progress"} : worked \cap PlanStages # {}}
  IN  {n \in 1..Len(LoadOrder) : /\ First(n) \cap written # {}
                                 /\ n < Len(LoadOrder) => LoadOrder[n + 1] \in written}

OpenBranch(c) ==
  /\ pending[c] = NoCommand
  /\ pending' = [pending EXCEPT ![c] =
                   [kind |-> "loading", revision |-> branchRevision, read |-> 0, planned |-> [s \in {} |-> {}],
                    base |-> [s \in {} |-> docs[s]], seen |-> [s \in {} |-> {}]]]
  /\ UNCHANGED <<docs, progress, branchRevision>>

\* Reads on, up to the n-th of them.  seen is history: what was registered in a plan
\* when its document was read.
ReadOn(c, n) ==
  /\ pending[c].kind = "loading" /\ pending[c].read < n
  /\ LET loaded == pending[c]
         known  == First(loaded.read)
     IN  pending' = [pending EXCEPT ![c] =
           [kind     |-> "loading",
            revision |-> loaded.revision,
            read     |-> n,
            planned  |-> IF loaded.read = 0 THEN progress ELSE loaded.planned,
            base     |-> [s \in Stages \cap First(n) |-> IF s \in known THEN loaded.base[s] ELSE docs[s]],
            seen     |-> [s \in PlanStages \cap First(n) |-> IF s \in known THEN loaded.seen[s] ELSE progress[s]]]]
  /\ UNCHANGED <<docs, progress, branchRevision>>

Loaded(c) == pending[c].kind = "loading" /\ pending[c].read = Len(LoadOrder)

Decide(c, kind, stage, write) ==
  /\ Loaded(c)
  /\ LET loaded == pending[c]
     IN  pending' = [pending EXCEPT ![c] = [kind |-> kind, stage |-> stage, write |-> write, base |-> loaded.base,
                                            planned |-> loaded.planned, seen |-> loaded.seen,
                                            revision |-> loaded.revision]]
  /\ UNCHANGED <<docs, progress, branchRevision>>

HasDecided(c) == pending[c].kind \in {"capture", "checkpoint", "cleanup"}

(***************************************************************************)
(* Capture and checkpoint.                                                 *)
(***************************************************************************)

DecideCapture(c, stage, patch) == Decide(c, "capture", stage, patch)

\* A checkpoint brings next actions and, to three stages, its contracts as constraints.
CheckpointPatch(stage, actions, contracts) ==
  IF stage \in {"mvp.concept", "mvp.tech", "deploy"}
  THEN [Default(stage) EXCEPT !.nextActions = actions, !.constraints = contracts]
  ELSE [Default(stage) EXCEPT !.nextActions = actions]

Captured(stage, doc, patch) == [doc EXCEPT !.body = Updated(stage, @, patch)]

\* Variant: a checkpoint does not count as a revision of the document.
RatifiedUncounted(stage, doc, patch) == [body     |-> Updated(stage, doc.body, patch),
                                         summary  |-> Summary,
                                         ratified |-> TRUE,
                                         revision |-> doc.revision]

Ratified(stage, doc, patch) == [body     |-> Updated(stage, doc.body, patch),
                                summary  |-> Summary,
                                ratified |-> TRUE,
                                revision |-> doc.revision + 1]

Bodies(documents) == [s \in Stages |-> Normal(s, documents[s].body)]

\* completeness_errors(): the validators normalise what they are given.
Complete(stage, body, documents) == /\ Required(stage, Normal(stage, body))
                                    /\ Referenced(stage, Normal(stage, body), Bodies(documents))

\* Completeness is asked of the loaded documents.
DecideCheckpoint(c, stage, actions, contracts) ==
  LET patch == CheckpointPatch(stage, actions, contracts)
      base  == pending[c].base
  IN  /\ Loaded(c)
      /\ Complete(stage, Updated(stage, base[stage].body, patch), base)
      /\ Decide(c, "checkpoint", stage, patch)

(***************************************************************************)
(* The cleanups.                                                           *)
(***************************************************************************)

\* A payload has no say in the system fields.
WithSystemFields(doc, body, summary) ==
  [body     |-> body,
   summary  |-> IF doc.ratified THEN Given(doc.summary, summary) ELSE summary,
   ratified |-> doc.ratified,
   revision |-> IF doc.ratified THEN doc.revision + 1 ELSE doc.revision]

SchemaHolds(stage, body) == stage \in PlanStages => CatalogValid(body.stepCatalog)

\* Variant: a cleaned plan is not compared with the progress.
CleanupReferencesNot(loaded, stage, body) == TRUE

\* The planned steps of the branch, of both plans.
Registered(steps) == UNION {steps[s] : s \in PlanStages}

\* loaded: what the command has read.
CleanupReferences(loaded, stage, body) ==
  CASE stage = "mvp.plan"     -> PlanReferences(body, Registered(loaded.planned))
    [] stage = "feature.plan" -> FeaturePlanReferences(body, Registered(loaded.planned))
    [] OTHER                  -> TRUE

\* Variant: a ratified document is not held to what its checkpoint required.
CleanupAllowedAlways(loaded, stage, body) == SchemaHolds(stage, body)

CleanupAllowed(loaded, stage, body) ==
  /\ SchemaHolds(stage, body)
  /\ loaded.base[stage].ratified => Complete(stage, body, loaded.base) /\ CleanupReferences(loaded, stage, body)

\* A session with a claim is refused both; it must work unclaimed.
DecideReplace(c, stage, payload, summary, claimed) ==
  LET body == Normal(stage, payload)
  IN  /\ Loaded(c) /\ ~claimed
      /\ CleanupAllowed(pending[c], stage, body)
      /\ Decide(c, "cleanup", stage, WithSystemFields(pending[c].base[stage], body, summary))

\* One operation that finds nothing refuses them all.
Pruned(stage, body, operations) ==
  [f \in DOMAIN body |->
     CASE f \in Rows(stage) -> {r \in body[f] : <<f, r.id>> \notin operations}
       [] IsText(stage, f)  -> body[f]
       [] OTHER             -> {e \in body[f] : <<f, e>> \notin operations}]

DecidePrune(c, stage, operations, claimed) ==
  LET doc  == pending[c].base[stage]
      body == Normal(stage, Pruned(stage, doc.body, operations))
  IN  /\ Loaded(c) /\ ~claimed
      /\ operations # {} /\ operations \subseteq Held(stage, doc.body)
      /\ CleanupAllowed(pending[c], stage, body)
      /\ Decide(c, "cleanup", stage, WithSystemFields(doc, body, doc.summary))

(***************************************************************************)
(* The commit.                                                             *)
(***************************************************************************)

Outcome(c) ==
  LET p == pending[c]
  IN  CASE p.kind = "capture"    -> Captured(p.stage, docs[p.stage], p.write)
        [] p.kind = "checkpoint" -> Ratified(p.stage, docs[p.stage], p.write)
        [] p.kind = "cleanup"    -> p.write

\* Variant: another command's write to the stage is no conflict.
SnapshotNeverMoved(c) == FALSE

SnapshotMoved(c) == /\ branchRevision # pending[c].revision
                    /\ docs[pending[c].stage] # pending[c].base[pending[c].stage]

CommitWrite(c) ==
  /\ HasDecided(c)
  /\ ~SnapshotMoved(c)
  /\ branchRevision < MaxRevision
  /\ docs' = [docs EXCEPT ![pending[c].stage] = Outcome(c)]
  /\ branchRevision' = branchRevision + 1
  /\ pending' = [pending EXCEPT ![c] = NoCommand]
  /\ UNCHANGED progress

SnapshotConflict(c) ==
  /\ HasDecided(c)
  /\ SnapshotMoved(c)
  /\ pending' = [pending EXCEPT ![c] = NoCommand]
  /\ UNCHANGED <<docs, progress, branchRevision>>

\* A command that dies before its commit leaves nothing.
CommandDies(c) ==
  /\ pending[c] # NoCommand
  /\ pending' = [pending EXCEPT ![c] = NoCommand]
  /\ UNCHANGED <<docs, progress, branchRevision>>

\* register-step writes the catalog of its plan and the progress in one transaction; it
\* refuses a planned step, and its conflict detector one that was planned meanwhile.
RegisterPlanned(stage, row) ==
  /\ branchRevision < MaxRevision
  /\ row.id \notin IdsOf(Registered(progress))
  /\ CatalogValid({CatalogRow(row)})
  /\ docs' = [docs EXCEPT ![stage].body = PlanCatalogUpsert(@, row)]
  /\ progress' = [progress EXCEPT ![stage] = @ \cup {CatalogRow(row)}]
  /\ branchRevision' = branchRevision + 1
  /\ UNCHANGED pending

\* The commands that work on some of the stages.
StageNext(worked) ==
  \/ \E c \in Commands :
       \/ OpenBranch(c)
       \/ \E n \in Ends(worked) : ReadOn(c, n)
       \/ \E stage \in worked :
            \/ \E patch \in Patches[stage] : DecideCapture(c, stage, patch)
            \/ \E actions, contracts \in Notes : DecideCheckpoint(c, stage, actions, contracts)
            \/ \E payload \in Payloads[stage], summary \in {NoText, Summary}, claimed \in BOOLEAN :
                 DecideReplace(c, stage, payload, summary, claimed)
            \/ \E operations \in Operations[stage], claimed \in BOOLEAN : DecidePrune(c, stage, operations, claimed)
       \/ CommitWrite(c) \/ SnapshotConflict(c) \/ CommandDies(c)
  \/ \E stage \in PlanStages \cap worked, row \in StepRows : RegisterPlanned(stage, row)

StageSpec(initial) == StageInit(initial) /\ [][StageNext(Stages)]_stageVars

(***************************************************************************)
(* Properties.                                                             *)
(***************************************************************************)

\* Every document has the fields of its stage, and one that a checkpoint has
\* ratified has a revision (semantic/checkpoint.py, stages/*/state.py).
StageTypeOK ==
  /\ \A s \in Stages : /\ DOMAIN docs[s].body = DOMAIN Default(s)
                       /\ docs[s].ratified \in BOOLEAN /\ docs[s].revision \in Nat
                       /\ docs[s].ratified => docs[s].revision > 0
  /\ branchRevision \in 0..MaxRevision
  /\ \A c \in Commands : /\ pending[c].kind \in {"none", "loading", "capture", "checkpoint", "cleanup"}
                         /\ HasDecided(c) => DOMAIN pending[c].base = Stages

\* A ratified document keeps everything a checkpoint requires of it alone,
\* and the summary it was ratified with, whatever captures and cleanups
\* follow or run between the checkpoint's check and its commit
\* (semantic/checkpoint.py, application/snapshot_cleanup.py).
RatifiedStaysComplete ==
  \A s \in Stages : docs[s].ratified => /\ Required(s, Normal(s, docs[s].body))
                                        /\ docs[s].summary # NoText

\* No commit takes from a document an entry that its command had not seen:
\* only a cleanup removes entries, and only from the very document it loaded
\* (application/snapshot_cleanup.py).
OnlySeenEntriesAreRemoved ==
  [][\A s \in Stages : docs'[s] # docs[s] =>
       \/ Held(s, Normal(s, docs[s].body)) \subseteq Held(s, docs'[s].body)
       \/ \E c \in Commands : /\ pending[c].kind = "cleanup" /\ pending'[c] = NoCommand
                              /\ pending[c].stage = s /\ pending[c].base[s] = docs[s]]_stageVars

\* A cleanup of a ratified plan keeps every step that its load found in the
\* progress, and every step registered in the plan since it read the plan --
\* unless the plan it read held that step's very row already: registering it has
\* then left the document as it was.  The load reads the progress before the plan:
\* a step registered between the two is in the document and not in the progress of
\* the command, which may drop it (application/snapshot_cleanup.py,
\* memory/shared/system_store/canonical_state.py).
CleanedPlanKeepsSteps ==
  [][\A c \in Commands :
       LET stage == pending[c].stage
           kept  == IdsOf(docs'[stage].body.stepCatalog)
       IN  /\ pending[c].kind = "cleanup" /\ pending'[c] = NoCommand /\ docs' # docs
           /\ stage \in PlanStages /\ docs[stage].ratified
           => /\ IdsOf(Registered(pending[c].planned)) \subseteq kept
              /\ \A r \in progress[stage] \ pending[c].seen[stage] :
                   r.id \in kept \/ r \in pending[c].base[stage].body.stepCatalog]_stageVars
=============================================================================
