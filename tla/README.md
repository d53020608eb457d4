# MADSpec memory runtime: a TLA+ verification project

MADSpec keeps the working memory of a software project for coding agents: a
plan of implementation steps and the progress of each, the documents of the
project's stages, semantic records with a search index, the sessions and work
items of the agents, policies, change bundles, and derived files the agents
read. Several agents, each running `madspec memory ...` commands as OS
processes, share one SQLite store (`.madspec/system/memory/memory.sqlite`) and
one directory of JSON projections. This project models that shared core: what
happens when the commands of several processes interleave, fail half way, or
die. Python paths below are relative to `src/src/madspec_cli/memory/`, docs to
`src/docs/cli/memory.md`.

## 1. The system

| Component | State | Operations | Interacts with |
|---|---|---|---|
| Step progress (`domain/`, plans in `workflow/`) | the `progress` document: planned and completed steps, status, TDD phase, evidence, dependencies, current step | rules and plans of register-, start-, checkpoint-, complete-step; next-step selection | read and rewritten whole by every runtime command |
| Runtime mutation (`shared/system_store/runtime_mutations.py`, `jobs.py`, `canonical_state.py`) | branch revision, stage snapshots, session rows, `writer_leases` | load a base state, acquire a scope lease, detect conflicts, commit, release | all writing commands go through it |
| Projections and sync back (`canonical_state.py`, `sync.py`, `application/branch_state.py`) | JSON and JSONL files of the branch | refresh files from the store; read files back and upsert them | runs after the commit of every accepted command |
| Coordination (`shared/system_store/task_store.py`, `application/orchestration.py`) | tasks, work items, dependencies, claims; the binding in a session's payload | create, claim, release; ownership check and advance inside step commits | step commands, proposals |
| Proposals (`application/proposals.py`, `proposal_guard.py`) | proposal rows | publish, preview, apply; the guard on direct writes | applies through the runtime commands; reads coordination |
| Stage documents (`stages/`, `semantic/capture_persistence.py`, `semantic/checkpoint.py`, `application/snapshot_cleanup.py`) | one document per stage, draft or ratified | capture, checkpoint, replace, prune | runtime mutation, views |
| Semantic records (`semantic/learning.py`, `application/semantic_cleanup.py`) | records in streams, in the store and in JSONL files | commit, learn, promote, replace, prune, sync | sync back, index |
| Index (`jobs.py`, `index_store.py`, `vector.py`, `retrieval.py`) | `index_jobs`, chunks per embedding namespace, the indexer's lease | enqueue on save, drain, rebuild, search | shares `writer_leases` |
| Branch merge (`application/branch_compare.py`, `branch_merge.py`) | merge proposals; the files and rows of two branches | compare, resolve, merge | store, projections |
| Views (`projection/`, `shared/storage.py`, `shared/validation_views.py`) | Markdown documents | render, check, consolidate, import | every stage command |
| Change bundles (`../features/change/`) | baseline, active bundle, log, exports | init, propose, apply, export, verify | git, files |
| Agents (`../features/agents/`) | catalog of roles, profile, rendered files | create ... remove, enable, apply-profile, render | files of the agent environments |
| Policies, gates (`../features/policy`, `../features/gates`) | policies and their log, waivers | propose, apply, publish; evaluate, waive | progress, every branch's views |
| Git, init, meta, diagnostics | files, reports | formatting and I/O | read the above |

### What is hard here

- *Nothing waits.* A command whose scope is leased fails with `scope_busy`;
  optimism (a base state, a conflict detector, one `BEGIN IMMEDIATE`
  transaction) does the rest. A command reads the branch up to three times, in
  separate transactions, and only the last read is inside its commit.
- *Several transactions per command.* Commit, lease release, projection refresh,
  write-back of each file, binding of the session, verdict of a proposal: a
  process may die, and others may run, between any two.
- *Two or more copies of the state*: store, JSON files, Markdown views, bundles,
  chunks, rendered roles, each made from another and some read back.
- *Decisions on old reads*: conflicts of a merge resolved at its proposal, a
  checkpoint's completeness, the documents a cleanup started from.
- *Time.* Leases expire; an owner may be dead, or merely late.

`PROJECT.json` lists these hazards one by one at the line where they bite, with
the properties that watch over them, or why none does yet.

### What makes each component correct

- Progress: a step is completed after its dependencies and with its evidence;
  one step at a time is in progress; the plan can always go on.
- Commit: no accepted write loses another; the base a command reuses is the
  stored state; a live lease is respected and a dead one does not block for ever.
- Projections: files and store agree when a command returns; the write-back
  changes nothing that was committed.
- Coordination: one holder per item, in every place that records it;
  dependencies and disjoint scopes; the task's status follows its items; a
  session advances what it holds.
- Proposals: the status tells what happened; a cleanup is applied at the revision
  it was made for, at most once.
- Stage documents: a ratified document stays complete; nothing its command had
  not seen leaves a document.
- Records: what a cleanup removed stays removed, and it removes what it saw.
- Index: a hit shows the text of today; a source is lost only in known ways.
- Merge: neither side's work is lost without a resolution; rows follow files.
- Derived files: they agree with what they are derived from once a command has
  run to its end, whatever died before it.
- Gates: a waiver does not open what the integrity of the progress closes.

## 2. Modules

| Module | Models |
|---|---|
| `StepProgress` | the `progress` document as data: rules (`CanRegister` ... `CanComplete`), plans (`RegisterStep` ... `CompleteStep`), `NextExecutable`, `ResolveStep`, `Signature` (what the conflict detector compares), `ValidateProgress` (the repository's validator) |
| `StepLifecycle` | abstract specification: register once after the dependencies, work, complete once; one revision per accepted write |
| `RuntimeMutation` | the step commands as processes over the store, one action per transaction; INSTANCEs `StepLifecycle` as `Lifecycle` |
| `DirectCommands` | `RuntimeMutation` followed by the refresh of the files and the sync back |
| `WorkItems` | tasks, work items, claims, bindings, and the part of a step commit that moves an item |
| `Proposals` | publish, the guard on direct writes, and apply in its transactions |
| `StageDocuments` | the documents of the eight stages as data: default, normaliser, update, required fields, references between documents |
| `StageMemory` | capture, checkpoint, replace and prune as commands over `StageDocuments`: load read by read, decide, commit |
| `SemanticKnowledge` | records, streams and JSONL files: commit, refresh, learn, promote, sync, cleanup |
| `IndexJobs` | the job queue, the indexer's lease, drain, rebuild of everything or of one branch, chunks per namespace |
| `BranchMerge` | comparison of two branches with an optional base, resolutions, and the merge in its writes |
| `GeneratedViews` | which document each view is made from, who renders it when, the check that compares it, and the import of a legacy view |
| `ChangeBundles` | the change layer with its bundle, summary and exports, on the branch git is on or another |
| `AgentProfiles` | roles, catalog, profile and the rendered environment |
| `ProjectRules` | policies with their publication, gates over a step, waivers |
| `RowSequences` | `Without`: a sequence of rows less some of them, as `IndexJobs` and `BranchMerge` delete rows |
| `WorkItemHistory` | `WorkItems` with the history variable `torn` (a claim or a release of the session has died) and the two properties that read it |
| `StoredMemory` | the stored memory as a whole: `BranchMerge`, `StageMemory`, `IndexJobs`, `Proposals` and `SemanticKnowledge` side by side |
| `DerivedFiles` | all derived files: `ChangeBundles`, `AgentProfiles`, `ProjectRules` and `GeneratedViews` side by side |
| `*Proofs` | lemmas and theorems (section 4) |
| `MC*` | instances for TLC, and history variables |

| Proofs | About |
|---|---|
| `RuntimeMutationProofs` | `RuntimeMutation`, `StepProgress`, `StepLifecycle` |
| `DirectCommandsProofs` | `DirectCommands` |
| `WorkItemsProofs` | `WorkItems`, `WorkItemHistory` |
| `StageProofs` | `StageMemory`, `StageDocuments` |
| `IndexMergeProofs` | `IndexJobs`, `BranchMerge`, `RowSequences` |
| `RecordProofs` | `Proposals`, `SemanticKnowledge` |
| `StoredMemoryProofs` | `StoredMemory`, from the three before it |
| `DerivedFilesProofs` | `DerivedFiles` and the four modules it puts together |

No module uses a RECURSIVE operator. In `StoredMemory` and `DerivedFiles` a
constant-like variable `part` says which of the parts moves in a behaviour
while the others rest in an initial state. The parts share no state in the
model, so exploring their product would show nothing more; one run checks each
family and each invariant speaks of its own part. What is proved of a part needs
no such restriction: the proofs show that the composition implies the
specification of each part. Where components do interact, one module
holds both: coordination and step commits in `WorkItems`, claims, readiness and
direct writes in `Proposals`, commits and files in `DirectCommands`, records and
sync back in `SemanticKnowledge`, progress and plan in `StageMemory`, progress
and gates in `ProjectRules`.

Operators that a comment calls a *variant* are deliberately wrong forms of the
definition that follows them (a dropped guard, a missing reset). They are used
by no specification; `PROJECT.json` pairs each with the property that fails when
it replaces the right one. Three more stand beside their right forms for the
conjuncts of `DerivedFilesFollow` (`ProposedBundle` in `ChangeBundles`,
`UnlinkedNever` in `AgentProfiles`, `RefreshNothing` in `ProjectRules`); each of
them breaks it as well.

### RuntimeMutation and the code

A command is a record `cmd[w]` of what its process holds in memory.

| Action | Code |
|---|---|
| `BeginRegister`, `BeginImplement` | the CLI handler; the caller may pass `--expected-revision`, the revision it sees now |
| `ValidateStep` | `workflow/implementation.py`: `load_progress`, `resolve_runtime_step_id`, `validate_*_step_rules` |
| `Reject` | any early return: rules, gates, policies, ownership |
| `ReadRevision`, `ReadSnapshot` | `load_canonical_branch_state`: the revision first, then the snapshots, each a connection of its own |
| `ValidateRegistration` | `register_planned_step`, which checks its rules on the base |
| `ScopeBusy`, `Conflict`, `Accept` | the one transaction of `commit_runtime_mutation`: lease, reload if the revision moved, detector, plan, upserts, revision + 1 |
| `ReleaseLease` | `release_lease`, in its `finally`, for accepted and conflicting commands |
| `Return`, `Crash`, `Tick` | the end of the command, the death of its process, a second of time |

A crash inside a transaction is a rollback, so `Crash` is only between
transactions; the dead process's lease stays, owned by `Dead`. Owner ids are
fresh for each command, so a new command of the same process is not the owner
of what an old one left.

`DirectCommands` goes on from `Accept`: `ProjectRead`/`ProjectWrite`
(`refresh_branch_file_projections`, whose exceptions are caught and reported as
`projection_status = "stale"`: `ProjectionFails`, `ProjectionReportsStale`), then
`SyncRead`/`SyncUpsert` and `SyncSessionRead`/`SyncSessionUpsert`
(`sync_branch_memory_to_store`, which runs whatever the status was).

`WorkItems`: `ClaimWorkItem` then `Bind`, `ReleaseWorkItem` then `UnbindRead`
and `Unbind` are the transactions of `application/orchestration.py`;
`CheckOwnership` and `CommitStep` are the two moments a step command looks at
its session's work item (`_validate_work_item_ownership` before the commit,
`_work_item_runtime_update` in it). `Bound` is `fetch_session_coordination`.

`Proposals`: an applier goes through `Load` (the row), `CheckStep`,
`CheckOwnership`, `CheckReadiness`, `CheckRevision`, `BeginOperation` (loads the
base of the operation), `Judge` over `OperationConflicts`, `OperationRefused` or
`OperationCommits`, and `WriteVerdict`, which upserts the whole row it read at
the start. `GuardDirect` and `CommitDirect` are a command that saw no claim when
it asked. `BindingChanges` and `ReadinessChanges` are the coordination layer.

`StageMemory`: a command loads the branch in `OpenBranch` (the revision) and
`ReadOn` (the progress, then one document after the other, in the order of
`_SNAPSHOT_SPECS`, each over a connection of its own), so what it has read need
never have been the state of the branch. `DecideCapture`, `DecideCheckpoint`,
`DecideReplace` and `DecidePrune` decide over that; `CommitWrite` and
`SnapshotConflict` are the transaction of `commit_runtime_mutation`, which compares
the command's own document when the revision moved (`SnapshotMoved`); `CommandDies`
at any moment before it. Captures and checkpoints rebuild their patch on the
latest document, cleanups write the candidate they computed before. `Ends` joins a
read of a document that no command of the behaviour writes to the read before it:
such a read finds the same whenever it is made. With all the stages worked on,
which is what the theorems speak of, every read is a step. `RegisterPlanned` is the registration of a step that a plan's
catalog refers to; it refuses a step that either plan has registered. What
captures, payloads and prunings bring are constants (`Patches`, `Payloads`,
`Operations`, `Notes`, `StepRows`), which `MCStageMemory` gives for each stage. Each stage's rows, texts, keys and references are those of
its module under `stages/`.

`SemanticKnowledge`: `CommitRecord`, then `LoadForFiles`/`WriteFiles` or
`RefreshFails`; `Learn` and `Promote` append to a file and the `Sync` that
follows reads each stream's file back, one transaction per stream;
`BeginCleanup` (records), `ReadRevision`, `CommitCleanup` are the three reads
and writes of `_commit_cleanup`.

`IndexJobs`: `Save` and `DeleteRecord` are the upserts with their job;
`LookForLease`/`TakeLease` the SELECT and the upsert of the indexer's lease;
`TakeBatch` clears the whole namespace for a rebuild and selects the oldest jobs
of its scope (one of `Scopes`, the sources of a branch, or every source for a
`reindex` without `--branch`); `ReadSource`, `DropChunks`, `WriteChunks`,
`MarkIndexed` or `JobFails` are the loop over the batch, where two indexers may
both delete before either adds, so that a source can have several chunks; `Release`, `Confirm` (the record of a successful reindex),
`Crash`, `LeaseExpires`; `Configure` another embedding model.

`BranchMerge`: `ProposeMerge` is `Compare` over the projected files,
`ResolveConflict` a resolution, `StartMerge` the re-read of the files, then
`WriteTarget` (progress, snapshots, records), `PurgeTarget`, `SyncTarget` and
`FinishMerge`, or `RefuseFiles`/`RefuseMerge` when validation fails or anything in
the apply raises; `Reproject` is a later command that refreshes the files.

`GeneratedViews`: `Start` completes the layout (`CompletedLayout`, with the
import), `Commit` or `Refuse`, `WriteFiles`, `SyncFiles` (a bootstrap),
`Render`, `Check`; `Validate`, `Crash`.

`ChangeBundles`: `BeginApply`, `Consolidate`, `SaveRebuilt`, `WriteSummary`,
`FinishApply` are the writes of `apply_change`; `Edit` is the project changing
under it. `checkedOut` says whether git is on the branch of the command: git's diff
leaves the files of the change layer out by the name of that branch, so under
`--branch` of another one the summary and the exports are part of the diff.
`AgentProfiles` and `ProjectRules` likewise have an action per write
of a command (`WriteBody`, `UnlinkBody`, `DisableRemoved`, `LogApplied`,
`RenderWorkspace`; `PublishPolicies`, `RefreshViews`, `AppendApplied`,
`RewriteRequests`) and a death (`ChangeDies`, `AgentDies`, `RuleDies`) between
any two. `RefreshViews` visits the branches of `TopLevel`, whose directories lie in
`.madspec` itself; those of `Nested`, such as `feature/user-auth`, show new
policies when a command consolidates them (`ConsolidateBranch`).

### What is abstracted

- Payloads (titles, covers, sizes, records, artifacts, hints) are left out; the
  evidence of a step is a set of three members (red, green, refactor) and whether
  a step is under TDD is a constant, as no command changes it after registration.
- Gates, policies, ownership and bad input are the nondeterministic `Reject`.
- The first read of a step command (progress and session row) is one step.
- Time is relative: a lease row holds the ticks left. TTL is in ticks.
- Normalisation at load (`normalize_progress_state`) is a no-op on documents the
  commands themselves write, which is what the models start from.
- `WorkItems` has one task; the session payload is its binding; each session runs
  one command at a time; the several SELECTs of one coordination read are one step.
  Direct commands and commands applied from proposals share `CheckOwnership`.
- Proposals: the payload of an operation is reduced to whether it conflicts, is
  refused or commits. Event rows and history logs are left out everywhere: they
  are appended and never decided on.
- Stage documents: texts are model values and lists are sets; the flows of a
  design, whose order matters, have their place with them. Fields that no rule,
  key or reference reads are left out, and so is the time of the last update:
  the conflict detector compares it with the rest of the document, but it counts
  whole seconds (`shared/storage.py:75`), and here all commands run within one.
- Merge: one snapshot, one step, the current step and one record summary stand
  for each section; the fingerprint of a record is itself or a clone's.
- Index: a content stands for its hash, one chunk for all those one call adds for
  a source.
- Views: the text of a view is what it is made from.
- Change bundles: a diff is the set of parts that differ, and outside the branch git
  is on the state of the layer's own files.
- Agents, policies and change bundles run one command at a time, as the code
  has no locks there and nothing in the repository starts two at once; deaths
  between their writes are modelled, and edits of the project during them.

Some promises hold only while nothing unusual happens, because the code gives
no more; the model records the circumstance in a history variable rather than
leaving it out. `excused` in `IndexJobs` collects the sources that met a named
circumstance in which the queue loses track of a content; `contested` in
`Proposals` those that two appliers had at once, or one that died; `disturbed`
in `SemanticKnowledge` says that two commands overlapped, one died or a refresh
failed; `bundleSettled` (`ChangeBundles`), `policySettled` (`ProjectRules`) and
`rendered` (`AgentProfiles`) that a command has run to its end since; `died` and the
comparison's own record of what it saw in `BranchMerge`. Each is set at the
action it names, and every property reads it in its guard, so that what remains
is a statement about all other histories.

## 3. Runs

Bounds common to the runtime runs: two steps, one under TDD (so that
dependencies, evidence and "the other step in progress" all happen); inputs
`{nothing}` and `{red phase and all the evidence}`; TTL 1, so that a lease can
expire at any moment; `MaxRevision`, after which no command begins.

| Run | Instance | Shows |
|---|---|---|
| `runtime` | 2 processes, 2 steps, 3 revisions, symmetric (2.66 M states) | safety of the commit path, and refinement of `StepLifecycle` |
| `runtime_liveness` | 2 processes, 1 step, under `FairSpec` | an orphaned lease is freed |
| `direct` | 1 process, 2 steps, 4 revisions, failing projections and crashes | the file layer on its own keeps the progress sound (`CompletionStaysJustified`: dependencies first, evidence recorded) and catches up |
| `work_items` | 3 items (two overlapping), 2 sessions, torn claims and releases (1.57 M states) | coordination safety |
| `stored_memory` | the five parts of `StoredMemory`, two processes each, symmetric (1.65 M states) | merges, stage documents, index, proposals, records: nothing leaves the stored memory but as a command asked or a named circumstance explains |
| `derived_files` | the four parts of `DerivedFiles` (0.98 M states) | bundles, environments, policies and views follow what they are made from; waivers open nothing |
| `stale_replay`, `reopened_step`, `sync_back_race`, `failed_projection`, `foreign_item`, `imported_view` | the smallest instance of each | the disagreements of section 5 |

Why the bounds are enough: a lost update, a stale read or a lease hand-over needs
two processes and two commits after a read; three revisions give the register
and two competing commands on each step, four give register, start, checkpoint
and complete of a step. One session is shared by both processes, which is the
worse case, as `current_step` is then contended too. In `work_items` three items
give a chain of dependencies and an overlapping pair at once. The unbounded
case of the commit path is what the proofs are for.

In `stored_memory`:

- *merge*: the three branches start with every combination of values of one
  section (a step that is absent, planned, in progress, or completed with a link;
  three versions of a snapshot; two records with different evidence), so every row of the comparison is
  met; `MaxStarts` = 2 merges of one proposal, which is what "refused and
  repeated" and "died and repeated" need; `MaxEdits` = 1 edit beside it.
- *stages*: each of the eight stages with the documents it refers to, each
  missing what it requires, and a plan with a row nobody has registered; payloads
  that are complete, that lack what is required and, for plans, that hold an odd
  row; prunings of one entry, of an entry a checkpoint brought, or of a planned
  step; two commands in flight, each loading read by read, and `MaxRevision` = 2
  commits: the second one finds the first's write, and a registration fits
  between the read of the progress and that of the plan.
- *index*: one artifact and one record, each of a branch of its own, so that a
  reindex of one branch leaves the other's source out, two contents (so that a content can come
  back), two namespaces, two indexers, two jobs of which a batch takes one
  (`JobLimit` = 1: the queue is always beyond the limit), two passes.
- *proposals*: one proposal, of a type for each path (checked against its base
  revision before and in the commit, before only, or not at all), two appliers, two commits beside it. Proposals of a branch meet
  only through its revision, which the direct commits move.
- *knowledge*: two records, two workers, three commands: a removal, and two
  more of which either can bring something back.

In `derived_files`: the branch of the change layer is the one git is on, or is
not; three rows of the change log and two applies (apply, edit, apply again over
it); two rows of the profile log and three agent commands
(create, enable, remove); a branch at the top level and a nested one, two rows of
the policy log and one waiver;
three view commands of thirteen (two captures and a consolidate; a capture, a
death and a consolidate).

Deadlock is checked in the runs of the commands, files and work items: nothing
in that system waits, so some step is always possible. `stored_memory`,
`derived_files` and `imported_view` switch it off, because there the counters of
commands, jobs or edits run out and the part then stops.

**Fairness** (`FairSpec`): time passes (`WF(Tick)`), and a process that is
running keeps running (`WF(Step \/ Return)`) since no step of it waits for
another. No fairness on `Begin` or `Crash`: nobody need start a command, and a
process need not die. The index has no liveness property: the code promises
none, as only a search or a reindex that somebody runs takes jobs, and a failed
job may fail again for ever. Its safety property `NothingElseIsForgotten` says
instead that what is not found is still waiting in the queue or in the hands of
an indexer.

## 4. Proofs

Checked by TLAPS for every number of processes, sessions, items, steps, sources
and records, every TTL and bound and every set of inputs, from the named
assumptions on the constants: sentinels such as `NoStep`, `NoOwner`, `Dead`,
`NoItem`, `NoKey` and `Absent` differ from real values, and `SessionOf`, `Inputs`,
`TddRequired`, `KeyOf`, `Types` and the bounds have their types, the default
roles are built in, and, in `StageAssumption`, a summary is not empty, a
registered step has an id and a payload has the fields of a document of its
stage, all of which the interface refuses otherwise. TLC evaluates each
assumption on the instances. The theorems about the merge hold for every set of
initial branches and of memories that edits write. Some theorems have a
hypothesis of their own, which stands in their statement:

- `Nothing` is no record (`OnlyLoadedGoes`), `Missing` is no store (`BundleVerifies`,
  `ChangeTypesHold`, `DerivedTypesHold`, `DerivedFilesAgree`);
- `SoundMemory` documents (all of `StageProofs`, and `StoredTypesHold`): those a
  behaviour begins with have the fields of their stage, are complete where they
  are ratified, and the registered steps are rows the normaliser leaves as they
  are. Every command keeps it so (`StageInvHolds`), the empty documents of a new
  branch satisfy it, and so do the documents the run begins with;
- `OneCommandAtATime` (there is one process) for what the files bring back:
  with two commands at once these properties are false, and `sync_back_race`
  shows it. Failing refreshes and deaths are not excluded;
- `OneProcessASession` (no two callers share a session key) for the binding of a
  session: two processes under one key can each bind what they claimed;
- `Sound` memories for `MergePlansTheStep`: the target of a merge, and what edits
  write, have their completed and current step in the plan. Every command keeps
  it so, and a merge cannot repair a target it was not so in.

| Theorem | States |
|---|---|
| `TypeCorrect`, `Invariance` | `Spec => []TypeOK`, and the invariant `IInv` the next ones rest on |
| `CompletionIsJustified`, `EvidenceIsRecorded`, `OneStepAtATime` | completed steps have their dependencies completed and their evidence; one step in progress |
| `BaseMayBeReused` | the base read in two SELECTs is the stored progress if the revision has not moved |
| `StepUnchangedSinceBase` | an accepted command finds its step as its base showed it |
| `ImplementsLifecycle` | `Spec => LifecycleSpec` |
| `PlanNeverWedges` | an open plan has a step that can be executed |
| `NothingIsLost` | no step takes back anything the store has accepted |
| `LeaseIsRespected` | a live lease changes hands only by a step of its owner |
| `DirectTypesHold` | types of the commands with their files, for any number of processes |
| `CompletionStaysJustifiedAlone`, `SyncedWritesNothingBack`, `ProjectionCatchesUp` | the write-back of the files harms nothing, changes nothing after a good refresh, and leaves files that show the store, one command at a time |
| `WorkTypes`, `ClaimsAgree`, `StartedLate`, `ScopesStayDisjoint`, `TaskStatusIsTrue` | the invariants of the coordination layer |
| `TaskIsNeverStuck` | a task with open items has one that is ready or under way |
| `BindingsFollowClaims`, `SessionsAdvanceTheirOwn` | the payload of a session names the item it holds, and its commits move on no other, unless a claim or a release died |
| `CleanupsAreFresh` | a cleanup proposal takes effect at its base revision only, at most once |
| `StatusIsTrue` | the status of an uncontested proposal tells whether it took effect |
| `ArtifactHitsShowToday` | a hit on an artifact shows its current text |
| `IndexForgetsNothingElse` | a content is found, queued or in an indexer's hands, outside the named circumstances, for any branches a reindex may be limited to |
| `MergedRowsFollowFiles` | between commands the rows of the target are what its files say |
| `MergeLosesNothing` | an applied merge has lost nothing of either side that no resolution gave up |
| `MergePlansTheStep` | a step that a merge leaves completed or current is planned |
| `RemovedStays` | removed records stay removed while nothing is disturbed |
| `OnlyLoadedGoes` | only what a cleanup has loaded is removed, by it |
| `RatifiedDocumentsStayComplete` | a ratified stage document keeps all that its checkpoint required, and its summary |
| `UnseenEntriesStay` | only a cleanup removes entries, from the very document it loaded |
| `CleanedPlansKeepSteps` | a cleanup of a ratified plan keeps the steps its load found in the progress, and those registered since it read the plan |
| `StageInvHolds`, `StageTypesHold` | the invariant these rest on, and the types of the documents |
| `MergeTypesHold`, `IndexTypesHold`, `ProposalTypesHold`, `KnowledgeTypesHold` | the types of the other parts of the stored memory |
| `StoredTypesHold` | the types of the stored memory as a whole |
| `BundleVerifies`, `ChangeTypesHold` | an applied bundle of the branch git is on has no drift; the revisions of stored and proposed bundles follow the log |
| `WorkspaceFollows` | the files of the environment are those of the enabled roles |
| `BlockedStaysBlocked`, `DerivedStayBlocked` | no waivers unblock a blocked review, alone and beside the other parts |
| `PoliciesAreShown`, `RuleTypesHold` | the policies in force are what the snapshot, `policy.md` and every branch directly in `.madspec` show; nested branches are not among them |
| `ViewsPass` | a consolidation leaves views that pass the check |
| `DerivedTypesHold`, `DerivedFilesAgree` | the types of all derived files, and that each agrees with its source, as far as the rows above go |

**The commit path.** The state properties are not inductive: the rules of a
command are checked on a read that is out of date at the commit. `IInv` adds,
for every process (`Known`):

- the progress only grows (`Extends`: planned and completed steps, dependencies,
  evidence), so a step that passed the rules of completion on an old read is
  still completable now (`StillAllowed`, lemma `AllowedIsStable`);
- a base with the current revision *is* the current progress; a base read before
  a commit has an older revision, because the revision is read first. The torn
  read therefore errs on the safe side only: old revision, newer snapshot;
- a registration that is ready to commit has its dependencies planned.

`RuntimeMutationProofs` shows first what each plan keeps of a document, then has
one lemma per action, and each theorem is a short consequence.
`ImplementsLifecycle` maps `Accept` to `Register`, `Work` or `Complete` and
everything else to a stutter. `NeverWedged` needs one more conjunct,
`PlanOrdered`: a step's dependencies stand before it in the plan, because it was
registered after them and the plan only gets longer. The first open step of the
plan is then ready, which is the least member of a set of indices and needs no
induction over the plan.

**Files.** A failed refresh lets the write-back put an old progress into the
store, so the progress of `DirectCommands` does not only grow. With one command
at a time nothing depends on that: `DirectInv` adds to `IInv` that every document
in the files or in hand is `SoundDocument` in itself (old, but justified when it
was written), that a lone command's base is never out of date (`BaseUpToDate`),
and what each stage knows of the files (`StageKnows`), up to a return where
files and store agree.

**Work items.** `StartedAfterDependencies` needs to know why a commit may start
an item its session merely remembers: `ReachedIsReady` says that every item
that is bound by a session, in the hands of a claiming call, or started has all
its dependencies completed, and as completed items stay completed a binding left
over from an earlier claim is harmless in this respect. `HeldIsStarted` ties a claim
to a started item, and `TaskStatusIsDerived` is kept because each writer of items
computes the status from the rows it leaves. `TaskNeverBlocked` rests on
`Numbered`: there is a numbering of the items in which an item comes after its
dependencies. It is stated as the existence of a numbering because the rows have
no creation date; a new item takes a number beyond all others, and nothing else
changes a dependency. Of the items that are open the one with the least number
is ready. `BindingOf` says, per session and per point of its current command,
what its payload holds; `torn` stays TRUE once set.

**Stage documents.** That a ratified document stays complete depends on two
things at once: an update keeps what is required of a document (`UpdatesWell`, one
lemma per stage: patches add, and an empty text is ignored), and the decision of a
checkpoint or a cleanup, made on an old read, is still right at its commit.
`StageInv` therefore says of every command under way what its reads and its
decision are worth now (`CommandWell`). `ReadWell` speaks of each document read so
far, whenever that was: it was sound, and while the revision stands it *is* the
stored one, because the revision is read first. `WellDecided` adds that a
checkpoint's update satisfies the requirements on the body it read, that the
candidate of a cleanup is complete if the document it replaces was ratified, and
that the candidate for a plan keeps every step the command found in the progress.
When the revision has moved, the conflict detector lets either through only over
the very document it read, so the one case of interest is a document that is equal
although others have written since. For the plans `ReadWell` says what that means: a
ratified document is never a draft again and its revision never falls, so while
the revision of the document is the same, the steps registered since it was read
(those not in `seen`) are rows that the catalog holds.

That the loaded catalog may hold such a row is what the proof found out. `CleanedPlanKeepsSteps` first said
that *no* registered step is missing from a cleaned plan. TLC agreed within the
bounds of the run, the proof did not go through, and with four commits TLC found
why: replace a plan by one with a row nobody has registered, ratify it, begin to
prune that row, then register a step with that very row. The registration leaves
the catalog as it was, so the prune sees no conflict and removes a step that is
now registered. In the code the time of the last update differs, unless both
happen within the second it counts. The property now says what holds without
counting on the clock.

A step registered after the load has read the progress and before it reads the
plan is left out of the property for another reason: the plan in hand holds its
row, the progress in hand does not know it, and a prune of that row is allowed
(section 5). TLC reaches it: a property that also asks for the steps in `seen`
fails within the bounds of the run.

**Proposals.** What an applier holds is a copy of the row (`HoldsRow`). For a
proposal nobody else has in hand (`AloneWith`) the row in the store is that copy, so
the verdict it will write is the truth about the operation it performed
(`Told`). For cleanups `Performed` keeps the revisions at which the operation
took effect inside its base: the commit checks the exact revision, and the
commit itself moves the revision on, so it cannot happen twice.

**Index.** The invariant says it of every namespace and not only of the one in
use, so that a change of the embedding model cannot surface an old chunk:
`WriteChunks` tags an artifact's chunk with the hash of the very text it read.
For `NothingElseIsForgotten` the invariant is `QueueInv`: ids tell jobs apart,
also from those of a batch taken before (`JobIds`); unless every source is
excused, one indexer at most is at work (`Alone`); and a source that is not
excused has a job of its content, its content is in the confirmed namespace,
waiting, or ahead in a rebuild (`Covered`), and the indexer that has its job in
hand either read today's content or leaves another job waiting (`Tracked`);
between the delete and the add of its chunks it is in hand too (`InHand`). A
reindex excuses just the sources of the indexed jobs it leaves out.
`QueueInv` speaks of the queue as a set of rows; that deleting rows keeps the
others, for a queue of any length, is shown by a least counterexample
(`SmallestIn`) over the indices of `Without`.

**Merge.** `MergeInv` has five parts: types and phases (`MergeShape`); the rows
follow the files but for what the merge in progress has yet to write
(`RowsMatch`, `FilesMatch`); the items of a proposal are those of the comparison
it saw, with resolutions it allows (`Decisions`); and, as long as nobody else has
changed the branches (`Unspoilt`), each section of the target `Fits`: it is either
as it was compared or as it was decided (lemma `MixFits`: a memory made of two
that fit, fits). That is what makes a repetition harmless: deciding over such a
mixture gives the same result. That a merge which is decided loses nothing
(`DecidedLosesNothing`) is then a fact about the comparison alone, one lemma per
section.

**Records.** Undisturbed, files and rows agree wherever a worker is (`Clean`): a
refresh in progress carries what it loaded, and no removed record is in a row, a
file or a worker's hands. `disturbed` stays TRUE once set, so the rest needs no
invariant.

**Types of the stored memory.** Most follow from the invariants above. What they
leave open is counted apart: ids of jobs start at one and stay within `lastJob`
(`QueueNumbers`; a job that is marked was in the queue, so no id appears anew),
edits and commands stay within their bounds. `StoredPartsRun` then shows that a
behaviour of `StoredMemory` is one of each part: the commands on one stage are
among the commands on all, and a part that rests stutters.

**Derived files.** In each part a command writes several files, and any of them
may be its last. The invariants say how far the command under way has come:

- `ChangeInv`: an apply that has consolidated knows the diff of the branch as it
  is now (`BundleStands`), and each later write brings one more file up to it.
  A log row is found again because the first row with an id is the least one
  (lemma `SmallestIn`, by the well-foundedness of the naturals). `ChangeNumbers`
  bounds the revision of a bundle by the rows of the log: a row is proposed one
  after the active bundle, which is that of an earlier row.
- `AgentInv`: a command that has more to write than the log has not rendered, and
  what a rendering leaves depends on no file that was there before
  (`RenderingForgets`), so nothing that a dead command left survives it.
- `ShownInv`: the snapshot is published before the top-level branches, and the row
  "applied" is written last.
- `ViewsInv`: in the phases of a command the files, then the views of its scope,
  are made from the stored documents; where the materializer and the check take
  the branch for one of the same mode, a view is expected as it was rendered
  (`RenderedAsExpected`, one case per view).

That waivers do not unblock a review rests on `ViolationIsInvalid`: a step the
program has written which violates a required policy also fails the integrity of
the progress, and that gate is not waivable. `PartsRun` carries all of it to
`DerivedFiles`.

**Only model-checked**: liveness (`OrphanedScopeIsFreed`), which TLAPS cannot
prove here. Every other property of a passing run is a theorem. The disagreements of section 5 are behaviours
that TLC exhibits.

## 5. Where code and documentation disagree

Each is a run that must find its property violated; `PROJECT.json` quotes the
sentence.

- `stale_replay`: `--expected-revision` does not protect against a commit made
  between the caller's look and the command: the detector compares the command's
  own base with the current state.
- `reopened_step`: a step completed between a command's rule check and its base
  load is set back to in progress, and the document fails `validate_progress`.
- `failed_projection`: after a failed refresh the same command writes the old
  `progress.json` back over its own accepted write.
- `sync_back_race`: the write-back of one process overwrites another's commit.
- `foreign_item`: after a release and a claim that died half way, a session
  advances a work item it no longer holds.
- `imported_view`: a second bootstrap of a branch with an empty concept imports
  the generated `concept.md` as a legacy document, placeholder and all.

`CompletedAfterDependencies` and `CompletedWithEvidence` survive all of these:
they hold in `direct`, crashes and stale files included.

Met while modelling, and part of the models, without a run of their own:

- A change proposal or a profile proposal can be applied twice: the lookup
  returns the first row of the log with the id, which is the pending one
  (`../features/change/application/shared.py:16-20`, so the guard at
  `apply_change.py:33-34` never fires; `../features/agents/application/common.py:19`).
- `promote` keeps the `record_stream` tag of what it promotes, so a promoted
  record stays out of the semantic streams (`semantic/learning.py:34`, against
  `docs/cli/memory.md:847`).
- A rebuild beyond its limit empties the index, indexes `LIMIT` jobs and reports
  success (`shared/system_store/jobs.py:135`, against `docs/cli/memory.md:136`).
  With `--branch` it empties the namespace of all branches, takes the jobs of
  that one, and reports success too; the jobs of the others stay "indexed", so
  no later drain brings their chunks back (`jobs.py:121-137`, `sync.py:188-208`,
  `cli/bootstrap.py:189`). `excused` names both.
- Applying a policy, and bootstrapping for a reindex, visit the directories that
  lie in `.madspec` itself: a branch such as `feature/user-auth`
  (`docs/cli/git.md:45`) keeps the old policies in its `project-context.md`, and its
  parent directory `feature` is consolidated as if it were a branch
  (`../features/policy/infrastructure/sync.py:51-60`,
  `shared/system_store/sync.py:188-196`, against `docs/cli/policy.md:33`).
- The load of a command reads the progress before the documents
  (`shared/system_store/canonical_state.py:72-81`). A step registered in between
  is in the plan a prune has read and not in its progress, so the check of
  references lets the prune drop it from a ratified plan (against
  `docs/cli/memory.md:391`).
- `change verify` with `--branch` of a branch git is not on reports the bundle's own
  summary and exports as drift right after an apply
  (`../features/change/infrastructure/git_ops.py:53-146`).
- The materializer and the check decide by different conditions whether a branch
  is a feature branch (`projection/context_loader.py:68`,
  `shared/validation_views.py:66`): one that only states its problem is reported
  stale even after `consolidate`. `ModesAgree` keeps this case apart.
- Renaming the project in the concept leaves the other views that show the name
  stale until the next `consolidate` (`stage_scope.py:51`), and the implement
  steps do not render the plan view again (against
  `docs/mvp/madspec.mvp.implement.md:85`).
- `propose_merge` compares the files as they are (`application/branch_merge.py`),
  without projecting them from the store first. After a merge that died half way
  a new comparison may read its half-written files and decide on them, so a side's
  work can be lost with no resolution; `ProposeMerge` marks such a proposal as
  `touched`, and `NothingLostSilently` speaks of the others.
- A JSONL file older than a cleanup puts the removed records back
  (`application/branch_state.py:22`); that is what `disturbed` stands for.

## 6. Plan

Done: the commit path with its files, coordination, proposals, the stage
documents with their commands, records, index, merge, views, change bundles,
agents, policies and gates, each with proofs. In the order of what they would
add:

1. The session payload as more than its binding: a step command of the same
   session between the read and the write of a claim (`orchestration.py:210`),
   a listed hazard no property covers; the other is the guard on direct writes
   (`proposal_guard.py:33`), of which the code promises nothing once it is passed.
2. The time of the last update in the stage documents, to tell when the second
   of `CleanedPlanKeepsSteps` can really be shared.
3. An abstract specification of the stage documents (drafted, ratified, revised)
   that `StageMemory` refines, and one of a proposal.
4. Promotion of knowledge to the project, collection of vector namespaces, the
   remaining gate evaluators (dependencies, security, review).

### Not modelled

- *Embedding providers and model bootstrap*: calls of external libraries and
  downloads. What they mean to the rest is the namespace they select, which
  `IndexJobs` changes freely by `Configure`.
- *Diagnostics* (doctor, observability, timeline, explain): read-only reports;
  they change nothing and wait for nothing.
- *Git feature*: one or two calls of an external program per command.
- *Init, meta, command line*: downloads, layout and argument parsing, run once and
  alone; their effect is the initial state of the modules.
- *Parsers of captured text*, *the text of views*, *ranking and full-text
  search*: pure conversions of strings, best tested by examples. Their results
  are inputs of the models.
- *History logs and event rows*: appended, shown, never decided on.

## 7. Running it

    tlc -workers 2 -config MCRuntimeMutation.cfg MCRuntimeMutation
    tlapm RuntimeMutationProofs.tla

Every other run is the `.cfg` and the module named in `PROJECT.json`.
`stored_memory` is the largest run, three to four minutes with two workers. A
proof module takes from a few seconds to two minutes, `IndexMergeProofs` and
`StageProofs` three to five.
