---------------------------- MODULE GeneratedViews ----------------------------
(***************************************************************************)
(* The derived files of one branch: the JSON projections of the stored     *)
(* stage documents and the Markdown views rendered from them               *)
(* (memory/shared/storage.py, stage_scope.py, validation_views.py,         *)
(* memory/projection/materialize.py, system_store/canonical_state.py,      *)
(* system_store/runtime_mutations.py, application/branch_state.py).        *)
(*                                                                         *)
(* A stage command completes the layout of its stage, commits its          *)
(* documents, writes every JSON projection, renders the views of its stage *)
(* and then checks those views; `memory consolidate` does the same for all *)
(* views without a commit, `memory validate` completes the layout and      *)
(* checks, and a bootstrap (memory init, switching the branch) stores what *)
(* the files say and renders. A command can die between its steps.         *)
(*                                                                         *)
(* A document is a number: 0 is the empty one every branch starts with.    *)
(* A concept is its project name (1, 2, or Placeholder, the words the view *)
(* shows for a name nobody gave), a feature.init of 1 has no goal and no   *)
(* functions yet, one of 2 has. A rendered view is what it was rendered    *)
(* from. The project-context, planning-cache, review, improvements and     *)
(* security-audit views are left out: no check compares them.              *)
(***************************************************************************)
EXTENDS Naturals, Sequences

CONSTANTS Commands,     \* the commands given (a subset of AllCommands)
          MaxCommands   \* how many of them: bounds the counter

Placeholder == 3

Snapshots == {"mvp.concept", "mvp.design", "mvp.tech", "deploy",
              "mvp.architecture", "mvp.plan", "feature.init", "feature.plan"}

Documents == Snapshots \union {"progress"}

ViewKeys == {"concept", "ui-design", "tech-stack", "deployment",
             "architecture", "data-model", "openapi", "implementation-plan",
             "project-analysis", "feature-context"}

ViewKeysByStage ==
  [stage \in Snapshots \union {"mvp.implement", "feature.implement"} |->
     CASE stage = "mvp.concept" -> {"concept"}
       [] stage = "mvp.design" -> {"ui-design"}
       [] stage = "mvp.tech" -> {"tech-stack"}
       [] stage = "deploy" -> {"deployment"}
       [] stage = "mvp.architecture" ->
            {"architecture", "data-model", "openapi"}
       [] stage \in {"mvp.plan", "feature.plan"} -> {"implementation-plan"}
       [] stage = "feature.init" ->
            {"project-analysis", "feature-context", "tech-stack",
             "architecture"}
       [] OTHER -> {}]

Stages == DOMAIN ViewKeysByStage

AllCommands == Stages \union {"consolidate", "validate", "bootstrap"}

SnapshotScope(command) ==
  IF command \in Stages THEN {command} \intersect Snapshots ELSE Snapshots

ViewScope(command) ==
  IF command \in Stages THEN ViewKeysByStage[command] ELSE ViewKeys

ASSUME ViewsAssumption == Commands \subseteq AllCommands /\ MaxCommands \in Nat

VARIABLES
  store,     \* the stage documents in SQLite
  entered,   \* for each document the contents some command has captured
  files,     \* the JSON projections of the documents
  views,     \* the Markdown views
  running,   \* the command under way, "none" when there is none
  phase,     \* the last step it has done
  told,      \* how the last command ended and what it said
  commands   \* commands given so far

viewVars == <<store, entered, files, views, running, phase, told, commands>>

-----------------------------------------------------------------------------
(* The renderers: what each view is made from.                              *)

ProjectName(docs) == docs["mvp.concept"]

\* The words a view shows for the name: most of them show Placeholder for an
\* empty one, so that an empty name and Placeholder look the same.
NameLabel(docs) ==
  IF ProjectName(docs) = 0 THEN Placeholder ELSE ProjectName(docs)

ConceptView(docs) == <<NameLabel(docs)>>

DesignView(docs) == <<docs["mvp.design"], ProjectName(docs)>>

TechView(docs) == <<"mvp", docs["mvp.tech"], NameLabel(docs)>>

FeatureTechView(docs) == <<"feature", docs["feature.init"]>>

DeploymentView(docs) == <<docs["deploy"], ProjectName(docs)>>

ArchitectureView(docs) ==
  <<"mvp", docs["mvp.architecture"], NameLabel(docs)>>

FeatureArchitectureView(docs) == <<"feature", docs["feature.init"]>>

DataModelView(docs) == <<docs["mvp.architecture"], NameLabel(docs)>>

OpenapiView(docs) == <<docs["mvp.architecture"]>>

AnalysisView(docs) == <<docs["feature.init"]>>

FeatureContextView(docs) == <<docs["feature.init"]>>

PlanView(docs) ==
  <<"mvp", docs["mvp.plan"], docs["progress"], ProjectName(docs)>>

FeaturePlanView(docs) ==
  <<"feature", docs["feature.plan"], docs["progress"], docs["feature.init"]>>

-----------------------------------------------------------------------------
(* The materializer, which reads the store.                                 *)

\* The materializer takes a branch for a feature branch as soon as its
\* feature.init says anything at all.
FeatureMode(docs) == docs["feature.init"] # 0

MaterializedPlan(docs) ==
  IF FeatureMode(docs) /\ docs["feature.plan"] # 0
  THEN FeaturePlanView(docs) ELSE PlanView(docs)

Materialized(view, docs) ==
  CASE view = "concept" -> ConceptView(docs)
    [] view = "ui-design" -> DesignView(docs)
    [] view = "tech-stack" ->
         IF FeatureMode(docs) THEN FeatureTechView(docs) ELSE TechView(docs)
    [] view = "architecture" ->
         IF FeatureMode(docs)
         THEN FeatureArchitectureView(docs) ELSE ArchitectureView(docs)
    [] view = "deployment" -> DeploymentView(docs)
    [] view = "data-model" -> DataModelView(docs)
    [] view = "openapi" -> OpenapiView(docs)
    [] view = "project-analysis" -> AnalysisView(docs)
    [] view = "feature-context" -> FeatureContextView(docs)
    [] view = "implementation-plan" -> MaterializedPlan(docs)

-----------------------------------------------------------------------------
(* The validator, which reads the files.                                    *)

\* The validator takes it for one only when it has a goal or functions.
CheckedAsFeature(docs) == docs["feature.init"] = 2

ModesAgree(docs) == FeatureMode(docs) = CheckedAsFeature(docs)

CheckedPlan(docs) ==
  IF CheckedAsFeature(docs) THEN FeaturePlanView(docs) ELSE PlanView(docs)

Expected(view, docs) ==
  CASE view = "tech-stack" ->
         IF CheckedAsFeature(docs)
         THEN FeatureTechView(docs) ELSE TechView(docs)
    [] view = "architecture" ->
         IF CheckedAsFeature(docs)
         THEN FeatureArchitectureView(docs) ELSE ArchitectureView(docs)
    [] view = "implementation-plan" -> CheckedPlan(docs)
    [] OTHER -> Materialized(view, docs)

\* A design and a plan nobody has written are not compared.
Compared(view, docs) ==
  /\ view = "ui-design" => docs["mvp.design"] # 0
  /\ view = "implementation-plan" =>
       docs[IF CheckedAsFeature(docs)
            THEN "feature.plan" ELSE "mvp.plan"] # 0

ViewErrors(scope) ==
  {view \in scope :
     Compared(view, files) /\ views[view] # Expected(view, files)}

-----------------------------------------------------------------------------

ViewsInit ==
  /\ store = [doc \in Documents |-> 0]
  /\ entered = [doc \in Documents |-> {0}]
  /\ files = store
  /\ views = [view \in ViewKeys |-> Materialized(view, store)]
  /\ running = "none"
  /\ phase = "idle"
  /\ told = <<"none", "done">>
  /\ commands = 0

End(result) ==
  /\ told' = <<running, result>>
  /\ running' = "none"
  /\ phase' = "idle"

\* An empty concept beside a concept.md is taken for a project from before the
\* structured memory: the document is read back from the view.
CompletedLayout(scope) ==
  IF "mvp.concept" \in scope /\ files["mvp.concept"] = 0
  THEN [files EXCEPT !["mvp.concept"] = views["concept"][1]]
  ELSE files

Start(command) ==
  /\ running = "none"
  /\ commands < MaxCommands
  /\ running' = command
  /\ phase' = "laid out"
  /\ files' = CompletedLayout(SnapshotScope(command))
  /\ commands' = commands + 1
  /\ UNCHANGED <<store, entered, views, told>>

\* What a stage command can make of a document: a name is replaced, an intake
\* only grows.
Contents(doc) ==
  IF doc = "feature.init"
  THEN {n \in 1..2 : n > store[doc]} ELSE (1..2) \ {store[doc]}

Changed(stage) ==
  (IF stage \in Snapshots THEN {stage} ELSE {}) \union
  (IF stage \in {"mvp.plan", "feature.plan", "mvp.implement",
                 "feature.implement"} THEN {"progress"} ELSE {})

\* The command commits: its documents get new contents in one transaction.
Commit ==
  /\ phase = "laid out" /\ running \in Stages
  /\ \E new \in [Changed(running) -> 1..2] :
       /\ \A doc \in Changed(running) : new[doc] \in Contents(doc)
       /\ store' = [doc \in Documents |->
                      IF doc \in DOMAIN new THEN new[doc] ELSE store[doc]]
       /\ entered' = [doc \in Documents |->
                        IF doc \in DOMAIN new
                        THEN entered[doc] \union {new[doc]} ELSE entered[doc]]
  /\ phase' = "stored"
  /\ UNCHANGED <<files, views, running, told, commands>>

\* The command is refused, or only reads; its layout stays.
Refuse ==
  /\ phase = "laid out" /\ running \in Stages
  /\ End("refused")
  /\ UNCHANGED <<store, entered, files, views, commands>>

\* Every JSON projection is written, whatever the scope. Variant: those of the
\* stage only.
WrittenByScope ==
  [doc \in Documents |->
     IF doc \in SnapshotScope(running) \union {"progress"}
     THEN store[doc] ELSE files[doc]]

Written == store

WriteFiles ==
  /\ \/ phase = "stored"
     \/ phase = "laid out" /\ running = "consolidate"
  /\ files' = Written
  /\ phase' = "written"
  /\ UNCHANGED <<store, entered, views, running, told, commands>>

\* A bootstrap goes the other way: the store takes the files' word.
SyncFiles ==
  /\ phase = "laid out" /\ running = "bootstrap"
  /\ store' = files
  /\ phase' = "written"
  /\ UNCHANGED <<entered, files, views, running, told, commands>>

Rendered(scope) ==
  [view \in ViewKeys |->
     IF view \in scope THEN Materialized(view, store) ELSE views[view]]

Render ==
  /\ phase = "written"
  /\ views' = Rendered(ViewScope(running))
  /\ IF running \in Stages
     THEN phase' = "rendered" /\ UNCHANGED <<running, told>>
     ELSE End("done")
  /\ UNCHANGED <<store, entered, files, commands>>

\* A stage command answers "stale" when its own views do not pass.
Check ==
  /\ phase = "rendered"
  /\ End(IF ViewErrors(ViewScope(running)) = {} THEN "synced" ELSE "stale")
  /\ UNCHANGED <<store, entered, files, views, commands>>

Validate ==
  /\ phase = "laid out" /\ running = "validate"
  /\ End(IF ViewErrors(ViewScope(running)) = {} THEN "valid" ELSE "invalid")
  /\ UNCHANGED <<store, entered, files, views, commands>>

RenderOrder ==
  <<"concept", "ui-design", "tech-stack", "architecture", "project-analysis",
    "feature-context", "deployment", "data-model", "openapi",
    "implementation-plan">>

\* The command dies, with the first views of its scope written.
Crash ==
  /\ running # "none"
  /\ \E n \in IF phase = "written" THEN 0..Len(RenderOrder) ELSE {0} :
       views' = Rendered({RenderOrder[i] : i \in 1..n}
                           \intersect ViewScope(running))
  /\ End("died")
  /\ UNCHANGED <<store, entered, files, commands>>

ViewsNext ==
  \/ \E command \in Commands : Start(command)
  \/ Commit \/ Refuse \/ WriteFiles \/ SyncFiles
  \/ Render \/ Check \/ Validate \/ Crash

ViewsSpec == ViewsInit /\ [][ViewsNext]_viewVars

-----------------------------------------------------------------------------

ViewsTypeOK ==
  /\ store \in [Documents -> 0..3]
  /\ files \in [Documents -> 0..3]
  /\ DOMAIN views = ViewKeys
  /\ running \in AllCommands \union {"none"}
  /\ phase \in {"idle", "laid out", "stored", "written", "rendered"}
  /\ (running = "none") <=> (phase = "idle")
  /\ commands \in 0..MaxCommands

\* A stage command that is not interrupted does not find its own views stale,
\* and after a whole `memory consolidate` the check of the whole branch finds
\* nothing, whatever died before: provided the branch is a feature branch for
\* the materializer exactly when it is one for the check.
ViewsPassTheirCheck ==
  ModesAgree(store) =>
    /\ told[2] # "stale" \/ phase # "idle"
    /\ told = <<"consolidate", "done">> /\ phase = "idle" =>
         files = store /\ ViewErrors(ViewKeys) = {}

\* docs/cli/memory.md:28 calls the JSON files and the Markdown documents
\* projections that are rebuilt from the canonical state and do not replace it:
\* what the store holds is what some command captured.
CanonicalIsEntered ==
  \A doc \in Documents : store[doc] \in entered[doc]
=============================================================================
