--------------------------- MODULE StageDocuments ---------------------------
(***************************************************************************)
(* The documents of the eight stages that keep one (memory/stages/): what  *)
(* an empty document is, what its normaliser drops, what an update makes   *)
(* of it, and what a checkpoint requires of it.                            *)
(*                                                                         *)
(* A document has texts, of which NoText is the empty one, and lists, as   *)
(* sets; their order matters only for the flows of a design, which have    *)
(* their place "at".  An entry of a list is a value, or a record where an  *)
(* update finds it by its key "id" or another document refers into it;     *)
(* NoText among the entries, or as the key of one, is an entry with a      *)
(* required part empty, which the normaliser drops.  Titles, descriptions  *)
(* and times are left out.  The rows of one update have different keys.    *)
(***************************************************************************)
EXTENDS Naturals, Sequences, FiniteSets, Functions, FiniteSetsExt

CONSTANTS NoText,    \* an empty text
          Entry,     \* the path of the branch's main prototype
          Existing   \* the prototype files in the project (external: the agent writes them)

Priorities == {"p1", "p2", "p3"}

Blank(texts, lists) == [f \in texts \cup lists |-> IF f \in texts THEN NoText ELSE {}]

Given(old, new) == IF new = NoText THEN old ELSE new

\* Texts are overwritten by what is not empty, lists gather what they do not hold.
Gathered(doc, patch, texts, lists) ==
  [f \in DOMAIN doc |-> CASE f \in texts -> Given(doc[f], patch[f])
                          [] f \in lists -> doc[f] \cup patch[f]
                          [] OTHER       -> doc[f]]

Cleaned(doc, lists) == [f \in DOMAIN doc |-> IF f \in lists THEN doc[f] \ {NoText} ELSE doc[f]]

Keyed(rows) == {r \in rows : r.id # NoText}
IdsOf(rows) == {r.id : r \in rows}

\* New rows are appended, rows of a known key merged into it.
Upserted(rows, new, Join(_, _)) ==
  {IF r.id \in IdsOf(new) THEN Join(r, CHOOSE n \in new : n.id = r.id) ELSE r : r \in rows}
    \cup {n \in Keyed(new) : n.id \notin IdsOf(rows)}

FirstKept(rows, new) == rows \cup {n \in Keyed(new) : n.id \notin IdsOf(rows)}

Filled(doc, texts, lists) == (\A f \in texts : doc[f] # NoText) /\ (\A f \in lists : doc[f] # {})

(***************************************************************************)
(* mvp.concept                                                             *)
(***************************************************************************)

ConceptTexts == {"projectName", "systemOverview"}
ConceptLists == {"audiences", "scenarios", "painPoints", "constraints", "assumptions", "nextActions"}
ConceptDefault == Blank(ConceptTexts, ConceptLists \cup Priorities)
ConceptNormal(doc) == Cleaned(doc, ConceptLists \cup Priorities)
ConceptUpdate(doc, patch) == Gathered(ConceptNormal(doc), patch, ConceptTexts, ConceptLists \cup Priorities)
ConceptRequired(doc) == Filled(doc, {"systemOverview"}, {"audiences", "scenarios", "painPoints", "p1"})

(***************************************************************************)
(* mvp.design: screens name a zone and a prototype, cover features and use *)
(* data; flows are the screens they pass; navigation is pairs of screens.  *)
(***************************************************************************)

DesignTexts == {"designOverview"}
DesignLists == {"platforms", "zones", "navigation", "platformConstraints", "nextActions"}
DesignDefault == Blank(DesignTexts, DesignLists \cup {"screens", "flows"})

DesignScreens(rows) == Keyed(rows)
DesignFlows(rows) == Keyed(rows)

DesignNormal(doc) == [Cleaned(doc, DesignLists) EXCEPT !.screens = DesignScreens(@), !.flows = DesignFlows(@)]

JoinScreen(old, new) == [id        |-> old.id,
                         zone      |-> Given(old.zone, new.zone),
                         prototype |-> Given(old.prototype, new.prototype),
                         covers    |-> old.covers \cup new.covers,
                         displayed |-> old.displayed \cup new.displayed,
                         input     |-> old.input \cup new.input]

JoinFlow(old, new) == LET fresh == SelectSeq(new.steps, LAMBDA s : s \notin Range(old.steps))
                      IN  [id |-> old.id, at |-> old.at, steps |-> old.steps \o fresh]

\* New flows are appended.
UpsertFlows(flows, new) ==
  LET last == Max({f.at : f \in flows} \cup {0})
  IN  Upserted(flows, {[f EXCEPT !.at = @ + last] : f \in new}, JoinFlow)

DesignUpdate(doc, patch) ==
  LET normal == DesignNormal(doc)
  IN  [Gathered(normal, patch, DesignTexts, DesignLists) EXCEPT
         !.screens = Upserted(@, patch.screens, JoinScreen),
         !.flows = UpsertFlows(@, patch.flows)]

DesignRequired(doc) == Filled(doc, DesignTexts, {"platforms", "screens", "navigation", "flows"})

DesignCoverage(doc, priority) == {c[2] : c \in {x \in UNION {s.covers : s \in doc.screens} : x[1] = priority}}

DesignCovers(doc, concept) == \A p \in Priorities : concept[p] \subseteq DesignCoverage(doc, p)

PrototypesExist(doc) == {Entry} \cup ({s.prototype : s \in doc.screens} \ {NoText}) \subseteq Existing

PrimaryFlow(flows) == CHOOSE f \in flows : \A g \in flows : f.at <= g.at

DesignReferences(doc) ==
  LET screens == IdsOf(doc.screens)
      entries == {s \in doc.screens : s.prototype = Entry}
  IN  /\ \A s \in doc.screens : s.zone \in doc.zones \cup {NoText} /\ s.prototype # NoText
      /\ \A f \in doc.flows : f.steps # <<>> /\ Range(f.steps) \subseteq screens
      /\ \A link \in doc.navigation : {link[1], link[2]} \subseteq screens
      /\ Cardinality(entries) = 1
      /\ doc.flows # {} => Head(PrimaryFlow(doc.flows).steps) \in IdsOf(entries)
      /\ PrototypesExist(doc)

(***************************************************************************)
(* mvp.tech: a component is its slot.                                      *)
(***************************************************************************)

TechTexts == {"projectType", "stackOverview", "codeOrganization"}
TechLists == {"requirements", "preferences", "constraints", "nextActions", "components", "libraries", "alternatives"}
TechDefault == Blank(TechTexts, TechLists)
TechNormal(doc) == Cleaned(doc, TechLists)
TechUpdate(doc, patch) == Gathered(TechNormal(doc), patch, TechTexts, TechLists)
TechRequired(doc) == /\ Filled(doc, TechTexts, {})
                     /\ {"language", "build"} \subseteq doc.components
                     /\ doc.components \cap {"unit-testing", "integration-testing", "e2e-testing", "testing"} # {}

(***************************************************************************)
(* deploy                                                                  *)
(***************************************************************************)

DeployTexts == {"deployOverview", "releaseStrategy", "rollbackStrategy"}
DeployLists == {"goals", "environments", "deploymentUnits", "configNotes", "secretNotes", "cicdTriggers",
                "cicdSteps", "releaseArtifacts", "migrationNotes", "backupNotes", "recoveryChecks",
                "observabilityNotes", "securityControls", "constraints", "nextActions"}
DeployDefault == Blank(DeployTexts, DeployLists)
DeployNormal(doc) == Cleaned(doc, DeployLists)
DeployUpdate(doc, patch) == Gathered(DeployNormal(doc), patch, DeployTexts, DeployLists)
DeployRequired(doc) == Filled(doc, DeployTexts, {"goals", "environments", "deploymentUnits"})

(***************************************************************************)
(* mvp.architecture: entities have fields and name the targets of their    *)
(* relationships; endpoints serve screens with request and response        *)
(* fields, and are dropped without a method and a path ("declared").       *)
(***************************************************************************)

ArchitectureTexts == {"architectureOverview", "strategy", "rationale"}
ArchitectureLists == {"directories", "integrations", "codePrinciples", "patterns", "securityNotes",
                      "performanceNotes", "nextActions"}
ArchitectureDefault == Blank(ArchitectureTexts, ArchitectureLists \cup {"entities", "endpoints"})

ArchitectureEntities(rows) == {[id |-> e.id, fields |-> e.fields \ {NoText}, targets |-> e.targets \ {NoText}] :
                                 e \in Keyed(rows)}
ArchitectureEndpoints(rows) == {e \in Keyed(rows) : e.declared}

ArchitectureNormal(doc) == [Cleaned(doc, ArchitectureLists) EXCEPT
                              !.entities = ArchitectureEntities(@), !.endpoints = ArchitectureEndpoints(@)]

JoinEntity(old, new) == [id      |-> old.id,
                         fields  |-> old.fields \cup new.fields,
                         targets |-> old.targets \cup new.targets]

JoinEndpoint(old, new) == [id       |-> old.id,
                           declared |-> old.declared \/ new.declared,
                           summary  |-> Given(old.summary, new.summary),
                           screens  |-> old.screens \cup new.screens,
                           request  |-> old.request \cup new.request,
                           response |-> old.response \cup new.response]

ArchitectureUpdate(doc, patch) ==
  LET normal == ArchitectureNormal(doc)
  IN  [Gathered(normal, patch, ArchitectureTexts, ArchitectureLists) EXCEPT
         !.entities = Upserted(@, patch.entities, JoinEntity),
         !.endpoints = Upserted(@, patch.endpoints, JoinEndpoint)]

ArchitectureRequired(doc) ==
  /\ Filled(doc, ArchitectureTexts, {"directories"})
  /\ \E e \in doc.entities : e.fields # {}
  /\ \E e \in doc.endpoints : e.screens # {}
  /\ \E e \in doc.endpoints : e.response # {}
  /\ doc.codePrinciples \cup doc.patterns # {}

ArchitectureReferences(doc, design) ==
  /\ \A e \in doc.entities : e.targets \subseteq IdsOf(doc.entities)
  /\ \A e \in doc.endpoints : e.summary # NoText /\ e.screens \subseteq IdsOf(design.screens)
  /\ \A s \in design.screens :
       LET linked == {e \in doc.endpoints : s.id \in e.screens}
       IN  /\ linked # {}
           /\ s.input \subseteq UNION {e.request : e \in linked}
           /\ s.displayed \subseteq UNION {e.response : e \in linked}

(***************************************************************************)
(* mvp.plan and feature.plan: the catalog's rows are replaced whole.       *)
(***************************************************************************)

PlanTexts == {"planOverview"}
PlanLists == {"planningPrinciples", "nextActions"}
PlanDefault == Blank(PlanTexts, PlanLists \cup {"stepCatalog"})

\* An unknown kind or policy becomes the usual one, and only a waived step keeps its reason.
CatalogRow(row) ==
  LET kind == IF row.kind \in {"code", "non-code"} THEN row.kind ELSE "code"
      tdd  == CASE row.tdd \in {"required", "waived", "not-applicable"} -> row.tdd
                [] row.tdd \notin {"required", "waived", "not-applicable"} /\ kind = "code" -> "required"
                [] OTHER -> "not-applicable"
  IN  [id |-> row.id, kind |-> kind, tdd |-> tdd, waiver |-> IF tdd = "waived" THEN row.waiver ELSE NoText]

PlanNormal(doc) == [Cleaned(doc, PlanLists) EXCEPT !.stepCatalog = {CatalogRow(r) : r \in Keyed(@)}]
PlanUpdate(doc, patch) == Gathered(PlanNormal(doc), patch, PlanTexts, PlanLists)
PlanCatalogUpsert(doc, row) == [PlanNormal(doc) EXCEPT
                                  !.stepCatalog = {r \in @ : r.id # row.id} \cup {CatalogRow(row)}]

CatalogValid(catalog) == \A r \in catalog : /\ r.kind = "code" <=> r.tdd = "required"
                                            /\ r.tdd = "waived" => r.waiver # NoText

PlanRequired(doc) == Filled(doc, PlanTexts, {"stepCatalog"}) /\ CatalogValid(doc.stepCatalog)

\* registered: the planned steps as the catalog row each was registered with; registering made its directory.
PlanReferences(doc, registered) == /\ IdsOf(registered) \subseteq IdsOf(doc.stepCatalog)
                                   /\ doc.stepCatalog \subseteq registered

FeaturePlanRequired(doc) == PlanRequired(doc)
FeaturePlanReferences(doc, registered) == PlanReferences(doc, registered)

(***************************************************************************)
(* feature.init: a row of a known key is kept as it was.                   *)
(***************************************************************************)

FeatureInitTexts == {"featureGoal", "problem", "expectedOutcome", "projectType", "framework"}
FeatureInitLists == {"structureNotes", "interfaceContracts", "risks", "recommendations", "techNotes",
                     "architectureNotes", "nextActions"}
FeatureInitRows == {"existingModules", "modifiedFiles", "newFiles", "dependencies"} \cup Priorities
FeatureInitDefault == Blank(FeatureInitTexts, FeatureInitLists \cup FeatureInitRows)

FeatureInitNormal(doc) == [f \in DOMAIN doc |-> IF f \in FeatureInitRows THEN Keyed(doc[f])
                                                ELSE Cleaned(doc, FeatureInitLists)[f]]

FeatureInitUpdate(doc, patch) ==
  LET normal == FeatureInitNormal(doc)
  IN  [f \in DOMAIN doc |-> IF f \in FeatureInitRows THEN FirstKept(normal[f], patch[f])
                            ELSE Gathered(normal, patch, FeatureInitTexts, FeatureInitLists)[f]]

FeatureInitRequired(doc) == /\ Filled(doc, {"featureGoal", "problem", "expectedOutcome", "framework"}, {})
                            /\ \E p \in Priorities : doc[p] # {}
                            /\ doc.modifiedFiles \cup doc.newFiles # {}

(***************************************************************************)
(* All stages.                                                             *)
(***************************************************************************)

PlanStages == {"mvp.plan", "feature.plan"}
Stages == {"mvp.concept", "mvp.design", "mvp.tech", "deploy", "mvp.architecture", "feature.init"} \cup PlanStages

Default(stage) ==
  CASE stage = "mvp.concept"      -> ConceptDefault
    [] stage = "mvp.design"       -> DesignDefault
    [] stage = "mvp.tech"         -> TechDefault
    [] stage = "deploy"           -> DeployDefault
    [] stage = "mvp.architecture" -> ArchitectureDefault
    [] stage = "feature.init"     -> FeatureInitDefault
    [] stage \in PlanStages       -> PlanDefault

Normal(stage, doc) ==
  CASE stage = "mvp.concept"      -> ConceptNormal(doc)
    [] stage = "mvp.design"       -> DesignNormal(doc)
    [] stage = "mvp.tech"         -> TechNormal(doc)
    [] stage = "deploy"           -> DeployNormal(doc)
    [] stage = "mvp.architecture" -> ArchitectureNormal(doc)
    [] stage = "feature.init"     -> FeatureInitNormal(doc)
    [] stage \in PlanStages       -> PlanNormal(doc)

Updated(stage, doc, patch) ==
  CASE stage = "mvp.concept"      -> ConceptUpdate(doc, patch)
    [] stage = "mvp.design"       -> DesignUpdate(doc, patch)
    [] stage = "mvp.tech"         -> TechUpdate(doc, patch)
    [] stage = "deploy"           -> DeployUpdate(doc, patch)
    [] stage = "mvp.architecture" -> ArchitectureUpdate(doc, patch)
    [] stage = "feature.init"     -> FeatureInitUpdate(doc, patch)
    [] stage \in PlanStages       -> PlanUpdate(doc, patch)

\* What a checkpoint requires of the document alone.
Required(stage, doc) ==
  CASE stage = "mvp.concept"      -> ConceptRequired(doc)
    [] stage = "mvp.design"       -> DesignRequired(doc)
    [] stage = "mvp.tech"         -> TechRequired(doc)
    [] stage = "deploy"           -> DeployRequired(doc)
    [] stage = "mvp.architecture" -> ArchitectureRequired(doc)
    [] stage = "feature.init"     -> FeatureInitRequired(doc)
    [] stage = "mvp.plan"         -> PlanRequired(doc)
    [] stage = "feature.plan"     -> FeaturePlanRequired(doc)

\* ... and of what it refers to, in the other documents of the branch.
Referenced(stage, doc, docs) ==
  CASE stage = "mvp.design"       -> DesignCovers(doc, docs["mvp.concept"]) /\ DesignReferences(doc)
    [] stage = "mvp.architecture" -> ArchitectureReferences(doc, docs["mvp.design"])
    [] OTHER                      -> TRUE
=============================================================================
