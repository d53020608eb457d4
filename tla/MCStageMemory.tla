--------------------------- MODULE MCStageMemory ---------------------------
(* The commands on one stage at a time, with the documents it refers to.   *)
EXTENDS StageMemory

CONSTANTS a, b1, none, c1, c2

Full(s) ==
  CASE s = "mvp.concept" ->
         [Default(s) EXCEPT !.systemOverview = a, !.audiences = {a}, !.scenarios = {a}, !.painPoints = {a}, !.p1 = {"f1"}]
    [] s = "mvp.design" ->
         [Default(s) EXCEPT !.designOverview = a, !.platforms = {a}, !.zones = {"z"}, !.navigation = {<<"s1", "s1">>},
            !.screens = {[id |-> "s1", zone |-> "z", prototype |-> Entry, covers |-> {<<"p1", "f1">>},
                          displayed |-> {"d"}, input |-> {"i"}]},
            !.flows = {[id |-> "w1", at |-> 1, steps |-> <<"s1">>]}]
    [] s = "mvp.tech" ->
         [Default(s) EXCEPT !.projectType = a, !.stackOverview = a, !.codeOrganization = a,
            !.components = {"language", "build", "testing"}]
    [] s = "deploy" ->
         [Default(s) EXCEPT !.deployOverview = a, !.goals = {a}, !.environments = {a}, !.deploymentUnits = {a},
            !.releaseStrategy = a, !.rollbackStrategy = a]
    [] s = "mvp.architecture" ->
         [Default(s) EXCEPT !.architectureOverview = a, !.strategy = a, !.rationale = a, !.directories = {a},
            !.patterns = {a}, !.entities = {[id |-> "e1", fields |-> {"x"}, targets |-> {"e1"}]},
            !.endpoints = {[id |-> "o1", declared |-> TRUE, summary |-> a, screens |-> {"s1"},
                            request |-> {"i"}, response |-> {"d"}]}]
    [] s = "feature.init" ->
         [Default(s) EXCEPT !.featureGoal = a, !.problem = a, !.expectedOutcome = a, !.framework = a,
            !.p1 = {[id |-> "f1", detail |-> a]}, !.newFiles = {[id |-> "n1", detail |-> a]}]
    [] s \in PlanStages ->
         [Default(s) EXCEPT !.planOverview = a,
            !.stepCatalog = {[id |-> "t1", kind |-> "code", tdd |-> "required", waiver |-> NoText]}]

\* A list a checkpoint requires, which a half and a cleanup may leave out.
Needed(s) == CASE s = "mvp.concept" -> "audiences"
               [] s = "mvp.design" -> "screens"
               [] s = "mvp.tech" -> "components"
               [] s = "deploy" -> "goals"
               [] s = "mvp.architecture" -> "endpoints"
               [] s = "feature.init" -> "newFiles"
               [] s \in PlanStages -> "stepCatalog"

Only(s, fields) == [f \in DOMAIN Full(s) |-> IF f \in fields THEN Full(s)[f] ELSE Default(s)[f]]
Lacking(s) == Only(s, DOMAIN Full(s) \ {Needed(s)})

\* A second entry: of another key, of the same key, and one that the normaliser drops.
Extras(s) ==
  CASE s = "mvp.concept" -> {[Default(s) EXCEPT !.p1 = {"f2"}]}
    [] s = "mvp.design" -> {[Default(s) EXCEPT !.screens = {[id |-> "s1", zone |-> NoText, prototype |-> NoText,
                               covers |-> {<<"p1", "f2">>}, displayed |-> {}, input |-> {}]},
                             !.flows = {[id |-> "w1", at |-> 1, steps |-> <<"s1", "s2">>], [id |-> "w2", at |-> 2, steps |-> <<>>]}]}
    [] s = "mvp.architecture" -> {[Default(s) EXCEPT !.endpoints = {[id |-> "o2", declared |-> FALSE, summary |-> NoText,
                                     screens |-> {"s1"}, request |-> {}, response |-> {}]},
                                   !.entities = {[id |-> "e1", fields |-> {"y"}, targets |-> {}]}]}
    [] s = "feature.init" -> {[Default(s) EXCEPT !.newFiles = {[id |-> "n1", detail |-> b1]}]}
    [] OTHER -> {[Default(s) EXCEPT !.nextActions = {b1}]}

CapturePatches(s) == IF s \in PlanStages THEN {Only(s, {"planOverview"})} \cup Extras(s)
                     ELSE {Only(s, {Needed(s)})} \cup Extras(s)

T1 == [id |-> "t1", kind |-> "code", tdd |-> "required", waiver |-> NoText]
T2 == [T1 EXCEPT !.id = "t2"]

ReplacingPayloads(s) ==
  {Lacking(s)} \cup IF s \in PlanStages
                   THEN {Full(s), [Full(s) EXCEPT !.stepCatalog = {[T1 EXCEPT !.kind = "odd", !.tdd = "waived",
                                                                             !.waiver = a]}]}
                   ELSE {[Full(s) EXCEPT !.nextActions = {NoText, b1}]}

Reviewed(s) == [Fresh(s) EXCEPT !.body = Full(s), !.summary = Summary, !.ratified = TRUE, !.revision = 1]
Drafted(s) == [Fresh(s) EXCEPT !.body = Full(s)]

\* A ratified plan that was replaced before by one with a step nobody has registered.
Ahead(s) == [Reviewed(s) EXCEPT !.body.stepCatalog = {T1, T2}]

\* What the documents a stage refers to are: complete drafts.
Others(s) == [x \in Stages |-> IF x \in {"mvp.concept", "mvp.design"} \ {s} THEN Drafted(x) ELSE Fresh(x)]

Planned(s, rows) == [p \in PlanStages |-> IF p = s THEN rows ELSE {}]

MCPatches == [s \in Stages |-> CapturePatches(s)]
MCPayloads == [s \in Stages |-> ReplacingPayloads(s)]
\* An entry that a checkpoint requires, and one that it brought.
MCOperations == [s \in Stages |-> {{o} : o \in Held(s, Only(s, {Needed(s)}))} \cup {{<<"nextActions", a>>}}
                                   \cup IF s \in PlanStages THEN {{<<"stepCatalog", "t2">>}} ELSE {}]
MCNotes == {{a}}
MCStepRows == {[T1 EXCEPT !.kind = "non-code", !.tdd = "waived", !.waiver = a],
               T2, [T2 EXCEPT !.tdd = "waived", !.waiver = a]}

\* A complete draft, a ratified document, a plan ahead of its steps, or nothing yet.
MCDocuments ==
  [s \in Stages |->
     {[docs |-> [Others(s) EXCEPT ![s] = d],
       progress |-> Planned(s, IF s \in PlanStages THEN {T1} ELSE {})] :
        d \in {Drafted(s), Reviewed(s)} \cup IF s \in PlanStages THEN {Ahead(s)} ELSE {}}
     \cup {[docs |-> Others(s), progress |-> Planned(s, {})]}]
=============================================================================
