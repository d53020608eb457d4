----------------------------- MODULE StageProofs -----------------------------
(***************************************************************************)
(* Proofs about StageDocuments and StageMemory.                            *)
(***************************************************************************)
EXTENDS StageMemory, TLAPS

-----------------------------------------------------------------------------
(* A document of a stage: a function on the fields of the stage.             *)
IsBody(s, body) == body = [f \in DOMAIN Default(s) |-> body[f]]

\* The entries of one document are entries of another.
Kept(s, old, new) ==
  \A f \in DOMAIN Default(s) :
    IF f \in Rows(s) THEN IdsOf(old[f]) \subseteq IdsOf(new[f])
    ELSE IsText(s, f) \/ old[f] \subseteq new[f]

\* A document whose entries are kept holds what the other holds.
LEMMA KeptIsHeld ==
  ASSUME NEW s, NEW old, NEW new, IsBody(s, old), IsBody(s, new), Kept(s, old, new)
  PROVE  Held(s, old) \subseteq Held(s, new)
<1> DEFINE Part(body, f) == CASE f \in Rows(s) -> {<<f, r.id>> : r \in body[f]}
                              [] IsText(s, f)  -> {}
                              [] OTHER         -> {<<f, e>> : e \in body[f]}
<1>1. /\ DOMAIN old = DOMAIN Default(s) /\ DOMAIN new = DOMAIN Default(s)
  BY DEF IsBody
<1>2. /\ Held(s, old) = UNION {Part(old, f) : f \in DOMAIN Default(s)}
      /\ Held(s, new) = UNION {Part(new, f) : f \in DOMAIN Default(s)}
  BY <1>1, Zenon DEF Held
<1>3. ASSUME NEW f \in DOMAIN Default(s) PROVE Part(old, f) \subseteq Part(new, f)
  <2>1. CASE f \in Rows(s)
    <3>1. IdsOf(old[f]) \subseteq IdsOf(new[f])
      BY <2>1 DEF Kept
    <3>2. Part(old, f) = {<<f, r.id>> : r \in old[f]} /\ Part(new, f) = {<<f, r.id>> : r \in new[f]}
      BY <2>1 DEF IsText
    <3> QED
      BY <3>1, <3>2 DEF IdsOf
  <2>2. CASE f \notin Rows(s) /\ IsText(s, f)
    BY <2>2
  <2>3. CASE f \notin Rows(s) /\ ~IsText(s, f)
    BY <2>3 DEF Kept
  <2> QED
    BY <2>1, <2>2, <2>3
<1> HIDE DEF Part
<1> QED
  BY <1>2, <1>3, Zenon

-----------------------------------------------------------------------------
(* Documents of texts and lists of values: concept, tech and deploy.         *)
LEMMA PlainUpdates ==
  ASSUME NEW doc, NEW patch, NEW texts, NEW lists, texts \cap lists = {},
         DOMAIN doc = texts \cup lists
  PROVE  LET normal == Cleaned(doc, lists)
             new    == Gathered(normal, patch, texts, lists)
             after  == Cleaned(new, lists)
         IN  /\ new = [f \in DOMAIN doc |-> new[f]]
             /\ normal = [f \in DOMAIN doc |-> normal[f]]
             /\ \A f \in lists : normal[f] \subseteq new[f] /\ normal[f] \subseteq after[f]
             /\ \A f \in texts : normal[f] # NoText => after[f] # NoText
BY DEF Cleaned, Gathered, Given

LEMMA FilledStays ==
  ASSUME NEW doc, NEW new, NEW T, NEW L,
         \A f \in T : doc[f] # NoText => new[f] # NoText,
         \A f \in L : doc[f] \subseteq new[f],
         Filled(doc, T, L)
  PROVE  Filled(new, T, L)
BY DEF Filled

\* What an update does to a document: it has the fields of its stage, no entry is
\* lost, and what a checkpoint requires of the document stays true.
UpdatesWell(s, body, patch) ==
  /\ IsBody(s, Normal(s, body)) /\ IsBody(s, Updated(s, body, patch))
  /\ Kept(s, Normal(s, body), Updated(s, body, patch))
  /\ Required(s, Normal(s, body)) => Required(s, Normal(s, Updated(s, body, patch)))

LEMMA PlainUpdatesWell ==
  ASSUME NEW s, NEW body, NEW patch, NEW texts, NEW lists, texts \cap lists = {},
         IsBody(s, body), Default(s) = Blank(texts, lists), Rows(s) = {},
         \A doc : Normal(s, doc) = Cleaned(doc, lists),
         Updated(s, body, patch) = Gathered(Normal(s, body), patch, texts, lists),
         \A old, new : /\ Required(s, old)
                       /\ \A f \in texts : old[f] # NoText => new[f] # NoText
                       /\ \A f \in lists : old[f] \subseteq new[f]
                       => Required(s, new)
  PROVE  UpdatesWell(s, body, patch)
<1> DEFINE new == Gathered(Cleaned(body, lists), patch, texts, lists)
<1>1. DOMAIN Default(s) = texts \cup lists /\ \A f \in texts : Default(s)[f] = NoText
  BY DEF Blank
<1>2. DOMAIN body = texts \cup lists
  BY <1>1 DEF IsBody
<1>3. /\ new = [f \in DOMAIN body |-> new[f]]
      /\ Cleaned(body, lists) = [f \in DOMAIN body |-> Cleaned(body, lists)[f]]
      /\ \A f \in lists : Cleaned(body, lists)[f] \subseteq new[f]
                          /\ Cleaned(body, lists)[f] \subseteq Cleaned(new, lists)[f]
      /\ \A f \in texts : Cleaned(body, lists)[f] # NoText => Cleaned(new, lists)[f] # NoText
  BY <1>2, PlainUpdates
<1>4. Normal(s, body) = Cleaned(body, lists) /\ Updated(s, body, patch) = new
      /\ Normal(s, Updated(s, body, patch)) = Cleaned(new, lists)
  OBVIOUS
<1> HIDE DEF new
<1>5. IsBody(s, Normal(s, body)) /\ IsBody(s, Updated(s, body, patch))
  BY <1>1, <1>2, <1>3, <1>4 DEF IsBody
<1>6. Kept(s, Normal(s, body), Updated(s, body, patch))
  BY <1>1, <1>3, <1>4 DEF Kept, IsText
<1>7. Required(s, Normal(s, body)) => Required(s, Normal(s, Updated(s, body, patch)))
  BY <1>3, <1>4
<1> QED
  BY <1>5, <1>6, <1>7 DEF UpdatesWell

LEMMA ConceptUpdatesWell ==
  ASSUME NEW body, NEW patch, IsBody("mvp.concept", body)
  PROVE  UpdatesWell("mvp.concept", body, patch)
<1> DEFINE lists == ConceptLists \cup Priorities
<1>1. ConceptTexts \cap lists = {}
  BY DEF ConceptTexts, ConceptLists, Priorities
<1>2. /\ Default("mvp.concept") = Blank(ConceptTexts, lists)
      /\ Rows("mvp.concept") = {}
      /\ \A doc : Normal("mvp.concept", doc) = Cleaned(doc, lists)
      /\ Updated("mvp.concept", body, patch) = Gathered(Normal("mvp.concept", body), patch, ConceptTexts, lists)
  BY DEF Default, ConceptDefault, Rows, PlanStages, Normal, ConceptNormal, Updated, ConceptUpdate
<1>3. ASSUME NEW old, NEW new, Required("mvp.concept", old),
             \A f \in ConceptTexts : old[f] # NoText => new[f] # NoText,
             \A f \in lists : old[f] \subseteq new[f]
      PROVE  Required("mvp.concept", new)
  <2>1. Filled(old, {"systemOverview"}, {"audiences", "scenarios", "painPoints", "p1"})
    BY <1>3 DEF Required, ConceptRequired
  <2>2. Filled(new, {"systemOverview"}, {"audiences", "scenarios", "painPoints", "p1"})
    BY <1>3, <2>1, FilledStays DEF ConceptTexts, ConceptLists, Priorities
  <2> QED
    BY <2>2 DEF Required, ConceptRequired
<1> QED
  BY <1>1, <1>2, <1>3, PlainUpdatesWell

LEMMA TechUpdatesWell ==
  ASSUME NEW body, NEW patch, IsBody("mvp.tech", body)
  PROVE  UpdatesWell("mvp.tech", body, patch)
<1>1. TechTexts \cap TechLists = {}
  BY DEF TechTexts, TechLists
<1>2. /\ Default("mvp.tech") = Blank(TechTexts, TechLists)
      /\ Rows("mvp.tech") = {}
      /\ \A doc : Normal("mvp.tech", doc) = Cleaned(doc, TechLists)
      /\ Updated("mvp.tech", body, patch) = Gathered(Normal("mvp.tech", body), patch, TechTexts, TechLists)
  BY DEF Default, TechDefault, Rows, PlanStages, Normal, TechNormal, Updated, TechUpdate
<1>3. ASSUME NEW old, NEW new, Required("mvp.tech", old),
             \A f \in TechTexts : old[f] # NoText => new[f] # NoText,
             \A f \in TechLists : old[f] \subseteq new[f]
      PROVE  Required("mvp.tech", new)
  <2>1. TechRequired(old)
    BY <1>3 DEF Required
  <2>2. Filled(new, TechTexts, {})
    BY <1>3, <2>1, FilledStays DEF TechRequired
  <2>3. old.components \subseteq new.components
    BY <1>3 DEF TechLists
  <2> QED
    BY <2>1, <2>2, <2>3 DEF Required, TechRequired
<1> QED
  BY <1>1, <1>2, <1>3, PlainUpdatesWell

LEMMA DeployUpdatesWell ==
  ASSUME NEW body, NEW patch, IsBody("deploy", body)
  PROVE  UpdatesWell("deploy", body, patch)
<1>1. DeployTexts \cap DeployLists = {}
  BY DEF DeployTexts, DeployLists
<1>2. /\ Default("deploy") = Blank(DeployTexts, DeployLists)
      /\ Rows("deploy") = {}
      /\ \A doc : Normal("deploy", doc) = Cleaned(doc, DeployLists)
      /\ Updated("deploy", body, patch) = Gathered(Normal("deploy", body), patch, DeployTexts, DeployLists)
  BY DEF Default, DeployDefault, Rows, PlanStages, Normal, DeployNormal, Updated, DeployUpdate
<1>3. ASSUME NEW old, NEW new, Required("deploy", old),
             \A f \in DeployTexts : old[f] # NoText => new[f] # NoText,
             \A f \in DeployLists : old[f] \subseteq new[f]
      PROVE  Required("deploy", new)
  <2>1. Filled(new, DeployTexts, {"goals", "environments", "deploymentUnits"})
    BY <1>3, FilledStays DEF Required, DeployRequired, DeployLists
  <2> QED
    BY <2>1 DEF Required, DeployRequired
<1> QED
  BY <1>1, <1>2, <1>3, PlainUpdatesWell

-----------------------------------------------------------------------------
(* Documents with rows: an update keeps every row, whatever it joins to it.  *)

LEMMA ScreensKept ==
  ASSUME NEW rows, NEW new
  PROVE  IdsOf(rows) \subseteq IdsOf(Upserted(rows, new, JoinScreen))
<1> SUFFICES ASSUME NEW r \in rows PROVE \E u \in Upserted(rows, new, JoinScreen) : u.id = r.id
  BY Zenon DEF IdsOf
<1>1. CASE r.id \in IdsOf(new)
  <2>1. JoinScreen(r, CHOOSE n \in new : n.id = r.id) \in Upserted(rows, new, JoinScreen)
    <3> DEFINE Now(q) == IF q.id \in IdsOf(new) THEN JoinScreen(q, CHOOSE n \in new : n.id = q.id) ELSE q
    <3>1. Now(r) = JoinScreen(r, CHOOSE n \in new : n.id = r.id)
      BY <1>1
    <3>2. {Now(q) : q \in rows} \subseteq Upserted(rows, new, JoinScreen)
      BY Zenon DEF Upserted
    <3> HIDE DEF Now
    <3> QED
      BY <3>1, <3>2
  <2> QED
    BY <2>1 DEF JoinScreen
<1>2. CASE r.id \notin IdsOf(new)
  BY <1>2 DEF Upserted
<1> QED
  BY <1>1, <1>2

LEMMA FlowsKept ==
  ASSUME NEW flows, NEW new
  PROVE  IdsOf(flows) \subseteq IdsOf(UpsertFlows(flows, new))
<1> SUFFICES ASSUME NEW more, NEW r \in flows PROVE \E u \in Upserted(flows, more, JoinFlow) : u.id = r.id
  BY Zenon DEF IdsOf, UpsertFlows
<1>1. CASE r.id \in IdsOf(more)
  <2>1. JoinFlow(r, CHOOSE n \in more : n.id = r.id) \in Upserted(flows, more, JoinFlow)
    <3> DEFINE Now(q) == IF q.id \in IdsOf(more) THEN JoinFlow(q, CHOOSE n \in more : n.id = q.id) ELSE q
    <3>1. Now(r) = JoinFlow(r, CHOOSE n \in more : n.id = r.id)
      BY <1>1
    <3>2. {Now(q) : q \in flows} \subseteq Upserted(flows, more, JoinFlow)
      BY Zenon DEF Upserted
    <3> HIDE DEF Now
    <3> QED
      BY <3>1, <3>2
  <2>2. ASSUME NEW x PROVE JoinFlow(r, x).id = r.id
    <3>1. \E a : JoinFlow(r, x) = [id |-> r.id, at |-> r.at, steps |-> a]
      BY Zenon DEF JoinFlow
    <3> QED
      BY <3>1
  <2> QED
    BY <2>1, <2>2, Zenon
<1>2. CASE r.id \notin IdsOf(more)
  <2>1. r \in Upserted(flows, more, JoinFlow)
    BY <1>2, Zenon DEF Upserted
  <2> QED
    BY <2>1
<1> QED
  BY <1>1, <1>2

LEMMA EntitiesKept ==
  ASSUME NEW rows, NEW new, NEW r \in rows
  PROVE  \E u \in Upserted(rows, new, JoinEntity) : u.id = r.id /\ r.fields \subseteq u.fields
<1>1. CASE r.id \in IdsOf(new)
  <2>1. JoinEntity(r, CHOOSE n \in new : n.id = r.id) \in Upserted(rows, new, JoinEntity)
    <3> DEFINE Now(q) == IF q.id \in IdsOf(new) THEN JoinEntity(q, CHOOSE n \in new : n.id = q.id) ELSE q
    <3>1. Now(r) = JoinEntity(r, CHOOSE n \in new : n.id = r.id)
      BY <1>1
    <3>2. {Now(q) : q \in rows} \subseteq Upserted(rows, new, JoinEntity)
      BY Zenon DEF Upserted
    <3> HIDE DEF Now
    <3> QED
      BY <3>1, <3>2
  <2> QED
    BY <2>1 DEF JoinEntity
<1>2. CASE r.id \notin IdsOf(new)
  BY <1>2 DEF Upserted
<1> QED
  BY <1>1, <1>2

LEMMA EndpointsKept ==
  ASSUME NEW rows, NEW new, NEW r \in rows
  PROVE  \E u \in Upserted(rows, new, JoinEndpoint) :
           /\ u.id = r.id /\ (r.declared => u.declared)
           /\ r.screens \subseteq u.screens /\ r.response \subseteq u.response
<1>1. CASE r.id \in IdsOf(new)
  <2>1. JoinEndpoint(r, CHOOSE n \in new : n.id = r.id) \in Upserted(rows, new, JoinEndpoint)
    <3> DEFINE Now(q) == IF q.id \in IdsOf(new) THEN JoinEndpoint(q, CHOOSE n \in new : n.id = q.id) ELSE q
    <3>1. Now(r) = JoinEndpoint(r, CHOOSE n \in new : n.id = r.id)
      BY <1>1
    <3>2. {Now(q) : q \in rows} \subseteq Upserted(rows, new, JoinEndpoint)
      BY Zenon DEF Upserted
    <3> HIDE DEF Now
    <3> QED
      BY <3>1, <3>2
  <2> QED
    BY <2>1 DEF JoinEndpoint
<1>2. CASE r.id \notin IdsOf(new)
  BY <1>2 DEF Upserted
<1> QED
  BY <1>1, <1>2

\* A keyed row stays a keyed row.
LEMMA KeyedStay ==
  ASSUME NEW rows, NEW new, IdsOf(Keyed(rows)) \subseteq IdsOf(new)
  PROVE  Keyed(rows) # {} => Keyed(new) # {}
BY DEF Keyed, IdsOf

LEMMA DesignUpdatesWell ==
  ASSUME NEW body, NEW patch, IsBody("mvp.design", body)
  PROVE  UpdatesWell("mvp.design", body, patch)
<1> DEFINE s      == "mvp.design"
           normal == DesignNormal(body)
           merged == Gathered(normal, patch, DesignTexts, DesignLists)
           new    == DesignUpdate(body, patch)
           after  == DesignNormal(new)
           fields == DesignTexts \cup DesignLists \cup {"screens", "flows"}
<1>1. /\ Default(s) = Blank(DesignTexts, DesignLists \cup {"screens", "flows"}) /\ Rows(s) = {"screens", "flows"}
      /\ Normal(s, body) = normal /\ Updated(s, body, patch) = new /\ Normal(s, new) = after
      /\ \A doc : Required(s, doc) = DesignRequired(doc)
  BY DEF Default, DesignDefault, Rows, PlanStages, Normal, Updated, Required
<1>2. DOMAIN Default(s) = fields /\ (\A f \in DesignTexts : IsText(s, f)) /\ DOMAIN body = fields
  BY <1>1 DEF Blank, IsBody, IsText, DesignTexts
<1>3. normal = [f \in fields |-> CASE f = "screens" -> Keyed(body.screens)
                                   [] f = "flows"   -> Keyed(body.flows)
                                   [] OTHER         -> IF f \in DesignLists THEN body[f] \ {NoText} ELSE body[f]]
  BY <1>2 DEF DesignNormal, Cleaned, DesignScreens, DesignFlows, DesignLists
<1>4. /\ DOMAIN merged = fields /\ merged.screens = normal.screens /\ merged.flows = normal.flows
      /\ merged = [f \in fields |-> merged[f]]
      /\ \A f \in DesignLists : normal[f] \subseteq merged[f] /\ normal[f] \subseteq merged[f] \ {NoText}
      /\ \A f \in DesignTexts : normal[f] # NoText => merged[f] # NoText
  BY <1>3 DEF Gathered, Given, DesignTexts, DesignLists
<1>5. new = [merged EXCEPT !.screens = Upserted(@, patch.screens, JoinScreen), !.flows = UpsertFlows(@, patch.flows)]
  BY DEF DesignUpdate
<1> HIDE DEF normal, merged
<1>6. /\ new = [f \in fields |-> new[f]]
      /\ new.screens = Upserted(normal.screens, patch.screens, JoinScreen)
      /\ new.flows = UpsertFlows(normal.flows, patch.flows)
      /\ \A f \in DesignTexts \cup DesignLists : new[f] = merged[f]
  BY <1>4, <1>5 DEF DesignTexts, DesignLists
<1> HIDE DEF new
<1>7. /\ after.screens = Keyed(new.screens) /\ after.flows = Keyed(new.flows)
      /\ \A f \in DesignLists : after[f] = new[f] \ {NoText}
      /\ \A f \in DesignTexts : after[f] = new[f]
  BY <1>6 DEF DesignNormal, Cleaned, DesignScreens, DesignFlows, DesignLists, DesignTexts
<1> HIDE DEF after
<1>8. /\ IdsOf(normal.screens) \subseteq IdsOf(new.screens)
      /\ IdsOf(normal.flows) \subseteq IdsOf(new.flows)
  BY <1>6, ScreensKept, FlowsKept
<1>9. IsBody(s, normal) /\ IsBody(s, new)
  BY <1>2, <1>3, <1>6 DEF IsBody
<1>10. Kept(s, normal, new)
  <2> SUFFICES ASSUME NEW f \in fields
               PROVE  IF f \in Rows(s) THEN IdsOf(normal[f]) \subseteq IdsOf(new[f])
                      ELSE IsText(s, f) \/ normal[f] \subseteq new[f]
    BY <1>2, Zenon DEF Kept
  <2>1. CASE f \in {"screens", "flows"}
    BY <2>1, <1>1, <1>8
  <2>2. CASE f \in DesignTexts
    BY <2>2, <1>1, <1>2 DEF DesignTexts
  <2>3. CASE f \in DesignLists
    BY <2>3, <1>1, <1>4, <1>6 DEF DesignLists
  <2> QED
    BY <2>1, <2>2, <2>3
<1>11. ASSUME DesignRequired(normal) PROVE DesignRequired(after)
  <2>1. after.screens # {} /\ after.flows # {}
    <3>1. normal.screens = Keyed(normal.screens) /\ normal.flows = Keyed(normal.flows)
      BY <1>3 DEF Keyed
    <3>2. normal.screens # {} /\ normal.flows # {}
      BY <1>11 DEF DesignRequired, Filled
    <3> QED
      BY <3>1, <3>2, <1>7, <1>8, KeyedStay
  <2>2. after.platforms # {} /\ after.navigation # {} /\ \A f \in DesignTexts : after[f] # NoText
    BY <1>11, <1>4, <1>6, <1>7 DEF DesignRequired, Filled, DesignLists
  <2> QED
    BY <2>1, <2>2 DEF DesignRequired, Filled
<1> QED
  BY <1>1, <1>9, <1>10, <1>11 DEF UpdatesWell

LEMMA ArchitectureUpdatesWell ==
  ASSUME NEW body, NEW patch, IsBody("mvp.architecture", body)
  PROVE  UpdatesWell("mvp.architecture", body, patch)
<1> DEFINE s      == "mvp.architecture"
           normal == ArchitectureNormal(body)
           merged == Gathered(normal, patch, ArchitectureTexts, ArchitectureLists)
           new    == ArchitectureUpdate(body, patch)
           after  == ArchitectureNormal(new)
           joined == Upserted(normal.entities, patch.entities, JoinEntity)
           served == Upserted(normal.endpoints, patch.endpoints, JoinEndpoint)
           fields == ArchitectureTexts \cup ArchitectureLists \cup {"entities", "endpoints"}
<1>1. /\ Default(s) = Blank(ArchitectureTexts, ArchitectureLists \cup {"entities", "endpoints"})
      /\ Rows(s) = {"entities", "endpoints"}
      /\ Normal(s, body) = normal /\ Updated(s, body, patch) = new /\ Normal(s, new) = after
      /\ \A doc : Required(s, doc) = ArchitectureRequired(doc)
  BY DEF Default, ArchitectureDefault, Rows, PlanStages, Normal, Updated, Required
<1>2. DOMAIN Default(s) = fields /\ (\A f \in ArchitectureTexts : IsText(s, f)) /\ DOMAIN body = fields
  BY <1>1 DEF Blank, IsBody, IsText, ArchitectureTexts
<1>3. normal = [f \in fields |-> CASE f = "entities"  -> ArchitectureEntities(body.entities)
                                   [] f = "endpoints" -> ArchitectureEndpoints(body.endpoints)
                                   [] OTHER -> IF f \in ArchitectureLists THEN body[f] \ {NoText} ELSE body[f]]
  BY <1>2 DEF ArchitectureNormal, Cleaned, ArchitectureLists
<1>4. /\ DOMAIN merged = fields /\ merged.entities = normal.entities /\ merged.endpoints = normal.endpoints
      /\ merged = [f \in fields |-> merged[f]]
      /\ \A f \in ArchitectureLists : normal[f] \subseteq merged[f] /\ normal[f] \subseteq merged[f] \ {NoText}
      /\ \A f \in ArchitectureTexts : normal[f] # NoText => merged[f] # NoText
  BY <1>3 DEF Gathered, Given, ArchitectureTexts, ArchitectureLists
<1>5. new = [merged EXCEPT !.entities = joined, !.endpoints = served]
  BY <1>4 DEF ArchitectureUpdate
<1> HIDE DEF normal, merged, new, joined, served
<1>6. /\ new = [f \in fields |-> new[f]]
      /\ new.entities = joined /\ new.endpoints = served
      /\ \A f \in ArchitectureTexts \cup ArchitectureLists : new[f] = merged[f]
  BY <1>4, <1>5 DEF ArchitectureTexts, ArchitectureLists
<1>7. /\ after.entities = ArchitectureEntities(new.entities)
      /\ after.endpoints = ArchitectureEndpoints(new.endpoints)
      /\ \A f \in ArchitectureLists : after[f] = new[f] \ {NoText}
      /\ \A f \in ArchitectureTexts : after[f] = new[f]
  BY <1>6 DEF ArchitectureNormal, Cleaned, ArchitectureLists, ArchitectureTexts
<1> HIDE DEF after
<1>8. /\ \A r \in normal.entities : \E u \in new.entities : u.id = r.id /\ r.fields \subseteq u.fields
      /\ \A r \in normal.endpoints : \E u \in new.endpoints :
           /\ u.id = r.id /\ (r.declared => u.declared)
           /\ r.screens \subseteq u.screens /\ r.response \subseteq u.response
  BY <1>6, EntitiesKept, EndpointsKept DEF joined, served
<1>9. IsBody(s, normal) /\ IsBody(s, new)
  BY <1>2, <1>3, <1>6 DEF IsBody
<1>10. Kept(s, normal, new)
  <2> SUFFICES ASSUME NEW f \in fields
               PROVE  IF f \in Rows(s) THEN IdsOf(normal[f]) \subseteq IdsOf(new[f])
                      ELSE IsText(s, f) \/ normal[f] \subseteq new[f]
    BY <1>2, Zenon DEF Kept
  <2>1. CASE f \in {"entities", "endpoints"}
    BY <2>1, <1>1, <1>8 DEF IdsOf
  <2>2. CASE f \in ArchitectureTexts
    BY <2>2, <1>1, <1>2 DEF ArchitectureTexts
  <2>3. CASE f \in ArchitectureLists
    BY <2>3, <1>1, <1>4, <1>6 DEF ArchitectureLists
  <2> QED
    BY <2>1, <2>2, <2>3
<1>11. ASSUME ArchitectureRequired(normal) PROVE ArchitectureRequired(after)
  <2>1. \A r \in normal.entities : r.id # NoText /\ NoText \notin r.fields
    BY <1>3 DEF ArchitectureEntities, Keyed
  <2>2. \A r \in normal.endpoints : r.id # NoText /\ r.declared
    BY <1>3 DEF ArchitectureEndpoints, Keyed
  <2>3. \E e \in after.entities : e.fields # {}
    <3>1. PICK r \in normal.entities : r.fields # {}
      BY <1>11 DEF ArchitectureRequired
    <3>2. PICK u \in new.entities : u.id = r.id /\ r.fields \subseteq u.fields
      BY <1>8
    <3>3. u \in Keyed(new.entities)
      BY <3>2, <2>1 DEF Keyed
    <3>4. [id |-> u.id, fields |-> u.fields \ {NoText}, targets |-> u.targets \ {NoText}] \in after.entities
      BY <3>3, <1>7, Zenon DEF ArchitectureEntities
    <3> QED
      BY <3>1, <3>2, <3>4, <2>1
  <2>4. ASSUME NEW r \in normal.endpoints
        PROVE  \E e \in after.endpoints : r.screens \subseteq e.screens /\ r.response \subseteq e.response
    BY <1>7, <1>8, <2>2 DEF ArchitectureEndpoints, Keyed
  <2>5. /\ \E e \in after.endpoints : e.screens # {}
        /\ \E e \in after.endpoints : e.response # {}
    <3>1. PICK e1 \in normal.endpoints : e1.screens # {}
      BY <1>11 DEF ArchitectureRequired
    <3>2. PICK e2 \in normal.endpoints : e2.response # {}
      BY <1>11 DEF ArchitectureRequired
    <3> QED
      BY <3>1, <3>2, <2>4
  <2>6. /\ \A f \in ArchitectureLists : normal[f] \subseteq after[f]
        /\ \A f \in ArchitectureTexts : normal[f] # NoText => after[f] # NoText
    BY <1>4, <1>6, <1>7
  <2>7. /\ normal.directories # {} /\ normal.codePrinciples \cup normal.patterns # {}
        /\ \A f \in ArchitectureTexts : normal[f] # NoText
    BY <1>11 DEF ArchitectureRequired, Filled
  <2>8. /\ after.directories # {} /\ after.codePrinciples \cup after.patterns # {}
        /\ \A f \in ArchitectureTexts : after[f] # NoText
    BY <2>6, <2>7 DEF ArchitectureLists
  <2> QED
    BY <2>3, <2>5, <2>8 DEF ArchitectureRequired, Filled
<1> QED
  BY <1>1, <1>9, <1>10, <1>11 DEF UpdatesWell

LEMMA FeatureInitUpdatesWell ==
  ASSUME NEW body, NEW patch, IsBody("feature.init", body)
  PROVE  UpdatesWell("feature.init", body, patch)
<1> DEFINE s      == "feature.init"
           normal == FeatureInitNormal(body)
           new    == FeatureInitUpdate(body, patch)
           after  == FeatureInitNormal(new)
           fields == FeatureInitTexts \cup FeatureInitLists \cup FeatureInitRows
<1>1. /\ Default(s) = Blank(FeatureInitTexts, FeatureInitLists \cup FeatureInitRows) /\ Rows(s) = FeatureInitRows
      /\ Normal(s, body) = normal /\ Updated(s, body, patch) = new /\ Normal(s, new) = after
      /\ \A doc : Required(s, doc) = FeatureInitRequired(doc)
  BY DEF Default, FeatureInitDefault, Rows, PlanStages, Normal, Updated, Required
<1>2. FeatureInitRows \cap (FeatureInitTexts \cup FeatureInitLists) = {} /\ FeatureInitTexts \cap FeatureInitLists = {}
  BY DEF FeatureInitRows, FeatureInitTexts, FeatureInitLists, Priorities
<1>3. DOMAIN Default(s) = fields /\ (\A f \in FeatureInitTexts : IsText(s, f)) /\ DOMAIN body = fields
  BY <1>1, <1>2 DEF Blank, IsBody, IsText
<1>4. /\ normal = [f \in fields |-> normal[f]]
      /\ \A f \in FeatureInitRows : normal[f] = Keyed(body[f])
      /\ \A f \in FeatureInitLists : normal[f] = body[f] \ {NoText}
  BY <1>2, <1>3 DEF FeatureInitNormal, Cleaned
<1> HIDE DEF normal
<1>5. new = [f \in fields |-> IF f \in FeatureInitRows THEN FirstKept(normal[f], patch[f])
                              ELSE Gathered(normal, patch, FeatureInitTexts, FeatureInitLists)[f]]
  BY <1>3 DEF FeatureInitUpdate, normal
<1>6. /\ new = [f \in fields |-> new[f]]
      /\ \A f \in FeatureInitRows : normal[f] \subseteq new[f]
      /\ \A f \in FeatureInitLists : normal[f] \subseteq new[f]
      /\ \A f \in FeatureInitTexts : normal[f] # NoText => new[f] # NoText
  BY <1>2, <1>4, <1>5 DEF Gathered, Given, FirstKept
<1> HIDE DEF new
<1>7. /\ \A f \in FeatureInitRows : after[f] = Keyed(new[f])
      /\ \A f \in FeatureInitTexts : after[f] = new[f]
  BY <1>2, <1>6 DEF FeatureInitNormal, Cleaned
<1> HIDE DEF after
<1>8. IsBody(s, normal) /\ IsBody(s, new)
  BY <1>3, <1>4, <1>6 DEF IsBody
<1>9. Kept(s, normal, new)
  BY <1>1, <1>3, <1>6 DEF Kept, IdsOf
<1>10. ASSUME FeatureInitRequired(normal) PROVE FeatureInitRequired(after)
  <2>1. \A f \in FeatureInitRows : normal[f] \subseteq after[f]
    BY <1>4, <1>6, <1>7 DEF Keyed
  <2>2. Priorities \cup {"modifiedFiles", "newFiles"} \subseteq FeatureInitRows
    BY DEF FeatureInitRows
  <2>3. \E p \in Priorities : after[p] # {}
    BY <1>10, <2>1, <2>2 DEF FeatureInitRequired
  <2>4. after.modifiedFiles \cup after.newFiles # {}
    BY <1>10, <2>1, <2>2 DEF FeatureInitRequired
  <2>5. Filled(after, {"featureGoal", "problem", "expectedOutcome", "framework"}, {})
    BY <1>10, <1>6, <1>7 DEF FeatureInitRequired, Filled, FeatureInitTexts
  <2> QED
    BY <2>3, <2>4, <2>5 DEF FeatureInitRequired
<1> QED
  BY <1>1, <1>8, <1>9, <1>10 DEF UpdatesWell

-----------------------------------------------------------------------------
(* Plans: an update leaves the catalog, a registered step enters it.         *)

\* A normalised catalog row is not changed by normalising it again.
LEMMA CatalogRowStable ==
  ASSUME NEW row
  PROVE  CatalogRow(CatalogRow(row)) = CatalogRow(row) /\ CatalogRow(row).id = row.id
BY DEF CatalogRow

LEMMA CatalogStable ==
  ASSUME NEW catalog
  PROVE  LET rows == {CatalogRow(r) : r \in Keyed(catalog)}
         IN  rows = {CatalogRow(r) : r \in Keyed(rows)}
<1> DEFINE rows == {CatalogRow(r) : r \in Keyed(catalog)}
<1>1. ASSUME NEW r \in rows PROVE CatalogRow(r) = r /\ r.id # NoText
  BY CatalogRowStable DEF Keyed
<1> HIDE DEF rows
<1>2. Keyed(rows) = rows
  BY <1>1 DEF Keyed
<1>3. rows = {CatalogRow(r) : r \in Keyed(rows)}
  BY <1>1, <1>2
<1> QED
  BY <1>3 DEF rows

\* The fields of a plan and of its normal form.
LEMMA PlanFields ==
  ASSUME NEW s \in PlanStages, NEW body, IsBody(s, body)
  PROVE  LET fields == PlanTexts \cup PlanLists \cup {"stepCatalog"}
         IN  /\ DOMAIN Default(s) = fields /\ DOMAIN body = fields
             /\ Rows(s) = {"stepCatalog"} /\ \A f \in PlanTexts : IsText(s, f)
             /\ PlanNormal(body) = [f \in fields |-> CASE f = "stepCatalog" -> {CatalogRow(r) : r \in Keyed(body.stepCatalog)}
                                                       [] f \in PlanLists -> body[f] \ {NoText}
                                                       [] OTHER -> body[f]]
<1>1. Default(s) = Blank(PlanTexts, PlanLists \cup {"stepCatalog"}) /\ Rows(s) = {"stepCatalog"}
  BY DEF Default, PlanDefault, Rows, PlanStages
<1>2. DOMAIN body = PlanTexts \cup PlanLists \cup {"stepCatalog"} /\ DOMAIN Default(s) = DOMAIN body
  BY <1>1 DEF Blank, IsBody
<1>3. \A f \in PlanTexts : IsText(s, f)
  BY <1>1 DEF Blank, IsText, PlanTexts
<1> QED
  BY <1>1, <1>2, <1>3 DEF PlanNormal, Cleaned, PlanLists, PlanTexts

LEMMA PlanStageOperators ==
  ASSUME NEW s \in PlanStages, NEW doc, NEW patch
  PROVE  /\ Normal(s, doc) = PlanNormal(doc) /\ Updated(s, doc, patch) = PlanUpdate(doc, patch)
         /\ Required(s, doc) = PlanRequired(doc)
BY DEF PlanStages, Normal, Updated, Required, FeaturePlanRequired

LEMMA PlanUpdatesWell ==
  ASSUME NEW s \in PlanStages, NEW body, NEW patch, IsBody(s, body)
  PROVE  /\ UpdatesWell(s, body, patch)
         /\ Updated(s, body, patch).stepCatalog = Normal(s, body).stepCatalog
<1> DEFINE normal == PlanNormal(body)
           new    == PlanUpdate(body, patch)
           after  == PlanNormal(new)
           fields == PlanTexts \cup PlanLists \cup {"stepCatalog"}
<1>1. /\ Normal(s, body) = normal /\ Updated(s, body, patch) = new /\ Normal(s, new) = after
      /\ \A doc : Required(s, doc) = PlanRequired(doc)
  BY PlanStageOperators
<1>2. /\ DOMAIN Default(s) = fields /\ DOMAIN body = fields
      /\ Rows(s) = {"stepCatalog"} /\ \A f \in PlanTexts : IsText(s, f)
  BY PlanFields
<1>3. /\ normal = [f \in fields |-> normal[f]]
      /\ normal.stepCatalog = {CatalogRow(r) : r \in Keyed(body.stepCatalog)}
      /\ \A f \in PlanLists : normal[f] = body[f] \ {NoText}
  BY PlanFields DEF PlanLists
<1> HIDE DEF normal
<1>4. /\ new = [f \in fields |-> new[f]] /\ new.stepCatalog = normal.stepCatalog
      /\ \A f \in PlanLists : normal[f] \subseteq new[f]
      /\ \A f \in PlanTexts : normal[f] # NoText => new[f] # NoText
  BY <1>3 DEF PlanUpdate, normal, Gathered, Given, PlanTexts, PlanLists
<1> HIDE DEF new
<1>5. IsBody(s, normal) /\ IsBody(s, new)
  BY <1>2, <1>3, <1>4 DEF IsBody
<1>6. /\ after.stepCatalog = {CatalogRow(r) : r \in Keyed(new.stepCatalog)}
      /\ \A f \in PlanTexts : after[f] = new[f]
  BY <1>5, PlanFields DEF PlanTexts, PlanLists
<1>7. after.stepCatalog = normal.stepCatalog
  BY <1>3, <1>4, <1>6, CatalogStable
<1> HIDE DEF after
<1>8. Kept(s, normal, new)
  <2> SUFFICES ASSUME NEW f \in fields
               PROVE  IF f \in Rows(s) THEN IdsOf(normal[f]) \subseteq IdsOf(new[f])
                      ELSE IsText(s, f) \/ normal[f] \subseteq new[f]
    BY <1>2, Zenon DEF Kept
  <2>1. CASE f = "stepCatalog"
    BY <2>1, <1>2, <1>4
  <2>2. CASE f \in PlanTexts
    BY <2>2, <1>2 DEF PlanTexts
  <2>3. CASE f \in PlanLists
    BY <2>3, <1>2, <1>4 DEF PlanLists
  <2> QED
    BY <2>1, <2>2, <2>3
<1>9. PlanRequired(normal) => PlanRequired(after)
  BY <1>4, <1>6, <1>7 DEF PlanRequired, Filled
<1> QED
  BY <1>1, <1>4, <1>5, <1>8, <1>9 DEF UpdatesWell

\* What an update of any document keeps.
LEMMA UpdatesKeep ==
  ASSUME NEW s \in Stages, NEW body, NEW patch, IsBody(s, body)
  PROVE  UpdatesWell(s, body, patch)
<1>1. s \in PlanStages \/ s \in {"mvp.concept", "mvp.design", "mvp.tech", "deploy", "mvp.architecture", "feature.init"}
  BY DEF Stages
<1> QED
  BY <1>1, ConceptUpdatesWell, DesignUpdatesWell, TechUpdatesWell, DeployUpdatesWell,
     ArchitectureUpdatesWell, FeatureInitUpdatesWell, PlanUpdatesWell

LEMMA NormalIsBody ==
  ASSUME NEW s \in Stages, NEW body, IsBody(s, body)
  PROVE  IsBody(s, Normal(s, body))
BY UpdatesKeep DEF UpdatesWell

\* A registered step enters the catalog, and no other leaves it.
LEMMA RegisteringKeeps ==
  ASSUME NEW s \in PlanStages, NEW body, NEW row, IsBody(s, body), row.id # NoText,
         CatalogValid({CatalogRow(row)})
  PROVE  LET new == PlanCatalogUpsert(body, row)
         IN  /\ IsBody(s, new) /\ Kept(s, Normal(s, body), new)
             /\ Required(s, Normal(s, body)) => Required(s, Normal(s, new))
             /\ CatalogRow(row) \in new.stepCatalog
             /\ \A r \in Normal(s, body).stepCatalog : r.id # row.id => r \in new.stepCatalog
<1> DEFINE normal == PlanNormal(body)
           new    == PlanCatalogUpsert(body, row)
           after  == PlanNormal(new)
           fields == PlanTexts \cup PlanLists \cup {"stepCatalog"}
<1>1. /\ Normal(s, body) = normal /\ Normal(s, new) = after
      /\ \A doc : Required(s, doc) = PlanRequired(doc)
  BY PlanStageOperators
<1>2. /\ DOMAIN Default(s) = fields /\ DOMAIN body = fields
      /\ Rows(s) = {"stepCatalog"} /\ \A f \in PlanTexts : IsText(s, f)
  BY PlanFields
<1>3. /\ normal = [f \in fields |-> normal[f]]
      /\ normal.stepCatalog = {CatalogRow(r) : r \in Keyed(body.stepCatalog)}
  BY PlanFields DEF PlanLists
<1>4. \A r \in normal.stepCatalog : r.id # NoText /\ CatalogRow(r) = r
  BY <1>3, CatalogRowStable DEF Keyed
<1> HIDE DEF normal
<1>5. /\ new = [f \in fields |-> new[f]]
      /\ new.stepCatalog = {r \in normal.stepCatalog : r.id # row.id} \cup {CatalogRow(row)}
      /\ \A f \in PlanLists \cup PlanTexts : new[f] = normal[f]
  BY <1>3 DEF PlanCatalogUpsert, normal, PlanTexts, PlanLists
<1> HIDE DEF new
<1>6. IsBody(s, new)
  BY <1>2, <1>5 DEF IsBody
<1>7. /\ after.stepCatalog = {CatalogRow(r) : r \in Keyed(new.stepCatalog)}
      /\ \A f \in PlanTexts : after[f] = new[f]
  BY <1>6, PlanFields DEF PlanTexts, PlanLists
<1> HIDE DEF after
<1>8. CatalogRow(row).id = row.id /\ CatalogRow(CatalogRow(row)) = CatalogRow(row)
  BY CatalogRowStable
<1>9. after.stepCatalog = new.stepCatalog
  <2>1. \A r \in new.stepCatalog : r.id # NoText /\ CatalogRow(r) = r
    BY <1>4, <1>5, <1>8
  <2>2. Keyed(new.stepCatalog) = new.stepCatalog
    BY <2>1 DEF Keyed
  <2> QED
    BY <1>7, <2>1, <2>2
<1>10. Kept(s, normal, new)
  <2> SUFFICES ASSUME NEW f \in fields
               PROVE  IF f \in Rows(s) THEN IdsOf(normal[f]) \subseteq IdsOf(new[f])
                      ELSE IsText(s, f) \/ normal[f] \subseteq new[f]
    BY <1>2, Zenon DEF Kept
  <2>1. CASE f = "stepCatalog"
    BY <2>1, <1>2, <1>5, <1>8 DEF IdsOf
  <2>2. CASE f \in PlanTexts \cup PlanLists
    BY <2>2, <1>2, <1>5 DEF PlanTexts, PlanLists
  <2> QED
    BY <2>1, <2>2
<1>11. ASSUME PlanRequired(normal) PROVE PlanRequired(after)
  <2>1. CatalogValid(after.stepCatalog)
    BY <1>11, <1>5, <1>9 DEF PlanRequired, CatalogValid
  <2>2. after.stepCatalog # {}
    BY <1>5, <1>9
  <2>3. \A f \in PlanTexts : after[f] # NoText
    BY <1>11, <1>5, <1>7 DEF PlanRequired, Filled
  <2> QED
    BY <2>1, <2>2, <2>3 DEF PlanRequired, Filled
<1>12. /\ CatalogRow(row) \in new.stepCatalog
       /\ \A r \in normal.stepCatalog : r.id # row.id => r \in new.stepCatalog
  BY <1>5
<1> QED
  BY <1>1, <1>6, <1>10, <1>11, <1>12 DEF new

-----------------------------------------------------------------------------
(* Documents with their system fields.                                       *)

IsDoc(s, doc) ==
  /\ doc = [body |-> doc.body, summary |-> doc.summary, ratified |-> doc.ratified, revision |-> doc.revision]
  /\ IsBody(s, doc.body)
  /\ doc.ratified \in BOOLEAN /\ doc.revision \in Nat
  /\ doc.ratified => doc.revision > 0

\* A ratified document is complete.
CompleteIfRatified(s, doc) == doc.ratified => Required(s, Normal(s, doc.body)) /\ doc.summary # NoText

\* What a write makes of a document while no cleanup writes it.
GoesOn(s, old, new) ==
  /\ old.ratified => new.ratified
  /\ new.revision \in {old.revision, old.revision + 1}
  /\ Kept(s, Normal(s, old.body), new.body)

LEMMA CapturesKeep ==
  ASSUME NEW s \in Stages, NEW doc, NEW patch, IsDoc(s, doc), CompleteIfRatified(s, doc)
  PROVE  LET new == Captured(s, doc, patch)
         IN  /\ IsDoc(s, new) /\ CompleteIfRatified(s, new)
             /\ GoesOn(s, doc, new)
             /\ s \in PlanStages => new.body.stepCatalog = Normal(s, doc.body).stepCatalog
<1> DEFINE new == Captured(s, doc, patch)
<1>1. IsBody(s, doc.body)
  BY DEF IsDoc
<1>2. UpdatesWell(s, doc.body, patch)
  BY <1>1, UpdatesKeep
<1>3. new = [body |-> Updated(s, doc.body, patch), summary |-> doc.summary,
             ratified |-> doc.ratified, revision |-> doc.revision]
  BY DEF Captured, IsDoc
<1>4. s \in PlanStages => Updated(s, doc.body, patch).stepCatalog = Normal(s, doc.body).stepCatalog
  BY <1>1, PlanUpdatesWell
<1> HIDE DEF new
<1>5. IsDoc(s, new)
  BY <1>2, <1>3 DEF IsDoc, UpdatesWell
<1>6. CompleteIfRatified(s, new)
  BY <1>2, <1>3 DEF CompleteIfRatified, UpdatesWell
<1>7. GoesOn(s, doc, new)
  BY <1>2, <1>3 DEF GoesOn, UpdatesWell
<1> QED
  BY <1>3, <1>4, <1>5, <1>6, <1>7 DEF new

LEMMA CheckpointsKeep ==
  ASSUME NEW s \in Stages, NEW doc, NEW patch, IsDoc(s, doc),
         Required(s, Normal(s, Updated(s, doc.body, patch)))
  PROVE  LET new == Ratified(s, doc, patch)
         IN  /\ IsDoc(s, new) /\ CompleteIfRatified(s, new)
             /\ GoesOn(s, doc, new) /\ new.revision = doc.revision + 1
<1> DEFINE new == Ratified(s, doc, patch)
<1>1. UpdatesWell(s, doc.body, patch)
  BY UpdatesKeep DEF IsDoc
<1>2. new = [body |-> Updated(s, doc.body, patch), summary |-> Summary,
             ratified |-> TRUE, revision |-> doc.revision + 1]
  BY DEF Ratified
<1> HIDE DEF new
<1>3. IsDoc(s, new)
  BY <1>1, <1>2 DEF IsDoc, UpdatesWell
<1>4. CompleteIfRatified(s, new)
  BY <1>2, StageAssumption DEF CompleteIfRatified
<1>5. GoesOn(s, doc, new)
  BY <1>1, <1>2 DEF GoesOn, UpdatesWell
<1> QED
  BY <1>2, <1>3, <1>4, <1>5 DEF new

LEMMA CleanupsDecideWell ==
  ASSUME NEW s \in Stages, NEW doc, NEW body, NEW summary, IsDoc(s, doc), CompleteIfRatified(s, doc), IsBody(s, body),
         doc.ratified => Required(s, Normal(s, body))
  PROVE  LET new == WithSystemFields(doc, body, summary)
         IN  /\ IsDoc(s, new) /\ CompleteIfRatified(s, new)
             /\ new.body = body /\ new.ratified = doc.ratified
             /\ new.ratified => new.revision = doc.revision + 1
<1> DEFINE new == WithSystemFields(doc, body, summary)
<1>1. /\ new = [body |-> body, summary |-> new.summary, ratified |-> doc.ratified,
               revision |-> IF doc.ratified THEN doc.revision + 1 ELSE doc.revision]
      /\ doc.ratified /\ doc.summary # NoText => new.summary # NoText
  BY DEF WithSystemFields, Given
<1> HIDE DEF new
<1>2. IsDoc(s, new)
  BY <1>1 DEF IsDoc
<1>3. CompleteIfRatified(s, new)
  BY <1>1 DEF CompleteIfRatified
<1> QED
  BY <1>1, <1>2, <1>3 DEF IsDoc, new

LEMMA RegistrationsKeep ==
  ASSUME NEW s \in PlanStages, NEW doc, NEW row, IsDoc(s, doc), CompleteIfRatified(s, doc), row.id # NoText,
         CatalogValid({CatalogRow(row)})
  PROVE  LET new == [doc EXCEPT !.body = PlanCatalogUpsert(@, row)]
         IN  /\ IsDoc(s, new) /\ CompleteIfRatified(s, new)
             /\ GoesOn(s, doc, new)
             /\ CatalogRow(row) \in new.body.stepCatalog
             /\ \A r \in Normal(s, doc.body).stepCatalog : r.id # row.id => r \in new.body.stepCatalog
<1> DEFINE new == [doc EXCEPT !.body = PlanCatalogUpsert(@, row)]
           after == PlanCatalogUpsert(doc.body, row)
<1>1. IsBody(s, doc.body)
  BY DEF IsDoc
<1>2. /\ IsBody(s, after) /\ Kept(s, Normal(s, doc.body), after)
      /\ Required(s, Normal(s, doc.body)) => Required(s, Normal(s, after))
      /\ CatalogRow(row) \in after.stepCatalog
      /\ \A r \in Normal(s, doc.body).stepCatalog : r.id # row.id => r \in after.stepCatalog
  BY <1>1, RegisteringKeeps
<1>3. new = [body |-> after, summary |-> doc.summary, ratified |-> doc.ratified, revision |-> doc.revision]
  BY DEF IsDoc
<1> HIDE DEF new, after
<1>4. IsDoc(s, new)
  BY <1>2, <1>3 DEF IsDoc
<1>5. CompleteIfRatified(s, new)
  BY <1>2, <1>3 DEF CompleteIfRatified
<1>6. GoesOn(s, doc, new)
  BY <1>2, <1>3 DEF GoesOn
<1> QED
  BY <1>2, <1>3, <1>4, <1>5, <1>6 DEF new

-----------------------------------------------------------------------------
(* The invariant.                                                            *)

DocsInv == /\ docs = [s \in Stages |-> docs[s]]
           /\ \A s \in Stages : IsDoc(s, docs[s]) /\ CompleteIfRatified(s, docs[s])

\* The rows of registered steps are in normal form.
NormalRows(steps) == /\ steps = [s \in PlanStages |-> steps[s]]
                     /\ \A s \in PlanStages : \A r \in steps[s] : r.id # NoText /\ CatalogRow(r) = r

\* What a command has read of a document lives on; and while the revision of a
\* ratified plan is the one it read, what was registered since is in the catalog.
ReadWell(p) ==
  /\ p.revision \in 0..branchRevision
  /\ DOMAIN p.base \subseteq Stages
  /\ \A s \in DOMAIN p.base :
       LET base == p.base[s]
           doc  == docs[s]
       IN  /\ IsDoc(s, base) /\ CompleteIfRatified(s, base)
           /\ p.revision = branchRevision => doc = base
           /\ s \in PlanStages /\ base.ratified =>
                /\ doc.ratified /\ doc.revision >= base.revision
                /\ doc.revision = base.revision =>
                     \A r \in progress[s] : r \in p.seen[s] \/ r \in doc.body.stepCatalog

\* A load goes through the documents in order.
LoadsInOrder(p) == /\ p.read \in 0..Len(LoadOrder)
                   /\ DOMAIN p.base = Stages \cap First(p.read)

\* What a command has decided fits what it has read.
WellDecided(p) ==
  LET base == p.base[p.stage]
  IN  /\ p.stage \in Stages /\ DOMAIN p.base = Stages
      /\ p.kind = "checkpoint" => Required(p.stage, Normal(p.stage, Updated(p.stage, base.body, p.write)))
      /\ p.kind = "cleanup" => /\ IsDoc(p.stage, p.write) /\ CompleteIfRatified(p.stage, p.write)
                               /\ p.write.ratified = base.ratified
                               /\ p.write.ratified => p.write.revision = base.revision + 1
      /\ p.kind = "cleanup" /\ p.stage \in PlanStages /\ base.ratified =>
           IdsOf(Registered(p.planned)) \subseteq IdsOf(p.write.body.stepCatalog)

CommandWell(p) ==
  /\ p.kind \in {"loading", "capture", "checkpoint", "cleanup"}
  /\ p.kind = "loading" => LoadsInOrder(p)
  /\ p.kind # "loading" => WellDecided(p)
  /\ ReadWell(p)

PendingInv == /\ pending = [c \in Commands |-> pending[c]]
              /\ \A c \in Commands : pending[c] # NoCommand => CommandWell(pending[c])

StageInv == /\ DocsInv /\ NormalRows(progress) /\ PendingInv
            /\ branchRevision \in 0..MaxRevision

\* The states a branch starts from: documents and steps that commands led to before.
SoundMemory(i) ==
  /\ i.docs = [s \in Stages |-> i.docs[s]]
  /\ \A s \in Stages : IsDoc(s, i.docs[s]) /\ CompleteIfRatified(s, i.docs[s])
  /\ NormalRows(i.progress)

LEMMA StageStart ==
  ASSUME NEW initial, \A i \in initial : SoundMemory(i), StageInit(initial)
  PROVE  StageInv
BY StageAssumption DEF StageInit, StageInv, SoundMemory, DocsInv, PendingInv

\* The order of the load goes through every stage and no other.
LEMMA LoadOrderCovers ==
  /\ Len(LoadOrder) = 9 /\ First(0) = {}
  /\ Stages \subseteq First(Len(LoadOrder))
<1>1. Len(LoadOrder) = 9
  BY DEF LoadOrder
<1>2. First(0) = {}
  BY DEF First
<1>3. /\ LoadOrder[2] = "mvp.concept" /\ LoadOrder[3] = "mvp.design" /\ LoadOrder[4] = "mvp.tech"
      /\ LoadOrder[5] = "deploy" /\ LoadOrder[6] = "mvp.architecture" /\ LoadOrder[7] = "mvp.plan"
      /\ LoadOrder[8] = "feature.init" /\ LoadOrder[9] = "feature.plan"
  BY DEF LoadOrder
<1>4. ASSUME NEW s \in Stages PROVE \E i \in 1..9 : LoadOrder[i] = s
  BY <1>3 DEF Stages, PlanStages
<1> QED
  BY <1>1, <1>2, <1>4 DEF First

\* When every stage is worked on, each document is a read of its own.
LEMMA EveryReadMayEnd ==
  ASSUME NEW n \in 1..9
  PROVE  n \in Ends(Stages)
<1>1. LoadOrder[1] = "progress" /\ LoadOrder[2] = "mvp.concept" /\ Len(LoadOrder) = 9
  BY DEF LoadOrder
<1>2. /\ LoadOrder[3] = "mvp.design" /\ LoadOrder[4] = "mvp.tech"
      /\ LoadOrder[5] = "deploy" /\ LoadOrder[6] = "mvp.architecture" /\ LoadOrder[7] = "mvp.plan"
      /\ LoadOrder[8] = "feature.init" /\ LoadOrder[9] = "feature.plan"
  BY DEF LoadOrder
<1>3. "mvp.plan" \in Stages \cap PlanStages
  BY DEF Stages, PlanStages
<1>4. "progress" \in First(n)
  BY <1>1 DEF First
<1>5. n < 9 => LoadOrder[n + 1] \in Stages
  BY <1>1, <1>2 DEF Stages, PlanStages
<1>6. "progress" \in {x \in {"progress"} : Stages \cap PlanStages # {}}
  BY <1>3
<1> QED
  BY <1>1, <1>4, <1>5, <1>6 DEF Ends

\* One command moves on, and nothing else.
LEMMA OneCommandKeeps ==
  ASSUME StageInv, NEW c \in Commands, NEW q, q # NoCommand => CommandWell(q),
         pending' = [pending EXCEPT ![c] = q],
         docs' = docs, progress' = progress, branchRevision' = branchRevision
  PROVE  StageInv'
<1>1. ASSUME NEW x, CommandWell(x) PROVE CommandWell(x)'
  BY <1>1 DEF CommandWell, ReadWell, WellDecided, LoadsInOrder
<1>2. ASSUME NEW d \in Commands, (pending[d] # NoCommand)' PROVE CommandWell(pending[d])'
  <2>1. PICK x : x = pending'[d]
    OBVIOUS
  <2>2. x = IF d = c THEN q ELSE pending[d]
    BY <2>1 DEF StageInv, PendingInv
  <2>3. CommandWell(x)
    BY <1>2, <2>1, <2>2 DEF StageInv, PendingInv
  <2>4. CommandWell(x)'
    BY <1>1, <2>3
  <2> QED
    BY <2>1, <2>4 DEF CommandWell, ReadWell, WellDecided, LoadsInOrder
<1>3. PendingInv'
  BY <1>2 DEF StageInv, PendingInv
<1> QED
  BY <1>3 DEF StageInv, DocsInv, NormalRows

LEMMA OpeningKeeps ==
  ASSUME StageInv, NEW c \in Commands, OpenBranch(c)
  PROVE  StageInv'
<1> DEFINE q == [kind |-> "loading", revision |-> branchRevision, read |-> 0, planned |-> [s \in {} |-> {}],
                 base |-> [s \in {} |-> docs[s]], seen |-> [s \in {} |-> {}]]
<1>1. /\ pending' = [pending EXCEPT ![c] = q]
      /\ docs' = docs /\ progress' = progress /\ branchRevision' = branchRevision
  BY DEF OpenBranch
<1>2. LoadsInOrder(q)
  BY LoadOrderCovers DEF LoadsInOrder
<1>3. ReadWell(q)
  BY StageAssumption DEF ReadWell, StageInv
<1>4. CommandWell(q)
  BY <1>2, <1>3 DEF CommandWell
<1> HIDE DEF q
<1> QED
  BY <1>1, <1>4, OneCommandKeeps

LEMMA ReadingOnKeeps ==
  ASSUME StageInv, NEW c \in Commands, NEW n \in 1..Len(LoadOrder), ReadOn(c, n)
  PROVE  StageInv'
<1> DEFINE p == pending[c]
           known == First(p.read)
           base == [s \in Stages \cap First(n) |-> IF s \in known THEN p.base[s] ELSE docs[s]]
           seen == [s \in PlanStages \cap First(n) |-> IF s \in known THEN p.seen[s] ELSE progress[s]]
           planned == IF p.read = 0 THEN progress ELSE p.planned
           q == [kind |-> "loading", revision |-> p.revision, read |-> n, planned |-> planned,
                 base |-> base, seen |-> seen]
<1>1. /\ pending' = [pending EXCEPT ![c] = q]
      /\ docs' = docs /\ progress' = progress /\ branchRevision' = branchRevision
  BY DEF ReadOn
<1>2. LoadsInOrder(p) /\ ReadWell(p)
  BY DEF ReadOn, NoCommand, StageInv, PendingInv, CommandWell
<1>3. LoadsInOrder(q)
  BY LoadOrderCovers DEF LoadsInOrder
<1>4. ASSUME NEW s \in Stages, s \in First(n)
      PROVE  /\ IsDoc(s, base[s]) /\ CompleteIfRatified(s, base[s])
             /\ p.revision = branchRevision => docs[s] = base[s]
             /\ s \in PlanStages /\ base[s].ratified =>
                  /\ docs[s].ratified /\ docs[s].revision >= base[s].revision
                  /\ docs[s].revision = base[s].revision =>
                       \A r \in progress[s] : r \in seen[s] \/ r \in docs[s].body.stepCatalog
  <2>1. CASE s \in known
    <3>1. s \in DOMAIN p.base /\ base[s] = p.base[s]
      BY <1>2, <1>4, <2>1 DEF LoadsInOrder
    <3>2. s \in PlanStages => seen[s] = p.seen[s]
      BY <1>4, <2>1
    <3> QED
      BY <1>2, <3>1, <3>2 DEF ReadWell
  <2>2. CASE s \notin known
    <3>1. base[s] = docs[s] /\ IsDoc(s, docs[s]) /\ CompleteIfRatified(s, docs[s])
      BY <1>4, <2>2 DEF StageInv, DocsInv
    <3>2. s \in PlanStages => seen[s] = progress[s]
      BY <1>4, <2>2
    <3>3. docs[s].revision \in Nat
      BY <3>1 DEF IsDoc
    <3> HIDE DEF base, seen
    <3> QED
      BY <3>1, <3>2, <3>3
  <2> QED
    BY <2>1, <2>2
<1>5. ReadWell(q)
  <2>1. DOMAIN base = Stages \cap First(n)
    OBVIOUS
  <2>2. p.revision \in 0..branchRevision
    BY <1>2 DEF ReadWell
  <2> HIDE DEF base, seen, planned
  <2> QED
    BY <1>4, <2>1, <2>2 DEF ReadWell
<1>6. CommandWell(q)
  BY <1>3, <1>5 DEF CommandWell
<1> HIDE DEF q
<1> QED
  BY <1>1, <1>6, OneCommandKeeps

\* A finished load has a sound document of every stage.
LEMMA LoadedSound ==
  ASSUME StageInv, NEW c \in Commands, Loaded(c)
  PROVE  /\ DOMAIN pending[c].base = Stages /\ ReadWell(pending[c])
         /\ \A s \in Stages : IsDoc(s, pending[c].base[s]) /\ CompleteIfRatified(s, pending[c].base[s])
<1>1. LoadsInOrder(pending[c]) /\ ReadWell(pending[c])
  BY DEF Loaded, NoCommand, StageInv, PendingInv, CommandWell
<1>2. DOMAIN pending[c].base = Stages
  BY <1>1, LoadOrderCovers DEF LoadsInOrder, Loaded
<1> QED
  BY <1>1, <1>2 DEF ReadWell

LEMMA DecidingKeeps ==
  ASSUME StageInv, NEW c \in Commands, NEW kind \in {"capture", "checkpoint", "cleanup"},
         NEW s \in Stages, NEW write, NEW base, base = pending[c].base[s], Decide(c, kind, s, write),
         kind = "checkpoint" => Required(s, Normal(s, Updated(s, base.body, write))),
         kind = "cleanup" => /\ IsDoc(s, write) /\ CompleteIfRatified(s, write)
                             /\ write.ratified = base.ratified
                             /\ write.ratified => write.revision = base.revision + 1,
         kind = "cleanup" /\ s \in PlanStages /\ base.ratified =>
           IdsOf(Registered(pending[c].planned)) \subseteq IdsOf(write.body.stepCatalog)
  PROVE  StageInv'
<1> DEFINE p == pending[c]
           q == [kind |-> kind, stage |-> s, write |-> write, base |-> p.base,
                 planned |-> p.planned, seen |-> p.seen, revision |-> p.revision]
<1>1. /\ pending' = [pending EXCEPT ![c] = q]
      /\ docs' = docs /\ progress' = progress /\ branchRevision' = branchRevision
  BY DEF Decide
<1>2. DOMAIN p.base = Stages /\ ReadWell(p)
  BY LoadedSound DEF Decide
<1>3. ReadWell(q)
  BY <1>2 DEF ReadWell
<1>4. WellDecided(q)
  BY <1>2 DEF WellDecided
<1>5. CommandWell(q)
  BY <1>3, <1>4 DEF CommandWell
<1> HIDE DEF q
<1> QED
  BY <1>1, <1>5, OneCommandKeeps

LEMMA CapturesDecide ==
  ASSUME StageInv, NEW c \in Commands, NEW s \in Stages, NEW patch, DecideCapture(c, s, patch)
  PROVE  StageInv'
BY DecidingKeeps DEF DecideCapture

LEMMA CheckpointsDecide ==
  ASSUME StageInv, NEW c \in Commands, NEW s \in Stages, NEW actions, NEW contracts,
         DecideCheckpoint(c, s, actions, contracts)
  PROVE  StageInv'
<1>1. Required(s, Normal(s, Updated(s, pending[c].base[s].body, CheckpointPatch(s, actions, contracts))))
  BY DEF DecideCheckpoint, Complete
<1>2. Decide(c, "checkpoint", s, CheckpointPatch(s, actions, contracts))
  BY DEF DecideCheckpoint
<1> QED
  BY <1>1, <1>2, DecidingKeeps

LEMMA CleanupsDecide ==
  ASSUME StageInv, NEW c \in Commands, NEW s \in Stages, NEW body, NEW summary, IsBody(s, body),
         CleanupAllowed(pending[c], s, body),
         Decide(c, "cleanup", s, WithSystemFields(pending[c].base[s], body, summary))
  PROVE  StageInv'
<1> DEFINE base == pending[c].base[s]
           new == WithSystemFields(base, body, summary)
<1>1. IsDoc(s, base) /\ CompleteIfRatified(s, base)
  BY LoadedSound DEF Decide
<1>2. base.ratified => Required(s, Normal(s, body)) /\ CleanupReferences(pending[c], s, body)
  BY DEF CleanupAllowed, Complete
<1>3. /\ IsDoc(s, new) /\ CompleteIfRatified(s, new)
      /\ new.body = body /\ new.ratified = base.ratified
      /\ new.ratified => new.revision = base.revision + 1
  BY <1>1, <1>2, CleanupsDecideWell
<1>4. s \in PlanStages /\ base.ratified =>
        IdsOf(Registered(pending[c].planned)) \subseteq IdsOf(new.body.stepCatalog)
  BY <1>2, <1>3 DEF CleanupReferences, PlanStages, PlanReferences, FeaturePlanReferences
<1> HIDE DEF new
<1>5. Decide(c, "cleanup", s, new)
  BY DEF new
<1> QED
  BY <1>3, <1>4, <1>5, DecidingKeeps

LEMMA ReplacesDecide ==
  ASSUME StageInv, NEW c \in Commands, NEW s \in Stages, NEW payload \in Payloads[s], NEW summary,
         NEW claimed, DecideReplace(c, s, payload, summary, claimed)
  PROVE  StageInv'
<1>1. IsBody(s, payload)
  BY StageAssumption DEF IsBody
<1>2. IsBody(s, Normal(s, payload))
  BY <1>1, NormalIsBody
<1> QED
  BY <1>2, CleanupsDecide DEF DecideReplace

LEMMA PrunesDecide ==
  ASSUME StageInv, NEW c \in Commands, NEW s \in Stages, NEW operations, NEW claimed,
         DecidePrune(c, s, operations, claimed)
  PROVE  StageInv'
<1> DEFINE body == pending[c].base[s].body
<1>1. IsBody(s, body)
  BY LoadedSound DEF DecidePrune, IsDoc
<1>2. IsBody(s, Pruned(s, body, operations))
  BY <1>1 DEF IsBody, Pruned
<1>3. IsBody(s, Normal(s, Pruned(s, body, operations)))
  BY <1>2, NormalIsBody
<1> QED
  BY <1>3, CleanupsDecide DEF DecidePrune

-----------------------------------------------------------------------------
(* A write of one document, seen by the commands that have not committed.    *)

\* The steps of a ratified plan survive a write of it that is no revision.
StepsStay(s, new, steps) ==
  s \in PlanStages /\ docs[s].ratified =>
    /\ new.ratified
    /\ new.revision \in {docs[s].revision, docs[s].revision + 1}
    /\ new.revision = docs[s].revision =>
         \A r \in steps[s] : r \in docs[s].body.stepCatalog \/ r \notin progress[s] => r \in new.body.stepCatalog

LEMMA DocsWriteKeeps ==
  ASSUME StageInv, NEW s \in Stages, NEW new, IsDoc(s, new), CompleteIfRatified(s, new),
         StepsStay(s, new, progress'), branchRevision < MaxRevision,
         docs' = [docs EXCEPT ![s] = new], branchRevision' = branchRevision + 1,
         NormalRows(progress'), \A x \in PlanStages : x # s => progress'[x] = progress[x],
         NEW d \in Commands, (pending[d] # NoCommand)', pending'[d] = pending[d]
  PROVE  CommandWell(pending[d])'
<1>1. PICK p : p = pending[d]
  OBVIOUS
<1>2. CommandWell(p) /\ ReadWell(p)
  BY <1>1 DEF StageInv, PendingInv, CommandWell
<1>3. branchRevision \in Nat /\ p.revision \in Nat /\ p.revision <= branchRevision /\ DOMAIN p.base \subseteq Stages
  BY <1>2 DEF ReadWell, StageInv
<1>4. ASSUME NEW t \in DOMAIN p.base, t \in PlanStages, p.base[t].ratified
      PROVE  /\ docs'[t].ratified /\ docs'[t].revision >= p.base[t].revision
             /\ docs'[t].revision = p.base[t].revision =>
                  \A r \in progress'[t] : r \in p.seen[t] \/ r \in docs'[t].body.stepCatalog
  <2> DEFINE base == p.base[t]
  <2>1. /\ base.revision \in Nat /\ docs[t].ratified /\ docs[t].revision >= base.revision
        /\ docs[t].revision = base.revision =>
             \A r \in progress[t] : r \in p.seen[t] \/ r \in docs[t].body.stepCatalog
    BY <1>2, <1>4 DEF ReadWell, IsDoc
  <2>2. t \in Stages /\ IsDoc(t, docs[t])
    BY <1>3, <1>4 DEF StageInv, DocsInv
  <2>3. CASE t # s
    <3>1. docs'[t] = docs[t] /\ progress'[t] = progress[t]
      BY <1>4, <2>2, <2>3 DEF StageInv, DocsInv
    <3> QED
      BY <2>1, <3>1
  <2>4. CASE t = s
    <3>1. docs'[t] = new
      BY <2>2, <2>4 DEF StageInv, DocsInv
    <3>2. /\ docs[t].revision \in Nat /\ new.ratified
          /\ new.revision \in {docs[t].revision, docs[t].revision + 1}
          /\ new.revision = docs[t].revision =>
               \A r \in progress'[t] : r \in docs[t].body.stepCatalog \/ r \notin progress[t] => r \in new.body.stepCatalog
      BY <1>4, <2>1, <2>2, <2>4 DEF StepsStay, IsDoc
    <3>3. new.revision >= base.revision /\ (new.revision = base.revision => docs[t].revision = base.revision)
      BY <2>1, <3>2
    <3>4. new.revision = base.revision =>
             \A r \in progress'[t] : r \in p.seen[t] \/ r \in new.body.stepCatalog
      BY <2>1, <3>2, <3>3
    <3> QED
      BY <3>1, <3>2, <3>3, <3>4
  <2> QED
    BY <2>3, <2>4
<1>5. \A t \in DOMAIN p.base : IsDoc(t, p.base[t]) /\ CompleteIfRatified(t, p.base[t])
  BY <1>2 DEF ReadWell
<1>6. p.revision \in 0..branchRevision' /\ p.revision # branchRevision'
  BY <1>3
<1>7. ReadWell(p)'
  BY <1>3, <1>4, <1>5, <1>6 DEF ReadWell
<1>8. CommandWell(p)'
  BY <1>2, <1>7 DEF CommandWell, WellDecided, LoadsInOrder
<1> QED
  BY <1>1, <1>8 DEF CommandWell, ReadWell, WellDecided, LoadsInOrder

\* A row in normal form stays when the catalog is normalised.
LEMMA NormalRowStays ==
  ASSUME NEW s \in PlanStages, NEW body, IsBody(s, body), NEW r \in body.stepCatalog,
         r.id # NoText, CatalogRow(r) = r
  PROVE  r \in Normal(s, body).stepCatalog
<1>1. PlanNormal(body).stepCatalog = {CatalogRow(x) : x \in Keyed(body.stepCatalog)}
  BY PlanFields DEF PlanLists
<1>2. Normal(s, body).stepCatalog = PlanNormal(body).stepCatalog
  BY PlanStageOperators
<1> QED
  BY <1>1, <1>2 DEF Keyed

\* What is committed fits the document as it is by then.
LEMMA OutcomeFits ==
  ASSUME StageInv, NEW c \in Commands, CommitWrite(c)
  PROVE  LET p == pending[c]
             s == p.stage
             new == Outcome(c)
         IN  /\ s \in Stages /\ p.kind \in {"capture", "checkpoint", "cleanup"}
             /\ docs[s] = p.base[s]
             /\ IsDoc(s, new) /\ CompleteIfRatified(s, new)
             /\ p.kind # "cleanup" => GoesOn(s, docs[s], new)
             /\ p.kind = "cleanup" => new = p.write
             /\ StepsStay(s, new, progress)
<1> DEFINE p == pending[c]
           s == p.stage
           new == Outcome(c)
<1>1. WellDecided(p) /\ ReadWell(p)
  BY DEF CommitWrite, HasDecided, NoCommand, StageInv, PendingInv, CommandWell
<1>2. s \in Stages /\ p.kind \in {"capture", "checkpoint", "cleanup"} /\ DOMAIN p.base = Stages
  BY <1>1 DEF WellDecided, CommitWrite, HasDecided
<1>3. docs[s] = p.base[s]
  BY <1>1, <1>2 DEF ReadWell, CommitWrite, SnapshotMoved
<1>4. IsDoc(s, docs[s]) /\ CompleteIfRatified(s, docs[s])
  BY <1>2 DEF StageInv, DocsInv
<1>5. CASE p.kind = "capture"
  <2>1. new = Captured(s, docs[s], p.write)
    BY <1>5 DEF Outcome
  <2>2. /\ IsDoc(s, new) /\ CompleteIfRatified(s, new) /\ GoesOn(s, docs[s], new)
        /\ s \in PlanStages => new.body.stepCatalog = Normal(s, docs[s].body).stepCatalog
    BY <1>2, <1>4, <2>1, CapturesKeep
  <2>3. StepsStay(s, new, progress)
    <3> SUFFICES ASSUME s \in PlanStages, docs[s].ratified, NEW r \in progress[s], r \in docs[s].body.stepCatalog
                 PROVE  r \in new.body.stepCatalog
      BY <2>2 DEF StepsStay, GoesOn
    <3>1. r.id # NoText /\ CatalogRow(r) = r
      BY DEF StageInv, NormalRows
    <3> QED
      BY <2>2, <3>1, <1>4, NormalRowStays DEF IsDoc
  <2> QED
    BY <1>2, <1>3, <1>5, <2>2, <2>3
<1>6. CASE p.kind = "checkpoint"
  <2>1. new = Ratified(s, docs[s], p.write)
    BY <1>6 DEF Outcome
  <2>2. Required(s, Normal(s, Updated(s, docs[s].body, p.write)))
    BY <1>1, <1>3, <1>6 DEF WellDecided
  <2>3. /\ IsDoc(s, new) /\ CompleteIfRatified(s, new) /\ GoesOn(s, docs[s], new)
        /\ new.revision = docs[s].revision + 1
    BY <1>2, <1>4, <2>1, <2>2, CheckpointsKeep
  <2>4. StepsStay(s, new, progress)
    BY <1>4, <2>3 DEF StepsStay, GoesOn, IsDoc
  <2> QED
    BY <1>2, <1>3, <1>6, <2>3, <2>4
<1>7. CASE p.kind = "cleanup"
  <2>1. new = p.write
    BY <1>7 DEF Outcome
  <2>2. /\ IsDoc(s, new) /\ CompleteIfRatified(s, new) /\ new.ratified = docs[s].ratified
        /\ new.ratified => new.revision = docs[s].revision + 1
    BY <1>1, <1>3, <1>7, <2>1 DEF WellDecided
  <2>3. StepsStay(s, new, progress)
    BY <1>4, <2>2 DEF StepsStay, IsDoc
  <2> QED
    BY <1>2, <1>3, <1>7, <2>1, <2>2, <2>3
<1> QED
  BY <1>2, <1>5, <1>6, <1>7

LEMMA CommitsKeep ==
  ASSUME StageInv, NEW c \in Commands, CommitWrite(c)
  PROVE  StageInv'
<1> DEFINE s == pending[c].stage
           new == Outcome(c)
<1>1. s \in Stages /\ IsDoc(s, new) /\ CompleteIfRatified(s, new) /\ StepsStay(s, new, progress)
  BY OutcomeFits
<1>2. /\ docs' = [docs EXCEPT ![s] = new] /\ branchRevision' = branchRevision + 1 /\ progress' = progress
      /\ pending' = [pending EXCEPT ![c] = NoCommand] /\ branchRevision < MaxRevision
  BY DEF CommitWrite
<1> HIDE DEF s, new
<1>3. DocsInv'
  BY <1>1, <1>2 DEF StageInv, DocsInv
<1>4. NormalRows(progress)'
  BY <1>2 DEF StageInv, NormalRows
<1>5. ASSUME NEW d \in Commands, (pending[d] # NoCommand)' PROVE CommandWell(pending[d])'
  <2>1. pending'[d] = pending[d]
    BY <1>2, <1>5 DEF StageInv, PendingInv
  <2>2. StepsStay(s, new, progress')
    BY <1>1, <1>2
  <2> QED
    BY <1>1, <1>2, <1>4, <1>5, <2>1, <2>2, DocsWriteKeeps DEF NormalRows
<1>6. PendingInv'
  BY <1>2, <1>5 DEF StageInv, PendingInv
<1>7. branchRevision' \in 0..MaxRevision
  BY <1>2, StageAssumption DEF StageInv
<1> QED
  BY <1>3, <1>4, <1>6, <1>7 DEF StageInv

LEMMA RegisteringFits ==
  ASSUME StageInv, NEW s \in PlanStages, NEW row \in StepRows, RegisterPlanned(s, row)
  PROVE  LET new == [docs[s] EXCEPT !.body = PlanCatalogUpsert(@, row)]
         IN  /\ docs' = [docs EXCEPT ![s] = new]
             /\ IsDoc(s, new) /\ CompleteIfRatified(s, new) /\ GoesOn(s, docs[s], new)
             /\ StepsStay(s, new, progress') /\ NormalRows(progress')
<1> DEFINE new == [docs[s] EXCEPT !.body = PlanCatalogUpsert(@, row)]
<1>1. IsDoc(s, docs[s]) /\ CompleteIfRatified(s, docs[s]) /\ s \in Stages
  BY DEF StageInv, DocsInv, Stages
<1>2. docs' = [docs EXCEPT ![s] = new]
  BY DEF RegisterPlanned
<1>3. /\ IsDoc(s, new) /\ CompleteIfRatified(s, new) /\ GoesOn(s, docs[s], new)
      /\ CatalogRow(row) \in new.body.stepCatalog
      /\ \A r \in Normal(s, docs[s].body).stepCatalog : r.id # row.id => r \in new.body.stepCatalog
  BY <1>1, StageAssumption, RegistrationsKeep DEF RegisterPlanned
<1>4. progress' = [progress EXCEPT ![s] = @ \cup {CatalogRow(row)}]
  BY DEF RegisterPlanned
<1> HIDE DEF new
<1>5. NormalRows(progress')
  <2>1. CatalogRow(row).id # NoText /\ CatalogRow(CatalogRow(row)) = CatalogRow(row)
    BY CatalogRowStable, StageAssumption
  <2> QED
    BY <1>4, <2>1 DEF StageInv, NormalRows
<1>6. ASSUME NEW r \in progress'[s], r \in docs[s].body.stepCatalog \/ r \notin progress[s]
      PROVE  r \in new.body.stepCatalog
  <2>1. progress'[s] = progress[s] \cup {CatalogRow(row)}
    BY <1>4 DEF StageInv, NormalRows
  <2>2. CASE r \in progress[s]
    <3>1. r.id # NoText /\ CatalogRow(r) = r
      BY <2>2 DEF StageInv, NormalRows
    <3>2. r.id # row.id
      BY <2>2 DEF RegisterPlanned, Registered, IdsOf
    <3> QED
      BY <1>1, <1>3, <1>6, <2>2, <3>1, <3>2, NormalRowStays DEF IsDoc
  <2>3. CASE r \notin progress[s]
    BY <1>3, <2>1, <2>3
  <2> QED
    BY <2>2, <2>3
<1>7. StepsStay(s, new, progress')
  BY <1>3, <1>6 DEF StepsStay, GoesOn
<1> QED
  BY <1>2, <1>3, <1>5, <1>7 DEF new

LEMMA RegistersKeep ==
  ASSUME StageInv, NEW s \in PlanStages, NEW row \in StepRows, RegisterPlanned(s, row)
  PROVE  StageInv'
<1> DEFINE new == [docs[s] EXCEPT !.body = PlanCatalogUpsert(@, row)]
<1>1. /\ docs' = [docs EXCEPT ![s] = new] /\ IsDoc(s, new) /\ CompleteIfRatified(s, new)
      /\ StepsStay(s, new, progress') /\ NormalRows(progress')
  BY RegisteringFits
<1>2. /\ branchRevision' = branchRevision + 1 /\ pending' = pending /\ branchRevision < MaxRevision
      /\ \A x \in PlanStages : x # s => progress'[x] = progress[x]
  BY DEF RegisterPlanned, StageInv, NormalRows
<1> HIDE DEF new
<1>3. s \in Stages
  BY DEF Stages
<1>4. DocsInv'
  BY <1>1, <1>3 DEF StageInv, DocsInv
<1>5. NormalRows(progress)'
  BY <1>1 DEF NormalRows
<1>6. ASSUME NEW d \in Commands, (pending[d] # NoCommand)' PROVE CommandWell(pending[d])'
  BY <1>1, <1>2, <1>3, <1>6, DocsWriteKeeps
<1>7. PendingInv'
  BY <1>2, <1>6 DEF StageInv, PendingInv
<1>8. branchRevision' \in 0..MaxRevision
  BY <1>2, StageAssumption DEF StageInv
<1> QED
  BY <1>4, <1>5, <1>7, <1>8 DEF StageInv

\* A command that gives up or dies changes nothing but its own state.
LEMMA GivingUpKeeps ==
  ASSUME StageInv, NEW c \in Commands, SnapshotConflict(c) \/ CommandDies(c)
  PROVE  StageInv'
BY OneCommandKeeps DEF SnapshotConflict, CommandDies

LEMMA StutteringKeeps ==
  ASSUME StageInv, UNCHANGED stageVars
  PROVE  StageInv'
<1>1. docs' = docs /\ progress' = progress /\ branchRevision' = branchRevision /\ pending' = pending
  BY DEF stageVars
<1>2. PendingInv'
  BY <1>1 DEF StageInv, PendingInv, CommandWell, ReadWell, WellDecided, LoadsInOrder
<1> QED
  BY <1>1, <1>2 DEF StageInv, DocsInv, NormalRows

\* What one step of any command can be.
LEMMA StageSteps ==
  ASSUME StageNext(Stages)
  PROVE  \/ \E c \in Commands :
              \/ OpenBranch(c)
              \/ \E n \in 1..Len(LoadOrder) : ReadOn(c, n)
              \/ \E s \in Stages :
                   \/ \E patch \in Patches[s] : DecideCapture(c, s, patch)
                   \/ \E actions, contracts \in Notes : DecideCheckpoint(c, s, actions, contracts)
                   \/ \E payload \in Payloads[s], summary \in {NoText, Summary}, claimed \in BOOLEAN :
                        DecideReplace(c, s, payload, summary, claimed)
                   \/ \E operations \in Operations[s], claimed \in BOOLEAN : DecidePrune(c, s, operations, claimed)
              \/ CommitWrite(c) \/ SnapshotConflict(c) \/ CommandDies(c)
         \/ \E s \in PlanStages, row \in StepRows : RegisterPlanned(s, row)
BY DEF StageNext, Ends

\* Only commits and registrations write documents.
LEMMA WritingSteps ==
  ASSUME StageNext(Stages)
  PROVE  \/ \E c \in Commands : CommitWrite(c)
         \/ \E s \in PlanStages, row \in StepRows : RegisterPlanned(s, row)
         \/ docs' = docs
<1>1. ASSUME NEW c, NEW kind, NEW s, NEW write, Decide(c, kind, s, write) PROVE docs' = docs
  BY <1>1 DEF Decide
<1>2. ASSUME NEW c \in Commands, NEW s \in Stages,
             \/ \E patch \in Patches[s] : DecideCapture(c, s, patch)
             \/ \E actions, contracts \in Notes : DecideCheckpoint(c, s, actions, contracts)
             \/ \E payload \in Payloads[s], summary \in {NoText, Summary}, claimed \in BOOLEAN :
                  DecideReplace(c, s, payload, summary, claimed)
             \/ \E operations \in Operations[s], claimed \in BOOLEAN : DecidePrune(c, s, operations, claimed)
      PROVE  docs' = docs
  BY <1>1, <1>2 DEF DecideCapture, DecideCheckpoint, DecideReplace, DecidePrune
<1>3. ASSUME NEW c \in Commands, OpenBranch(c) \/ SnapshotConflict(c) \/ CommandDies(c) PROVE docs' = docs
  BY <1>3 DEF OpenBranch, SnapshotConflict, CommandDies
<1>4. ASSUME NEW c \in Commands, NEW n, ReadOn(c, n) PROVE docs' = docs
  BY <1>4 DEF ReadOn
<1> QED
  BY <1>2, <1>3, <1>4, StageSteps

LEMMA StageNextKeeps ==
  ASSUME StageInv, [StageNext(Stages)]_stageVars
  PROVE  StageInv'
<1>1. CASE UNCHANGED stageVars
  BY <1>1, StutteringKeeps
<1>2. CASE StageNext(Stages)
  <2>1. ASSUME NEW c \in Commands, NEW s \in Stages, NEW patch \in Patches[s], DecideCapture(c, s, patch)
        PROVE  StageInv'
    BY <2>1, CapturesDecide
  <2>2. ASSUME NEW c \in Commands, NEW s \in Stages, NEW actions \in Notes, NEW contracts \in Notes,
               DecideCheckpoint(c, s, actions, contracts)
        PROVE  StageInv'
    BY <2>2, CheckpointsDecide
  <2>3. ASSUME NEW c \in Commands, NEW s \in Stages, NEW payload \in Payloads[s],
               NEW summary \in {NoText, Summary}, NEW claimed \in BOOLEAN,
               DecideReplace(c, s, payload, summary, claimed)
        PROVE  StageInv'
    BY <2>3, ReplacesDecide
  <2>4. ASSUME NEW c \in Commands, NEW s \in Stages, NEW operations \in Operations[s],
               NEW claimed \in BOOLEAN, DecidePrune(c, s, operations, claimed)
        PROVE  StageInv'
    BY <2>4, PrunesDecide
  <2>5. ASSUME NEW c \in Commands, CommitWrite(c) PROVE StageInv'
    BY <2>5, CommitsKeep
  <2>6. ASSUME NEW c \in Commands, SnapshotConflict(c) \/ CommandDies(c) PROVE StageInv'
    BY <2>6, GivingUpKeeps
  <2>7. ASSUME NEW s \in PlanStages, NEW row \in StepRows, RegisterPlanned(s, row) PROVE StageInv'
    BY <2>7, RegistersKeep
  <2>8. ASSUME NEW c \in Commands, OpenBranch(c) PROVE StageInv'
    BY <2>8, OpeningKeeps
  <2>9. ASSUME NEW c \in Commands, NEW n \in 1..Len(LoadOrder), ReadOn(c, n) PROVE StageInv'
    BY <2>9, ReadingOnKeeps
  <2> QED
    BY <1>2, <2>1, <2>2, <2>3, <2>4, <2>5, <2>6, <2>7, <2>8, <2>9, StageSteps
<1> QED
  BY <1>1, <1>2

\* StageInv holds in every state the commands reach from documents that hold
\* what commands had made of them (memory/stages/, semantic/,
\* application/snapshot_cleanup.py).
THEOREM StageInvHolds ==
  ASSUME NEW initial, \A i \in initial : SoundMemory(i)
  PROVE  StageSpec(initial) => []StageInv
<1>1. StageInit(initial) => StageInv
  BY StageStart
<1>2. StageInv /\ [StageNext(Stages)]_stageVars => StageInv'
  BY StageNextKeeps
<1> QED
  BY <1>1, <1>2, PTL DEF StageSpec

-----------------------------------------------------------------------------
(* The properties.                                                           *)

\* The documents keep the fields of their stages and their system fields, for
\* any commands, payloads and patches (memory/stages/*/state.py).
THEOREM StageTypesHold ==
  ASSUME NEW initial, \A i \in initial : SoundMemory(i)
  PROVE  StageSpec(initial) => []StageTypeOK
<1>1. StageInv => StageTypeOK
  <2> SUFFICES ASSUME StageInv PROVE StageTypeOK
    OBVIOUS
  <2>1. ASSUME NEW s \in Stages
        PROVE  /\ DOMAIN docs[s].body = DOMAIN Default(s)
               /\ docs[s].ratified \in BOOLEAN /\ docs[s].revision \in Nat
               /\ docs[s].ratified => docs[s].revision > 0
    <3>1. IsDoc(s, docs[s])
      BY DEF StageInv, DocsInv
    <3> QED
      BY <3>1 DEF IsDoc, IsBody
  <2>2. ASSUME NEW c \in Commands
        PROVE  /\ pending[c].kind \in {"none", "loading", "capture", "checkpoint", "cleanup"}
               /\ HasDecided(c) => DOMAIN pending[c].base = Stages
    <3>1. CASE pending[c] = NoCommand
      BY <3>1 DEF NoCommand, HasDecided
    <3>2. CASE pending[c] # NoCommand
      BY <3>2 DEF StageInv, PendingInv, CommandWell, WellDecided, HasDecided
    <3> QED
      BY <3>1, <3>2
  <2> QED
    BY <2>1, <2>2 DEF StageTypeOK, StageInv
<1>2. StageSpec(initial) => []StageInv
  BY StageInvHolds
<1> QED
  BY <1>1, <1>2, PTL

\* A ratified document stays complete, and keeps a summary, whatever captures,
\* checkpoints and cleanups of it run into each other (semantic/checkpoint.py,
\* application/snapshot_cleanup.py).
THEOREM RatifiedDocumentsStayComplete ==
  ASSUME NEW initial, \A i \in initial : SoundMemory(i)
  PROVE  StageSpec(initial) => []RatifiedStaysComplete
<1>1. StageInv => RatifiedStaysComplete
  BY DEF StageInv, DocsInv, CompleteIfRatified, RatifiedStaysComplete
<1>2. StageSpec(initial) => []StageInv
  BY StageInvHolds
<1> QED
  BY <1>1, <1>2, PTL

\* A write that goes on from the document removes no entry of its.
LEMMA GoingOnRemovesNothing ==
  ASSUME NEW s \in Stages, NEW old, NEW new, IsDoc(s, old), IsDoc(s, new), GoesOn(s, old, new)
  PROVE  Held(s, Normal(s, old.body)) \subseteq Held(s, new.body)
<1>1. IsBody(s, Normal(s, old.body)) /\ IsBody(s, new.body)
  BY NormalIsBody DEF IsDoc
<1> QED
  BY <1>1, KeptIsHeld DEF GoesOn

\* No commit takes from a document an entry its command had not seen
\* (application/snapshot_cleanup.py, semantic/capture_persistence.py).
THEOREM UnseenEntriesStay ==
  ASSUME NEW initial, \A i \in initial : SoundMemory(i)
  PROVE  StageSpec(initial) => OnlySeenEntriesAreRemoved
<1> DEFINE Removal(s) ==
      docs'[s] # docs[s] =>
        \/ Held(s, Normal(s, docs[s].body)) \subseteq Held(s, docs'[s].body)
        \/ \E c \in Commands : /\ pending[c].kind = "cleanup" /\ pending'[c] = NoCommand
                               /\ pending[c].stage = s /\ pending[c].base[s] = docs[s]
<1>1. ASSUME StageInv, StageNext(Stages), NEW s \in Stages
      PROVE  Removal(s)
  <2>1. ASSUME NEW c \in Commands, CommitWrite(c) PROVE Removal(s)
    <3> DEFINE t == pending[c].stage
    <3>1. docs' = [docs EXCEPT ![t] = Outcome(c)] /\ pending'[c] = NoCommand
      BY <1>1, <2>1 DEF CommitWrite, StageInv, PendingInv
    <3>2. /\ t \in Stages /\ IsDoc(t, docs[t]) /\ IsDoc(t, Outcome(c)) /\ docs[t] = pending[c].base[t]
          /\ pending[c].kind = "cleanup" \/ GoesOn(t, docs[t], Outcome(c))
      BY <1>1, <2>1, OutcomeFits DEF StageInv, DocsInv
    <3>3. s # t => docs'[s] = docs[s]
      BY <1>1, <3>1 DEF StageInv, DocsInv
    <3>4. docs'[t] = Outcome(c)
      BY <1>1, <3>1, <3>2 DEF StageInv, DocsInv
    <3>5. CASE pending[c].kind = "cleanup"
      BY <3>1, <3>2, <3>3, <3>5
    <3>6. CASE GoesOn(t, docs[t], Outcome(c))
      BY <3>2, <3>3, <3>4, <3>6, GoingOnRemovesNothing
    <3> QED
      BY <3>2, <3>5, <3>6
  <2>2. ASSUME NEW t \in PlanStages, NEW row \in StepRows, RegisterPlanned(t, row) PROVE Removal(s)
    <3> DEFINE new == [docs[t] EXCEPT !.body = PlanCatalogUpsert(@, row)]
    <3>1. docs' = [docs EXCEPT ![t] = new] /\ IsDoc(t, new) /\ GoesOn(t, docs[t], new)
      BY <1>1, <2>2, RegisteringFits
    <3> HIDE DEF new
    <3>2. t \in Stages /\ IsDoc(t, docs[t])
      BY <1>1 DEF StageInv, DocsInv, Stages
    <3>3. Held(t, Normal(t, docs[t].body)) \subseteq Held(t, new.body)
      BY <3>1, <3>2, GoingOnRemovesNothing
    <3>4. docs'[s] = IF s = t THEN new ELSE docs[s]
      BY <1>1, <3>1 DEF StageInv, DocsInv
    <3> QED
      BY <3>3, <3>4
  <2>3. CASE docs' = docs
    BY <2>3
  <2> QED
    BY <1>1, <2>1, <2>2, <2>3, WritingSteps
<1>2. StageInv /\ [StageNext(Stages)]_stageVars => [\A s \in Stages : Removal(s)]_stageVars
  BY <1>1
<1>3. StageSpec(initial) => []StageInv
  BY StageInvHolds
<1> QED
  BY <1>2, <1>3, PTL DEF StageSpec, OnlySeenEntriesAreRemoved

\* A cleanup of a ratified plan keeps the steps that its load found in the progress
\* and those registered since it read the plan, save one whose very row the plan it
\* read held already (application/snapshot_cleanup.py).  Of those registered between
\* the two reads nothing is said: the load may see them in the plan alone
\* (memory/shared/system_store/canonical_state.py).
THEOREM CleanedPlansKeepSteps ==
  ASSUME NEW initial, \A i \in initial : SoundMemory(i)
  PROVE  StageSpec(initial) => CleanedPlanKeepsSteps
<1> DEFINE Keeping(c) ==
      LET stage == pending[c].stage
          kept  == IdsOf(docs'[stage].body.stepCatalog)
      IN  /\ pending[c].kind = "cleanup" /\ pending'[c] = NoCommand /\ docs' # docs
          /\ stage \in PlanStages /\ docs[stage].ratified
          => /\ IdsOf(Registered(pending[c].planned)) \subseteq kept
             /\ \A r \in progress[stage] \ pending[c].seen[stage] :
                  r.id \in kept \/ r \in pending[c].base[stage].body.stepCatalog
<1>1. ASSUME StageInv, StageNext(Stages), NEW c \in Commands
      PROVE  Keeping(c)
  <2> DEFINE s    == pending[c].stage
             kept == IdsOf(docs'[s].body.stepCatalog)
  <2> SUFFICES ASSUME pending[c].kind = "cleanup", pending'[c] = NoCommand, docs' # docs,
                      s \in PlanStages, docs[s].ratified
               PROVE  /\ IdsOf(Registered(pending[c].planned)) \subseteq kept
                      /\ \A r \in progress[s] \ pending[c].seen[s] :
                           r.id \in kept \/ r \in pending[c].base[s].body.stepCatalog
    OBVIOUS
  <2>1. pending[c] # NoCommand
    BY DEF NoCommand
  <2>2. CommitWrite(c)
    <3>1. ASSUME NEW d \in Commands, CommitWrite(d) PROVE d = c
      BY <1>1, <2>1, <3>1 DEF CommitWrite, StageInv, PendingInv
    <3>2. ASSUME NEW t, NEW row, RegisterPlanned(t, row) PROVE FALSE
      BY <2>1, <3>2 DEF RegisterPlanned
    <3> QED
      BY <1>1, <3>1, <3>2, WritingSteps
  <2>3. /\ s \in Stages /\ docs[s] = pending[c].base[s] /\ IsDoc(s, docs[s])
        /\ Outcome(c) = pending[c].write
    BY <1>1, <2>2, OutcomeFits DEF StageInv, DocsInv
  <2>4. docs'[s] = pending[c].write
    BY <1>1, <2>2, <2>3 DEF CommitWrite, StageInv, DocsInv
  <2>5. CommandWell(pending[c]) /\ WellDecided(pending[c]) /\ ReadWell(pending[c])
    BY <1>1, <2>1 DEF StageInv, PendingInv, CommandWell
  <2>6. s \in DOMAIN pending[c].base /\ pending[c].base[s].ratified
        /\ docs[s].revision = pending[c].base[s].revision
    BY <2>3, <2>5 DEF WellDecided
  <2>7. IdsOf(Registered(pending[c].planned)) \subseteq kept
    BY <2>4, <2>5, <2>6 DEF WellDecided
  <2>8. \A r \in progress[s] : r \in pending[c].seen[s] \/ r \in docs[s].body.stepCatalog
    BY <2>5, <2>6 DEF ReadWell
  <2> QED
    BY <2>3, <2>7, <2>8
<1>2. StageInv /\ [StageNext(Stages)]_stageVars => [\A c \in Commands : Keeping(c)]_stageVars
  BY <1>1
<1>3. StageSpec(initial) => []StageInv
  BY StageInvHolds
<1> QED
  BY <1>2, <1>3, PTL DEF StageSpec, CleanedPlanKeepsSteps
=============================================================================
