--------------------------- MODULE AgentProfiles ---------------------------
(***************************************************************************)
(* Roles of subagents and the profile that enables them (features/agents): *)
(* built-in roles, the project's catalog of overrides and roles of its     *)
(* own with their body files, the state with the environment and the       *)
(* enabled ids, a log of profile proposals, and the files rendered into    *)
(* the environment's directory.  One command runs at a time and may die    *)
(* between any two of its writes.                                          *)
(***************************************************************************)
EXTENDS Naturals, Sequences

CONSTANTS Builtins,          \* ids of roles that come with the program
          Projects,          \* other ids a role may have
          Defaults,          \* the built-in roles a new project enables
          Environments,
          Native,            \* the environments with a file per role
          Versions,          \* texts of a definition or a body
          ProfileIds,        \* ids of proposals
          Nothing,           \* no entry, no body file, the built-in text
          MaxProfileRows,    \* bound: rows of the proposal log
          MaxAgentCommands   \* bound: commands begun

ASSUME AgentAssumption == Defaults \subseteq Builtins

VARIABLES catalog,       \* [role -> entry or Nothing]
          bodies,        \* [role -> text of the body file or Nothing]
          profile,       \* state.json: the environment and the enabled ids
          profileLog,    \* proposals.jsonl
          workspace,     \* [environment -> [role -> what is rendered]]
          agentCommand,  \* the running command and its next write
          rendered,      \* the last command to write anything finished
          agentCommands  \* commands begun

agentVars == <<catalog, bodies, profile, profileLog, workspace, agentCommand,
               rendered, agentCommands>>

Roles == Builtins \union Projects
AgentAtRest == [name |-> "none"]
Entries == [kind : {"project", "override"}, text : Versions, body : BOOLEAN]

Effective(entries) == Builtins \union {r \in Roles : entries[r] # Nothing}

(* The body file when the entry names one and it is there, else a template. *)
Body(role, entries, texts) ==
  IF entries[role] # Nothing /\ entries[role].body THEN texts[role] ELSE Nothing
Text(role, entries) ==
  IF entries[role] = Nothing THEN Nothing ELSE entries[role].text

(* render_workspace_agents: a file per enabled role, or one guidance file  *)
(* that names them without their bodies; other managed files are unlinked. *)
UnlinkedNever(role, active) == FALSE
Unlinked(role, active) == role \notin active
RoleFile(role, entries, texts) ==
  [text |-> Text(role, entries), body |-> Body(role, entries, texts)]
Guidance(role, entries) == [text |-> Text(role, entries), body |-> Nothing]
Active(entries, enabled) == enabled \intersect Effective(entries)
View(entries, texts, enabled, environment, before) ==
  LET active == Active(entries, enabled)
  IN IF environment \in Native
       THEN [r \in Roles |-> IF r \in active THEN RoleFile(r, entries, texts)
                             ELSE IF Unlinked(r, active) THEN Nothing
                             ELSE before[r]]
       ELSE [r \in Roles |-> IF r \in active THEN Guidance(r, entries)
                                            ELSE Nothing]

NoFiles == [r \in Roles |-> Nothing]
ExpectedWorkspace ==
  View(catalog, bodies, profile.enabled, profile.environment, NoFiles)

AgentInit ==
  /\ catalog = [r \in Roles |-> Nothing]
  /\ bodies = [r \in Roles |-> Nothing]
  /\ \E e \in Environments :
       /\ profile = [environment |-> e, enabled |-> Defaults]
       /\ workspace = [x \in Environments |->
                         IF x = e THEN View(catalog, bodies, Defaults, e, NoFiles)
                                  ELSE NoFiles]
  /\ profileLog = <<>>
  /\ agentCommand = AgentAtRest
  /\ rendered = TRUE
  /\ agentCommands = 0

Begin(next) ==
  /\ agentCommand = AgentAtRest
  /\ agentCommands < MaxAgentCommands
  /\ agentCommands' = agentCommands + 1
  /\ agentCommand' = next
  /\ rendered' = FALSE

(***************************************************************************)
(* `create` and `update`: the catalog is saved before the body file.  A    *)
(* built-in role cannot be created, only overridden by `update`; a role of *)
(* the project needs a body the first time.                                *)
(***************************************************************************)
UpsertedAsProject(role, text, withBody) ==
  [kind |-> "project", text |-> text, body |-> withBody]
Upserted(role, text, withBody) ==
  LET old == catalog[role]
  IN [kind |-> IF old # Nothing THEN old.kind
               ELSE IF role \in Builtins THEN "override" ELSE "project",
      text |-> text,
      body |-> withBody \/ (old # Nothing /\ old.body)]

CreateSubagent(role, text, body) ==
  /\ catalog[role] # Nothing \/ role \notin Builtins
  /\ Begin([name |-> "body", role |-> role, body |-> body])
  /\ catalog' = [catalog EXCEPT ![role] = Upserted(role, text, TRUE)]
  /\ UNCHANGED <<bodies, profile, profileLog, workspace>>

UpdateSubagent(role, text, body) ==
  /\ catalog[role] # Nothing \/ role \in Builtins
  /\ Begin(IF body = Nothing THEN [name |-> "render"]
           ELSE [name |-> "body", role |-> role, body |-> body])
  /\ catalog' = [catalog EXCEPT ![role] = Upserted(role, text, body # Nothing)]
  /\ UNCHANGED <<bodies, profile, profileLog, workspace>>

WriteBody ==
  /\ agentCommand.name = "body"
  /\ bodies' = [bodies EXCEPT ![agentCommand.role] = agentCommand.body]
  /\ agentCommand' = [name |-> "render"]
  /\ UNCHANGED <<catalog, profile, profileLog, workspace, rendered, agentCommands>>

(***************************************************************************)
(* `remove`: the catalog, then the body, then the state.  An enabled role  *)
(* needs --force, unless the built-in one remains under it.                *)
(***************************************************************************)
OverrideOnly(role) == catalog[role].kind = "override" /\ role \in Builtins

RemoveSubagent(role, force) ==
  /\ catalog[role] # Nothing
  /\ role \in profile.enabled => force \/ OverrideOnly(role)
  /\ Begin([name |-> "unlink", role |-> role,
            disable |-> role \in profile.enabled /\ ~OverrideOnly(role)])
  /\ catalog' = [catalog EXCEPT ![role] = Nothing]
  /\ UNCHANGED <<bodies, profile, profileLog, workspace>>

UnlinkBody ==
  /\ agentCommand.name = "unlink"
  /\ bodies' = [bodies EXCEPT ![agentCommand.role] = Nothing]
  /\ agentCommand' = IF agentCommand.disable
                       THEN [name |-> "disable", role |-> agentCommand.role]
                       ELSE [name |-> "render"]
  /\ UNCHANGED <<catalog, profile, profileLog, workspace, rendered, agentCommands>>

DisableRemoved ==
  /\ agentCommand.name = "disable"
  /\ profile' = [profile EXCEPT !.enabled = @ \ {agentCommand.role}]
  /\ agentCommand' = [name |-> "render"]
  /\ UNCHANGED <<catalog, bodies, profileLog, workspace, rendered, agentCommands>>

(***************************************************************************)
(* `enable` and `disable`: no write at all when nothing changes.           *)
(***************************************************************************)
ToggleSubagent(role) ==
  /\ role \in Effective(catalog)
  /\ Begin([name |-> "render"])
  /\ profile' = [profile EXCEPT !.enabled =
                   IF role \in @ THEN @ \ {role} ELSE @ \union {role}]
  /\ UNCHANGED <<catalog, bodies, profileLog, workspace>>

(***************************************************************************)
(* Profiles: a proposal names roles that are known when it is made and is  *)
(* applied whole (no role given stands for the current ones, and none at   *)
(* all for the defaults); the row that says "applied" is appended behind   *)
(* the one every lookup finds.                                             *)
(***************************************************************************)
ProfileRows(id) == {i \in 1..Len(profileLog) : profileLog[i].id = id}
FindAgentProposal(id) ==
  profileLog[CHOOSE i \in ProfileRows(id) : \A j \in ProfileRows(id) : i <= j]

ProposeProfile(id, environment, enabled) ==
  /\ agentCommand = AgentAtRest
  /\ ProfileRows(id) = {} /\ Len(profileLog) < MaxProfileRows
  /\ enabled # {} /\ enabled \subseteq Effective(catalog)
  /\ profileLog' = Append(profileLog, [id |-> id, status |-> "pending",
                                        after |-> [environment |-> environment,
                                                   enabled |-> enabled]])
  /\ UNCHANGED <<catalog, bodies, profile, workspace, agentCommand, rendered,
                 agentCommands>>

ApplyProfile(id) ==
  /\ ProfileRows(id) # {} /\ Len(profileLog) < MaxProfileRows
  /\ FindAgentProposal(id).status # "applied"
  /\ Begin([name |-> "render", id |-> id])
  /\ profile' = FindAgentProposal(id).after
  /\ UNCHANGED <<catalog, bodies, profileLog, workspace>>

LogApplied ==
  /\ agentCommand.name = "log"
  /\ profileLog' = Append(profileLog, [FindAgentProposal(agentCommand.id)
                                         EXCEPT !.status = "applied"])
  /\ agentCommand' = AgentAtRest
  /\ UNCHANGED <<catalog, bodies, profile, workspace, rendered, agentCommands>>

(***************************************************************************)
(* Every command that wrote something ends by rendering the workspace.     *)
(***************************************************************************)
RenderWorkspace ==
  /\ agentCommand.name = "render"
  /\ workspace' = [workspace EXCEPT ![profile.environment] =
                 View(catalog, bodies, profile.enabled, profile.environment, @)]
  /\ agentCommand' = IF "id" \in DOMAIN agentCommand
                       THEN [name |-> "log", id |-> agentCommand.id]
                       ELSE AgentAtRest
  /\ rendered' = TRUE
  /\ UNCHANGED <<catalog, bodies, profile, profileLog, agentCommands>>

AgentDies ==
  /\ agentCommand # AgentAtRest
  /\ agentCommand' = AgentAtRest
  /\ UNCHANGED <<catalog, bodies, profile, profileLog, workspace, rendered, agentCommands>>

AgentNext ==
  \/ \E role \in Roles, text \in Versions :
       \/ \E body \in Versions : CreateSubagent(role, text, body)
       \/ \E body \in Versions \union {Nothing} : UpdateSubagent(role, text, body)
  \/ \E role \in Roles : ToggleSubagent(role)
  \/ \E role \in Roles, force \in BOOLEAN : RemoveSubagent(role, force)
  \/ \E id \in ProfileIds, e \in Environments, enabled \in SUBSET Roles :
       ProposeProfile(id, e, enabled)
  \/ \E id \in ProfileIds : ApplyProfile(id)
  \/ WriteBody \/ UnlinkBody \/ DisableRemoved \/ LogApplied
  \/ RenderWorkspace
  \/ AgentDies

AgentSpec == AgentInit /\ [][AgentNext]_agentVars

(***************************************************************************)
(* Properties.                                                             *)
(***************************************************************************)
AgentTypeOK ==
  /\ catalog \in [Roles -> Entries \union {Nothing}]
  /\ bodies \in [Roles -> Versions \union {Nothing}]
  /\ profile \in [environment : Environments, enabled : SUBSET Roles]
  /\ \A r \in Roles : catalog[r] # Nothing =>
       (catalog[r].kind = "override") = (r \in Builtins)

(* Once a command has run to its end the files of the current environment  *)
(* are those of the enabled roles, with the text and the body of now, and  *)
(* no file of another role is left, whatever died before that command.     *)
WorkspaceFollowsProfile ==
  rendered => workspace[profile.environment] = ExpectedWorkspace
=============================================================================
