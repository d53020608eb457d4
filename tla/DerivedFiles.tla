---------------------------- MODULE DerivedFiles ----------------------------
(* The files the program derives from what it stores, one kind at a time:    *)
(* the bundle of a change transaction, the files of an agent environment,    *)
(* what the branches show of the policies, the Markdown views of a branch.   *)
(* `part` names the one that moves; the others stay as they begin.           *)
EXTENDS ChangeBundles, AgentProfiles, ProjectRules, GeneratedViews

VARIABLE part

derivedVars == <<part, changeVars, agentVars, ruleVars, viewVars>>

DerivedInit ==
  /\ part \in {"changes", "agents", "rules", "views"}
  /\ ChangeInit /\ (part # "changes" => checkedOut)
  /\ AgentInit /\ (part # "agents" => profile.environment = CHOOSE e \in Environments : TRUE)
  /\ RuleInit
  /\ ViewsInit

DerivedNext ==
  /\ UNCHANGED part
  /\ \/ /\ part = "changes" /\ ChangeNext
        /\ UNCHANGED <<agentVars, ruleVars, viewVars>>
     \/ /\ part = "agents" /\ AgentNext
        /\ UNCHANGED <<changeVars, ruleVars, viewVars>>
     \/ /\ part = "rules" /\ RuleNext
        /\ UNCHANGED <<changeVars, agentVars, viewVars>>
     \/ /\ part = "views" /\ ViewsNext
        /\ UNCHANGED <<changeVars, agentVars, ruleVars>>

DerivedSpec == DerivedInit /\ [][DerivedNext]_derivedVars

-----------------------------------------------------------------------------
\* Every kind of derived files, and what it is derived from, is of its type.
DerivedTypeOK == ChangeTypeOK /\ AgentTypeOK /\ RuleTypeOK /\ ViewsTypeOK

\* What is derived agrees with what it is derived from once a command has run
\* to its end: the bundle of a change applied on the branch git is on verifies
\* (change/*.py), the files of the environment are those of its profile
\* (agents/*.py), the branches the refresh visits show the policies in force
\* (policy/*.py), and a consolidation satisfies the check of the views
\* (projection/materialize.py against shared/validation_views.py).
DerivedFilesFollow ==
  /\ AppliedBundleVerifies
  /\ WorkspaceFollowsProfile
  /\ PolicyViewsFollow
  /\ ViewsPassTheirCheck
=============================================================================
