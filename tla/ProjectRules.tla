---------------------------- MODULE ProjectRules ----------------------------
(***************************************************************************)
(* The project's policies (features/policy) and the gates of a branch that *)
(* read them (features/gates): the policy state with its log of proposals, *)
(* the database snapshot, policy.md and the branch views rendered from     *)
(* them, the waivers of a branch with their proposals, and the evaluation  *)
(* of the gates of a review.  One command runs at a time and may die       *)
(* between any two of its writes.                                          *)
(***************************************************************************)
EXTENDS Naturals, Sequences, FiniteSets

CONSTANTS Rules,          \* ids of policies that are not built in
          PolicyIds,      \* ids of policy and of waiver proposals
          TopLevel,       \* branches whose directory lies in .madspec itself
          Nested,         \* branches with a `/` in their name, such as feature/x
          Unset,
          MaxPolicyRows,  \* bound: rows of the policy log
          MaxWaivers      \* bound: waivers of the branch

VARIABLES policies,      \* policy/state.json: [rule -> policy or Unset]
          policyLog,     \* policy/proposals.jsonl
          published,     \* policy.md and the snapshot in the database
          policyViews,   \* [branch -> what its project-context.md shows]
          waivers,       \* gates/state.json: keys of waived gates, in order
          requests,      \* gates/proposals.jsonl: [id -> request or Unset]
          ruleCommand,   \* the running command and its next write
          policySettled  \* no apply of a policy was cut short

policyVars == <<policies, policyLog, published, policyViews, policySettled>>
gateVars == <<waivers, requests>>
ruleVars == <<policyVars, gateVars, ruleCommand>>

RuleAtRest == [name |-> "none"]

(***************************************************************************)
(* Policies.  A payload asks for a type of rule, or for "other"; only a    *)
(* rule of a supported type can be required, everything else is normalised *)
(* to an advisory guideline, which has none.                               *)
(***************************************************************************)
RuleTypes == {"code_steps_require_required_tdd",
              "non_code_steps_forbid_required_tdd",
              "non_required_tdd_requires_waived_phase",
              "completed_code_steps_require_tdd_evidence"}
Payloads == [kind : {"rule", "guideline"}, enforcement : {"required", "advisory"},
             rule : RuleTypes \union {"other"}]
Normalized(payload) ==
  IF payload.kind = "rule" /\ payload.rule \in RuleTypes
    THEN [status |-> "active", enforcement |-> payload.enforcement,
          rule |-> payload.rule]
    ELSE [status |-> "active", enforcement |-> "advisory", rule |-> Unset]
Policies == [status : {"active", "deprecated"},
             enforcement : {"required", "advisory"},
             rule : RuleTypes \union {Unset}]

(* The rows of a proposal collapse to its latest one. *)
PolicyRows(id) == {i \in 1..Len(policyLog) : policyLog[i].id = id}
FindPolicy(id) ==
  policyLog[CHOOSE i \in PolicyRows(id) : \A j \in PolicyRows(id) : j <= i]

(* The built-in policies are read-only and put back by every normalisation,*)
(* so only the others are state.                                           *)
RuleInit ==
  /\ policies = [r \in Rules |-> Unset]
  /\ policyLog = <<>>
  /\ published = policies
  /\ policyViews = [b \in TopLevel \union Nested |-> policies]
  /\ waivers = <<>>
  /\ requests = [id \in PolicyIds |-> Unset]
  /\ ruleCommand = RuleAtRest
  /\ policySettled = TRUE

(* `policy set` and `policy deprecate` propose and apply in one command.   *)
Proposed(id, rule, action, after, next) ==
  /\ ruleCommand = RuleAtRest
  /\ PolicyRows(id) = {} /\ Len(policyLog) < MaxPolicyRows
  /\ policyLog' = Append(policyLog,
                         [id |-> id, rule |-> rule, action |-> action,
                          after |-> after, status |-> "pending"])
  /\ published' = policies
  /\ ruleCommand' = next
  /\ UNCHANGED <<policies, policyViews, policySettled, gateVars>>

ProposePolicy(id, rule, payload) ==
  Proposed(id, rule, "set", Normalized(payload), RuleAtRest)
SetPolicy(id, rule, payload) ==
  Proposed(id, rule, "set", Normalized(payload), [name |-> "apply", id |-> id])
DeprecatePolicy(id, rule) ==
  /\ policies[rule] # Unset
  /\ Proposed(id, rule, "deprecate", Unset, [name |-> "apply", id |-> id])

(* `set` replaces the policy or adds it, whatever it was proposed against. *)
ChangedPolicy(proposal) ==
  IF proposal.action = "set" THEN proposal.after
  ELSE [policies[proposal.rule] EXCEPT !.status = "deprecated"]

ApplyPolicy(id) ==
  /\ ruleCommand \in {RuleAtRest, [name |-> "apply", id |-> id]}
  /\ PolicyRows(id) # {} /\ Len(policyLog) < MaxPolicyRows
  /\ LET proposal == FindPolicy(id)
     IN /\ proposal.status # "applied"
        /\ proposal.action = "deprecate" => policies[proposal.rule] # Unset
        /\ policies' = [policies EXCEPT ![proposal.rule] = ChangedPolicy(proposal)]
  /\ ruleCommand' = [name |-> "publish", id |-> id]
  /\ policySettled' = FALSE
  /\ UNCHANGED <<policyLog, published, policyViews, gateVars>>

(* save_policy_state goes on to the snapshot and policy.md, then           *)
(* consolidates every directory of .madspec but `system`, taking its name  *)
(* for a branch; only then is the row appended.  The branch feature/x lies *)
(* deeper than the loop looks and keeps the policies it showed.            *)
RefreshNothing == policyViews
RefreshBranches ==
  [b \in DOMAIN policyViews |-> IF b \in TopLevel THEN policies ELSE policyViews[b]]

PublishPolicies ==
  /\ ruleCommand.name = "publish"
  /\ published' = policies
  /\ ruleCommand' = [ruleCommand EXCEPT !.name = "refresh"]
  /\ UNCHANGED <<policies, policyLog, policyViews, policySettled, gateVars>>

RefreshViews ==
  /\ ruleCommand.name = "refresh"
  /\ policyViews' = RefreshBranches
  /\ ruleCommand' = [ruleCommand EXCEPT !.name = "row"]
  /\ UNCHANGED <<policies, policyLog, published, policySettled, gateVars>>

AppendApplied ==
  /\ ruleCommand.name = "row"
  /\ policyLog' = Append(policyLog, [FindPolicy(ruleCommand.id)
                                       EXCEPT !.status = "applied"])
  /\ ruleCommand' = RuleAtRest
  /\ policySettled' = TRUE
  /\ UNCHANGED <<policies, published, policyViews, gateVars>>

(* Every command that reads policies lays them out again: policy.md and    *)
(* the snapshot catch up, the branch views do not: those of a branch do    *)
(* when a command consolidates it, whichever directory it has.             *)
ReadPolicies ==
  /\ ruleCommand = RuleAtRest
  /\ published' = policies
  /\ UNCHANGED <<policies, policyLog, policyViews, policySettled, gateVars, ruleCommand>>

ConsolidateBranch(b) ==
  /\ ruleCommand = RuleAtRest
  /\ published' = policies
  /\ policyViews' = [policyViews EXCEPT ![b] = policies]
  /\ UNCHANGED <<policies, policyLog, policySettled, gateVars, ruleCommand>>

(***************************************************************************)
(* Gates of a review over a step as progress.json has it: "waived" stands  *)
(* for every TDD policy that is not required.  The integrity of the file   *)
(* is judged after its normalisation, the policies judge it as it is.      *)
(***************************************************************************)
Steps == [kind : {"code", "non-code"}, tdd : {"required", "waived"},
          phase : {"open", "waived", "completed"}, completed : BOOLEAN,
          evidence : BOOLEAN]
NormalStep(step) ==
  [step EXCEPT !.phase = IF step.tdd = "waived" THEN "waived" ELSE @]
WrittenSteps == {s \in Steps : NormalStep(s) = s}

Violated(rule, s) ==
  \/ /\ rule = "code_steps_require_required_tdd"
     /\ s.kind = "code" /\ s.tdd # "required"
  \/ /\ rule = "non_code_steps_forbid_required_tdd"
     /\ s.kind = "non-code" /\ s.tdd = "required"
  \/ /\ rule = "non_required_tdd_requires_waived_phase"
     /\ s.tdd = "waived" /\ s.phase # "waived"
  \/ /\ rule = "completed_code_steps_require_tdd_evidence"
     /\ s.kind = "code" /\ s.tdd = "required" /\ s.completed
     /\ s.phase # "completed" \/ ~s.evidence

(* validate_progress has the same demands, on its own account. *)
ValidWithoutEvidence(s) ==
  /\ s.kind = "code" <=> s.tdd = "required"
  /\ s.tdd = "waived" => s.phase = "waived"
ValidStep(s) ==
  /\ s.kind = "code" <=> s.tdd = "required"
  /\ s.tdd = "waived" => s.phase = "waived"
  /\ s.kind = "code" /\ s.tdd = "required" /\ s.completed
       => s.phase = "completed" /\ s.evidence

(* The key has the subject and the message, not the policy's enforcement   *)
(* or revision.                                                            *)
Gate(subject, message, status, blocking, waivable) ==
  [key |-> <<subject, message>>, status |-> status, blocking |-> blocking,
   waivable |-> waivable]

IntegrityGates(step) ==
  IF ValidStep(NormalStep(step)) THEN {}
  ELSE {Gate("progress", "invalid", "failed", TRUE, FALSE)}

(* A guideline is always shown, a rule only where it is violated. *)
PolicyGate(rule, policy) ==
  IF policy.rule = Unset THEN Gate(rule, "advice", "warning", FALSE, TRUE)
  ELSE IF policy.enforcement = "advisory"
    THEN Gate(rule, policy.rule, "warning", FALSE, TRUE)
  ELSE Gate(rule, policy.rule, "failed", TRUE, TRUE)
Shown(policy, step) ==
  /\ policy # Unset /\ policy.status = "active"
  /\ policy.rule = Unset \/ Violated(policy.rule, step)
PolicyGates(step) ==
  {PolicyGate(r, policies[r]) : r \in {x \in Rules : Shown(policies[x], step)}}

RatificationGate(ratified) ==
  IF ratified THEN Gate("review", "ratified", "passed", FALSE, TRUE)
  ELSE Gate("review", "not ratified", "pending", FALSE, TRUE)

AllGates(step, ratified) ==
  IntegrityGates(step) \union PolicyGates(step) \union {RatificationGate(ratified)}

(* Every gate the review of some step may show. *)
ReviewGates ==
  UNION {AllGates(step, ratified) : step \in WrittenSteps, ratified \in BOOLEAN}

Waived(key) == \E i \in 1..Len(waivers) : waivers[i] = key
ApplyWaivers(gates) ==
  {IF Waived(g.key) /\ g.waivable /\ g.status \in {"failed", "warning", "pending"}
     THEN [g EXCEPT !.status = "waived"] ELSE g : g \in gates}

AggregateStatus(gates) ==
  LET has(status) == \E g \in gates : g.status = status
  IN IF \E g \in gates : g.status = "failed" /\ g.blocking THEN "blocked"
     ELSE IF has("pending") THEN "pending"
     ELSE IF has("warning") THEN "warning" ELSE "passed"

ProposeWaiver(id, gate) ==
  /\ ruleCommand = RuleAtRest
  /\ requests[id] = Unset
  /\ gate.waivable
  /\ ~Waived(gate.key)
  /\ \A other \in PolicyIds : requests[other] # [key |-> gate.key, status |-> "pending"]
  /\ requests' = [requests EXCEPT ![id] = [key |-> gate.key, status |-> "pending"]]
  /\ UNCHANGED <<policyVars, waivers, ruleCommand>>

(* The waiver is saved before the proposals file is rewritten. *)
ApplyWaiver(id) ==
  /\ ruleCommand = RuleAtRest
  /\ requests[id] # Unset /\ requests[id].status = "pending"
  /\ Len(waivers) < MaxWaivers
  /\ waivers' = Append(waivers, requests[id].key)
  /\ ruleCommand' = [name |-> "request", id |-> id]
  /\ UNCHANGED <<policyVars, requests>>

RewriteRequests ==
  /\ ruleCommand.name = "request"
  /\ requests' = [requests EXCEPT ![ruleCommand.id].status = "applied"]
  /\ ruleCommand' = RuleAtRest
  /\ UNCHANGED <<policyVars, waivers>>

RuleDies ==
  /\ ruleCommand # RuleAtRest
  /\ ruleCommand' = RuleAtRest
  /\ UNCHANGED <<policyVars, gateVars>>

RuleNext ==
  \/ \E id \in PolicyIds, rule \in Rules :
       \/ \E payload \in Payloads :
            ProposePolicy(id, rule, payload) \/ SetPolicy(id, rule, payload)
       \/ DeprecatePolicy(id, rule)
  \/ \E id \in PolicyIds : ApplyPolicy(id)
  \/ PublishPolicies \/ RefreshViews \/ AppendApplied
  \/ ReadPolicies
  \/ \E b \in TopLevel \union Nested : ConsolidateBranch(b)
  \/ \E gate \in ReviewGates, id \in PolicyIds : ProposeWaiver(id, gate)
  \/ \E id \in PolicyIds : ApplyWaiver(id)
  \/ RewriteRequests
  \/ RuleDies

RuleSpec == RuleInit /\ [][RuleNext]_ruleVars

(***************************************************************************)
(* Properties.                                                             *)
(***************************************************************************)
RuleTypeOK ==
  /\ policies \in [Rules -> Policies \union {Unset}]
  /\ \A id \in PolicyIds : requests[id] # Unset =>
       requests[id].status \in {"pending", "applied"}

(* When no policy command has been cut short, the snapshot, policy.md and  *)
(* the project-context.md of every branch that lies directly in .madspec   *)
(* show the policies in force.  A nested branch shows those in force when  *)
(* it was consolidated last, which nothing bounds.                         *)
PolicyViewsFollow ==
  policySettled =>
    /\ published = policies
    /\ \A b \in TopLevel : policyViews[b] = policies

(* No waiver turns a blocked review into one that passes, whatever state   *)
(* the program left its steps in: where a required policy is violated the  *)
(* integrity of the progress fails too, and that is never waived.          *)
WaiverNeverUnblocks ==
  waivers # <<>> =>
    \A step \in WrittenSteps, ratified \in BOOLEAN :
      LET gates == AllGates(step, ratified)
      IN AggregateStatus(gates) = "blocked"
           => AggregateStatus(ApplyWaivers(gates)) = "blocked"
=============================================================================
