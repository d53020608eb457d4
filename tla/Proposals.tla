----------------------------- MODULE Proposals -----------------------------
(***************************************************************************)
(* Runtime proposals: memory/application/proposals.py, with their rows in    *)
(* shared/system_store/proposal_store.py.                                    *)
(*                                                                         *)
(* A session that works on a claimed item publishes what it wants to change; *)
(* `proposals apply` looks at the binding, at the readiness of the item, for *)
(* three types at the revision, then performs the operation in a transaction *)
(* of its own and at last writes the verdict over the whole row.  Every read *)
(* and write below is a connection of its own, so appliers interleave, and   *)
(* one of them may die anywhere.                                             *)
(***************************************************************************)
EXTENDS Naturals, FiniteSets

CONSTANTS ProposalIds,    \* proposals that may be published
          Types,          \* the proposal types in use
          Appliers,       \* processes that run `proposals apply`
          Absent,         \* no proposal row, no row in hand
          MaxBranch       \* bound: the branch revision

Prechecked == {"runtime_step_update", "artifact_update", "semantic_cleanup"}
AllTypes == Prechecked \cup {"plan_change", "semantic_update"}
ProposalRow == [type : AllTypes, base : Nat,
                status : {"pending", "conflict", "applied", "rejected"}]
ASSUME TypesAssumption == Types \subseteq AllTypes
ASSUME BoundAssumption == MaxBranch \in Nat
ASSUME AbsentAssumption == Absent \notin ProposalIds /\ Absent \notin ProposalRow

VARIABLES
  proposals,   \* runtime_proposals
  bound,       \* the session still holds the claim the proposals were made under
  ready,       \* the item is neither blocked nor waits for another one
  branch,      \* the branch revision
  changed,     \* the last revision that touched what a type writes
  applier,     \* where each applier is
  direct,      \* a direct command that passed guard_direct_runtime_write
  tookEffect,  \* history: the revisions at which a proposal was performed
  contested    \* history: proposals in the hands of two appliers, or of a dead one

proposalVars == <<proposals, bound, ready, branch, changed, applier, direct,
                  tookEffect, contested>>

IdleApplier == [at |-> "idle", id |-> Absent, row |-> Absent, loaded |-> 0,
                verdict |-> Absent]

ProposalInit ==
  /\ proposals = [p \in ProposalIds |-> Absent]
  /\ bound = TRUE /\ ready = TRUE
  /\ branch = 0 /\ changed = [t \in AllTypes |-> 0]
  /\ applier = [a \in Appliers |-> IdleApplier]
  /\ direct = FALSE
  /\ tookEffect = [p \in ProposalIds |-> {}]
  /\ contested = {}

(***************************************************************************)
(* The session, its item and the direct commands                            *)
(***************************************************************************)
\* base_revision is whatever the caller says it has seen.
Publish(p, type, base) ==
  /\ proposals[p] = Absent
  /\ bound
  /\ proposals' = [proposals EXCEPT ![p] = [type |-> type, base |-> base, status |-> "pending"]]
  /\ UNCHANGED <<bound, ready, branch, changed, applier, direct, tookEffect,
                 contested>>

\* claim, release, abandon, takeover; and the tasks this one depends on.
BindingChanges ==
  /\ bound' = ~bound
  /\ UNCHANGED <<proposals, ready, branch, changed, applier, direct, tookEffect,
                 contested>>

ReadinessChanges ==
  /\ ready' = ~ready
  /\ UNCHANGED <<proposals, bound, branch, changed, applier, direct, tookEffect,
                 contested>>

\* The guard reads the claim; the command commits later, claimed or not.
GuardDirect ==
  /\ ~bound /\ ~direct
  /\ direct' = TRUE
  /\ UNCHANGED <<proposals, bound, ready, branch, changed, applier, tookEffect,
                 contested>>

CommitDirect(type) ==
  /\ direct /\ branch < MaxBranch
  /\ direct' = FALSE
  /\ branch' = branch + 1
  /\ changed' = [changed EXCEPT ![type] = branch + 1]
  /\ UNCHANGED <<proposals, bound, ready, applier, tookEffect, contested>>

(***************************************************************************)
(* apply                                                                    *)
(***************************************************************************)
Open(p) == proposals[p] # Absent /\ proposals[p].status \in {"pending", "conflict"}

Load(a, p) ==
  /\ applier[a].at = "idle" /\ Open(p)
  /\ applier' = [applier EXCEPT ![a] =
                   [IdleApplier EXCEPT !.at = "loaded", !.id = p, !.row = proposals[p]]]
  /\ contested' = IF \E b \in Appliers : applier[b].id = p
                  THEN contested \cup {p} ELSE contested
  /\ UNCHANGED <<proposals, bound, ready, branch, changed, direct, tookEffect>>

CheckStep(a, from, ok, to, otherwise) ==
  /\ applier[a].at = from
  /\ applier' = IF ok THEN [applier EXCEPT ![a].at = to]
                ELSE [applier EXCEPT ![a].at = "judged", ![a].verdict = otherwise]
  /\ UNCHANGED <<proposals, bound, ready, branch, changed, direct, tookEffect,
                 contested>>

CheckOwnership(a) == CheckStep(a, "loaded", bound, "owned", "rejected")
CheckReadiness(a) == CheckStep(a, "owned", ready, "ready", "rejected")

RevisionHolds(row) == row.type \in Prechecked => row.base = branch
CheckRevision(a) ==
  CheckStep(a, "ready", RevisionHolds(applier[a].row), "checked", "conflict")

\* The operation loads the state it plans from, after the check above.
BeginOperation(a) ==
  /\ applier[a].at = "checked"
  /\ applier' = [applier EXCEPT ![a].at = "planned", ![a].loaded = branch]
  /\ UNCHANGED <<proposals, bound, ready, branch, changed, direct, tookEffect,
                 contested>>

\* Cleanup insists on its base revision.  The others ask their detector, which
\* compares the state loaded by BeginOperation - not the base - with today's.
DetectedByScope(me) ==
  /\ branch # me.row.base
  /\ IF me.row.type = "artifact_update" THEN branch # me.loaded
     ELSE changed[me.row.type] > me.loaded
Detected(me) ==
  IF me.row.type = "semantic_cleanup" THEN branch # me.row.base
  ELSE DetectedByScope(me)

Judge(a, verdict) ==
  applier' = [applier EXCEPT ![a].at = "judged", ![a].verdict = verdict]

OperationConflicts(a) ==
  /\ applier[a].at = "planned" /\ Detected(applier[a])
  /\ Judge(a, "conflict")
  /\ UNCHANGED <<proposals, bound, ready, branch, changed, direct, tookEffect,
                 contested>>

\* The operation's own validation, or a lease that another writer holds.
OperationRefused(a, verdict) ==
  /\ applier[a].at = "planned" /\ applier[a].row.type # "artifact_update"
  /\ Judge(a, verdict)
  /\ UNCHANGED <<proposals, bound, ready, branch, changed, direct, tookEffect,
                 contested>>

RejectedThough(verdict) == "rejected"
Verdict(verdict) == verdict

OperationCommits(a) ==
  LET me == applier[a] IN
  /\ me.at = "planned" /\ ~Detected(me)
  /\ branch < MaxBranch
  /\ branch' = branch + 1
  /\ changed' = [changed EXCEPT ![me.row.type] = branch + 1]
  /\ tookEffect' = [tookEffect EXCEPT ![me.id] = @ \cup {branch}]
  /\ Judge(a, Verdict("applied"))
  /\ UNCHANGED <<proposals, bound, ready, direct, contested>>

\* The row read by Load comes back whole, with the verdict in it; the event
\* appended after it is read by nobody.
WriteVerdict(a) ==
  LET me == applier[a] IN
  /\ me.at = "judged"
  /\ proposals' = [proposals EXCEPT ![me.id] = [me.row EXCEPT !.status = me.verdict]]
  /\ applier' = [applier EXCEPT ![a] = IdleApplier]
  /\ UNCHANGED <<bound, ready, branch, changed, direct, tookEffect, contested>>

ApplierDies(a) ==
  /\ applier[a].at # "idle"
  /\ applier' = [applier EXCEPT ![a] = IdleApplier]
  /\ contested' = contested \cup {applier[a].id}
  /\ UNCHANGED <<proposals, bound, ready, branch, changed, direct, tookEffect>>

ProposalNext ==
  \/ \E p \in ProposalIds, t \in Types, base \in 0..branch : Publish(p, t, base)
  \/ BindingChanges \/ ReadinessChanges \/ GuardDirect
  \/ \E t \in Types : CommitDirect(t)
  \/ \E a \in Appliers :
       \/ \E p \in ProposalIds : Load(a, p)
       \/ CheckOwnership(a) \/ CheckReadiness(a) \/ CheckRevision(a)
       \/ BeginOperation(a) \/ OperationConflicts(a) \/ OperationCommits(a)
       \/ \E v \in {"rejected", "conflict"} : OperationRefused(a, v)
       \/ WriteVerdict(a) \/ ApplierDies(a)

ProposalSpec == ProposalInit /\ [][ProposalNext]_proposalVars

(***************************************************************************)
(* Properties                                                               *)
(***************************************************************************)
Recording(p) ==
  \E a \in Appliers : /\ applier[a].id = p /\ applier[a].at = "judged"
                      /\ applier[a].verdict = "applied"

\* The status of a proposal tells whether its operation was performed, unless
\* two appliers had it at once or one died with it: `applied` is never written
\* for nothing, and a performed operation never ends as rejected or open
\* (proposals.py:283-325).
StatusTellsEffect ==
  \A p \in ProposalIds \ contested : proposals[p] # Absent =>
    (tookEffect[p] # {} <=> proposals[p].status = "applied" \/ Recording(p))

\* Whatever the interleaving and the crashes, a cleanup is performed at the
\* revision it was published against and at most once (semantic_cleanup.py:360).
CleanupIsFresh ==
  \A p \in ProposalIds : proposals[p] # Absent /\ proposals[p].type = "semantic_cleanup" =>
    tookEffect[p] \subseteq {proposals[p].base}

ProposalTypeOK ==
  /\ \A p \in ProposalIds : proposals[p] = Absent \/
       proposals[p] \in [type : Types, base : 0..MaxBranch,
                    status : {"pending", "conflict", "applied", "rejected"}]
  /\ branch \in 0..MaxBranch /\ changed \in [AllTypes -> 0..MaxBranch]
  /\ bound \in BOOLEAN /\ ready \in BOOLEAN /\ direct \in BOOLEAN
  /\ contested \subseteq ProposalIds
=============================================================================
