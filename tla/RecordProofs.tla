---------------------------- MODULE RecordProofs ----------------------------
(***************************************************************************)
(* Runtime proposals and the records of a branch, for any number of        *)
(* proposals, types, appliers, records, processes and commands: a cleanup  *)
(* is performed at the revision it was published for, the status of a      *)
(* proposal tells whether its operation was performed, a cleanup takes     *)
(* only what it has loaded, and what it has removed stays removed while    *)
(* the commands keep out of each other's way.                              *)
(***************************************************************************)
EXTENDS Proposals, SemanticKnowledge, TLAPS

-----------------------------------------------------------------------------
(* Proposals.                                                                *)

Verdicts == {"applied", "rejected", "conflict"}

ApplierStates == [at : {"idle", "loaded", "owned", "ready", "checked", "planned", "judged"},
         id : ProposalIds \cup {Absent}, row : ProposalRow \cup {Absent}, loaded : Nat,
         verdict : Verdicts \cup {Absent}]

ProposalShape ==
  /\ proposals \in [ProposalIds -> ProposalRow \cup {Absent}]
  /\ branch \in Nat
  /\ applier \in [Appliers -> ApplierStates]
  /\ tookEffect \in [ProposalIds -> SUBSET Nat]
  /\ contested \subseteq ProposalIds

\* What an applier that is at work has in its hands is a proposal that exists,
\* whose type and base no command changes.
HoldsRow(a) ==
  LET me == applier[a] IN
  /\ me.at = "idle" <=> me.id = Absent
  /\ me.at # "idle" => /\ me.id \in ProposalIds
                       /\ me.row \in ProposalRow /\ proposals[me.id] \in ProposalRow
                       /\ me.row.type = proposals[me.id].type
                       /\ me.row.base = proposals[me.id].base
  /\ me.at = "judged" => me.verdict \in Verdicts

Performed(p) ==
  /\ proposals[p] = Absent => tookEffect[p] = {}
  /\ proposals[p] \in ProposalRow /\ proposals[p].type = "semantic_cleanup" =>
       tookEffect[p] \subseteq {proposals[p].base}

\* An applier that is alone with its proposal since it loaded the row has the
\* row as it is stored, and open.
AloneWith(a, p) ==
  applier[a].id = p =>
    /\ applier[a].row = proposals[p] /\ proposals[p].status \in {"pending", "conflict"}
    /\ \A b \in Appliers : applier[b].id = p => b = a

Told(p) ==
  proposals[p] # Absent =>
    (tookEffect[p] # {} <=> proposals[p].status = "applied" \/ Recording(p))

ProposalInv ==
  /\ ProposalShape
  /\ \A a \in Appliers : HoldsRow(a)
  /\ \A p \in ProposalIds : Performed(p)
  /\ \A p \in ProposalIds \ contested : Told(p) /\ \A a \in Appliers : AloneWith(a, p)

LEMMA ProposalsStart == ProposalInit => ProposalInv
<1> SUFFICES ASSUME ProposalInit PROVE ProposalInv
  OBVIOUS
<1>1. /\ \A a \in Appliers : applier[a] = IdleApplier
      /\ \A p \in ProposalIds : proposals[p] = Absent /\ tookEffect[p] = {}
  BY DEF ProposalInit
<1>2. ProposalShape
  BY DEF ProposalInit, ProposalShape, IdleApplier, ApplierStates
<1>3. \A a \in Appliers : HoldsRow(a)
  BY <1>1 DEF HoldsRow, IdleApplier
<1>4. \A p \in ProposalIds : Performed(p) /\ Told(p) /\ \A a \in Appliers : AloneWith(a, p)
  BY <1>1, AbsentAssumption DEF Performed, Told, AloneWith, IdleApplier
<1> QED
  BY <1>2, <1>3, <1>4 DEF ProposalInv

\* Steps that leave the proposals and the appliers alone.
LEMMA OthersKeep ==
  ASSUME ProposalInv, branch' \in Nat, UNCHANGED <<proposals, applier, tookEffect, contested>>
  PROVE  ProposalInv'
BY DEF ProposalInv, ProposalShape, HoldsRow, Performed, AloneWith, Told, Recording

LEMMA PublishKeeps ==
  ASSUME ProposalInv, NEW p \in ProposalIds, NEW t \in Types, NEW base \in 0..branch,
         Publish(p, t, base)
  PROVE  ProposalInv'
<1>1. proposals' = [proposals EXCEPT ![p] = [type |-> t, base |-> base, status |-> "pending"]]
      /\ proposals[p] = Absent
  BY DEF Publish
<1>2. [type |-> t, base |-> base, status |-> "pending"] \in ProposalRow
  BY TypesAssumption DEF ProposalRow, ProposalInv, ProposalShape
<1>3. UNCHANGED <<bound, ready, branch, changed, applier, direct, tookEffect, contested>>
  BY DEF Publish
<1>4. ProposalShape'
  BY <1>1, <1>2, <1>3 DEF ProposalInv, ProposalShape
<1>5. \A a \in Appliers : applier[a].id # p
  BY <1>1, AbsentAssumption DEF ProposalInv, HoldsRow, ProposalShape
<1>6. \A a \in Appliers : HoldsRow(a)'
  BY <1>1, <1>3, <1>5, AbsentAssumption DEF ProposalInv, HoldsRow, ProposalShape
<1>7. \A q \in ProposalIds : Performed(q)'
  BY <1>1, <1>2, <1>3, AbsentAssumption DEF ProposalInv, Performed, ProposalShape
<1>8. ASSUME NEW q \in ProposalIds \ contested
      PROVE  Told(q)' /\ \A a \in Appliers : AloneWith(a, q)'
  <2>1. CASE q = p
    <3>1. proposals'[q].status = "pending" /\ tookEffect'[q] = {}
      BY <1>1, <1>3, <2>1 DEF ProposalInv, ProposalShape, Performed
    <3>2. \A a \in Appliers : applier'[a].id # q
      BY <1>3, <1>5, <2>1
    <3> QED
      BY <3>1, <3>2 DEF Told, Recording, AloneWith
  <2>2. CASE q # p
    <3>1. proposals'[q] = proposals[q]
      BY <1>1, <2>2 DEF ProposalInv, ProposalShape
    <3> QED
      BY <3>1, <1>3, <1>8 DEF ProposalInv, Told, Recording, AloneWith
  <2> QED
    BY <2>1, <2>2
<1> QED
  BY <1>3, <1>4, <1>6, <1>7, <1>8 DEF ProposalInv

\* A step in which an applier goes on without having performed anything.
LEMMA QuietKeeps ==
  ASSUME ProposalInv, NEW a \in Appliers, NEW me \in ApplierStates,
         applier[a].at \notin {"idle", "judged"},
         applier' = [applier EXCEPT ![a] = me],
         me.id = applier[a].id, me.row = applier[a].row, me.at # "idle",
         me.at = "judged" => me.verdict \in {"rejected", "conflict"},
         UNCHANGED <<proposals, branch, tookEffect, contested>>
  PROVE  ProposalInv'
<1>1. ProposalShape'
  BY DEF ProposalInv, ProposalShape
<1>2. applier'[a] = me /\ \A b \in Appliers \ {a} : applier'[b] = applier[b]
  BY DEF ProposalInv, ProposalShape
<1>3. \A b \in Appliers : HoldsRow(b)'
  BY <1>2 DEF ProposalInv, HoldsRow, Verdicts
<1>4. \A p \in ProposalIds : Performed(p)'
  BY DEF ProposalInv, Performed
<1>5. \A p \in ProposalIds : Recording(p)' <=> Recording(p)
  BY <1>2 DEF Recording
<1>6. \A p \in ProposalIds \ contested : Told(p)' /\ \A b \in Appliers : AloneWith(b, p)'
  BY <1>2, <1>5 DEF ProposalInv, Told, AloneWith
<1> QED
  BY <1>1, <1>3, <1>4, <1>6 DEF ProposalInv

LEMMA JudgedKeeps ==
  ASSUME ProposalInv, NEW a \in Appliers, NEW v \in {"rejected", "conflict"},
         applier[a].at \notin {"idle", "judged"}, Judge(a, v),
         UNCHANGED <<proposals, branch, tookEffect, contested>>
  PROVE  ProposalInv'
<1> DEFINE me == [applier[a] EXCEPT !.at = "judged", !.verdict = v]
<1>1. /\ me \in ApplierStates /\ me.id = applier[a].id /\ me.row = applier[a].row
      /\ me.at = "judged" /\ me.verdict = v
  BY DEF ProposalInv, ProposalShape, ApplierStates, Verdicts
<1>2. applier' = [applier EXCEPT ![a] = me]
  BY DEF Judge
<1> HIDE DEF me
<1> QED
  BY <1>1, <1>2, QuietKeeps

LEMMA WentOnKeeps ==
  ASSUME ProposalInv, NEW a \in Appliers, NEW to \in {"owned", "ready", "checked", "planned"},
         NEW n \in Nat, applier[a].at \notin {"idle", "judged"},
         applier' = [applier EXCEPT ![a] = [applier[a] EXCEPT !.at = to, !.loaded = n]],
         UNCHANGED <<proposals, branch, tookEffect, contested>>
  PROVE  ProposalInv'
<1> DEFINE me == [applier[a] EXCEPT !.at = to, !.loaded = n]
<1>1. /\ me \in ApplierStates /\ me.id = applier[a].id /\ me.row = applier[a].row
      /\ me.at = to
  BY DEF ProposalInv, ProposalShape, ApplierStates
<1>2. applier' = [applier EXCEPT ![a] = me]
  OBVIOUS
<1> HIDE DEF me
<1> QED
  BY <1>1, <1>2, QuietKeeps

\* One of the checks that come before the operation.
LEMMA CheckKeeps ==
  ASSUME ProposalInv, NEW a \in Appliers,
         NEW from \in {"loaded", "owned", "ready"},
         NEW to \in {"owned", "ready", "checked"},
         NEW v \in {"rejected", "conflict"},
         applier[a].at = from,
         \/ applier' = [applier EXCEPT ![a].at = to]
         \/ Judge(a, v),
         UNCHANGED <<proposals, branch, tookEffect, contested>>
  PROVE  ProposalInv'
<1>1. CASE Judge(a, v)
  BY <1>1, JudgedKeeps
<1>2. CASE applier' = [applier EXCEPT ![a].at = to]
  <2>1. applier[a] \in ApplierStates
    BY DEF ProposalInv, ProposalShape
  <2>2. [applier[a] EXCEPT !.at = to]
          = [applier[a] EXCEPT !.at = to, !.loaded = applier[a].loaded]
    BY <2>1 DEF ApplierStates
  <2>3. applier[a].loaded \in Nat
    BY <2>1 DEF ApplierStates
  <2> QED
    BY <1>2, <2>2, <2>3, WentOnKeeps
<1> QED
  BY <1>1, <1>2

LEMMA LoadKeeps ==
  ASSUME ProposalInv, NEW a \in Appliers, NEW p \in ProposalIds, Load(a, p)
  PROVE  ProposalInv'
<1>1. /\ applier[a].id = Absent /\ proposals[p] \in ProposalRow
      /\ proposals[p].status \in {"pending", "conflict"}
      /\ UNCHANGED <<proposals, branch, tookEffect>>
  BY DEF ProposalInv, ProposalShape, HoldsRow, Load, Open
<1>2. /\ applier'[a] = [at |-> "loaded", id |-> p, row |-> proposals[p], loaded |-> 0,
                        verdict |-> Absent]
      /\ \A b \in Appliers \ {a} : applier'[b] = applier[b]
  BY DEF ProposalInv, ProposalShape, Load, IdleApplier
<1>3. /\ contested \subseteq contested' /\ contested' \subseteq ProposalIds
      /\ p \notin contested' => \A b \in Appliers : applier[b].id # p
  BY DEF Load, ProposalInv, ProposalShape
<1>4. ProposalShape'
  <2>1. [at |-> "loaded", id |-> p, row |-> proposals[p], loaded |-> 0,
         verdict |-> Absent] \in ApplierStates
    BY <1>1 DEF ApplierStates
  <2>2. applier' \in [Appliers -> ApplierStates]
    BY <2>1 DEF Load, IdleApplier, ProposalInv, ProposalShape
  <2> QED
    BY <1>1, <1>3, <2>2 DEF ProposalInv, ProposalShape
<1>5. \A b \in Appliers : HoldsRow(b)'
  BY <1>1, <1>2, AbsentAssumption DEF ProposalInv, HoldsRow
<1>6. \A q \in ProposalIds : Performed(q)'
  BY <1>1 DEF ProposalInv, Performed
<1>7. \A q \in ProposalIds : Recording(q)' <=> Recording(q)
  BY <1>1, <1>2, AbsentAssumption DEF Recording
<1>8. ASSUME NEW q \in ProposalIds \ contested'
      PROVE  Told(q)' /\ \A b \in Appliers : AloneWith(b, q)'
  <2>1. Told(q)'
    BY <1>1, <1>3, <1>7 DEF ProposalInv, Told
  <2>2. CASE q = p
    BY <1>1, <1>2, <1>3, <2>1, <2>2 DEF AloneWith
  <2>3. CASE q # p
    BY <1>1, <1>2, <1>3, <2>1, <2>3 DEF AloneWith, ProposalInv
  <2> QED
    BY <2>2, <2>3
<1> QED
  BY <1>4, <1>5, <1>6, <1>8 DEF ProposalInv

LEMMA OperationKeeps ==
  ASSUME ProposalInv, NEW a \in Appliers, OperationCommits(a)
  PROVE  ProposalInv'
<1>0. PICK p \in ProposalIds : applier[a].id = p
  BY DEF ProposalInv, HoldsRow, OperationCommits
<1>1. /\ applier[a].at = "planned" /\ applier[a].row \in ProposalRow
      /\ proposals[p] \in ProposalRow /\ applier[a].row.type = proposals[p].type
      /\ applier[a].row.base = proposals[p].base
      /\ UNCHANGED <<proposals, contested>>
  BY <1>0 DEF ProposalInv, HoldsRow, OperationCommits
<1>2. /\ applier'[a].id = p /\ applier'[a].row = applier[a].row
      /\ applier'[a].at = "judged" /\ applier'[a].verdict = "applied"
      /\ applier'[a] \in ApplierStates
      /\ \A b \in Appliers \ {a} : applier'[b] = applier[b]
  BY <1>0 DEF ProposalInv, ProposalShape, OperationCommits, Judge, Verdict, ApplierStates, Verdicts
<1>3. /\ tookEffect'[p] = tookEffect[p] \cup {branch}
      /\ \A q \in ProposalIds \ {p} : tookEffect'[q] = tookEffect[q]
      /\ branch \in Nat /\ branch' = branch + 1
  BY <1>0 DEF ProposalInv, ProposalShape, OperationCommits
<1>4. ProposalShape'
  <2>1. applier' \in [Appliers -> ApplierStates]
    BY <1>2 DEF ProposalInv, ProposalShape, OperationCommits, Judge
  <2>2. tookEffect' \in [ProposalIds -> SUBSET Nat]
    BY <1>3 DEF ProposalInv, ProposalShape, OperationCommits
  <2> QED
    BY <1>1, <1>3, <2>1, <2>2 DEF ProposalInv, ProposalShape
<1>5. \A b \in Appliers : HoldsRow(b)'
  <2>1. HoldsRow(a)'
    BY <1>1, <1>2, AbsentAssumption DEF HoldsRow, Verdicts
  <2>2. ASSUME NEW b \in Appliers \ {a} PROVE HoldsRow(b)'
    BY <1>1, <1>2, <2>2 DEF ProposalInv, HoldsRow
  <2> QED
    BY <2>1, <2>2
<1>6. \A q \in ProposalIds : Performed(q)'
  <2>1. ASSUME proposals[p].type = "semantic_cleanup"
        PROVE  branch = proposals[p].base
    BY <1>1, <2>1 DEF OperationCommits, Detected
  <2>2. proposals[p] # Absent
    BY <1>1, AbsentAssumption
  <2>3. Performed(p)'
    BY <1>1, <1>3, <2>1, <2>2 DEF ProposalInv, Performed
  <2>4. ASSUME NEW q \in ProposalIds \ {p} PROVE Performed(q)'
    BY <1>1, <1>3, <2>4 DEF ProposalInv, Performed
  <2> QED
    BY <2>3, <2>4
<1>7. ASSUME NEW q \in ProposalIds \ contested'
      PROVE  Told(q)' /\ \A b \in Appliers : AloneWith(b, q)'
  <2>1. \A b \in Appliers : AloneWith(b, q)'
    BY <1>0, <1>1, <1>2, <1>7 DEF ProposalInv, AloneWith
  <2>2. CASE q = p
    <3>1. Recording(p)' /\ tookEffect'[p] # {}
      BY <1>2, <1>3 DEF Recording
    <3> QED
      BY <2>1, <2>2, <3>1 DEF Told
  <2>3. CASE q # p
    <3>1. Recording(q)' <=> Recording(q)
      BY <1>0, <1>1, <1>2, <2>3 DEF Recording
    <3> QED
      BY <1>1, <1>3, <1>7, <2>1, <2>3, <3>1 DEF ProposalInv, Told
  <2> QED
    BY <2>2, <2>3
<1> QED
  BY <1>4, <1>5, <1>6, <1>7 DEF ProposalInv

LEMMA VerdictKeeps ==
  ASSUME ProposalInv, NEW a \in Appliers, WriteVerdict(a)
  PROVE  ProposalInv'
<1> DEFINE row == [applier[a].row EXCEPT !.status = applier[a].verdict]
<1>0. PICK p \in ProposalIds : applier[a].id = p
  BY DEF ProposalInv, HoldsRow, WriteVerdict
<1>1. /\ applier[a].at = "judged" /\ applier[a].row \in ProposalRow
      /\ proposals[p] \in ProposalRow /\ applier[a].row.type = proposals[p].type
      /\ applier[a].row.base = proposals[p].base /\ applier[a].verdict \in Verdicts
      /\ UNCHANGED <<branch, tookEffect, contested>>
  BY <1>0 DEF ProposalInv, HoldsRow, WriteVerdict
<1>2. /\ row \in ProposalRow /\ row.type = proposals[p].type /\ row.base = proposals[p].base
      /\ row.status = applier[a].verdict
  BY <1>1 DEF ProposalRow, Verdicts
<1>3. /\ proposals'[p] = row /\ \A q \in ProposalIds \ {p} : proposals'[q] = proposals[q]
      /\ proposals' \in [ProposalIds -> ProposalRow \cup {Absent}]
  BY <1>0, <1>1, <1>2 DEF ProposalInv, ProposalShape, WriteVerdict
<1>4. /\ applier'[a] = IdleApplier /\ \A b \in Appliers \ {a} : applier'[b] = applier[b]
      /\ applier' \in [Appliers -> ApplierStates]
  BY DEF ProposalInv, ProposalShape, WriteVerdict, IdleApplier, ApplierStates
<1>5. ProposalShape'
  BY <1>1, <1>3, <1>4 DEF ProposalInv, ProposalShape
<1>6. \A b \in Appliers : HoldsRow(b)'
  <2>1. HoldsRow(a)'
    BY <1>4 DEF HoldsRow, IdleApplier
  <2>2. ASSUME NEW b \in Appliers \ {a} PROVE HoldsRow(b)'
    <3>1. \A q \in ProposalIds : proposals[q] \in ProposalRow =>
            /\ proposals'[q] \in ProposalRow
            /\ proposals'[q].type = proposals[q].type /\ proposals'[q].base = proposals[q].base
      BY <1>2, <1>3
    <3> QED
      BY <1>4, <2>2, <3>1 DEF ProposalInv, HoldsRow
  <2> QED
    BY <2>1, <2>2
<1>7. \A q \in ProposalIds : Performed(q)'
  <2>1. ASSUME NEW q \in ProposalIds
        PROVE  /\ proposals'[q] = Absent => proposals[q] = Absent
               /\ proposals'[q] \in ProposalRow =>
                    /\ proposals[q] \in ProposalRow /\ proposals[q].type = proposals'[q].type
                    /\ proposals[q].base = proposals'[q].base
    BY <1>1, <1>2, <1>3, AbsentAssumption
  <2> QED
    BY <1>1, <2>1 DEF ProposalInv, Performed
<1>8. ASSUME NEW q \in ProposalIds \ contested'
      PROVE  Told(q)' /\ \A b \in Appliers : AloneWith(b, q)'
  <2>1. CASE q = p
    <3>1. /\ proposals[p].status \in {"pending", "conflict"}
          /\ \A b \in Appliers : applier[b].id = p => b = a
          /\ tookEffect[p] # {} <=> proposals[p].status = "applied" \/ Recording(p)
      BY <1>0, <1>1, <1>8, <2>1, AbsentAssumption DEF ProposalInv, AloneWith, Told
    <3>2. Recording(p) <=> applier[a].verdict = "applied"
      BY <1>0, <1>1, <3>1 DEF Recording
    <3>3. \A b \in Appliers : applier'[b].id # p
      BY <1>1, <1>4, <3>1, AbsentAssumption DEF IdleApplier
    <3> QED
      BY <1>1, <1>2, <1>3, <2>1, <3>1, <3>2, <3>3 DEF Told, Recording, AloneWith
  <2>2. CASE q # p
    <3>1. \A b \in Appliers : AloneWith(b, q)'
      BY <1>1, <1>3, <1>4, <1>8, <2>2, AbsentAssumption DEF ProposalInv, AloneWith, IdleApplier
    <3>2. Recording(q)' <=> Recording(q)
      BY <1>0, <1>1, <1>4, <2>2, AbsentAssumption DEF Recording, IdleApplier
    <3> QED
      BY <1>1, <1>3, <1>8, <2>2, <3>1, <3>2 DEF ProposalInv, Told
  <2> QED
    BY <2>1, <2>2
<1> QED
  BY <1>5, <1>6, <1>7, <1>8 DEF ProposalInv

LEMMA DieKeeps ==
  ASSUME ProposalInv, NEW a \in Appliers, ApplierDies(a)
  PROVE  ProposalInv'
<1>1. /\ applier[a].id \in ProposalIds /\ UNCHANGED <<proposals, branch, tookEffect>>
      /\ contested' = contested \cup {applier[a].id}
  BY DEF ProposalInv, HoldsRow, ApplierDies
<1>2. /\ applier'[a] = IdleApplier /\ \A b \in Appliers \ {a} : applier'[b] = applier[b]
      /\ applier' \in [Appliers -> ApplierStates]
  BY DEF ProposalInv, ProposalShape, ApplierDies, IdleApplier, ApplierStates
<1>3. ProposalShape'
  BY <1>1, <1>2 DEF ProposalInv, ProposalShape
<1>4. \A b \in Appliers : HoldsRow(b)'
  BY <1>1, <1>2 DEF ProposalInv, HoldsRow, IdleApplier
<1>5. \A q \in ProposalIds : Performed(q)'
  BY <1>1 DEF ProposalInv, Performed
<1>6. ASSUME NEW q \in ProposalIds \ contested'
      PROVE  Told(q)' /\ \A b \in Appliers : AloneWith(b, q)'
  <2>1. q \notin contested /\ q # applier[a].id
    BY <1>1, <1>6
  <2>2. Recording(q)' <=> Recording(q)
    BY <1>2, <2>1, AbsentAssumption DEF Recording, IdleApplier
  <2> QED
    BY <1>1, <1>2, <2>1, <2>2, AbsentAssumption DEF ProposalInv, Told, AloneWith, IdleApplier
<1> QED
  BY <1>3, <1>4, <1>5, <1>6 DEF ProposalInv

LEMMA ProposalStepsKeep == ProposalInv /\ [ProposalNext]_proposalVars => ProposalInv'
<1> SUFFICES ASSUME ProposalInv, [ProposalNext]_proposalVars PROVE ProposalInv'
  OBVIOUS
<1>1. branch \in Nat
  BY DEF ProposalInv, ProposalShape
<1>2. CASE UNCHANGED proposalVars
  BY <1>1, <1>2, OthersKeep DEF proposalVars
<1>3. CASE BindingChanges \/ ReadinessChanges \/ GuardDirect
  BY <1>1, <1>3, OthersKeep DEF BindingChanges, ReadinessChanges, GuardDirect
<1>4. CASE \E t \in Types : CommitDirect(t)
  BY <1>1, <1>4, OthersKeep DEF CommitDirect
<1>5. CASE \E p \in ProposalIds, t \in Types, base \in 0..branch : Publish(p, t, base)
  BY <1>5, PublishKeeps
<1>6. ASSUME NEW a \in Appliers,
             \/ CheckOwnership(a) \/ CheckReadiness(a) \/ CheckRevision(a)
             \/ BeginOperation(a) \/ OperationConflicts(a)
             \/ \E v \in {"rejected", "conflict"} : OperationRefused(a, v)
      PROVE  ProposalInv'
  <2>2. UNCHANGED <<proposals, branch, tookEffect, contested>>
    BY <1>6 DEF CheckOwnership, CheckReadiness, CheckRevision, CheckStep,
                BeginOperation, OperationConflicts, OperationRefused
  <2>3. CASE CheckOwnership(a)
    BY <2>2, <2>3, CheckKeeps DEF CheckOwnership, CheckStep, Judge
  <2>4. CASE CheckReadiness(a)
    BY <2>2, <2>4, CheckKeeps DEF CheckReadiness, CheckStep, Judge
  <2>5. CASE CheckRevision(a)
    BY <2>2, <2>5, CheckKeeps DEF CheckRevision, CheckStep, Judge
  <2>6. CASE BeginOperation(a)
    BY <1>1, <2>2, <2>6, WentOnKeeps DEF BeginOperation
  <2>7. CASE OperationConflicts(a)
    BY <2>2, <2>7, JudgedKeeps DEF OperationConflicts
  <2>8. CASE \E v \in {"rejected", "conflict"} : OperationRefused(a, v)
    BY <2>2, <2>8, JudgedKeeps DEF OperationRefused
  <2> QED
    BY <1>6, <2>3, <2>4, <2>5, <2>6, <2>7, <2>8
<1>7. CASE \E a \in Appliers : \/ \E p \in ProposalIds : Load(a, p)
                               \/ OperationCommits(a) \/ WriteVerdict(a) \/ ApplierDies(a)
  BY <1>7, LoadKeeps, OperationKeeps, VerdictKeeps, DieKeeps
<1> QED
  BY <1>2, <1>3, <1>4, <1>5, <1>6, <1>7 DEF ProposalNext

LEMMA ProposalInvHolds == ProposalSpec => []ProposalInv
  BY ProposalsStart, ProposalStepsKeep, PTL DEF ProposalSpec

\* Whatever the number of appliers, their interleaving and their crashes, a
\* cleanup is performed at the revision it was published against and at most
\* once (proposals.py:247-283, semantic_cleanup.py:360).
THEOREM CleanupsAreFresh == ProposalSpec => []CleanupIsFresh
<1>1. ProposalInv => CleanupIsFresh
  BY DEF ProposalInv, ProposalShape, Performed, CleanupIsFresh
<1> QED
  BY <1>1, ProposalInvHolds, PTL

\* The status of a proposal that one applier at a time had in its hands tells
\* whether its operation was performed (proposals.py:283-325).
THEOREM StatusIsTrue == ProposalSpec => []StatusTellsEffect
<1>1. ProposalInv => StatusTellsEffect
  BY DEF ProposalInv, Told, StatusTellsEffect
<1> QED
  BY <1>1, ProposalInvHolds, PTL

\* A proposal keeps its type and its base, which no command takes from beyond
\* the revisions there have been.
LEMMA ProposalTypesStep ==
  ASSUME ProposalInv, ProposalTypeOK, [ProposalNext]_proposalVars
  PROVE  ProposalTypeOK'
<1>0. /\ branch \in 0..MaxBranch /\ MaxBranch \in Nat /\ contested' \subseteq ProposalIds
      /\ Types \subseteq AllTypes
  BY ProposalStepsKeep, BoundAssumption, TypesAssumption DEF ProposalTypeOK, ProposalInv, ProposalShape
<1>1. CASE UNCHANGED <<proposals, branch, changed>> /\ bound' \in BOOLEAN /\ ready' \in BOOLEAN
           /\ direct' \in BOOLEAN
  BY <1>0, <1>1 DEF ProposalTypeOK
<1>2. CASE UNCHANGED proposalVars
  BY <1>1, <1>2 DEF proposalVars, ProposalTypeOK
<1>3. CASE BindingChanges \/ ReadinessChanges \/ GuardDirect
  BY <1>1, <1>3 DEF BindingChanges, ReadinessChanges, GuardDirect, ProposalTypeOK
<1>4. ASSUME NEW t \in Types, CommitDirect(t) PROVE ProposalTypeOK'
  <2>1. /\ branch < MaxBranch /\ branch' = branch + 1 /\ changed' = [changed EXCEPT ![t] = branch + 1]
        /\ direct' = FALSE /\ UNCHANGED <<proposals, bound, ready>>
    BY <1>4 DEF CommitDirect
  <2>2. branch' \in 0..MaxBranch
    BY <1>0, <2>1
  <2>3. changed' \in [AllTypes -> 0..MaxBranch]
    BY <2>1, <2>2 DEF ProposalTypeOK
  <2> QED
    BY <1>0, <2>1, <2>2, <2>3 DEF ProposalTypeOK
<1>5. ASSUME NEW p \in ProposalIds, NEW t \in Types, NEW base \in 0..branch, Publish(p, t, base)
      PROVE  ProposalTypeOK'
  <2> DEFINE r == [type |-> t, base |-> base, status |-> "pending"]
             Typed == [type : Types, base : 0..MaxBranch,
                       status : {"pending", "conflict", "applied", "rejected"}]
  <2>1. proposals' = [proposals EXCEPT ![p] = r] /\ UNCHANGED <<bound, ready, branch, changed, direct>>
    BY <1>5 DEF Publish
  <2>2. base \in 0..MaxBranch
    BY <1>0
  <2>3. r \in Typed
    BY <2>2
  <2>4. \A q \in ProposalIds : proposals'[q] = Absent \/ proposals'[q] \in Typed
    BY <2>1, <2>3 DEF ProposalTypeOK, ProposalInv, ProposalShape
  <2> QED
    BY <1>0, <2>1, <2>4 DEF ProposalTypeOK
<1>6. ASSUME NEW a \in Appliers,
             \/ \E p \in ProposalIds : Load(a, p)
             \/ CheckOwnership(a) \/ CheckReadiness(a) \/ CheckRevision(a)
             \/ BeginOperation(a) \/ OperationConflicts(a)
             \/ \E v \in {"rejected", "conflict"} : OperationRefused(a, v)
             \/ ApplierDies(a)
      PROVE  ProposalTypeOK'
  <2>1. UNCHANGED <<proposals, bound, ready, branch, changed, direct>>
    BY <1>6 DEF Load, CheckOwnership, CheckReadiness, CheckRevision, CheckStep, BeginOperation,
                OperationConflicts, OperationRefused, ApplierDies
  <2> QED
    BY <1>1, <2>1 DEF ProposalTypeOK
<1>7. ASSUME NEW a \in Appliers, OperationCommits(a) PROVE ProposalTypeOK'
  <2>1. PICK t : t = applier[a].row.type
    OBVIOUS
  <2>2. /\ branch < MaxBranch /\ branch' = branch + 1 /\ changed' = [changed EXCEPT ![t] = branch + 1]
        /\ UNCHANGED <<proposals, bound, ready, direct>>
    BY <1>7, <2>1 DEF OperationCommits
  <2>3. branch' \in 0..MaxBranch
    BY <1>0, <2>2
  <2>4. changed' \in [AllTypes -> 0..MaxBranch]
    BY <2>2, <2>3 DEF ProposalTypeOK
  <2> QED
    BY <1>0, <2>2, <2>3, <2>4 DEF ProposalTypeOK
<1>8. ASSUME NEW a \in Appliers, WriteVerdict(a) PROVE ProposalTypeOK'
  <2> DEFINE Typed == [type : Types, base : 0..MaxBranch,
                       status : {"pending", "conflict", "applied", "rejected"}]
  <2>1. PICK me : me = applier[a]
    OBVIOUS
  <2>2. /\ me.at = "judged" /\ proposals' = [proposals EXCEPT ![me.id] = [me.row EXCEPT !.status = me.verdict]]
        /\ UNCHANGED <<bound, ready, branch, changed, direct>>
    BY <1>8, <2>1 DEF WriteVerdict
  <2>3. /\ me.id \in ProposalIds /\ me.row \in ProposalRow /\ proposals[me.id] \in ProposalRow
        /\ me.row.type = proposals[me.id].type /\ me.row.base = proposals[me.id].base
        /\ me.verdict \in Verdicts
    BY <2>1, <2>2 DEF ProposalInv, HoldsRow
  <2>4. proposals[me.id] \in Typed
    BY <2>3, AbsentAssumption DEF ProposalTypeOK
  <2>5. [me.row EXCEPT !.status = me.verdict] \in Typed
    BY <2>3, <2>4 DEF ProposalRow, Verdicts
  <2>6. \A q \in ProposalIds : proposals'[q] = Absent \/ proposals'[q] \in Typed
    BY <2>2, <2>5 DEF ProposalTypeOK, ProposalInv, ProposalShape
  <2> QED
    BY <1>0, <2>2, <2>6 DEF ProposalTypeOK
<1> QED
  BY <1>2, <1>3, <1>4, <1>5, <1>6, <1>7, <1>8 DEF ProposalNext

\* A proposal is of a type in use and was published for a revision there has
\* been, whoever judges it (shared/system_store/proposal_store.py).
THEOREM ProposalTypesHold == ProposalSpec => []ProposalTypeOK
<1>1. ProposalInit => ProposalTypeOK
  <2> SUFFICES ASSUME ProposalInit PROVE ProposalTypeOK
    OBVIOUS
  <2>1. 0 \in 0..MaxBranch
    BY BoundAssumption
  <2>2. changed \in [AllTypes -> 0..MaxBranch] /\ branch \in 0..MaxBranch
    BY <2>1 DEF ProposalInit
  <2>3. /\ \A p \in ProposalIds : proposals[p] = Absent
        /\ bound = TRUE /\ ready = TRUE /\ direct = FALSE /\ contested = {}
    BY DEF ProposalInit
  <2> QED
    BY <2>2, <2>3 DEF ProposalTypeOK
<1> QED
  BY <1>1, ProposalTypesStep, ProposalInvHolds, PTL DEF ProposalSpec

-----------------------------------------------------------------------------
(* Records.                                                                  *)

Table == [Ids -> Record \cup {Nothing}]

WorkerPhases == {"idle", "refresh", "write", "sync log", "sync events", "sync facts",
           "loaded", "commit"}

WorkerStates == [at : WorkerPhases, seen : SUBSET Ids, keep : SUBSET Ids,
         loaded : Table \cup {Nothing}, expected : Nat \cup {Nothing}]

KnowledgeShape ==
  /\ rows \in Table
  /\ files \in [Streams -> Table]
  /\ revision \in Nat
  /\ worker \in [Workers -> WorkerStates]
  /\ used \subseteq Ids
  /\ disturbed \in BOOLEAN

Under(table, ids) == \A i \in Ids : table[i] # Nothing => i \in ids

\* Nothing is stored, in a file or in somebody's hands but under an id that a
\* command has taken; what a cleanup keeps is what it has loaded.
Hands(w) ==
  LET me == worker[w] IN
  /\ me.seen \subseteq used
  /\ me.at \in {"write", "loaded", "commit"} =>
       me.loaded \in Table /\ Under(me.loaded, used)
  /\ me.at \in {"loaded", "commit"} => \A i \in me.keep : i \in used /\ me.loaded[i] \in Record

KnownIds ==
  /\ gone \subseteq used
  /\ Under(rows, used)
  /\ \A s \in Streams : Under(files[s], used)
  /\ \A w \in Workers : Hands(w)

OthersIdle(w) == \A v \in Workers \ {w} : worker[v].at = "idle"
Refreshing == \E w \in Workers : worker[w].at \in {"refresh", "write"}

\* While no two commands have overlapped and none was cut short, a removed
\* record is nowhere but in the files the cleanup is about to write again.
Clean ==
  /\ \A w \in Workers : worker[w].at # "idle" => OthersIdle(w)
  /\ \A i \in gone : rows[i] = Nothing
  /\ ~Refreshing => \A s \in Streams, i \in gone : files[s][i] = Nothing
  /\ \A w \in Workers :
       /\ worker[w].at = "write" => worker[w].loaded = rows
       /\ worker[w].at \in {"loaded", "commit"} => worker[w].keep \cap gone = {}

KnowledgeInv == KnowledgeShape /\ KnownIds /\ (disturbed = FALSE => Clean)

LEMMA KnowledgeStarts == KnowledgeInit => KnowledgeInv
<1> SUFFICES ASSUME KnowledgeInit PROVE KnowledgeInv
  OBVIOUS
<1>1. \A w \in Workers : worker[w] = Idle
  BY DEF KnowledgeInit
<1>2. KnowledgeShape
  BY DEF KnowledgeInit, KnowledgeShape, Idle, WorkerStates, Table, WorkerPhases
<1>3. KnownIds
  BY <1>1 DEF KnowledgeInit, KnownIds, Under, Hands, Idle
<1>4. Clean
  BY <1>1 DEF KnowledgeInit, Clean, OthersIdle, Idle
<1> QED
  BY <1>2, <1>3, <1>4 DEF KnowledgeInv

\* A process puts down what it had in hand, or takes up the next thing.
LEMMA HandMoves ==
  ASSUME KnowledgeShape, NEW w \in Workers, NEW me \in WorkerStates,
         worker' = [worker EXCEPT ![w] = me]
  PROVE  /\ worker' \in [Workers -> WorkerStates]
         /\ worker'[w] = me
         /\ \A v \in Workers \ {w} : worker'[v] = worker[v]
  BY DEF KnowledgeShape

\* A command that starts undisturbed finds everybody idle and the files clean.
LEMMA StartsClean ==
  ASSUME KnowledgeInv, NEW w \in Workers, NEW me, Start(w, me), disturbed' = FALSE
  PROVE  /\ disturbed = FALSE
         /\ \A v \in Workers : worker[v].at = "idle"
         /\ \A i \in gone : rows[i] = Nothing
         /\ \A s \in Streams, i \in gone : files[s][i] = Nothing
  BY DEF KnowledgeInv, KnowledgeShape, Start, Clean, Refreshing

LEMMA CommitRecordKeeps ==
  ASSUME KnowledgeInv, NEW w \in Workers, NEW i \in Ids, NEW s \in Streams,
         NEW k \in {"fact", Nothing}, CommitRecord(w, i, s, k)
  PROVE  KnowledgeInv'
<1> DEFINE me == [Idle EXCEPT !.at = "refresh"]
           row == [tag |-> s, kind |-> k, status |-> "validated"]
<1>1. /\ Start(w, me) /\ i \notin used /\ used' = used \cup {i}
      /\ rows' = [rows EXCEPT ![i] = row] /\ revision' = revision + 1
      /\ UNCHANGED <<files, gone>>
  BY DEF CommitRecord
<1>2. row \in Record /\ me \in WorkerStates /\ me.at = "refresh" /\ me.seen = {}
  BY DEF Record, WorkerStates, Idle, WorkerPhases
<1> HIDE DEF me, row
<1>3. /\ worker' \in [Workers -> WorkerStates] /\ worker'[w] = me
      /\ \A v \in Workers \ {w} : worker'[v] = worker[v]
  BY <1>1, <1>2, HandMoves DEF Start, KnowledgeInv
<1>4. KnowledgeShape'
  BY <1>1, <1>2, <1>3 DEF KnowledgeInv, KnowledgeShape, Table, Start
<1>5. KnownIds'
  <2>1. Under(rows, used)' /\ \A t \in Streams : Under(files[t], used)'
    BY <1>1 DEF KnowledgeInv, KnowledgeShape, Table, KnownIds, Under
  <2>2. \A v \in Workers : Hands(v)'
    BY <1>1, <1>2, <1>3 DEF KnowledgeInv, KnownIds, Hands, Under
  <2> QED
    BY <1>1, <2>1, <2>2 DEF KnowledgeInv, KnownIds
<1>6. ASSUME disturbed' = FALSE PROVE Clean'
  <2>1. /\ \A v \in Workers : worker[v].at = "idle"
        /\ \A j \in gone : rows[j] = Nothing
    BY <1>1, <1>6, StartsClean
  <2>2. \A j \in gone : rows'[j] = Nothing
    BY <1>1, <2>1 DEF KnowledgeInv, KnownIds, KnowledgeShape, Table
  <2> QED
    BY <1>1, <1>2, <1>3, <2>1, <2>2 DEF Clean, OthersIdle, Refreshing
<1> QED
  BY <1>4, <1>5, <1>6 DEF KnowledgeInv

LEMMA FilesKeep ==
  ASSUME KnowledgeInv, NEW w \in Workers, LoadForFiles(w) \/ WriteFiles(w)
  PROVE  KnowledgeInv'
<1>1. CASE LoadForFiles(w)
  <2> DEFINE me == [worker[w] EXCEPT !.at = "write", !.loaded = rows]
  <2>1. /\ me \in WorkerStates /\ me.at = "write" /\ me.loaded = rows
        /\ me.seen = worker[w].seen
    BY DEF KnowledgeInv, KnowledgeShape, WorkerStates, WorkerPhases
  <2>2. /\ worker[w].at = "refresh" /\ worker' = [worker EXCEPT ![w] = me]
        /\ UNCHANGED <<rows, files, revision, used, gone, disturbed>>
    BY <1>1 DEF LoadForFiles
  <2> HIDE DEF me
  <2>3. /\ worker' \in [Workers -> WorkerStates] /\ worker'[w] = me
        /\ \A v \in Workers \ {w} : worker'[v] = worker[v]
    BY <2>1, <2>2, HandMoves DEF KnowledgeInv
  <2>4. KnowledgeShape' /\ KnownIds'
    BY <2>1, <2>2, <2>3 DEF KnowledgeInv, KnowledgeShape, KnownIds, Hands, Under
  <2>5. ASSUME disturbed' = FALSE PROVE Clean'
    BY <2>1, <2>2, <2>3, <2>5 DEF KnowledgeInv, Clean, OthersIdle, Refreshing
  <2> QED
    BY <2>4, <2>5 DEF KnowledgeInv
<1>2. CASE WriteFiles(w)
  <2>1. /\ worker[w].at = "write" /\ worker' = [worker EXCEPT ![w] = Idle]
        /\ files' = Projection(worker[w].loaded)
        /\ UNCHANGED <<rows, revision, used, gone, disturbed>>
    BY <1>2 DEF WriteFiles, Written
  <2>2. Idle \in WorkerStates /\ Idle.at = "idle" /\ Idle.seen = {}
    BY DEF Idle, WorkerStates, WorkerPhases
  <2>3. /\ worker' \in [Workers -> WorkerStates] /\ worker'[w] = Idle
        /\ \A v \in Workers \ {w} : worker'[v] = worker[v]
    BY <2>1, <2>2, HandMoves DEF KnowledgeInv
  <2>4. worker[w].loaded \in Table /\ Under(worker[w].loaded, used)
    BY <2>1 DEF KnowledgeInv, KnownIds, Hands
  <2>5. /\ files' \in [Streams -> Table]
        /\ \A s \in Streams, i \in Ids :
             files'[s][i] \in {worker[w].loaded[i], Nothing}
    BY <2>1, <2>4 DEF Projection, Table
  <2>6. \A s \in Streams : Under(files'[s], used)
    BY <2>4, <2>5 DEF Under
  <2>7. KnowledgeShape' /\ KnownIds'
    BY <2>1, <2>2, <2>3, <2>5, <2>6 DEF KnowledgeInv, KnowledgeShape, KnownIds, Hands
  <2>8. ASSUME disturbed' = FALSE PROVE Clean'
    <3>1. Clean /\ worker[w].loaded = rows /\ OthersIdle(w)
      BY <2>1, <2>8 DEF KnowledgeInv, Clean
    <3>2. \A s \in Streams, i \in gone : files'[s][i] = Nothing
      BY <2>5, <3>1 DEF Clean, KnowledgeInv, KnownIds, KnowledgeShape
    <3> QED
      BY <2>1, <2>2, <2>3, <3>1, <3>2 DEF Clean, OthersIdle
  <2> QED
    BY <2>7, <2>8 DEF KnowledgeInv
<1> QED
  BY <1>1, <1>2

\* A command that is cut short, and a refresh that fails.
LEMMA EndKeeps ==
  ASSUME KnowledgeInv, NEW w \in Workers, RefreshFails(w) \/ Die(w)
  PROVE  KnowledgeInv'
<1>1. /\ worker' = [worker EXCEPT ![w] = Idle] /\ disturbed' = TRUE
      /\ UNCHANGED <<rows, files, revision, used, gone>>
  BY DEF RefreshFails, Die
<1>2. Idle \in WorkerStates /\ Idle.at = "idle" /\ Idle.seen = {}
  BY DEF Idle, WorkerStates, WorkerPhases
<1>3. /\ worker' \in [Workers -> WorkerStates] /\ worker'[w] = Idle
      /\ \A v \in Workers \ {w} : worker'[v] = worker[v]
  BY <1>1, <1>2, HandMoves DEF KnowledgeInv
<1> QED
  BY <1>1, <1>2, <1>3 DEF KnowledgeInv, KnowledgeShape, KnownIds, Hands

LEMMA LearnKeeps ==
  ASSUME KnowledgeInv, NEW w \in Workers, NEW i \in Ids, NEW k \in {"fact", Nothing},
         NEW st \in {"validated", "proposed"}, NEW c \in BOOLEAN,
         Learn(w, i, k, st, c)
  PROVE  KnowledgeInv'
<1> DEFINE me == [Idle EXCEPT !.at = "sync log"]
           line == [tag |-> Nothing, kind |-> k, status |-> st]
<1>1. /\ Start(w, me) /\ i \notin used /\ used' = used \cup {i}
      /\ files' = [files EXCEPT
           !["events"][i] = line,
           !["decision_log"][i] = IF c THEN [line EXCEPT !.kind = "fact"] ELSE @]
      /\ UNCHANGED <<rows, revision, gone>>
  BY DEF Learn
<1>2. /\ line \in Record /\ [line EXCEPT !.kind = "fact"] \in Record
      /\ me \in WorkerStates /\ me.at = "sync log" /\ me.seen = {}
  BY DEF Record, WorkerStates, Idle, WorkerPhases
<1> HIDE DEF me, line
<1>3. /\ worker' \in [Workers -> WorkerStates] /\ worker'[w] = me
      /\ \A v \in Workers \ {w} : worker'[v] = worker[v]
  BY <1>1, <1>2, HandMoves DEF Start, KnowledgeInv
<1>4. /\ files' \in [Streams -> Table]
      /\ \A s \in Streams, j \in Ids \ {i} : files'[s][j] = files[s][j]
  BY <1>1, <1>2 DEF KnowledgeInv, KnowledgeShape, Table, Streams
<1>5. KnowledgeShape'
  BY <1>1, <1>3, <1>4 DEF KnowledgeInv, KnowledgeShape, Start
<1>6. KnownIds'
  <2>1. Under(rows, used)' /\ \A t \in Streams : Under(files'[t], used')
    BY <1>1, <1>4 DEF KnowledgeInv, KnownIds, Under
  <2>2. \A v \in Workers : Hands(v)'
    BY <1>1, <1>2, <1>3 DEF KnowledgeInv, KnownIds, Hands, Under
  <2> QED
    BY <1>1, <2>1, <2>2 DEF KnowledgeInv, KnownIds
<1>7. ASSUME disturbed' = FALSE PROVE Clean'
  <2>1. /\ \A v \in Workers : worker[v].at = "idle"
        /\ \A j \in gone : rows[j] = Nothing
        /\ \A s \in Streams, j \in gone : files[s][j] = Nothing
    BY <1>1, <1>7, StartsClean
  <2>2. \A s \in Streams, j \in gone : files'[s][j] = Nothing
    BY <1>1, <1>4, <2>1 DEF KnowledgeInv, KnownIds, KnowledgeShape
  <2> QED
    BY <1>1, <1>2, <1>3, <2>1, <2>2 DEF Clean, OthersIdle
<1> QED
  BY <1>5, <1>6, <1>7 DEF KnowledgeInv

\* learn writes new lines; promote copies lines, none of which is a removed
\* record's while the files are clean; a sync alone writes nothing yet.
LEMMA CopyKeeps ==
  ASSUME KnowledgeInv, NEW w \in Workers, Promote(w) \/ SyncOnly(w)
  PROVE  KnowledgeInv'
<1> DEFINE me == [Idle EXCEPT !.at = "sync log"]
<1>1. Start(w, me) /\ UNCHANGED <<rows, revision, used, gone>>
  BY DEF Promote, SyncOnly
<1>2. me \in WorkerStates /\ me.at = "sync log" /\ me.seen = {}
  BY DEF WorkerStates, Idle, WorkerPhases
<1> HIDE DEF me
<1>3. /\ worker' \in [Workers -> WorkerStates] /\ worker'[w] = me
      /\ \A v \in Workers \ {w} : worker'[v] = worker[v]
  BY <1>1, <1>2, HandMoves DEF Start, KnowledgeInv
<1>4. /\ files' \in [Streams -> Table]
      /\ \A s \in Streams, i \in Ids : \E t \in Streams : files'[s][i] = files[t][i]
  <2>1. CASE SyncOnly(w)
    BY <2>1 DEF SyncOnly, KnowledgeInv, KnowledgeShape
  <2>2. CASE Promote(w)
    <3>1. files' = [files EXCEPT !["facts"] =
             [i \in Ids |-> IF i \in Candidates THEN Validated(i)
                            ELSE files["facts"][i]]]
      BY <2>2 DEF Promote
    <3>2. \A i \in Ids : Validated(i) \in {files["decision_log"][i], files["events"][i]}
      BY DEF Validated
    <3> QED
      BY <3>1, <3>2 DEF KnowledgeInv, KnowledgeShape, Streams, Table
  <2> QED
    BY <2>1, <2>2
<1>5. KnowledgeShape'
  BY <1>1, <1>3, <1>4 DEF KnowledgeInv, KnowledgeShape, Start
<1>6. KnownIds'
  <2>1. \A s \in Streams : Under(files'[s], used)
    BY <1>4 DEF KnowledgeInv, KnownIds, Under
  <2> QED
    BY <1>1, <1>2, <1>3, <2>1 DEF KnowledgeInv, KnownIds, Hands
<1>7. ASSUME disturbed' = FALSE PROVE Clean'
  <2>1. /\ \A v \in Workers : worker[v].at = "idle"
        /\ \A j \in gone : rows[j] = Nothing
        /\ \A s \in Streams, j \in gone : files[s][j] = Nothing
    BY <1>1, <1>7, StartsClean
  <2>2. \A s \in Streams, j \in gone : files'[s][j] = Nothing
    BY <1>4, <2>1 DEF KnowledgeInv, KnownIds, KnowledgeShape
  <2> QED
    BY <1>1, <1>2, <1>3, <2>1, <2>2 DEF Clean, OthersIdle
<1> QED
  BY <1>5, <1>6, <1>7 DEF KnowledgeInv

LEMMA SyncFileKeeps ==
  ASSUME KnowledgeInv, NEW w \in Workers, NEW s \in Streams,
         NEW from \in {"sync log", "sync events", "sync facts"},
         NEW to \in {"sync events", "sync facts", "idle"},
         SyncFile(w, from, s, to)
  PROVE  KnowledgeInv'
<1>1. PICK me \in WorkerStates : /\ worker' = [worker EXCEPT ![w] = me]
                                 /\ me.at = to /\ me.seen \subseteq worker[w].seen
  <2>1. CASE to = "idle"
    <3>1. Idle \in WorkerStates /\ Idle.at = "idle" /\ Idle.seen = {}
      BY DEF Idle, WorkerStates, WorkerPhases
    <3> QED
      BY <2>1, <3>1 DEF SyncFile
  <2>2. CASE to # "idle"
    <3> DEFINE me == [worker[w] EXCEPT !.at = to]
    <3>1. me \in WorkerStates /\ me.at = to /\ me.seen = worker[w].seen
      BY DEF KnowledgeInv, KnowledgeShape, WorkerStates, WorkerPhases
    <3>2. worker' = [worker EXCEPT ![w] = me]
      BY <2>2 DEF SyncFile, Go
    <3> QED
      BY <3>1, <3>2
  <2> QED
    BY <2>1, <2>2
<1>2. /\ worker' \in [Workers -> WorkerStates] /\ worker'[w] = me
      /\ \A v \in Workers \ {w} : worker'[v] = worker[v]
  BY <1>1, HandMoves DEF KnowledgeInv
<1>3. /\ worker[w].at = from
      /\ rows' = [i \in Ids |-> IF files[s][i] # Nothing THEN files[s][i] ELSE rows[i]]
      /\ UNCHANGED <<files, revision, used, gone, disturbed>>
  BY DEF SyncFile
<1>4. KnowledgeShape'
  BY <1>2, <1>3 DEF KnowledgeInv, KnowledgeShape, Table
<1>5. KnownIds'
  <2>1. Under(rows', used)
    BY <1>3 DEF KnowledgeInv, KnownIds, Under
  <2>2. \A v \in Workers : Hands(v)'
    BY <1>1, <1>2, <1>3 DEF KnowledgeInv, KnownIds, Hands
  <2> QED
    BY <1>3, <2>1, <2>2 DEF KnowledgeInv, KnownIds
<1>6. ASSUME disturbed' = FALSE PROVE Clean'
  <2>1. Clean /\ OthersIdle(w) /\ ~Refreshing
    BY <1>3, <1>6 DEF KnowledgeInv, Clean, OthersIdle, Refreshing
  <2>2. \A i \in gone : rows'[i] = Nothing
    BY <1>3, <2>1 DEF Clean, KnowledgeInv, KnownIds, KnowledgeShape
  <2> QED
    BY <1>1, <1>2, <1>3, <2>1, <2>2 DEF Clean, OthersIdle
<1> QED
  BY <1>4, <1>5, <1>6 DEF KnowledgeInv

LEMMA BeginKeeps ==
  ASSUME KnowledgeInv, NEW w \in Workers, NEW keep \in SUBSET Ids,
         NEW expected \in {revision, Nothing}, BeginCleanup(w, keep, expected)
  PROVE  KnowledgeInv'
<1> DEFINE me == [Idle EXCEPT !.at = "loaded", !.seen = Semantic, !.keep = keep,
                              !.loaded = rows, !.expected = expected]
<1>1. /\ Start(w, me) /\ keep \subseteq Semantic
      /\ UNCHANGED <<rows, files, revision, used, gone>>
  BY DEF BeginCleanup
<1>2. /\ me \in WorkerStates /\ me.at = "loaded" /\ me.seen = Semantic /\ me.keep = keep
      /\ me.loaded = rows
  BY DEF KnowledgeInv, KnowledgeShape, WorkerStates, Idle, WorkerPhases, Semantic
<1>3. /\ Semantic \subseteq used
      /\ \A i \in Semantic : rows[i] # Nothing /\ rows[i] \in Record
  BY DEF Semantic, KnowledgeInv, KnowledgeShape, Table, KnownIds, Under
<1> HIDE DEF me
<1>4. /\ worker' \in [Workers -> WorkerStates] /\ worker'[w] = me
      /\ \A v \in Workers \ {w} : worker'[v] = worker[v]
  BY <1>1, <1>2, HandMoves DEF Start, KnowledgeInv
<1>5. KnowledgeShape'
  BY <1>1, <1>4 DEF KnowledgeInv, KnowledgeShape, Start
<1>6. KnownIds'
  <2>1. \A v \in Workers : Hands(v)'
    BY <1>1, <1>2, <1>3, <1>4 DEF KnowledgeInv, KnowledgeShape, KnownIds, Hands, Under
  <2> QED
    BY <1>1, <2>1 DEF KnowledgeInv, KnownIds, Under
<1>7. ASSUME disturbed' = FALSE PROVE Clean'
  <2>1. /\ \A v \in Workers : worker[v].at = "idle"
        /\ \A j \in gone : rows[j] = Nothing
        /\ \A s \in Streams, j \in gone : files[s][j] = Nothing
    BY <1>1, <1>7, StartsClean
  <2>2. keep \cap gone = {}
    BY <1>1, <1>3, <2>1
  <2> QED
    BY <1>1, <1>2, <1>4, <2>1, <2>2 DEF Clean, OthersIdle
<1> QED
  BY <1>5, <1>6, <1>7 DEF KnowledgeInv

LEMMA ReadRevisionKeeps ==
  ASSUME KnowledgeInv, NEW w \in Workers, ReadRevision(w)
  PROVE  KnowledgeInv'
<1> DEFINE now == IF worker[w].expected = Nothing THEN revision ELSE worker[w].expected
           me == [worker[w] EXCEPT !.at = "commit", !.expected = now]
<1>1. /\ me \in WorkerStates /\ me.at = "commit" /\ me.seen = worker[w].seen
      /\ me.keep = worker[w].keep /\ me.loaded = worker[w].loaded
  BY DEF KnowledgeInv, KnowledgeShape, WorkerStates, WorkerPhases
<1>2. /\ worker[w].at = "loaded" /\ worker' = [worker EXCEPT ![w] = me]
      /\ UNCHANGED <<rows, files, revision, used, gone, disturbed>>
  BY DEF ReadRevision
<1> HIDE DEF me
<1>3. /\ worker' \in [Workers -> WorkerStates] /\ worker'[w] = me
      /\ \A v \in Workers \ {w} : worker'[v] = worker[v]
  BY <1>1, <1>2, HandMoves DEF KnowledgeInv
<1>4. KnowledgeShape' /\ KnownIds'
  BY <1>1, <1>2, <1>3 DEF KnowledgeInv, KnowledgeShape, KnownIds, Hands
<1>5. ASSUME disturbed' = FALSE PROVE Clean'
  BY <1>1, <1>2, <1>3, <1>5 DEF KnowledgeInv, Clean, OthersIdle, Refreshing
<1> QED
  BY <1>4, <1>5 DEF KnowledgeInv

\* What a commit of a cleanup makes of a row: it deletes what it has loaded and
\* does not keep, and writes the rest back as a row.
LEMMA CommitRows ==
  ASSUME KnowledgeInv, NEW w \in Workers, CommitCleanup(w), revision = worker[w].expected
  PROVE  /\ rows' \in Table
         /\ \A i \in Ids :
              \/ i \in Removed(worker[w]) /\ rows'[i] = Nothing
              \/ i \in worker[w].keep /\ rows'[i] \in Record
              \/ i \notin Removed(worker[w]) /\ rows'[i] = rows[i]
<1> DEFINE me == worker[w]
<1>1. /\ me.at = "commit"
      /\ rows' = [i \in Ids |->
             IF i \in Removed(me) THEN Nothing
             ELSE IF i \in me.keep THEN [me.loaded[i] EXCEPT !.tag = "facts"]
             ELSE rows[i]]
  BY DEF CommitCleanup
<1>2. \A i \in me.keep : [me.loaded[i] EXCEPT !.tag = "facts"] \in Record
  BY <1>1 DEF KnowledgeInv, KnownIds, Hands, Record, Streams
<1>3. ASSUME NEW i \in Ids
      PROVE  /\ rows'[i] \in Record \cup {Nothing}
             /\ \/ i \in Removed(me) /\ rows'[i] = Nothing
                \/ i \in me.keep /\ rows'[i] \in Record
                \/ i \notin Removed(me) /\ rows'[i] = rows[i]
  <2>1. rows[i] \in Record \cup {Nothing}
    BY DEF KnowledgeInv, KnowledgeShape, Table
  <2>2. rows'[i] = IF i \in Removed(me) THEN Nothing
                   ELSE IF i \in me.keep THEN [me.loaded[i] EXCEPT !.tag = "facts"]
                   ELSE rows[i]
    BY <1>1
  <2> QED
    BY <1>2, <2>1, <2>2
<1> QED
  BY <1>1, <1>3 DEF Table

LEMMA CleanupKeeps ==
  ASSUME KnowledgeInv, NEW w \in Workers, CommitCleanup(w)
  PROVE  KnowledgeInv'
<1>1. CASE revision # worker[w].expected
  <2>1. /\ worker[w].at = "commit" /\ worker' = [worker EXCEPT ![w] = Idle]
        /\ UNCHANGED <<rows, files, revision, used, gone, disturbed>>
    BY <1>1 DEF CommitCleanup
  <2>2. Idle \in WorkerStates /\ Idle.at = "idle" /\ Idle.seen = {}
    BY DEF Idle, WorkerStates, WorkerPhases
  <2>3. /\ worker' \in [Workers -> WorkerStates] /\ worker'[w] = Idle
        /\ \A v \in Workers \ {w} : worker'[v] = worker[v]
    BY <2>1, <2>2, HandMoves DEF KnowledgeInv
  <2>4. KnowledgeShape' /\ KnownIds'
    BY <2>1, <2>2, <2>3 DEF KnowledgeInv, KnowledgeShape, KnownIds, Hands
  <2>5. ASSUME disturbed' = FALSE PROVE Clean'
    <3>1. Clean /\ OthersIdle(w) /\ ~Refreshing
      BY <2>1, <2>5 DEF KnowledgeInv, Clean, OthersIdle, Refreshing
    <3> QED
      BY <2>1, <2>2, <2>3, <3>1 DEF Clean, OthersIdle
  <2> QED
    BY <2>4, <2>5 DEF KnowledgeInv
<1>2. CASE revision = worker[w].expected
  <2> DEFINE me == [worker[w] EXCEPT !.at = "refresh"]
             out == Removed(worker[w])
  <2>1. /\ worker[w].at = "commit" /\ worker' = [worker EXCEPT ![w] = me]
        /\ gone' = gone \cup out /\ revision' = revision + 1
        /\ UNCHANGED <<files, used, disturbed>>
    BY <1>2 DEF CommitCleanup, Go
  <2>2. me \in WorkerStates /\ me.at = "refresh" /\ me.seen = worker[w].seen
    BY DEF KnowledgeInv, KnowledgeShape, WorkerStates, WorkerPhases
  <2>3. out \subseteq used /\ out \cap worker[w].keep = {}
    BY DEF Removed, KnowledgeInv, KnownIds, Hands
  <2>4. /\ rows' \in Table
        /\ \A i \in Ids : \/ i \in out /\ rows'[i] = Nothing
                          \/ i \in worker[w].keep /\ rows'[i] \in Record
                          \/ i \notin out /\ rows'[i] = rows[i]
    BY <1>2, CommitRows
  <2>5. worker[w].keep \subseteq used
    BY <2>1 DEF KnowledgeInv, KnownIds, Hands
  <2> HIDE DEF me, out
  <2>6. /\ worker' \in [Workers -> WorkerStates] /\ worker'[w] = me
        /\ \A v \in Workers \ {w} : worker'[v] = worker[v]
    BY <2>1, <2>2, HandMoves DEF KnowledgeInv
  <2>7. KnowledgeShape'
    BY <2>1, <2>4, <2>6 DEF KnowledgeInv, KnowledgeShape
  <2>8. KnownIds'
    <3>1. Under(rows', used)
      BY <2>4, <2>5 DEF KnowledgeInv, KnownIds, Under
    <3>2. \A v \in Workers : Hands(v)'
      BY <2>1, <2>2, <2>6 DEF KnowledgeInv, KnownIds, Hands
    <3> QED
      BY <2>1, <2>3, <3>1, <3>2 DEF KnowledgeInv, KnownIds
  <2>9. ASSUME disturbed' = FALSE PROVE Clean'
    <3>1. Clean /\ OthersIdle(w) /\ worker[w].keep \cap gone = {}
      BY <2>1, <2>9 DEF KnowledgeInv, Clean
    <3>2. \A i \in gone' : rows'[i] = Nothing
      <4>1. ASSUME NEW i \in gone, i \notin out PROVE rows'[i] = Nothing
        BY <2>4, <3>1, <4>1 DEF Clean, KnowledgeInv, KnownIds, KnowledgeShape
      <4>2. ASSUME NEW i \in out PROVE rows'[i] = Nothing
        BY <2>3, <2>4, <4>2 DEF KnowledgeInv, KnowledgeShape
      <4> QED
        BY <2>1, <4>1, <4>2
    <3> QED
      BY <2>1, <2>2, <2>6, <3>1, <3>2 DEF Clean, OthersIdle, Refreshing
  <2> QED
    BY <2>7, <2>8, <2>9 DEF KnowledgeInv
<1> QED
  BY <1>1, <1>2

LEMMA KnowledgeStepsKeep == KnowledgeInv /\ [KnowledgeNext]_knowledgeVars => KnowledgeInv'
<1> SUFFICES ASSUME KnowledgeInv, [KnowledgeNext]_knowledgeVars PROVE KnowledgeInv'
  OBVIOUS
<1>1. CASE UNCHANGED knowledgeVars
  BY <1>1 DEF knowledgeVars, KnowledgeInv, KnowledgeShape, KnownIds, Under, Hands, Clean, OthersIdle,
              Refreshing
<1>2. ASSUME NEW w \in Workers,
             \/ \E i \in Ids, s \in Streams, k \in {"fact", Nothing} :
                  CommitRecord(w, i, s, k)
             \/ \E i \in Ids, k \in {"fact", Nothing},
                   st \in {"validated", "proposed"}, c \in BOOLEAN :
                  Learn(w, i, k, st, c)
             \/ Promote(w) \/ SyncOnly(w)
      PROVE  KnowledgeInv'
  BY <1>2, CommitRecordKeeps, LearnKeeps, CopyKeeps
<1>3. ASSUME NEW w \in Workers, Sync(w) PROVE KnowledgeInv'
  BY <1>3, SyncFileKeeps DEF Sync, Streams
<1>4. ASSUME NEW w \in Workers,
             \E keep \in SUBSET Ids, expected \in {revision, Nothing} :
               BeginCleanup(w, keep, expected)
      PROVE  KnowledgeInv'
  BY <1>4, BeginKeeps
<1>5. ASSUME NEW w \in Workers,
             \/ LoadForFiles(w) \/ WriteFiles(w) \/ RefreshFails(w) \/ Die(w)
             \/ ReadRevision(w) \/ CommitCleanup(w)
      PROVE  KnowledgeInv'
  BY <1>5, FilesKeep, EndKeeps, ReadRevisionKeeps, CleanupKeeps
<1> QED
  BY <1>1, <1>2, <1>3, <1>4, <1>5 DEF KnowledgeNext

LEMMA KnowledgeInvHolds == KnowledgeSpec => []KnowledgeInv
  BY KnowledgeStarts, KnowledgeStepsKeep, PTL DEF KnowledgeSpec

\* A record removed by a cleanup never comes back, through any sequence of
\* commits, learning, promotion and syncs, as long as no two commands overlap,
\* none dies and every refresh succeeds (application/branch_state.py:22 takes
\* the word of files that only a refresh has brought up to date).
THEOREM RemovedStays == KnowledgeSpec => []RemovedStaysRemoved
<1>1. KnowledgeInv => RemovedStaysRemoved
  BY DEF KnowledgeInv, KnowledgeShape, Clean, RemovedStaysRemoved
<1> QED
  BY <1>1, KnowledgeInvHolds, PTL

\* A cleanup removes only what it has loaded, and no other command removes a
\* record at all (semantic_cleanup.py:376), whoever runs beside it.
THEOREM OnlyLoadedGoes ==
  ASSUME Nothing \notin Record
  PROVE  KnowledgeSpec => OnlyLoadedIsRemoved
<1> DEFINE A == \A i \in Ids : (rows[i] # Nothing /\ rows'[i] = Nothing) =>
                  \E w \in Workers : i \in worker[w].seen \ worker[w].keep
<1>1. KnowledgeInv /\ [KnowledgeNext]_knowledgeVars => [A]_knowledgeVars
  <2> SUFFICES ASSUME KnowledgeInv, KnowledgeNext PROVE A
    OBVIOUS
  <2>1. CASE UNCHANGED rows
    BY <2>1
  <2>2. ASSUME NEW w \in Workers, NEW i \in Ids, NEW s \in Streams,
               NEW k \in {"fact", Nothing}, CommitRecord(w, i, s, k)
        PROVE  A
    <3>1. [tag |-> s, kind |-> k, status |-> "validated"] \in Record
      BY DEF Record
    <3> QED
      BY <2>2, <3>1 DEF CommitRecord, KnowledgeInv, KnowledgeShape, Table
  <2>3. ASSUME NEW w \in Workers, Sync(w)
        PROVE  A
    BY <2>3 DEF Sync, SyncFile
  <2>4. ASSUME NEW w \in Workers, CommitCleanup(w), revision = worker[w].expected
        PROVE  A
    BY <2>4, CommitRows DEF Removed
  <2>5. ASSUME NEW w \in Workers, CommitCleanup(w), revision # worker[w].expected
        PROVE  UNCHANGED rows
    BY <2>5 DEF CommitCleanup
  <2> QED
    BY <2>1, <2>2, <2>3, <2>4, <2>5 DEF KnowledgeNext, LoadForFiles, WriteFiles,
       RefreshFails, Learn, Promote, SyncOnly, BeginCleanup, ReadRevision, Die
<1>2. KnowledgeSpec => [][A]_knowledgeVars
  BY <1>1, KnowledgeInvHolds, PTL DEF KnowledgeSpec
<1> QED
  BY <1>2 DEF OnlyLoadedIsRemoved

CommandsCounted == started \in 0..MaxCommands

\* A row and a line are records, of ids some command has taken, and a cleanup
\* removes only such ids.
THEOREM KnowledgeTypesHold == KnowledgeSpec => []KnowledgeTypeOK
<1>1. KnowledgeInit => CommandsCounted
  BY KnowledgeAssumption DEF KnowledgeInit, CommandsCounted
<1>2. ASSUME CommandsCounted, [KnowledgeNext]_knowledgeVars PROVE CommandsCounted'
  <2>1. \A w, next : Start(w, next) => started < MaxCommands /\ started' = started + 1
    BY DEF Start
  <2>2. ASSUME NEW w \in Workers,
               \/ \E i \in Ids, s \in Streams, k \in {"fact", Nothing} : CommitRecord(w, i, s, k)
               \/ \E i \in Ids, k \in {"fact", Nothing}, st \in {"validated", "proposed"},
                    c \in BOOLEAN : Learn(w, i, k, st, c)
               \/ Promote(w) \/ SyncOnly(w)
               \/ \E keep \in SUBSET Ids, expected \in {revision, Nothing} :
                    BeginCleanup(w, keep, expected)
        PROVE  \E next : Start(w, next)
    BY <2>2 DEF CommitRecord, Learn, Promote, SyncOnly, BeginCleanup
  <2>3. ASSUME NEW w \in Workers,
               \/ LoadForFiles(w) \/ WriteFiles(w) \/ RefreshFails(w) \/ Sync(w)
               \/ ReadRevision(w) \/ CommitCleanup(w) \/ Die(w)
        PROVE  started' = started
    BY <2>3 DEF LoadForFiles, WriteFiles, RefreshFails, Sync, SyncFile, ReadRevision, CommitCleanup, Die
  <2>4. started' = started \/ (started < MaxCommands /\ started' = started + 1)
    BY <1>2, <2>1, <2>2, <2>3 DEF KnowledgeNext, knowledgeVars
  <2> QED
    BY <1>2, <2>4, KnowledgeAssumption DEF CommandsCounted
<1>3. KnowledgeInv /\ CommandsCounted => KnowledgeTypeOK
  BY DEF KnowledgeInv, KnowledgeShape, KnownIds, Table, CommandsCounted, KnowledgeTypeOK
<1> QED
  BY <1>1, <1>2, <1>3, KnowledgeInvHolds, PTL DEF KnowledgeSpec
=============================================================================
