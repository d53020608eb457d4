------------------------- MODULE DerivedFilesProofs -------------------------
(***************************************************************************)
(* What the derived files keep for any number of proposals, commands and   *)
(* crashes: the bundle of an applied change verifies, the files of an      *)
(* agent environment follow its profile, what is shown of the policies     *)
(* follows them, no waiver unblocks a review, and the views that a command *)
(* has rendered pass their own check.                                      *)
(***************************************************************************)
EXTENDS DerivedFiles, WellFoundedInduction, NaturalsInduction, TLAPS

-----------------------------------------------------------------------------
(* Change bundles.                                                           *)

GitDiffs == [code : Nat, own : {<<>>} \cup (BOOLEAN \X SUBSET Nat)]
Diffs == [git : GitDiffs, memory : SUBSET Parts]
Bundles == [revision : Nat, diff : Diffs, exported : SUBSET Nat]
ProposedBundles == {b \in Bundles : b.exported = {}}
Stores == [baseline : [Parts -> Nat], revision : Nat, bundle : Bundles \cup {Missing}]
ChangeLogRows == [id : ChangeIds, status : {"pending", "applied"}, after : ProposedBundles]

Applying == [name : {"apply"}, id : ChangeIds, bundle : ProposedBundles,
             next : {"consolidate", "rebuild", "summary", "log"}]
Exporting == [name : {"export"}, bundle : Bundles]

ChangeShape ==
  /\ checkedOut \in BOOLEAN
  /\ exports \subseteq Nat
  /\ branch \in [Parts -> Nat]
  /\ changeStore \in Stores \cup {Missing}
  /\ changeLog \in Seq(ChangeLogRows)
  /\ changeCommand \in Applying \cup Exporting \cup {ChangeAtRest}
  /\ changeCommand.name # "none" => changeStore \in Stores
  /\ changeCommand.name = "apply" => ChangeRows(changeCommand.id) # {}
  /\ changeCommand.name = "export" => changeStore.bundle \in Bundles
  /\ bundleSettled \in BOOLEAN

\* What an apply has settled by the write it has come to, and an export keeps.
BundleStands ==
  /\ checkedOut = TRUE
  /\ changeStore \in Stores /\ changeStore.bundle \in Bundles
  /\ changeStore.bundle.diff = Bundle(0).diff
  /\ changeStore.bundle.exported \subseteq exports
  /\ changeCommand.name = "apply" =>
       /\ changeCommand.next \in {"summary", "log"}
       /\ changeCommand.next = "summary" => changeCommand.bundle = changeStore.bundle
       /\ changeCommand.next = "log" => summary = RenderedSummary(changeStore.bundle)
  /\ changeCommand.name # "apply" => summary = RenderedSummary(changeStore.bundle)
  /\ changeCommand.name = "export" => /\ changeCommand.bundle = changeStore.bundle
                                      /\ changeCommand.bundle.revision \in exports

ChangeInv == ChangeShape /\ (bundleSettled = TRUE /\ checkedOut = TRUE => BundleStands)

-----------------------------------------------------------------------------
LEMMA SmallestIn ==
  ASSUME NEW S \in SUBSET Nat, S # {}
  PROVE  \E n \in S : \A m \in S : n <= m
<1>1. PICK n \in S : \A m \in S : ~ (<<m, n>> \in OpToRel(<, Nat))
  BY NatLessThanWellFounded, WFMin
<1>2. \A m \in S : ~ (m < n)
  BY <1>1 DEF OpToRel
<1> QED
  BY <1>2

\* A proposal that is looked up is a row of the log.
LEMMA FoundIsRow ==
  ASSUME changeLog \in Seq(ChangeLogRows), NEW id, ChangeRows(id) # {}
  PROVE  FindChange(id) \in ChangeLogRows
<1>1. ChangeRows(id) \in SUBSET Nat
  BY DEF ChangeRows
<1>2. \E i \in ChangeRows(id) : \A j \in ChangeRows(id) : i <= j
  BY <1>1, SmallestIn
<1>3. PICK i \in ChangeRows(id) : FindChange(id) = changeLog[i]
  BY <1>2 DEF FindChange
<1>4. i \in 1..Len(changeLog)
  BY DEF ChangeRows
<1> QED
  BY <1>3, <1>4

LEMMA RowsOnlyGrow ==
  ASSUME changeLog \in Seq(ChangeLogRows), NEW r \in ChangeLogRows, changeLog' = Append(changeLog, r), NEW id
  PROVE  changeLog' \in Seq(ChangeLogRows) /\ ChangeRows(id) \subseteq ChangeRows(id)'
<1>1. changeLog' \in Seq(ChangeLogRows) /\ Len(changeLog') = Len(changeLog) + 1
  BY DEF ChangeRows
<1>2. \A i \in 1..Len(changeLog) : changeLog'[i] = changeLog[i]
  OBVIOUS
<1>3. Len(changeLog) \in Nat
  OBVIOUS
<1> QED
  BY <1>1, <1>2, <1>3 DEF ChangeRows

LEMMA BundleType ==
  ASSUME changeStore \in Stores, branch \in [Parts -> Nat], exports \subseteq Nat, NEW r \in Nat
  PROVE  Bundle(r) \in ProposedBundles /\ Bundle(r).diff = Bundle(0).diff
<1>1. GitDiff \in GitDiffs
  BY DEF GitDiff, GitDiffs, Parts
<1> QED
  BY <1>1 DEF Stores, Bundle, ProposedBundles, Bundles, Diffs, SnapshotDiff, Parts

-----------------------------------------------------------------------------
LEMMA ChangeStarts == ChangeInit => ChangeInv
<1> SUFFICES ASSUME ChangeInit PROVE ChangeInv
  OBVIOUS
<1>1. branch \in [Parts -> Nat] /\ changeLog \in Seq(ChangeLogRows)
  BY DEF ChangeInit, Origin
<1>2. /\ changeStore = Missing /\ changeCommand = ChangeAtRest /\ changeCommand.name = "none"
      /\ bundleSettled = FALSE /\ exports = {} /\ checkedOut \in BOOLEAN
  BY DEF ChangeInit, ChangeAtRest
<1> QED
  BY <1>1, <1>2 DEF ChangeInv, ChangeShape

\* The commands of one write: `change init` and `change propose`.
LEMMA SmallCommandsKeep ==
  ASSUME Missing \notin Stores, ChangeInv, checkedOut' = checkedOut,
         InitChange \/ \E id \in ChangeIds : ProposeChange(id)
  PROVE  ChangeInv'
<1>1. CASE InitChange
  <2>1. [baseline |-> Origin, revision |-> 0, bundle |-> Missing] \in Stores
    BY DEF Stores, Origin
  <2>2. /\ changeCommand = ChangeAtRest /\ changeStore' \in Stores
        /\ UNCHANGED <<branch, changeLog, changeCommand, bundleSettled>>
    BY <1>1, <2>1 DEF InitChange
  <2>3. bundleSettled = TRUE /\ checkedOut = TRUE => FALSE
    BY <1>1, <2>1 DEF ChangeInv, BundleStands, InitChange
  <2>4. exports' = exports
    BY <1>1 DEF InitChange
  <2> QED
    BY <2>2, <2>3, <2>4 DEF ChangeInv, ChangeShape, ChangeAtRest
<1>2. ASSUME NEW id \in ChangeIds, ProposeChange(id) PROVE ChangeInv'
  <2> DEFINE row == [id |-> id, status |-> "pending", after |-> Bundle(BundleRevision)]
  <2>1. /\ changeCommand = ChangeAtRest /\ changeStore # Missing /\ changeLog' = Append(changeLog, row)
        /\ UNCHANGED <<branch, changeStore, summary, exports, changeCommand, bundleSettled>>
    BY <1>2 DEF ProposeChange
  <2>2. changeStore \in Stores /\ branch \in [Parts -> Nat] /\ exports \subseteq Nat
    BY <2>1 DEF ChangeInv, ChangeShape
  <2>3. BundleRevision \in Nat
    BY <2>2 DEF BundleRevision, Stores, Bundles
  <2>4. row \in ChangeLogRows
    BY <2>2, <2>3, BundleType DEF ChangeLogRows
  <2> HIDE DEF row
  <2>5. changeLog' \in Seq(ChangeLogRows)
    BY <2>1, <2>4 DEF ChangeInv, ChangeShape
  <2>6. ChangeShape'
    BY <2>1, <2>5 DEF ChangeInv, ChangeShape, ChangeAtRest
  <2>7. BundleStands => BundleStands'
    BY <2>1 DEF BundleStands, Bundle, GitDiff, SnapshotDiff, RenderedSummary
  <2> QED
    BY <2>1, <2>6, <2>7 DEF ChangeInv
<1> QED
  BY <1>1, <1>2

LEMMA ApplyBeginKeeps ==
  ASSUME ChangeInv, NEW id \in ChangeIds, checkedOut' = checkedOut, BeginApply(id)
  PROVE  ChangeInv'
<1> DEFINE row == FindChange(id)
           next == [name |-> "apply", id |-> id, next |-> "consolidate",
                    bundle |-> row.after]
<1>1. /\ changeStore # Missing /\ row # Missing
      /\ changeStore' = [changeStore EXCEPT !.revision = @ + 1, !.bundle = row.after]
      /\ changeCommand' = next /\ bundleSettled' = FALSE
      /\ UNCHANGED <<branch, changeLog, summary, exports>>
  BY DEF BeginApply
<1>2. ChangeRows(id) # {}
  BY <1>1 DEF FindChange
<1>3. row \in ChangeLogRows
  BY <1>2, FoundIsRow DEF ChangeInv, ChangeShape
<1>4. next \in Applying
  BY <1>3 DEF Applying, ChangeLogRows
<1>5. changeStore' \in Stores
  <2>1. changeStore \in Stores /\ row.after \in Bundles
    BY <1>1, <1>3 DEF ChangeInv, ChangeShape, ChangeLogRows, ProposedBundles
  <2>2. changeStore.revision + 1 \in Nat
    BY <2>1 DEF Stores
  <2> HIDE DEF row
  <2> QED
    BY <1>1, <2>1, <2>2 DEF Stores
<1>6. ChangeRows(id)' # {} /\ changeCommand'.id = id /\ changeCommand'.name = "apply"
  BY <1>1, <1>2 DEF ChangeRows
<1> QED
  BY <1>1, <1>4, <1>5, <1>6 DEF ChangeInv, ChangeShape

\* An applying command that has come to its next write.
LEMMA NextWrite ==
  ASSUME ChangeShape, NEW b \in ProposedBundles, changeCommand.name = "apply",
         NEW next \in {"consolidate", "rebuild", "summary", "log"},
         changeCommand' = [changeCommand EXCEPT !.next = next, !.bundle = b],
         changeLog' = changeLog
  PROVE  /\ changeCommand' \in Applying /\ changeCommand'.name = "apply"
         /\ changeCommand'.next = next /\ changeCommand'.bundle = b
         /\ ChangeRows(changeCommand.id)' = ChangeRows(changeCommand.id) /\ changeCommand'.id = changeCommand.id
<1>1. changeCommand \in Applying
  BY DEF ChangeShape, Exporting, ChangeAtRest
<1> QED
  BY <1>1 DEF Applying, ChangeRows

LEMMA ConsolidateKeeps ==
  ASSUME ChangeInv, checkedOut' = checkedOut, Consolidate
  PROVE  ChangeInv'
<1>1. /\ changeCommand.name = "apply" /\ changeCommand \in Applying
      /\ changeCommand' = [changeCommand EXCEPT !.next = "rebuild"]
      /\ branch' = [branch EXCEPT !["artifact"] = branch["memory"]]
      /\ bundleSettled' = bundleSettled
      /\ UNCHANGED <<changeStore, changeLog, summary, exports>>
  BY DEF Consolidate, ChangeInv, ChangeShape, Exporting, ChangeAtRest
<1>2. changeCommand' = [changeCommand EXCEPT !.next = "rebuild", !.bundle = changeCommand.bundle]
  BY <1>1 DEF Applying
<1>3. bundleSettled = TRUE /\ checkedOut = TRUE => FALSE
  BY DEF ChangeInv, ChangeShape, BundleStands, Consolidate
<1>4. changeCommand.bundle \in ProposedBundles
  BY <1>1 DEF Applying
<1>5. /\ changeCommand' \in Applying /\ changeCommand'.name = "apply"
      /\ ChangeRows(changeCommand.id)' = ChangeRows(changeCommand.id) /\ changeCommand'.id = changeCommand.id
  BY <1>1, <1>2, <1>4, NextWrite DEF ChangeInv
<1>6. branch' \in [Parts -> Nat]
  BY <1>1 DEF ChangeInv, ChangeShape, Parts
<1> QED
  BY <1>1, <1>3, <1>5, <1>6 DEF ChangeInv, ChangeShape

LEMMA RebuildKeeps ==
  ASSUME ChangeInv, checkedOut' = checkedOut, SaveRebuilt
  PROVE  ChangeInv'
<1> DEFINE b == RebuiltBundle(changeCommand.bundle)
<1>1. /\ changeCommand.name = "apply" /\ changeCommand \in Applying
      /\ changeCommand' = [changeCommand EXCEPT !.next = "summary", !.bundle = b]
      /\ changeStore' = [changeStore EXCEPT !.bundle = b]
      /\ bundleSettled' = TRUE
      /\ UNCHANGED <<branch, changeLog, summary, exports>>
  BY DEF SaveRebuilt, ChangeInv, ChangeShape, Exporting, ChangeAtRest
<1>2. changeStore \in Stores /\ branch \in [Parts -> Nat] /\ exports \subseteq Nat
  BY <1>1 DEF ChangeInv, ChangeShape
<1>3. changeCommand.bundle \in ProposedBundles
  BY <1>1 DEF Applying
<1>4. changeCommand.bundle.revision \in Nat /\ changeCommand.bundle.exported = {}
  BY <1>3 DEF ProposedBundles, Bundles
<1>5. Bundle(changeCommand.bundle.revision) \in ProposedBundles
      /\ Bundle(changeCommand.bundle.revision).diff = Bundle(0).diff
  BY <1>2, <1>4, BundleType
<1>6. b \in ProposedBundles /\ b.diff = Bundle(0).diff /\ b.exported = {}
  BY <1>4, <1>5 DEF RebuiltBundle, ProposedBundles, Bundles
<1> HIDE DEF b
<1>7. /\ changeCommand' \in Applying /\ changeCommand'.name = "apply"
      /\ changeCommand'.next = "summary" /\ changeCommand'.bundle = b
      /\ ChangeRows(changeCommand.id)' = ChangeRows(changeCommand.id) /\ changeCommand'.id = changeCommand.id
  BY <1>1, <1>6, NextWrite DEF ChangeInv
<1>8. /\ changeStore' \in Stores /\ changeStore'.bundle = b /\ changeStore'.baseline = changeStore.baseline
  BY <1>1, <1>2, <1>6 DEF Stores, ProposedBundles
<1>9. ChangeShape'
  BY <1>1, <1>7, <1>8 DEF ChangeInv, ChangeShape
<1>10. Bundle(0).diff' = Bundle(0).diff
  BY <1>1, <1>8 DEF Bundle, GitDiff, SnapshotDiff
<1>11. checkedOut = TRUE => BundleStands'
  BY <1>6, <1>7, <1>8, <1>10 DEF BundleStands, ProposedBundles
<1> QED
  BY <1>9, <1>11 DEF ChangeInv

LEMMA SummaryKeeps ==
  ASSUME ChangeInv, checkedOut' = checkedOut, WriteSummary
  PROVE  ChangeInv'
<1>1. /\ changeCommand.name = "apply" /\ changeCommand.next = "summary" /\ changeCommand \in Applying
      /\ summary' = RenderedSummary(changeCommand.bundle)
      /\ changeCommand' = [changeCommand EXCEPT !.next = "log"]
      /\ UNCHANGED <<branch, changeStore, changeLog, exports, bundleSettled>>
  BY DEF WriteSummary, ChangeInv, ChangeShape, Exporting, ChangeAtRest
<1>2. changeCommand' = [changeCommand EXCEPT !.next = "log", !.bundle = changeCommand.bundle]
  BY <1>1 DEF Applying
<1>3. changeCommand.bundle \in ProposedBundles
  BY <1>1 DEF Applying
<1>4. /\ changeCommand' \in Applying /\ changeCommand'.name = "apply" /\ changeCommand'.next = "log"
      /\ ChangeRows(changeCommand.id)' = ChangeRows(changeCommand.id) /\ changeCommand'.id = changeCommand.id
  BY <1>1, <1>2, <1>3, NextWrite DEF ChangeInv
<1>5. ChangeShape'
  BY <1>1, <1>4 DEF ChangeInv, ChangeShape
<1>6. BundleStands => BundleStands'
  BY <1>1, <1>4 DEF BundleStands, Bundle, GitDiff, SnapshotDiff, RenderedSummary
<1> QED
  BY <1>1, <1>5, <1>6 DEF ChangeInv

LEMMA FinishKeeps ==
  ASSUME ChangeInv, checkedOut' = checkedOut, FinishApply
  PROVE  ChangeInv'
<1> DEFINE row == [id |-> changeCommand.id, status |-> "applied",
                   after |-> FindChange(changeCommand.id).after]
<1>1. /\ changeCommand.name = "apply" /\ changeCommand.next = "log" /\ changeCommand \in Applying
      /\ changeLog' = Append(changeLog, row) /\ changeCommand' = ChangeAtRest
      /\ UNCHANGED <<branch, changeStore, summary, exports, bundleSettled>>
  BY DEF FinishApply, ChangeInv, ChangeShape, Exporting, ChangeAtRest
<1>2. FindChange(changeCommand.id) \in ChangeLogRows
  BY <1>1, FoundIsRow DEF ChangeInv, ChangeShape
<1>3. row \in ChangeLogRows
  BY <1>1, <1>2 DEF ChangeLogRows, Applying
<1> HIDE DEF row
<1>4. ChangeShape'
  BY <1>1, <1>3 DEF ChangeInv, ChangeShape, ChangeAtRest
<1>5. BundleStands => BundleStands'
  BY <1>1 DEF BundleStands, ChangeAtRest, Bundle, GitDiff, SnapshotDiff, RenderedSummary
<1> QED
  BY <1>1, <1>4, <1>5 DEF ChangeInv

LEMMA ExportKeeps ==
  ASSUME ChangeInv, checkedOut' = checkedOut, BeginExport \/ FinishExport
  PROVE  ChangeInv'
<1>1. CASE BeginExport
  <2>1. /\ changeCommand = ChangeAtRest /\ changeStore \in Stores /\ changeStore.bundle \in Bundles
        /\ exports' = exports \cup {changeStore.bundle.revision}
        /\ changeCommand' = [name |-> "export", bundle |-> changeStore.bundle]
        /\ UNCHANGED <<branch, changeStore, changeLog, summary, bundleSettled>>
    BY <1>1 DEF BeginExport, ChangeInv, ChangeShape, Stores
  <2>2. changeCommand' \in Exporting /\ changeCommand'.name = "export"
        /\ changeCommand'.bundle = changeStore.bundle
    BY <2>1 DEF Exporting
  <2>3. ChangeShape'
    <3>1. changeStore.bundle.revision \in Nat
      BY <2>1 DEF Bundles
    <3> QED
      BY <2>1, <2>2, <3>1 DEF ChangeInv, ChangeShape
  <2>4. BundleStands => BundleStands'
    BY <2>1, <2>2 DEF BundleStands, ChangeAtRest, Bundle, GitDiff, SnapshotDiff, RenderedSummary
  <2> QED
    BY <2>1, <2>3, <2>4 DEF ChangeInv
<1>2. CASE FinishExport
  <2> DEFINE b == [changeStore.bundle EXCEPT !.exported = {changeCommand.bundle.revision}]
  <2>1. /\ changeCommand.name = "export" /\ changeCommand \in Exporting
        /\ changeStore \in Stores /\ changeStore.bundle \in Bundles
        /\ changeStore' = [changeStore EXCEPT !.bundle = b] /\ changeCommand' = ChangeAtRest
        /\ UNCHANGED <<branch, changeLog, summary, exports, bundleSettled>>
    BY <1>2 DEF FinishExport, ChangeInv, ChangeShape, Applying, ChangeAtRest
  <2>2. changeCommand.bundle.revision \in Nat
    BY <2>1 DEF Exporting, Bundles
  <2>3. /\ b \in Bundles /\ b.diff = changeStore.bundle.diff
        /\ b.revision = changeStore.bundle.revision /\ b.exported = {changeCommand.bundle.revision}
    BY <2>1, <2>2 DEF Bundles
  <2> HIDE DEF b
  <2>4. changeStore' \in Stores /\ changeStore'.bundle = b /\ changeStore'.baseline = changeStore.baseline
    BY <2>1, <2>3 DEF Stores
  <2>5. ChangeShape'
    BY <2>1, <2>4 DEF ChangeInv, ChangeShape, ChangeAtRest
  <2>6. ASSUME BundleStands PROVE BundleStands'
    <3>1. Bundle(0).diff' = Bundle(0).diff
      BY <2>1, <2>4 DEF Bundle, GitDiff, SnapshotDiff
    <3>2. RenderedSummary(b) = RenderedSummary(changeStore.bundle)
      BY <2>3 DEF RenderedSummary
    <3>3. summary' = RenderedSummary(b)
      BY <2>1, <2>6, <3>2 DEF BundleStands
    <3>4. changeCommand'.name = "none"
      BY <2>1 DEF ChangeAtRest
    <3> QED
      BY <2>1, <2>3, <2>4, <2>6, <3>1, <3>3, <3>4 DEF BundleStands
  <2> QED
    BY <2>1, <2>5, <2>6 DEF ChangeInv
<1> QED
  BY <1>1, <1>2

\* Edits of the branch, lost export files, a process that dies.
LEMMA AroundKeep ==
  ASSUME ChangeInv, checkedOut' = checkedOut,
         \/ \E x \in Parts : Edit(x)
         \/ \E revision \in exports : LoseExport(revision)
         \/ ChangeDies
  PROVE  ChangeInv'
<1>1. ASSUME NEW x \in Parts, Edit(x) PROVE ChangeInv'
  <2>1. /\ branch' = [branch EXCEPT ![x] = @ + 1] /\ bundleSettled' = FALSE
        /\ UNCHANGED <<changeStore, changeLog, exports, changeCommand>>
    BY <1>1 DEF Edit
  <2>2. branch' \in [Parts -> Nat]
    BY <2>1 DEF ChangeInv, ChangeShape
  <2> QED
    BY <2>1, <2>2 DEF ChangeInv, ChangeShape, ChangeRows
<1>2. ASSUME NEW revision \in exports, LoseExport(revision) PROVE ChangeInv'
  BY <1>2 DEF LoseExport, ChangeInv, ChangeShape, ChangeRows
<1>3. CASE ChangeDies
  <2>1. /\ changeCommand' = ChangeAtRest /\ bundleSettled' = (bundleSettled /\ changeCommand.name = "export")
        /\ UNCHANGED <<branch, changeStore, changeLog, summary, exports>>
    BY <1>3 DEF ChangeDies
  <2>2. ChangeShape'
    BY <2>1 DEF ChangeInv, ChangeShape, ChangeAtRest
  <2>3. bundleSettled' = TRUE => bundleSettled = TRUE /\ changeCommand.name = "export"
    BY <2>1 DEF ChangeInv, ChangeShape
  <2>4. BundleStands /\ changeCommand.name = "export" => BundleStands'
    BY <2>1 DEF BundleStands, ChangeAtRest, Bundle, GitDiff, SnapshotDiff, RenderedSummary
  <2> QED
    BY <2>2, <2>3, <2>4 DEF ChangeInv
<1> QED
  BY <1>1, <1>2, <1>3

LEMMA ChangeStepsKeep ==
  ASSUME Missing \notin Stores, ChangeInv, [ChangeNext]_changeVars
  PROVE  ChangeInv'
<1>1. CASE UNCHANGED changeVars
  <2>1. ChangeShape'
    BY <1>1 DEF changeVars, ChangeInv, ChangeShape, ChangeRows
  <2>2. BundleStands => BundleStands'
    BY <1>1 DEF changeVars, BundleStands, Bundle, GitDiff, SnapshotDiff, RenderedSummary
  <2> QED
    BY <1>1, <2>1, <2>2 DEF changeVars, ChangeInv
<1> QED
  BY <1>1, SmallCommandsKeep, ApplyBeginKeeps, ConsolidateKeeps, RebuildKeeps, SummaryKeeps,
     FinishKeeps, ExportKeeps, AroundKeep DEF ChangeNext

\* A bundle whose apply ran to its end, on the branch git is on and that nobody
\* has touched since, verifies, whatever applies, exports and crashes came before it
\* (features/change/application/apply_change.py, verify_change.py).
THEOREM BundleVerifies ==
  ASSUME Missing \notin Stores
  PROVE  ChangeSpec => []AppliedBundleVerifies
<1>1. ChangeInv => AppliedBundleVerifies
  <2> SUFFICES ASSUME ChangeInv, changeCommand = ChangeAtRest, bundleSettled, checkedOut
               PROVE  Drift = {}
    BY DEF AppliedBundleVerifies
  <2>1. BundleStands /\ changeCommand.name = "none"
    BY DEF ChangeInv, ChangeShape, ChangeAtRest
  <2>2. /\ changeStore.bundle.diff = Bundle(0).diff
        /\ changeStore.bundle.exported \ exports = {}
        /\ summary = RenderedSummary(changeStore.bundle)
    BY <2>1 DEF BundleStands
  <2> QED
    BY <2>2 DEF Drift
<1>2. ChangeSpec => []ChangeInv
  BY ChangeStarts, ChangeStepsKeep, PTL DEF ChangeSpec
<1> QED
  BY <1>1, <1>2, PTL

-----------------------------------------------------------------------------
(* Policies and gates.                                                       *)

\* A step that the program has written and that violates a rule also fails
\* the validation of the progress.
LEMMA ViolationIsInvalid ==
  ASSUME NEW s \in WrittenSteps, NEW rule, Violated(rule, s)
  PROVE  ~ValidStep(NormalStep(s))
<1>1. NormalStep(s) = s
  BY DEF WrittenSteps
<1>2. ~ValidStep(s)
  BY DEF WrittenSteps, Steps, Violated, ValidStep
<1> QED
  BY <1>1, <1>2

\* What fails and blocks among the gates of a review comes with the gate of
\* the integrity of the progress, which cannot be waived.
LEMMA BlockedByIntegrity ==
  ASSUME NEW s \in WrittenSteps, NEW ratified \in BOOLEAN,
         NEW g \in AllGates(s, ratified), g.status = "failed", g.blocking
  PROVE  IntegrityGates(s) = {Gate("progress", "invalid", "failed", TRUE, FALSE)}
<1>1. CASE g \in IntegrityGates(s)
  BY <1>1 DEF IntegrityGates
<1>2. CASE g \in PolicyGates(s)
  <2>1. PICK r \in Rules : Shown(policies[r], s) /\ g = PolicyGate(r, policies[r])
    BY <1>2 DEF PolicyGates
  <2>2. policies[r].rule # Unset
    BY <2>1 DEF PolicyGate, Gate
  <2>3. Violated(policies[r].rule, s)
    BY <2>1, <2>2 DEF Shown
  <2> QED
    BY <2>3, ViolationIsInvalid DEF IntegrityGates
<1>3. CASE g = RatificationGate(ratified)
  BY <1>3 DEF RatificationGate, Gate
<1> QED
  BY <1>1, <1>2, <1>3 DEF AllGates

\* No waiver, of any gate and for any policies, turns a blocked review into one
\* that passes, whatever state the program left its steps in
\* (gates/application/evaluate.py).
THEOREM BlockedStaysBlocked == RuleSpec => []WaiverNeverUnblocks
<1>1. WaiverNeverUnblocks
  <2> SUFFICES ASSUME NEW s \in WrittenSteps, NEW ratified \in BOOLEAN,
                      AggregateStatus(AllGates(s, ratified)) = "blocked"
               PROVE  AggregateStatus(ApplyWaivers(AllGates(s, ratified))) = "blocked"
    BY DEF WaiverNeverUnblocks
  <2> DEFINE gates == AllGates(s, ratified)
             integrity == Gate("progress", "invalid", "failed", TRUE, FALSE)
  <2>1. \E g \in gates : g.status = "failed" /\ g.blocking
    BY DEF AggregateStatus
  <2>2. integrity \in gates
    BY <2>1, BlockedByIntegrity DEF AllGates
  <2>3. /\ integrity.status = "failed" /\ integrity.blocking = TRUE
        /\ integrity.waivable = FALSE
    BY DEF Gate
  <2> HIDE DEF gates, integrity
  <2>4. integrity \in ApplyWaivers(gates)
    BY <2>2, <2>3 DEF ApplyWaivers
  <2>5. AggregateStatus(ApplyWaivers(gates)) = "blocked"
    BY <2>3, <2>4 DEF AggregateStatus
  <2> QED
    BY <2>5 DEF gates
<1> QED
  BY <1>1, PTL

TopLevelFollows == \A b \in TopLevel : policyViews[b] = policies

\* How far an apply has come, and what it has brought up to date by then.
ShownInv ==
  /\ policySettled \in BOOLEAN
  /\ policyViews = [b \in TopLevel \union Nested |-> policyViews[b]]
  /\ policySettled = TRUE => published = policies /\ TopLevelFollows
  /\ ruleCommand.name = "refresh" => published = policies
  /\ ruleCommand.name = "row" => published = policies /\ TopLevelFollows
  /\ policySettled = TRUE => ruleCommand.name \notin {"publish", "refresh", "row"}

\* Where no policy command was cut short, the snapshot, policy.md and the
\* generated files of every branch that lies directly in .madspec show the
\* policies in force; nothing is said of a nested branch (policy/*.py).
THEOREM PoliciesAreShown == RuleSpec => []PolicyViewsFollow
<1>1. RuleInit => ShownInv
  BY DEF RuleInit, ShownInv, TopLevelFollows, RuleAtRest
<1>2. ShownInv /\ [RuleNext]_ruleVars => ShownInv'
  <2> SUFFICES ASSUME ShownInv, [RuleNext]_ruleVars PROVE ShownInv'
    OBVIOUS
  <2>1. CASE UNCHANGED ruleVars
    BY <2>1 DEF ruleVars, policyVars, ShownInv, TopLevelFollows
  <2>2. ASSUME NEW id \in PolicyIds, NEW rule \in Rules,
               \/ \E payload \in Payloads :
                    ProposePolicy(id, rule, payload) \/ SetPolicy(id, rule, payload)
               \/ DeprecatePolicy(id, rule)
        PROVE  ShownInv'
    <3>1. PICK next \in {RuleAtRest, [name |-> "apply", id |-> id]} :
            \E action, after : Proposed(id, rule, action, after, next)
      BY <2>2 DEF ProposePolicy, SetPolicy, DeprecatePolicy
    <3>2. /\ published' = policies /\ UNCHANGED <<policies, policyViews, policySettled>>
          /\ ruleCommand' = next
      BY <3>1 DEF Proposed
    <3>3. next.name \in {"none", "apply"}
      BY <3>1 DEF RuleAtRest
    <3> QED
      BY <3>2, <3>3 DEF ShownInv, TopLevelFollows
  <2>3. CASE \E id \in PolicyIds : ApplyPolicy(id)
    <3>1. policySettled' = FALSE /\ ruleCommand'.name = "publish" /\ policyViews' = policyViews
      BY <2>3 DEF ApplyPolicy
    <3> QED
      BY <3>1 DEF ShownInv, TopLevelFollows
  <2>4. CASE PublishPolicies
    <3>1. /\ ruleCommand.name = "publish" /\ published' = policies
          /\ UNCHANGED <<policies, policyViews, policySettled>>
          /\ ruleCommand'.name = "refresh" \/ ruleCommand' = ruleCommand
      BY <2>4 DEF PublishPolicies
    <3> QED
      BY <2>4, <3>1 DEF ShownInv, TopLevelFollows
  <2>5. CASE RefreshViews
    BY <2>5 DEF RefreshViews, RefreshBranches, ShownInv, TopLevelFollows
  <2>6. CASE AppendApplied
    BY <2>6 DEF AppendApplied, RuleAtRest, ShownInv, TopLevelFollows
  <2>7. CASE ReadPolicies
    BY <2>7 DEF ReadPolicies, ShownInv, TopLevelFollows
  <2>11. CASE \E b \in TopLevel \union Nested : ConsolidateBranch(b)
    BY <2>11 DEF ConsolidateBranch, ShownInv, TopLevelFollows
  <2>8. CASE \E gate \in ReviewGates, id \in PolicyIds : ProposeWaiver(id, gate)
    BY <2>8 DEF ProposeWaiver, policyVars, ShownInv, TopLevelFollows
  <2>9. CASE \E id \in PolicyIds : ApplyWaiver(id)
    BY <2>9 DEF ApplyWaiver, policyVars, ShownInv, TopLevelFollows
  <2>10. CASE RewriteRequests \/ RuleDies
    BY <2>10 DEF RewriteRequests, RuleDies, RuleAtRest, policyVars, ShownInv, TopLevelFollows
  <2> QED
    BY <2>1, <2>2, <2>3, <2>4, <2>5, <2>6, <2>7, <2>8, <2>9, <2>10, <2>11 DEF RuleNext
<1>3. ShownInv => PolicyViewsFollow
  BY DEF ShownInv, TopLevelFollows, PolicyViewsFollow
<1> QED
  BY <1>1, <1>2, <1>3, PTL DEF RuleSpec

-----------------------------------------------------------------------------
(* Agents.                                                                   *)

Profiles == [environment : Environments, enabled : SUBSET Roles]
ProfileLogRows == [id : ProfileIds, status : {"pending", "applied"}, after : Profiles]

\* What a command has still to write, by its next write.
AgentPlan ==
  \/ agentCommand = AgentAtRest
  \/ \E r \in Roles, b \in Versions : agentCommand = [name |-> "body", role |-> r, body |-> b]
  \/ \E r \in Roles, d \in BOOLEAN : agentCommand = [name |-> "unlink", role |-> r, disable |-> d]
  \/ \E r \in Roles : agentCommand = [name |-> "disable", role |-> r]
  \/ agentCommand = [name |-> "render"]
  \/ \E id \in ProfileIds : /\ ProfileRows(id) # {}
                            /\ agentCommand \in {[name |-> "render", id |-> id], [name |-> "log", id |-> id]}

AgentShape ==
  /\ catalog \in [Roles -> Entries \union {Nothing}]
  /\ bodies \in [Roles -> Versions \union {Nothing}]
  /\ profile \in Profiles
  /\ \A r \in Roles : catalog[r] # Nothing => (catalog[r].kind = "override") = (r \in Builtins)
  /\ profileLog \in Seq(ProfileLogRows)
  /\ workspace = [e \in Environments |-> workspace[e]]
  /\ rendered \in BOOLEAN

\* A command that has more to write than the log has not rendered yet.
AgentInv ==
  /\ AgentShape /\ AgentPlan
  /\ agentCommand.name \in {"body", "unlink", "disable", "render"} => rendered = FALSE
  /\ rendered = TRUE => workspace[profile.environment] = ExpectedWorkspace

\* What a rendering leaves depends on no file that was there before.
LEMMA RenderingForgets ==
  ASSUME NEW entries, NEW texts, NEW enabled, NEW environment, NEW before
  PROVE  View(entries, texts, enabled, environment, before) = View(entries, texts, enabled, environment, NoFiles)
BY DEF View, Unlinked

LEMMA AgentStarts == AgentInit => AgentInv
<1> SUFFICES ASSUME AgentInit PROVE AgentInv
  OBVIOUS
<1>1. PICK e \in Environments :
        /\ profile = [environment |-> e, enabled |-> Defaults]
        /\ workspace = [x \in Environments |-> IF x = e THEN View(catalog, bodies, Defaults, e, NoFiles) ELSE NoFiles]
  BY DEF AgentInit
<1>2. /\ catalog = [r \in Roles |-> Nothing] /\ bodies = [r \in Roles |-> Nothing]
      /\ profileLog = <<>> /\ agentCommand = AgentAtRest /\ rendered = TRUE
  BY DEF AgentInit
<1>3. profile \in Profiles
  BY <1>1, AgentAssumption DEF Profiles, Roles
<1>4. workspace = [x \in Environments |-> workspace[x]]
  BY <1>1
<1>5. workspace[profile.environment] = ExpectedWorkspace
  BY <1>1 DEF ExpectedWorkspace
<1>6. AgentShape
  BY <1>2, <1>3, <1>4 DEF AgentShape
<1> QED
  BY <1>2, <1>5, <1>6 DEF AgentInv, AgentPlan, AgentAtRest

\* A profile proposal that is looked up is a row of the log.
LEMMA FoundProfile ==
  ASSUME profileLog \in Seq(ProfileLogRows), NEW id, ProfileRows(id) # {}
  PROVE  FindAgentProposal(id) \in ProfileLogRows
<1>1. ProfileRows(id) \in SUBSET Nat
  BY DEF ProfileRows
<1>2. \E i \in ProfileRows(id) : \A j \in ProfileRows(id) : i <= j
  BY <1>1, SmallestIn
<1>3. PICK i \in ProfileRows(id) : FindAgentProposal(id) = profileLog[i]
  BY <1>2 DEF FindAgentProposal
<1>4. i \in 1..Len(profileLog)
  BY DEF ProfileRows
<1> QED
  BY <1>3, <1>4

LEMMA ProfileLogGrows ==
  ASSUME profileLog \in Seq(ProfileLogRows), NEW row \in ProfileLogRows, profileLog' = Append(profileLog, row)
  PROVE  /\ profileLog' \in Seq(ProfileLogRows)
         /\ \A id : ProfileRows(id) # {} => ProfileRows(id)' # {}
<1>1. profileLog' \in Seq(ProfileLogRows) /\ Len(profileLog') = Len(profileLog) + 1 /\ Len(profileLog) \in Nat
  OBVIOUS
<1>2. \A i \in 1..Len(profileLog) : profileLog'[i] = profileLog[i]
  OBVIOUS
<1>3. ASSUME NEW id, ProfileRows(id) # {} PROVE ProfileRows(id)' # {}
  <2>1. PICK i \in 1..Len(profileLog) : profileLog[i].id = id
    BY <1>3 DEF ProfileRows
  <2>2. i \in 1..Len(profileLog') /\ profileLog'[i].id = id
    BY <1>1, <1>2, <2>1
  <2> QED
    BY <2>2 DEF ProfileRows
<1> QED
  BY <1>1, <1>3

\* The first write of a command: there is more to come.
LEMMA AgentBegins ==
  ASSUME AgentInv, NEW next, Begin(next), AgentShape', AgentPlan'
  PROVE  AgentInv'
BY DEF AgentInv, Begin

\* An entry that is created or updated keeps its kind, or has that of its role.
LEMMA UpsertedIsEntry ==
  ASSUME AgentShape, NEW role \in Roles, NEW text \in Versions, NEW withBody \in BOOLEAN
  PROVE  /\ Upserted(role, text, withBody) \in Entries
         /\ (Upserted(role, text, withBody).kind = "override") = (role \in Builtins)
<1>1. CASE catalog[role] = Nothing
  BY <1>1 DEF Upserted, Entries
<1>2. CASE catalog[role] # Nothing
  <2>1. catalog[role] \in Entries /\ (catalog[role].kind = "override") = (role \in Builtins)
    BY <1>2 DEF AgentShape
  <2> QED
    BY <1>2, <2>1 DEF Upserted, Entries
<1> QED
  BY <1>1, <1>2

LEMMA UpsertKeepsShape ==
  ASSUME AgentShape, NEW role \in Roles, NEW text \in Versions, NEW withBody \in BOOLEAN,
         catalog' = [catalog EXCEPT ![role] = Upserted(role, text, withBody)],
         rendered' \in BOOLEAN, UNCHANGED <<bodies, profile, profileLog, workspace>>
  PROVE  AgentShape'
<1> DEFINE entry == Upserted(role, text, withBody)
<1>1. entry \in Entries /\ (entry.kind = "override") = (role \in Builtins)
  BY UpsertedIsEntry
<1> HIDE DEF entry
<1>2. catalog' = [catalog EXCEPT ![role] = entry]
  BY DEF entry
<1> QED
  BY <1>1, <1>2 DEF AgentShape

LEMMA DefinitionsKeep ==
  ASSUME AgentInv, NEW role \in Roles, NEW text \in Versions, NEW body \in Versions \union {Nothing},
         (body \in Versions /\ CreateSubagent(role, text, body)) \/ UpdateSubagent(role, text, body)
  PROVE  AgentInv'
<1>1. PICK withBody \in BOOLEAN, next \in {[name |-> "render"], [name |-> "body", role |-> role, body |-> body]} :
        /\ next = [name |-> "render"] \/ body \in Versions
        /\ Begin(next) /\ catalog' = [catalog EXCEPT ![role] = Upserted(role, text, withBody)]
        /\ UNCHANGED <<bodies, profile, profileLog, workspace>>
  <2>1. CASE body \in Versions /\ CreateSubagent(role, text, body)
    BY <2>1 DEF CreateSubagent
  <2>2. CASE UpdateSubagent(role, text, body) /\ body = Nothing
    BY <2>2 DEF UpdateSubagent
  <2>3. CASE UpdateSubagent(role, text, body) /\ body # Nothing
    BY <2>3 DEF UpdateSubagent
  <2> QED
    BY <2>1, <2>2, <2>3
<1>2. rendered' = FALSE /\ agentCommand' = next
  BY <1>1 DEF Begin
<1>3. AgentShape'
  BY <1>1, <1>2, UpsertKeepsShape DEF AgentInv
<1>4. AgentPlan'
  BY <1>1, <1>2 DEF AgentPlan
<1> QED
  BY <1>1, <1>3, <1>4, AgentBegins

LEMMA BodyIsWritten ==
  ASSUME AgentInv, WriteBody
  PROVE  AgentInv'
<1>1. PICK r \in Roles, b \in Versions : agentCommand = [name |-> "body", role |-> r, body |-> b]
  BY DEF WriteBody, AgentInv, AgentPlan, AgentAtRest
<1>2. /\ bodies' = [bodies EXCEPT ![r] = b] /\ agentCommand' = [name |-> "render"]
      /\ UNCHANGED <<catalog, profile, profileLog, workspace, rendered>>
  BY <1>1 DEF WriteBody
<1>3. rendered = FALSE
  BY <1>1 DEF AgentInv
<1>4. AgentShape'
  BY <1>2 DEF AgentInv, AgentShape
<1> QED
  BY <1>2, <1>3, <1>4 DEF AgentInv, AgentPlan

LEMMA RemovalsKeep ==
  ASSUME AgentInv, NEW role \in Roles, NEW force \in BOOLEAN, RemoveSubagent(role, force)
  PROVE  AgentInv'
<1> DEFINE next == [name |-> "unlink", role |-> role, disable |-> role \in profile.enabled /\ ~OverrideOnly(role)]
<1>1. /\ Begin(next) /\ catalog' = [catalog EXCEPT ![role] = Nothing]
      /\ UNCHANGED <<bodies, profile, profileLog, workspace>>
  BY DEF RemoveSubagent
<1>2. rendered' = FALSE /\ agentCommand' = next
  BY <1>1 DEF Begin
<1>3. AgentShape'
  BY <1>1, <1>2 DEF AgentInv, AgentShape
<1>4. (role \in profile.enabled /\ ~OverrideOnly(role)) \in BOOLEAN
  OBVIOUS
<1>5. AgentPlan'
  BY <1>2, <1>4 DEF AgentPlan
<1> HIDE DEF next
<1> QED
  BY <1>1, <1>3, <1>5, AgentBegins

LEMMA BodyIsUnlinked ==
  ASSUME AgentInv, UnlinkBody
  PROVE  AgentInv'
<1>1. PICK r \in Roles, d \in BOOLEAN : agentCommand = [name |-> "unlink", role |-> r, disable |-> d]
  BY DEF UnlinkBody, AgentInv, AgentPlan, AgentAtRest
<1>2. /\ bodies' = [bodies EXCEPT ![r] = Nothing]
      /\ agentCommand' = IF d THEN [name |-> "disable", role |-> r] ELSE [name |-> "render"]
      /\ UNCHANGED <<catalog, profile, profileLog, workspace, rendered>>
  BY <1>1 DEF UnlinkBody
<1>3. rendered = FALSE
  BY <1>1 DEF AgentInv
<1>4. AgentShape'
  BY <1>2 DEF AgentInv, AgentShape
<1>5. AgentPlan'
  BY <1>2 DEF AgentPlan
<1> QED
  BY <1>2, <1>3, <1>4, <1>5 DEF AgentInv

LEMMA RemovedIsDisabled ==
  ASSUME AgentInv, DisableRemoved
  PROVE  AgentInv'
<1>1. PICK r \in Roles : agentCommand = [name |-> "disable", role |-> r]
  BY DEF DisableRemoved, AgentInv, AgentPlan, AgentAtRest
<1>2. /\ profile' = [profile EXCEPT !.enabled = @ \ {r}] /\ agentCommand' = [name |-> "render"]
      /\ UNCHANGED <<catalog, bodies, profileLog, workspace, rendered>>
  BY <1>1 DEF DisableRemoved
<1>3. rendered = FALSE
  BY <1>1 DEF AgentInv
<1>4. profile' \in Profiles
  BY <1>2 DEF AgentInv, AgentShape, Profiles
<1>5. AgentShape'
  BY <1>2, <1>4 DEF AgentInv, AgentShape
<1> QED
  BY <1>2, <1>3, <1>5 DEF AgentInv, AgentPlan

LEMMA TogglesKeep ==
  ASSUME AgentInv, NEW role \in Roles, ToggleSubagent(role)
  PROVE  AgentInv'
<1> DEFINE toggled == IF role \in profile.enabled THEN profile.enabled \ {role} ELSE profile.enabled \union {role}
<1>1. /\ Begin([name |-> "render"]) /\ profile' = [profile EXCEPT !.enabled = toggled]
      /\ UNCHANGED <<catalog, bodies, profileLog, workspace>>
  BY DEF ToggleSubagent
<1>2. rendered' = FALSE /\ agentCommand' = [name |-> "render"]
  BY <1>1 DEF Begin
<1>3. toggled \in SUBSET Roles
  BY DEF AgentInv, AgentShape, Profiles
<1> HIDE DEF toggled
<1>4. profile' \in Profiles
  BY <1>1, <1>3 DEF AgentInv, AgentShape, Profiles
<1>5. AgentShape'
  BY <1>1, <1>2, <1>4 DEF AgentInv, AgentShape
<1>6. AgentPlan'
  BY <1>2 DEF AgentPlan
<1> QED
  BY <1>1, <1>5, <1>6, AgentBegins

LEMMA ProfilesAreProposed ==
  ASSUME AgentInv, NEW id \in ProfileIds, NEW e \in Environments, NEW enabled \in SUBSET Roles,
         ProposeProfile(id, e, enabled)
  PROVE  AgentInv'
<1> DEFINE row == [id |-> id, status |-> "pending", after |-> [environment |-> e, enabled |-> enabled]]
<1>1. /\ agentCommand = AgentAtRest /\ profileLog' = Append(profileLog, row)
      /\ UNCHANGED <<catalog, bodies, profile, workspace, agentCommand, rendered>>
  BY DEF ProposeProfile
<1>2. row \in ProfileLogRows
  BY DEF ProfileLogRows, Profiles
<1> HIDE DEF row
<1>3. profileLog' \in Seq(ProfileLogRows)
  BY <1>1, <1>2, ProfileLogGrows DEF AgentInv, AgentShape
<1>4. AgentShape'
  BY <1>1, <1>3 DEF AgentInv, AgentShape
<1>5. ExpectedWorkspace' = ExpectedWorkspace
  BY <1>1 DEF ExpectedWorkspace, View, Active, Effective, RoleFile, Guidance, Text, Body, NoFiles, Unlinked
<1> QED
  BY <1>1, <1>4, <1>5 DEF AgentInv, AgentPlan

LEMMA ProfilesAreApplied ==
  ASSUME AgentInv, NEW id \in ProfileIds, ApplyProfile(id)
  PROVE  AgentInv'
<1>1. /\ ProfileRows(id) # {} /\ Begin([name |-> "render", id |-> id])
      /\ profile' = FindAgentProposal(id).after
      /\ UNCHANGED <<catalog, bodies, profileLog, workspace>>
  BY DEF ApplyProfile
<1>2. rendered' = FALSE /\ agentCommand' = [name |-> "render", id |-> id]
  BY <1>1 DEF Begin
<1>3. profile' \in Profiles
  BY <1>1, FoundProfile DEF AgentInv, AgentShape, ProfileLogRows
<1>4. AgentShape'
  BY <1>1, <1>2, <1>3 DEF AgentInv, AgentShape
<1>5. ProfileRows(id)' # {}
  BY <1>1 DEF ProfileRows
<1>6. AgentPlan'
  BY <1>2, <1>5 DEF AgentPlan
<1> QED
  BY <1>1, <1>4, <1>6, AgentBegins

LEMMA AppliedIsLogged ==
  ASSUME AgentInv, LogApplied
  PROVE  AgentInv'
<1>1. PICK id \in ProfileIds : ProfileRows(id) # {} /\ agentCommand = [name |-> "log", id |-> id]
  BY DEF LogApplied, AgentInv, AgentPlan, AgentAtRest
<1> DEFINE row == [FindAgentProposal(id) EXCEPT !.status = "applied"]
<1>2. /\ profileLog' = Append(profileLog, row) /\ agentCommand' = AgentAtRest
      /\ UNCHANGED <<catalog, bodies, profile, workspace, rendered>>
  BY <1>1 DEF LogApplied
<1>3. FindAgentProposal(id) \in ProfileLogRows
  BY <1>1, FoundProfile DEF AgentInv, AgentShape
<1>4. row \in ProfileLogRows
  BY <1>3 DEF ProfileLogRows
<1> HIDE DEF row
<1>5. profileLog' \in Seq(ProfileLogRows)
  BY <1>2, <1>4, ProfileLogGrows DEF AgentInv, AgentShape
<1>6. AgentShape'
  BY <1>2, <1>5 DEF AgentInv, AgentShape
<1>7. ExpectedWorkspace' = ExpectedWorkspace
  BY <1>2 DEF ExpectedWorkspace, View, Active, Effective, RoleFile, Guidance, Text, Body, NoFiles, Unlinked
<1> QED
  BY <1>2, <1>6, <1>7 DEF AgentInv, AgentPlan, AgentAtRest

\* The rendering brings the files of the environment up to the profile.
LEMMA WorkspaceIsRendered ==
  ASSUME AgentInv, RenderWorkspace
  PROVE  AgentInv'
<1> DEFINE e    == profile.environment
           made == View(catalog, bodies, profile.enabled, e, workspace[e])
<1>1. e \in Environments
  BY DEF AgentInv, AgentShape, Profiles
<1>2. /\ workspace' = [workspace EXCEPT ![e] = made] /\ rendered' = TRUE
      /\ UNCHANGED <<catalog, bodies, profile, profileLog>>
  BY DEF RenderWorkspace
<1>3. made = ExpectedWorkspace
  BY RenderingForgets DEF ExpectedWorkspace
<1> HIDE DEF made
<1>4. AgentShape' /\ workspace'[e] = made
  BY <1>1, <1>2 DEF AgentInv, AgentShape
<1>5. ExpectedWorkspace' = ExpectedWorkspace
  BY <1>2 DEF ExpectedWorkspace, View, Active, Effective, RoleFile, Guidance, Text, Body, NoFiles, Unlinked
<1>6. /\ AgentPlan' /\ agentCommand'.name \in {"none", "log"}
  <2>1. CASE agentCommand = [name |-> "render"]
    <3>1. agentCommand' = AgentAtRest
      BY <2>1 DEF RenderWorkspace
    <3> QED
      BY <3>1 DEF AgentPlan, AgentAtRest
  <2>2. ASSUME NEW id \in ProfileIds, ProfileRows(id) # {}, agentCommand = [name |-> "render", id |-> id]
        PROVE  AgentPlan' /\ agentCommand'.name = "log"
    <3>1. agentCommand' = [name |-> "log", id |-> id]
      BY <2>2 DEF RenderWorkspace
    <3>2. ProfileRows(id)' # {}
      BY <1>2, <2>2 DEF ProfileRows
    <3> QED
      BY <3>1, <3>2 DEF AgentPlan
  <2>3. \/ agentCommand = [name |-> "render"]
        \/ \E id \in ProfileIds : ProfileRows(id) # {} /\ agentCommand = [name |-> "render", id |-> id]
    BY DEF RenderWorkspace, AgentInv, AgentPlan, AgentAtRest
  <2> QED
    BY <2>1, <2>2, <2>3
<1> QED
  BY <1>2, <1>3, <1>4, <1>5, <1>6 DEF AgentInv

LEMMA AgentStopsKeep ==
  ASSUME AgentInv, AgentDies \/ UNCHANGED agentVars
  PROVE  AgentInv'
<1>1. /\ UNCHANGED <<catalog, bodies, profile, profileLog, workspace, rendered>>
      /\ agentCommand' \in {agentCommand, AgentAtRest}
  BY DEF AgentDies, agentVars
<1>2. AgentShape'
  BY <1>1 DEF AgentInv, AgentShape
<1>3. AgentPlan'
  BY <1>1 DEF AgentInv, AgentPlan, ProfileRows
<1>4. ExpectedWorkspace' = ExpectedWorkspace
  BY <1>1 DEF ExpectedWorkspace, View, Active, Effective, RoleFile, Guidance, Text, Body, NoFiles, Unlinked
<1> QED
  BY <1>1, <1>2, <1>3, <1>4 DEF AgentInv, AgentAtRest

LEMMA AgentStepsKeep ==
  ASSUME AgentInv, [AgentNext]_agentVars
  PROVE  AgentInv'
<1>1. ASSUME NEW role \in Roles, NEW text \in Versions,
             \/ \E body \in Versions : CreateSubagent(role, text, body)
             \/ \E body \in Versions \union {Nothing} : UpdateSubagent(role, text, body)
      PROVE  AgentInv'
  BY <1>1, DefinitionsKeep
<1>2. ASSUME NEW role \in Roles, ToggleSubagent(role) PROVE AgentInv'
  BY <1>2, TogglesKeep
<1>3. ASSUME NEW role \in Roles, NEW force \in BOOLEAN, RemoveSubagent(role, force) PROVE AgentInv'
  BY <1>3, RemovalsKeep
<1>4. ASSUME NEW id \in ProfileIds, NEW e \in Environments, NEW enabled \in SUBSET Roles,
             ProposeProfile(id, e, enabled)
      PROVE  AgentInv'
  BY <1>4, ProfilesAreProposed
<1>5. ASSUME NEW id \in ProfileIds, ApplyProfile(id) PROVE AgentInv'
  BY <1>5, ProfilesAreApplied
<1> QED
  BY <1>1, <1>2, <1>3, <1>4, <1>5, BodyIsWritten, BodyIsUnlinked, RemovedIsDisabled, AppliedIsLogged,
     WorkspaceIsRendered, AgentStopsKeep DEF AgentNext

LEMMA AgentInvImplies == AgentInv => AgentTypeOK /\ WorkspaceFollowsProfile
BY DEF AgentInv, AgentShape, AgentTypeOK, Profiles, WorkspaceFollowsProfile

\* Once a command has run to its end the files of the environment are those of
\* its profile, whatever commands died before it
\* (features/agents/infrastructure/render_workspace.py).
THEOREM WorkspaceFollows == AgentSpec => []WorkspaceFollowsProfile
<1>1. AgentSpec => []AgentInv
  BY AgentStarts, AgentStepsKeep, PTL DEF AgentSpec
<1> QED
  BY <1>1, AgentInvImplies, PTL

-----------------------------------------------------------------------------
(* Views.                                                                    *)

ViewsShape ==
  /\ store \in [Documents -> 0..3] /\ files \in [Documents -> 0..3]
  /\ views = [v \in ViewKeys |-> views[v]] /\ \E n \in 0..3 : views["concept"] = <<n>>
  /\ running \in AllCommands \union {"none"}
  /\ phase \in {"idle", "laid out", "stored", "written", "rendered"}
  /\ (running = "none") <=> (phase = "idle")
  /\ commands \in 0..MaxCommands

\* How far the command under way has brought the files up to the store, and
\* what the last one has told of it.
ViewsInv ==
  /\ ViewsShape
  /\ phase \in {"written", "rendered"} => files = store
  /\ phase = "rendered" => /\ running \in Stages
                           /\ \A v \in ViewScope(running) : views[v] = Materialized(v, store)
  /\ phase = "idle" /\ ModesAgree(store) =>
       /\ told[2] # "stale"
       /\ told = <<"consolidate", "done">> => files = store /\ ViewErrors(ViewKeys) = {}

\* A view that is compared is expected as the materializer renders it, where
\* both take the branch for one of the same mode.
LEMMA RenderedAsExpected ==
  ASSUME NEW v \in ViewKeys, NEW docs, ModesAgree(docs), Compared(v, docs)
  PROVE  Materialized(v, docs) = Expected(v, docs)
<1>1. CASE v = "tech-stack"
  BY <1>1 DEF Materialized, Expected, ModesAgree
<1>2. CASE v = "architecture"
  BY <1>2 DEF Materialized, Expected, ModesAgree
<1>3. CASE v = "implementation-plan"
  <2>1. Materialized(v, docs) = MaterializedPlan(docs) /\ Expected(v, docs) = CheckedPlan(docs)
    BY <1>3 DEF Materialized, Expected
  <2>2. docs[IF CheckedAsFeature(docs) THEN "feature.plan" ELSE "mvp.plan"] # 0
    BY <1>3 DEF Compared
  <2> QED
    BY <2>1, <2>2 DEF MaterializedPlan, CheckedPlan, ModesAgree
<1>4. CASE v \notin {"tech-stack", "architecture", "implementation-plan"}
  BY <1>4 DEF Expected
<1> QED
  BY <1>1, <1>2, <1>3, <1>4

\* Views that were rendered from the documents in the files have no errors.
LEMMA RenderedHasNoErrors ==
  ASSUME NEW scope \in SUBSET ViewKeys, ModesAgree(files),
         \A v \in scope : views[v] = Materialized(v, files)
  PROVE  ViewErrors(scope) = {}
BY RenderedAsExpected DEF ViewErrors

LEMMA ScopesAreViews ==
  ASSUME NEW command
  PROVE  ViewScope(command) \in SUBSET ViewKeys
BY DEF ViewScope, ViewKeysByStage, ViewKeys, Stages

\* The concept's view shows a project name.
LEMMA ConceptShown ==
  ASSUME NEW docs \in [Documents -> 0..3]
  PROVE  \E n \in 0..3 : Materialized("concept", docs) = <<n>>
<1>1. ProjectName(docs) \in 0..3
  BY DEF ProjectName, Documents, Snapshots
<1>2. Materialized("concept", docs) = <<NameLabel(docs)>>
  BY DEF Materialized, ConceptView
<1> QED
  BY <1>1, <1>2 DEF NameLabel, Placeholder

LEMMA ViewsStart == ViewsInit => ViewsInv
<1> SUFFICES ASSUME ViewsInit PROVE ViewsInv
  OBVIOUS
<1>1. /\ store \in [Documents -> 0..3] /\ files = store
      /\ views = [v \in ViewKeys |-> Materialized(v, store)]
      /\ running = "none" /\ phase = "idle" /\ told = <<"none", "done">> /\ commands = 0
  BY DEF ViewsInit
<1>2. \E n \in 0..3 : views["concept"] = <<n>>
  BY <1>1, ConceptShown DEF ViewKeys
<1>3. running \in AllCommands \union {"none"}
  BY <1>1
<1> QED
  BY <1>1, <1>2, <1>3, ViewsAssumption DEF ViewsInv, ViewsShape

LEMMA LayoutKeeps ==
  ASSUME ViewsInv, NEW command \in Commands, Start(command)
  PROVE  ViewsInv'
<1>1. /\ running' = command /\ phase' = "laid out" /\ commands' = commands + 1 /\ commands < MaxCommands
      /\ files' = CompletedLayout(SnapshotScope(command)) /\ UNCHANGED <<store, views>>
  BY DEF Start
<1>0. /\ files \in [Documents -> 0..3] /\ commands \in 0..MaxCommands
      /\ \E n \in 0..3 : views["concept"] = <<n>>
  BY DEF ViewsInv, ViewsShape
<1>2. files' \in [Documents -> 0..3]
  <2>1. views["concept"][1] \in 0..3
    BY <1>0
  <2>2. [files EXCEPT !["mvp.concept"] = views["concept"][1]] \in [Documents -> 0..3]
    BY <1>0, <2>1
  <2> QED
    BY <1>0, <1>1, <2>2 DEF CompletedLayout
<1>3. command \in AllCommands /\ command # "none"
  BY ViewsAssumption DEF AllCommands, Stages, ViewKeysByStage, Snapshots
<1>4. commands' \in 0..MaxCommands
  <2>1. MaxCommands \in Nat /\ commands \in 0..MaxCommands
    BY <1>0, ViewsAssumption
  <2>2. commands' = commands + 1 /\ commands < MaxCommands
    BY <1>1
  <2> QED
    BY <2>1, <2>2
<1> QED
  BY <1>1, <1>2, <1>3, <1>4 DEF ViewsInv, ViewsShape

LEMMA ViewCommitKeeps ==
  ASSUME ViewsInv, Commit
  PROVE  ViewsInv'
<1>1. PICK new \in [Changed(running) -> 1..2] :
        store' = [doc \in Documents |-> IF doc \in DOMAIN new THEN new[doc] ELSE store[doc]]
  BY DEF Commit
<1>2. phase' = "stored" /\ phase = "laid out" /\ UNCHANGED <<files, views, running, commands>>
  BY DEF Commit
<1>3. store' \in [Documents -> 0..3]
  <2>1. store \in [Documents -> 0..3]
    BY DEF ViewsInv, ViewsShape
  <2>2. \A doc \in Documents : (IF doc \in DOMAIN new THEN new[doc] ELSE store[doc]) \in 0..3
    BY <2>1
  <2> QED
    BY <1>1, <2>2
<1> QED
  BY <1>2, <1>3 DEF ViewsInv, ViewsShape

\* A command that ends without a rendering.
LEMMA ViewEndKeeps ==
  ASSUME ViewsInv, NEW result \in {"refused", "valid", "invalid"}, End(result), phase # "idle",
         UNCHANGED <<store, files, views, commands>>
  PROVE  ViewsInv'
BY DEF ViewsInv, ViewsShape, End

LEMMA FilesKeep ==
  ASSUME ViewsInv, WriteFiles \/ SyncFiles
  PROVE  ViewsInv'
<1>1. /\ phase' = "written" /\ phase # "idle" /\ UNCHANGED <<views, running, commands>>
      /\ files' = store' /\ store' \in {store, files}
  BY DEF WriteFiles, SyncFiles, Written
<1> QED
  BY <1>1 DEF ViewsInv, ViewsShape

\* What is rendered of some views leaves every view in its place.
LEMMA RenderingKeepsShape ==
  ASSUME ViewsInv, NEW scope, views' = Rendered(scope)
  PROVE  /\ views' = [v \in ViewKeys |-> views'[v]]
         /\ \E n \in 0..3 : views'["concept"] = <<n>>
         /\ \A v \in scope \cap ViewKeys : views'[v] = Materialized(v, store)
<1>1. /\ views' = [v \in ViewKeys |-> views'[v]]
      /\ \A v \in ViewKeys : views'[v] = IF v \in scope THEN Materialized(v, store) ELSE views[v]
  BY DEF Rendered
<1>2. \E n \in 0..3 : Materialized("concept", store) = <<n>>
  BY ConceptShown DEF ViewsInv, ViewsShape
<1>3. \E n \in 0..3 : views["concept"] = <<n>>
  BY DEF ViewsInv, ViewsShape
<1>4. "concept" \in ViewKeys
  BY DEF ViewKeys
<1> QED
  BY <1>1, <1>2, <1>3, <1>4

LEMMA RenderKeeps ==
  ASSUME ViewsInv, Render
  PROVE  ViewsInv'
<1> DEFINE scope == ViewScope(running)
<1>1. phase = "written" /\ views' = Rendered(scope) /\ UNCHANGED <<store, files, commands>>
  BY DEF Render
<1>2. scope \in SUBSET ViewKeys
  BY ScopesAreViews
<1>3. /\ views' = [v \in ViewKeys |-> views'[v]]
      /\ \E n \in 0..3 : views'["concept"] = <<n>>
      /\ \A v \in scope : views'[v] = Materialized(v, store)
  BY <1>1, <1>2, RenderingKeepsShape
<1>4. files = store
  BY <1>1 DEF ViewsInv
<1>5. CASE running \in Stages
  <2>1. phase' = "rendered" /\ UNCHANGED <<running, told>>
    BY <1>5 DEF Render
  <2>2. \A v \in ViewScope(running)' : views'[v] = Materialized(v, store')
    BY <1>1, <1>3, <2>1
  <2>3. ViewsShape'
    BY <1>1, <1>3, <2>1 DEF ViewsInv, ViewsShape
  <2> QED
    BY <1>1, <1>4, <1>5, <2>1, <2>2, <2>3 DEF ViewsInv
<1>6. CASE running \notin Stages
  <2>1. told' = <<running, "done">> /\ running' = "none" /\ phase' = "idle"
    BY <1>6 DEF Render, End
  <2>2. ViewsShape'
    BY <1>1, <1>3, <2>1 DEF ViewsInv, ViewsShape
  <2>3. ASSUME ModesAgree(store) PROVE (ViewErrors(ViewKeys) = {})'
    <3>1. scope = ViewKeys
      BY <1>6 DEF ViewScope
    <3>2. \A v \in ViewKeys : Compared(v, files) => views'[v] = Expected(v, files)
      BY <1>3, <1>4, <2>3, <3>1, RenderedAsExpected
    <3> QED
      BY <1>1, <3>2 DEF ViewErrors
  <2> QED
    BY <1>1, <1>4, <2>1, <2>2, <2>3 DEF ViewsInv
<1> QED
  BY <1>5, <1>6

\* A stage command that comes to its check finds its own views in order.
LEMMA CheckKeeps ==
  ASSUME ViewsInv, Check
  PROVE  ViewsInv'
<1>1. /\ phase = "rendered" /\ UNCHANGED <<store, files, views, commands>>
      /\ End(IF ViewErrors(ViewScope(running)) = {} THEN "synced" ELSE "stale")
  BY DEF Check
<1>2. ModesAgree(store) => ViewErrors(ViewScope(running)) = {}
  BY <1>1, RenderedHasNoErrors, ScopesAreViews DEF ViewsInv
<1>3. /\ running' = "none" /\ phase' = "idle"
      /\ told'[2] \in {"synced", "stale"} /\ told' # <<"consolidate", "done">>
      /\ ModesAgree(store) => told'[2] = "synced"
  BY <1>1, <1>2 DEF End
<1> QED
  BY <1>1, <1>3 DEF ViewsInv, ViewsShape

LEMMA CrashKeeps ==
  ASSUME ViewsInv, Crash
  PROVE  ViewsInv'
<1>1. PICK scope : views' = Rendered(scope)
  BY DEF Crash
<1>2. /\ told' = <<running, "died">> /\ running' = "none" /\ phase' = "idle"
      /\ UNCHANGED <<store, files, commands>>
  BY DEF Crash, End
<1>3. views' = [v \in ViewKeys |-> views'[v]] /\ \E n \in 0..3 : views'["concept"] = <<n>>
  BY <1>1, RenderingKeepsShape
<1> QED
  BY <1>2, <1>3 DEF ViewsInv, ViewsShape

LEMMA ViewStepsKeep ==
  ASSUME ViewsInv, [ViewsNext]_viewVars
  PROVE  ViewsInv'
<1>1. CASE UNCHANGED viewVars
  BY <1>1 DEF viewVars, ViewsInv, ViewsShape, ViewErrors, ModesAgree
<1>2. ASSUME NEW command \in Commands, Start(command) PROVE ViewsInv'
  BY <1>2, LayoutKeeps
<1>3. CASE Refuse \/ Validate
  <2>1. /\ phase = "laid out" /\ UNCHANGED <<store, files, views, commands>>
        /\ \E result \in {"refused", "valid", "invalid"} : End(result)
    BY <1>3 DEF Refuse, Validate
  <2> QED
    BY <2>1, ViewEndKeeps
<1> QED
  BY <1>1, <1>2, <1>3, ViewCommitKeeps, FilesKeep, RenderKeeps, CheckKeeps, CrashKeeps DEF ViewsNext

LEMMA ViewsInvImplies == ViewsInv => ViewsTypeOK /\ ViewsPassTheirCheck
BY DEF ViewsInv, ViewsShape, ViewsTypeOK, ViewsPassTheirCheck

\* A stage command that is not interrupted does not find its own views stale,
\* and a whole consolidation leaves nothing for the check to find, whatever
\* died before (projection/materialize.py, shared/validation_views.py).
THEOREM ViewsPass == ViewsSpec => []ViewsPassTheirCheck
<1>1. ViewsSpec => []ViewsInv
  BY ViewsStart, ViewStepsKeep, PTL DEF ViewsSpec
<1> QED
  BY <1>1, ViewsInvImplies, PTL

-----------------------------------------------------------------------------
(* Types.                                                                    *)

\* The revision of a bundle follows from the log: a row is proposed one after
\* the active bundle, which is that of an earlier row. An apply keeps a place
\* in the log for its own row.
ChangeNumbers ==
  /\ branch \in Branches
  /\ exports \subseteq 1..MaxChangeRows
  /\ changeStore = Missing => changeLog = <<>>
  /\ Len(changeLog) \in 0..MaxChangeRows
  /\ changeCommand.name = "apply" => Len(changeLog) < MaxChangeRows
  /\ changeCommand.name = "export" => changeStore.bundle # Missing
  /\ \A i \in 1..Len(changeLog) : /\ changeLog[i].after.revision \in 1..i
                                  /\ changeLog[i].after.revision <= changeStore.revision + 1
  /\ changeStore # Missing /\ changeStore.bundle # Missing =>
       changeStore.bundle.revision \in (1..changeStore.revision) \cap (1..Len(changeLog))
  /\ changeCommand.name = "apply" =>
       changeCommand.bundle.revision \in (1..changeStore.revision) \cap (1..Len(changeLog))

ChangeTyped == ChangeInv /\ ChangeNumbers

LEMMA FoundIsNumbered ==
  ASSUME ChangeTyped, NEW id, ChangeRows(id) # {}
  PROVE  /\ FindChange(id) \in ChangeLogRows
         /\ FindChange(id).after.revision \in 1..Len(changeLog)
         /\ FindChange(id).after.revision <= changeStore.revision + 1
<1>1. ChangeRows(id) \in SUBSET Nat
  BY DEF ChangeRows
<1>2. \E i \in ChangeRows(id) : \A j \in ChangeRows(id) : i <= j
  BY <1>1, SmallestIn
<1>3. PICK i \in ChangeRows(id) : FindChange(id) = changeLog[i]
  BY <1>2 DEF FindChange
<1>4. i \in 1..Len(changeLog) /\ Len(changeLog) \in Nat /\ changeLog \in Seq(ChangeLogRows)
  BY DEF ChangeRows, ChangeTyped, ChangeInv, ChangeShape
<1>5. changeLog[i].after.revision \in 1..i /\ changeLog[i].after.revision <= changeStore.revision + 1
  BY <1>4 DEF ChangeTyped, ChangeNumbers
<1> QED
  BY <1>3, <1>4, <1>5

LEMMA NumbersStart == ChangeInit => ChangeTyped
<1> SUFFICES ASSUME ChangeInit PROVE ChangeNumbers
  BY ChangeStarts DEF ChangeTyped
<1>1. branch \in Branches
  BY ChangeAssumption DEF ChangeInit, Origin, Branches
<1>2. changeStore = Missing /\ changeLog = <<>> /\ exports = {} /\ changeCommand.name = "none"
  BY DEF ChangeInit, ChangeAtRest
<1> QED
  BY <1>1, <1>2, ChangeAssumption DEF ChangeNumbers

\* A row that joins the log.
LEMMA RowIsNumbered ==
  ASSUME ChangeTyped, NEW r \in ChangeLogRows, changeLog' = Append(changeLog, r),
         Len(changeLog) < MaxChangeRows, changeStore' = changeStore, changeStore \in Stores,
         r.after.revision \in 1..(Len(changeLog) + 1), r.after.revision <= changeStore.revision + 1
  PROVE  /\ Len(changeLog') = Len(changeLog) + 1 /\ Len(changeLog') \in 0..MaxChangeRows
         /\ \A i \in 1..Len(changeLog') : /\ changeLog'[i].after.revision \in 1..i
                                          /\ changeLog'[i].after.revision <= changeStore'.revision + 1
<1>1. changeLog \in Seq(ChangeLogRows) /\ Len(changeLog) \in Nat
  BY DEF ChangeTyped, ChangeInv, ChangeShape
<1>2. /\ Len(changeLog') = Len(changeLog) + 1 /\ changeLog'[Len(changeLog) + 1] = r
      /\ \A i \in 1..Len(changeLog) : changeLog'[i] = changeLog[i]
  BY <1>1
<1>3. Len(changeLog') \in 0..MaxChangeRows
  BY <1>1, <1>2, ChangeAssumption
<1>4. ASSUME NEW i \in 1..Len(changeLog')
      PROVE  changeLog'[i].after.revision \in 1..i /\ changeLog'[i].after.revision <= changeStore'.revision + 1
  <2>1. CASE i = Len(changeLog) + 1
    BY <1>2, <2>1
  <2>2. CASE i # Len(changeLog) + 1
    <3>1. i \in 1..Len(changeLog)
      BY <1>1, <1>2, <2>2
    <3> QED
      BY <1>2, <3>1 DEF ChangeTyped, ChangeNumbers
  <2> QED
    BY <2>1, <2>2
<1> QED
  BY <1>2, <1>3, <1>4

LEMMA ProposalIsNumbered ==
  ASSUME ChangeTyped, NEW id \in ChangeIds, checkedOut' = checkedOut, ProposeChange(id)
  PROVE  ChangeNumbers'
<1> DEFINE row == [id |-> id, status |-> "pending", after |-> Bundle(BundleRevision)]
<1>1. /\ changeCommand = ChangeAtRest /\ changeStore # Missing /\ changeLog' = Append(changeLog, row)
      /\ Len(changeLog) < MaxChangeRows
      /\ UNCHANGED <<branch, changeStore, exports, changeCommand>>
  BY DEF ProposeChange
<1>2. /\ changeStore \in Stores /\ branch \in [Parts -> Nat] /\ Len(changeLog) \in Nat
      /\ exports \subseteq Nat
  BY <1>1 DEF ChangeTyped, ChangeInv, ChangeShape
<1>3. changeStore.revision \in Nat
  BY <1>2 DEF Stores
<1>4. BundleRevision \in 1..(Len(changeLog) + 1) /\ BundleRevision <= changeStore.revision + 1
  <2>1. CASE changeStore.bundle = Missing
    BY <1>2, <1>3, <2>1 DEF BundleRevision
  <2>2. CASE changeStore.bundle # Missing
    <3>1. changeStore.bundle.revision \in (1..changeStore.revision) \cap (1..Len(changeLog))
      BY <1>1, <2>2 DEF ChangeTyped, ChangeNumbers
    <3> QED
      BY <1>2, <1>3, <2>2, <3>1 DEF BundleRevision
  <2> QED
    BY <2>1, <2>2
<1>5. row.after.revision = BundleRevision
  BY DEF Bundle
<1>6. row \in ChangeLogRows
  BY <1>2, <1>4, BundleType DEF ChangeLogRows
<1> HIDE DEF row
<1>7. /\ Len(changeLog') = Len(changeLog) + 1 /\ Len(changeLog') \in 0..MaxChangeRows
      /\ \A i \in 1..Len(changeLog') : /\ changeLog'[i].after.revision \in 1..i
                                       /\ changeLog'[i].after.revision <= changeStore'.revision + 1
  BY <1>1, <1>2, <1>4, <1>5, <1>6, RowIsNumbered
<1>8. changeCommand'.name = "none"
  BY <1>1 DEF ChangeAtRest
<1> QED
  BY <1>1, <1>2, <1>3, <1>7, <1>8 DEF ChangeTyped, ChangeNumbers

LEMMA ApplyIsNumbered ==
  ASSUME Missing \notin Stores, ChangeTyped, NEW id \in ChangeIds, checkedOut' = checkedOut, BeginApply(id)
  PROVE  ChangeNumbers'
<1> DEFINE row == FindChange(id)
<1>1. /\ changeStore # Missing /\ row # Missing /\ Len(changeLog) < MaxChangeRows
      /\ changeStore' = [changeStore EXCEPT !.revision = @ + 1, !.bundle = row.after]
      /\ changeCommand' = [name |-> "apply", id |-> id, next |-> "consolidate", bundle |-> row.after]
      /\ UNCHANGED <<branch, changeLog, exports>>
  BY DEF BeginApply
<1>2. ChangeRows(id) # {}
  BY <1>1 DEF FindChange
<1>3. /\ row \in ChangeLogRows /\ row.after.revision \in 1..Len(changeLog)
      /\ row.after.revision <= changeStore.revision + 1
  BY <1>2, FoundIsNumbered
<1> HIDE DEF row
<1>4. changeStore \in Stores /\ changeStore.revision \in Nat /\ Len(changeLog) \in Nat
  BY <1>1 DEF ChangeTyped, ChangeInv, ChangeShape, Stores
<1>5. /\ changeStore'.revision = changeStore.revision + 1 /\ changeStore'.bundle = row.after
      /\ changeCommand'.bundle = row.after
  BY <1>1, <1>4 DEF Stores
<1>6. row.after.revision \in (1..changeStore'.revision) \cap (1..Len(changeLog'))
  BY <1>1, <1>3, <1>4, <1>5
<1>7. \A i \in 1..Len(changeLog') : /\ changeLog'[i].after.revision \in 1..i
                                    /\ changeLog'[i].after.revision <= changeStore'.revision + 1
  BY <1>1, <1>4, <1>5 DEF ChangeTyped, ChangeNumbers
<1>8. changeStore' # Missing
  BY ApplyBeginKeeps, <1>1 DEF ChangeTyped, ChangeInv, ChangeShape
<1> QED
  BY <1>1, <1>5, <1>6, <1>7, <1>8 DEF ChangeTyped, ChangeNumbers

LEMMA SmallStepsAreNumbered ==
  ASSUME Missing \notin Stores, ChangeTyped, checkedOut' = checkedOut,
         InitChange \/ Consolidate \/ SaveRebuilt \/ WriteSummary
  PROVE  ChangeNumbers'
<1>1. CASE InitChange
  BY <1>1 DEF InitChange, ChangeTyped, ChangeNumbers, ChangeAtRest
<1>2. CASE Consolidate
  <2>1. changeCommand \in Applying
    BY <1>2 DEF Consolidate, ChangeTyped, ChangeInv, ChangeShape, Exporting, ChangeAtRest
  <2>2. /\ changeCommand'.name = "apply" /\ changeCommand'.bundle = changeCommand.bundle
        /\ branch' = [branch EXCEPT !["artifact"] = branch["memory"]] /\ changeCommand.name = "apply"
        /\ UNCHANGED <<changeStore, changeLog, exports>>
    BY <1>2, <2>1 DEF Consolidate, Applying
  <2>3. branch' \in Branches
    BY <2>2 DEF ChangeTyped, ChangeNumbers, Branches, Parts
  <2> QED
    BY <2>2, <2>3 DEF ChangeTyped, ChangeNumbers
<1>3. CASE SaveRebuilt
  <2> DEFINE b == RebuiltBundle(changeCommand.bundle)
  <2>1. changeCommand \in Applying /\ changeStore \in Stores
    BY <1>3 DEF SaveRebuilt, ChangeTyped, ChangeInv, ChangeShape, Exporting, ChangeAtRest
  <2>2. b.revision = changeCommand.bundle.revision
    BY DEF RebuiltBundle, Bundle
  <2> HIDE DEF b
  <2>3. /\ changeCommand'.name = "apply" /\ changeCommand'.bundle = b /\ changeCommand.name = "apply"
        /\ changeStore'.revision = changeStore.revision /\ changeStore'.bundle = b
        /\ UNCHANGED <<branch, changeLog, exports>>
    BY <1>3, <2>1 DEF SaveRebuilt, Applying, Stores, b
  <2>4. changeStore' # Missing
    BY <1>3, RebuildKeeps, <2>3 DEF ChangeTyped, ChangeInv, ChangeShape
  <2> QED
    BY <2>1, <2>2, <2>3, <2>4 DEF ChangeTyped, ChangeNumbers
<1>4. CASE WriteSummary
  <2>1. changeCommand \in Applying
    BY <1>4 DEF WriteSummary, ChangeTyped, ChangeInv, ChangeShape, Exporting, ChangeAtRest
  <2>2. /\ changeCommand'.name = "apply" /\ changeCommand'.bundle = changeCommand.bundle
        /\ changeCommand.name = "apply" /\ UNCHANGED <<branch, changeStore, changeLog, exports>>
    BY <1>4, <2>1 DEF WriteSummary, Applying
  <2> QED
    BY <2>2 DEF ChangeTyped, ChangeNumbers
<1> QED
  BY <1>1, <1>2, <1>3, <1>4

LEMMA FinishIsNumbered ==
  ASSUME Missing \notin Stores, ChangeTyped, checkedOut' = checkedOut, FinishApply
  PROVE  ChangeNumbers'
<1> DEFINE row == [id |-> changeCommand.id, status |-> "applied",
                   after |-> FindChange(changeCommand.id).after]
<1>1. /\ changeCommand.name = "apply" /\ changeCommand \in Applying /\ changeStore \in Stores
      /\ changeLog' = Append(changeLog, row) /\ changeCommand' = ChangeAtRest
      /\ ChangeRows(changeCommand.id) # {}
      /\ UNCHANGED <<branch, changeStore, exports>>
  BY DEF FinishApply, ChangeTyped, ChangeInv, ChangeShape, Exporting, ChangeAtRest
<1>2. Len(changeLog) \in Nat /\ Len(changeLog) < MaxChangeRows
  BY <1>1 DEF ChangeTyped, ChangeInv, ChangeShape, ChangeNumbers
<1>3. /\ FindChange(changeCommand.id) \in ChangeLogRows
      /\ FindChange(changeCommand.id).after.revision \in 1..Len(changeLog)
      /\ FindChange(changeCommand.id).after.revision <= changeStore.revision + 1
  BY <1>1, FoundIsNumbered
<1>4. /\ row \in ChangeLogRows /\ row.after.revision \in 1..(Len(changeLog) + 1)
      /\ row.after.revision <= changeStore.revision + 1
  BY <1>1, <1>2, <1>3 DEF ChangeLogRows, Applying
<1> HIDE DEF row
<1>5. /\ Len(changeLog') = Len(changeLog) + 1 /\ Len(changeLog') \in 0..MaxChangeRows
      /\ \A i \in 1..Len(changeLog') : /\ changeLog'[i].after.revision \in 1..i
                                       /\ changeLog'[i].after.revision <= changeStore'.revision + 1
  BY <1>1, <1>2, <1>4, RowIsNumbered
<1>6. changeCommand'.name = "none"
  BY <1>1 DEF ChangeAtRest
<1>7. 1..Len(changeLog) \subseteq 1..Len(changeLog')
  BY <1>2, <1>5
<1> QED
  BY <1>1, <1>5, <1>6, <1>7 DEF ChangeTyped, ChangeNumbers

LEMMA ExportsAreNumbered ==
  ASSUME Missing \notin Stores, ChangeTyped, checkedOut' = checkedOut,
         \/ BeginExport \/ FinishExport \/ ChangeDies
         \/ \E x \in Parts : Edit(x)
         \/ \E revision \in exports : LoseExport(revision)
  PROVE  ChangeNumbers'
<1>1. CASE BeginExport
  <2>1. /\ changeStore # Missing /\ changeStore.bundle # Missing
        /\ exports' = exports \cup {changeStore.bundle.revision} /\ changeCommand'.name = "export"
        /\ UNCHANGED <<branch, changeStore, changeLog>>
    BY <1>1 DEF BeginExport
  <2>2. changeStore.bundle.revision \in 1..Len(changeLog) /\ Len(changeLog) \in 0..MaxChangeRows
    BY <2>1 DEF ChangeTyped, ChangeNumbers
  <2>3. exports' \subseteq 1..MaxChangeRows
    BY <2>1, <2>2, ChangeAssumption DEF ChangeTyped, ChangeNumbers
  <2> QED
    BY <2>1, <2>3 DEF ChangeTyped, ChangeNumbers
<1>2. CASE FinishExport
  <2>1. changeStore \in Stores /\ changeStore # Missing /\ changeStore.bundle \in Bundles
    BY <1>2 DEF FinishExport, ChangeTyped, ChangeInv, ChangeShape, Applying, ChangeAtRest
  <2>2. /\ changeStore'.revision = changeStore.revision
        /\ changeStore'.bundle.revision = changeStore.bundle.revision
        /\ changeCommand'.name = "none" /\ UNCHANGED <<branch, changeLog, exports>>
    BY <1>2, <2>1 DEF FinishExport, Stores, Bundles, ChangeAtRest
  <2>3. changeStore.bundle # Missing
    BY <1>2 DEF FinishExport, ChangeTyped, ChangeNumbers
  <2>4. changeStore' # Missing
    <3>1. changeCommand.bundle.revision \in Nat
      BY <1>2 DEF FinishExport, ChangeTyped, ChangeInv, ChangeShape, Applying, Exporting, Bundles, ChangeAtRest
    <3>2. [changeStore.bundle EXCEPT !.exported = {changeCommand.bundle.revision}] \in Bundles
      BY <2>1, <3>1 DEF Bundles
    <3> QED
      BY <1>2, <2>1, <3>2 DEF FinishExport, Stores
  <2> QED
    BY <2>1, <2>2, <2>3, <2>4 DEF ChangeTyped, ChangeNumbers
<1>3. CASE ChangeDies
  BY <1>3 DEF ChangeDies, ChangeAtRest, ChangeTyped, ChangeNumbers
<1>4. ASSUME NEW x \in Parts, Edit(x) PROVE ChangeNumbers'
  <2>1. branch \in Branches /\ branch' = [branch EXCEPT ![x] = @ + 1] /\ branch[x] < MaxVersion
        /\ UNCHANGED <<changeStore, changeLog, exports, changeCommand>>
    BY <1>4 DEF Edit, ChangeTyped, ChangeNumbers
  <2>2. branch[x] + 1 \in 0..MaxVersion
    BY <2>1, ChangeAssumption DEF Branches
  <2>3. branch' \in Branches
    BY <2>1, <2>2 DEF Branches
  <2> QED
    BY <2>1, <2>3 DEF ChangeTyped, ChangeNumbers
<1>5. ASSUME NEW revision \in exports, LoseExport(revision) PROVE ChangeNumbers'
  BY <1>5 DEF LoseExport, ChangeTyped, ChangeNumbers
<1> QED
  BY <1>1, <1>2, <1>3, <1>4, <1>5

\* Every revision of a bundle is one that the log and the store have come to,
\* and every export directory is named after one.
THEOREM ChangeTypesHold ==
  ASSUME Missing \notin Stores
  PROVE  ChangeSpec => []ChangeTypeOK
<1>1. ASSUME ChangeTyped, [ChangeNext]_changeVars PROVE ChangeTyped'
  <2>1. CASE UNCHANGED changeVars
    <3>1. ChangeInv'
      BY <1>1, ChangeStepsKeep DEF ChangeTyped
    <3>2. ChangeNumbers'
      BY <1>1, <2>1 DEF changeVars, ChangeTyped, ChangeNumbers
    <3> QED
      BY <3>1, <3>2 DEF ChangeTyped
  <2> QED
    BY <1>1, <2>1, ChangeStepsKeep, ProposalIsNumbered, ApplyIsNumbered, SmallStepsAreNumbered,
       FinishIsNumbered, ExportsAreNumbered DEF ChangeNext, ChangeTyped
<1>2. ChangeTyped => ChangeTypeOK
  BY DEF ChangeTyped, ChangeNumbers, ChangeTypeOK
<1> QED
  BY <1>1, <1>2, NumbersStart, PTL DEF ChangeSpec

PolicyLogRows ==
  [id : PolicyIds, rule : Rules, action : {"set", "deprecate"},
   after : Policies \union {Unset}, status : {"pending", "applied"}]

\* A proposal that is looked up is a row of the log, one that sets a policy has
\* it, and a command names what it has looked up.
RuleShape ==
  /\ policies \in [Rules -> Policies \union {Unset}]
  /\ policyLog \in Seq(PolicyLogRows)
  /\ \A i \in 1..Len(policyLog) : policyLog[i].action = "set" => policyLog[i].after \in Policies
  /\ requests = [id \in PolicyIds |-> requests[id]]
  /\ \A id \in PolicyIds : requests[id] # Unset =>
       \E key : \E status \in {"pending", "applied"} : requests[id] = [key |-> key, status |-> status]
  /\ ruleCommand \in [name : {"apply", "publish", "refresh", "row", "request"}, id : PolicyIds]
                       \union {RuleAtRest}
  /\ ruleCommand.name \in {"publish", "refresh", "row"} => PolicyRows(ruleCommand.id) # {}
  /\ ruleCommand.name = "request" => requests[ruleCommand.id] # Unset

\* The latest row of a proposal.
LEMMA FoundPolicy ==
  ASSUME RuleShape, NEW id, PolicyRows(id) # {}
  PROVE  /\ FindPolicy(id) \in PolicyLogRows
         /\ FindPolicy(id).action = "set" => FindPolicy(id).after \in Policies
<1> DEFINE n == Len(policyLog)
           back == {n - i : i \in PolicyRows(id)}
<1>1. n \in Nat /\ PolicyRows(id) \subseteq 1..n /\ policyLog \in Seq(PolicyLogRows)
  BY DEF RuleShape, PolicyRows
<1> HIDE DEF n
<1>2. back \in SUBSET Nat /\ back # {}
  BY <1>1
<1>3. PICK k \in back : \A m \in back : k <= m
  BY <1>2, SmallestIn
<1>4. \E i \in PolicyRows(id) : \A j \in PolicyRows(id) : j <= i
  <2>1. PICK i \in PolicyRows(id) : k = n - i
    BY <1>3
  <2>2. \A j \in PolicyRows(id) : n - i <= n - j
    BY <1>3, <2>1
  <2> QED
    BY <1>1, <2>1, <2>2
<1>5. PICK i \in PolicyRows(id) : FindPolicy(id) = policyLog[i]
  BY <1>4 DEF FindPolicy
<1> QED
  BY <1>1, <1>5 DEF RuleShape, n

LEMMA PolicyLogGrows ==
  ASSUME RuleShape, NEW r \in PolicyLogRows, policyLog' = Append(policyLog, r),
         r.action = "set" => r.after \in Policies
  PROVE  /\ policyLog' \in Seq(PolicyLogRows)
         /\ \A i \in 1..Len(policyLog') : policyLog'[i].action = "set" => policyLog'[i].after \in Policies
         /\ \A id : PolicyRows(id) # {} => PolicyRows(id)' # {}
<1>1. policyLog \in Seq(PolicyLogRows) /\ Len(policyLog) \in Nat
  BY DEF RuleShape
<1>2. /\ policyLog' \in Seq(PolicyLogRows) /\ Len(policyLog') = Len(policyLog) + 1
      /\ policyLog'[Len(policyLog) + 1] = r
      /\ \A i \in 1..Len(policyLog) : policyLog'[i] = policyLog[i]
  BY <1>1
<1>3. ASSUME NEW i \in 1..Len(policyLog'), policyLog'[i].action = "set" PROVE policyLog'[i].after \in Policies
  <2>1. CASE i = Len(policyLog) + 1
    BY <1>2, <1>3, <2>1
  <2>2. CASE i # Len(policyLog) + 1
    <3>1. i \in 1..Len(policyLog)
      BY <1>1, <1>2, <2>2
    <3> QED
      BY <1>2, <1>3, <3>1 DEF RuleShape
  <2> QED
    BY <2>1, <2>2
<1>4. ASSUME NEW id, PolicyRows(id) # {} PROVE PolicyRows(id)' # {}
  <2>1. PICK i \in 1..Len(policyLog) : policyLog[i].id = id
    BY <1>4 DEF PolicyRows
  <2>2. i \in 1..Len(policyLog') /\ policyLog'[i].id = id
    BY <1>1, <1>2, <2>1
  <2> QED
    BY <2>2 DEF PolicyRows
<1> QED
  BY <1>2, <1>3, <1>4

LEMMA RulesStart == RuleInit => RuleShape
<1> SUFFICES ASSUME RuleInit PROVE RuleShape
  OBVIOUS
<1>1. /\ policies \in [Rules -> Policies \union {Unset}] /\ policyLog = <<>>
      /\ requests = [id \in PolicyIds |-> Unset] /\ ruleCommand = RuleAtRest
      /\ ruleCommand.name = "none"
  BY DEF RuleInit, RuleAtRest
<1>2. policyLog \in Seq(PolicyLogRows) /\ Len(policyLog) = 0
  BY <1>1
<1> QED
  BY <1>1, <1>2 DEF RuleShape

LEMMA NormalizedIsPolicy ==
  ASSUME NEW payload \in Payloads
  PROVE  Normalized(payload) \in Policies
BY DEF Payloads, Normalized, Policies

LEMMA ProposedKeeps ==
  ASSUME RuleShape, NEW id \in PolicyIds, NEW rule \in Rules, NEW action \in {"set", "deprecate"},
         NEW after \in Policies \union {Unset}, action = "set" => after \in Policies,
         NEW next \in {RuleAtRest, [name |-> "apply", id |-> id]},
         Proposed(id, rule, action, after, next)
  PROVE  RuleShape'
<1> DEFINE r == [id |-> id, rule |-> rule, action |-> action, after |-> after, status |-> "pending"]
<1>1. /\ policyLog' = Append(policyLog, r) /\ ruleCommand' = next /\ UNCHANGED <<policies, requests>>
  BY DEF Proposed, gateVars
<1>2. r \in PolicyLogRows /\ r.action = action /\ r.after = after
  BY DEF PolicyLogRows
<1> HIDE DEF r
<1>3. /\ policyLog' \in Seq(PolicyLogRows)
      /\ \A i \in 1..Len(policyLog') : policyLog'[i].action = "set" => policyLog'[i].after \in Policies
  BY <1>1, <1>2, PolicyLogGrows
<1>4. /\ ruleCommand' \in [name : {"apply", "publish", "refresh", "row", "request"}, id : PolicyIds]
                            \union {RuleAtRest}
      /\ ruleCommand'.name \in {"none", "apply"}
  BY <1>1 DEF RuleAtRest
<1> QED
  BY <1>1, <1>3, <1>4 DEF RuleShape

LEMMA PolicyCommandsKeep ==
  ASSUME RuleShape, NEW id \in PolicyIds, NEW rule \in Rules,
         \/ \E payload \in Payloads :
              ProposePolicy(id, rule, payload) \/ SetPolicy(id, rule, payload)
         \/ DeprecatePolicy(id, rule)
  PROVE  RuleShape'
<1>1. ASSUME NEW payload \in Payloads, ProposePolicy(id, rule, payload) \/ SetPolicy(id, rule, payload)
      PROVE  RuleShape'
  <2>1. PICK next \in {RuleAtRest, [name |-> "apply", id |-> id]} :
          Proposed(id, rule, "set", Normalized(payload), next)
    BY <1>1 DEF ProposePolicy, SetPolicy
  <2> QED
    BY <2>1, NormalizedIsPolicy, ProposedKeeps
<1>2. CASE DeprecatePolicy(id, rule)
  <2>1. Proposed(id, rule, "deprecate", Unset, [name |-> "apply", id |-> id])
    BY <1>2 DEF DeprecatePolicy
  <2> QED
    BY <2>1, ProposedKeeps
<1> QED
  BY <1>1, <1>2

LEMMA PolicyApplyKeeps ==
  ASSUME RuleShape, NEW id \in PolicyIds, ApplyPolicy(id)
  PROVE  RuleShape'
<1> DEFINE p == FindPolicy(id)
<1>1. /\ PolicyRows(id) # {}
      /\ p.action = "deprecate" => policies[p.rule] # Unset
      /\ policies' = [policies EXCEPT ![p.rule] = ChangedPolicy(p)]
      /\ ruleCommand' = [name |-> "publish", id |-> id]
      /\ UNCHANGED <<policyLog, requests>>
  BY DEF ApplyPolicy, gateVars
<1>2. p \in PolicyLogRows /\ (p.action = "set" => p.after \in Policies)
  BY <1>1, FoundPolicy
<1> HIDE DEF p
<1>3. ChangedPolicy(p) \in Policies
  <2>1. CASE p.action = "set"
    BY <1>2, <2>1 DEF ChangedPolicy
  <2>2. CASE p.action = "deprecate"
    <3>1. policies[p.rule] \in Policies
      BY <1>1, <1>2, <2>2 DEF RuleShape, PolicyLogRows
    <3> QED
      BY <2>2, <3>1 DEF ChangedPolicy, Policies
  <2> QED
    BY <1>2, <2>1, <2>2 DEF PolicyLogRows
<1>4. policies' \in [Rules -> Policies \union {Unset}]
  BY <1>1, <1>3 DEF RuleShape
<1>5. /\ ruleCommand' \in [name : {"apply", "publish", "refresh", "row", "request"}, id : PolicyIds]
      /\ ruleCommand'.name = "publish" /\ ruleCommand'.id = id /\ PolicyRows(id)' # {}
  BY <1>1 DEF PolicyRows
<1> QED
  BY <1>1, <1>4, <1>5 DEF RuleShape

LEMMA PolicyWritesKeep ==
  ASSUME RuleShape,
         \/ PublishPolicies \/ RefreshViews \/ AppendApplied \/ ReadPolicies
         \/ \E b \in TopLevel \union Nested : ConsolidateBranch(b)
  PROVE  RuleShape'
<1>1. ASSUME NEW next \in {"refresh", "row"}, ruleCommand.name \in {"publish", "refresh"},
             ruleCommand' = [ruleCommand EXCEPT !.name = next],
             UNCHANGED <<policies, policyLog, requests>>
      PROVE  RuleShape'
  <2>1. ruleCommand \in [name : {"apply", "publish", "refresh", "row", "request"}, id : PolicyIds]
    BY <1>1 DEF RuleShape, RuleAtRest
  <2>2. /\ ruleCommand' \in [name : {"apply", "publish", "refresh", "row", "request"}, id : PolicyIds]
        /\ ruleCommand'.name = next /\ ruleCommand'.id = ruleCommand.id
        /\ PolicyRows(ruleCommand.id)' = PolicyRows(ruleCommand.id)
    BY <1>1, <2>1 DEF PolicyRows
  <2> QED
    BY <1>1, <2>2 DEF RuleShape
<1>2. CASE AppendApplied
  <2> DEFINE r == [FindPolicy(ruleCommand.id) EXCEPT !.status = "applied"]
  <2>1. /\ ruleCommand.name = "row" /\ policyLog' = Append(policyLog, r)
        /\ ruleCommand' = RuleAtRest /\ UNCHANGED <<policies, requests>>
    BY <1>2 DEF AppendApplied, gateVars
  <2>2. /\ FindPolicy(ruleCommand.id) \in PolicyLogRows
        /\ FindPolicy(ruleCommand.id).action = "set" => FindPolicy(ruleCommand.id).after \in Policies
    BY <2>1, FoundPolicy DEF RuleShape
  <2>3. r \in PolicyLogRows /\ (r.action = "set" => r.after \in Policies)
    BY <2>2 DEF PolicyLogRows
  <2> HIDE DEF r
  <2>4. /\ policyLog' \in Seq(PolicyLogRows)
        /\ \A i \in 1..Len(policyLog') : policyLog'[i].action = "set" => policyLog'[i].after \in Policies
    BY <2>1, <2>3, PolicyLogGrows
  <2> QED
    BY <2>1, <2>4 DEF RuleShape, RuleAtRest
<1>3. CASE ReadPolicies \/ \E b \in TopLevel \union Nested : ConsolidateBranch(b)
  BY <1>3 DEF ReadPolicies, ConsolidateBranch, gateVars, RuleShape, PolicyRows
<1> QED
  BY <1>1, <1>2, <1>3 DEF PublishPolicies, RefreshViews, gateVars

LEMMA WaiverCommandsKeep ==
  ASSUME RuleShape,
         \/ \E id \in PolicyIds : \E gate : ProposeWaiver(id, gate)
         \/ \E id \in PolicyIds : ApplyWaiver(id)
         \/ RewriteRequests \/ RuleDies
  PROVE  RuleShape'
<1>1. ASSUME NEW id \in PolicyIds, NEW gate, ProposeWaiver(id, gate) PROVE RuleShape'
  <2>1. /\ requests' = [requests EXCEPT ![id] = [key |-> gate.key, status |-> "pending"]]
        /\ ruleCommand = RuleAtRest /\ UNCHANGED <<policies, policyLog, ruleCommand>>
    BY <1>1 DEF ProposeWaiver, policyVars
  <2>2. requests' = [i \in PolicyIds |-> IF i = id THEN [key |-> gate.key, status |-> "pending"] ELSE requests[i]]
    BY <2>1 DEF RuleShape
  <2>3. \A i \in PolicyIds : requests'[i] # Unset =>
          \E key : \E status \in {"pending", "applied"} : requests'[i] = [key |-> key, status |-> status]
    <3> SUFFICES ASSUME NEW i \in PolicyIds, requests'[i] # Unset
                 PROVE  \E key : \E status \in {"pending", "applied"} :
                           requests'[i] = [key |-> key, status |-> status]
      OBVIOUS
    <3>1. CASE i = id
      <4>1. requests'[i] = [key |-> gate.key, status |-> "pending"]
        BY <2>2, <3>1
      <4> QED
        BY <4>1
    <3>2. CASE i # id
      <4>1. requests'[i] = requests[i]
        BY <2>2, <3>2
      <4> QED
        BY <4>1 DEF RuleShape
    <3> QED
      BY <3>1, <3>2
  <2>4. ruleCommand'.name = "none"
    BY <2>1 DEF RuleAtRest
  <2> QED
    BY <2>1, <2>2, <2>3, <2>4 DEF RuleShape
<1>2. ASSUME NEW id \in PolicyIds, ApplyWaiver(id) PROVE RuleShape'
  <2>1. /\ requests[id] # Unset /\ ruleCommand' = [name |-> "request", id |-> id]
        /\ UNCHANGED <<policies, policyLog, requests>>
    BY <1>2 DEF ApplyWaiver, policyVars
  <2> QED
    BY <2>1 DEF RuleShape
<1>3. CASE RewriteRequests
  <2> DEFINE id == ruleCommand.id
  <2>1. /\ ruleCommand.name = "request" /\ requests' = [requests EXCEPT ![id].status = "applied"]
        /\ ruleCommand' = RuleAtRest /\ UNCHANGED <<policies, policyLog>>
    BY <1>3 DEF RewriteRequests, policyVars
  <2>2. id \in PolicyIds /\ requests[id] # Unset
    BY <2>1 DEF RuleShape, RuleAtRest
  <2>3. PICK key, status : status \in {"pending", "applied"} /\ requests[id] = [key |-> key, status |-> status]
    BY <2>2 DEF RuleShape
  <2>4. requests' = [i \in PolicyIds |-> IF i = id THEN [key |-> key, status |-> "applied"] ELSE requests[i]]
    <3>1. [requests[id] EXCEPT !.status = "applied"] = [key |-> key, status |-> "applied"]
      BY <2>3
    <3>2. requests' = [requests EXCEPT ![id] = [requests[id] EXCEPT !.status = "applied"]]
      BY <2>1
    <3>3. requests = [i \in PolicyIds |-> requests[i]]
      BY DEF RuleShape
    <3> HIDE DEF id
    <3> QED
      BY <3>1, <3>2, <3>3
  <2>5. \A i \in PolicyIds : requests'[i] # Unset =>
          \E k : \E s \in {"pending", "applied"} : requests'[i] = [key |-> k, status |-> s]
    BY <2>4 DEF RuleShape
  <2> QED
    BY <2>1, <2>4, <2>5 DEF RuleShape, RuleAtRest
<1>4. CASE RuleDies
  BY <1>4 DEF RuleDies, policyVars, gateVars, RuleShape, RuleAtRest
<1> QED
  BY <1>1, <1>2, <1>3, <1>4

\* A policy in force is one that a proposal, normalised, has set, and a request
\* for a waiver is pending or applied.
THEOREM RuleTypesHold == RuleSpec => []RuleTypeOK
<1>1. ASSUME RuleShape, [RuleNext]_ruleVars PROVE RuleShape'
  <2>1. CASE UNCHANGED ruleVars
    BY <1>1, <2>1 DEF ruleVars, policyVars, gateVars, RuleShape, PolicyRows
  <2> QED
    BY <1>1, <2>1, PolicyCommandsKeep, PolicyApplyKeeps, PolicyWritesKeep, WaiverCommandsKeep DEF RuleNext
<1>2. RuleShape => RuleTypeOK
  BY DEF RuleShape, RuleTypeOK
<1> QED
  BY <1>1, <1>2, RulesStart, PTL DEF RuleSpec

-----------------------------------------------------------------------------
(* The parts together.                                                       *)

\* Every part of the composition does what that part does on its own.
LEMMA PartsRun == DerivedSpec => ChangeSpec /\ AgentSpec /\ RuleSpec /\ ViewsSpec
<1>1. DerivedInit => ChangeInit /\ AgentInit /\ RuleInit /\ ViewsInit
  BY DEF DerivedInit
<1>2. [DerivedNext]_derivedVars => /\ [ChangeNext]_changeVars /\ [AgentNext]_agentVars
                                   /\ [RuleNext]_ruleVars /\ [ViewsNext]_viewVars
  <2>1. derivedVars' = derivedVars => /\ changeVars' = changeVars /\ agentVars' = agentVars
                                      /\ ruleVars' = ruleVars /\ viewVars' = viewVars
    BY DEF derivedVars
  <2>2. DerivedNext => /\ ChangeNext \/ changeVars' = changeVars
                       /\ AgentNext \/ agentVars' = agentVars
                       /\ RuleNext \/ ruleVars' = ruleVars
                       /\ ViewsNext \/ viewVars' = viewVars
    BY Zenon DEF DerivedNext
  <2> QED
    BY <2>1, <2>2
<1> QED
  BY <1>1, <1>2, PTL DEF DerivedSpec, ChangeSpec, AgentSpec, RuleSpec, ViewsSpec

LEMMA AgentsAndViewsTyped == DerivedSpec => [](AgentTypeOK /\ ViewsTypeOK)
<1>1. AgentSpec => []AgentInv
  BY AgentStarts, AgentStepsKeep, PTL DEF AgentSpec
<1>2. ViewsSpec => []ViewsInv
  BY ViewsStart, ViewStepsKeep, PTL DEF ViewsSpec
<1> QED
  BY <1>1, <1>2, AgentInvImplies, ViewsInvImplies, PartsRun, PTL

\* All the derived files, and what they are derived from, are of their types.
THEOREM DerivedTypesHold ==
  ASSUME Missing \notin Stores
  PROVE  DerivedSpec => []DerivedTypeOK
<1>1. ChangeSpec => []ChangeTypeOK
  BY ChangeTypesHold
<1>2. ChangeTypeOK /\ AgentTypeOK /\ RuleTypeOK /\ ViewsTypeOK => DerivedTypeOK
  BY DEF DerivedTypeOK
<1> QED
  BY <1>1, <1>2, AgentsAndViewsTyped, RuleTypesHold, PartsRun, PTL

\* Every kind of derived files agrees with what it is derived from once a
\* command has run to its end, whatever commands died before it.
THEOREM DerivedFilesAgree ==
  ASSUME Missing \notin Stores
  PROVE  DerivedSpec => []DerivedFilesFollow
<1>1. ChangeSpec => []AppliedBundleVerifies
  BY BundleVerifies
<1>2. AppliedBundleVerifies /\ WorkspaceFollowsProfile /\ PolicyViewsFollow /\ ViewsPassTheirCheck
        => DerivedFilesFollow
  BY DEF DerivedFilesFollow
<1> QED
  BY <1>1, <1>2, WorkspaceFollows, PoliciesAreShown, ViewsPass, PartsRun, PTL

\* No waiver turns a blocked review into one that passes, whatever the other
\* commands do beside it (gates/application/evaluate.py).
THEOREM DerivedStayBlocked == DerivedSpec => []WaiverNeverUnblocks
BY BlockedStaysBlocked, PartsRun, PTL
=============================================================================
