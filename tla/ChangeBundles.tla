--------------------------- MODULE ChangeBundles ---------------------------
(***************************************************************************)
(* The change layer of a branch (features/change): a store with the        *)
(* baseline fixed by `change init` and one active bundle, a log of         *)
(* proposals that is only ever appended to, the generated summary and the  *)
(* export directories.  One command runs at a time and may die between any *)
(* two of its writes; the branch is edited between and during commands.    *)
(*                                                                         *)
(* A part of the branch is "code" (what git's name and line counts tell    *)
(* apart), "memory" (progress, stage snapshots, semantic records) or       *)
(* "artifact" (the files generated from the memory).                       *)
(***************************************************************************)
EXTENDS Naturals, Sequences

CONSTANTS ChangeIds,      \* ids of proposals
          Missing,        \* a store, bundle, summary or proposal that is not there
          MaxVersion,     \* bound: edits of one part
          MaxChangeRows,  \* bound: rows of the proposal log
          MaxApplies      \* bound: applies begun

ASSUME ChangeAssumption == MaxVersion \in Nat /\ MaxChangeRows \in Nat

VARIABLES checkedOut,     \* git has the branch of the commands checked out
          branch,         \* [part -> version]; the artifact has its memory's
          changeStore,    \* change/state.json or Missing
          changeLog,      \* change/proposals.jsonl
          summary,        \* what change-summary.md was rendered from
          exports,        \* revisions with a directory under change/export
          changeCommand,  \* the running command and its next write
          bundleSettled   \* the last apply finished and nothing changed since

changeVars == <<checkedOut, branch, changeStore, changeLog, summary, exports,
                changeCommand, bundleSettled>>

Parts == {"code", "memory", "artifact"}
Branches == [Parts -> 0..MaxVersion]
Origin == [p \in Parts |-> 0]     \* the base branch
ChangeAtRest == [name |-> "none"]

(* Diffs name what differs from the baseline, by file, not by content.  The *)
(* files of the change layer itself are left out of git's diff by the name  *)
(* of the branch git is on: under `--branch` of another one they are in it. *)
GitDiff ==
  [code |-> branch["code"],
   own |-> IF checkedOut THEN <<>> ELSE <<summary # Missing, exports>>]
SnapshotDiff(base, now) == {p \in {"memory", "artifact"} : now[p] # base[p]}

(* build_change_bundle: the revision follows the active bundle's. *)
BundleRevision ==
  IF changeStore.bundle = Missing THEN 1 ELSE changeStore.bundle.revision + 1
Bundle(revision) ==
  [revision |-> revision,
   diff |-> [git |-> GitDiff,
             memory |-> SnapshotDiff(changeStore.baseline, branch)],
   exported |-> {}]

RenderedSummary(bundle) == [revision |-> bundle.revision, diff |-> bundle.diff]

(* The first row with the id: the rows of an id are never collapsed. *)
ChangeRows(id) == {i \in 1..Len(changeLog) : changeLog[i].id = id}
FindChange(id) ==
  IF ChangeRows(id) = {} THEN Missing
  ELSE changeLog[CHOOSE i \in ChangeRows(id) : \A j \in ChangeRows(id) : i <= j]

ChangeInit ==
  /\ checkedOut \in BOOLEAN
  /\ branch = Origin
  /\ changeStore = Missing
  /\ changeLog = <<>>
  /\ summary = Missing
  /\ exports = {}
  /\ changeCommand = ChangeAtRest
  /\ bundleSettled = FALSE

(***************************************************************************)
(* Commands of one write.                                                  *)
(***************************************************************************)
(* Once the store exists another base is refused and the same one changes  *)
(* nothing.                                                                *)
InitChange ==
  /\ changeCommand = ChangeAtRest
  /\ changeStore = Missing
  /\ changeStore' = [baseline |-> Origin, revision |-> 0, bundle |-> Missing]
  /\ UNCHANGED <<branch, changeLog, summary, exports, changeCommand, bundleSettled>>

ProposeChange(id) ==
  /\ changeCommand = ChangeAtRest
  /\ changeStore # Missing
  /\ ChangeRows(id) = {}
  /\ Len(changeLog) < MaxChangeRows
  /\ changeLog' = Append(changeLog, [id |-> id, status |-> "pending",
                                      after |-> Bundle(BundleRevision)])
  /\ UNCHANGED <<branch, changeStore, summary, exports, changeCommand, bundleSettled>>

(***************************************************************************)
(* `change apply`: the pending bundle is saved, the generated files are    *)
(* brought up to date, the bundle is rebuilt and saved, the summary is     *)
(* written and the applied row appended, in that order.                    *)
(***************************************************************************)
BeginApply(id) ==
  LET row == FindChange(id)
  IN /\ changeCommand = ChangeAtRest
     /\ changeStore # Missing
     /\ row # Missing
     /\ row.status # "applied"
     /\ Len(changeLog) < MaxChangeRows /\ changeStore.revision < MaxApplies
     /\ changeStore' = [changeStore EXCEPT !.revision = @ + 1, !.bundle = row.after]
     /\ changeCommand' = [name |-> "apply", id |-> id, next |-> "consolidate",
                           bundle |-> row.after]
     /\ bundleSettled' = FALSE
     /\ UNCHANGED <<branch, changeLog, summary, exports>>

(* The generated files are rendered from the memory as it is now. *)
Consolidate ==
  /\ changeCommand.name = "apply"
  /\ changeCommand.next = "consolidate"
  /\ branch' = [branch EXCEPT !["artifact"] = branch["memory"]]
  /\ changeCommand' = [changeCommand EXCEPT !.next = "rebuild"]
  /\ UNCHANGED <<changeStore, changeLog, summary, exports, bundleSettled>>

(* The rebuilt bundle keeps the revision and export files of the proposal. *)
ProposedBundle(bundle) == bundle
RebuiltBundle(bundle) == [Bundle(bundle.revision) EXCEPT !.exported = bundle.exported]

SaveRebuilt ==
  /\ changeCommand.name = "apply"
  /\ changeCommand.next = "rebuild"
  /\ LET bundle == RebuiltBundle(changeCommand.bundle)
     IN /\ changeStore' = [changeStore EXCEPT !.bundle = bundle]
        /\ changeCommand' =
             [changeCommand EXCEPT !.next = "summary", !.bundle = bundle]
  /\ bundleSettled' = TRUE
  /\ UNCHANGED <<branch, changeLog, summary, exports>>

WriteSummary ==
  /\ changeCommand.name = "apply"
  /\ changeCommand.next = "summary"
  /\ summary' = RenderedSummary(changeCommand.bundle)
  /\ changeCommand' = [changeCommand EXCEPT !.next = "log"]
  /\ UNCHANGED <<branch, changeStore, changeLog, exports, bundleSettled>>

FinishApply ==
  /\ changeCommand.name = "apply"
  /\ changeCommand.next = "log"
  /\ changeLog' = Append(changeLog,
                         [id |-> changeCommand.id, status |-> "applied",
                          after |-> FindChange(changeCommand.id).after])
  /\ changeCommand' = ChangeAtRest
  /\ UNCHANGED <<branch, changeStore, summary, exports, bundleSettled>>

(***************************************************************************)
(* `change export`: the directory is named after the bundle's revision,    *)
(* and is written before the bundle names its files.                       *)
(***************************************************************************)
BeginExport ==
  /\ changeCommand = ChangeAtRest
  /\ changeStore # Missing
  /\ changeStore.bundle # Missing
  /\ exports' = exports \union {changeStore.bundle.revision}
  /\ changeCommand' = [name |-> "export", bundle |-> changeStore.bundle]
  /\ UNCHANGED <<branch, changeStore, changeLog, summary, bundleSettled>>

FinishExport ==
  /\ changeCommand.name = "export"
  /\ changeStore' =
       [changeStore EXCEPT !.bundle.exported = {changeCommand.bundle.revision}]
  /\ changeCommand' = ChangeAtRest
  /\ UNCHANGED <<branch, changeLog, summary, exports, bundleSettled>>

(***************************************************************************)
(* Around the commands: edits, lost export files and a process that dies.  *)
(***************************************************************************)
Edit(part) ==
  /\ part \in {"code", "memory"}
  /\ branch[part] < MaxVersion
  /\ branch' = [branch EXCEPT ![part] = @ + 1]
  /\ bundleSettled' = FALSE
  /\ UNCHANGED <<changeStore, changeLog, summary, exports, changeCommand>>

LoseExport(revision) ==
  /\ revision \in exports
  /\ exports' = exports \ {revision}
  /\ bundleSettled' = FALSE
  /\ UNCHANGED <<branch, changeStore, changeLog, summary, changeCommand>>

ChangeDies ==
  /\ changeCommand # ChangeAtRest
  /\ changeCommand' = ChangeAtRest
  /\ bundleSettled' = (bundleSettled /\ changeCommand.name = "export")
  /\ UNCHANGED <<branch, changeStore, changeLog, summary, exports>>

ChangeNext ==
  /\ UNCHANGED checkedOut
  /\ \/ InitChange
     \/ \E id \in ChangeIds : ProposeChange(id) \/ BeginApply(id)
     \/ Consolidate
     \/ SaveRebuilt
     \/ WriteSummary
     \/ FinishApply
     \/ BeginExport
     \/ FinishExport
     \/ \E part \in Parts : Edit(part)
     \/ \E revision \in exports : LoseExport(revision)
     \/ ChangeDies

ChangeSpec == ChangeInit /\ [][ChangeNext]_changeVars

(***************************************************************************)
(* Properties.                                                             *)
(***************************************************************************)
(* `change verify`: what differs between the active bundle and the branch. *)
Drift ==
  LET now == Bundle(0).diff
  IN {"diff" : d \in {x \in {now} : x # changeStore.bundle.diff}}
     \union {"exports" : r \in changeStore.bundle.exported \ exports}
     \union {"summary" : b \in {x \in {RenderedSummary(changeStore.bundle)} :
                                  x # summary}}

ChangeTypeOK ==
  /\ branch \in Branches
  /\ exports \subseteq 1..MaxChangeRows
  /\ (changeStore # Missing /\ changeStore.bundle # Missing)
       => changeStore.bundle.revision \in 1..changeStore.revision

(* A bundle whose apply ran to its end, over a branch nobody has touched   *)
(* since, verifies: the files `apply` itself regenerates are part of what  *)
(* it stored.  On a branch git does not have checked out, the summary and  *)
(* the exports written after the diff was taken are drift.                 *)
AppliedBundleVerifies ==
  changeCommand = ChangeAtRest /\ bundleSettled /\ checkedOut => Drift = {}
=============================================================================
