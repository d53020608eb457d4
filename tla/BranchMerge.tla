---------------------------- MODULE BranchMerge ----------------------------
(***************************************************************************)
(* Comparing the memory of two branches and merging one into the other     *)
(* (application/branch_compare.py, application/branch_merge.py).           *)
(*                                                                         *)
(* A proposal freezes what the comparison of the projected files of the    *)
(* source, the target and an optional base branch decided: what is taken   *)
(* without asking, and the conflicts somebody must resolve.  Merging reads *)
(* the files again, writes the target's files one after the other, empties *)
(* the target's rows in SQLite, fills them from the files, and only then   *)
(* validates; a refused merge puts the old files back the same way.        *)
(*                                                                         *)
(* A branch has one stage snapshot, one step, the current step and the     *)
(* validated semantic records of one summary.  A record is the evidence it *)
(* carries and its fingerprint; the fingerprint of a record that a merge   *)
(* cloned differs from the original's, for it covers the metadata          *)
(* "mergeProposalId".  Edits are commands whose projections succeeded.     *)
(***************************************************************************)
EXTENDS Naturals, SequencesExt, RowSequences

CONSTANTS MergeIds,    \* ids of merge proposals
          Original,    \* the fingerprint of a record no merge has cloned
          Versions,    \* contents of a snapshot, statuses of a step: numbers above 0
          Evidence,    \* evidence entries of a record
          Links,       \* covers and dependencies of a step
          Step, NoStep, OtherStep, \* values of currentImplementStep
          MaxEdits,    \* bound: edits of the branches after the first proposal
          MaxStarts    \* bound: times a proposal is applied

ASSUME MergeAssumption == /\ Original \notin MergeIds
                          /\ Versions \subseteq Nat \ {0} /\ MaxEdits \in Nat
                          /\ Step # NoStep /\ Step # OtherStep /\ NoStep # OtherStep

VARIABLES projected, \* the projected memory files of each branch
          store,     \* the target's rows in SQLite
          merges,    \* the merge_proposals rows
          merging,   \* the merge command
          edits,     \* number of edits so far
          died       \* what a merge that died left behind: its files half written, or the rows half filled

mergeVars == <<projected, store, merges, merging, edits, died>>

Branches == {"source", "target", "base"}
Sections == {"snapshot", "step", "current", "record"}
Resolutions == {"keep_target", "take_source", "take_base", "union"}

StepState == [planned : BOOLEAN, completed : BOOLEAN, status : Versions \cup {0}, links : SUBSET Links]
EmptyStep == [planned |-> FALSE, completed |-> FALSE, status |-> 0, links |-> {}]
Prints == MergeIds \cup {Original}
Row == [print : Prints, evidence : SUBSET Evidence]

Memory == [snapshot : Versions \cup {0}, step : StepState,
           current : {Step, NoStep, OtherStep}, record : Seq(Row)]

EmptyMemory == [snapshot |-> 0, step |-> EmptyStep, current |-> NoStep, record |-> <<>>]

\* The validated record of a fingerprint, the last row of the file, as a set of at most one.
Found(rows, print) ==
  LET at == {n \in DOMAIN rows : rows[n].print = print}
  IN  IF at = {} THEN {} ELSE {rows[CHOOSE n \in at : \A m \in at : m <= n].evidence}

(***************************************************************************)
(* The comparison.                                                         *)
(***************************************************************************)

NoDecision == [auto |-> "none", allowed |-> {}, resolution |-> "none"]
Automatic(op) == [NoDecision EXCEPT !.auto = op]
Conflict(allowed) == [NoDecision EXCEPT !.allowed = allowed]
BaseResolutions(hasBase) == {"keep_target", "take_source"} \cup IF hasBase THEN {"take_base"} ELSE {}

CompareSnapshot(s, t, b, hasBase) ==
  CASE s = 0 \/ s = t \/ (hasBase /\ s = b) -> NoDecision
    [] s # 0 /\ s # t /\ IF hasBase THEN s # b /\ t = b ELSE t = 0 -> Automatic("take_source")
    [] OTHER -> Conflict(BaseResolutions(hasBase))

UnionSafe(s, t) == s.status = 0 \/ t.status = 0 \/ s.status = t.status

CompareStep(s, t, b, hasBase) ==
  CASE s = EmptyStep \/ s = t \/ (hasBase /\ s = b) -> NoDecision
    [] s # EmptyStep /\ s # t /\ IF hasBase THEN s # b /\ t = b ELSE t = EmptyStep -> Automatic("take_source")
    [] s # EmptyStep /\ s # t /\ hasBase /\ s # b /\ t # b /\ UnionSafe(s, t) -> Automatic("union")
    [] OTHER -> Conflict(BaseResolutions(hasBase) \cup IF UnionSafe(s, t) THEN {"union"} ELSE {})

\* Unlike the others, a current step only the target changed is a conflict.
CompareCurrent(s, t, b, hasBase) ==
  CASE s = NoStep \/ s = t -> NoDecision
    [] s # NoStep /\ s # t /\ IF hasBase THEN s # b /\ t = b ELSE t = NoStep -> Automatic("take_source")
    [] OTHER -> Conflict(BaseResolutions(hasBase) \cup IF t = NoStep THEN {"union"} ELSE {})

\* A record the target lacks is taken, also when the source has not changed it since the base.
CompareRecord(s, t, b, hasBase) ==
  CASE s = {} \/ s = t \/ (t # {} /\ hasBase /\ s = b) -> NoDecision
    [] s # {} /\ s # t /\ (t = {} \/ (hasBase /\ s # b /\ t = b)) -> Automatic("take_source")
    [] OTHER -> Conflict(BaseResolutions(hasBase) \cup {"union"})

Compare(f, hasBase) ==
  LET s == f["source"]
      t == f["target"]
      b == IF hasBase THEN f["base"] ELSE EmptyMemory
  IN  [section \in Sections |->
        CASE section = "snapshot" -> CompareSnapshot(s.snapshot, t.snapshot, b.snapshot, hasBase)
          [] section = "step"     -> CompareStep(s.step, t.step, b.step, hasBase)
          [] section = "current"  -> CompareCurrent(s.current, t.current, b.current, hasBase)
          [] section = "record"   -> CompareRecord(Found(s.record, Original), Found(t.record, Original),
                                                   Found(b.record, Original), hasBase)]

(***************************************************************************)
(* What applying a proposal makes of the target.                           *)
(***************************************************************************)

Decided(item) == CASE item.auto # "none" -> item.auto
                   [] item.auto = "none" /\ item.resolution # "none" -> item.resolution
                   [] OTHER -> "keep_target"

UnionStep(s, t) == [planned   |-> t.planned \/ s.planned,
                    completed |-> t.completed \/ s.completed,
                    status    |-> IF t.status # 0 THEN t.status ELSE s.status,
                    links     |-> t.links \cup s.links]

Pick(choice, s, t, b, union) ==
  CASE choice = "take_source" -> s
    [] choice = "take_base"   -> b
    [] choice = "union"       -> union
    [] OTHER                  -> t

\* Variant: a current step that is not planned is left so.
FinalizeNothing(step, current) == step

\* _apply_step_state and _finalize_progress: what is completed or current is planned.
FinalizeStep(step, current) == [step EXCEPT !.planned = @ \/ step.completed \/ current = Step]

\* The first row with the fingerprint is replaced, its later copies are
\* dropped, and a record that replaces nothing is appended.
MergeRows(rows, print, row) ==
  LET same  == {r \in Range(rows) : r.print = print}
      first == CHOOSE n \in DOMAIN rows : rows[n].print = print /\ \A m \in 1..(n - 1) : rows[m].print # print
      before == Without(SubSeq(rows, 1, first - 1), same)
      after == Without(SubSeq(rows, first + 1, Len(rows)), same)
  IN  IF Found(rows, print) = {} THEN Append(rows, row) ELSE before \o <<row>> \o after

MergedRecords(p, choice, s, t, b) ==
  LET src == Found(s, Original)
      tgt == Found(t, Original)
      chosen == Pick(choice, src, {}, Found(b, Original), IF src = {} THEN tgt ELSE {UNION (src \cup tgt)})
      print == IF choice = "union" /\ src = {} THEN Original ELSE p
  IN  IF chosen = {} THEN t
      ELSE MergeRows(t, Original, [print |-> print, evidence |-> CHOOSE e \in chosen : TRUE])

\* Snapshots, the current step and records are read again when the proposal
\* is applied; the states of a step are those the proposal has kept.
Merged(p, f, m) ==
  LET s == f["source"]
      t == f["target"]
      b == IF m.hasBase THEN f["base"] ELSE EmptyMemory
      choice == [section \in Sections |-> Decided(m.items[section])]
      current == Pick(choice["current"], s.current, t.current, b.current,
                      IF t.current # NoStep THEN t.current ELSE s.current)
      step == Pick(choice["step"], m.seen["source"].step, t.step,
                   IF m.hasBase THEN m.seen["base"].step ELSE EmptyStep,
                   UnionStep(m.seen["source"].step, m.seen["target"].step))
  IN  [snapshot |-> Pick(choice["snapshot"], s.snapshot, t.snapshot, b.snapshot, t.snapshot),
       step     |-> FinalizeStep(step, current),
       current  |-> current,
       record   |-> MergedRecords(p, choice["record"], s.record, t.record, b.record)]

(***************************************************************************)
(* The commands.                                                           *)
(***************************************************************************)

NoMerge == [status |-> "absent", hasBase |-> FALSE, items |-> [x \in Sections |-> NoDecision],
            seen |-> [b \in Branches |-> EmptyMemory], touched |-> FALSE, starts |-> 0]
NoMerging == [pc |-> "idle", id |-> Original, merged |-> EmptyMemory, kept |-> EmptyMemory, undo |-> FALSE]

MergeInit(initial) ==
  /\ projected \in initial
  /\ store = projected["target"]
  /\ merges = [p \in MergeIds |-> NoMerge]
  /\ merging = NoMerging
  /\ edits = 0
  /\ died = "none"

\* touched is for the properties: a branch changed after the comparison, or the
\* comparison read files that a merge which died had left half written.
TouchMerges(ids) == [p \in MergeIds |-> IF p \in ids THEN [merges[p] EXCEPT !.touched = TRUE] ELSE merges[p]]

\* Another command changes a branch and its projections; what it changes
\* before the first proposal is in the initial states.
EditBranch(b, memory) ==
  /\ \E p \in MergeIds : merges[p].status # "absent"
  /\ edits < MaxEdits /\ merging.pc = "idle" /\ died = "none" /\ memory # projected[b]
  /\ projected' = [projected EXCEPT ![b] = memory]
  /\ store' = IF b = "target" THEN memory ELSE store
  /\ merges' = TouchMerges(MergeIds)
  /\ edits' = edits + 1
  /\ UNCHANGED <<merging, died>>

ProposeMerge(p, hasBase) ==
  /\ merging.pc = "idle" /\ merges[p].status = "absent"
  /\ merges' = [merges EXCEPT ![p] = [status |-> "pending", hasBase |-> hasBase, touched |-> died # "none", starts |-> 0,
                                      items |-> Compare(projected, hasBase), seen |-> projected]]
  /\ UNCHANGED <<projected, store, merging, edits, died>>

ResolveConflict(p, section, resolution) ==
  /\ merging.pc = "idle" /\ merges[p].status # "absent"
  /\ resolution \in merges[p].items[section].allowed
  /\ merges' = [merges EXCEPT ![p].items[section].resolution = resolution]
  /\ UNCHANGED <<projected, store, merging, edits, died>>

\* Variant: open conflicts do not hold a merge back.
UnresolvedNone(m) == {}

Unresolved(m) == {section \in Sections : m.items[section].allowed # {} /\ m.items[section].resolution = "none"}

\* The status of the proposal is not looked at: one already applied is applied again.
StartMerge(p) ==
  /\ merging.pc = "idle" /\ merges[p].status # "absent"
  /\ Unresolved(merges[p]) = {}
  /\ merges[p].starts < MaxStarts
  /\ merging' = [pc |-> "progress", id |-> p, merged |-> Merged(p, projected, merges[p]),
                 kept |-> projected["target"], undo |-> FALSE]
  /\ merges' = [TouchMerges(MergeIds \ {p}) EXCEPT ![p].starts = @ + 1]
  /\ UNCHANGED <<projected, store, edits, died>>

\* Progress with the session, then the snapshots, then the records.
WriteTarget ==
  /\ merging.pc \in {"progress", "snapshots", "records"}
  /\ projected' = [projected EXCEPT !["target"] =
       CASE merging.pc = "progress"  -> [@ EXCEPT !.step = merging.merged.step, !.current = merging.merged.current]
         [] merging.pc = "snapshots" -> [@ EXCEPT !.snapshot = merging.merged.snapshot]
         [] merging.pc = "records"   -> [@ EXCEPT !.record = merging.merged.record]]
  /\ merging' = [merging EXCEPT !.pc = CASE @ = "progress" -> "snapshots"
                                         [] @ = "snapshots" -> "records"
                                         [] @ = "records" -> "purge"]
  /\ UNCHANGED <<store, merges, edits, died>>

PurgeTarget ==
  /\ merging.pc = "purge"
  /\ store' = EmptyMemory
  /\ merging' = [merging EXCEPT !.pc = "sync_progress"]
  /\ UNCHANGED <<projected, merges, edits, died>>

\* sync_branch_memory_to_store, one transaction after the other.
SyncTarget ==
  /\ merging.pc \in {"sync_progress", "sync_snapshots", "sync_records"}
  /\ LET t == projected["target"]
     IN  store' = CASE merging.pc = "sync_progress"  -> [store EXCEPT !.step = t.step, !.current = t.current]
                    [] merging.pc = "sync_snapshots" -> [store EXCEPT !.snapshot = t.snapshot]
                    [] merging.pc = "sync_records"   -> [store EXCEPT !.record = t.record]
  /\ merging' = CASE merging.pc = "sync_progress"  -> [merging EXCEPT !.pc = "sync_snapshots"]
                  [] merging.pc = "sync_snapshots" -> [merging EXCEPT !.pc = "sync_records"]
                  [] merging.pc = "sync_records"   -> IF merging.undo THEN NoMerging ELSE [merging EXCEPT !.pc = "validate"]
  /\ died' = IF merging.pc = "sync_records" /\ merging.undo THEN "none" ELSE died
  /\ UNCHANGED <<projected, merges, edits>>

\* Variant: a refused merge puts back the files only.
RefuseFiles ==
  /\ merging.pc = "validate"
  /\ projected' = [projected EXCEPT !["target"] = merging.kept]
  /\ merging' = NoMerging
  /\ UNCHANGED <<store, merges, edits, died>>

\* The rules of the policies and of validate_branch_memory accept the merged
\* memory, or the files are put back and the rows filled from them again.
FinishMerge ==
  /\ merging.pc = "validate"
  /\ merges' = [merges EXCEPT ![merging.id].status = "applied"]
  /\ merging' = NoMerging
  /\ died' = "none"
  /\ UNCHANGED <<projected, store, edits>>

\* An exception inside the apply takes the same way back, from wherever it is
\* raised; died says of its rows what a death before the purge would leave.
RefuseMerge ==
  /\ merging.pc # "idle" /\ ~merging.undo
  /\ projected' = [projected EXCEPT !["target"] = merging.kept]
  /\ merging' = [merging EXCEPT !.pc = IF @ = "sync_progress" THEN @ ELSE "purge", !.undo = TRUE]
  /\ died' = CASE merging.pc \in {"sync_snapshots", "sync_records"} -> "rows"
               [] merging.pc = "validate" -> "none"
               [] OTHER -> died
  /\ UNCHANGED <<store, merges, edits>>

\* The process dies.  With no row at all the next command fills the target
\* from the files; with some of them it takes the rows for the whole memory.
CrashMerge ==
  /\ merging.pc # "idle"
  /\ merging' = NoMerging
  /\ died' = CASE merging.pc \in {"sync_snapshots", "sync_records"} -> "rows"
               [] merging.pc \in {"sync_progress", "validate"} -> "none"
               [] merging.pc = "progress" -> died
               [] merging.pc \in {"snapshots", "records", "purge"} -> IF died = "rows" THEN "rows" ELSE "files"
  /\ store' = IF merging.pc = "sync_progress" THEN projected["target"] ELSE store
  /\ UNCHANGED <<projected, merges, edits>>

\* The next command of the target projects its rows to the files again.
Reproject ==
  /\ died # "none" /\ merging.pc = "idle"
  /\ projected' = [projected EXCEPT !["target"] = store]
  /\ merges' = IF died = "rows" THEN TouchMerges(MergeIds) ELSE merges
  /\ died' = "none"
  /\ UNCHANGED <<store, merging, edits>>

MergeNext(memories) ==
  \/ \E b \in Branches, memory \in memories : EditBranch(b, memory)
  \/ \E p \in MergeIds, hasBase \in BOOLEAN : ProposeMerge(p, hasBase)
  \/ \E p \in MergeIds, section \in Sections, r \in Resolutions : ResolveConflict(p, section, r)
  \/ \E p \in MergeIds : StartMerge(p)
  \/ WriteTarget \/ PurgeTarget \/ SyncTarget \/ FinishMerge \/ RefuseMerge \/ CrashMerge \/ Reproject

MergeSpec(initial, memories) == MergeInit(initial) /\ [][MergeNext(memories)]_mergeVars

(***************************************************************************)
(* Properties.                                                             *)
(***************************************************************************)

MergeTypeOK ==
  /\ projected \in [Branches -> Memory] /\ store \in Memory
  /\ \A p \in MergeIds : /\ merges[p].status \in {"absent", "pending", "applied"}
                         /\ \A x \in Sections : merges[p].items[x].resolution \in Resolutions \cup {"none"}
  /\ merging.pc \in {"idle", "progress", "snapshots", "records", "purge", "sync_progress",
                    "sync_snapshots", "sync_records", "validate"}
  /\ merging.id \in Prints
  /\ edits \in 0..MaxEdits
  /\ died \in {"none", "files", "rows"}

Settled == merging.pc = "idle" /\ died = "none"

\* What a merge may make of one value of the target: a value the source has
\* set since the base arrives, and one the target has set since the base
\* stays, unless the resolution of a conflict chose otherwise.
Decides(m, section, unset, s, t, b, now) ==
  m.items[section].resolution = "none" =>
    /\ s # unset /\ ~(m.hasBase /\ s = b) => now = s
    /\ t # unset /\ ~(m.hasBase /\ t = b) => now = t

\* An applied merge that compared whole files, and whose branches nobody else
\* has changed since, has lost neither side's work without a resolution that
\* says so: also if it was applied twice, refused and repeated, or died and was
\* repeated.  Steps changed on both sides are united (branch_merge.py:342-445).
NothingLostSilently ==
  Settled => \A p \in MergeIds :
    LET m == merges[p]
        s == m.seen["source"]
        t == m.seen["target"]
        b == m.seen["base"]
        now == projected["target"]
        united == m.items["step"].auto = "union"
    IN  m.status = "applied" /\ ~m.touched =>
          /\ Decides(m, "snapshot", 0, s.snapshot, t.snapshot, b.snapshot, now.snapshot)
          /\ Decides(m, "current", NoStep, s.current, t.current, b.current, now.current)
          /\ IF united
               THEN /\ now.step.completed = (s.step.completed \/ t.step.completed)
                    /\ now.step.links = s.step.links \cup t.step.links
                    /\ now.step.status \in {s.step.status, t.step.status} \ {0} \/ s.step.status = t.step.status
               ELSE Decides(m, "step", [EmptyStep EXCEPT !.planned = now.step.planned],
                            [s.step EXCEPT !.planned = now.step.planned],
                            [t.step EXCEPT !.planned = now.step.planned],
                            [b.step EXCEPT !.planned = now.step.planned], now.step)
          /\ m.items["record"].resolution = "none" =>
               \A e \in Found(s.record, Original) \ (IF m.hasBase THEN Found(b.record, Original) ELSE {}) :
                 \E n \in DOMAIN now.record : e \subseteq now.record[n].evidence

\* A step the merge leaves completed or current is in the plan
\* (_finalize_progress, branch_merge.py:616-637).
MergedStepIsPlanned ==
  LET t == projected["target"]
  IN  t.step.completed \/ t.current = Step => t.step.planned

\* Between commands the target's rows say what its files say: a refused merge
\* puts back both, an applied one changes both (branch_merge.py:207-238).
RowsFollowFiles == Settled => store = projected["target"]
=============================================================================
