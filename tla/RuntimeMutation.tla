-------------------------- MODULE RuntimeMutation --------------------------
(***************************************************************************)
(* The runtime commands that change a branch's progress (register-step,    *)
(* start-step, checkpoint-step, complete-step) and the optimistic commit   *)
(* they share, system_store/runtime_mutations.py.  Each command is one OS  *)
(* process working on a common SQLite store:                               *)
(*                                                                         *)
(*   Begin          the caller looks at the branch and starts the command; *)
(*   ValidateStep   an implementation command reads the progress, resolves *)
(*                  its step and checks the rules (first read);            *)
(*   ReadRevision,                                                         *)
(*   ReadSnapshot   it loads its base state: two SELECTs, with other       *)
(*                  processes free to commit in between (second read);     *)
(*   ValidateRegistration  register-step checks its rules on that base;    *)
(*   ScopeBusy, Conflict, Accept   the three outcomes of the one BEGIN     *)
(*                  IMMEDIATE transaction of commit_runtime_mutation;      *)
(*   ReleaseLease   a second transaction;                                  *)
(*   Return         the command ends (the refresh of the projections that  *)
(*                  comes before it changes no variable of this module;    *)
(*                  module DirectCommands models it);                      *)
(*   Crash          the process dies between two transactions.             *)
(*                                                                         *)
(* Time is relative: a lease row keeps the ticks left to its expiry.       *)
(***************************************************************************)
EXTENDS StepProgress

CONSTANTS Writers,      \* command processes; each runs one command at a time
          Sessions,     \* runtime session keys
          SessionOf,    \* the session key each process passes
          Inputs,       \* [phase, ev]: what implementation commands may supply
          Catalog,      \* the lease scope of register-step
          NoOwner,      \* no lease row
          Dead,         \* the owner id of a process that died
          TTL,          \* LEASE_TTL_SECONDS, in ticks
          MaxRevision   \* bound: no command begins once it is reached

NoRevision == -1

ASSUME WriterAssumption == /\ NoOwner \notin Writers
                           /\ Dead \notin Writers
                           /\ NoOwner # Dead
                           /\ SessionOf \in [Writers -> Sessions]
ASSUME ScopeAssumption  == Catalog \notin Steps
ASSUME InputAssumption  == Inputs \subseteq [phase : Phases \cup {NoPhase}, ev : SUBSET Evidence]
ASSUME BoundAssumption  == TTL \in Nat /\ MaxRevision \in Nat

VARIABLES revision,     \* branch_runtime_state.runtime_revision
          progress,     \* the "progress" stage snapshot in SQLite
          sessionStep,  \* current_step of each runtime session row
          leases,       \* the rows of writer_leases, by lease name
          cmd           \* what each command process holds in memory

vars == <<revision, progress, sessionStep, leases, cmd>>

Scopes == Steps \cup {Catalog}
Owners == Writers \cup {NoOwner, Dead}

Lease == [owner : Owners, ttl : 0..TTL]
NoLease == [owner |-> NoOwner, ttl |-> 0]

ImplementKinds == {"start", "checkpoint", "complete"}
Kinds == ImplementKinds \cup {"register"}
Control == {"idle", "called", "validated", "revision_read", "loaded", "ready",
            "releasing", "returning"}

Command == [pc       : Control,
            kind     : Kinds,
            explicit : Steps \cup {NoStep},
            step     : Steps \cup {NoStep},
            deps     : SUBSET Steps,
            phase    : Phases \cup {NoPhase},
            ev       : SUBSET Evidence,
            expected : Nat \cup {NoRevision},
            baseRev  : Nat,
            base     : Progress]

Idle == [pc       |-> "idle",
         kind     |-> "register",
         explicit |-> NoStep,
         step     |-> NoStep,
         deps     |-> {},
         phase    |-> NoPhase,
         ev       |-> {},
         expected |-> NoRevision,
         baseRev  |-> 0,
         base     |-> EmptyProgress]

Init == /\ revision = 0
        /\ progress = EmptyProgress
        /\ sessionStep = [k \in Sessions |-> NoStep]
        /\ leases = [l \in Scopes |-> NoLease]
        /\ cmd = [w \in Writers |-> Idle]

(***************************************************************************)
(* A command until its commit.                                             *)
(***************************************************************************)

\* --expected-revision: absent, or the revision the caller has just seen.
BeginRegister(w, s, deps, expected) ==
  cmd' = [cmd EXCEPT ![w] = [Idle EXCEPT !.pc = "called", !.kind = "register",
                               !.step = s, !.deps = deps, !.expected = expected]]

BeginImplement(w, kind, explicit, input, expected) ==
  cmd' = [cmd EXCEPT ![w] = [Idle EXCEPT !.pc = "called", !.kind = kind,
                               !.explicit = explicit,
                               !.phase = IF kind = "checkpoint" THEN input.phase ELSE NoPhase,
                               !.ev = IF kind = "start" THEN {} ELSE input.ev,
                               !.expected = expected]]

Begin(w) ==
  /\ cmd[w].pc = "idle"
  /\ revision < MaxRevision
  /\ \E expected \in {NoRevision, revision} :
       \/ \E s \in Steps : \E deps \in SUBSET (Steps \ {s}) :
            BeginRegister(w, s, deps, expected)
       \/ \E kind \in ImplementKinds, s \in Steps \cup {NoStep}, input \in Inputs :
            BeginImplement(w, kind, s, input, expected)
  /\ UNCHANGED <<revision, progress, sessionStep, leases>>

\* The command ends without an effect: a gate, the ownership of a work item or
\* a policy stands against it, or the rules do.
Reject(w) ==
  /\ cmd[w].pc \in {"called", "validated", "loaded", "ready"}
  /\ cmd' = [cmd EXCEPT ![w] = Idle]
  /\ UNCHANGED <<revision, progress, sessionStep, leases>>

Rules(p, c, s) ==
  CASE c.kind = "start"      -> CanStart(p, s)
    [] c.kind = "checkpoint" -> CanCheckpoint(p, s, c.phase)
    [] c.kind = "complete"   -> CanComplete(p, s, c.ev)
    [] c.kind = "register"   -> CanRegister(p, s, c.deps)

Resolved(w, p) == ResolveStep(p, cmd[w].explicit, sessionStep[SessionOf[w]],
                              cmd[w].kind = "start" /\ cmd[w].explicit = NoStep)

ValidateStep(w) ==
  /\ cmd[w].pc = "called"
  /\ cmd[w].kind \in ImplementKinds
  /\ Resolved(w, progress) # NoStep
  /\ Rules(progress, cmd[w], Resolved(w, progress))
  /\ cmd' = [cmd EXCEPT ![w].pc = "validated", ![w].step = Resolved(w, progress)]
  /\ UNCHANGED <<revision, progress, sessionStep, leases>>

ReadRevision(w) ==
  /\ \/ cmd[w].pc = "validated"
     \/ cmd[w].pc = "called" /\ cmd[w].kind = "register"
  /\ cmd' = [cmd EXCEPT ![w].pc = "revision_read", ![w].baseRev = revision]
  /\ UNCHANGED <<revision, progress, sessionStep, leases>>

ReadSnapshot(w) ==
  /\ cmd[w].pc = "revision_read"
  /\ cmd' = [cmd EXCEPT ![w].pc = IF cmd[w].kind = "register" THEN "loaded" ELSE "ready",
                        ![w].base = progress]
  /\ UNCHANGED <<revision, progress, sessionStep, leases>>

\* determine_next_step validates on a fresh read, the rules on the base state.
ValidateRegistration(w) ==
  /\ cmd[w].pc = "loaded"
  /\ Rules(progress, cmd[w], cmd[w].step)
  /\ Rules(cmd[w].base, cmd[w], cmd[w].step)
  /\ cmd' = [cmd EXCEPT ![w].pc = "ready"]
  /\ UNCHANGED <<revision, progress, sessionStep, leases>>

(***************************************************************************)
(* The commit transaction.                                                 *)
(***************************************************************************)

Scope(c) == IF c.kind = "register" THEN Catalog ELSE c.step

\* Variant: the expiry of the row is not looked at.
BusyForever(l, w) == leases[l].owner # NoOwner /\ leases[l].owner # w

\* acquire_lease fails: the row is another owner's and has not expired.
Busy(l, w) == leases[l].ttl > 0 /\ leases[l].owner # w

Expected(c) == IF c.expected = NoRevision THEN c.baseRev ELSE c.expected

\* Variant: the base is used even when the revision has moved on.
CurrentNotReloaded(c) == c.base

\* The state the plan is built from: the base, or a reload inside the
\* transaction when the revision has moved on.
Current(c) == IF revision = c.baseRev THEN c.base ELSE progress

\* Variant: register-step relies on its rules alone.
DetectConflictOfStep(w, current) ==
  LET c == cmd[w]
  IN  c.kind # "register" /\ Signature(c.base, c.step) # Signature(current, c.step)

DetectConflict(w, current) ==
  LET c == cmd[w]
  IN  IF c.kind = "register"
        THEN c.step \in Planned(current) /\ c.step \notin Planned(c.base)
        ELSE \/ /\ c.explicit = NoStep
                /\ ResolveStep(current, NoStep, sessionStep[SessionOf[w]], FALSE) # c.step
             \/ Signature(c.base, c.step) # Signature(current, c.step)

\* Variant: conflicts are looked for only when the caller names a revision.
HasConflictIfAsked(w) == /\ cmd[w].expected # NoRevision
                         /\ revision # cmd[w].expected
                         /\ DetectConflict(w, Current(cmd[w]))

HasConflict(w) == /\ revision # Expected(cmd[w])
                  /\ DetectConflict(w, Current(cmd[w]))

Plan(p, c) ==
  CASE c.kind = "register"   -> RegisterStep(p, c.step, c.deps)
    [] c.kind = "start"      -> StartStep(p, c.step)
    [] c.kind = "checkpoint" -> CheckpointStep(p, c.step, c.phase, c.ev)
    [] c.kind = "complete"   -> CompleteStep(p, c.step, c.ev)

\* The step the session is left on.
SessionStep(p, c) == IF c.kind = "complete" THEN p.current ELSE c.step

\* Variant: the lease lasts one tick too long.
AcquireLonger(w) == leases' = [leases EXCEPT ![Scope(cmd[w])] = [owner |-> w, ttl |-> TTL + 1]]

Acquire(w) == leases' = [leases EXCEPT ![Scope(cmd[w])] = [owner |-> w, ttl |-> TTL]]

\* A command past its commit holds nothing but what it must release.
Committed(w) == cmd' = [cmd EXCEPT ![w] = [Idle EXCEPT !.pc = "releasing",
                                             !.kind = cmd[w].kind, !.step = cmd[w].step]]

ScopeBusy(w) ==
  /\ cmd[w].pc = "ready"
  /\ Busy(Scope(cmd[w]), w)
  /\ cmd' = [cmd EXCEPT ![w] = Idle]
  /\ UNCHANGED <<revision, progress, sessionStep, leases>>

\* The transaction commits with the lease row alone.
Conflict(w) ==
  /\ cmd[w].pc = "ready"
  /\ ~Busy(Scope(cmd[w]), w)
  /\ HasConflict(w)
  /\ Acquire(w)
  /\ Committed(w)
  /\ UNCHANGED <<revision, progress, sessionStep>>

\* Variant: only a new or a finished step counts as a change of the branch.
AcceptUncounted(w) ==
  /\ cmd[w].pc = "ready"
  /\ ~Busy(Scope(cmd[w]), w)
  /\ ~HasConflict(w)
  /\ Acquire(w)
  /\ progress' = Plan(Current(cmd[w]), cmd[w])
  /\ revision' = IF cmd[w].kind \in {"register", "complete"} THEN revision + 1 ELSE revision
  /\ sessionStep' = [sessionStep EXCEPT ![SessionOf[w]] = SessionStep(progress', cmd[w])]
  /\ Committed(w)

Accept(w) ==
  /\ cmd[w].pc = "ready"
  /\ ~Busy(Scope(cmd[w]), w)
  /\ ~HasConflict(w)
  /\ Acquire(w)
  /\ progress' = Plan(Current(cmd[w]), cmd[w])
  /\ revision' = revision + 1
  /\ sessionStep' = [sessionStep EXCEPT ![SessionOf[w]] = SessionStep(progress', cmd[w])]
  /\ Committed(w)

(***************************************************************************)
(* After the commit, and around it.                                        *)
(***************************************************************************)

\* Variant: the row is deleted whoever owns it.
ReleaseAnyLease(w) ==
  /\ cmd[w].pc = "releasing"
  /\ leases' = [leases EXCEPT ![Scope(cmd[w])] = NoLease]
  /\ cmd' = [cmd EXCEPT ![w] = [Idle EXCEPT !.pc = "returning"]]
  /\ UNCHANGED <<revision, progress, sessionStep>>

ReleaseLease(w) ==
  /\ cmd[w].pc = "releasing"
  /\ leases' = [leases EXCEPT ![Scope(cmd[w])] = IF @.owner = w THEN NoLease ELSE @]
  /\ cmd' = [cmd EXCEPT ![w] = [Idle EXCEPT !.pc = "returning"]]
  /\ UNCHANGED <<revision, progress, sessionStep>>

Return(w) ==
  /\ cmd[w].pc = "returning"
  /\ cmd' = [cmd EXCEPT ![w] = Idle]
  /\ UNCHANGED <<revision, progress, sessionStep, leases>>

\* The rows of a dead process stay; no later command has its owner id.
Orphaned(w) == [l \in Scopes |-> IF leases[l].owner = w
                                   THEN [leases[l] EXCEPT !.owner = Dead] ELSE leases[l]]

Crash(w) ==
  /\ cmd[w].pc # "idle"
  /\ cmd' = [cmd EXCEPT ![w] = Idle]
  /\ leases' = Orphaned(w)
  /\ UNCHANGED <<revision, progress, sessionStep>>

Tick ==
  /\ leases' = [l \in Scopes |-> [leases[l] EXCEPT !.ttl = IF @ > 0 THEN @ - 1 ELSE 0]]
  /\ UNCHANGED <<revision, progress, sessionStep, cmd>>

Commit(w) == ScopeBusy(w) \/ Conflict(w) \/ Accept(w)

Step(w) == \/ ValidateStep(w) \/ ReadRevision(w) \/ ReadSnapshot(w)
           \/ ValidateRegistration(w) \/ Reject(w)
           \/ Commit(w) \/ ReleaseLease(w)

Next == \/ \E w \in Writers : Begin(w) \/ Step(w) \/ Return(w) \/ Crash(w)
        \/ Tick

Spec == Init /\ [][Next]_vars

Fairness == /\ WF_vars(Tick)
            /\ \A w \in Writers : WF_vars(Step(w) \/ Return(w))

FairSpec == Spec /\ Fairness

(***************************************************************************)
(* Properties.                                                             *)
(***************************************************************************)

\* Every variable has its type (the store's schema and what a process holds).
TypeOK == /\ revision \in Nat
          /\ progress \in Progress
          /\ sessionStep \in [Sessions -> Steps \cup {NoStep}]
          /\ leases \in [Scopes -> Lease]
          /\ cmd \in [Writers -> Command]

\* A step is completed only after every step it depends on, although the rules
\* of complete-step read the progress long before the commit.
CompletedAfterDependencies ==
  \A s \in progress.completed : s \in Planned(progress) /\ IsReady(progress, s)

\* A completed step under TDD has its red and green evidence and its refactor
\* note, although complete-step counts evidence it read before the commit.
CompletedWithEvidence ==
  \A s \in progress.completed \cap TddRequired : progress.evidence[s] = Evidence

\* At most one step of the branch is in progress, whichever processes start,
\* checkpoint and complete steps (set_active_step and complete-step demote the
\* others).
AtMostOneInProgress ==
  \A s, t \in Steps : progress.status[s] = "in_progress" /\ progress.status[t] = "in_progress"
                        => s = t

\* The plan never wedges: while a planned step is not completed, some step can
\* be executed (concurrent registrations cannot build a dependency cycle).
NeverWedged ==
  Planned(progress) \subseteq progress.completed \/ NextExecutable(progress) # NoStep

\* The commit may reuse the base state when the revision has not moved, although
\* the base is read by two SELECTs that other commits can separate.
BaseIsCurrent ==
  \A w \in Writers : cmd[w].pc = "ready" /\ cmd[w].baseRev = revision
                       => cmd[w].base = progress

Accepting(w) == cmd[w].pc = "ready" /\ revision' # revision /\ cmd'[w].pc = "releasing"

\* An accepted implementation command finds its step as its base state showed
\* it: the conflict detector lets no change of the step slip in between.
AcceptedOverUnchangedStep ==
  [][\A w \in Writers : Accepting(w) /\ cmd[w].kind # "register" =>
       Signature(cmd[w].base, cmd[w].step) = Signature(progress, cmd[w].step)]_vars

\* No accepted write loses an earlier one: plan order, dependencies, completion
\* and evidence of the registered steps survive every later command.
NothingLost ==
  [][/\ IsPrefix(progress.planned, progress'.planned)
     /\ progress.completed \subseteq progress'.completed
     /\ \A s \in Planned(progress) : /\ progress.evidence[s] \subseteq progress'.evidence[s]
                                     /\ progress'.deps[s] = progress.deps[s]]_vars

\* A live lease changes hands only by a step of its owner: neither another
\* command's commit nor the late release of an expired lease takes it away.
LiveLeaseIsRespected ==
  [][\A l \in Scopes, w \in Writers :
       leases[l].owner = w /\ leases[l].ttl > 0 /\ leases'[l].owner # w
         => cmd'[w] # cmd[w]]_vars

\* The scope a dead process left leased becomes free again (the row expires
\* after LEASE_TTL_SECONDS, or the row passes to a live command).
OrphanedScopeIsFreed ==
  \A l \in Scopes, w \in Writers :
    leases[l].owner = Dead ~> (~Busy(l, w) \/ leases[l].owner # Dead)

\* The commands implement the lifecycle a caller is promised.
Lifecycle == INSTANCE StepLifecycle WITH planned   <- Planned(progress),
                                         completed <- progress.completed,
                                         deps      <- progress.deps
LifecycleSpec == Lifecycle!Spec

=============================================================================
