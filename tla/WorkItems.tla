----------------------------- MODULE WorkItems -----------------------------
(***************************************************************************)
(* The coordination layer: a task, its work items, the claims sessions     *)
(* hold on them, and the binding each session's payload keeps              *)
(* (system_store/task_store.py, application/orchestration.py).             *)
(*                                                                         *)
(* A claim and a release are each a transaction on work_items,             *)
(* work_item_claims and tasks followed, in transactions of their own, by   *)
(* the read and the write of the session payload; the process may die in   *)
(* between.  An implementation command (directly, or applied from a        *)
(* proposal) checks the ownership of its step before its commit and, in    *)
(* the commit, moves on the work item its session is bound to.             *)
(*                                                                         *)
(* One task and its branch are modelled.  Titles, types, hints, events and *)
(* the rest of the session payload are left out; so are the statuses       *)
(* "blocked" and "cancelled" of a work item, which nothing writes.         *)
(***************************************************************************)
EXTENDS FiniteSets

CONSTANTS Items,        \* work item ids
          NoItem,       \* Python's None where a work item id is expected
          ItemSteps,    \* implementation steps
          NoItemStep,   \* no step
          StepOf,       \* the step_id of each work item
          Overlapping,  \* pairs of work items on one step with a common path, artifact or concern
          Keys,         \* session keys
          NoKey,        \* session_key is None
          Callers,      \* command processes
          KeyOf         \* the session key each process passes

ASSUME ItemAssumption == /\ NoItem \notin Items
                         /\ NoItemStep \notin ItemSteps
                         /\ StepOf \in [Items -> ItemSteps]
                         /\ Overlapping \subseteq SUBSET Items
ASSUME KeyAssumption == NoKey \notin Keys /\ KeyOf \in [Callers -> Keys]

VARIABLES items,     \* the rows of work_items and work_item_dependencies
          claims,    \* the rows of work_item_claims whose released_at is NULL
          task,      \* the task's status
          binding,   \* work_item_id in each session's payload
          call       \* what each command process is doing

workVars == <<items, claims, task, binding, call>>

ItemStatuses == {"absent", "open", "claimed", "in_progress", "completed"}
TaskStatuses == {"open", "active", "completed", "blocked"}

Item == [status : ItemStatuses, deps : SUBSET Items, session : Keys \cup {NoKey}]
Claim == [item : Items, session : Keys]
Call == [pc   : {"idle", "bind", "unbind_read", "unbind", "commit"},
         item : Items \cup {NoItem},
         step : ItemSteps \cup {NoItemStep},
         next : {"none", "in_progress", "completed"}]

NoItemRow == [status |-> "absent", deps |-> {}, session |-> NoKey]
IdleCall == [pc |-> "idle", item |-> NoItem, step |-> NoItemStep, next |-> "none"]

WorkInit == /\ items = [i \in Items |-> NoItemRow]
            /\ claims = {}
            /\ task = "open"
            /\ binding = [k \in Keys |-> NoItem]
            /\ call = [c \in Callers |-> IdleCall]

(***************************************************************************)
(* Readiness and the task's status: read models over the rows.             *)
(***************************************************************************)

Created(rows) == {i \in Items : rows[i].status # "absent"}

Unmet(rows, i) == {d \in rows[i].deps : rows[d].status # "completed"}

ClaimedElsewhere(rows, held, i) == \E c \in held : c.item = i /\ c.session # rows[i].session

\* Variant: dependencies only have to be under way.
ReadinessStarted(rows, held, i) ==
  CASE rows[i].status = "completed" -> "completed"
    [] rows[i].status \in {"claimed", "in_progress"} -> "active"
    [] OTHER -> IF \/ \E d \in rows[i].deps : rows[d].status = "open"
                   \/ ClaimedElsewhere(rows, held, i)
                  THEN "blocked" ELSE "ready"

Readiness(rows, held, i) ==
  CASE rows[i].status = "completed" -> "completed"
    [] rows[i].status \in {"claimed", "in_progress"} -> "active"
    [] OTHER -> IF Unmet(rows, i) # {} \/ ClaimedElsewhere(rows, held, i)
                  THEN "blocked" ELSE "ready"

TaskStatus(rows, held) ==
  LET has(statuses) == \E i \in Created(rows) : rows[i].status \in statuses
      ready == \E i \in Created(rows) : Readiness(rows, held, i) = "ready"
  IN  CASE Created(rows) # {} /\ ~has({"open", "claimed", "in_progress"}) -> "completed"
        [] has({"claimed", "in_progress"}) -> "active"
        [] Created(rows) # {} /\ ~has({"claimed", "in_progress"}) /\ has({"open"}) /\ ~ready -> "blocked"
        [] OTHER -> "open"

(***************************************************************************)
(* Work items and claims.                                                  *)
(***************************************************************************)

\* Variant: dependencies are not looked up.
AcceptAnyDependency(rows, deps) == TRUE

DependenciesExist(rows, deps) == deps \subseteq Created(rows)

\* Variant: scopes are compared only with the items somebody works on.
ScopeIsFreeBesideOpen(rows, i) ==
  \A j \in Created(rows) : {i, j} \in Overlapping => rows[j].status \in {"open", "completed"}

ScopeIsFree(rows, i) ==
  \A j \in Created(rows) : {i, j} \in Overlapping => rows[j].status = "completed"

\* The id is a fresh one; dependencies and overlaps are checked in the
\* transaction that inserts the row.
CreateWorkItem(i, deps) ==
  /\ items[i].status = "absent"
  /\ DependenciesExist(items, deps)
  /\ ScopeIsFree(items, i)
  /\ items' = [items EXCEPT ![i] = [NoItemRow EXCEPT !.status = "open", !.deps = deps]]
  /\ task' = TaskStatus(items', claims)
  /\ UNCHANGED <<claims, binding, call>>

Holds(k, i) == [item |-> i, session |-> k] \in claims
HasClaim(k) == \E i \in Items : Holds(k, i)

ClaimWorkItem(c, i) ==
  /\ call[c].pc = "idle"
  /\ i \in Created(items)
  /\ ~HasClaim(KeyOf[c])
  /\ Readiness(items, claims, i) # "blocked"
  /\ \A k \in Keys : ~Holds(k, i)
  /\ claims' = claims \cup {[item |-> i, session |-> KeyOf[c]]}
  /\ items' = [items EXCEPT ![i].status = IF @ = "open" THEN "claimed" ELSE @,
                            ![i].session = KeyOf[c]]
  /\ task' = TaskStatus(items', claims')
  /\ call' = [call EXCEPT ![c] = [IdleCall EXCEPT !.pc = "bind", !.item = i]]
  /\ UNCHANGED binding

\* save_runtime_session writes the payload read before with the new binding.
Bind(c) ==
  /\ call[c].pc = "bind"
  /\ binding' = [binding EXCEPT ![KeyOf[c]] = call[c].item]
  /\ call' = [call EXCEPT ![c] = IdleCall]
  /\ UNCHANGED <<items, claims, task>>

\* Variant: the row keeps the session that held it.
ReleaseKeepingSession(c, i) ==
  /\ call[c].pc = "idle"
  /\ Holds(KeyOf[c], i)
  /\ claims' = claims \ {[item |-> i, session |-> KeyOf[c]]}
  /\ items' = [items EXCEPT ![i].status = IF @ = "claimed" THEN "open" ELSE @]
  /\ task' = TaskStatus(items', claims')
  /\ call' = [call EXCEPT ![c] = [IdleCall EXCEPT !.pc = "unbind_read", !.item = i]]
  /\ UNCHANGED binding

ReleaseWorkItem(c, i) ==
  /\ call[c].pc = "idle"
  /\ Holds(KeyOf[c], i)
  /\ claims' = claims \ {[item |-> i, session |-> KeyOf[c]]}
  /\ items' = [items EXCEPT ![i].status = IF @ = "claimed" THEN "open" ELSE @,
                            ![i].session = NoKey]
  /\ task' = TaskStatus(items', claims')
  /\ call' = [call EXCEPT ![c] = [IdleCall EXCEPT !.pc = "unbind_read", !.item = i]]
  /\ UNCHANGED binding

\* The binding is cleared only if it still names the released item.
UnbindRead(c) ==
  /\ call[c].pc = "unbind_read"
  /\ call' = [call EXCEPT ![c] = IF binding[KeyOf[c]] = call[c].item
                                   THEN [call[c] EXCEPT !.pc = "unbind"] ELSE IdleCall]
  /\ UNCHANGED <<items, claims, task, binding>>

\* Variant: only the claim is released.
UnbindNothing(c) ==
  /\ call[c].pc = "unbind"
  /\ call' = [call EXCEPT ![c] = IdleCall]
  /\ UNCHANGED <<items, claims, task, binding>>

Unbind(c) ==
  /\ call[c].pc = "unbind"
  /\ binding' = [binding EXCEPT ![KeyOf[c]] = NoItem]
  /\ call' = [call EXCEPT ![c] = IdleCall]
  /\ UNCHANGED <<items, claims, task>>

(***************************************************************************)
(* Implementation commands.                                                *)
(***************************************************************************)

\* Variant: the active claim is looked up without its session.
BoundOfAnySession(k) == CASE claims = {} -> NoItem
                          [] claims # {} /\ binding[k] # NoItem -> binding[k]
                          [] OTHER -> CHOOSE i \in Items : \E other \in Keys : Holds(other, i)

\* The work item a command of session k acts on: none without a claim, else
\* the one the payload names, else the claimed one.
Bound(k) == CASE ~HasClaim(k) -> NoItem
              [] HasClaim(k) /\ binding[k] # NoItem -> binding[k]
              [] OTHER -> CHOOSE i \in Items : Holds(k, i)

\* A start or checkpoint ("in_progress") or a complete ("completed") passes its
\* checks: an unbound session writes directly, a bound one only to its step.
CheckOwnership(c, s, next) ==
  /\ call[c].pc = "idle"
  /\ Bound(KeyOf[c]) \in {NoItem} \cup {i \in Items : StepOf[i] = s}
  /\ call' = [call EXCEPT ![c] = [IdleCall EXCEPT !.pc = "commit", !.step = s, !.next = next]]
  /\ UNCHANGED <<items, claims, task, binding>>

Advances(rows, i, next) == rows[i].status \notin (IF next = "in_progress" THEN {"in_progress", "completed"}
                                                                          ELSE {"completed"})

\* Variant: the runtime commit leaves the task's status as it was.
CommitWithoutTask(c) ==
  LET i == Bound(KeyOf[c])
  IN  /\ call[c].pc = "commit"
      /\ call' = [call EXCEPT ![c] = IdleCall]
      /\ IF i # NoItem /\ StepOf[i] = call[c].step /\ Advances(items, i, call[c].next)
           THEN items' = [items EXCEPT ![i].status = call[c].next]
           ELSE UNCHANGED items
      /\ UNCHANGED <<claims, task, binding>>

\* The part of the runtime commit that concerns work items.
CommitStep(c) ==
  LET i == Bound(KeyOf[c])
  IN  /\ call[c].pc = "commit"
      /\ call' = [call EXCEPT ![c] = IdleCall]
      /\ IF i # NoItem /\ StepOf[i] = call[c].step /\ Advances(items, i, call[c].next)
           THEN /\ items' = [items EXCEPT ![i].status = call[c].next]
                /\ task' = TaskStatus(items', claims)
           ELSE UNCHANGED <<items, task>>
      /\ UNCHANGED <<claims, binding>>

\* The commit is refused: rules, a conflict or a busy scope.
CommitRefused(c) ==
  /\ call[c].pc = "commit"
  /\ call' = [call EXCEPT ![c] = IdleCall]
  /\ UNCHANGED <<items, claims, task, binding>>

\* The process dies between two transactions.
CallerCrash(c) ==
  /\ call[c].pc \in {"bind", "unbind_read", "unbind"}
  /\ call' = [call EXCEPT ![c] = IdleCall]
  /\ UNCHANGED <<items, claims, task, binding>>

WorkNext ==
  \/ \E i \in Items : \E deps \in SUBSET (Items \ {i}) : CreateWorkItem(i, deps)
  \/ \E c \in Callers :
       \/ \E i \in Items : ClaimWorkItem(c, i) \/ ReleaseWorkItem(c, i)
       \/ Bind(c) \/ UnbindRead(c) \/ Unbind(c)
       \/ \E s \in ItemSteps, next \in {"in_progress", "completed"} : CheckOwnership(c, s, next)
       \/ CommitStep(c) \/ CommitRefused(c) \/ CallerCrash(c)

WorkSpec == WorkInit /\ [][WorkNext]_workVars

(***************************************************************************)
(* Properties.                                                             *)
(***************************************************************************)

\* The rows, the binding and what a process holds have their types, and a
\* dependency is a row that exists.
WorkTypeOK == /\ items \in [Items -> Item]
              /\ \A i \in Items : items[i].deps \subseteq Created(items)
              /\ claims \subseteq Claim
              /\ task \in TaskStatuses
              /\ binding \in [Keys -> Items \cup {NoItem}]
              /\ call \in [Callers -> Call]

\* The two places that say who holds an item agree: the session_key column of
\* work_items and the active rows of work_item_claims; and no session holds two.
ClaimsAgreeWithRows ==
  /\ \A i \in Items, k \in Keys : Holds(k, i) <=> items[i].session = k
  /\ \A i, j \in Items, k \in Keys : Holds(k, i) /\ Holds(k, j) => i = j

\* Nobody works on an item, or finishes it, before the items it depends on are
\* completed, whichever sessions claim, release and advance them.
StartedAfterDependencies ==
  \A i \in Items : items[i].status \in {"claimed", "in_progress", "completed"} => Unmet(items, i) = {}

\* The stored status of the task is the one its items give, after commits of
\* the coordination layer and of the runtime layer alike.
TaskStatusIsDerived == task = TaskStatus(items, claims)

\* The task never gets stuck with nothing ready and nothing under way.
TaskNeverBlocked == task # "blocked"

\* Two unfinished items never own the same path, artifact or concern of a step.
ScopesDisjoint ==
  \A i, j \in Created(items) : i # j /\ {i, j} \in Overlapping
     => "completed" \in {items[i].status, items[j].status}

\* A step moves an item on only for the session that holds it.
OnlyHolderAdvances ==
  [][\A c \in Callers, i \in Items :
       call[c].pc = "commit" /\ call'[c].pc = "idle" /\ items'[i].status # items[i].status
         => Holds(KeyOf[c], i)]_workVars

=============================================================================
