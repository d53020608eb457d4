-------------------------- MODULE WorkItemsProofs --------------------------
(***************************************************************************)
(* What the coordination layer keeps for any number of work items,         *)
(* sessions and command processes, whichever of them die.                  *)
(***************************************************************************)
EXTENDS WorkItemHistory, Naturals, WellFoundedInduction, NaturalsInduction, TLAPS

StartedStatuses == {"claimed", "in_progress", "completed"}

Named(i) ==
  \/ \E k \in Keys : binding[k] = i
  \/ \E c \in Callers : call[c].pc = "bind" /\ call[c].item = i

Blank == \A i \in Items : items[i].status = "absent" => items[i] = NoItemRow

HeldIsStarted ==
  \A i \in Items, k \in Keys : Holds(k, i) => items[i].status \in StartedStatuses

\* A session's payload may name an item the session no longer holds; a command
\* moves that item on all the same.  It was ready when it was claimed, and its
\* dependencies stay completed.
ReachedIsReady ==
  \A i \in Items : items[i].status \in StartedStatuses \/ Named(i) =>
    i \in Created(items) /\ Unmet(items, i) = {}

Intends == \A c \in Callers : call[c].pc = "commit" => call[c].next # "none"

IInv ==
  /\ WorkTypeOK /\ Blank /\ Intends
  /\ ClaimsAgreeWithRows /\ HeldIsStarted
  /\ ReachedIsReady
  /\ ScopesDisjoint
  /\ TaskStatusIsDerived

-----------------------------------------------------------------------------
LEMMA TaskStatusType ==
  ASSUME NEW rows, NEW held
  PROVE  TaskStatus(rows, held) \in TaskStatuses
BY DEF TaskStatus, TaskStatuses

LEMMA InitHolds == WorkInit => IInv
<1> SUFFICES ASSUME WorkInit PROVE IInv
  OBVIOUS
<1>1. \A i \in Items : items[i] = NoItemRow
  BY DEF WorkInit
<1>2. Created(items) = {} /\ claims = {}
  BY <1>1 DEF WorkInit, Created, NoItemRow
<1>3. items \in [Items -> Item]
  BY DEF WorkInit, Item, NoItemRow, ItemStatuses
<1>4. call \in [Callers -> Call] /\ binding \in [Keys -> Items \cup {NoItem}]
  BY DEF WorkInit, Call, IdleCall
<1>5. WorkTypeOK
  BY <1>1, <1>2, <1>3, <1>4 DEF WorkTypeOK, WorkInit, TaskStatuses, NoItemRow
<1>6. Blank /\ Intends /\ ClaimsAgreeWithRows /\ HeldIsStarted
  BY <1>1, <1>2, KeyAssumption
  DEF WorkInit, IdleCall, Blank, Intends, ClaimsAgreeWithRows, HeldIsStarted, Holds, NoItemRow
<1>7. ReachedIsReady
  BY <1>1, ItemAssumption
  DEF ReachedIsReady, StartedStatuses, Named, NoItemRow, WorkInit, IdleCall
<1>8. ScopesDisjoint
  BY <1>2 DEF ScopesDisjoint
<1>9. TaskStatus(items, claims) = "open"
  BY <1>2 DEF TaskStatus
<1> QED
  BY <1>5, <1>6, <1>7, <1>8, <1>9 DEF IInv, TaskStatusIsDerived, WorkInit

-----------------------------------------------------------------------------
(* A step that gives one item a new row: what is completed stays so, and the *)
(* dependencies of an item that is there stay the same.                      *)
RowStep(i, row) ==
  /\ row \in Item /\ row.status # "absent"
  /\ items' = [items EXCEPT ![i] = row]
  /\ items[i].status # "absent" => row.deps = items[i].deps
  /\ items[i].status = "completed" => row.status = "completed"

LEMMA RowStepKeeps ==
  ASSUME IInv, NEW i \in Items, NEW row, RowStep(i, row),
         row.deps \subseteq Created(items)
  PROVE  /\ items' \in [Items -> Item]
         /\ items'[i] = row /\ \A j \in Items \ {i} : items'[j] = items[j]
         /\ Created(items') = Created(items) \cup {i}
         /\ \A j \in Items : items'[j].deps \subseteq Created(items')
         /\ \A j \in Created(items) : Unmet(items', j) \subseteq Unmet(items, j)
         /\ Blank'
<1>1. /\ items' \in [Items -> Item]
      /\ items'[i] = row /\ \A j \in Items \ {i} : items'[j] = items[j]
  BY DEF IInv, WorkTypeOK, RowStep
<1>2. Created(items') = Created(items) \cup {i}
  BY <1>1 DEF Created, RowStep
<1>3. \A j \in Items : items'[j].deps \subseteq Created(items')
  BY <1>1, <1>2 DEF IInv, WorkTypeOK
<1>4. \A j \in Created(items) : Unmet(items', j) \subseteq Unmet(items, j)
  <2> SUFFICES ASSUME NEW j \in Created(items), NEW d \in Unmet(items', j)
               PROVE  d \in Unmet(items, j)
    OBVIOUS
  <2>1. items'[j].deps = items[j].deps /\ j \in Items
    BY <1>1 DEF Created, RowStep
  <2>2. d \in items[j].deps /\ items'[d].status # "completed"
    BY <2>1 DEF Unmet
  <2>3. d \in Items
    BY <2>1, <2>2 DEF IInv, WorkTypeOK, Created
  <2>4. items[d].status # "completed"
    BY <1>1, <2>2, <2>3 DEF RowStep
  <2> QED
    BY <2>2, <2>4 DEF Unmet
<1>5. Blank'
  BY <1>1 DEF IInv, Blank, RowStep
<1> QED
  BY <1>1, <1>2, <1>3, <1>4, <1>5

\* What a step that moves an item that is there on does to the rest of IInv.
LEMMA MovedKeeps ==
  ASSUME IInv, NEW i \in Items, NEW row, RowStep(i, row),
         items[i].status # "absent",
         row.status \in StartedStatuses => Unmet(items, i) = {},
         \A j \in Items : Named(j)' => Named(j) \/ (j = i /\ Unmet(items, i) = {})
  PROVE  ReachedIsReady' /\ ScopesDisjoint'
<1>1. row.deps \subseteq Created(items) /\ i \in Created(items)
  BY DEF RowStep, IInv, WorkTypeOK, Created
<1>2. /\ items'[i] = row /\ \A j \in Items \ {i} : items'[j] = items[j]
      /\ Created(items') = Created(items) \cup {i}
      /\ \A j \in Created(items) : Unmet(items', j) \subseteq Unmet(items, j)
  BY <1>1, RowStepKeeps
<1>3. ReachedIsReady'
  <2> SUFFICES ASSUME NEW j \in Items, items'[j].status \in StartedStatuses \/ Named(j)'
               PROVE  j \in Created(items') /\ Unmet(items', j) = {}
    BY DEF ReachedIsReady
  <2>1. j \in Created(items) /\ Unmet(items, j) = {}
    BY <1>1, <1>2 DEF IInv, ReachedIsReady
  <2> QED
    BY <1>2, <2>1
<1>4. ScopesDisjoint'
  <2> SUFFICES ASSUME NEW m \in Created(items'), NEW n \in Created(items'), m # n,
                      {m, n} \in Overlapping
               PROVE  "completed" \in {items'[m].status, items'[n].status}
    BY DEF ScopesDisjoint
  <2>1. m \in Created(items) /\ n \in Created(items) /\ m \in Items /\ n \in Items
    BY <1>1, <1>2 DEF Created
  <2>2. "completed" \in {items[m].status, items[n].status}
    BY <2>1 DEF IInv, ScopesDisjoint
  <2> QED
    BY <1>2, <2>1, <2>2 DEF RowStep
<1> QED
  BY <1>3, <1>4

-----------------------------------------------------------------------------
LEMMA CreateKeeps ==
  ASSUME IInv, NEW i \in Items, NEW deps \in SUBSET (Items \ {i}),
         CreateWorkItem(i, deps)
  PROVE  IInv'
<1> DEFINE row == [NoItemRow EXCEPT !.status = "open", !.deps = deps]
<1>1. /\ items[i].status = "absent" /\ deps \subseteq Created(items)
      /\ ScopeIsFree(items, i)
      /\ items' = [items EXCEPT ![i] = row]
      /\ task' = TaskStatus(items', claims)
      /\ UNCHANGED <<claims, binding, call>>
  BY DEF CreateWorkItem, DependenciesExist
<1>2. /\ row \in Item /\ row.status = "open" /\ row.deps = deps
      /\ row.session = NoKey
  BY DEF Item, NoItemRow, ItemStatuses
<1> HIDE DEF row
<1>3. RowStep(i, row)
  BY <1>1, <1>2 DEF RowStep
<1>4. /\ items' \in [Items -> Item]
      /\ items'[i] = row /\ \A j \in Items \ {i} : items'[j] = items[j]
      /\ Created(items') = Created(items) \cup {i}
      /\ \A j \in Items : items'[j].deps \subseteq Created(items')
      /\ \A j \in Created(items) : Unmet(items', j) \subseteq Unmet(items, j)
      /\ Blank'
  BY <1>1, <1>2, <1>3, RowStepKeeps
<1>5. WorkTypeOK'
  BY <1>1, <1>4, TaskStatusType DEF IInv, WorkTypeOK
<1>6. items[i].session = NoKey
  BY <1>1 DEF IInv, Blank, NoItemRow
<1>7. ClaimsAgreeWithRows' /\ HeldIsStarted'
  <2>1. \A j \in Items, k \in Keys : Holds(k, j)' <=> Holds(k, j)
    BY <1>1 DEF Holds
  <2>2. \A j \in Items : items'[j].session = items[j].session
    BY <1>2, <1>4, <1>6
  <2>3. \A k \in Keys : ~Holds(k, i)
    BY <1>6, KeyAssumption DEF IInv, ClaimsAgreeWithRows
  <2> QED
    BY <1>4, <2>1, <2>2, <2>3 DEF IInv, ClaimsAgreeWithRows, HeldIsStarted
<1>8. ReachedIsReady'
  <2> SUFFICES ASSUME NEW j \in Items, items'[j].status \in StartedStatuses \/ Named(j)'
               PROVE  j \in Created(items') /\ Unmet(items', j) = {}
    BY DEF ReachedIsReady
  <2>1. Named(j)' <=> Named(j)
    BY <1>1 DEF Named
  <2>2. j \in Created(items) /\ Unmet(items, j) = {}
    BY <1>1, <1>2, <1>4, <2>1 DEF IInv, ReachedIsReady, StartedStatuses, Created
  <2> QED
    BY <1>4, <2>2
<1>9. ScopesDisjoint'
  <2> SUFFICES ASSUME NEW m \in Created(items'), NEW n \in Created(items'), m # n,
                      {m, n} \in Overlapping
               PROVE  "completed" \in {items'[m].status, items'[n].status}
    BY DEF ScopesDisjoint
  <2>1. m \in Items /\ n \in Items
    BY DEF Created
  <2>2. CASE m # i /\ n # i
    BY <1>4, <2>1, <2>2 DEF IInv, ScopesDisjoint
  <2>3. CASE m = i
    BY <1>1, <1>4, <2>1, <2>3 DEF ScopeIsFree
  <2>4. CASE n = i
    <3>1. {i, m} \in Overlapping
      BY <2>4
    <3> QED
      BY <1>1, <1>4, <2>1, <2>4, <3>1 DEF ScopeIsFree
  <2> QED
    BY <2>2, <2>3, <2>4
<1>10. TaskStatusIsDerived' /\ Intends'
  BY <1>1 DEF TaskStatusIsDerived, IInv, Intends
<1> QED
  BY <1>4, <1>5, <1>7, <1>8, <1>9, <1>10 DEF IInv

LEMMA ClaimKeeps ==
  ASSUME IInv, NEW c \in Callers, NEW i \in Items, ClaimWorkItem(c, i)
  PROVE  IInv'
<1> DEFINE k == KeyOf[c]
           row == [items[i] EXCEPT !.status = IF @ = "open" THEN "claimed" ELSE @,
                                   !.session = k]
           me == [IdleCall EXCEPT !.pc = "bind", !.item = i]
<1>1. /\ i \in Created(items) /\ ~HasClaim(k)
      /\ Readiness(items, claims, i) # "blocked"
      /\ \A q \in Keys : ~Holds(q, i)
      /\ claims' = claims \cup {[item |-> i, session |-> k]}
      /\ items' = [items EXCEPT ![i] = row]
      /\ task' = TaskStatus(items', claims')
      /\ call' = [call EXCEPT ![c] = me]
      /\ binding' = binding
  BY DEF ClaimWorkItem
<1>2. k \in Keys /\ items[i] \in Item /\ items[i].status # "absent"
  BY <1>1, KeyAssumption DEF IInv, WorkTypeOK, Created
<1>3. /\ row \in Item /\ row.session = k /\ row.deps = items[i].deps
      /\ row.status = IF items[i].status = "open" THEN "claimed" ELSE items[i].status
      /\ row.status \in StartedStatuses
  BY <1>2 DEF Item, ItemStatuses, StartedStatuses
<1>4. me \in Call /\ me.pc = "bind" /\ me.item = i
  BY DEF Call, IdleCall
<1> HIDE DEF k, row, me
<1>5. RowStep(i, row)
  BY <1>1, <1>2, <1>3 DEF RowStep
<1>6. Unmet(items, i) = {}
  <2>1. CASE items[i].status \in StartedStatuses
    BY <2>1 DEF IInv, ReachedIsReady
  <2>2. CASE items[i].status = "open"
    BY <1>1, <2>2 DEF Readiness
  <2> QED
    BY <1>2, <2>1, <2>2 DEF Item, ItemStatuses, StartedStatuses
<1>7. /\ items' \in [Items -> Item]
      /\ items'[i] = row /\ \A j \in Items \ {i} : items'[j] = items[j]
      /\ \A j \in Items : items'[j].deps \subseteq Created(items')
      /\ Blank'
  <2>1. row.deps \subseteq Created(items)
    BY <1>3 DEF IInv, WorkTypeOK
  <2> QED
    BY <1>5, <2>1, RowStepKeeps
<1>8. call' \in [Callers -> Call] /\ claims' \subseteq Claim
  BY <1>1, <1>2, <1>4 DEF IInv, WorkTypeOK, Claim
<1>9. WorkTypeOK'
  BY <1>1, <1>7, <1>8, TaskStatusType DEF IInv, WorkTypeOK
<1>10. ClaimsAgreeWithRows' /\ HeldIsStarted'
  <2>1. \A j \in Items, q \in Keys :
          Holds(q, j)' <=> Holds(q, j) \/ (j = i /\ q = k)
    BY <1>1, <1>2 DEF Holds
  <2>2. \A j \in Items : ~Holds(k, j)
    BY <1>1 DEF HasClaim
  <2>3. \A q \in Keys : items[i].session # q
    BY <1>1 DEF IInv, ClaimsAgreeWithRows
  <2>4. \A j \in Items, q \in Keys : Holds(q, j)' <=> items'[j].session = q
    BY <1>1, <1>3, <1>7, <2>1, <2>3 DEF IInv, ClaimsAgreeWithRows
  <2>5. \A j, m \in Items, q \in Keys : Holds(q, j)' /\ Holds(q, m)' => j = m
    BY <2>1, <2>2 DEF IInv, ClaimsAgreeWithRows
  <2>6. HeldIsStarted'
    BY <1>3, <1>7, <2>1 DEF IInv, HeldIsStarted
  <2> QED
    BY <2>4, <2>5, <2>6 DEF ClaimsAgreeWithRows
<1>11. \A j \in Items : Named(j)' => Named(j) \/ (j = i /\ Unmet(items, i) = {})
  BY <1>1, <1>4, <1>6 DEF Named, IInv, WorkTypeOK
<1>12. ReachedIsReady' /\ ScopesDisjoint'
  BY <1>2, <1>5, <1>6, <1>11, MovedKeeps
<1>13. TaskStatusIsDerived'
  BY <1>1 DEF TaskStatusIsDerived
<1>14. Intends'
  BY <1>1, <1>4 DEF IInv, WorkTypeOK, Intends
<1> QED
  BY <1>7, <1>9, <1>10, <1>12, <1>13, <1>14 DEF IInv

LEMMA ReleaseKeeps ==
  ASSUME IInv, NEW c \in Callers, NEW i \in Items, ReleaseWorkItem(c, i)
  PROVE  IInv'
<1> DEFINE k == KeyOf[c]
           row == [items[i] EXCEPT !.status = IF @ = "claimed" THEN "open" ELSE @,
                                   !.session = NoKey]
           me == [IdleCall EXCEPT !.pc = "unbind_read", !.item = i]
<1>1. /\ Holds(k, i)
      /\ claims' = claims \ {[item |-> i, session |-> k]}
      /\ items' = [items EXCEPT ![i] = row]
      /\ task' = TaskStatus(items', claims')
      /\ call' = [call EXCEPT ![c] = me]
      /\ binding' = binding
  BY DEF ReleaseWorkItem
<1>2. k \in Keys /\ items[i] \in Item
  BY KeyAssumption DEF IInv, WorkTypeOK
<1>3. items[i].status \in StartedStatuses /\ Unmet(items, i) = {}
  BY <1>1, <1>2 DEF IInv, HeldIsStarted, ReachedIsReady
<1>4. /\ row \in Item /\ row.session = NoKey /\ row.deps = items[i].deps
      /\ row.status = IF items[i].status = "claimed" THEN "open" ELSE items[i].status
  BY <1>2 DEF Item, ItemStatuses
<1>5. me \in Call /\ me.pc = "unbind_read"
  BY DEF Call, IdleCall
<1> HIDE DEF k, row, me
<1>6. RowStep(i, row)
  BY <1>1, <1>3, <1>4 DEF RowStep, StartedStatuses
<1>7. /\ items' \in [Items -> Item]
      /\ items'[i] = row /\ \A j \in Items \ {i} : items'[j] = items[j]
      /\ \A j \in Items : items'[j].deps \subseteq Created(items')
      /\ Blank'
  <2>1. row.deps \subseteq Created(items)
    BY <1>4 DEF IInv, WorkTypeOK
  <2> QED
    BY <1>6, <2>1, RowStepKeeps
<1>8. call' \in [Callers -> Call] /\ claims' \subseteq Claim
  BY <1>1, <1>5 DEF IInv, WorkTypeOK
<1>9. WorkTypeOK'
  BY <1>1, <1>7, <1>8, TaskStatusType DEF IInv, WorkTypeOK
<1>10. ClaimsAgreeWithRows' /\ HeldIsStarted'
  <2>1. \A j \in Items, q \in Keys :
          Holds(q, j)' <=> Holds(q, j) /\ ~(j = i /\ q = k)
    BY <1>1, <1>2 DEF Holds
  <2>2. \A q \in Keys : Holds(q, i) => q = k
    BY <1>1, <1>2 DEF IInv, ClaimsAgreeWithRows
  <2>3. \A j \in Items, q \in Keys : Holds(q, j)' <=> items'[j].session = q
    BY <1>4, <1>7, <2>1, <2>2, KeyAssumption DEF IInv, ClaimsAgreeWithRows
  <2>4. \A j, m \in Items, q \in Keys : Holds(q, j)' /\ Holds(q, m)' => j = m
    BY <2>1 DEF IInv, ClaimsAgreeWithRows
  <2>5. HeldIsStarted'
    BY <1>7, <2>1, <2>2 DEF IInv, HeldIsStarted
  <2> QED
    BY <2>3, <2>4, <2>5 DEF ClaimsAgreeWithRows
<1>11. \A j \in Items : Named(j)' => Named(j)
  BY <1>1, <1>5 DEF Named, IInv, WorkTypeOK
<1>12. ReachedIsReady' /\ ScopesDisjoint'
  BY <1>3, <1>6, <1>11, MovedKeeps DEF StartedStatuses
<1>13. TaskStatusIsDerived'
  BY <1>1 DEF TaskStatusIsDerived
<1>14. Intends'
  BY <1>1, <1>5 DEF IInv, WorkTypeOK, Intends
<1> QED
  BY <1>7, <1>9, <1>10, <1>12, <1>13, <1>14 DEF IInv

\* Steps that leave the rows and the claims alone.
LEMMA OthersKeep ==
  ASSUME IInv, UNCHANGED <<items, claims, task>>,
         binding' \in [Keys -> Items \cup {NoItem}], call' \in [Callers -> Call],
         \A i \in Items : Named(i)' => Named(i),
         Intends'
  PROVE  IInv'
<1>1. WorkTypeOK' /\ Blank'
  BY DEF IInv, WorkTypeOK, Blank, Created
<1>2. ClaimsAgreeWithRows' /\ HeldIsStarted'
  BY DEF IInv, ClaimsAgreeWithRows, HeldIsStarted, Holds
<1>3. ReachedIsReady'
  BY DEF IInv, ReachedIsReady, Created, Unmet
<1>4. ScopesDisjoint' /\ TaskStatusIsDerived'
  BY DEF IInv, ScopesDisjoint, TaskStatusIsDerived, Created
<1> QED
  BY <1>1, <1>2, <1>3, <1>4 DEF IInv

LEMMA BindingKeeps ==
  ASSUME IInv, NEW c \in Callers, Bind(c) \/ UnbindRead(c) \/ Unbind(c)
  PROVE  IInv'
<1>1. UNCHANGED <<items, claims, task>>
  BY DEF Bind, UnbindRead, Unbind
<1>2. IdleCall \in Call /\ IdleCall.pc = "idle"
  BY DEF IdleCall, Call
<1>3. call[c] \in Call /\ KeyOf[c] \in Keys
  BY KeyAssumption DEF IInv, WorkTypeOK
<1>4. CASE Bind(c)
  <2>1. binding' \in [Keys -> Items \cup {NoItem}] /\ call' \in [Callers -> Call]
    BY <1>2, <1>3, <1>4 DEF Bind, IInv, WorkTypeOK, Call
  <2>2. (\A i \in Items : Named(i)' => Named(i)) /\ Intends'
    BY <1>2, <1>3, <1>4 DEF Bind, Named, Intends, IInv, WorkTypeOK
  <2> QED
    BY <1>1, <2>1, <2>2, OthersKeep
<1>5. CASE UnbindRead(c)
  <2>1. PICK me \in Call : me.pc \notin {"bind", "commit"} /\ call' = [call EXCEPT ![c] = me]
    <3>1. [call[c] EXCEPT !.pc = "unbind"] \in Call
          /\ [call[c] EXCEPT !.pc = "unbind"].pc = "unbind"
      BY <1>3 DEF Call
    <3> QED
      BY <1>2, <1>5, <3>1 DEF UnbindRead
  <2>2. call' \in [Callers -> Call] /\ binding' = binding
    BY <1>5, <2>1 DEF UnbindRead, IInv, WorkTypeOK
  <2>3. (\A i \in Items : Named(i)' => Named(i)) /\ Intends'
    BY <2>1, <2>2 DEF Named, Intends, IInv, WorkTypeOK
  <2> QED
    BY <1>1, <2>2, <2>3, OthersKeep DEF IInv, WorkTypeOK
<1>6. CASE Unbind(c)
  <2>1. binding' \in [Keys -> Items \cup {NoItem}] /\ call' \in [Callers -> Call]
    BY <1>2, <1>3, <1>6 DEF Unbind, IInv, WorkTypeOK
  <2>2. (\A i \in Items : Named(i)' => Named(i)) /\ Intends'
    BY <1>2, <1>3, <1>6, ItemAssumption DEF Unbind, Named, Intends, IInv, WorkTypeOK
  <2> QED
    BY <1>1, <2>1, <2>2, OthersKeep
<1> QED
  BY <1>4, <1>5, <1>6

LEMMA CallKeeps ==
  ASSUME IInv, NEW c \in Callers,
         \/ \E s \in ItemSteps, next \in {"in_progress", "completed"} :
              CheckOwnership(c, s, next)
         \/ CommitRefused(c) \/ CallerCrash(c)
  PROVE  IInv'
<1>1. UNCHANGED <<items, claims, task, binding>>
  BY DEF CheckOwnership, CommitRefused, CallerCrash
<1>2. PICK me \in Call : /\ me.pc # "bind" /\ (me.pc = "commit" => me.next # "none")
                       /\ call' = [call EXCEPT ![c] = me]
  <2>1. IdleCall \in Call /\ IdleCall.pc = "idle"
    BY DEF IdleCall, Call
  <2>2. \A s \in ItemSteps, next \in {"in_progress", "completed"} :
          /\ [IdleCall EXCEPT !.pc = "commit", !.step = s, !.next = next] \in Call
          /\ [IdleCall EXCEPT !.pc = "commit", !.step = s, !.next = next].pc # "bind"
          /\ [IdleCall EXCEPT !.pc = "commit", !.step = s, !.next = next].next = next
    BY DEF IdleCall, Call
  <2> QED
    BY <2>1, <2>2 DEF CheckOwnership, CommitRefused, CallerCrash
<1>3. call' \in [Callers -> Call]
  BY <1>2 DEF IInv, WorkTypeOK
<1>4. (\A i \in Items : Named(i)' => Named(i)) /\ Intends'
  BY <1>1, <1>2 DEF Named, Intends, IInv, WorkTypeOK
<1> QED
  BY <1>1, <1>3, <1>4, OthersKeep DEF IInv, WorkTypeOK

\* The item a command acts on is held by its session, or was when it was bound.
LEMMA BoundIsReady ==
  ASSUME IInv, NEW k \in Keys, Bound(k) # NoItem
  PROVE  /\ Bound(k) \in Items /\ items[Bound(k)].status # "absent"
         /\ Unmet(items, Bound(k)) = {}
<1>1. HasClaim(k)
  BY DEF Bound
<1>2. PICK i \in Items : Bound(k) = i /\ (Named(i) \/ Holds(k, i))
  <2>1. CASE binding[k] # NoItem
    BY <1>1, <2>1 DEF Bound, Named, IInv, WorkTypeOK
  <2>2. CASE binding[k] = NoItem
    <3>1. Bound(k) = CHOOSE i \in Items : Holds(k, i)
      BY <1>1, <2>2 DEF Bound
    <3> QED
      BY <1>1, <3>1 DEF HasClaim
  <2> QED
    BY <2>1, <2>2
<1> QED
  BY <1>2 DEF IInv, HeldIsStarted, ReachedIsReady, Created

LEMMA CommitKeeps ==
  ASSUME IInv, NEW c \in Callers, CommitStep(c)
  PROVE  IInv'
<1> DEFINE i == Bound(KeyOf[c])
           next == call[c].next
           moves == i # NoItem /\ StepOf[i] = call[c].step /\ Advances(items, i, next)
<1>1. /\ call' = [call EXCEPT ![c] = IdleCall]
      /\ UNCHANGED <<claims, binding>>
      /\ moves => /\ items' = [items EXCEPT ![i].status = next]
                  /\ task' = TaskStatus(items', claims)
      /\ ~moves => UNCHANGED <<items, task>>
  BY DEF CommitStep
<1>2. call' \in [Callers -> Call]
  BY <1>1 DEF IInv, WorkTypeOK, IdleCall, Call
<1>3. (\A j \in Items : Named(j)' => Named(j)) /\ Intends'
  BY <1>1 DEF Named, Intends, IInv, WorkTypeOK, IdleCall
<1>4. CASE ~moves
  BY <1>1, <1>2, <1>3, <1>4, OthersKeep DEF IInv, WorkTypeOK
<1>5. CASE moves
  <2>1. PICK j \in Items : i = j /\ items[j].status # "absent" /\ Unmet(items, j) = {}
    BY <1>5, BoundIsReady, KeyAssumption
  <2>2. PICK n \in {"in_progress", "completed"} : next = n
    BY DEF IInv, WorkTypeOK, Intends, Call, CommitStep
  <2> DEFINE row == [items[j] EXCEPT !.status = n]
  <2>3. /\ items' = [items EXCEPT ![j] = row] /\ task' = TaskStatus(items', claims)
        /\ Advances(items, j, n)
    BY <1>1, <1>5, <2>1, <2>2
  <2>4. items[j] \in Item
    BY DEF IInv, WorkTypeOK
  <2>5. /\ row \in Item /\ row.status = n /\ row.deps = items[j].deps
        /\ row.session = items[j].session /\ row.status \in StartedStatuses
    BY <2>2, <2>4 DEF Item, ItemStatuses, StartedStatuses
  <2> HIDE DEF row, i, next, moves
  <2>6. RowStep(j, row)
    BY <2>2, <2>3, <2>5 DEF RowStep, Advances
  <2>7. row.deps \subseteq Created(items)
    BY <2>5 DEF IInv, WorkTypeOK
  <2>8. /\ items' \in [Items -> Item]
        /\ items'[j] = row /\ \A m \in Items \ {j} : items'[m] = items[m]
        /\ \A m \in Items : items'[m].deps \subseteq Created(items')
        /\ Blank'
    BY <2>6, <2>7, RowStepKeeps
  <2>9. WorkTypeOK'
    BY <1>1, <1>2, <2>3, <2>8, TaskStatusType DEF IInv, WorkTypeOK
  <2>10. ClaimsAgreeWithRows' /\ HeldIsStarted'
    <3>1. \A m \in Items, q \in Keys : Holds(q, m)' <=> Holds(q, m)
      BY <1>1 DEF Holds
    <3>2. \A m \in Items : items'[m].session = items[m].session
      BY <2>5, <2>8
    <3> QED
      BY <2>5, <2>8, <3>1, <3>2 DEF IInv, ClaimsAgreeWithRows, HeldIsStarted
  <2>11. ReachedIsReady' /\ ScopesDisjoint'
    BY <1>3, <2>1, <2>6, MovedKeeps
  <2>12. TaskStatusIsDerived'
    BY <1>1, <2>3 DEF TaskStatusIsDerived
  <2> QED
    BY <1>3, <2>8, <2>9, <2>10, <2>11, <2>12 DEF IInv
<1> QED
  BY <1>4, <1>5

LEMMA StepsKeep == IInv /\ [WorkNext]_workVars => IInv'
<1> SUFFICES ASSUME IInv, [WorkNext]_workVars PROVE IInv'
  OBVIOUS
<1>1. CASE UNCHANGED workVars
  <2>1. (\A i \in Items : Named(i)' => Named(i)) /\ Intends'
    BY <1>1 DEF workVars, Named, Intends, IInv
  <2> QED
    BY <1>1, <2>1, OthersKeep DEF workVars, IInv, WorkTypeOK
<1>2. CASE \E i \in Items : \E deps \in SUBSET (Items \ {i}) : CreateWorkItem(i, deps)
  BY <1>2, CreateKeeps
<1>3. ASSUME NEW c \in Callers,
             \/ \E i \in Items : ClaimWorkItem(c, i) \/ ReleaseWorkItem(c, i)
             \/ Bind(c) \/ UnbindRead(c) \/ Unbind(c)
             \/ CommitStep(c)
      PROVE  IInv'
  BY <1>3, ClaimKeeps, ReleaseKeeps, BindingKeeps, CommitKeeps
<1>4. ASSUME NEW c \in Callers,
             \/ \E s \in ItemSteps, next \in {"in_progress", "completed"} :
                  CheckOwnership(c, s, next)
             \/ CommitRefused(c) \/ CallerCrash(c)
      PROVE  IInv'
  BY <1>4, CallKeeps
<1> QED
  BY <1>1, <1>2, <1>3, <1>4 DEF WorkNext

LEMMA Invariance == WorkSpec => []IInv
  BY InitHolds, StepsKeep, PTL DEF WorkSpec

-----------------------------------------------------------------------------
(***************************************************************************)
(* Why the task never gets stuck.  A dependency exists before the item     *)
(* that names it and an item never gets another one, so the items can be   *)
(* numbered with every dependency below the item.  Among the open items,   *)
(* when nobody works on any, the one with the least number is ready.       *)
(***************************************************************************)
Numbers(rank, n) ==
  \A i \in Created(items) : rank[i] < n /\ \A d \in items[i].deps : rank[d] < rank[i]

Numbered == \E rank \in [Items -> Nat], n \in Nat : Numbers(rank, n)

LEMMA SmallestNumber ==
  ASSUME NEW S \in SUBSET Nat, S # {}
  PROVE  \E n \in S : \A m \in S : n <= m
<1>1. PICK n \in S : \A m \in S : ~ (<<m, n>> \in OpToRel(<, Nat))
  BY NatLessThanWellFounded, WFMin
<1>2. \A m \in S : ~ (m < n)
  BY <1>1 DEF OpToRel
<1> QED
  BY <1>2

LEMMA NumberedAtFirst == WorkInit => Numbered
<1> SUFFICES ASSUME WorkInit PROVE Numbered
  OBVIOUS
<1>1. Created(items) = {}
  BY DEF WorkInit, Created, NoItemRow
<1>2. [i \in Items |-> 0] \in [Items -> Nat] /\ 0 \in Nat
  OBVIOUS
<1>3. Numbers([i \in Items |-> 0], 0)
  BY <1>1 DEF Numbers
<1> QED
  BY <1>2, <1>3 DEF Numbered

\* A new item gets the next number.
LEMMA CreateNumbers ==
  ASSUME IInv, Numbered, NEW i \in Items, NEW deps \in SUBSET (Items \ {i}),
         CreateWorkItem(i, deps)
  PROVE  Numbered'
<1>1. /\ items[i].status = "absent" /\ deps \subseteq Created(items)
      /\ items' = [items EXCEPT ![i] = [NoItemRow EXCEPT !.status = "open", !.deps = deps]]
  BY DEF CreateWorkItem, DependenciesExist
<1>2. /\ items'[i].deps = deps
      /\ \A j \in Items \ {i} : items'[j] = items[j]
  BY <1>1 DEF IInv, WorkTypeOK, NoItemRow
<1>3. /\ Created(items') \subseteq Created(items) \cup {i} /\ i \notin Created(items)
      /\ Created(items) \subseteq Items
  BY <1>1, <1>2 DEF Created
<1>4. PICK rank \in [Items -> Nat], n \in Nat : Numbers(rank, n)
  BY DEF Numbered
<1> DEFINE next == [rank EXCEPT ![i] = n]
<1>5. next \in [Items -> Nat] /\ n + 1 \in Nat
  OBVIOUS
<1>6. next[i] = n /\ \A j \in Created(items) : next[j] = rank[j]
  BY <1>3
<1> HIDE DEF next
<1>7. ASSUME NEW j \in Created(items')
      PROVE  next[j] < n + 1 /\ \A d \in items'[j].deps : next[d] < next[j]
  <2>1. CASE j = i
    <3>1. \A d \in deps : rank[d] < n
      BY <1>1, <1>4 DEF Numbers
    <3> QED
      BY <1>1, <1>2, <1>6, <2>1, <3>1
  <2>2. CASE j # i
    <3>1. j \in Created(items) /\ items'[j].deps = items[j].deps
      BY <1>2, <1>3, <2>2
    <3>2. items[j].deps \subseteq Created(items) /\ rank[j] \in Nat
      BY <1>3, <3>1 DEF IInv, WorkTypeOK
    <3>3. rank[j] < n /\ \A d \in items[j].deps : rank[d] < rank[j]
      BY <1>4, <3>1 DEF Numbers
    <3> QED
      BY <1>6, <3>1, <3>2, <3>3
  <2> QED
    BY <2>1, <2>2
<1>8. Numbers(next, n + 1)'
  BY <1>7 DEF Numbers
<1> QED
  BY <1>5, <1>8 DEF Numbered

\* No other step creates an item or changes what one depends on.
LEMMA StaysNumbered ==
  ASSUME Numbered, Created(items') \subseteq Created(items),
         \A i \in Created(items) : items'[i].deps = items[i].deps
  PROVE  Numbered'
<1>1. PICK rank \in [Items -> Nat], n \in Nat : Numbers(rank, n)
  BY DEF Numbered
<1>2. Numbers(rank, n)'
  BY <1>1 DEF Numbers
<1> QED
  BY <1>2 DEF Numbered

LEMMA StepsNumber == IInv /\ Numbered /\ [WorkNext]_workVars => Numbered'
<1> SUFFICES ASSUME IInv, Numbered, [WorkNext]_workVars PROVE Numbered'
  OBVIOUS
<1>1. CASE UNCHANGED items
  BY <1>1, StaysNumbered
<1>2. CASE \E i \in Items : \E deps \in SUBSET (Items \ {i}) : CreateWorkItem(i, deps)
  BY <1>2, CreateNumbers
<1>3. ASSUME NEW c \in Callers, NEW i \in Items, ClaimWorkItem(c, i) \/ ReleaseWorkItem(c, i)
      PROVE  Numbered'
  <2>1. i \in Created(items)
    BY <1>3, KeyAssumption
    DEF ClaimWorkItem, ReleaseWorkItem, IInv, HeldIsStarted, StartedStatuses, Created
  <2>2. items[i] \in Item /\ items \in [Items -> Item]
    BY DEF IInv, WorkTypeOK
  <2>3. PICK s, k : items' = [items EXCEPT ![i].status = s, ![i].session = k]
    BY <1>3 DEF ClaimWorkItem, ReleaseWorkItem
  <2>4. /\ \A j \in Items : items'[j].deps = items[j].deps
        /\ \A j \in Items \ {i} : items'[j] = items[j]
    BY <2>2, <2>3 DEF Item
  <2>5. Created(items') \subseteq Created(items)
    BY <2>1, <2>4 DEF Created
  <2> QED
    BY <2>4, <2>5, StaysNumbered DEF Created
<1>4. ASSUME NEW c \in Callers, CommitStep(c)
      PROVE  Numbered'
  <2> DEFINE i == Bound(KeyOf[c])
  <2>1. \/ UNCHANGED items
        \/ i # NoItem /\ items' = [items EXCEPT ![i].status = call[c].next]
    BY <1>4 DEF CommitStep
  <2>2. CASE i # NoItem /\ items' = [items EXCEPT ![i].status = call[c].next]
    <3>1. i \in Items /\ i \in Created(items)
      BY <2>2, BoundIsReady, KeyAssumption DEF Created
    <3> HIDE DEF i
    <3>2. items[i] \in Item /\ items \in [Items -> Item]
      BY <3>1 DEF IInv, WorkTypeOK
    <3>3. /\ \A j \in Items : items'[j].deps = items[j].deps
          /\ \A j \in Items \ {i} : items'[j] = items[j]
      BY <2>2, <3>1, <3>2 DEF Item
    <3>4. Created(items') \subseteq Created(items)
      BY <3>1, <3>3 DEF Created
    <3> QED
      BY <3>3, <3>4, StaysNumbered DEF Created
  <2> QED
    BY <1>1, <2>1, <2>2
<1>5. ASSUME NEW c \in Callers,
             \/ Bind(c) \/ UnbindRead(c) \/ Unbind(c) \/ CommitRefused(c) \/ CallerCrash(c)
             \/ \E s \in ItemSteps, next \in {"in_progress", "completed"} :
                  CheckOwnership(c, s, next)
      PROVE  UNCHANGED items
  BY <1>5 DEF Bind, UnbindRead, Unbind, CommitRefused, CallerCrash, CheckOwnership
<1> QED
  BY <1>1, <1>2, <1>3, <1>4, <1>5 DEF WorkNext, workVars

\* With the rows numbered, an open task always has an item to go on with.
LEMMA SomethingIsReady == IInv /\ Numbered => TaskNeverBlocked
<1> SUFFICES ASSUME IInv, Numbered, task = "blocked" PROVE FALSE
  BY DEF TaskNeverBlocked
<1> DEFINE Open == {i \in Created(items) : items[i].status = "open"}
<1>1. /\ \A i \in Created(items) : items[i].status \notin {"claimed", "in_progress"}
      /\ Open # {}
      /\ \A i \in Created(items) : Readiness(items, claims, i) # "ready"
  BY DEF IInv, TaskStatusIsDerived, TaskStatus
<1>2. PICK rank \in [Items -> Nat], n \in Nat : Numbers(rank, n)
  BY DEF Numbered
<1>3. PICK i \in Open : \A j \in Open : rank[i] <= rank[j]
  <2>1. Open \subseteq Items /\ \A j \in Open : rank[j] \in Nat
    BY DEF Created
  <2>2. {rank[j] : j \in Open} \subseteq Nat /\ {rank[j] : j \in Open} # {}
    BY <1>1, <2>1
  <2>3. PICK m \in {rank[j] : j \in Open} : \A l \in {rank[j] : j \in Open} : m <= l
    BY <2>2, SmallestNumber
  <2> QED
    BY <2>3
<1>4. i \in Items /\ i \in Created(items) /\ items[i].status = "open"
  BY <1>3 DEF Created
<1>5. Unmet(items, i) = {}
  <2> SUFFICES ASSUME NEW d \in items[i].deps, items[d].status # "completed" PROVE FALSE
    BY DEF Unmet
  <2>1. d \in Created(items) /\ d \in Items
    BY <1>4 DEF IInv, WorkTypeOK, Created
  <2>2. items[d].status \in ItemStatuses /\ items[d].status # "absent"
    BY <2>1 DEF IInv, WorkTypeOK, Item, Created
  <2>3. d \in Open
    BY <1>1, <2>1, <2>2 DEF ItemStatuses
  <2>4. rank[d] < rank[i] /\ rank[d] \in Nat /\ rank[i] \in Nat
    BY <1>2, <1>4, <2>1 DEF Numbers
  <2> QED
    BY <1>3, <2>3, <2>4
<1>6. ~ClaimedElsewhere(items, claims, i)
  <2> SUFFICES ASSUME NEW h \in claims, h.item = i, h.session # items[i].session PROVE FALSE
    BY DEF ClaimedElsewhere
  <2>1. h.session \in Keys /\ h = [item |-> i, session |-> h.session]
    BY DEF IInv, WorkTypeOK, Claim
  <2>2. Holds(h.session, i)
    BY <2>1 DEF Holds
  <2> QED
    BY <1>4, <2>1, <2>2 DEF IInv, ClaimsAgreeWithRows
<1>7. Readiness(items, claims, i) = "ready"
  BY <1>4, <1>5, <1>6 DEF Readiness
<1> QED
  BY <1>1, <1>4, <1>7

-----------------------------------------------------------------------------
\* The rows, claims, bindings and calls have their types, and a dependency is
\* a row that exists.
THEOREM WorkTypes == WorkSpec => []WorkTypeOK
  BY Invariance, PTL DEF IInv

\* The session_key column of work_items and the active rows of
\* work_item_claims agree, and no session holds two items, whichever process
\* dies between its transactions (task_store.py).
THEOREM ClaimsAgree == WorkSpec => []ClaimsAgreeWithRows
  BY Invariance, PTL DEF IInv

\* Nobody works on an item, or finishes it, before what it depends on is
\* completed: also not through a binding left over from an earlier claim.
THEOREM StartedLate == WorkSpec => []StartedAfterDependencies
<1>1. IInv => StartedAfterDependencies
  BY DEF IInv, ReachedIsReady, StartedStatuses, StartedAfterDependencies
<1> QED
  BY <1>1, Invariance, PTL

\* Two unfinished items never own the same path, artifact or concern of a step.
THEOREM ScopesStayDisjoint == WorkSpec => []ScopesDisjoint
  BY Invariance, PTL DEF IInv

\* The stored status of the task is the one its items give, after commits of
\* the coordination layer and of the runtime layer alike.
THEOREM TaskStatusIsTrue == WorkSpec => []TaskStatusIsDerived
  BY Invariance, PTL DEF IInv

\* The task never gets stuck with open items of which none is ready and none
\* is under way: dependencies cannot form a cycle, and a released item is
\* ready again (task_store.py, derive_task_status).
THEOREM TaskIsNeverStuck == WorkSpec => []TaskNeverBlocked
<1>1. WorkSpec => []Numbered
  BY NumberedAtFirst, StepsNumber, Invariance, PTL DEF WorkSpec
<1> QED
  BY <1>1, SomethingIsReady, Invariance, PTL

-----------------------------------------------------------------------------
(***************************************************************************)
(* What the binding of a session is worth, when each session's commands    *)
(* come one after the other: one process passes its key.  A claim has      *)
(* bound the session, a release has not yet unbound it, or the two agree.  *)
(***************************************************************************)
OneProcessASession == \A c, d \in Callers : KeyOf[c] = KeyOf[d] => c = d

BindingOf(c) ==
  LET k == KeyOf[c]
      m == call[c]
  IN  /\ m.pc = "bind" => \A i \in Items : Holds(k, i) <=> m.item = i
      /\ m.pc \in {"unbind_read", "unbind"} => ~HasClaim(k)
      /\ k \notin torn =>
           /\ m.pc \in {"idle", "commit"} => \A i \in Items : Holds(k, i) <=> binding[k] = i
           /\ m.pc \in {"unbind_read", "unbind"} => binding[k] = m.item

TornInv == IInv /\ \A c \in Callers : BindingOf(c)

LEMMA TornAtFirst == TornInit => TornInv
<1> SUFFICES ASSUME TornInit PROVE \A c \in Callers : BindingOf(c)
  BY InitHolds DEF TornInit, TornInv
<1>1. \A c \in Callers : call[c].pc = "idle" /\ binding[KeyOf[c]] = NoItem
  BY KeyAssumption DEF TornInit, WorkInit, IdleCall
<1>2. \A k, i : ~Holds(k, i)
  BY DEF TornInit, WorkInit, Holds
<1> QED
  BY <1>1, <1>2, ItemAssumption DEF BindingOf

\* A session whose process, claims and binding stay keeps what they say.
LEMMA BindingStays ==
  ASSUME NEW c \in Callers, BindingOf(c), call'[c] = call[c],
         binding'[KeyOf[c]] = binding[KeyOf[c]], KeyOf[c] \in torn => KeyOf[c] \in torn',
         \A i \in Items : Holds(KeyOf[c], i)' <=> Holds(KeyOf[c], i)
  PROVE  BindingOf(c)'
BY DEF BindingOf, HasClaim

\* A step of process c: the other sessions are left alone.
LEMMA OneBindingMoves ==
  ASSUME OneProcessASession, TornInv, NEW c \in Callers, IInv', BindingOf(c)',
         \A d \in Callers \ {c} : call'[d] = call[d],
         \A k \in Keys \ {KeyOf[c]} : /\ binding'[k] = binding[k] /\ (k \in torn <=> k \in torn')
                                      /\ \A i \in Items : Holds(k, i)' <=> Holds(k, i)
  PROVE  TornInv'
<1>1. ASSUME NEW d \in Callers, d # c PROVE BindingOf(d)'
  <2>1. KeyOf[d] \in Keys \ {KeyOf[c]}
    BY <1>1, KeyAssumption DEF OneProcessASession
  <2> QED
    BY <1>1, <2>1, BindingStays DEF TornInv
<1> QED
  BY <1>1 DEF TornInv

LEMMA TornSteps ==
  ASSUME OneProcessASession, TornInv, [TornNext]_tornVars PROVE TornInv'
<1>1. IInv'
  <2>1. [WorkNext]_workVars
    BY DEF TornNext, WorkNext, tornVars
  <2> QED
    BY <2>1, StepsKeep DEF TornInv
<1>2. /\ call \in [Callers -> Call] /\ binding \in [Keys -> Items \cup {NoItem}] /\ claims \subseteq Claim
      /\ \A c \in Callers : KeyOf[c] \in Keys
      /\ \A i, j \in Items, k \in Keys : Holds(k, i) /\ Holds(k, j) => i = j
  BY KeyAssumption DEF TornInv, IInv, WorkTypeOK, ClaimsAgreeWithRows
<1>3. CASE UNCHANGED tornVars
  BY <1>1, <1>3, BindingStays DEF tornVars, workVars, TornInv, Holds
<1>4. CASE \E i \in Items : \E deps \in SUBSET (Items \ {i}) : CreateWorkItem(i, deps) /\ UNCHANGED torn
  BY <1>1, <1>4, BindingStays DEF CreateWorkItem, TornInv, Holds
<1>5. ASSUME NEW c \in Callers, NEW i \in Items, ClaimWorkItem(c, i), UNCHANGED torn PROVE TornInv'
  <2>1. PICK k, me : k = KeyOf[c] /\ me = [IdleCall EXCEPT !.pc = "bind", !.item = i]
    OBVIOUS
  <2>2. /\ ~HasClaim(k) /\ claims' = claims \cup {[item |-> i, session |-> k]}
        /\ call' = [call EXCEPT ![c] = me] /\ binding' = binding
    BY <1>5, <2>1 DEF ClaimWorkItem
  <2>3. me.pc = "bind" /\ me.item = i
    BY <2>1 DEF IdleCall
  <2>4. \A h \in Keys, j \in Items : Holds(h, j)' <=> Holds(h, j) \/ (h = k /\ j = i)
    BY <2>2 DEF Holds
  <2>5. call'[c] = me /\ \A d \in Callers \ {c} : call'[d] = call[d]
    BY <1>2, <2>2
  <2>6. BindingOf(c)'
    BY <1>2, <2>1, <2>2, <2>3, <2>4, <2>5 DEF BindingOf, HasClaim
  <2> QED
    BY <1>1, <1>5, <2>1, <2>2, <2>4, <2>5, <2>6, OneBindingMoves
<1>6. ASSUME NEW c \in Callers, NEW i \in Items, ReleaseWorkItem(c, i), UNCHANGED torn PROVE TornInv'
  <2>1. PICK k, me : k = KeyOf[c] /\ me = [IdleCall EXCEPT !.pc = "unbind_read", !.item = i]
    OBVIOUS
  <2>2. /\ Holds(k, i) /\ claims' = claims \ {[item |-> i, session |-> k]}
        /\ call' = [call EXCEPT ![c] = me] /\ binding' = binding /\ call[c].pc = "idle"
    BY <1>6, <2>1 DEF ReleaseWorkItem
  <2>3. me.pc = "unbind_read" /\ me.item = i
    BY <2>1 DEF IdleCall
  <2>4. \A h \in Keys, j \in Items : Holds(h, j)' <=> Holds(h, j) /\ ~(h = k /\ j = i)
    BY <2>2 DEF Holds
  <2>5. call'[c] = me /\ \A d \in Callers \ {c} : call'[d] = call[d]
    BY <1>2, <2>2
  <2>6. ~HasClaim(k)'
    BY <1>2, <2>1, <2>2, <2>4 DEF HasClaim
  <2>7. k \notin torn' => binding'[k] = i
    BY <1>6, <2>1, <2>2 DEF TornInv, BindingOf
  <2>8. BindingOf(c)'
    BY <2>1, <2>3, <2>5, <2>6, <2>7 DEF BindingOf
  <2> QED
    BY <1>1, <1>6, <2>1, <2>2, <2>4, <2>5, <2>8, OneBindingMoves
<1>7. ASSUME NEW c \in Callers,
             \/ /\ \/ UnbindRead(c) \/ Unbind(c) \/ CommitStep(c) \/ CommitRefused(c)
                   \/ \E s \in ItemSteps, next \in {"in_progress", "completed"} : CheckOwnership(c, s, next)
                /\ UNCHANGED torn
             \/ Bind(c) /\ torn' = torn \ {KeyOf[c]}
             \/ CallerCrash(c) /\ torn' = torn \cup {KeyOf[c]}
      PROVE  TornInv'
  <2>1. PICK k : k = KeyOf[c]
    OBVIOUS
  <2>2. /\ claims' = claims /\ \A d \in Callers \ {c} : call'[d] = call[d]
        /\ \A h \in Keys \ {k} : binding'[h] = binding[h] /\ (h \in torn <=> h \in torn')
    BY <1>2, <1>7, <2>1 DEF UnbindRead, Unbind, CommitStep, CommitRefused, CheckOwnership, Bind, CallerCrash
  <2>3. \A h \in Keys, j \in Items : Holds(h, j)' <=> Holds(h, j)
    BY <2>2 DEF Holds
  <2>4. HasClaim(k)' <=> HasClaim(k)
    BY <1>2, <2>1, <2>3 DEF HasClaim
  <2>5. IdleCall.pc = "idle"
    BY DEF IdleCall
  <2>6. BindingOf(c)'
    <3>1. CASE UnbindRead(c) /\ UNCHANGED torn
      <4>1. /\ call[c].pc = "unbind_read" /\ binding' = binding
            /\ call'[c] = IF binding[k] = call[c].item THEN [call[c] EXCEPT !.pc = "unbind"] ELSE IdleCall
        BY <1>2, <2>1, <3>1 DEF UnbindRead
      <4>2. call[c] \in Call
        BY <1>2
      <4>3. CASE binding[k] = call[c].item
        <5>1. call'[c].pc = "unbind" /\ call'[c].item = call[c].item
          BY <4>1, <4>2, <4>3 DEF Call
        <5> QED
          BY <2>1, <2>4, <3>1, <4>1, <5>1 DEF TornInv, BindingOf
      <4>4. CASE binding[k] # call[c].item
        <5>1. k \in torn /\ call'[c] = IdleCall
          BY <2>1, <4>1, <4>4 DEF TornInv, BindingOf
        <5> QED
          BY <2>1, <2>5, <3>1, <5>1 DEF BindingOf
      <4> QED
        BY <4>3, <4>4
    <3>2. CASE Unbind(c) /\ UNCHANGED torn
      <4>1. /\ call[c].pc = "unbind" /\ binding'[k] = NoItem /\ call'[c] = IdleCall
        BY <1>2, <2>1, <3>2 DEF Unbind
      <4>2. ~HasClaim(k)'
        BY <2>1, <2>4, <4>1 DEF TornInv, BindingOf
      <4> QED
        BY <2>1, <2>5, <4>1, <4>2, ItemAssumption DEF BindingOf, HasClaim
    <3>3. CASE Bind(c) /\ torn' = torn \ {KeyOf[c]}
      <4>1. /\ call[c].pc = "bind" /\ binding'[k] = call[c].item /\ call'[c] = IdleCall
        BY <1>2, <2>1, <3>3 DEF Bind
      <4> QED
        BY <1>2, <2>1, <2>3, <2>5, <4>1 DEF TornInv, BindingOf
    <3>4. CASE CallerCrash(c) /\ torn' = torn \cup {KeyOf[c]}
      <4>1. call'[c] = IdleCall /\ k \in torn'
        BY <1>2, <2>1, <3>4 DEF CallerCrash
      <4> QED
        BY <2>1, <2>5, <4>1 DEF BindingOf
    <3>5. CASE /\ CommitStep(c) \/ CommitRefused(c)
                  \/ \E s \in ItemSteps, next \in {"in_progress", "completed"} : CheckOwnership(c, s, next)
               /\ UNCHANGED torn
      <4>1. /\ call[c].pc \in {"idle", "commit"} /\ binding' = binding
            /\ call'[c].pc \in {"idle", "commit"}
        BY <1>2, <2>5, <3>5 DEF CommitStep, CommitRefused, CheckOwnership, IdleCall
      <4> QED
        BY <1>2, <2>1, <2>3, <3>5, <4>1 DEF TornInv, BindingOf
    <3> QED
      BY <1>7, <3>1, <3>2, <3>3, <3>4, <3>5
  <2> QED
    BY <1>1, <2>1, <2>2, <2>3, <2>6, OneBindingMoves
<1> QED
  BY <1>3, <1>4, <1>5, <1>6, <1>7 DEF TornNext

\* Between the commands of a session its payload names the item it holds, and
\* none if it holds none, unless a claim or a release of it has died
\* (orchestration.py:181-262).
THEOREM BindingsFollowClaims ==
  ASSUME OneProcessASession PROVE TornSpec => []BindingFollowsClaim
<1>1. TornInv => BindingFollowsClaim
  BY DEF TornInv, BindingOf, BindingFollowsClaim
<1>2. TornInv /\ [TornNext]_tornVars => TornInv'
  BY TornSteps
<1> QED
  BY <1>1, <1>2, TornAtFirst, PTL DEF TornSpec

\* An implementation command moves on only an item its session holds, unless a
\* claim or a release of the session has died.
THEOREM SessionsAdvanceTheirOwn ==
  ASSUME OneProcessASession PROVE TornSpec => WholeSessionAdvancesItsOwn
<1>1. ASSUME TornInv, [TornNext]_tornVars, NEW c \in Callers, NEW i \in Items,
             call[c].pc = "commit", call'[c].pc = "idle", items'[i].status # items[i].status
      PROVE  KeyOf[c] \in torn \/ Holds(KeyOf[c], i)
  <2>1. PICK k : k = KeyOf[c]
    OBVIOUS
  <2>2. call \in [Callers -> Call] /\ items \in [Items -> Item] /\ k \in Keys
    BY <1>1, <2>1, KeyAssumption DEF TornInv, IInv, WorkTypeOK
  <2>3. CommitStep(c)
    <3>1. call'[c] # call[c] /\ items' # items
      BY <1>1
    <3>2. ASSUME NEW d \in Callers, call' # call,
                 \/ \E j \in Items : ClaimWorkItem(d, j) \/ ReleaseWorkItem(d, j)
                 \/ CommitStep(d)
          PROVE  d = c
      BY <2>2, <3>1, <3>2 DEF ClaimWorkItem, ReleaseWorkItem, CommitStep
    <3>3. \A j \in Items : ~ClaimWorkItem(c, j) /\ ~ReleaseWorkItem(c, j)
      BY <1>1 DEF ClaimWorkItem, ReleaseWorkItem
    <3>4. \E d \in Callers : \/ \E j \in Items : ClaimWorkItem(d, j) \/ ReleaseWorkItem(d, j)
                             \/ CommitStep(d)
      BY <1>1, <3>1 DEF TornNext, tornVars, workVars, CreateWorkItem, UnbindRead, Unbind, Bind,
                        CheckOwnership, CommitRefused, CallerCrash
    <3> QED
      BY <3>1, <3>2, <3>3, <3>4
  <2>4. i = Bound(k)
    BY <1>1, <2>1, <2>2, <2>3 DEF CommitStep
  <2>5. i \in Items /\ i # NoItem
    BY ItemAssumption
  <2>6. CASE HasClaim(k) /\ binding[k] # NoItem
    <3>1. i = binding[k]
      BY <2>4, <2>6 DEF Bound
    <3> QED
      BY <1>1, <2>1, <3>1 DEF TornInv, BindingOf
  <2>7. CASE HasClaim(k) /\ binding[k] = NoItem
    <3>1. i = CHOOSE j \in Items : Holds(k, j)
      BY <2>4, <2>7 DEF Bound
    <3> QED
      BY <2>1, <2>7, <3>1 DEF HasClaim
  <2>8. HasClaim(k)
    BY <2>4, <2>5 DEF Bound
  <2> QED
    BY <2>6, <2>7, <2>8
<1>2. TornInv /\ [TornNext]_tornVars => TornInv'
  BY TornSteps
<1>3. TornInv /\ [TornNext]_tornVars =>
        [\A c \in Callers, i \in Items :
           call[c].pc = "commit" /\ call'[c].pc = "idle" /\ items'[i].status # items[i].status
             => KeyOf[c] \in torn \/ Holds(KeyOf[c], i)]_tornVars
  BY <1>1
<1> QED
  BY <1>2, <1>3, TornAtFirst, PTL DEF TornSpec, WholeSessionAdvancesItsOwn
=============================================================================
