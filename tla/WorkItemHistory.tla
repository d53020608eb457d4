-------------------------- MODULE WorkItemHistory --------------------------
(***************************************************************************)
(* WorkItems with a memory of what died: torn holds the sessions of which  *)
(* a claim or a release died between its transactions, until a later claim *)
(* of theirs completes.  The variable is for the properties, which say     *)
(* what the binding of every other session is worth.                       *)
(***************************************************************************)
EXTENDS WorkItems

VARIABLE torn

tornVars == <<workVars, torn>>

TornInit == WorkInit /\ torn = {}

TornNext ==
  \/ \E i \in Items : \E deps \in SUBSET (Items \ {i}) : CreateWorkItem(i, deps) /\ UNCHANGED torn
  \/ \E c \in Callers :
       \/ /\ \/ \E i \in Items : ClaimWorkItem(c, i) \/ ReleaseWorkItem(c, i)
             \/ UnbindRead(c) \/ Unbind(c)
             \/ \E s \in ItemSteps, next \in {"in_progress", "completed"} : CheckOwnership(c, s, next)
             \/ CommitStep(c) \/ CommitRefused(c)
          /\ UNCHANGED torn
       \/ Bind(c) /\ torn' = torn \ {KeyOf[c]}
       \/ CallerCrash(c) /\ torn' = torn \cup {KeyOf[c]}

TornSpec == TornInit /\ [][TornNext]_tornVars

\* Between its commands, a session's payload names the item the session holds,
\* and none if it holds none, unless a claim or a release of it has died.
BindingFollowsClaim ==
  \A c \in Callers : call[c].pc = "idle" /\ KeyOf[c] \notin torn
    => \A i \in Items : Holds(KeyOf[c], i) <=> binding[KeyOf[c]] = i

\* A session moves on only items it holds, unless a claim or a release of it
\* has died.
WholeSessionAdvancesItsOwn ==
  [][\A c \in Callers, i \in Items :
       call[c].pc = "commit" /\ call'[c].pc = "idle" /\ items'[i].status # items[i].status
         => KeyOf[c] \in torn \/ Holds(KeyOf[c], i)]_tornVars
=============================================================================
