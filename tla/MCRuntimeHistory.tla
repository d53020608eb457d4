-------------------------- MODULE MCRuntimeHistory --------------------------
(* RuntimeMutation with a history variable: the revision that last changed   *)
(* each step.  It states what the documentation promises of                  *)
(* --expected-revision, on two processes and one step.                       *)
EXTENDS RuntimeMutation

CONSTANTS w1, w2, s1, active

MCWriters == {w1, w2}
MCSteps == {s1}
MCSessions == {active}
MCSessionOf == [w \in MCWriters |-> active]
MCInputs == {[phase |-> NoPhase, ev |-> {}], [phase |-> "red", ev |-> Evidence]}

VARIABLE touched

historyVars == <<vars, touched>>

HistoryInit == Init /\ touched = [s \in Steps |-> 0]

Remember == touched' = [s \in Steps |-> IF Signature(progress, s) = Signature(progress', s)
                                          THEN touched[s] ELSE revision']

HistoryNext == Next /\ Remember

HistorySpec == HistoryInit /\ [][HistoryNext]_historyVars

\* A command that names the revision its caller saw is not accepted over a
\* change another command has made to its step since that revision
\* (docs/cli/memory.md, the matrix of concurrent commands).
StaleReplayConflicts ==
  [][\A w \in Writers : Accepting(w) /\ cmd[w].expected # NoRevision
       => touched[cmd[w].step] <= cmd[w].expected]_historyVars

\* The canonical progress passes the repository's own validator
\* (validate_progress), whatever commands were accepted.
CanonicalProgressIsValid == ValidateProgress(progress)

=============================================================================
