------------------------- MODULE MCRuntimeMutation -------------------------
(* RuntimeMutation on two processes sharing one session, and two steps of   *)
(* which one is under TDD.                                                  *)
EXTENDS RuntimeMutation, TLC

CONSTANTS w1, w2, s1, s2, active

MCWriters == {w1, w2}
MCSteps == {s1, s2}
MCTddRequired == {s1}
MCSessions == {active}
MCSessionOf == [w \in MCWriters |-> active]

\* Either nothing beyond a summary, or all the evidence and the red phase.
MCInputs == {[phase |-> NoPhase, ev |-> {}], [phase |-> "red", ev |-> Evidence]}

\* The smallest instance in which a dead process's lease stands in the way.
MCOneStep == {s1}
MCOneInput == {[phase |-> NoPhase, ev |-> {}]}

\* The two processes are interchangeable (safety only).
WriterSymmetry == Permutations(MCWriters)

=============================================================================
