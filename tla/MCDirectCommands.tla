-------------------------- MODULE MCDirectCommands --------------------------
(* DirectCommands with two steps, one of them under TDD, one runtime session *)
(* and one process (MCOneWriter) or two (MCTwoWriters).                      *)
EXTENDS DirectCommands

CONSTANTS w1, w2, s1, s2, active

MCOneWriter == {w1}
MCTwoWriters == {w1, w2}
MCSteps == {s1, s2}
MCTddRequired == {s1}
MCSessions == {active}
MCSessionOf == [w \in Writers |-> active]
MCInputs == {[phase |-> NoPhase, ev |-> {}], [phase |-> "red", ev |-> Evidence]}

=============================================================================
