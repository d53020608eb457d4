---------------------------- MODULE MCWorkItems ----------------------------
(* WorkItems with three items on two steps, two sessions and one process for *)
(* each.                                                                     *)
EXTENDS WorkItemHistory, TLC

CONSTANTS i1, i2, i3, k1, k2, sa, sb

MCItems == {i1, i2, i3}
MCStepOf == i1 :> sa @@ i2 :> sa @@ i3 :> sb
MCOverlapping == {{i1, i2}}
MCFewItems == {i1, i3}
MCFewStepOf == i1 :> sa @@ i3 :> sb
MCKeys == {k1, k2}
MCKeyOf == [k \in MCKeys |-> k]
MCSteps == {sa, sb}

=============================================================================
