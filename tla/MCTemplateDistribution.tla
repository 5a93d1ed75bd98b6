----------------------- MODULE MCTemplateDistribution -----------------------
(* An instance of TemplateDistribution for TLC: each behaviour is explored   *)
(* under one of two bounds on tips, constraints and templates.               *)
EXTENDS TemplateDistribution

VARIABLE scenario

\* The tip moves and the constraints change while templates are fetched.
Moving == [tips |-> 2, epochs |-> 2, ids |-> 3]

\* Fee refreshes at one tip go past the cap.
Refreshing == [tips |-> 1, epochs |-> 1, ids |-> 4]

WithinScenario ==
    /\ coreTip' <= scenario.tips
    /\ nextEpoch' <= scenario.epochs + 1
    /\ nextId' <= scenario.ids + 1

MCInit == Init /\ scenario \in {Moving, Refreshing}
MCNext == Next /\ WithinScenario /\ UNCHANGED scenario
MCSpec == MCInit /\ [][MCNext]_<<vars, scenario>> /\ LocalFairness

=============================================================================
