----------------------------- MODULE MCFallback ------------------------------
(* Instances of FallbackCoordinator for TLC: the listener and the channel    *)
(* manager run until the signal, upstream and downstream connections may     *)
(* end at any time.                                                          *)
EXTENDS FallbackCoordinator, TLC

CONSTANTS listener, manager, conn1, conn2

Services == {listener, manager}
AllTasks == Services \cup {conn1, conn2}
NoTasks == {}

=============================================================================
