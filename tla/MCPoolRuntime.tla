--------------------------- MODULE MCPoolRuntime ---------------------------
(* PoolRuntime with the tasks a pool spawns, one connection among them.      *)
EXTENDS PoolRuntime

SomeTasks == {"jds", "bridge", "tpReader", "tpLoop", "monitor", "channelManager", "server",
              "connection"}
=============================================================================
