---------------------------- MODULE TaskManager ----------------------------
(* stratum-apps task_manager.rs: the join handles of the tasks an            *)
(* application has spawned.  join_all takes the handles out of the manager   *)
(* before it awaits them, so a caller that stops waiting drops them.         *)
EXTENDS Naturals, FiniteSets

CONSTANT Tasks

VARIABLES
    status,     \* each task: "new", "running", "finished" or "aborted"
    handles,    \* handles kept by the manager
    joining     \* handles taken by a join_all that is still waiting

taskVars == <<status, handles, joining>>

TasksInit ==
    /\ status = [t \in Tasks |-> "new"]
    /\ handles = {}
    /\ joining = {}

Running == {t \in Tasks : status[t] = "running"}

Prune(hs) == hs \cap Running

SpawnAll(ts) ==
    /\ status' = [t \in Tasks |-> IF t \in ts THEN "running" ELSE status[t]]
    /\ handles' = IF ts = {} THEN handles ELSE Prune(handles) \cup ts
    /\ UNCHANGED joining

Finish(t) ==
    /\ status[t] = "running"
    /\ status' = [status EXCEPT ![t] = "finished"]
    /\ UNCHANGED <<handles, joining>>

JoinAll ==
    /\ joining' = handles
    /\ handles' = {}
    /\ UNCHANGED status

Joined == joining \cap Running = {}

\* The future of join_all is dropped with the handles it holds.
DropJoin ==
    /\ joining' = {}
    /\ UNCHANGED <<status, handles>>

AbortAll ==
    /\ status' = [t \in Tasks |-> IF t \in handles \cap Running THEN "aborted" ELSE status[t]]
    /\ handles' = {}
    /\ UNCHANGED joining
=============================================================================
