------------------------- MODULE PoolRuntimeProofs -------------------------
(* The pool's teardown is complete, whatever the set of tasks and of callers *)
(* of PoolSv2::shutdown: no running task is out of reach of a join or an     *)
(* abort, and a stopped pool leaves neither thread nor job declarator on.    *)
EXTENDS PoolRuntime, TLAPS

\* The steps of PoolRuntime::shutdown that follow the cancellation of the
\* tokens, and those that follow the join of the Bitcoin Core thread.
AfterCancel == {"joinCore", "join", "abort", "rejoin", "mark", "stopped"}
AfterJoinCore == AfterCancel \ {"joinCore"}

\* What each step of the teardown finds done by the steps before it; the join
\* of the tasks takes over every handle, so no earlier join may hold one.
TeardownOrder ==
    /\ stage \in AfterCancel => cancelled /\ jds # "running"
    /\ stage \in AfterJoinCore => core # "running"
    /\ ~isAlive => stage \in {"mark", "stopped"}
    /\ stage = "mark" => mark \in 1..2
    /\ stage \notin AfterJoinCore => joining = {}

\* The inductive invariant: the property, and the order of the teardown, from
\* which what mark_stopped relies on follows.
TeardownInv == TeardownComplete /\ TeardownOrder

----------------------------------------------------------------------------
\* TaskManager::spawn: the spawned tasks run and are tracked, the handles of
\* running tasks survive the pruning.
LEMMA SpawnTracks ==
    ASSUME NEW ts, ts \subseteq Tasks, SpawnAll(ts), TypeOK
    PROVE  /\ status' \in [Tasks -> {"new", "running", "finished", "aborted"}]
           /\ handles' \subseteq Tasks /\ joining' = joining
           /\ Running \subseteq handles \cup joining => Running' \subseteq handles' \cup joining'
  BY DEF SpawnAll, Prune, Running, TypeOK

\* A task that ends leaves nothing untracked.
LEMMA FinishTracks ==
    ASSUME NEW t \in Tasks, Finish(t), TypeOK
    PROVE  /\ status' \in [Tasks -> {"new", "running", "finished", "aborted"}]
           /\ handles' \subseteq Tasks /\ joining' = joining
           /\ Running' \subseteq Running
           /\ Running \subseteq handles \cup joining => Running' \subseteq handles' \cup joining'
  BY DEF Finish, Running, TypeOK

----------------------------------------------------------------------------
\* PoolSv2::start begins with nothing spawned and the pool alive.
LEMMA TeardownInit == Init => TeardownInv
  <1> SUFFICES ASSUME Init PROVE TeardownInv OBVIOUS
  <1> USE DEF Init, TasksInit
  <1>1. Running = {} BY DEF Running
  <1>2. TypeOK
    <2>1. caller \in [Callers -> {"idle", "checked", "notified", "waiting", "released", "returned"}]
      OBVIOUS
    <2>2. status \in [Tasks -> {"new", "running", "finished", "aborted"}] OBVIOUS
    <2>3. attempt \in 0..MaxRetries - 1 /\ mark \in 0..2 BY DEF MaxRetries
    <2> QED BY <2>1, <2>2, <2>3, Zenon DEF TypeOK, Stages
  <1> QED BY <1>1, <1>2 DEF TeardownInv, TeardownComplete, RunningTasksTracked,
                            StoppedLeavesNothingOn, TeardownOrder, AfterCancel, AfterJoinCore

\* The bootstrap spawns tasks, starts the thread and the job declarator, and
\* fails into the teardown; nothing of the teardown is done yet.
LEMMA BootstrapKeeps ==
    ASSUME TeardownInv, BootstrapJds \/ Bootstrap \/ TpAnswers
    PROVE  TeardownInv'
  <1> USE DEF TeardownInv, TeardownComplete, RunningTasksTracked, StoppedLeavesNothingOn,
              TeardownOrder, Stages, AfterCancel, AfterJoinCore, Fail
  <1> DEFINE Tracked ==
        /\ status' \in [Tasks -> {"new", "running", "finished", "aborted"}]
        /\ handles' \subseteq Tasks /\ joining' = joining
        /\ Running \subseteq handles \cup joining => Running' \subseteq handles' \cup joining'
  <1>0. \/ UNCHANGED taskVars
        \/ \E ts \in SUBSET Tasks : SpawnAll(ts)
    BY DEF BootstrapJds, Bootstrap, TpAnswers, ConnectSv2Tp, TpSetupBroken, ConnectToBitcoinCore,
           BootstrapChannelManager, StartServices, JdsTasks, IoTasks, TpTasks, ServiceTasks
  <1>1. Tracked
    BY <1>0, SpawnTracks DEF taskVars, Running, TypeOK
  <1>2. CASE BootstrapJds
    BY <1>1, <1>2, Zenon DEF BootstrapJds, TypeOK
  <1>3. CASE ConnectSv2Tp
    BY <1>1, <1>3 DEF ConnectSv2Tp, MayRetry, MaxRetries, TypeOK
  <1>4. CASE TpSetupBroken \/ ConnectToBitcoinCore \/ BootstrapChannelManager \/ StartServices \/ TpAnswers
    BY <1>1, <1>4 DEF TpSetupBroken, ConnectToBitcoinCore, BootstrapChannelManager, StartServices,
                      TpAnswers, TypeOK
  <1> QED BY <1>2, <1>3, <1>4 DEF Bootstrap

\* Tasks, the bridge and the thread run and end at any stage.
LEMMA TasksKeep ==
    ASSUME TeardownInv,
           AcceptConnection \/ Bridge \/ CoreExits \/ \E t \in Tasks : TaskEnds(t) \/ TaskFails(t)
    PROVE  TeardownInv'
  <1> USE DEF TeardownInv, TeardownComplete, RunningTasksTracked, StoppedLeavesNothingOn,
              TeardownOrder, Stages, AfterCancel, AfterJoinCore
  <1>1. CASE AcceptConnection
    <2>1. PICK t \in Tasks : SpawnAll({t}) BY <1>1 DEF AcceptConnection, ConnTasks
    <2> QED BY <1>1, <2>1, SpawnTracks DEF AcceptConnection, runtimeVars, TypeOK
  <1>2. CASE Bridge
    <2>1. "bridge" \in Tasks /\ Finish("bridge") BY <1>2 DEF Bridge, Running
    <2> QED BY <1>2, <2>1, FinishTracks DEF Bridge, TypeOK
  <1>3. CASE CoreExits
    BY <1>3, Zenon DEF CoreExits, taskVars, Running, TypeOK
  <1>4. ASSUME NEW t \in Tasks, TaskEnds(t) PROVE TeardownInv'
    BY <1>4, FinishTracks DEF TaskEnds, runtimeVars, TypeOK
  <1>5. ASSUME NEW t \in Tasks, TaskFails(t) PROVE TeardownInv'
    <2>1. /\ Finish(t) /\ cancelled'
          /\ UNCHANGED <<stage, core, coreToken, attempt, jds, isAlive, mark, caller>>
      BY <1>5, Zenon DEF TaskFails
    <2> QED BY <2>1, FinishTracks, SMTT(30) DEF TypeOK
  <1> QED BY <1>1, <1>2, <1>3, <1>4, <1>5

\* PoolRuntime::shutdown, step by step, and mark_stopped at its end.
LEMMA ShutdownKeeps ==
    ASSUME TeardownInv, Shutdown
    PROVE  TeardownInv'
  <1> USE DEF TeardownInv, TeardownComplete, RunningTasksTracked, StoppedLeavesNothingOn,
              TeardownOrder, Stages, AfterCancel, AfterJoinCore, TypeOK, taskVars, Running
  <1>1. CASE WaitForShutdown BY <1>1 DEF WaitForShutdown
  <1>2. CASE ShutdownCancel BY <1>2, Zenon DEF ShutdownCancel
  <1>3. CASE ShutdownJoinCore BY <1>3 DEF ShutdownJoinCore, JoinAll
  <1>4. CASE ShutdownJoined BY <1>4 DEF ShutdownJoined, Stop
  <1>5. CASE ShutdownTimeout BY <1>5 DEF ShutdownTimeout, DropJoin
  <1>6. CASE ShutdownAbort BY <1>6 DEF ShutdownAbort, AbortAll
  <1>7. CASE ShutdownRejoin BY <1>7 DEF ShutdownRejoin, JoinAll, Stop
  <1>8. CASE MarkStopped
    <2>1. caller' \in [Callers -> {"idle", "checked", "notified", "waiting", "released", "returned"}]
      BY <1>8 DEF MarkStopped
    <2>2. mark \in 1..2 /\ mark' \in 0..2 /\ (mark # 1 => mark' \in 1..2) BY <1>8 DEF MarkStopped
    <2> QED BY <1>8, <2>1, <2>2, Zenon DEF MarkStopped
  <1> QED BY <1>1, <1>2, <1>3, <1>4, <1>5, <1>6, <1>7, <1>8 DEF Shutdown

\* PoolSv2::shutdown only cancels and waits.
LEMMA CallsKeep ==
    ASSUME TeardownInv, NEW c \in Callers, Calls(c)
    PROVE  TeardownInv'
  <1>1. caller' \in [Callers -> {"idle", "checked", "notified", "waiting", "released", "returned"}]
    BY DEF TeardownInv, TeardownComplete, TypeOK, Calls, CallShutdown, CreateNotified, CancelAndWait
  <1>2. CallerStep /\ (cancelled' = cancelled \/ cancelled' = TRUE)
    BY DEF Calls, CallShutdown, CreateNotified, CancelAndWait
  <1>3. UNCHANGED <<status, handles, joining, stage, core, coreToken, attempt, jds, isAlive, mark>>
    BY <1>2, Zenon DEF CallerStep, taskVars
  <1>4. TypeOK' BY <1>1, <1>2, <1>3, Zenon DEF TeardownInv, TeardownComplete, TypeOK
  <1>5. RunningTasksTracked'
    BY <1>3, Zenon DEF TeardownInv, TeardownComplete, RunningTasksTracked, Running
  <1>6. cancelled => cancelled' BY <1>2, Zenon
  <1>7. StoppedLeavesNothingOn'
    BY <1>3, <1>6, Zenon DEF TeardownInv, TeardownComplete, StoppedLeavesNothingOn
  <1>8. TeardownOrder' BY <1>3, <1>6, Zenon DEF TeardownInv, TeardownOrder
  <1> QED BY <1>4, <1>5, <1>7, <1>8, Zenon DEF TeardownInv, TeardownComplete

\* PoolSv2::start and PoolRuntime::shutdown, for any tasks and callers: no
\* running task is ever out of reach of the join, and when the pool calls itself
\* stopped the tokens are cancelled, the Bitcoin Core thread has ended and the
\* embedded job declarator was shut down, whichever stage the start had reached.
THEOREM TeardownIsComplete == Spec => []TeardownComplete
  <1>1. TeardownInv /\ [Next]_<<vars, config>> => TeardownInv'
    <2> SUFFICES ASSUME TeardownInv, [Next]_<<vars, config>> PROVE TeardownInv' OBVIOUS
    <2>1. CASE Step
      BY <2>1, BootstrapKeeps, TasksKeep, ShutdownKeeps, CallsKeep DEF Step
    <2>2. CASE UNCHANGED <<vars, config>>
      BY <2>2 DEF TeardownInv, TeardownComplete, RunningTasksTracked, StoppedLeavesNothingOn,
                  TeardownOrder, TypeOK, vars, taskVars, runtimeVars, Running
    <2> QED BY <2>1, <2>2 DEF Next
  <1>2. TeardownInv => TeardownComplete BY DEF TeardownInv
  <1> QED BY TeardownInit, <1>1, <1>2, PTL DEF Spec
=============================================================================
