---------------------------- MODULE PoolRuntime ----------------------------
(* The life of a pool: PoolSv2::start drives PoolRuntime through its         *)
(* bootstrap stages, waits for the cancellation token and tears down;        *)
(* PoolSv2::shutdown, called from other tasks, cancels and waits for the     *)
(* teardown.  The template provider is either a Sv2 connection (Sv2Tp) or a  *)
(* thread of its own talking to Bitcoin Core, tied to the pool by a second   *)
(* token and a task that cancels each token with the other.                  *)
EXTENDS TaskManager

CONSTANT Callers   \* tasks that call PoolSv2::shutdown

VARIABLES
    config,      \* what the pool was configured with
    stage,       \* bootstrap stage, then step of the teardown
    cancelled,   \* the pool's token
    core,        \* the Bitcoin Core thread: "none", "running", "exited"
    coreToken,   \* its token
    attempt,     \* connection attempts to a Sv2 template provider
    jds,         \* the embedded job declarator: "none", "running", "shutdown"
    isAlive,
    mark,        \* steps of mark_stopped left to do
    caller       \* where each caller of shutdown is

runtimeVars == <<stage, cancelled, core, coreToken, attempt, jds, isAlive, mark, caller>>
vars == <<taskVars, runtimeVars>>

MaxRetries == 3

CoreIpc == config.coreIpc      \* Bitcoin Core over IPC, or a Sv2 template provider
WithJds == config.jds          \* a [jds] section is configured
WithMonitor == config.monitor  \* a monitoring address is configured

JdsTasks == {"jds", "jdsServer"} \cap Tasks
IoTasks == {"tpReader", "tpWriter"} \cap Tasks
TpTasks == (IF CoreIpc THEN {"bridge"} ELSE IoTasks \cup {"tpLoop"}) \cap Tasks
ServiceTasks == ({"channelManager", "server"} \cup IF WithMonitor THEN {"monitor"} ELSE {}) \cap Tasks
ConnTasks == {"connection"} \cap Tasks

Init ==
    /\ TasksInit
    /\ config \in [coreIpc : BOOLEAN, jds : BOOLEAN, monitor : BOOLEAN]
    /\ stage = "io" /\ cancelled = FALSE
    /\ core = "none" /\ coreToken = FALSE /\ attempt = 0
    /\ jds = "none" /\ isAlive = TRUE /\ mark = 0
    /\ caller = [c \in Callers |-> "idle"]

----------------------------------------------------------------------------
(* Bootstrap.  A stage that fails hands the partial runtime to shutdown.     *)

Fail == stage' = "cancel"

\* bootstrap_jds: a failure after the job declarator exists shuts it down here,
\* for the runtime does not hold it yet.
BootstrapJds ==
    /\ stage = "io"
    /\ \/ ~WithJds /\ stage' = "jds" /\ UNCHANGED <<taskVars, cancelled, jds>>
       \/ WithJds /\ CoreIpc /\ stage' = "jds" /\ jds' = "running" /\ SpawnAll(JdsTasks)
          /\ UNCHANGED cancelled
       \/ WithJds /\ Fail /\ UNCHANGED <<taskVars, cancelled, jds>>
       \/ WithJds /\ CoreIpc /\ Fail /\ jds' = "shutdown" /\ cancelled' = TRUE
          /\ SpawnAll(JdsTasks)
    /\ UNCHANGED <<core, coreToken, attempt, isAlive, mark, caller>>

MayRetry == attempt + 1 < MaxRetries

\* Sv2Tp::new: up to three attempts; a timeout, an invalid key or a shutdown
\* request gives up at once, a success spawns the tasks that read and write.
ConnectSv2Tp ==
    /\ stage = "jds" /\ ~CoreIpc
    /\ \/ MayRetry /\ attempt' = attempt + 1 /\ UNCHANGED <<taskVars, stage>>
       \/ attempt' = attempt /\ Fail /\ UNCHANGED taskVars
       \/ attempt' = attempt /\ stage' = "tpSetup" /\ SpawnAll(IoTasks)
    /\ UNCHANGED <<cancelled, core, coreToken, jds, isAlive, mark, caller>>

\* Sv2Tp::start: the provider answers SetupConnection, to the pool's liking or not.
TpAnswers ==
    /\ stage = "tpSetup"
    /\ \/ stage' = "tp" /\ SpawnAll(TpTasks \ IoTasks)
       \/ Fail /\ UNCHANGED taskVars
    /\ UNCHANGED <<cancelled, core, coreToken, attempt, jds, isAlive, mark, caller>>

\* Either of its tasks closes the connection's channels when it ends.
TpDead == \E t \in IoTasks : status[t] = "finished"

\* setup_connection watches no token: it gives up when its channel is closed.
TpSetupBroken ==
    /\ stage = "tpSetup" /\ TpDead
    /\ Fail
    /\ UNCHANGED <<taskVars, cancelled, core, coreToken, attempt, jds, isAlive, mark, caller>>

\* connect_to_bitcoin_core: a bridge task and a dedicated thread.
ConnectToBitcoinCore ==
    /\ stage = "jds" /\ CoreIpc
    /\ \/ stage' = "tp" /\ core' = "running" /\ SpawnAll(TpTasks)
       \/ Fail /\ UNCHANGED <<core, taskVars>>
    /\ UNCHANGED <<cancelled, coreToken, attempt, jds, isAlive, mark, caller>>

BootstrapChannelManager ==
    /\ stage = "tp"
    /\ stage' = "cm" \/ Fail
    /\ UNCHANGED <<taskVars, cancelled, core, coreToken, attempt, jds, isAlive, mark, caller>>

\* start_services: the monitoring server, the channel manager, the listener; a
\* listener that cannot bind fails with the others already running.
StartServices ==
    /\ stage = "cm"
    /\ \/ stage' = "running" /\ SpawnAll(ServiceTasks)
       \/ Fail /\ SpawnAll(ServiceTasks \ {"server"})
       \/ WithMonitor /\ Fail /\ UNCHANGED taskVars
    /\ UNCHANGED <<cancelled, core, coreToken, attempt, jds, isAlive, mark, caller>>

WaitForShutdown ==
    /\ stage = "running" /\ cancelled
    /\ stage' = "cancel"
    /\ UNCHANGED <<taskVars, cancelled, core, coreToken, attempt, jds, isAlive, mark, caller>>

----------------------------------------------------------------------------
(* Tasks.                                                                    *)

\* The accept loop spawns the task of a connection.
AcceptConnection ==
    /\ "server" \in Running
    /\ \E t \in ConnTasks : status[t] = "new" /\ SpawnAll({t})
    /\ UNCHANGED runtimeVars

\* A task ends some time after the token is cancelled; the tasks of a
\* connection also end with it.
TaskEnds(t) ==
    /\ cancelled \/ t \in {"tpReader", "tpWriter", "connection"}
    /\ t # "bridge"
    /\ Finish(t)
    /\ UNCHANGED runtimeVars

\* A task that meets a fatal error cancels the token and ends: the Sv2Tp loop
\* on a closed connection, the channel manager, the monitoring server.
TaskFails(t) ==
    /\ t \in {"tpLoop", "channelManager", "monitor"}
    /\ Finish(t)
    /\ cancelled' = TRUE
    /\ UNCHANGED <<stage, core, coreToken, attempt, jds, isAlive, mark, caller>>

\* Mutant: the bridge only watches the pool's token.
BridgeOneWay ==
    /\ "bridge" \in Running /\ cancelled
    /\ Finish("bridge")
    /\ coreToken' = TRUE
    /\ UNCHANGED <<stage, cancelled, core, attempt, jds, isAlive, mark, caller>>

\* The bridge cancels either token with the other.
Bridge ==
    /\ "bridge" \in Running /\ (cancelled \/ coreToken)
    /\ Finish("bridge")
    /\ cancelled' = TRUE /\ coreToken' = TRUE
    /\ UNCHANGED <<stage, core, attempt, jds, isAlive, mark, caller>>

\* The thread ends when its token is cancelled; when it cannot start or run it
\* cancels its token first, or the pool's when it has no runtime.
CoreExits ==
    /\ core = "running"
    /\ core' = "exited"
    /\ \/ coreToken /\ UNCHANGED <<coreToken, cancelled>>
       \/ coreToken' = TRUE /\ UNCHANGED cancelled
       \/ cancelled' = TRUE /\ UNCHANGED coreToken
    /\ UNCHANGED <<taskVars, stage, attempt, jds, isAlive, mark, caller>>

----------------------------------------------------------------------------
(* PoolRuntime::shutdown, and PoolSv2::mark_stopped at its end.              *)

ShutdownCancel ==
    /\ stage = "cancel"
    /\ cancelled' = TRUE
    /\ jds' = IF jds = "running" THEN "shutdown" ELSE jds
    /\ coreToken' = IF core = "none" THEN coreToken ELSE TRUE
    /\ stage' = "joinCore"
    /\ UNCHANGED <<taskVars, core, attempt, isAlive, mark, caller>>

\* Mutant: the thread is not joined.
JoinCoreNot ==
    /\ stage = "joinCore"
    /\ stage' = "join" /\ JoinAll
    /\ UNCHANGED <<cancelled, core, coreToken, attempt, jds, isAlive, mark, caller>>

ShutdownJoinCore ==
    /\ stage = "joinCore" /\ core # "running"
    /\ stage' = "join" /\ JoinAll
    /\ UNCHANGED <<cancelled, core, coreToken, attempt, jds, isAlive, mark, caller>>

\* Cancelling the token again changes nothing: two steps are left of three.
Stop == stage' = "mark" /\ mark' = 2

ShutdownJoined ==
    /\ stage = "join" /\ Joined
    /\ Stop
    /\ UNCHANGED <<taskVars, cancelled, core, coreToken, attempt, jds, isAlive, caller>>

\* The graceful timeout: the join is dropped, what is left is aborted.
ShutdownTimeout ==
    /\ stage = "join" /\ ~Joined
    /\ DropJoin
    /\ stage' = "abort"
    /\ UNCHANGED <<cancelled, core, coreToken, attempt, jds, isAlive, mark, caller>>

ShutdownAbort ==
    /\ stage = "abort"
    /\ AbortAll
    /\ stage' = "rejoin"
    /\ UNCHANGED <<cancelled, core, coreToken, attempt, jds, isAlive, mark, caller>>

ShutdownRejoin ==
    /\ stage = "rejoin"
    /\ JoinAll
    /\ Stop
    /\ UNCHANGED <<cancelled, core, coreToken, attempt, jds, isAlive, caller>>

\* Mutant: the waiters are not notified.
MarkStoppedSilently ==
    /\ stage = "mark"
    /\ isAlive' = FALSE
    /\ mark' = mark - 1
    /\ stage' = IF mark = 1 THEN "stopped" ELSE stage
    /\ UNCHANGED <<taskVars, cancelled, core, coreToken, attempt, jds, caller>>

\* mark_stopped: is_alive is cleared, then the waiters are notified.
MarkStopped ==
    /\ stage = "mark"
    /\ isAlive' = FALSE
    /\ caller' = IF mark = 1
                   THEN [c \in Callers |-> IF caller[c] \in {"notified", "waiting"}
                                             THEN "released" ELSE caller[c]]
                   ELSE caller
    /\ mark' = mark - 1
    /\ stage' = IF mark = 1 THEN "stopped" ELSE stage
    /\ UNCHANGED <<taskVars, cancelled, core, coreToken, attempt, jds>>

----------------------------------------------------------------------------
(* PoolSv2::shutdown.                                                        *)

CallerStep == UNCHANGED <<taskVars, stage, core, coreToken, attempt, jds, isAlive, mark>>

CallShutdown(c) ==
    /\ caller[c] = "idle"
    /\ caller' = [caller EXCEPT ![c] = IF isAlive THEN "checked" ELSE "returned"]
    /\ CallerStep /\ UNCHANGED cancelled

CreateNotified(c) ==
    /\ caller[c] = "checked"
    /\ caller' = [caller EXCEPT ![c] = "notified"]
    /\ CallerStep /\ UNCHANGED cancelled

CancelAndWait(c) ==
    /\ caller[c] \in {"notified", "released"}
    /\ cancelled' = TRUE
    /\ caller' = [caller EXCEPT ![c] = IF @ = "released" THEN "returned" ELSE "waiting"]
    /\ CallerStep

----------------------------------------------------------------------------
\* The stages that wait for nobody, or for a bounded time.
Bootstrap ==
    \/ ConnectSv2Tp
    \/ TpSetupBroken
    \/ ConnectToBitcoinCore
    \/ BootstrapChannelManager
    \/ StartServices

Shutdown ==
    \/ WaitForShutdown
    \/ ShutdownCancel
    \/ ShutdownJoinCore
    \/ ShutdownJoined
    \/ ShutdownTimeout
    \/ ShutdownAbort
    \/ ShutdownRejoin
    \/ MarkStopped

Calls(c) == CallShutdown(c) \/ CreateNotified(c) \/ CancelAndWait(c)

Step ==
    \/ BootstrapJds
    \/ Bootstrap
    \/ TpAnswers
    \/ Shutdown
    \/ AcceptConnection
    \/ Bridge
    \/ CoreExits
    \/ \E t \in Tasks : TaskEnds(t) \/ TaskFails(t)
    \/ \E c \in Callers : Calls(c)

Next == Step /\ UNCHANGED config

Spec == Init /\ [][Next]_<<vars, config>>

\* Connection attempts are bounded by their number and by timeouts, the join by
\* its timeout, the thread's join by the token it watches.  A Bitcoin Core that
\* is silent during bootstrap_jds and a template provider that does not answer
\* SetupConnection hold the start until the token is cancelled: the engine and
\* the tasks of the connection watch it.  The bridge, a caller inside shutdown
\* and a Sv2Tp loop whose channel is closed are scheduled tasks.  No other task
\* of the pool is assumed to end.
LiveSpec ==
    /\ Spec
    /\ WF_vars(Bootstrap) /\ WF_vars(cancelled /\ BootstrapJds) /\ WF_vars(Shutdown)
    /\ WF_vars(cancelled /\ \E t \in IoTasks : TaskEnds(t))
    /\ WF_vars(TpDead /\ TaskFails("tpLoop"))
    /\ WF_vars(Bridge)
    /\ WF_vars(CoreExits /\ coreToken)
    /\ \A c \in Callers : WF_vars(CreateNotified(c) \/ CancelAndWait(c))

----------------------------------------------------------------------------
Stages == {"io", "jds", "tpSetup", "tp", "cm", "running", "cancel", "joinCore", "join",
           "abort", "rejoin", "mark", "stopped"}

\* The types of the runtime's state.
TypeOK ==
    /\ status \in [Tasks -> {"new", "running", "finished", "aborted"}]
    /\ handles \subseteq Tasks /\ joining \subseteq Tasks
    /\ stage \in Stages
    /\ cancelled \in BOOLEAN /\ coreToken \in BOOLEAN /\ isAlive \in BOOLEAN
    /\ core \in {"none", "running", "exited"}
    /\ attempt \in 0..MaxRetries - 1 /\ mark \in 0..2
    /\ jds \in {"none", "running", "shutdown"}
    /\ caller \in [Callers -> {"idle", "checked", "notified", "waiting", "released", "returned"}]

\* TaskManager::spawn prunes the handles of finished tasks on every spawn, and
\* join_all empties the list: until a join times out, no running task is ever
\* out of reach of a join or an abort.
RunningTasksTracked ==
    stage \notin {"abort", "rejoin", "mark", "stopped"} => Running \subseteq handles \cup joining

\* PoolRuntime::shutdown from any bootstrap stage: when the pool calls itself
\* stopped, the Bitcoin Core thread has exited, the job declarator of a failed
\* or finished start was shut down, and every task sees a cancelled token.
StoppedLeavesNothingOn ==
    ~isAlive => cancelled /\ core # "running" /\ jds # "running"

\* No service gets out of the runtime's hands, from its spawn to the end of
\* PoolRuntime::shutdown.
TeardownComplete == TypeOK /\ RunningTasksTracked /\ StoppedLeavesNothingOn

\* A lost template provider takes the whole pool down, at any stage and for any
\* reason: a Bitcoin Core thread that dies (connect_to_bitcoin_core), a Sv2
\* connection that breaks (setup_connection, handle_template_provider_message).
ProviderDeathStopsPool == core = "exited" \/ TpDead ~> stage = "stopped"

\* PoolSv2::shutdown: a caller that holds its Notified future before the pool
\* notifies returns, whatever stage the start was in.
WaitingCallerReturns ==
    \A c \in Callers : caller[c] = "waiting" /\ stage # "stopped" ~> caller[c] = "returned"
=============================================================================
