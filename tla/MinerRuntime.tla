---------------------------- MODULE MinerRuntime ----------------------------
(* The lives of the two miner-side applications, jd-client and translator:   *)
(* one main task that bootstraps, waits for one of two tokens and either     *)
(* tears down (cancellation) or rebuilds everything around the next upstream *)
(* (fallback); the tasks it spawns, which leave on either token; and the     *)
(* channels between them, whose closing must never be read as a fault of its *)
(* own.  FallbackCoordinator models the barrier step by step; here it is its *)
(* promise: it returns once no registered task is left.                      *)
EXTENDS Naturals, FiniteSets

CONSTANTS
    Upstreams,   \* how many upstreams are configured
    MaxRetries   \* MAX_RETRIES, 3 in the code

\* Any list of upstreams, and at least one attempt for each.
ASSUME BoundsAssumption == Upstreams \in Nat /\ MaxRetries \in Nat \ {0}

VARIABLES
    app,      \* "jdc", "solo" (a jd-client configured to mine solo) or "translator"
    main,     \* the main task: [at, i, n], i the upstream entry, n the attempt
    tried,    \* entries with tried_or_flagged set
    lost,     \* entries a fallback has left behind (history)
    cancel,   \* the application's cancellation token
    asked,    \* somebody meant the shutdown (history)
    signal,   \* the fallback token of this cycle
    task,     \* the tasks of this cycle
    link,     \* the frame channels of a connection: "none", "open", "closed"
    chan,     \* the channel manager's channels to each peer are open
    tp,       \* jd-client's template receiver, and its channels
    mode,     \* JDMode: "solo" or "config"
    port,     \* who holds the listening port
    fed,      \* the channel manager has a template and a prevhash
    ext       \* extension negotiation with the pool

vars == <<app, main, tried, lost, cancel, asked, signal, task, link, chan, tp, mode, port, fed, ext>>

Jdc == app # "translator"
Peers == {"pool", "jds"}
IoTasks == {"poolIo", "jdsIo"}
Tasks == IoTasks \cup {"ghost", "up", "jd", "cm", "lst"}
PeerOf(t) == IF t \in {"poolIo", "up"} THEN "pool" ELSE "jds"

NoTasks == [t \in Tasks |-> "none"]

OpenChannels == [p \in Peers |-> TRUE]
NoLinks == [p \in Peers |-> "none"]

\* bootstrap_io: new channels, nobody connected to them.
BootstrapIo == chan' = OpenChannels /\ link' = NoLinks

\* bootstrap_channel_manager: nothing negotiated, no template received.
BootstrapChannelManager == fed' = FALSE /\ ext' = "none"

\* A new coordinator, which nobody has registered with, and the two above.
FreshCycle ==
    /\ signal' = FALSE /\ task' = NoTasks
    /\ BootstrapIo
    /\ BootstrapChannelManager

Spawn(ts) == [t \in Tasks |-> IF t \in ts THEN "spawned" ELSE task[t]]
At(stage) == main' = [main EXCEPT !.at = stage]

Init ==
    /\ app \in {"jdc", "solo", "translator"}
    /\ main = [at |-> IF Jdc THEN "tp" ELSE "entry", i |-> 1, n |-> 1]
    /\ tried = {} /\ lost = {}
    /\ cancel = FALSE /\ asked = FALSE /\ signal = FALSE
    /\ task = NoTasks
    /\ link = NoLinks /\ chan = OpenChannels
    /\ tp = [up |-> FALSE, open |-> TRUE]
    /\ mode = "solo" /\ port = "free" /\ fed = FALSE /\ ext = "none"

----------------------------------------------------------------------------
(* The main task: bootstrap.                                                 *)

\* A stage that fails hands the partial runtime to shutdown, which cancels.
Fail == At("down") /\ cancel' = TRUE /\ asked' = TRUE

\* Sv2Tp::new with its attempts, or the thread of Bitcoin Core; PoolRuntime
\* tells the two apart.
ConnectTemplateProvider ==
    /\ main.at = "tp"
    /\ \/ At("tpSetup") /\ UNCHANGED <<cancel, asked>>
       \/ Fail
    /\ UNCHANGED <<app, tried, lost, signal, task, link, chan, tp, mode, port, fed, ext>>

\* setup_connection with the provider: it answers, well or badly, or its
\* connection is closed; a shutdown closes it.
StartTemplateReceiver ==
    /\ main.at = "tpSetup"
    /\ \/ At("entry") /\ tp' = [tp EXCEPT !.up = TRUE] /\ UNCHANGED <<cancel, asked>>
       \/ Fail /\ UNCHANGED tp
    /\ UNCHANGED <<app, tried, lost, signal, task, link, chan, mode, port, fed, ext>>

\* The stage that follows the one main is at, when it succeeds: the order in which
\* try_upstream of either application connects, sets up and starts its services.
JdcOrder == [pool |-> "jds", jds |-> "setup", setup |-> "setupJd", setupJd |-> "services"]
TranslatorOrder == [pool |-> "setup", setup |-> "services"]
Proceed == At(IF Jdc THEN JdcOrder[main.at] ELSE TranslatorOrder[main.at])

IntoSoloMining == At("services") /\ mode' = "solo" /\ UNCHANGED <<cancel, asked>>

\* bootstrap_mining: a jd-client without an upstream mines solo, a translator
\* has nothing to do.
GiveUp == IF Jdc THEN IntoSoloMining ELSE Fail /\ UNCHANGED mode

\* The head of the loop over the upstream entries.
NextEntry ==
    /\ main.at = "entry"
    /\ \/ /\ main.i > Upstreams \/ app = "solo" \/ (Jdc /\ cancel)
          /\ GiveUp
       \/ /\ main.i <= Upstreams /\ app # "solo" /\ ~(Jdc /\ cancel)
          /\ main' = IF main.i \in tried THEN [main EXCEPT !.i = @ + 1]
                                         ELSE [main EXCEPT !.at = "pool", !.n = 1]
          /\ UNCHANGED <<cancel, asked, mode>>
    /\ UNCHANGED <<app, tried, lost, signal, task, link, chan, tp, port, fed, ext>>

\* The connection of a failed attempt is dropped, its reader stays registered
\* until it notices: one task stands for all that linger.
Abandoned ==
    LET io == {task["poolIo"], task["ghost"]}
    IN  [task EXCEPT !["poolIo"] = "none",
                     !["ghost"] = IF "in" \in io THEN "in"
                                  ELSE IF "spawned" \in io THEN "spawned" ELSE @]

\* The next attempt, or the next entry after the last one.
Retry ==
    /\ main' = IF main.n < MaxRetries
                 THEN [main EXCEPT !.at = "pool", !.n = @ + 1]
                 ELSE [main EXCEPT !.at = "entry", !.i = @ + 1]
    /\ tried' = IF main.n < MaxRetries THEN tried ELSE tried \cup {main.i}

\* A connection with its Noise handshake done gets its reader and writer.
Connected(p, io) ==
    /\ task' = Spawn({io})
    /\ link' = [link EXCEPT ![p] = "open"]

\* Upstream::new: resolve, connect, handshake, each of which may fail or hang
\* until its timeout; a shutdown during the handshake gives up.
ConnectPool ==
    /\ main.at = "pool"
    /\ \/ cancel /\ GiveUp /\ UNCHANGED <<tried, task, link>>
       \/ ~(Jdc /\ cancel) /\ Retry /\ UNCHANGED <<cancel, asked, mode, task, link>>
       \/ ~cancel /\ Proceed
          /\ Connected("pool", "poolIo")
          /\ UNCHANGED <<tried, cancel, asked, mode>>
    /\ UNCHANGED <<app, lost, signal, chan, tp, port, fed, ext>>

FlagTried == tried \cup {main.i}

\* JobDeclarator::new; with both connections up initialize_jd flags the entry.
ConnectJds ==
    /\ main.at = "jds"
    /\ \/ cancel /\ GiveUp /\ task' = Abandoned /\ UNCHANGED <<tried, link>>
       \/ ~cancel /\ Retry /\ task' = Abandoned /\ UNCHANGED <<cancel, asked, mode, link>>
       \/ ~cancel /\ Proceed /\ tried' = FlagTried
          /\ Connected("jds", "jdsIo")
          /\ UNCHANGED <<cancel, asked, mode>>
    /\ UNCHANGED <<app, lost, signal, chan, tp, port, fed, ext>>

\* handle_error_action: an error raised after either token counts for nothing.
Quiet == cancel \/ signal
ReportFallback == signal' = (signal \/ ~cancel)

\* The channels of a peer's task: to the channel manager and to its reader.
CloseIo(p) ==
    /\ chan' = [chan EXCEPT ![p] = FALSE]
    /\ link' = [link EXCEPT ![p] = "closed"]

\* setup_connection with the pool.  jd-client goes on to the job declarator
\* whatever comes of it, a failure having signalled the fallback;
\* JobDeclarator::start registers before it talks to the JDS.
SetupPoolJdc(ok) ==
    /\ Jdc
    /\ Proceed
    /\ IF ok
         THEN task' = [Spawn({"up"}) EXCEPT !["jd"] = "in"] /\ UNCHANGED <<signal, chan, link>>
         ELSE task' = [task EXCEPT !["jd"] = "in"] /\ ReportFallback /\ CloseIo("pool")
    /\ UNCHANGED <<tried, cancel, asked>>

\* The translator starts its upstream task, fails on a payout mode it cannot
\* serve, or counts a failed attempt.
SetupPoolTranslator(ok) ==
    /\ ~Jdc /\ ~cancel
    /\ IF ok
         THEN /\ task' = Spawn({"up"})
              /\ \/ Proceed /\ tried' = FlagTried /\ UNCHANGED <<cancel, asked>>
                 \/ Fail /\ UNCHANGED tried
         ELSE /\ task' = Abandoned /\ Retry
              /\ UNCHANGED <<cancel, asked>>
    /\ UNCHANGED <<signal, chan, link>>

\* Upstream::start of the translator: a shutdown during the handshake closes
\* the connection and reports success.
SetupCancelled ==
    /\ main.at = "setup" /\ ~Jdc /\ cancel
    /\ Proceed /\ tried' = FlagTried /\ CloseIo("pool")
    /\ UNCHANGED <<app, lost, cancel, asked, signal, task, tp, mode, port, fed, ext>>

\* The pool answers SetupConnection, well or badly; RequestExtensions follows.
PoolAnswers ==
    /\ main.at = "setup" /\ link["pool"] = "open"
    /\ \E ok \in BOOLEAN :
         /\ SetupPoolJdc(ok) \/ SetupPoolTranslator(ok)
         /\ ext' = IF ok THEN "asked" ELSE ext
    /\ UNCHANGED <<app, lost, tp, mode, port, fed>>

\* The reader or the writer went away: the pending recv fails.
SetupBroken ==
    /\ main.at = "setup" /\ link["pool"] = "closed"
    /\ SetupPoolJdc(FALSE) \/ SetupPoolTranslator(FALSE)
    /\ UNCHANGED <<app, lost, tp, mode, port, fed, ext>>

\* The JDS accepts the connection: the configured mode becomes active.
JdsAccepts ==
    /\ main.at = "setupJd" /\ link["jds"] = "open"
    /\ Proceed /\ mode' = "config"
    /\ UNCHANGED <<app, tried, lost, cancel, asked, signal, task, link, chan, tp, port, fed, ext>>

JdsSetupFails ==
    /\ Proceed
    /\ ReportFallback /\ CloseIo("jds")
    /\ task' = [task EXCEPT !["jd"] = "out"]
    /\ UNCHANGED <<app, tried, lost, cancel, asked, tp, mode, port, fed, ext>>

JdsRefuses == main.at = "setupJd" /\ link["jds"] = "open" /\ JdsSetupFails
JdsBroken == main.at = "setupJd" /\ link["jds"] = "closed" /\ JdsSetupFails

\* jd-client's start_services_inner: monitoring, channel manager, listener.
\* The listener is bound and registered before its task is spawned.
StartServicesJdc ==
    /\ main.at = "services" /\ Jdc
    /\ \/ port = "free" /\ port' = "cur" /\ At("wait")
          /\ task' = [Spawn({"cm"}) EXCEPT !["lst"] = "in"]
          /\ UNCHANGED <<cancel, asked>>
       \/ Fail /\ UNCHANGED port /\ \E ts \in {{}, {"cm"}} : task' = Spawn(ts)
    /\ UNCHANGED <<app, tried, lost, signal, link, chan, tp, mode, fed, ext>>

\* The translator's start_services: SV1 server, channel manager, monitoring.
StartServicesTranslator ==
    /\ main.at = "services" /\ ~Jdc
    /\ \/ port = "free" /\ port' = "cur" /\ At("wait")
          /\ task' = Spawn({"lst", "cm"}) /\ UNCHANGED <<cancel, asked>>
       \/ port = "free" /\ port' = "cur" /\ Fail /\ task' = Spawn({"lst", "cm"})
       \/ Fail /\ UNCHANGED <<port, task>>
    /\ UNCHANGED <<app, tried, lost, signal, link, chan, tp, mode, fed, ext>>

----------------------------------------------------------------------------
(* The main task: wait, fallback, shutdown.                                  *)

\* wait: a shutdown goes before a fallback.
WaitEvent == IF cancel THEN "Shutdown" ELSE "Fallback"

Wait ==
    /\ main.at = "wait" /\ Quiet
    /\ IF WaitEvent = "Shutdown" THEN Fail ELSE At("barrier") /\ UNCHANGED <<cancel, asked>>
    /\ UNCHANGED <<app, tried, lost, signal, task, link, chan, tp, mode, port, fed, ext>>

\* Mutant: jd-client keeps the mode of the upstream it leaves.
KeepMode == mode
LeaveMode == "solo"

\* cleanup_for_fallback: once every registered task is done, a new
\* coordinator, new channels, a new channel manager; the entries keep their
\* flags and jd-client its template receiver.  A listener that still holds the
\* port belongs to the cycle before.
CleanupForFallback ==
    /\ main.at = "barrier"
    /\ \A t \in Tasks : task[t] \notin {"in", "leaving"}
    /\ main' = [at |-> "entry", i |-> 1, n |-> 1]
    /\ lost' = IF task["poolIo"] = "none" THEN lost ELSE lost \cup {main.i}
    /\ FreshCycle
    /\ mode' = LeaveMode
    /\ port' = IF port # "cur" THEN port ELSE IF Jdc /\ fed THEN "accepting" ELSE "old"
    /\ UNCHANGED <<app, tried, cancel, asked, tp>>

\* shutdown: the tasks are joined, or aborted after the graceful timeout, as in
\* PoolRuntime; mark_stopped.  Nothing is told apart after that.
Stop ==
    /\ main.at = "down"
    /\ main' = [at |-> "stopped", i |-> 1, n |-> 1]
    /\ tried' = {} /\ lost' = {}
    /\ cancel' = FALSE /\ asked' = FALSE
    /\ FreshCycle
    /\ tp' = [up |-> FALSE, open |-> TRUE]
    /\ mode' = "solo" /\ port' = "free"
    /\ UNCHANGED app

----------------------------------------------------------------------------
(* The tasks.  All but jd-client's listener and job declarator register in   *)
(* their first step.                                                         *)

Alive == main.at \notin {"down", "stopped"}
In(t) == Alive /\ task[t] = "in"
Out(t) == task' = [task EXCEPT ![t] = "out"]

Register(t) ==
    /\ Alive /\ task[t] = "spawned"
    /\ task' = [task EXCEPT ![t] = "in"]
    /\ UNCHANGED <<app, main, tried, lost, cancel, asked, signal, link, chan, tp, mode, port, fed, ext>>

IoExit(t) ==
    /\ In(t) /\ Out(t)
    /\ link' = [link EXCEPT ![PeerOf(t)] = "closed"]
    /\ UNCHANGED <<app, main, tried, lost, cancel, asked, signal, chan, tp, mode, port, fed, ext>>

\* Mutant: the tasks of a connection watch the cancellation token only.
IoWatchesCancel == cancel

\* Either token ends the reader and the writer; so does a closed outbound
\* channel the writer, which leaves the reader to the next frame.
IoTold == Quiet

IoStops(t) == IoTold /\ IoExit(t)

\* The peer closes the connection, or sends after its frames have no taker.
IoLoses(t) == ~IoTold /\ IoExit(t)

GhostExits ==
    /\ In("ghost") /\ Out("ghost")
    /\ UNCHANGED <<app, main, tried, lost, cancel, asked, signal, link, chan, tp, mode, port, fed, ext>>

\* The message loops of Upstream and of JobDeclarator.
Looping(t) == In(t) /\ ~(t = "jd" /\ main.at = "setupJd")

PeerTaskStops(t) ==
    /\ Looping(t) /\ Quiet
    /\ Out(t) /\ CloseIo(PeerOf(t))
    /\ UNCHANGED <<app, main, tried, lost, cancel, asked, signal, tp, mode, port, fed, ext>>

\* Mutant: the loop ends on a lost connection without telling anybody.
ReportNothing == UNCHANGED signal
ReportLoss == ReportFallback

\* The connection is gone, or the peer sent what it must not.  A message that
\* finds the channel to the channel manager closed is a fatal error instead:
\* nobody may close it without a token that says why.
PeerTaskFails(t) ==
    /\ Looping(t) /\ ~Quiet
    /\ IF chan[PeerOf(t)] THEN ReportLoss /\ UNCHANGED cancel
                           ELSE cancel' = TRUE /\ UNCHANGED signal
    /\ Out(t) /\ CloseIo(PeerOf(t))
    /\ UNCHANGED <<app, main, tried, lost, asked, tp, mode, port, fed, ext>>

UpstreamStops == PeerTaskStops("up")
JobDeclaratorStops == PeerTaskStops("jd")
UpstreamFails == PeerTaskFails("up")
JobDeclaratorFails == PeerTaskFails("jd")

\* close_template_provider, read after the loop of the channel manager ended.
ClosesTp == cancel' \/ ~signal'

\* ChannelManagerIo::close.
CmLeaves ==
    /\ Out("cm")
    /\ chan' = [p \in Peers |-> FALSE]
    /\ tp' = IF ClosesTp THEN [tp EXCEPT !.open = FALSE] ELSE tp
    /\ UNCHANGED <<app, main, tried, lost, link, mode, port, fed>>

CmStops == In("cm") /\ Quiet /\ UNCHANGED <<cancel, asked, signal, ext>> /\ CmLeaves

\* A handler of the channel manager fails with Fallback or with Shutdown.
CmFails ==
    /\ In("cm") /\ ~Quiet
    /\ \/ ReportLoss /\ UNCHANGED <<cancel, asked>>
       \/ cancel' = TRUE /\ asked' = TRUE /\ UNCHANGED signal
    /\ CmLeaves /\ UNCHANGED ext

\* Extensions that cannot be agreed on make the pool unusable.
ExtensionsMissing == ReportLoss /\ UNCHANGED <<cancel, asked, ext>> /\ CmLeaves

\* handle_request_extensions_success: all of ours are there, or fall back.
ExtensionsSuccess ==
    /\ In("cm") /\ ~Quiet /\ ext = "asked"
    /\ \/ ext' = "done" /\ UNCHANGED <<app, main, tried, lost, cancel, asked, signal, task, link, chan, tp, mode, port, fed>>
       \/ ExtensionsMissing

\* handle_request_extensions_error: one of ours refused or one of theirs not
\* supported falls back, else theirs are requested and the negotiation stays open.
ExtensionsError ==
    /\ In("cm") /\ ~Quiet /\ ext = "asked"
    /\ ExtensionsMissing

\* The first template and prevhash of a cycle; jd-client's listener accepts now.
TemplatesArrive ==
    /\ Jdc /\ In("cm") /\ ~Quiet /\ tp.open /\ ~fed
    /\ fed' = TRUE
    /\ UNCHANGED <<app, main, tried, lost, cancel, asked, signal, task, link, chan, tp, mode, port, ext>>

\* The template receiver, or the Bitcoin Core thread, ends: a shutdown, meant
\* unless the channel manager closed their channels under it.
TpFails ==
    /\ Alive /\ tp.up /\ ~cancel
    /\ cancel' = TRUE /\ asked' = (asked \/ tp.open)
    /\ tp' = [up |-> FALSE, open |-> FALSE]
    /\ UNCHANGED <<app, main, tried, lost, signal, task, link, chan, mode, port, fed, ext>>

\* jd-client's accept loop drops the socket, then signals; its wait for the
\* first template and the translator's server signal, then drop.
ReleasesFirst == fed /\ Jdc

ListenerStops ==
    /\ In("lst") /\ Quiet
    /\ IF ReleasesFirst THEN port' = "free" /\ task' = [task EXCEPT !["lst"] = "leaving"]
                         ELSE Out("lst") /\ UNCHANGED port
    /\ UNCHANGED <<app, main, tried, lost, cancel, asked, signal, link, chan, tp, mode, fed, ext>>

ListenerDone ==
    /\ Alive /\ task["lst"] = "leaving" /\ Out("lst")
    /\ UNCHANGED <<app, main, tried, lost, cancel, asked, signal, link, chan, tp, mode, port, fed, ext>>

\* The socket goes with the task that is done or was never waited for.
SocketDropped ==
    /\ Alive /\ (port \in {"old", "accepting"} \/ (port = "cur" /\ task["lst"] = "out"))
    /\ port' = "free"
    /\ UNCHANGED <<app, main, tried, lost, cancel, asked, signal, task, link, chan, tp, mode, fed, ext>>

\* Sv1Server's loop fails with Fallback or Shutdown.
Sv1ServerFails ==
    /\ ~Jdc /\ In("lst") /\ ~Quiet /\ Out("lst")
    /\ \/ ReportLoss /\ UNCHANGED <<cancel, asked>>
       \/ cancel' = TRUE /\ asked' = TRUE /\ UNCHANGED signal
    /\ UNCHANGED <<app, main, tried, lost, link, chan, tp, mode, port, fed, ext>>

\* shutdown() of the application, or a monitoring server that cannot serve.
UserShutdown ==
    /\ Alive /\ ~cancel
    /\ cancel' = TRUE /\ asked' = TRUE
    /\ UNCHANGED <<app, main, tried, lost, signal, task, link, chan, tp, mode, port, fed, ext>>

----------------------------------------------------------------------------
MainSteps ==
    \/ ConnectTemplateProvider
    \/ NextEntry
    \/ ConnectPool
    \/ ConnectJds
    \/ SetupCancelled
    \/ SetupBroken
    \/ JdsBroken
    \/ StartServicesJdc
    \/ StartServicesTranslator
    \/ Wait
    \/ CleanupForFallback
    \/ Stop

Leaves(t) ==
    CASE t \in IoTasks -> IoStops(t)
      [] t = "ghost" -> Quiet /\ GhostExits
      [] t = "up" -> UpstreamStops
      [] t = "jd" -> JobDeclaratorStops
      [] t = "cm" -> CmStops
      [] t = "lst" -> ListenerStops \/ ListenerDone

Next ==
    \/ MainSteps
    \/ StartTemplateReceiver
    \/ PoolAnswers
    \/ JdsAccepts
    \/ JdsRefuses
    \/ \E t \in Tasks : Register(t)
    \/ \E t \in IoTasks : IoStops(t) \/ IoLoses(t)
    \/ GhostExits
    \/ UpstreamStops
    \/ UpstreamFails
    \/ JobDeclaratorStops
    \/ JobDeclaratorFails
    \/ CmStops
    \/ CmFails
    \/ ExtensionsSuccess
    \/ ExtensionsError
    \/ TemplatesArrive
    \/ TpFails
    \/ ListenerStops
    \/ ListenerDone
    \/ SocketDropped
    \/ Sv1ServerFails
    \/ UserShutdown

\* The main task and every spawned task are scheduled; connection attempts time
\* out.  No peer has to answer, and no connection has to break: a provider that
\* never answers holds the start until a shutdown closes its connection.
Spec ==
    /\ Init /\ [][Next]_vars
    /\ WF_vars(MainSteps)
    /\ WF_vars(cancel /\ StartTemplateReceiver)
    /\ \A t \in Tasks : WF_vars(Register(t) \/ Leaves(t))

----------------------------------------------------------------------------
\* The types of the runtime's state.
TypeOK ==
    /\ app \in {"jdc", "solo", "translator"}
    /\ main.at \in {"tp", "tpSetup", "entry", "pool", "jds", "setup", "setupJd", "services",
                    "wait", "barrier", "down", "stopped"}
    /\ main.i \in 1..Upstreams + 1 /\ main.n \in 1..MaxRetries
    /\ tried \subseteq 1..Upstreams /\ lost \subseteq 1..Upstreams
    /\ task \in [Tasks -> {"none", "spawned", "in", "leaving", "out"}]
    /\ link \in [Peers -> {"none", "open", "closed"}] /\ chan \in [Peers -> BOOLEAN]
    /\ mode \in {"solo", "config"} /\ port \in {"free", "cur", "old", "accepting"}

\* A fallback stays a fallback: whatever the order in which the tasks of a
\* cycle notice it and close the channels they share, none of them takes a
\* channel another one closed for a fault and cancels the application
\* (handle_error_action of Upstream, JobDeclarator and ChannelManager).
NoSpuriousShutdown == cancel => asked

\* jd-client's connection to its template provider outlives every fallback:
\* the channels are closed only for a shutdown (close_template_provider), for
\* cleanup_for_fallback hands them to the next channel manager.
TemplateStreamSurvives == Jdc /\ ~cancel => tp.open

\* JDMode is the configured one only while a JDS accepted this cycle's
\* connection, and a jd-client at work with no fallback pending is in that mode
\* exactly when it has a pool and a JDS.
ModeMatchesUpstream ==
    /\ mode = "config" => task["jd"] # "none"
    /\ main.at = "wait" /\ ~Quiet /\ Jdc =>
         (mode = "config") = (task["jd"] = "in" /\ task["up"] \in {"spawned", "in"})

\* A jd-client whose listener was accepting never finds its own port taken
\* when it binds again after a fallback: the socket is dropped before the
\* barrier hears of the task (start_downstream_server).
AcceptingPortReleased == port # "accepting"

\* tried_or_flagged: no application goes back to an upstream it fell back from.
NeverBackToLost ==
    main.at \in {"pool", "jds", "setup", "setupJd"} => main.i \notin lost

\* A cycle takes nothing over from the one before it but the template stream:
\* neither the mode, nor the port, nor an upstream that was lost.
CyclesSeparate ==
    /\ TypeOK
    /\ ModeMatchesUpstream
    /\ AcceptingPortReleased
    /\ NeverBackToLost
    /\ TemplateStreamSurvives

\* Whatever the application waits for, a peer's answer, a barrier or a
\* listener, a cancelled token brings it to a stop, and a fallback signalled at
\* any moment, the handshake with a silent job declarator included, to a new
\* cycle or a stop.
TokensResolve == Quiet ~> ~Quiet
=============================================================================
