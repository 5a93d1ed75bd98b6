------------------------- MODULE MinerRuntimeProofs -------------------------
(* The fallback cycles of jd-client and translator, for any list of          *)
(* upstreams and any number of attempts: no task takes a channel that another *)
(* one closed for a fault, and a cycle inherits nothing but the template      *)
(* stream from the one before it.                                            *)
EXTENDS MinerRuntime, TLAPS

Stages == {"tp", "tpSetup", "entry", "pool", "jds", "setup", "setupJd", "services",
           "wait", "barrier", "down", "stopped"}

\* The types, the fields of the two records included.
Kinds ==
    /\ TypeOK
    /\ main \in [at : Stages, i : 1..Upstreams + 1, n : 1..MaxRetries]
    /\ tp \in [up : BOOLEAN, open : BOOLEAN]
    /\ cancel \in BOOLEAN /\ asked \in BOOLEAN /\ signal \in BOOLEAN /\ fed \in BOOLEAN

\* The entry of a connection in use is flagged before its services start, so
\* that a fallback can only leave flagged entries behind.
EntryInv ==
    /\ main.at \in {"tp", "tpSetup", "jds", "setupJd"} => Jdc
    /\ main.at \in {"pool", "jds", "setup", "setupJd"} => main.i <= Upstreams /\ main.i \notin lost
    /\ main.at \in {"tp", "tpSetup", "entry", "pool"} => task["poolIo"] = "none"
    /\ main.at \in {"setup", "setupJd"} /\ Jdc => main.i \in tried
    /\ main.at \in {"services", "wait", "barrier"} /\ task["poolIo"] # "none" => main.i \in tried
    /\ lost \subseteq tried

\* The configured mode, and the two tasks it stands for.
Serving == (mode = "config") = (task["jd"] = "in" /\ task["up"] \in {"spawned", "in"})

\* The job declarator's task is there from the answer of the pool on, and only
\* a token lets it or the upstream's task go.
ModeInv ==
    /\ task["jd"] # "spawned" /\ (mode = "config" => task["jd"] # "none")
    /\ main.at \in {"tp", "tpSetup", "entry", "pool", "jds", "setup"} => task["jd"] = "none"
    /\ main.at = "setupJd" => task["jd"] = "in" /\ (~Quiet => task["up"] \in {"spawned", "in"})
    /\ main.at \in {"services", "wait"} /\ ~Quiet /\ Jdc => Serving

\* A listener of jd-client that left with its socket was not yet accepting, and
\* will not be: no template reaches a channel manager that sees a token.
PortInv ==
    /\ AcceptingPortReleased
    /\ Jdc /\ port = "cur" => task["lst"] = "in" \/ (task["lst"] = "out" /\ ~fed /\ Quiet)

\* Nobody closes a channel to the channel manager before a token says why.
TokenInv ==
    /\ NoSpuriousShutdown /\ TemplateStreamSurvives
    /\ ~Quiet => chan = OpenChannels
    /\ ~Jdc => ~tp.up

\* The inductive invariant.
CyclesInv == Kinds /\ EntryInv /\ ModeInv /\ PortInv /\ TokenInv

----------------------------------------------------------------------------
\* Both applications start with nothing spawned, every channel open and the
\* mode solo.
LEMMA CyclesInit == Init => CyclesInv
  <1> SUFFICES ASSUME Init PROVE CyclesInv OBVIOUS
  <1> USE BoundsAssumption DEF Init
  <1>1. task \in [Tasks -> {"none"}] /\ task["jd"] = "none" /\ task["poolIo"] = "none"
    BY DEF NoTasks, Tasks, IoTasks
  <1>2. link \in [Peers -> {"none"}] /\ chan \in [Peers -> BOOLEAN]
    BY DEF NoLinks, OpenChannels
  <1>3. Kinds
    <2>1. main \in [at : Stages, i : 1..Upstreams + 1, n : 1..MaxRetries] BY DEF Stages
    <2>2. tp \in [up : BOOLEAN, open : BOOLEAN] OBVIOUS
    <2>3. TypeOK BY <1>1, <1>2, <2>1 DEF TypeOK, Stages
    <2> QED BY <2>1, <2>2, <2>3 DEF Kinds
  <1>4. EntryInv BY <1>1 DEF EntryInv, Jdc
  <1>5. ModeInv BY <1>1 DEF ModeInv
  <1>6. PortInv BY DEF PortInv, AcceptingPortReleased
  <1>7. TokenInv BY DEF TokenInv, NoSpuriousShutdown, TemplateStreamSurvives
  <1> QED BY <1>3, <1>4, <1>5, <1>6, <1>7 DEF CyclesInv

\* A task that moves on.  Tokens are never taken back within a cycle, and the
\* tasks of the two peers end only when one of them is set.
LEMMA TaskMoves ==
    ASSUME CyclesInv, NEW t \in Tasks, NEW s \in {"in", "leaving", "out"},
           task[t] # "none", task' = [task EXCEPT ![t] = s],
           UNCHANGED <<app, main, tried, lost, mode>>,
           cancel => cancel', signal => signal',
           t \in {"jd", "up"} /\ s # "in" => Quiet' /\ ~(t = "jd" /\ main.at = "setupJd"),
           t \in {"jd", "up"} /\ s = "in" => task[t] = "spawned"
    PROVE  /\ task' \in [Tasks -> {"none", "spawned", "in", "leaving", "out"}]
           /\ EntryInv' /\ ModeInv'
  <1>1. task \in [Tasks -> {"none", "spawned", "in", "leaving", "out"}]
    BY DEF CyclesInv, Kinds, TypeOK
  <1>2. /\ task' \in [Tasks -> {"none", "spawned", "in", "leaving", "out"}]
        /\ \A u \in Tasks : task'[u] = IF u = t THEN s ELSE task[u]
    BY <1>1
  <1>3. {"poolIo", "jd", "up"} \subseteq Tasks BY DEF Tasks, IoTasks
  <1>4. \A u \in Tasks : task'[u] = "none" <=> task[u] = "none" BY <1>2
  <1>5. EntryInv' BY <1>3, <1>4 DEF CyclesInv, EntryInv, Jdc
  <1>6. ~Quiet' => ~Quiet BY DEF Quiet
  <1>8. ModeInv' BY <1>2, <1>3, <1>4, <1>6 DEF CyclesInv, ModeInv, Serving, Jdc
  <1> QED BY <1>2, <1>5, <1>8

\* A step that leaves the tasks, the main task and the mode alone.
LEMMA TokensMove ==
    ASSUME CyclesInv, UNCHANGED <<app, main, tried, lost, task, mode>>,
           cancel => cancel', signal => signal'
    PROVE  EntryInv' /\ ModeInv'
  <1>1. ~Quiet' => ~Quiet BY DEF Quiet
  <1> QED BY <1>1 DEF CyclesInv, EntryInv, ModeInv, Serving, Jdc

\* A task registers with the coordinator, a reader or a writer ends.
LEMMA IoKeeps ==
    ASSUME CyclesInv,
           \/ \E t \in Tasks : Register(t)
           \/ \E t \in IoTasks : IoStops(t) \/ IoLoses(t)
           \/ GhostExits
    PROVE  CyclesInv'
  <1>1. PICK t \in Tasks, s \in {"in", "out"} :
          /\ task[t] # "none" /\ task' = [task EXCEPT ![t] = s]
          /\ s = "in" => task[t] = "spawned"
          /\ s = "out" => t \in IoTasks \cup {"ghost"}
    BY DEF Register, IoStops, IoLoses, IoExit, GhostExits, In, Out, Tasks
  <1>2. UNCHANGED <<app, main, tried, lost, cancel, asked, signal, chan, tp, mode, port, fed>>
    BY DEF Register, IoStops, IoLoses, IoExit, GhostExits
  <1>3. link' \in [Peers -> {"none", "open", "closed"}]
    BY DEF Register, IoStops, IoLoses, IoExit, GhostExits, CyclesInv, Kinds, TypeOK
  <1>4. /\ task' \in [Tasks -> {"none", "spawned", "in", "leaving", "out"}]
        /\ EntryInv' /\ ModeInv'
    BY <1>1, <1>2, TaskMoves, Zenon DEF IoTasks
  <1>5. Kinds' BY <1>2, <1>3, <1>4 DEF CyclesInv, Kinds, TypeOK
  <1>6. PortInv'
    <2>1. t = "lst" => task["lst"] = "spawned" BY <1>1 DEF IoTasks
    <2>2. t # "lst" => task'["lst"] = task["lst"] BY <1>1, <1>4
    <2> QED BY <1>2, <2>1, <2>2 DEF CyclesInv, PortInv, AcceptingPortReleased, Jdc, Quiet
  <1>7. TokenInv'
    BY <1>2 DEF CyclesInv, TokenInv, NoSpuriousShutdown, TemplateStreamSurvives, Jdc, Quiet
  <1> QED BY <1>4, <1>5, <1>6, <1>7 DEF CyclesInv

\* The message loop of a peer's task ends: on a token, or with a report that sets
\* one before its channels close.  The channel it reports on is open, since no
\* token is set.
LEMMA PeerTaskKeeps ==
    ASSUME CyclesInv, NEW t \in {"up", "jd"}, PeerTaskStops(t) \/ PeerTaskFails(t)
    PROVE  CyclesInv'
  <1> USE DEF PeerTaskStops, PeerTaskFails, ReportLoss, ReportFallback, Looping, In
  <1>1. /\ t \in Tasks /\ task[t] # "none" /\ task' = [task EXCEPT ![t] = "out"]
        /\ ~(t = "jd" /\ main.at = "setupJd")
        /\ UNCHANGED <<app, main, tried, lost, asked, tp, mode, port, fed>>
    BY DEF Out, Tasks
  <1>2. cancel' = cancel /\ (signal => signal') /\ signal' \in BOOLEAN /\ Quiet'
    BY Zenon DEF CyclesInv, Kinds, TokenInv, OpenChannels, Quiet, Peers, PeerOf
  <1>3. /\ link' \in [Peers -> {"none", "open", "closed"}]
        /\ chan' \in [Peers -> BOOLEAN]
    BY Zenon DEF CloseIo, CyclesInv, Kinds, TypeOK
  <1>4. /\ task' \in [Tasks -> {"none", "spawned", "in", "leaving", "out"}]
        /\ EntryInv' /\ ModeInv'
    BY <1>1, <1>2, TaskMoves, Zenon
  <1>5. Kinds' BY <1>1, <1>2, <1>3, <1>4 DEF CyclesInv, Kinds, TypeOK
  <1>6. PortInv'
    <2>1. task'["lst"] = task["lst"] BY <1>1, <1>4
    <2> QED BY <1>1, <1>2, <2>1 DEF CyclesInv, PortInv, AcceptingPortReleased, Jdc
  <1>7. TokenInv'
    BY <1>1, <1>2 DEF CyclesInv, TokenInv, NoSpuriousShutdown, TemplateStreamSurvives, Jdc
  <1> QED BY <1>4, <1>5, <1>6, <1>7 DEF CyclesInv

\* The channel manager ends: its channels close with a token set, those of the
\* template provider only with the cancellation.
LEMMA CmKeeps ==
    ASSUME CyclesInv, CmStops \/ CmFails \/ ExtensionsError
                      \/ (In("cm") /\ ~Quiet /\ ExtensionsMissing)
    PROVE  CyclesInv'
  <1> USE DEF CmStops, CmFails, ExtensionsError, ExtensionsMissing, CmLeaves, ReportLoss,
              ReportFallback, In
  <1>1. /\ "cm" \in Tasks /\ task["cm"] # "none" /\ task' = [task EXCEPT !["cm"] = "out"]
        /\ UNCHANGED <<app, main, tried, lost, link, mode, port, fed>>
    BY DEF Out, Tasks
  <1>2. /\ cancel' \in BOOLEAN /\ signal' \in BOOLEAN /\ asked' \in BOOLEAN
        /\ cancel => cancel'
        /\ signal => signal'
        /\ Quiet'
        /\ cancel' => asked'
    <2> USE DEF CyclesInv, Kinds, TokenInv, NoSpuriousShutdown, Quiet
    <2>1. CASE CmStops BY <2>1, Zenon
    <2>2. CASE ~Quiet /\ ReportFallback /\ UNCHANGED <<cancel, asked>>
      <3>1. cancel = FALSE /\ signal = FALSE BY <2>2, Zenon
      <3> QED BY <2>2, <3>1, Zenon
    <2>3. CASE cancel' = TRUE /\ asked' = TRUE /\ UNCHANGED signal BY <2>3, Zenon
    <2> QED BY <2>1, <2>2, <2>3, Zenon
  <1>3. chan' \in [Peers -> BOOLEAN] BY Zenon
  <1>4. /\ task' \in [Tasks -> {"none", "spawned", "in", "leaving", "out"}]
        /\ EntryInv' /\ ModeInv'
    BY <1>1, <1>2, TaskMoves, Zenon
  <1>5. tp' \in [up : BOOLEAN, open : BOOLEAN] /\ tp'.up = tp.up /\ (~cancel' => tp' = tp)
    <2>1. tp' = tp \/ tp' = [tp EXCEPT !.open = FALSE] OBVIOUS
    <2>2. ~cancel' => tp' = tp BY <1>2 DEF ClosesTp, Quiet
    <2> QED BY <2>1, <2>2, Zenon DEF CyclesInv, Kinds
  <1>6. Kinds' BY <1>1, <1>2, <1>3, <1>4, <1>5 DEF CyclesInv, Kinds, TypeOK
  <1>7. PortInv'
    <2>1. task'["lst"] = task["lst"] BY <1>1, <1>4
    <2> QED BY <1>1, <1>2, <2>1 DEF CyclesInv, PortInv, AcceptingPortReleased, Jdc
  <1>8. TokenInv'
    BY <1>1, <1>2, <1>5 DEF CyclesInv, TokenInv, NoSpuriousShutdown, TemplateStreamSurvives, Jdc
  <1> QED BY <1>4, <1>6, <1>7, <1>8 DEF CyclesInv

\* Steps that move no task: an answer to the extensions, the first templates,
\* the end of the template receiver, a dropped socket, a shutdown asked for.
LEMMA EventKeeps ==
    ASSUME CyclesInv,
           \/ ExtensionsSuccess /\ UNCHANGED <<app, main, tried, lost, cancel, asked, signal, task,
                                               link, chan, tp, mode, port, fed>>
           \/ TemplatesArrive
           \/ TpFails
           \/ SocketDropped
           \/ UserShutdown
    PROVE  CyclesInv'
  <1> USE DEF ExtensionsSuccess, TemplatesArrive, TpFails, SocketDropped, UserShutdown
  <1>1. UNCHANGED <<app, main, tried, lost, signal, task, link, chan, mode>> OBVIOUS
  <1>2. \/ UNCHANGED <<cancel, asked, tp>>
        \/ /\ ~cancel /\ cancel' = TRUE /\ asked' = TRUE /\ tp' = tp
        \/ /\ ~cancel /\ cancel' = TRUE /\ asked' = (asked \/ tp.open)
           /\ tp.up /\ tp' = [up |-> FALSE, open |-> FALSE]
    OBVIOUS
  <1>3. /\ cancel' \in BOOLEAN /\ asked' \in BOOLEAN
        /\ cancel => cancel'
        /\ cancel' => asked'
    <2> USE DEF CyclesInv, Kinds, TokenInv, NoSpuriousShutdown, TemplateStreamSurvives
    <2>1. CASE UNCHANGED <<cancel, asked, tp>> BY <2>1
    <2>2. CASE cancel' = TRUE /\ asked' = TRUE BY <2>2
    <2>3. CASE ~cancel /\ cancel' = TRUE /\ asked' = (asked \/ tp.open) /\ tp.up
      <3>1. tp.open = TRUE BY <2>3
      <3> QED BY <2>3, <3>1
    <2> QED BY <1>2, <2>1, <2>2, <2>3, Zenon
  <1>4. tp' \in [up : BOOLEAN, open : BOOLEAN] /\ (tp' = tp \/ (cancel' = TRUE /\ ~tp'.up))
    <2>1. CASE tp' = tp BY <2>1 DEF CyclesInv, Kinds
    <2>2. CASE cancel' = TRUE /\ tp' = [up |-> FALSE, open |-> FALSE] BY <2>2
    <2> QED BY <1>2, <2>1, <2>2, Zenon
  <1>5. EntryInv' /\ ModeInv' BY <1>1, <1>3, TokensMove
  <1>6. port' \in {port, "free"} /\ fed' \in BOOLEAN /\ (fed' # fed => ~Quiet)
    BY Zenon DEF CyclesInv, Kinds
  <1>7. Kinds' BY <1>1, <1>3, <1>4, <1>6 DEF CyclesInv, Kinds, TypeOK
  <1>8. PortInv'
    <2>1. AcceptingPortReleased' BY <1>6 DEF CyclesInv, PortInv, AcceptingPortReleased
    <2>2. ASSUME Jdc, port' = "cur" PROVE task["lst"] = "in" \/ (task["lst"] = "out" /\ ~fed' /\ Quiet')
      <3>1. port = "cur" BY <1>6, <2>2
      <3>2. CASE task["lst"] = "out" /\ ~fed /\ Quiet
        <4>1. fed' = fed BY <1>6, <3>2
        <4>2. Quiet' BY <1>1, <1>3, <3>2 DEF Quiet
        <4> QED BY <3>2, <4>1, <4>2
      <3> QED BY <2>2, <3>1, <3>2 DEF CyclesInv, PortInv
    <2> QED BY <1>1, <2>1, <2>2 DEF PortInv, Jdc
  <1>9. TokenInv'
    BY <1>1, <1>3, <1>4 DEF CyclesInv, TokenInv, NoSpuriousShutdown, TemplateStreamSurvives, Jdc, Quiet
  <1> QED BY <1>5, <1>7, <1>8, <1>9 DEF CyclesInv

\* The listener leaves; jd-client's keeps the socket only if it never accepted.
LEMMA ListenerKeeps ==
    ASSUME CyclesInv, ListenerStops \/ ListenerDone \/ Sv1ServerFails
    PROVE  CyclesInv'
  <1> USE DEF ListenerStops, ListenerDone, Sv1ServerFails, In, Out, ReportLoss, ReportFallback
  <1>1. PICK s \in {"leaving", "out"} : task' = [task EXCEPT !["lst"] = s] OBVIOUS
  <1>2. "lst" \in Tasks /\ task["lst"] \in {"in", "leaving"} BY DEF Tasks
  <1>3. UNCHANGED <<app, main, tried, lost, link, chan, tp, mode, fed>> OBVIOUS
  <1>4. /\ cancel' \in BOOLEAN /\ signal' \in BOOLEAN /\ asked' \in BOOLEAN
        /\ cancel => cancel'
        /\ signal => signal'
        /\ cancel' => asked'
    <2> USE DEF CyclesInv, Kinds, TokenInv, NoSpuriousShutdown, Quiet
    <2>1. CASE UNCHANGED <<cancel, asked, signal>> BY <2>1
    <2>2. CASE ~Quiet /\ ReportFallback /\ UNCHANGED <<cancel, asked>>
      <3>1. cancel = FALSE /\ signal = FALSE BY <2>2, Zenon
      <3> QED BY <2>2, <3>1
    <2>3. CASE cancel' = TRUE /\ asked' = TRUE /\ UNCHANGED signal BY <2>3, Zenon
    <2> QED BY <2>1, <2>2, <2>3, Zenon
  <1>5. /\ task' \in [Tasks -> {"none", "spawned", "in", "leaving", "out"}]
        /\ EntryInv' /\ ModeInv'
    BY <1>1, <1>2, <1>3, <1>4, TaskMoves, Zenon
  <1>6. port' \in {port, "free"} OBVIOUS
  <1>7. Kinds' BY <1>3, <1>4, <1>5, <1>6 DEF CyclesInv, Kinds, TypeOK
  <1>8. PortInv'
    <2>1. AcceptingPortReleased' BY <1>6 DEF CyclesInv, PortInv, AcceptingPortReleased
    <2>2. ASSUME Jdc, port' = "cur" PROVE task'["lst"] = "out" /\ ~fed' /\ Quiet'
      <3>1. port = "cur" BY <1>6, <2>2
      <3>2. task["lst"] = "in" BY <1>2, <2>2, <3>1 DEF CyclesInv, PortInv
      <3>3. ListenerStops /\ ~ReleasesFirst BY <2>2, <3>2
      <3>4. Quiet' /\ ~fed' BY <1>3, <2>2, <3>3 DEF ReleasesFirst, Quiet
      <3>5. task' = [task EXCEPT !["lst"] = "out"] BY <3>3
      <3> QED BY <1>2, <3>4, <3>5 DEF CyclesInv, Kinds, TypeOK
    <2> QED BY <1>3, <2>1, <2>2 DEF PortInv, Jdc
  <1>9. TokenInv'
    BY <1>3, <1>4 DEF CyclesInv, TokenInv, NoSpuriousShutdown, TemplateStreamSurvives, Jdc, Quiet
  <1> QED BY <1>5, <1>7, <1>8, <1>9 DEF CyclesInv

----------------------------------------------------------------------------
\* What a step of the main task leaves alone when it only goes on: nothing is
\* left of a failed start but the order to shut down.
LEMMA FailKeeps ==
    ASSUME CyclesInv, Fail, UNCHANGED <<app, lost, signal, link, chan, tp, mode, fed>>,
           tried' = tried, port' \in {port, "cur"}, Jdc => port' = port,
           task' \in [Tasks -> {"none", "spawned", "in", "leaving", "out"}],
           task'["jd"] = task["jd"], Jdc => task'["lst"] = task["lst"]
    PROVE  CyclesInv'
  <1>1. /\ main' \in [at : Stages, i : 1..Upstreams + 1, n : 1..MaxRetries]
        /\ main'.at = "down" /\ cancel' = TRUE /\ asked' = TRUE
    BY DEF Fail, At, Stages, CyclesInv, Kinds
  <1>2. Kinds' BY <1>1 DEF CyclesInv, Kinds, TypeOK, Stages
  <1>3. EntryInv' BY <1>1 DEF CyclesInv, EntryInv
  <1>4. ModeInv' BY <1>1 DEF CyclesInv, ModeInv
  <1>5. PortInv' BY <1>1 DEF CyclesInv, PortInv, AcceptingPortReleased, Jdc, Quiet
  <1>6. TokenInv'
    BY <1>1 DEF CyclesInv, TokenInv, NoSpuriousShutdown, TemplateStreamSurvives, Jdc, Quiet
  <1> QED BY <1>2, <1>3, <1>4, <1>5, <1>6 DEF CyclesInv

\* The parts of the invariant that do not look at the main task.
LEMMA MainMoves ==
    ASSUME CyclesInv, UNCHANGED <<app, cancel, asked, signal, chan, port, fed>>,
           task' \in [Tasks -> {"none", "spawned", "in", "leaving", "out"}],
           task'["lst"] = task["lst"],
           tp' \in [up : BOOLEAN, open : BOOLEAN], tp'.open = tp.open, tp'.up => tp.up \/ Jdc
    PROVE  PortInv' /\ TokenInv'
  <1>1. PortInv' BY DEF CyclesInv, PortInv, AcceptingPortReleased, Jdc, Quiet
  <1>2. TokenInv'
    BY DEF CyclesInv, TokenInv, NoSpuriousShutdown, TemplateStreamSurvives, Jdc, Quiet
  <1> QED BY <1>1, <1>2

\* jd-client's template provider, before any upstream.
LEMMA ProviderKeeps ==
    ASSUME CyclesInv, ConnectTemplateProvider \/ StartTemplateReceiver
    PROVE  CyclesInv'
  <1> USE DEF ConnectTemplateProvider, StartTemplateReceiver
  <1>0. task \in [Tasks -> {"none", "spawned", "in", "leaving", "out"}]
    BY DEF CyclesInv, Kinds, TypeOK
  <1>1. UNCHANGED <<app, tried, lost, signal, task, link, chan, mode, port, fed>> OBVIOUS
  <1>2. CASE Fail
    <2>1. tp' = tp BY <1>2, Zenon DEF Fail, At, CyclesInv, Kinds
    <2> QED BY <1>0, <1>1, <1>2, <2>1, FailKeeps
  <1>3. CASE ~Fail
    <2>1. /\ main.at \in {"tp", "tpSetup"} /\ main'.at \in {"tpSetup", "entry"}
          /\ main'.i = main.i /\ UNCHANGED <<cancel, asked>>
          /\ main' \in [at : Stages, i : 1..Upstreams + 1, n : 1..MaxRetries]
      BY <1>3 DEF At, Stages, CyclesInv, Kinds
    <2>2. tp' \in [up : BOOLEAN, open : BOOLEAN] /\ tp'.open = tp.open
      BY <1>3, Zenon DEF CyclesInv, Kinds
    <2>3. Jdc BY <2>1 DEF CyclesInv, EntryInv
    <2>4. PortInv' /\ TokenInv' BY <1>0, <1>1, <2>1, <2>2, <2>3, MainMoves
    <2>5. Kinds' BY <1>1, <2>1, <2>2 DEF CyclesInv, Kinds, TypeOK, Stages
    <2>6. EntryInv' BY <1>1, <2>1, <2>3 DEF CyclesInv, EntryInv, Jdc
    <2>7. ModeInv' BY <1>1, <2>1 DEF CyclesInv, ModeInv
    <2> QED BY <2>4, <2>5, <2>6, <2>7 DEF CyclesInv
  <1> QED BY <1>2, <1>3

\* No upstream, and no connection left of one: jd-client starts its services in
\* solo mode, the translator fails.
LEMMA GiveUpKeeps ==
    ASSUME CyclesInv, GiveUp, UNCHANGED <<app, tried, lost, signal, link, chan, tp, port, fed>>,
           task' \in [Tasks -> {"none", "spawned", "in", "leaving", "out"}],
           task["jd"] = "none", task'["jd"] = "none", task'["poolIo"] = "none",
           task'["lst"] = task["lst"]
    PROVE  CyclesInv'
  <1>1. CASE ~Jdc
    BY <1>1, FailKeeps DEF GiveUp
  <1>2. CASE Jdc
    <2>1. /\ main' \in [at : Stages, i : 1..Upstreams + 1, n : 1..MaxRetries]
          /\ main'.at = "services" /\ mode' = "solo" /\ UNCHANGED <<cancel, asked>>
      BY <1>2 DEF GiveUp, IntoSoloMining, At, Stages, CyclesInv, Kinds
    <2>2. PortInv' /\ TokenInv' BY <2>1, MainMoves DEF CyclesInv, Kinds
    <2>3. Kinds' BY <2>1 DEF CyclesInv, Kinds, TypeOK, Stages
    <2>4. EntryInv' BY <2>1 DEF CyclesInv, EntryInv
    <2>5. ModeInv' BY <2>1 DEF ModeInv, Serving
    <2> QED BY <2>2, <2>3, <2>4, <2>5 DEF CyclesInv
  <1> QED BY <1>1, <1>2

\* The next attempt or the next entry, with no connection left of this one.
LEMMA RetryKeeps ==
    ASSUME CyclesInv, Retry, main.at \in {"pool", "jds", "setup"},
           UNCHANGED <<app, lost, cancel, asked, signal, link, chan, tp, mode, port, fed>>,
           task' \in [Tasks -> {"none", "spawned", "in", "leaving", "out"}],
           task'["jd"] = task["jd"], task'["poolIo"] = "none", task'["lst"] = task["lst"]
    PROVE  CyclesInv'
  <1> USE BoundsAssumption
  <1>1. main.i \in 1..Upstreams /\ main.n \in 1..MaxRetries /\ main.i \notin lost
    BY DEF CyclesInv, Kinds, EntryInv
  <1>2. /\ main' \in [at : Stages, i : 1..Upstreams + 1, n : 1..MaxRetries]
        /\ \/ main'.at = "pool" /\ main'.i = main.i
           \/ main'.at = "entry"
        /\ tried \subseteq tried' /\ tried' \subseteq 1..Upstreams
    <2>1. CASE main.n < MaxRetries
      <3>1. main' = [main EXCEPT !.at = "pool", !.n = main.n + 1] /\ tried' = tried
        BY <2>1 DEF Retry
      <3>2. main.n + 1 \in 1..MaxRetries BY <1>1, <2>1
      <3>3. tried' \subseteq 1..Upstreams BY <3>1 DEF CyclesInv, Kinds, TypeOK
      <3> QED BY <3>1, <3>2, <3>3, Zenon DEF Stages, CyclesInv, Kinds
    <2>2. CASE ~(main.n < MaxRetries)
      <3>1. main' = [main EXCEPT !.at = "entry", !.i = main.i + 1] /\ tried' = tried \cup {main.i}
        BY <2>2 DEF Retry
      <3>2. main.i + 1 \in 1..Upstreams + 1 BY <1>1
      <3>3. tried' \subseteq 1..Upstreams BY <1>1, <3>1 DEF CyclesInv, Kinds, TypeOK
      <3> QED BY <3>1, <3>2, <3>3, Zenon DEF Stages, CyclesInv, Kinds
    <2> QED BY <2>1, <2>2
  <1>3. PortInv' /\ TokenInv' BY MainMoves DEF CyclesInv, Kinds
  <1>4. Kinds' BY <1>2 DEF CyclesInv, Kinds, TypeOK, Stages
  <1>5. EntryInv' BY <1>1, <1>2 DEF CyclesInv, EntryInv
  <1>6. ModeInv' BY <1>2 DEF CyclesInv, ModeInv
  <1> QED BY <1>3, <1>4, <1>5, <1>6 DEF CyclesInv

\* The next stage of try_upstream: nothing of the tokens, the port or the mode
\* depends on it.
LEMMA ProceedsTo ==
    ASSUME CyclesInv, Proceed, main.at \in {"pool", "jds", "setup", "setupJd"}
    PROVE  /\ main' \in [at : Stages, i : 1..Upstreams + 1, n : 1..MaxRetries]
           /\ main'.i = main.i /\ main.i \in 1..Upstreams
           /\ main'.at = IF main.at = "pool" THEN (IF Jdc THEN "jds" ELSE "setup")
                         ELSE IF main.at = "jds" THEN "setup"
                         ELSE IF main.at = "setup" /\ Jdc THEN "setupJd" ELSE "services"
  <1> USE BoundsAssumption
  <1>1. main.i \in 1..Upstreams BY DEF CyclesInv, Kinds, EntryInv
  <1>2. main.at \in {"jds", "setupJd"} => Jdc BY DEF CyclesInv, EntryInv
  <1>3. CASE Jdc
    BY <1>1, <1>3 DEF Proceed, At, JdcOrder, Stages, CyclesInv, Kinds
  <1>4. CASE ~Jdc
    BY <1>1, <1>2, <1>4 DEF Proceed, At, TranslatorOrder, Stages, CyclesInv, Kinds
  <1> QED BY <1>3, <1>4

\* The connection of a failed attempt leaves no reader but the lingering one.
LEMMA AbandonedTasks ==
    ASSUME CyclesInv, task' = Abandoned
    PROVE  /\ task' \in [Tasks -> {"none", "spawned", "in", "leaving", "out"}]
           /\ task'["poolIo"] = "none"
           /\ task'["jd"] = task["jd"] /\ task'["lst"] = task["lst"]
  <1>1. {"poolIo", "jd", "lst", "ghost"} \subseteq Tasks BY DEF Tasks, IoTasks
  <1>2. PICK g \in {"none", "spawned", "in", "leaving", "out"} :
          task' = [task EXCEPT !["poolIo"] = "none", !["ghost"] = g]
    BY <1>1, Zenon DEF Abandoned, CyclesInv, Kinds, TypeOK
  <1> QED BY <1>1, <1>2 DEF CyclesInv, Kinds, TypeOK

\* The loop over the upstream entries.
LEMMA EntryKeeps ==
    ASSUME CyclesInv, NextEntry
    PROVE  CyclesInv'
  <1> USE BoundsAssumption
  <1>1. /\ UNCHANGED <<app, tried, lost, signal, task, link, chan, tp, port, fed>>
        /\ main.at = "entry" /\ task["jd"] = "none" /\ task["poolIo"] = "none"
        /\ task \in [Tasks -> {"none", "spawned", "in", "leaving", "out"}]
    BY DEF NextEntry, CyclesInv, Kinds, TypeOK, EntryInv, ModeInv
  <1>2. CASE GiveUp BY <1>1, <1>2, GiveUpKeeps
  <1>3. CASE ~GiveUp
    <2>1. /\ main.i <= Upstreams /\ UNCHANGED <<cancel, asked, mode>>
          /\ main' = IF main.i \in tried THEN [main EXCEPT !.i = main.i + 1]
                                         ELSE [main EXCEPT !.at = "pool", !.n = 1]
      BY <1>3 DEF NextEntry
    <2>2. main.i \in 1..Upstreams + 1 /\ main.i + 1 \in 1..Upstreams + 1 /\ 1 \in 1..MaxRetries
      BY <2>1 DEF CyclesInv, Kinds
    <2>3. /\ main' \in [at : Stages, i : 1..Upstreams + 1, n : 1..MaxRetries]
          /\ \/ main'.at = "entry"
             \/ main'.at = "pool" /\ main'.i = main.i /\ main.i \notin tried
      <3>1. CASE main.i \in tried BY <1>1, <2>1, <2>2, <3>1 DEF Stages, CyclesInv, Kinds
      <3>2. CASE main.i \notin tried BY <2>1, <2>2, <3>2, Zenon DEF Stages, CyclesInv, Kinds
      <3> QED BY <3>1, <3>2
    <2>4. PortInv' /\ TokenInv' BY <1>1, <2>1, MainMoves DEF CyclesInv, Kinds
    <2>5. Kinds' BY <1>1, <2>1, <2>3 DEF CyclesInv, Kinds, TypeOK, Stages
    <2>6. EntryInv' BY <1>1, <2>1, <2>3 DEF CyclesInv, EntryInv
    <2>7. ModeInv' BY <1>1, <2>1, <2>3 DEF CyclesInv, ModeInv
    <2> QED BY <2>4, <2>5, <2>6, <2>7 DEF CyclesInv
  <1> QED BY <1>2, <1>3

\* A connection spawns its reader and changes nothing else among the tasks.
LEMMA ConnectedTasks ==
    ASSUME CyclesInv, NEW p \in Peers, NEW io \in IoTasks, Connected(p, io)
    PROVE  /\ task' \in [Tasks -> {"none", "spawned", "in", "leaving", "out"}]
           /\ link' \in [Peers -> {"none", "open", "closed"}]
           /\ task'["jd"] = task["jd"] /\ task'["lst"] = task["lst"]
  BY DEF Connected, Spawn, Tasks, IoTasks, CyclesInv, Kinds, TypeOK

\* Upstream::new gives up, tries again or goes on.
LEMMA ConnectPoolKeeps ==
    ASSUME CyclesInv, ConnectPool
    PROVE  CyclesInv'
  <1>1. /\ UNCHANGED <<app, lost, signal, chan, tp, port, fed>>
        /\ main.at = "pool" /\ task["jd"] = "none" /\ task["poolIo"] = "none"
        /\ task \in [Tasks -> {"none", "spawned", "in", "leaving", "out"}]
    BY DEF ConnectPool, CyclesInv, Kinds, TypeOK, EntryInv, ModeInv
  <1>2. CASE GiveUp /\ UNCHANGED <<tried, task, link>> BY <1>1, <1>2, GiveUpKeeps
  <1>3. CASE Retry /\ UNCHANGED <<cancel, asked, mode, task, link>> BY <1>1, <1>3, RetryKeeps
  <1>4. CASE Proceed /\ Connected("pool", "poolIo") /\ UNCHANGED <<tried, cancel, asked, mode>>
    <2>1. /\ main' \in [at : Stages, i : 1..Upstreams + 1, n : 1..MaxRetries]
          /\ main'.i = main.i /\ main.i \in 1..Upstreams
          /\ main'.at \in {"jds", "setup"} /\ (main'.at = "jds" <=> Jdc)
      BY <1>1, <1>4, ProceedsTo
    <2>2. /\ task' \in [Tasks -> {"none", "spawned", "in", "leaving", "out"}]
          /\ link' \in [Peers -> {"none", "open", "closed"}]
          /\ task'["jd"] = task["jd"] /\ task'["lst"] = task["lst"]
      BY <1>4, ConnectedTasks DEF Peers, IoTasks
    <2>3. PortInv' /\ TokenInv' BY <1>1, <1>4, <2>2, MainMoves DEF CyclesInv, Kinds
    <2>4. Kinds' BY <1>1, <1>4, <2>1, <2>2 DEF CyclesInv, Kinds, TypeOK, Stages
    <2>5. EntryInv' BY <1>1, <1>4, <2>1, BoundsAssumption DEF CyclesInv, EntryInv, Jdc
    <2>6. ModeInv' BY <1>1, <1>4, <2>1, <2>2 DEF CyclesInv, ModeInv
    <2> QED BY <2>3, <2>4, <2>5, <2>6 DEF CyclesInv
  <1> QED BY <1>2, <1>3, <1>4 DEF ConnectPool

\* JobDeclarator::new gives up, tries again or goes on with the entry flagged.
LEMMA ConnectJdsKeeps ==
    ASSUME CyclesInv, ConnectJds
    PROVE  CyclesInv'
  <1>1. /\ UNCHANGED <<app, lost, signal, chan, tp, port, fed>>
        /\ main.at = "jds" /\ task["jd"] = "none" /\ Jdc
    BY DEF ConnectJds, CyclesInv, EntryInv, ModeInv
  <1>2. CASE GiveUp /\ task' = Abandoned /\ UNCHANGED <<tried, link>>
    BY <1>1, <1>2, AbandonedTasks, GiveUpKeeps
  <1>3. CASE Retry /\ task' = Abandoned /\ UNCHANGED <<cancel, asked, mode, link>>
    BY <1>1, <1>3, AbandonedTasks, RetryKeeps
  <1>4. CASE /\ Proceed /\ tried' = FlagTried /\ Connected("jds", "jdsIo")
             /\ UNCHANGED <<cancel, asked, mode>>
    <2>1. /\ main' \in [at : Stages, i : 1..Upstreams + 1, n : 1..MaxRetries]
          /\ main'.i = main.i /\ main.i \in 1..Upstreams /\ main'.at = "setup"
      BY <1>1, <1>4, ProceedsTo
    <2>2. /\ task' \in [Tasks -> {"none", "spawned", "in", "leaving", "out"}]
          /\ link' \in [Peers -> {"none", "open", "closed"}]
          /\ task'["jd"] = task["jd"] /\ task'["lst"] = task["lst"]
      BY <1>4, ConnectedTasks DEF Peers, IoTasks
    <2>3. PortInv' /\ TokenInv' BY <1>1, <1>4, <2>2, MainMoves DEF CyclesInv, Kinds
    <2>4. tried' = tried \cup {main.i} BY <1>4 DEF FlagTried
    <2>5. Kinds'
      <3>1. tried' \subseteq 1..Upstreams BY <2>1, <2>4, Zenon DEF CyclesInv, Kinds, TypeOK
      <3> QED BY <1>1, <1>4, <2>1, <2>2, <3>1 DEF CyclesInv, Kinds, TypeOK, Stages
    <2>6. EntryInv'
      <3>1. main'.i <= Upstreams /\ main'.i \notin lost' /\ main'.i \in tried' /\ lost' \subseteq tried'
        BY <1>1, <2>1, <2>4, BoundsAssumption DEF CyclesInv, EntryInv
      <3> QED BY <2>1, <3>1 DEF EntryInv
    <2>7. ModeInv' BY <1>1, <1>4, <2>1, <2>2 DEF CyclesInv, ModeInv
    <2> QED BY <2>3, <2>5, <2>6, <2>7 DEF CyclesInv
  <1> QED BY <1>2, <1>3, <1>4 DEF ConnectJds

\* The tasks after the answer of the pool: "up" is spawned when it is a good
\* one, jd-client's "jd" is registered whatever it is.
LEMMA SetupTasks ==
    ASSUME CyclesInv, NEW ts \in SUBSET Tasks
    PROVE  /\ Spawn(ts) \in [Tasks -> {"none", "spawned", "in", "leaving", "out"}]
           /\ \A t \in Tasks : Spawn(ts)[t] = IF t \in ts THEN "spawned" ELSE task[t]
  BY DEF Spawn, CyclesInv, Kinds, TypeOK

\* jd-client goes on to the job declarator, with a fallback signalled if the
\* pool's answer was a bad one.
LEMMA SetupJdcKeeps ==
    ASSUME CyclesInv, main.at = "setup", NEW ok \in BOOLEAN, SetupPoolJdc(ok),
           UNCHANGED <<app, lost, tp, mode, port, fed>>
    PROVE  CyclesInv'
  <1>1. {"jd", "up", "lst", "poolIo"} \subseteq Tasks BY DEF Tasks, IoTasks
  <1>2. /\ Jdc /\ UNCHANGED <<tried, cancel, asked>>
        /\ main' \in [at : Stages, i : 1..Upstreams + 1, n : 1..MaxRetries]
        /\ main'.i = main.i /\ main.i \in 1..Upstreams /\ main'.at = "setupJd"
    BY ProceedsTo DEF SetupPoolJdc
  <1>3. /\ task' \in [Tasks -> {"none", "spawned", "in", "leaving", "out"}]
        /\ task'["jd"] = "in" /\ task'["lst"] = task["lst"]
        /\ ok => task'["up"] = "spawned"
    <2>1. CASE ok
      <3>1. task' = [Spawn({"up"}) EXCEPT !["jd"] = "in"] BY <2>1 DEF SetupPoolJdc
      <3> QED BY <1>1, <3>1, SetupTasks
    <2>2. CASE ~ok
      BY <1>1, <2>2 DEF SetupPoolJdc, CyclesInv, Kinds, TypeOK
    <2> QED BY <2>1, <2>2
  <1>4. /\ signal' \in BOOLEAN
        /\ signal => signal'
        /\ ok => UNCHANGED <<signal, chan, link>>
        /\ ~ok => Quiet'
    <2>1. CASE ok BY <2>1 DEF SetupPoolJdc, CyclesInv, Kinds
    <2>2. CASE ~ok
      <3>1. signal' = (signal \/ ~cancel) BY <2>2 DEF SetupPoolJdc, ReportFallback
      <3>2. signal' \in BOOLEAN /\ (signal => signal') BY <3>1, Zenon DEF CyclesInv, Kinds
      <3>3. Quiet' BY <1>2, <3>1, Zenon DEF Quiet
      <3> QED BY <2>2, <3>2, <3>3
    <2> QED BY <2>1, <2>2
  <1>5. link' \in [Peers -> {"none", "open", "closed"}] /\ chan' \in [Peers -> BOOLEAN]
    BY Zenon DEF SetupPoolJdc, CloseIo, CyclesInv, Kinds, TypeOK
  <1>6. ~Quiet' => ~Quiet /\ ok BY <1>2, <1>4 DEF Quiet
  <1>7. Kinds' BY <1>2, <1>3, <1>4, <1>5 DEF CyclesInv, Kinds, TypeOK, Stages
  <1>8. EntryInv'
    <2>1. main'.i <= Upstreams /\ main'.i \notin lost' /\ main'.i \in tried' /\ lost' \subseteq tried'
      BY <1>2, BoundsAssumption DEF CyclesInv, EntryInv
    <2> QED BY <1>2, <2>1 DEF EntryInv, Jdc
  <1>9. ModeInv' BY <1>2, <1>3, <1>6 DEF ModeInv
  <1>10. PortInv' BY <1>3, <1>6 DEF CyclesInv, PortInv, AcceptingPortReleased, Jdc
  <1>11. TokenInv'
    BY <1>2, <1>4, <1>6 DEF CyclesInv, TokenInv, NoSpuriousShutdown, TemplateStreamSurvives, Jdc
  <1> QED BY <1>7, <1>8, <1>9, <1>10, <1>11 DEF CyclesInv

\* The translator starts its services, fails, or counts a failed attempt.
LEMMA SetupTranslatorKeeps ==
    ASSUME CyclesInv, main.at = "setup", NEW ok \in BOOLEAN, SetupPoolTranslator(ok),
           UNCHANGED <<app, lost, tp, mode, port, fed>>
    PROVE  CyclesInv'
  <1>1. {"jd", "up", "lst", "poolIo"} \subseteq Tasks BY DEF Tasks, IoTasks
  <1>2. ~Jdc /\ UNCHANGED <<signal, chan, link>> BY DEF SetupPoolTranslator
  <1>3. CASE ~ok
    BY <1>2, <1>3, AbandonedTasks, RetryKeeps DEF SetupPoolTranslator
  <1>4. CASE ok
    <2>1. task' = Spawn({"up"}) BY <1>4 DEF SetupPoolTranslator
    <2>2. /\ task' \in [Tasks -> {"none", "spawned", "in", "leaving", "out"}]
          /\ task'["jd"] = task["jd"] /\ task'["lst"] = task["lst"]
          /\ task'["poolIo"] = task["poolIo"]
      BY <1>1, <2>1, SetupTasks
    <2>3. CASE Fail /\ UNCHANGED tried
      BY <1>2, <2>2, <2>3, FailKeeps
    <2>4. CASE Proceed /\ tried' = FlagTried /\ UNCHANGED <<cancel, asked>>
      <3>1. /\ main' \in [at : Stages, i : 1..Upstreams + 1, n : 1..MaxRetries]
            /\ main'.i = main.i /\ main.i \in 1..Upstreams /\ main'.at = "services"
        BY <1>2, <2>4, ProceedsTo
      <3>2. tried' = tried \cup {main.i} BY <2>4 DEF FlagTried
      <3>3. tried' \subseteq 1..Upstreams BY <3>1, <3>2, Zenon DEF CyclesInv, Kinds, TypeOK
      <3>4. PortInv' /\ TokenInv' BY <1>2, <2>2, <2>4, MainMoves DEF CyclesInv, Kinds
      <3>5. Kinds' BY <1>2, <2>2, <2>4, <3>1, <3>3 DEF CyclesInv, Kinds, TypeOK, Stages
      <3>6. EntryInv' BY <3>1, <3>2 DEF CyclesInv, EntryInv
      <3>7. ModeInv' BY <1>2, <2>2, <3>1 DEF CyclesInv, ModeInv, Jdc
      <3> QED BY <3>4, <3>5, <3>6, <3>7 DEF CyclesInv
    <2> QED BY <1>4, <2>3, <2>4 DEF SetupPoolTranslator
  <1> QED BY <1>3, <1>4

\* A shutdown during the translator's handshake closes the connection and goes
\* on to the services, which it then stops.
LEMMA SetupCancelledKeeps ==
    ASSUME CyclesInv, SetupCancelled
    PROVE  CyclesInv'
  <1>1. /\ ~Jdc /\ cancel /\ main.at = "setup"
        /\ UNCHANGED <<app, lost, cancel, asked, signal, task, tp, mode, port, fed>>
        /\ main' \in [at : Stages, i : 1..Upstreams + 1, n : 1..MaxRetries]
        /\ main'.i = main.i /\ main.i \in 1..Upstreams /\ main'.at = "services"
    BY ProceedsTo DEF SetupCancelled
  <1>2. tried' = tried \cup {main.i} BY DEF SetupCancelled, FlagTried
  <1>3. tried' \subseteq 1..Upstreams BY <1>1, <1>2, Zenon DEF CyclesInv, Kinds, TypeOK
  <1>4. link' \in [Peers -> {"none", "open", "closed"}] /\ chan' \in [Peers -> BOOLEAN]
    BY Zenon DEF SetupCancelled, CloseIo, CyclesInv, Kinds, TypeOK
  <1>5. Kinds' BY <1>1, <1>3, <1>4 DEF CyclesInv, Kinds, TypeOK, Stages
  <1>6. EntryInv' BY <1>1, <1>2 DEF CyclesInv, EntryInv
  <1>7. ModeInv' BY <1>1 DEF CyclesInv, ModeInv, Jdc
  <1>8. PortInv' BY <1>1 DEF CyclesInv, PortInv, AcceptingPortReleased, Jdc
  <1>9. TokenInv'
    BY <1>1 DEF CyclesInv, TokenInv, NoSpuriousShutdown, TemplateStreamSurvives, Jdc, Quiet
  <1> QED BY <1>5, <1>6, <1>7, <1>8, <1>9 DEF CyclesInv

\* The JDS accepts, and the configured mode becomes active; or it does not, and
\* a fallback is signalled before the services start.
LEMMA SetupJdKeeps ==
    ASSUME CyclesInv, JdsAccepts \/ JdsRefuses \/ JdsBroken
    PROVE  CyclesInv'
  <1> USE DEF JdsAccepts, JdsRefuses, JdsBroken, JdsSetupFails
  <1>1. {"jd", "up", "lst", "poolIo"} \subseteq Tasks BY DEF Tasks, IoTasks
  <1>2. /\ main.at = "setupJd" /\ Jdc /\ main.i \in tried
        /\ UNCHANGED <<app, tried, lost, cancel, asked, tp, port, fed>>
    BY DEF CyclesInv, EntryInv
  <1>3. /\ main' \in [at : Stages, i : 1..Upstreams + 1, n : 1..MaxRetries]
        /\ main'.i = main.i /\ main'.at = "services"
    BY <1>2, ProceedsTo
  <1>4. EntryInv' BY <1>2, <1>3 DEF CyclesInv, EntryInv
  <1>5. CASE JdsAccepts
    <2>1. UNCHANGED <<signal, task, link, chan>> /\ mode' = "config" BY <1>5
    <2>2. PortInv' /\ TokenInv' BY <1>2, <2>1, MainMoves DEF CyclesInv, Kinds, TypeOK
    <2>3. Kinds' BY <1>2, <1>3, <2>1 DEF CyclesInv, Kinds, TypeOK, Stages
    <2>4. ModeInv' BY <1>2, <1>3, <2>1 DEF CyclesInv, ModeInv, Serving, Quiet
    <2> QED BY <1>4, <2>2, <2>3, <2>4 DEF CyclesInv
  <1>6. CASE JdsSetupFails
    <2>1. task' = [task EXCEPT !["jd"] = "out"] /\ mode' = mode BY <1>6
    <2>2. /\ task' \in [Tasks -> {"none", "spawned", "in", "leaving", "out"}]
          /\ task'["jd"] = "out" /\ task'["lst"] = task["lst"]
      BY <1>1, <2>1 DEF CyclesInv, Kinds, TypeOK
    <2>3. signal' \in BOOLEAN /\ Quiet'
      <3>1. signal' = (signal \/ ~cancel) BY <1>6 DEF ReportFallback
      <3>2. signal' \in BOOLEAN BY <3>1, Zenon DEF CyclesInv, Kinds
      <3>3. Quiet' BY <1>2, <3>1, Zenon DEF Quiet
      <3> QED BY <3>2, <3>3
    <2>4. link' \in [Peers -> {"none", "open", "closed"}] /\ chan' \in [Peers -> BOOLEAN]
      BY <1>6, Zenon DEF CloseIo, CyclesInv, Kinds, TypeOK
    <2>5. Kinds' BY <1>2, <1>3, <2>1, <2>2, <2>3, <2>4 DEF CyclesInv, Kinds, TypeOK, Stages
    <2>6. ModeInv' BY <1>3, <2>2, <2>3 DEF ModeInv
    <2>7. PortInv' BY <1>2, <2>2, <2>3 DEF CyclesInv, PortInv, AcceptingPortReleased, Jdc
    <2>8. TokenInv'
      BY <1>2, <2>3 DEF CyclesInv, TokenInv, NoSpuriousShutdown, TemplateStreamSurvives, Jdc
    <2> QED BY <1>4, <2>5, <2>6, <2>7, <2>8 DEF CyclesInv
  <1> QED BY <1>5, <1>6

\* The services start, with the listening port taken by this cycle, or fail.
LEMMA ServicesKeep ==
    ASSUME CyclesInv, StartServicesJdc \/ StartServicesTranslator
    PROVE  CyclesInv'
  <1> USE DEF StartServicesJdc, StartServicesTranslator
  <1>1. {"jd", "up", "lst", "poolIo", "cm"} \subseteq Tasks BY DEF Tasks, IoTasks
  <1>2. /\ main.at = "services"
        /\ UNCHANGED <<app, tried, lost, signal, link, chan, tp, mode, fed>>
    OBVIOUS
  <1>3. /\ task' \in [Tasks -> {"none", "spawned", "in", "leaving", "out"}]
        /\ task'["jd"] = task["jd"] /\ task'["up"] = task["up"]
        /\ task'["poolIo"] = task["poolIo"]
    <2>1. CASE StartServicesJdc /\ task' = [Spawn({"cm"}) EXCEPT !["lst"] = "in"]
      BY <1>1, <2>1, SetupTasks
    <2>2. CASE \E ts \in {{}, {"cm"}} : task' = Spawn(ts) /\ Fail
      BY <1>1, <2>2, SetupTasks DEF Fail
    <2>3. CASE ~Jdc /\ task' = Spawn({"lst", "cm"})
      BY <1>1, <2>3, SetupTasks
    <2>4. CASE ~Jdc /\ task' = task
      BY <2>4 DEF CyclesInv, Kinds, TypeOK
    <2> QED BY <2>1, <2>2, <2>3, <2>4
  <1>4. CASE Fail
    <2>1. Jdc => task'["lst"] = task["lst"] /\ port' = port
      <3>1. Fail /\ Jdc => main'.at # "wait" BY DEF Fail, At, CyclesInv, Kinds
      <3>2. Jdc => (\E ts \in {{}, {"cm"}} : task' = Spawn(ts)) /\ port' = port
        BY <1>4, <3>1 DEF At, CyclesInv, Kinds
      <3> QED BY <1>1, <3>2, SetupTasks
    <2> QED BY <1>2, <1>3, <1>4, <2>1, FailKeeps
  <1>5. CASE ~Fail
    <2>1. /\ At("wait") /\ port' = "cur" /\ UNCHANGED <<cancel, asked>>
          /\ Jdc => task' = [Spawn({"cm"}) EXCEPT !["lst"] = "in"]
      BY <1>5
    <2>2. /\ main' \in [at : Stages, i : 1..Upstreams + 1, n : 1..MaxRetries]
          /\ main'.i = main.i /\ main'.at = "wait"
      BY <2>1 DEF At, Stages, CyclesInv, Kinds
    <2>3. Kinds' BY <1>2, <1>3, <2>1, <2>2 DEF CyclesInv, Kinds, TypeOK, Stages
    <2>4. EntryInv' BY <1>2, <1>3, <2>2 DEF CyclesInv, EntryInv
    <2>5. ModeInv' BY <1>2, <1>3, <2>1, <2>2 DEF CyclesInv, ModeInv, Serving, Quiet, Jdc
    <2>6. PortInv' BY <1>1, <1>2, <2>1, SetupTasks DEF PortInv, AcceptingPortReleased, Jdc
    <2>7. TokenInv'
      BY <1>2, <2>1 DEF CyclesInv, TokenInv, NoSpuriousShutdown, TemplateStreamSurvives, Jdc, Quiet
    <2> QED BY <2>3, <2>4, <2>5, <2>6, <2>7 DEF CyclesInv
  <1> QED BY <1>4, <1>5

\* wait ends with a shutdown or a fallback.
LEMMA WaitKeeps ==
    ASSUME CyclesInv, Wait
    PROVE  CyclesInv'
  <1>1. /\ main.at = "wait"
        /\ UNCHANGED <<app, tried, lost, signal, task, link, chan, tp, mode, port, fed>>
        /\ task \in [Tasks -> {"none", "spawned", "in", "leaving", "out"}]
    BY DEF Wait, CyclesInv, Kinds, TypeOK
  <1>2. CASE Fail BY <1>1, <1>2, FailKeeps
  <1>3. CASE At("barrier") /\ UNCHANGED <<cancel, asked>>
    <2>1. /\ main' \in [at : Stages, i : 1..Upstreams + 1, n : 1..MaxRetries]
          /\ main'.i = main.i /\ main'.at = "barrier"
      BY <1>3 DEF At, Stages, CyclesInv, Kinds
    <2>2. PortInv' /\ TokenInv' BY <1>1, <1>3, MainMoves DEF CyclesInv, Kinds
    <2>3. Kinds' BY <1>1, <1>3, <2>1 DEF CyclesInv, Kinds, TypeOK, Stages
    <2>4. EntryInv' BY <1>1, <2>1 DEF CyclesInv, EntryInv
    <2>5. ModeInv' BY <1>1, <2>1 DEF CyclesInv, ModeInv
    <2> QED BY <2>2, <2>3, <2>4, <2>5 DEF CyclesInv
  <1> QED BY <1>2, <1>3 DEF Wait

\* A new cycle begins with no task, open channels and no token.
LEMMA CycleIsFresh ==
    ASSUME FreshCycle
    PROVE  /\ task' \in [Tasks -> {"none", "spawned", "in", "leaving", "out"}]
           /\ task'["jd"] = "none" /\ task'["poolIo"] = "none"
           /\ link' \in [Peers -> {"none", "open", "closed"}] /\ chan' \in [Peers -> BOOLEAN]
           /\ chan' = OpenChannels /\ signal' = FALSE /\ fed' = FALSE
  BY DEF FreshCycle, BootstrapIo, BootstrapChannelManager, NoTasks, NoLinks, OpenChannels,
         Tasks, IoTasks

\* cleanup_for_fallback: the entry left behind is flagged, and the listener that
\* still holds the port had not been accepting, for the barrier let no other by.
LEMMA CleanupKeeps ==
    ASSUME CyclesInv, CleanupForFallback
    PROVE  CyclesInv'
  <1> USE BoundsAssumption
  <1>1. /\ main.at = "barrier" /\ main' = [at |-> "entry", i |-> 1, n |-> 1]
        /\ UNCHANGED <<app, tried, cancel, asked, tp>> /\ FreshCycle
    BY DEF CleanupForFallback
  <1>2. mode' = "solo" BY DEF CleanupForFallback, LeaveMode
  <1>3. main' \in [at : Stages, i : 1..Upstreams + 1, n : 1..MaxRetries] /\ main'.at = "entry"
    BY <1>1 DEF Stages
  <1>4. lost' \subseteq tried
    BY <1>1 DEF CleanupForFallback, CyclesInv, EntryInv
  <1>5. port' \in {"free", "old"} \/ (port' = port /\ port # "cur")
    <2>1. CASE port = "cur" /\ Jdc
      <3>1. "lst" \in Tasks BY DEF Tasks
      <3>2. task["lst"] # "in" BY <3>1 DEF CleanupForFallback
      <3>3. fed = FALSE BY <2>1, <3>2 DEF CyclesInv, PortInv, Kinds
      <3> QED BY <2>1, <3>3 DEF CleanupForFallback
    <2>2. CASE port = "cur" /\ ~Jdc BY <2>2 DEF CleanupForFallback
    <2>3. CASE port # "cur" BY <2>3 DEF CleanupForFallback
    <2> QED BY <2>1, <2>2, <2>3
  <1>6. Kinds'
    <2>1. lost' \subseteq 1..Upstreams BY <1>4 DEF CyclesInv, Kinds, TypeOK
    <2>2. port' \in {"free", "cur", "old", "accepting"} BY <1>5 DEF CyclesInv, Kinds, TypeOK
    <2> QED BY <1>1, <1>2, <1>3, <2>1, <2>2, CycleIsFresh DEF CyclesInv, Kinds, TypeOK, Stages
  <1>7. EntryInv' BY <1>1, <1>3, <1>4, CycleIsFresh DEF EntryInv
  <1>8. ModeInv' BY <1>1, <1>2, <1>3, CycleIsFresh DEF ModeInv
  <1>9. PortInv' BY <1>5 DEF CyclesInv, PortInv, AcceptingPortReleased
  <1>10. TokenInv'
    BY <1>1, CycleIsFresh DEF CyclesInv, TokenInv, NoSpuriousShutdown, TemplateStreamSurvives, Jdc
  <1> QED BY <1>6, <1>7, <1>8, <1>9, <1>10 DEF CyclesInv

\* The end of the shutdown.
LEMMA StopKeeps ==
    ASSUME CyclesInv, Stop
    PROVE  CyclesInv'
  <1> USE BoundsAssumption
  <1>1. /\ main' = [at |-> "stopped", i |-> 1, n |-> 1] /\ tried' = {} /\ lost' = {}
        /\ cancel' = FALSE /\ asked' = FALSE /\ FreshCycle /\ app' = app
        /\ tp' = [up |-> FALSE, open |-> TRUE] /\ mode' = "solo" /\ port' = "free"
    BY DEF Stop
  <1>2. main' \in [at : Stages, i : 1..Upstreams + 1, n : 1..MaxRetries] /\ main'.at = "stopped"
    BY <1>1 DEF Stages
  <1>3. tp' \in [up : BOOLEAN, open : BOOLEAN] /\ ~tp'.up /\ tp'.open BY <1>1
  <1>4. Kinds' BY <1>1, <1>2, <1>3, CycleIsFresh, Zenon DEF CyclesInv, Kinds, TypeOK, Stages
  <1>5. EntryInv' BY <1>1, <1>2 DEF EntryInv
  <1>6. ModeInv' BY <1>1, <1>2, CycleIsFresh DEF ModeInv
  <1>7. PortInv' BY <1>1 DEF PortInv, AcceptingPortReleased
  <1>8. TokenInv'
    BY <1>1, <1>3, CycleIsFresh DEF TokenInv, NoSpuriousShutdown, TemplateStreamSurvives
  <1> QED BY <1>4, <1>5, <1>6, <1>7, <1>8 DEF CyclesInv

----------------------------------------------------------------------------
\* Every step of the main task, of the tasks and of their surroundings.
LEMMA CyclesStep == CyclesInv /\ [Next]_vars => CyclesInv'
  <1> SUFFICES ASSUME CyclesInv, [Next]_vars PROVE CyclesInv' OBVIOUS
  <1>1. CASE MainSteps \/ StartTemplateReceiver
    BY <1>1, ProviderKeeps, EntryKeeps, ConnectPoolKeeps, ConnectJdsKeeps, SetupCancelledKeeps,
       SetupJdKeeps, ServicesKeep, WaitKeeps, CleanupKeeps, StopKeeps, SetupJdcKeeps,
       SetupTranslatorKeeps, Zenon DEF MainSteps, SetupBroken
  <1>2. CASE PoolAnswers
    BY <1>2, SetupJdcKeeps, SetupTranslatorKeeps DEF PoolAnswers
  <1>3. CASE JdsAccepts \/ JdsRefuses BY <1>3, SetupJdKeeps
  <1>4. CASE \/ \E t \in Tasks : Register(t)
             \/ \E t \in IoTasks : IoStops(t) \/ IoLoses(t)
             \/ GhostExits
    BY <1>4, IoKeeps
  <1>5. CASE UpstreamStops \/ UpstreamFails \/ JobDeclaratorStops \/ JobDeclaratorFails
    BY <1>5, PeerTaskKeeps DEF UpstreamStops, UpstreamFails, JobDeclaratorStops, JobDeclaratorFails
  <1>6. CASE CmStops \/ CmFails \/ ExtensionsError BY <1>6, CmKeeps
  <1>7. CASE ExtensionsSuccess BY <1>7, CmKeeps, EventKeeps DEF ExtensionsSuccess
  <1>8. CASE TemplatesArrive \/ TpFails \/ SocketDropped \/ UserShutdown BY <1>8, EventKeeps
  <1>9. CASE ListenerStops \/ ListenerDone \/ Sv1ServerFails BY <1>9, ListenerKeeps
  <1>10. CASE UNCHANGED vars
    BY <1>10 DEF vars, CyclesInv, Kinds, TypeOK, EntryInv, ModeInv, Serving, PortInv, TokenInv,
       AcceptingPortReleased, NoSpuriousShutdown, TemplateStreamSurvives, Jdc, Quiet
  <1> QED BY <1>1, <1>2, <1>3, <1>4, <1>5, <1>6, <1>7, <1>8, <1>9, <1>10 DEF Next

\* A fallback stays a fallback, for any upstreams and attempts: the application
\* is cancelled only when somebody meant it, in whichever order the tasks of a
\* cycle notice the signal and close the channels they share
\* (handle_error_action of Upstream, JobDeclarator and ChannelManager).
THEOREM ShutdownIsMeant == Spec => []NoSpuriousShutdown
  <1>1. CyclesInv => NoSpuriousShutdown BY DEF CyclesInv, TokenInv
  <1> QED BY CyclesInit, CyclesStep, <1>1, PTL DEF Spec

\* cleanup_for_fallback hands the next cycle the template stream and nothing
\* else: neither the mode, nor a port that was accepting, nor an upstream that
\* was lost.
THEOREM CyclesAreSeparate == Spec => []CyclesSeparate
  <1>1. CyclesInv => CyclesSeparate
    <2> SUFFICES ASSUME CyclesInv PROVE CyclesSeparate OBVIOUS
    <2>1. TypeOK /\ AcceptingPortReleased /\ TemplateStreamSurvives
      BY DEF CyclesInv, Kinds, PortInv, TokenInv
    <2>2. ModeMatchesUpstream BY DEF CyclesInv, ModeInv, Serving, ModeMatchesUpstream
    <2>3. NeverBackToLost BY DEF CyclesInv, EntryInv, NeverBackToLost
    <2> QED BY <2>1, <2>2, <2>3 DEF CyclesSeparate
  <1> QED BY CyclesInit, CyclesStep, <1>1, PTL DEF Spec
=============================================================================
