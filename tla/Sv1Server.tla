----------------------------- MODULE Sv1Server -----------------------------
(***************************************************************************)
(* The SV1 side of the translator: the SV1 server task (sv1_server/mod.rs  *)
(* and difficulty_manager.rs), one task per SV1 miner (downstream.rs), the *)
(* job store (job_store.rs) and the SV1 request handlers                   *)
(* (downstream_message_handler.rs).                                        *)
(*                                                                         *)
(* The server task handles one message at a time.  A miner's task runs     *)
(* concurrently: it consumes the events the server queued for it, and when *)
(* its connection ends it runs handle_downstream_disconnect itself, so its *)
(* three map updates interleave with the server's handlers.  The channel   *)
(* manager is the environment: it answers open requests and emits jobs,    *)
(* prefixes, targets and closes in the order TranslatorChannelManager      *)
(* shows it to use (a prefix and a prevhash before the job that needs it). *)
(*                                                                         *)
(* A job is [n, k, p, tip]: upstream job n, rolled k times by keepalives,  *)
(* built by the channel for extranonce prefix p on chain tip `tip`.        *)
(* Targets are numbers; a larger target is easier.                         *)
(***************************************************************************)
EXTENDS Integers, Sequences, FiniteSets, SequencesExt

CONSTANTS
    Newcomer,       \* an SV1 connection that is followed from its start
    Veteran,        \* one that may be at work already
    Modes,          \* subset of BOOLEAN: is the translator aggregated?
    Vardiffs,       \* subset of BOOLEAN: is vardiff enabled?
    MaxQueued,      \* MAX_QUEUED_SV1_HANDSHAKE_MESSAGES
    MaxPast,        \* max_past_jobs of a job store
    MaxRoll,        \* keepalive intervals until MAX_FUTURE_BLOCK_TIME
    Targets,        \* share targets
    FirstTarget,    \* the target of min_individual_miner_hashrate
    MaxOpen,        \* bound on open requests
    MaxJob,         \* bound on upstream jobs
    MaxPrefix,      \* bound on upstream prefix changes
    MaxTip,         \* bound on chain tips
    MaxTarget,      \* bound on SetTarget and vardiff updates
    MaxKeepalive,   \* bound on keepalive ticks
    MaxShare,       \* bound on submitted shares
    MaxLoss,        \* bound on departures, refusals and upstream closes
    MaxEffort,      \* joint bound on all of the above but opens, for one miner
    MaxJointEffort  \* the same with both miners

VARIABLES
    conf,   \* [agg, vardiff]: the configuration
    srv,    \* where the server task is in the open-success handler
    tab,    \* the server's shared maps
    dn,     \* each miner's connection: DownstreamData, its event queue, its task
    cm,     \* the channel manager as the server sees it, and its message queue
    spent   \* what the exploration has used of each bound

Miners == {Newcomer, Veteran}

vars == <<conf, srv, tab, dn, cm, spent>>

Chans == 1..MaxOpen
Keys == 0..MaxOpen          \* 0 is AGGREGATED_CHANNEL_ID
NoMiner == "none"
NoJob == [n |-> 0, k |-> 0, p |-> 0, tip |-> 0]
Costs == {"job", "prefix", "tip", "target", "keepalive", "share", "loss"}
Bound(c) == CASE c = "job" -> MaxJob [] c = "prefix" -> MaxPrefix [] c = "tip" -> MaxTip
              [] c = "target" -> MaxTarget [] c = "keepalive" -> MaxKeepalive
              [] c = "share" -> MaxShare [] c = "loss" -> MaxLoss
\* A new tip and a new prefix come with a job.
Total == spent["job"] + spent["target"] + spent["keepalive"] + spent["share"] + spent["loss"]
Room(C) == (\A c \in C : spent[c] < Bound(c)) /\ Total < conf.effort
Spend(C) == spent' = [c \in Costs |-> IF c \in C THEN spent[c] + 1 ELSE spent[c]]

Setup == {"subscribe", "authorize"}
Requests == Setup \cup {"extranonce_subscribe", "submit"}

\* A connection nobody has made.
Vacant ==
    [reg |-> FALSE, sender |-> FALSE, task |-> "none", cut |-> FALSE, ch |-> 0, x1 |-> 0,
     told |-> {}, ready |-> FALSE, queued |-> <<>>, tgt |-> 0, ptgt |-> 0, up |-> 0,
     diff |-> 0, note |-> NoJob, noteClean |-> FALSE, ext |-> 0, pend |-> 0, anchor |-> FALSE,
     ctx |-> <<>>, acc |-> {}, supports |-> FALSE, ev |-> <<>>,
     view |-> [x |-> 0, diff |-> 0, job |-> NoJob]]

Gone == [Vacant EXCEPT !.task = "gone"]

NoTab == [req |-> [r \in Chans |-> NoMiner], route |-> [c \in Chans |-> NoMiner],
          vardiff |-> {}, parked |-> [d \in Miners |-> 0],
          prev |-> [k \in Keys |-> NoJob], jobs |-> [k \in Keys |-> <<>>]]

Idle == [at |-> "idle"]

\* A channel's adv is the prefix it was last told to use, 0 when it is not open.
NoCm == [asked |-> 0, opens |-> {}, adv |-> [c \in Chans |-> 0], px |-> 1, tip |-> 0,
         last |-> 0, act |-> [k \in Keys |-> NoJob], out |-> <<>>]

\* The power-of-two rounding of an advertised difficulty: the smallest power of
\* two that is at least t (the difficulty is rounded down).
Rounded(t) == CHOOSE r \in {1, 2, 4, 8} : r >= t /\ \A s \in {1, 2, 4, 8} : s >= t => r <= s

\* Nobody is connected: the veteran came and left before any job.
Alone ==
    /\ tab = NoTab
    /\ dn = [d \in Miners |-> IF d = Newcomer THEN Vacant ELSE Gone]
    /\ cm = NoCm

\* The veteran is at work on the first job, every queue is drained.
FirstJob == [n |-> 1, k |-> 0, p |-> 1, tip |-> 1]
AtWork ==
    [Vacant EXCEPT !.reg = TRUE, !.sender = TRUE, !.task = "run", !.ch = 1, !.x1 = 1,
                   !.told = Setup, !.ready = TRUE, !.tgt = FirstTarget, !.up = FirstTarget,
                   !.anchor = TRUE, !.supports = TRUE,
                   !.ctx = <<[job |-> FirstJob, x |-> 1, t |-> FirstTarget]>>,
                   !.view = [x |-> 1, diff |-> Rounded(FirstTarget), job |-> FirstJob]]
Joined ==
    LET k == IF conf.agg THEN 0 ELSE 1
    IN /\ tab = [NoTab EXCEPT !.route[1] = Veteran,
                              !.vardiff = IF conf.vardiff THEN {Veteran} ELSE {},
                              !.prev[k] = [NoJob EXCEPT !.n = 1, !.tip = 1],
                              !.jobs[k] = <<[job |-> FirstJob]>>]
       /\ dn = [d \in Miners |-> IF d = Newcomer THEN Vacant ELSE AtWork]
       /\ cm = [NoCm EXCEPT !.asked = 1, !.adv[1] = 1, !.tip = 1, !.last = 1,
                            !.act[k] = FirstJob]

Init ==
    /\ conf \in [agg : Modes, vardiff : Vardiffs, effort : {MaxEffort, MaxJointEffort}]
    /\ srv = Idle
    /\ IF conf.effort = MaxEffort THEN Alone ELSE Joined
    /\ spent = [c \in Costs |-> 0]

-----------------------------------------------------------------------------
(* Job store, routing and the SV1 protocol as pure functions.              *)

Key(c) == IF conf.agg THEN 0 ELSE c
Id(j) == <<j.n, j.k>>
Ids(s) == {Id(s[i].job) : i \in 1..Len(s)}

\* Sv1JobStore::activate: the last entry is the active job, the others the past
\* jobs of the same tip, oldest first; a clean job drops them all.
Activate(s, e, clean) ==
    LET kept == SelectSeq(s, LAMBDA o : Id(o.job) # Id(e.job))
        past == IF Len(kept) > MaxPast THEN SubSeq(kept, Len(kept) - MaxPast + 1, Len(kept))
                                       ELSE kept
    IN IF clean THEN <<e>> ELSE Append(past, e)

\* Sv1JobStore::active, through get_last_job.
LastJob(s) == IF s = <<>> THEN NoJob ELSE s[Len(s)].job

\* A send on the miner's Sv1ServerEvent channel; nothing once its sender is gone.
Queue(x, e) == IF x.sender THEN [x EXCEPT !.ev = Append(@, e)] ELSE x

\* Sv1SessionState::record_response: the response completes the setup.
Completes(x, q) == q \in Setup /\ x.told # Setup /\ x.told \cup {q} = Setup

\* handle_submit of a share of job j: its outcome is Accepted.  The server must still
\* keep the job, the miner's own context must exist, the extranonce of that
\* context must be the one hashed, and the hash must be new.
AcceptsShare(x, j) ==
    /\ x.ch # 0
    /\ Id(j) \in Ids(tab.jobs[Key(x.ch)])
    /\ Id(j) \in Ids(x.ctx)
    /\ \A i \in 1..Len(x.ctx) : Id(x.ctx[i].job) = Id(j) =>
          /\ x.ctx[i].x = x.view.x
          /\ x.ctx[i].t >= x.view.diff
    /\ Id(j) \notin x.acc

\* The response to a setup request reaches the miner; the one to subscribe tells it
\* its extranonce prefix (set_extranonce1), the one to authorize only a name.
Told(x, q) == [x EXCEPT !.told = @ \cup {q}]
Subscribed(x) == [Told(x, "subscribe") EXCEPT !.view.x = x.x1]
Authorized(x) == Told(x, "authorize")
ExtranonceSubscribed(x) == [x EXCEPT !.supports = TRUE]

\* insert_if_new of an accepted share.
Accepted(x, j) == [x EXCEPT !.acc = @ \cup {Id(j)}]

\* process_sv1_message for connection record x: the response reaches the miner,
\* then setup progress is recorded and its completion queued.
Process(x, q) ==
    CASE q \in Setup ->
           LET y == IF q = "subscribe" THEN Subscribed(x) ELSE Authorized(x)
           IN IF Completes(x, q) THEN Queue(y, [type |-> "setup"]) ELSE y
      [] q = "extranonce_subscribe" -> ExtranonceSubscribed(x)
      [] q = "submit" -> IF AcceptsShare(x, x.view.job) THEN Accepted(x, x.view.job) ELSE x

-----------------------------------------------------------------------------
(* The shared maps and the channel manager's channels.                     *)

\* CloseChannel sent to the channel manager, which releases the channel.
Release(k, C) == [k EXCEPT !.adv = [c \in Chans |-> IF c \in C THEN 0 ELSE @[c]]]

\* with_registered_downstream: what follows happens only to a miner still in the map.
Registered(d) == dn[d].reg

\* The vardiff half of handle_downstream_disconnect.
ForgetVardiff(t, d) == [t EXCEPT !.vardiff = @ \ {d}, !.parked[d] = 0]

\* Its removal of the miner's open requests.
ForgetRequests(t, d) == [t EXCEPT !.req = [r \in Chans |-> IF @[r] = d THEN NoMiner ELSE @[r]]]

\* Its removal of the miner's route.
ForgetRoute(t, c) == IF c = 0 THEN t ELSE [t EXCEPT !.route[c] = NoMiner]

\* handle_downstream_disconnect run by the server task itself (a Disconnect error):
\* the miner's task only touches the miner's own record meanwhile.  Removing the
\* event sender makes that task end once it has drained its queue.
ServerDisconnect(t, d, k) ==
    LET c == IF Registered(d) THEN dn[d].ch ELSE 0
    IN /\ tab' = ForgetRoute(ForgetRequests(ForgetVardiff(t, d), d), c)
       /\ dn' = [dn EXCEPT ![d].sender = FALSE, ![d].reg = FALSE]
       /\ cm' = Release(k, {c} \ {0})

-----------------------------------------------------------------------------
(* The server task: accept, miners' requests.                              *)

\* The accept branch of start: the sender and the connection are registered, the
\* miner's task spawned.
Accept(d) ==
    /\ srv = Idle /\ dn[d] = Vacant
    /\ dn' = [dn EXCEPT ![d] = [Vacant EXCEPT !.reg = TRUE, !.sender = TRUE,
                                              !.task = "run", !.tgt = FirstTarget]]
    /\ UNCHANGED <<conf, srv, tab, cm, spent>>

\* open_extended_mining_channel: the request goes to the channel manager.
SendOpen == cm' = [cm EXCEPT !.asked = @ + 1, !.opens = @ \cup {cm.asked + 1}]

\* handle_open_channel_request: a fresh request id is recorded, then sent.
OpenChannel(d) ==
    /\ tab' = [tab EXCEPT !.req[cm.asked + 1] = d]
    /\ SendOpen

\* A request a miner may send now: each setup request once, a share of a job it has.
MayAsk(d, q) ==
    /\ Registered(d)
    /\ q \notin dn[d].told /\ q \notin Range(dn[d].queued)
    /\ q = "extranonce_subscribe" => ~dn[d].supports
    /\ q = "submit" => Room({"share"})

CanStart(q) == q \in Setup

QueueFull(x) == Len(x.queued) >= MaxQueued

\* handle_downstream_message of the server: q of miner d.
HandleRequest(d, q) ==
    LET x == dn[d]
        opening == x.queued # <<>>
        rejected == q = "submit" /\ "subscribe" \notin x.told   \* NotSubscribed reply
        broken == x.ch # 0 /\ Completes(x, q) /\ ~x.sender
    IN /\ srv = Idle /\ MayAsk(d, q)
       /\ ~rejected
       /\ Spend(IF q = "submit" THEN {"share"} ELSE {})
       /\ IF \/ x.ch = 0 /\ ~opening /\ ~CanStart(q)
             \/ x.ch = 0 /\ QueueFull(x)
             \/ broken
          THEN ServerDisconnect(tab, d, cm)
          ELSE IF x.ch = 0
          THEN /\ opening \/ cm.asked < MaxOpen
               /\ dn' = [dn EXCEPT ![d].queued = Append(@, q)]
               /\ IF opening THEN UNCHANGED <<tab, cm>> ELSE OpenChannel(d)
          ELSE /\ dn' = [dn EXCEPT ![d] = Process(@, q)]
               /\ UNCHANGED <<tab, cm>>
       /\ UNCHANGED <<conf, srv>>

-----------------------------------------------------------------------------
(* The server task: messages of the channel manager.                       *)

Next1 == Head(cm.out)
Rest == [cm EXCEPT !.out = Tail(@)]
Handles(type) == srv = Idle /\ cm.out # <<>> /\ Next1.type = type

\* Mutant: an unclaimed success is only logged.
MutUnclaimed(c) == {}

\* The channel of a success whose request is unknown, closed unless it is routed.
Unclaimed(c) == IF tab.route[c] = NoMiner THEN {c} ELSE {}

\* OpenExtendedMiningChannelSuccess, first part: the request is claimed.
ClaimSuccess ==
    /\ Handles("success")
    /\ LET c == Next1.ch
           d == tab.req[c]
       IN IF d = NoMiner
          THEN /\ cm' = Release(Rest, Unclaimed(c))
               /\ UNCHANGED <<srv, tab>>
          ELSE /\ srv' = [at |-> "claimed", d |-> d, ch |-> c, p |-> Next1.p, t |-> Next1.t]
               /\ tab' = [tab EXCEPT !.req[c] = NoMiner]
               /\ cm' = Rest
    /\ UNCHANGED <<conf, dn, spent>>

\* Second part, under the entry guard of the downstream map: the connection takes the
\* channel and its queued requests, and the channel is routed; a miner that is
\* no longer registered makes the server close the channel.
RouteSuccess ==
    /\ srv.at = "claimed"
    /\ LET d == srv.d
           c == srv.ch
       IN IF ~Registered(d)
          THEN /\ cm' = Release(cm, {c})
               /\ srv' = Idle
               /\ UNCHANGED <<tab, dn>>
          ELSE /\ dn' = [dn EXCEPT ![d].x1 = srv.p, ![d].ch = c, ![d].up = srv.t,
                                   ![d].queued = <<>>]
               /\ tab' = [tab EXCEPT !.route[c] = d]
               /\ srv' = [at |-> "routed", d |-> d, q |-> dn[d].queued]
               /\ UNCHANGED cm
    /\ UNCHANGED <<conf, spent>>

\* Third part: vardiff registration, the queued requests in order, the first
\* difficulty.  A miner that left meanwhile makes the first response fail, and the
\* Disconnect error forgets it (and its vardiff entry) again.
FinishSuccess ==
    /\ srv.at = "routed"
    /\ LET d == srv.d
           t == [tab EXCEPT !.vardiff = IF conf.vardiff THEN @ \cup {d} ELSE @]
           y == FoldLeft(Process, dn[d], srv.q)
           lost == \/ ~Registered(d)
                   \/ y.told = Setup /\ dn[d].told # Setup /\ ~dn[d].sender
       IN IF lost
          THEN ServerDisconnect(t, d, cm)
          ELSE /\ tab' = t
               /\ dn' = [dn EXCEPT ![d] = Queue(y, [type |-> "difficulty",
                                                    t |-> Rounded(FirstTarget)])]
               /\ UNCHANGED cm
    /\ srv' = Idle
    /\ UNCHANGED <<conf, spent>>

\* OpenMiningChannelError: the miner it belongs to is disconnected.
HandleOpenError ==
    /\ Handles("error")
    /\ LET d == tab.req[Next1.ch]
       IN IF d = NoMiner
          THEN cm' = Rest /\ UNCHANGED <<tab, dn>>
          ELSE ServerDisconnect(tab, d, Rest)
    /\ UNCHANGED <<conf, srv, spent>>

\* The miners a job of channel c is sent to (send_to_channel): every connection for
\* the aggregated id, the owner of the channel otherwise.
Recipients(c) == IF c = 0 THEN Miners ELSE {tab.route[c]} \cap Miners

Notify(D, j, clean) ==
    dn' = [d \in Miners |->
             IF d \in D THEN Queue(dn[d], [type |-> "notify", job |-> j, clean |-> clean])
                        ELSE dn[d]]

\* A late joiner of the aggregated channel is given the shared job of the moment.
IsBootstrap(c) == conf.agg /\ c # 0 /\ tab.jobs[0] # <<>>

\* The job history after job j of channel c: a bootstrap leaves it alone, a clean job
\* of the channel itself resets it.
JobsAfter(c, j, clean) ==
    IF IsBootstrap(c) THEN tab.jobs[Key(c)]
    ELSE Activate(tab.jobs[Key(c)], [job |-> j], clean /\ (~conf.agg \/ c = 0))

\* NewExtendedMiningJob.
HandleJob ==
    /\ Handles("job")
    /\ LET c == Next1.ch
           k == Key(c)
           prev == tab.prev[k]
           clean == prev.n = Next1.n
           j == [n |-> Next1.n, k |-> 0, p |-> Next1.p, tip |-> prev.tip]
           current == LastJob(tab.jobs[k])
       IN IF prev = NoJob
          THEN UNCHANGED <<tab, dn>>
          ELSE /\ tab' = [tab EXCEPT !.jobs[k] = JobsAfter(c, j, clean)]
               /\ IF IsBootstrap(c)
                  THEN Notify(IF current.n = Next1.n THEN Recipients(c) ELSE {}, current, TRUE)
                  ELSE Notify(Recipients(c), j, clean)
    /\ cm' = Rest
    /\ UNCHANGED <<conf, srv, spent>>

\* SetNewPrevHash.
HandlePrevHash ==
    /\ Handles("prevhash")
    /\ tab' = [tab EXCEPT !.prev[Next1.ch] = [NoJob EXCEPT !.n = Next1.n, !.tip = Next1.tip]]
    /\ cm' = Rest
    /\ UNCHANGED <<conf, srv, dn, spent>>

\* disconnect_downstream_for_upstream_close.
HandleClose ==
    /\ Handles("close")
    /\ LET c == Next1.ch
           d == tab.route[c]
       IN /\ tab' = [tab EXCEPT !.route[c] = NoMiner]
          /\ dn' = [e \in Miners |->
                      IF e = d /\ Registered(e)
                      THEN [dn[e] EXCEPT !.ch = IF @ = c THEN 0 ELSE @, !.cut = TRUE]
                      ELSE dn[e]]
    /\ cm' = Rest
    /\ UNCHANGED <<conf, srv, spent>>

\* Mutant: the keepalive timer keeps running while a prefix change is queued.
MutAwaitPrefix(x) == [x EXCEPT !.pend = @ + 1]
AwaitPrefix(x) == [x EXCEPT !.pend = @ + 1, !.anchor = FALSE]

ApplyPrefix(x, p) == IF "subscribe" \in x.told THEN x ELSE [x EXCEPT !.x1 = p]

\* handle_upstream_extranonce_change.
HandlePrefix ==
    /\ Handles("prefix")
    /\ LET p == Next1.p
           d == tab.route[Next1.ch]
       IN IF d = NoMiner \/ (d # NoMiner /\ ~Registered(d))
          THEN cm' = Rest /\ UNCHANGED <<tab, dn>>
          ELSE IF ~dn[d].sender
          THEN ServerDisconnect(tab, d, Rest)
          ELSE /\ dn' = [dn EXCEPT ![d] =
                           Queue(ApplyPrefix(AwaitPrefix(@), p),
                                 [type |-> "prefix", p |-> p,
                                  notify |-> "subscribe" \in dn[d].told])]
               /\ cm' = Rest
               /\ UNCHANGED tab
    /\ UNCHANGED <<conf, srv, spent>>

-----------------------------------------------------------------------------
(* The server task: targets, vardiff and keepalives.                       *)

SetUpstreamTarget(x, t) == [x EXCEPT !.up = t]
SetPendingTarget(x, t) == [x EXCEPT !.ptgt = Rounded(t)]
SendDifficulty(x, t) == Queue(x, [type |-> "difficulty", t |-> Rounded(t)])

\* set_upstream_target and set_pending_target, then the SetDifficulty event.
Retarget(x, t) == SendDifficulty(SetPendingTarget(SetUpstreamTarget(x, t), t), t)

\* handle_set_target_without_vardiff: every miner with a channel in aggregated mode,
\* the channel's miner otherwise; a channel without a miner is closed.
SetTargetWithoutVardiff(k, t) ==
    LET D == IF conf.agg THEN {d \in Miners : dn[d].ch # 0} ELSE {tab.route[k]} \cap Miners
    IN /\ dn' = [d \in Miners |-> IF d \in D /\ Registered(d) THEN Retarget(dn[d], t) ELSE dn[d]]
       /\ cm' = Release(Rest, IF D = {} /\ ~conf.agg THEN {k} ELSE {})
       /\ UNCHANGED tab

\* Mutant: parked updates wait for a target strictly below the parked one.
MutApplicable(d, t) == tab.parked[d] > t

\* get_pending_difficulty_updates: the parked target the new upstream target allows.
Applicable(d, t) == tab.parked[d] >= t

\* handle_set_target_message with vardiff: the upstream target is recorded and the
\* parked difficulties it allows are sent.
SetTargetWithVardiff(k, t) ==
    LET D == IF conf.agg THEN Miners ELSE {tab.route[k]} \cap Miners
        free == {d \in D : Registered(d) /\ tab.parked[d] # 0 /\ Applicable(d, t)}
        set == [d \in Miners |-> IF d \in D /\ Registered(d) THEN SetUpstreamTarget(dn[d], t)
                                                               ELSE dn[d]]
    IN /\ dn' = [d \in Miners |-> IF d \in free THEN SendDifficulty(set[d], tab.parked[d])
                                                ELSE set[d]]
       /\ tab' = [tab EXCEPT !.parked = [d \in Miners |-> IF d \in free THEN 0 ELSE @[d]]]
       /\ cm' = Rest

HandleSetTarget ==
    /\ Handles("target")
    /\ IF conf.vardiff THEN SetTargetWithVardiff(Next1.ch, Next1.t)
                       ELSE SetTargetWithoutVardiff(Next1.ch, Next1.t)
    /\ UNCHANGED <<conf, srv, spent>>

\* A harder target than the upstream's waits for the upstream's SetTarget.
MustWait(x, t) == x.up # 0 /\ t < x.up

\* handle_vardiff_updates: the controller of miner d asks for target t.  The
\* UpdateChannel it sends is what the channel manager's SetTarget may answer.
VardiffUpdate(d, t) ==
    LET x == SetPendingTarget(dn[d], t)
    IN /\ srv = Idle /\ Room({"target"}) /\ Spend({"target"})
       /\ d \in tab.vardiff /\ Registered(d) /\ dn[d].ch # 0
       /\ IF MustWait(x, t)
          THEN /\ tab' = [tab EXCEPT !.parked[d] = t]
               /\ dn' = [dn EXCEPT ![d] = x]
          ELSE /\ tab' = [tab EXCEPT !.parked[d] = 0]
               /\ dn' = [dn EXCEPT ![d] = SendDifficulty(x, t)]
       /\ UNCHANGED <<conf, srv, cm>>

\* create_keepalive_job: the last job with its nTime rolled once more, up to the
\* future-time limit; NoJob when nothing can be rolled.
Rolled(k) ==
    LET j == LastJob(tab.jobs[k])
    IN IF j = NoJob \/ j.k >= MaxRoll THEN NoJob ELSE [j EXCEPT !.k = @ + 1]

\* The miners a keepalive may go to.
Eligible == {d \in Miners : Registered(d) /\ dn[d].ready /\ dn[d].anchor /\ dn[d].ch # 0}

\* send_keepalive_to_downstream.
SendKeepalive(D, j) ==
    dn' = [d \in Miners |->
             IF d \in D /\ j # NoJob
             THEN [Queue(dn[d], [type |-> "notify", job |-> j, clean |-> FALSE])
                     EXCEPT !.anchor = @ \/ dn[d].sender]
             ELSE dn[d]]

\* send_keepalive_jobs for the miners D whose interval elapsed.  Aggregated miners
\* share a job: it is rolled when the shared interval elapsed too, and a job that is
\* already a keepalive is handed on otherwise.
KeepaliveTick(D, elapsed) ==
    LET k == IF conf.agg THEN 0 ELSE dn[CHOOSE d \in D : TRUE].ch
        last == LastJob(tab.jobs[k])
        rolls == ~conf.agg \/ elapsed
        j == IF rolls THEN Rolled(k) ELSE IF last.k > 0 THEN last ELSE NoJob
    IN /\ srv = Idle /\ Room({"keepalive"}) /\ Spend({"keepalive"})
       /\ D # {} /\ (conf.agg \/ (Cardinality(D) = 1 /\ elapsed))
       /\ SendKeepalive(D, j)
       /\ tab' = IF rolls /\ j # NoJob
                 THEN [tab EXCEPT !.jobs[k] = Activate(@, [job |-> j], FALSE)] ELSE tab
       /\ UNCHANGED <<conf, srv, cm>>

-----------------------------------------------------------------------------
(* A miner's own task.                                                     *)

\* The target a job is validated with: the pending one when a difficulty goes with it.
JobTarget(x) == IF x.diff # 0 /\ x.ptgt # 0 THEN x.ptgt ELSE x.tgt

\* handle_error_action of the miner's task: a Disconnect error cancels its token.
Cut(x) == [x EXCEPT !.cut = TRUE]

\* record_job_validation_context of job j, with the prefix and target of the moment.
Remember(x, j, clean) ==
    [x EXCEPT !.ctx = Activate(@, [job |-> j, x |-> x.x1, t |-> x.tgt], clean),
              !.acc = IF clean THEN {} ELSE @,
              !.anchor = IF x.pend = 0 THEN TRUE ELSE @]

\* send_job: difficulty, then prefix, then job; a miner that cannot take the prefix
\* is disconnected instead.
SendJob(x, j, clean) ==
    IF x.ext # 0 /\ ~x.supports
    THEN Cut(x)
    ELSE [Remember([x EXCEPT !.tgt = JobTarget(x)], j, clean) EXCEPT
            !.ptgt = IF x.diff # 0 THEN 0 ELSE @,
            !.diff = 0, !.ext = 0,
            !.view = [x |-> IF x.ext # 0 THEN x.ext ELSE @.x,
                      diff |-> IF x.diff # 0 THEN x.diff ELSE @.diff,
                      job |-> j]]

\* Mutant: forwarding is only enabled along with a cached job.
MutEnableForwarding(x) ==
    IF x.ready \/ x.told # Setup \/ x.note = NoJob THEN x
    ELSE [SendJob([x EXCEPT !.note = NoJob], x.note, x.noteClean) EXCEPT !.ready = TRUE]

\* enable_notification_forwarding.
EnableForwarding(x) ==
    IF x.ready \/ x.told # Setup THEN x
    ELSE [(IF x.note = NoJob THEN x
           ELSE SendJob([x EXCEPT !.note = NoJob], x.note, x.noteClean)) EXCEPT !.ready = TRUE]

\* The SetExtranonce event.
PrefixArrives(x, e) ==
    [x EXCEPT !.pend = @ - 1,
              !.x1 = IF e.notify THEN e.p ELSE @,
              !.ext = IF e.notify THEN e.p ELSE @,
              !.note = NoJob]

\* The Notify event: sent when the session is ready, cached otherwise.
NotifyArrives(x, e) ==
    IF x.ready THEN SendJob(x, e.job, e.clean)
               ELSE [x EXCEPT !.note = e.job, !.noteClean = e.clean]

\* handle_sv1_server_message.
TaskEvent(d) ==
    /\ dn[d].task = "run" /\ dn[d].ev # <<>>
    /\ LET e == Head(dn[d].ev)
           x == [dn[d] EXCEPT !.ev = Tail(@)]
       IN dn' = [dn EXCEPT ![d] =
                   CASE e.type = "setup" -> EnableForwarding(x)
                     [] e.type = "difficulty" -> [x EXCEPT !.diff = e.t]
                     [] e.type = "prefix" -> PrefixArrives(x, e)
                     [] e.type = "notify" -> NotifyArrives(x, e)]
    /\ UNCHANGED <<conf, srv, tab, cm, spent>>

\* The miner closes its connection.
Leave(d) ==
    /\ dn[d].task = "run" /\ ~dn[d].cut /\ Room({"loss"})
    /\ dn' = [dn EXCEPT ![d].cut = TRUE]
    /\ Spend({"loss"})
    /\ UNCHANGED <<conf, srv, tab, cm>>

\* The task ends when its connection or its event channel has; it then runs
\* handle_downstream_disconnect: vardiff and the event sender first,
TaskEnds(d) ==
    /\ dn[d].task = "run"
    /\ dn[d].cut \/ (~dn[d].sender /\ dn[d].ev = <<>>)
    /\ tab' = ForgetVardiff(tab, d)
    /\ dn' = [dn EXCEPT ![d].task = "forget", ![d].cut = TRUE, ![d].sender = FALSE, ![d].ev = <<>>]
    /\ UNCHANGED <<conf, srv, cm, spent>>

\* then the connection and its open requests,
TaskForgets(d) ==
    /\ dn[d].task = "forget"
    /\ tab' = ForgetRequests(tab, d)
    /\ dn' = [dn EXCEPT ![d] = IF @.reg /\ @.ch # 0 THEN [@ EXCEPT !.reg = FALSE, !.task = "close"]
                                                    ELSE Gone]
    /\ UNCHANGED <<conf, srv, cm, spent>>

\* and at last the route and the channel.
TaskCloses(d) ==
    /\ dn[d].task = "close"
    /\ tab' = ForgetRoute(tab, dn[d].ch)
    /\ cm' = Release(cm, {dn[d].ch})
    /\ dn' = [dn EXCEPT ![d] = Gone]
    /\ UNCHANGED <<conf, srv, spent>>

-----------------------------------------------------------------------------
(* The channel manager, as TranslatorChannelManager shows it to behave.    *)

Opened == {c \in Chans : cm.adv[c] # 0}
Emit(k, msgs) == [k EXCEPT !.out = @ \o msgs]
JobMsg(c, j) == [type |-> "job", ch |-> c, n |-> j.n, p |-> j.p]

\* An open request succeeds with a fresh channel; a late joiner of the aggregated
\* channel takes the prefix of the active job and is sent that job.
CmSuccess(r) ==
    LET late == conf.agg /\ cm.act[0] # NoJob
        p == IF late THEN cm.act[0].p ELSE cm.px
    IN /\ r \in cm.opens
       /\ cm' = Emit([cm EXCEPT !.opens = @ \ {r}, !.adv[r] = p],
                     <<[type |-> "success", ch |-> r, p |-> p, t |-> FirstTarget]>>
                       \o (IF late THEN <<JobMsg(r, cm.act[0])>> ELSE <<>>))
       /\ UNCHANGED <<conf, srv, tab, dn, spent>>

CmError(r) ==
    /\ r \in cm.opens /\ Room({"loss"}) /\ Spend({"loss"})
    /\ cm' = Emit([cm EXCEPT !.opens = @ \ {r}], <<[type |-> "error", ch |-> r]>>)
    /\ UNCHANGED <<conf, srv, tab, dn>>

\* A job for channel k (0: the aggregated channel), perhaps with a new prefix and
\* perhaps on a new tip.
CmJob(k, cost) ==
    LET C == IF conf.agg THEN Opened ELSE {k}
        px == IF "prefix" \in cost THEN cm.px + 1 ELSE cm.px
        p == IF conf.agg \/ "prefix" \in cost THEN px ELSE cm.adv[k]
        tip == IF "tip" \in cost THEN cm.tip + 1 ELSE cm.tip
        j == [n |-> cm.last + 1, k |-> 0, p |-> p, tip |-> tip]
        prefixes == SetToSeq({[type |-> "prefix", ch |-> c, p |-> p] :
                                 c \in {e \in C : cm.adv[e] # p}})
    IN /\ Room(cost) /\ Spend(cost)
       /\ IF conf.agg THEN k = 0 /\ Opened # {} ELSE k \in Opened
       /\ "tip" \in cost \/ cm.act[k] # NoJob
       /\ cm' = Emit([cm EXCEPT !.px = px, !.tip = tip, !.last = @ + 1, !.act[k] = j,
                                !.adv = [c \in Chans |-> IF c \in C THEN p ELSE @[c]]],
                     (IF "tip" \in cost
                      THEN <<[type |-> "prevhash", ch |-> k, n |-> j.n, tip |-> tip]>> ELSE <<>>)
                       \o prefixes \o <<JobMsg(k, j)>>)
       /\ UNCHANGED <<conf, srv, tab, dn>>

CmTarget(k, t) ==
    /\ Room({"target"}) /\ Spend({"target"})
    /\ IF conf.agg THEN k = 0 /\ Opened # {} ELSE k \in Opened
    /\ cm' = Emit(cm, <<[type |-> "target", ch |-> k, t |-> t]>>)
    /\ UNCHANGED <<conf, srv, tab, dn>>

\* The upstream closes a channel; closing the aggregated one is a fallback instead.
CmClose(c) ==
    /\ ~conf.agg /\ c \in Opened /\ Room({"loss"}) /\ Spend({"loss"})
    /\ cm' = Emit([cm EXCEPT !.adv[c] = 0], <<[type |-> "close", ch |-> c]>>)
    /\ UNCHANGED <<conf, srv, tab, dn>>

\* Shutdown or fallback: cleanup of the server, and every miner's task ends.
Cleanup ==
    /\ srv.at # "down"
    /\ srv' = [at |-> "down"]
    /\ tab' = NoTab
    /\ dn' = [d \in Miners |-> Gone]
    /\ cm' = NoCm
    /\ spent' = [c \in Costs |-> 0]
    /\ UNCHANGED conf

HandleUpstream ==
    \/ ClaimSuccess \/ HandleOpenError \/ HandleJob \/ HandlePrevHash
    \/ HandleClose \/ HandlePrefix \/ HandleSetTarget

TaskStep(d) == TaskEvent(d) \/ TaskEnds(d) \/ TaskForgets(d) \/ TaskCloses(d)

Next ==
    \/ \E d \in Miners :
         \/ Accept(d)
         \/ \E q \in Requests : HandleRequest(d, q)
         \/ \E t \in Targets : VardiffUpdate(d, t)
         \/ Leave(d)
         \/ TaskEvent(d) \/ TaskEnds(d) \/ TaskForgets(d) \/ TaskCloses(d)
    \/ RouteSuccess \/ FinishSuccess
    \/ ClaimSuccess \/ HandleOpenError \/ HandleJob \/ HandlePrevHash
    \/ HandleClose \/ HandlePrefix \/ HandleSetTarget
    \/ \E D \in SUBSET Eligible, b \in BOOLEAN : KeepaliveTick(D, b)
    \/ \E r \in Chans : CmSuccess(r) \/ CmError(r) \/ CmClose(r)
    \/ \E k \in Keys : \/ \E cost \in SUBSET {"prefix", "tip"} : CmJob(k, cost \cup {"job"})
                       \/ \E t \in Targets : CmTarget(k, t)
    \/ Cleanup

\* The server and the miners' tasks run on; the channel manager answers every open
\* request (EveryRequestAnswered of TranslatorChannelManager).
Spec ==
    /\ Init /\ [][Next]_vars
    /\ WF_vars(HandleUpstream)
    /\ WF_vars(RouteSuccess \/ FinishSuccess)
    /\ \A d \in Miners : WF_vars(TaskStep(d))
    /\ WF_vars(\E r \in Chans : CmSuccess(r))

-----------------------------------------------------------------------------
(* Properties.                                                             *)

TypeOK ==
    /\ srv.at \in {"idle", "claimed", "routed", "down"}
    /\ \A d \in Miners :
         /\ dn[d].task \in {"none", "run", "forget", "close", "gone"}
         /\ dn[d].told \subseteq Setup
         /\ Len(dn[d].queued) <= MaxQueued
         /\ dn[d].pend \in 0..MaxPrefix
         /\ Len(dn[d].ctx) <= MaxPast + 1
    /\ \A k \in Keys : Len(tab.jobs[k]) <= MaxPast + 1
    /\ tab.vardiff \subseteq Miners

Serving(d) == dn[d].task = "run" /\ dn[d].reg /\ ~dn[d].cut

\* A miner hashes every job with the extranonce prefix the channel built it for, and the
\* server validates its shares of that job with the same prefix: through the
\* subscribe response, set_extranonce, cached jobs and keepalives (send_job,
\* handle_upstream_extranonce_change).
MinerHashesPrefix ==
    \A d \in Miners : Serving(d) /\ dn[d].view.job # NoJob =>
        /\ dn[d].view.x = dn[d].view.job.p
        /\ \E i \in 1..Len(dn[d].ctx) : /\ Id(dn[d].ctx[i].job) = Id(dn[d].view.job)
                                        /\ dn[d].ctx[i].x = dn[d].view.x

\* No job reaches a miner before both its setup responses (enable_notification_forwarding).
NoJobBeforeSetup ==
    \A d \in Miners : dn[d].view.job # NoJob => dn[d].told = Setup

\* While the server has not moved to another tip, the job a miner works on is one the
\* server still finds: neither a late joiner's bootstrap nor another miner's
\* keepalive removes it from the shared history (handle_submit, JobNotFound).
WorkFindsItsJob ==
    \A d \in Miners :
        LET k == Key(dn[d].ch)
        IN Serving(d) /\ dn[d].ch # 0 /\ dn[d].view.job # NoJob
             /\ dn[d].view.job.tip = LastJob(tab.jobs[k]).tip
           => \/ Id(dn[d].view.job) \in Ids(tab.jobs[k])
              \/ Len(tab.jobs[k]) = MaxPast + 1

\* A miner's shares are checked for the work it really does: a job it got after
\* its setup, hashed with the prefix the server assumes, and still known.
WorkIsChecked == NoJobBeforeSetup /\ MinerHashesPrefix /\ WorkFindsItsJob

\* A difficulty is parked only while it is harder than the target the upstream
\* accepts: the SetTarget that allows it also releases it.
ParkedStillHarder ==
    \A d \in Miners : Serving(d) /\ tab.parked[d] # 0 => tab.parked[d] < dn[d].up

\* A miner waiting with its handshake for a channel has an open request under way, so
\* that its queue is never stranded.
WaitingHasRequest ==
    \A d \in Miners : Serving(d) /\ dn[d].queued # <<>> =>
        \/ \E r \in Chans : tab.req[r] = d
        \/ srv.at = "claimed" /\ srv.d = d

\* Nothing is parked for good: a handshake waits only for a request under way,
\* in a queue within its bound, and a difficulty only for a target to come.
NothingStranded == TypeOK /\ WaitingHasRequest /\ ParkedStillHarder

\* A miner that waits for its channel, or for its setup to take effect, is served or
\* dropped: its queued handshake is answered and job forwarding gets enabled.
HandshakePending ==
    /\ Serving(Newcomer)
    /\ dn[Newcomer].queued # <<>> \/ (dn[Newcomer].told = Setup /\ ~dn[Newcomer].ready)
HandshakeCompletes == HandshakePending ~> ~HandshakePending

\* A channel the channel manager opened ends up with a registered miner or closed,
\* however its success, the miner's departure and the cleanup interleave.
Orphan(c) == cm.adv[c] # 0 /\ ~ \E d \in Miners : tab.route[c] = d /\ dn[d].reg
OrphansClosed == (\E c \in Chans : Orphan(c)) ~> (\A c \in Chans : ~Orphan(c))

\* Every job is validated with the target of the difficulty the miner was told.
ValidatesAdvertisedTarget ==
    \A d \in Miners : Serving(d) /\ dn[d].view.job # NoJob /\ dn[d].view.diff # 0 =>
        \A i \in 1..Len(dn[d].ctx) :
            Id(dn[d].ctx[i].job) = Id(dn[d].view.job) => dn[d].ctx[i].t = dn[d].view.diff

=============================================================================
