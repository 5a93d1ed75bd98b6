------------------------- MODULE PoolChannelManager -------------------------
(* The pool's channel manager (channel_manager/), the connection task of     *)
(* every downstream (downstream/) and the maps they share: `downstreams`,    *)
(* `downstream_sender`, `vardiff`, and the last future template and previous *)
(* hash received from the template provider.                                 *)
(*                                                                           *)
(* The channel manager is one task: a handler runs to its end before the     *)
(* next, none of them suspends, and so a handler that works under the guard  *)
(* of one `downstreams` entry is one step.  What it does share with the      *)
(* connection tasks is interleaved: the walk of a template over all entries, *)
(* the three removals of `remove_downstream`, the two lookups around the     *)
(* call to the job declarator, and on the other side the two reads and two   *)
(* inserts of a new connection.                                              *)
(*                                                                           *)
(* A job is the template it was built from and the payout its coinbase pays. *)
(* `GroupChannel`, `StandardChannel` and `ExtendedChannel` come from the     *)
(* channels_sv2 crate and are modelled by how the pool uses them.            *)
EXTENDS Naturals, Sequences, FiniteSets, Folds

CONSTANTS
    Miners,        \* downstream ids
    MinerFlags,    \* SetupConnection flags each miner may ask for
    Payouts,       \* the coinbase outputs a user identity may stand for
    PoolPayout,    \* the outputs of PayoutMode::FullDonation
    Targets,
    JdsPresent,    \* is a job declarator embedded in the pool?
    MaxTemplate,   \* bound on template ids
    MaxChannel,    \* bound on the channel ids of a connection
    Capacity       \* extranonce prefixes the allocator can hand out

\* A connection without a payout mode (None).
NoPayout == "none"

ASSUME PoolPayoutAssumption == PoolPayout \in Payouts /\ NoPayout \notin Payouts
ASSUME BoundsAssumption ==
    /\ MaxTemplate \in Nat
    /\ MaxChannel \in Nat \ {0}
    /\ Capacity \in Nat

Group == 1
ChannelIds == 2..MaxChannel
Templates == 1..MaxTemplate

NoJob == [t |-> 0, p |-> NoPayout]
CustomJob == [t |-> 0, p |-> "custom"]
Jobs == [t : Templates, p : Payouts]

VARIABLES
    tp,             \* template provider: last id sent, future template not yet activated
    lastFuture,     \* last_future_template (0: none)
    lastPrevHash,   \* template id of last_new_prev_hash (0: none)
    downstreams,    \* keys of `downstreams`
    senders,        \* keys of `downstream_sender`
    vardiff,        \* keys of `vardiff`
    dn,             \* the Downstream record of each miner
    conn,           \* where each connection task is
    seen,           \* what a connecting task has read for its bootstrap
    spoken,         \* miners whose SetupConnection was accepted
    cm,             \* what the channel manager task is doing
    miner,          \* what each miner was told
    solved,         \* last block submitted: its job, and the policy of the connection
    cancelled       \* the pool's cancellation token

poolState == <<tp, lastFuture, lastPrevHash>>
maps == <<downstreams, senders, vardiff>>
vars == <<tp, lastFuture, lastPrevHash, downstreams, senders, vardiff, dn, conn,
          seen, spoken, cm, miner, solved, cancelled>>

----------------------------------------------------------------------------
(* Channels of channels_sv2, as the pool uses them.                          *)

NoJobs == [active |-> NoJob, future |-> {}, past |-> {}, tip |-> 0]

AddJob(js, job, future) ==
    IF future
      THEN [js EXCEPT !.future = @ \cup {job}]
      ELSE [js EXCEPT !.past = @ \cup ({js.active} \ {NoJob}), !.active = job]

\* on_set_new_prev_hash fails when the template is not among the future jobs.
KnowsTemplate(js, t) == \E j \in js.future : j.t = t
Activate(js, t) ==
    [active |-> CHOOSE j \in js.future : j.t = t, future |-> {}, past |-> {}, tip |-> t]

\* An extended channel without future jobs only moves its tip.
MoveTip(js, t) == [js EXCEPT !.tip = t, !.past = {}]

----------------------------------------------------------------------------
(* Messages to a miner, and what a miner concludes from them.                *)

OpenSuccess(c, x) == [type |-> "open", ch |-> c, target |-> x]
NewJob(c, job, future) == [type |-> "job", ch |-> c, job |-> job, future |-> future]
NewPrevHash(c, job) == [type |-> "prevhash", ch |-> c, job |-> job]
SetTarget(c, x) == [type |-> "target", ch |-> c, target |-> x]
CustomSuccess(c) == [type |-> "custom", ch |-> c]
CloseChannelMsg(c) == [type |-> "close", ch |-> c]

Addressed(v, c) == IF c = Group THEN v.open ELSE {c}

Deliver(v, m) ==
    LET cs == Addressed(v, m.ch)
        Mine(job) == [c \in ChannelIds |-> IF c \in cs THEN job ELSE v.mines[c]]
    IN CASE m.type = "open" ->
              [v EXCEPT !.open = @ \cup {m.ch}, !.target[m.ch] = m.target]
         [] m.type = "job" ->
              [v EXCEPT !.known = @ \cup {<<c, m.job>> : c \in cs},
                        !.mines = IF m.future THEN @ ELSE Mine(m.job)]
         [] m.type = "prevhash" ->
              [v EXCEPT !.stray = @ \/ \E c \in cs : <<c, m.job>> \notin v.known,
                        !.known = {k \in @ : k[1] \notin cs},
                        !.mines = Mine(m.job)]
         [] m.type = "target" -> [v EXCEPT !.target[m.ch] = m.target]
         [] m.type = "custom" -> [v EXCEPT !.mines = Mine(CustomJob)]
         [] m.type = "close" -> [v EXCEPT !.open = @ \ {m.ch}, !.mines = Mine(NoJob)]

\* Messages are read in order; those of one walk for different channels are in any.
DeliverAll(v, ms) ==
    MapThenFoldSet(LAMBDA m, w : Deliver(w, m), v, LAMBDA i : ms[i],
                   LAMBDA S : CHOOSE i \in S : \A j \in S : j <= i, DOMAIN ms)
InAnyOrder(S) ==
    CHOOSE ms \in [1..Cardinality(S) -> S] : \A m \in S : \E i \in DOMAIN ms : ms[i] = m

\* RouteMessageTo::forward: a message for a connection without a sender is dropped.
Forward(d, ms) ==
    miner' = IF d \in senders
               THEN [miner EXCEPT ![d] = DeliverAll(@, ms)]
               ELSE miner

\* The messages a walk collected, delivered once the walk is over.
ForwardAll(out) ==
    miner' = [d \in Miners |->
                IF d \in senders THEN DeliverAll(miner[d], out[d]) ELSE miner[d]]

----------------------------------------------------------------------------
(* The channel manager task.                                                 *)

Idle == [op |-> "idle"]
Stopped == [op |-> "stopped"]
NoMessages == [d \in Miners |-> <<>>]

\* Mutant: other messages are handled while a custom job is with the declarator.
CmReadyReentrant == cm.op \in {"idle", "custom"} /\ ~cancelled
CmReady == cm.op = "idle" /\ ~cancelled

\* handle_error_action: Shutdown cancels the token and ends the loop.
ErrorShutdown ==
    /\ cancelled' = TRUE
    /\ cm' = [op |-> "closing"]

\* handle_error_action: Disconnect removes the downstream and goes on.
ErrorDisconnect(d) ==
    /\ cm' = [op |-> "remove", d |-> d, step |-> 1]
    /\ UNCHANGED cancelled

\* Mutant: the loop only ends by seeing the token between two messages.
CmCloseWhenIdle ==
    /\ cm.op = "idle" /\ cancelled
    /\ cm' = Stopped
    /\ senders' = {}
    /\ UNCHANGED <<poolState, downstreams, vardiff, dn, conn, seen, spoken, miner,
                   solved, cancelled>>

\* The loop ended: ChannelManagerIo::close drops every sender.
CmClose ==
    /\ cm.op = "closing" \/ (cm.op = "idle" /\ cancelled)
    /\ cm' = Stopped
    /\ senders' = {}
    /\ UNCHANGED <<poolState, downstreams, vardiff, dn, conn, seen, spoken, miner,
                   solved, cancelled>>

\* Mutant: the sender goes first, the entry of `downstreams` last.
RemoveStepReversed(d, step) ==
    /\ downstreams' = IF step = 3 THEN downstreams \ {d} ELSE downstreams
    /\ vardiff' = IF step = 2 THEN {k \in vardiff : k[1] # d} ELSE vardiff
    /\ senders' = IF step = 1 THEN senders \ {d} ELSE senders

\* remove_downstream: three maps, in this order.
RemoveStep(d, step) ==
    /\ downstreams' = IF step = 1 THEN downstreams \ {d} ELSE downstreams
    /\ vardiff' = IF step = 2 THEN {k \in vardiff : k[1] # d} ELSE vardiff
    /\ senders' = IF step = 3 THEN senders \ {d} ELSE senders

CmRemove ==
    /\ cm.op = "remove"
    /\ RemoveStep(cm.d, cm.step)
    /\ cm' = IF cm.step < 3 THEN [cm EXCEPT !.step = @ + 1] ELSE Idle
    /\ UNCHANGED <<poolState, dn, conn, seen, spoken, miner, solved, cancelled>>

----------------------------------------------------------------------------
NewDownstream ==
    [std |-> FALSE, custom |-> FALSE, payout |-> NoPayout, next |-> 2,
     group |-> NoJobs, members |-> {}, chans |-> [c \in {} |-> NoJobs]]

NewMiner ==
    [open |-> {}, known |-> {}, stray |-> FALSE,
     mines |-> [c \in ChannelIds |-> NoJob],
     target |-> [c \in ChannelIds |-> CHOOSE x \in Targets : TRUE]]

----------------------------------------------------------------------------
(* Connection tasks: start_downstream_server and Downstream::start.          *)

ConnUnchanged == UNCHANGED <<poolState, spoken, cm, miner, solved>>
Goto(d, pc) == conn' = [conn EXCEPT ![d] = pc]

\* The server accepts once both a template and a previous hash are there;
\* the connection's task reads the template first.
Accept(d) ==
    /\ ~cancelled
    /\ conn[d] = "absent" /\ lastFuture # 0 /\ lastPrevHash # 0
    /\ seen' = [seen EXCEPT ![d].template = lastFuture]
    /\ Goto(d, "read")
    /\ ConnUnchanged /\ UNCHANGED <<maps, dn, cancelled>>

ReadPrevHash(d) ==
    /\ conn[d] = "read"
    /\ seen' = [seen EXCEPT ![d].prevHash = lastPrevHash]
    /\ Goto(d, "bootstrap")
    /\ ConnUnchanged /\ UNCHANGED <<maps, dn, cancelled>>

\* bootstrap_group_channel: a failure cancels the token of the whole pool.
BootstrapGroupChannel(d) ==
    /\ conn[d] = "bootstrap"
    /\ LET js == AddJob(NoJobs, [t |-> seen[d].template, p |-> PoolPayout], TRUE)
       IN IF KnowsTemplate(js, seen[d].prevHash)
            THEN /\ dn' = [dn EXCEPT ![d].group = Activate(js, seen[d].prevHash)]
                 /\ Goto(d, "built")
                 /\ UNCHANGED cancelled
            ELSE /\ cancelled' = TRUE
                 /\ Goto(d, "gone")
                 /\ UNCHANGED dn
    /\ ConnUnchanged /\ UNCHANGED <<maps, seen>>

InsertSender(d) ==
    /\ conn[d] = "built"
    /\ senders' = senders \cup {d}
    /\ Goto(d, "sender")
    /\ ConnUnchanged /\ UNCHANGED <<downstreams, vardiff, dn, seen, cancelled>>

InsertDownstream(d) ==
    /\ conn[d] = "sender"
    /\ downstreams' = downstreams \cup {d}
    /\ Goto(d, "setup")
    /\ ConnUnchanged /\ UNCHANGED <<senders, vardiff, dn, seen, cancelled>>

\* setup_connection_with_downstream: the first message must be a SetupConnection.
SetupRefused(d) == Goto(d, "closing") /\ UNCHANGED <<dn, spoken>>

\* handle_setup_connection: another protocol or version ends the connection.
SetupConnection(d) ==
    /\ conn[d] = "setup"
    /\ \/ \E flags \in MinerFlags[d] :
             /\ dn' = [dn EXCEPT ![d].std = "std" \in flags, ![d].custom = "custom" \in flags]
             /\ spoken' = spoken \cup {d}
             /\ Goto(d, "running")
       \/ SetupRefused(d)
    /\ UNCHANGED <<poolState, maps, seen, cm, miner, solved, cancelled>>

\* handle_error_action of a connection's task: Disconnect ends its loop, and it
\* alone; a failed send to a channel manager that stopped comes after the token.
ConnectionEnds(d) ==
    /\ conn[d] = "running"
    /\ Goto(d, "closing")
    /\ ConnUnchanged /\ UNCHANGED <<maps, dn, seen, cancelled>>

\* handle_downstream_message: the peer left or sent a frame that does not parse.
PeerLeaves(d) == d \in spoken /\ ConnectionEnds(d)

\* handle_request_extensions: a required extension was not requested.
ExtensionsRefused(d) == d \in spoken /\ ConnectionEnds(d)

\* handle_channel_manager_message: the channel manager dropped the sender.
SenderDropped(d) == d \notin senders /\ ConnectionEnds(d)

\* Downstream::start sees the token.
StopSeen(d) == cancelled /\ ConnectionEnds(d)

\* on_disconnect.
ClosingStep == [closing |-> 1, removing2 |-> 2, removing3 |-> 3]
ClosingNext == <<"removing2", "removing3", "gone">>
OnDisconnect(d) ==
    /\ conn[d] \in DOMAIN ClosingStep
    /\ RemoveStep(d, ClosingStep[conn[d]])
    /\ Goto(d, ClosingNext[ClosingStep[conn[d]]])
    /\ dn' = IF conn[d] = "removing3" THEN [dn EXCEPT ![d] = NewDownstream] ELSE dn
    /\ ConnUnchanged /\ UNCHANGED <<seen, cancelled>>

----------------------------------------------------------------------------
(* Template handlers: NewTemplate and SetNewPrevHash walk over the entries   *)
(* of `downstreams`, then forward what they collected.                       *)

\* What a walk has to visit are the entries there when it starts; an entry
\* inserted behind its back may or may not be visited.
StartWalk(what, t, future) ==
    cm' = [op |-> "walk", what |-> what, t |-> t, future |-> future,
           todo |-> downstreams, done |-> {}, out |-> NoMessages]


Remembers(t, future) == lastFuture' = IF future THEN t ELSE lastFuture

HandleNewTemplate ==
    /\ CmReady
    /\ tp.sent < MaxTemplate /\ tp.pending = 0
    /\ \E future \in IF lastPrevHash = 0 THEN {TRUE} ELSE BOOLEAN :
          LET t == tp.sent + 1
          IN /\ tp' = [sent |-> t, pending |-> IF future THEN t ELSE 0]
             /\ Remembers(t, future)
             /\ StartWalk("template", t, future)
    /\ UNCHANGED <<lastPrevHash, maps, dn, conn, seen, spoken, miner, solved, cancelled>>

HandleSetNewPrevHash ==
    /\ CmReady
    /\ tp.pending # 0
    /\ tp' = [tp EXCEPT !.pending = 0]
    /\ lastPrevHash' = tp.pending
    /\ StartWalk("prevhash", tp.pending, FALSE)
    /\ UNCHANGED <<lastFuture, maps, dn, conn, seen, spoken, miner, solved, cancelled>>

\* The coinbase outputs of a template for a downstream: its payout mode's, or
\* the pool's while it has none.
\* Mutant: always the pool's.
OutputsAlwaysPool(r) == PoolPayout
OutputsFor(r) == IF r.payout = NoPayout THEN PoolPayout ELSE r.payout

WithJob(ch, job) == [ch EXCEPT !.jobs = AddJob(@, job, cm.future)]
WithPrevHash(ch) == [ch EXCEPT !.jobs = Activate(@, cm.t)]

\* A new template at one downstream: the group channel makes a job, every
\* channel takes the group's job, or, under REQUIRES_STANDARD_JOBS, makes and
\* announces its own.
TemplateAt(r) ==
    LET job == [t |-> cm.t, p |-> OutputsFor(r)]
    IN [r EXCEPT !.group = AddJob(@, job, cm.future),
                 !.chans = [c \in DOMAIN @ |-> WithJob(@[c], job)]]

TemplateMessages(r) ==
    LET job == [t |-> cm.t, p |-> OutputsFor(r)]
    IN IF r.std
         THEN InAnyOrder({NewJob(c, job, cm.future) : c \in DOMAIN r.chans})
         ELSE IF r.members # {} THEN <<NewJob(Group, job, cm.future)>> ELSE <<>>

\* A new previous hash at one downstream.
PrevHashFails(r) ==
    ~KnowsTemplate(r.group, cm.t)
    \/ \E c \in DOMAIN r.chans : ~KnowsTemplate(r.chans[c].jobs, cm.t)

PrevHashAt(r) ==
    [r EXCEPT !.group = Activate(@, cm.t),
              !.chans = [c \in DOMAIN @ |-> WithPrevHash(@[c])]]

PrevHashMessages(r) ==
    IF r.std
      THEN InAnyOrder({NewPrevHash(c, Activate(r.chans[c].jobs, cm.t).active)
                       : c \in DOMAIN r.chans})
      ELSE IF r.members # {}
             THEN <<NewPrevHash(Group, Activate(r.group, cm.t).active)>>
             ELSE <<>>

Visited(d) == [cm EXCEPT !.todo = @ \ {d}, !.done = @ \cup {d}]

\* A downstream that requires custom work is skipped.
WalkVisit(d) ==
    /\ cm.op = "walk"
    /\ d \in downstreams \ cm.done
    /\ LET r == dn[d]
       IN IF r.custom
            THEN cm' = Visited(d) /\ UNCHANGED <<dn, cancelled>>
          ELSE IF cm.what = "template"
            THEN /\ dn' = [dn EXCEPT ![d] = TemplateAt(r)]
                 /\ cm' = [Visited(d) EXCEPT !.out[d] = TemplateMessages(r)]
                 /\ UNCHANGED cancelled
          ELSE IF PrevHashFails(r)
            THEN ErrorShutdown /\ UNCHANGED dn
          ELSE /\ dn' = [dn EXCEPT ![d] = PrevHashAt(r)]
               /\ cm' = [Visited(d) EXCEPT !.out[d] = PrevHashMessages(r)]
               /\ UNCHANGED cancelled
    /\ UNCHANGED <<poolState, maps, conn, seen, spoken, miner, solved>>

WalkEnd ==
    /\ cm.op = "walk"
    /\ cm.todo \cap downstreams = {}
    /\ ForwardAll(cm.out)
    /\ cm' = Idle
    /\ UNCHANGED <<poolState, maps, dn, conn, seen, spoken, solved, cancelled>>

----------------------------------------------------------------------------
(* Mining messages.  with_registered_downstream disconnects a client whose   *)
(* entry is gone; otherwise the handler works under the entry's guard.  Its  *)
(* replies are forwarded after the guard, which can only lose them to a      *)
(* connection that is leaving.  A reply that reports an error changes        *)
(* nothing.  The template and previous hash are never absent here: the       *)
(* server accepts nobody before it has both.                                 *)

Takes(d) == CmReady /\ d \in spoken
Serves(d) == Takes(d) /\ d \in downstreams

UnregisteredDownstream(d) ==
    /\ Takes(d) /\ d \notin downstreams
    /\ ErrorDisconnect(d)
    /\ UNCHANGED <<poolState, maps, dn, conn, seen, spoken, miner, solved>>

Allocated == {k \in Miners \X ChannelIds : k[2] \in DOMAIN dn[k[1]].chans}

PayoutIsCompatible(r, p) == r.payout = NoPayout \/ r.payout = p

OpenRefused(r, kind, p) ==
    \/ kind = "std" /\ r.custom
    \/ kind = "ext" /\ r.std
    \/ ~PayoutIsCompatible(r, p)
    \/ Cardinality(Allocated) >= Capacity

WithChannel(r, c, channel, p, grouped) ==
    [r EXCEPT !.next = c + 1,
              !.payout = p,
              !.members = IF grouped THEN @ \cup {c} ELSE @,
              !.chans = [k \in DOMAIN @ \cup {c} |-> IF k = c THEN channel ELSE @[k]]]

\* A channel that mines the pool's templates gets the last future template and
\* the last previous hash, which must belong to it.
OpenWithTemplate(d, kind, p) ==
    LET r == dn[d]
        c == r.next
        js == AddJob(NoJobs, [t |-> lastFuture, p |-> p], TRUE)
    IN IF KnowsTemplate(js, lastPrevHash)
         THEN \E x \in Targets :
                /\ dn' = [dn EXCEPT ![d] =
                            WithChannel(r, c, [kind |-> kind, target |-> x,
                                               jobs |-> Activate(js, lastPrevHash)],
                                        p, ~r.std)]
                /\ vardiff' = vardiff \cup {<<d, c>>}
                /\ Forward(d, <<OpenSuccess(c, x), NewJob(c, [t |-> lastFuture, p |-> p], TRUE),
                                NewPrevHash(c, [t |-> lastFuture, p |-> p])>>)
                /\ UNCHANGED <<cm, cancelled>>
         ELSE /\ dn' = [dn EXCEPT ![d].next = @ + 1]
              /\ ErrorShutdown
              /\ UNCHANGED <<vardiff, miner>>

\* A channel for custom work only follows the previous hash, outside the group.
OpenForCustomWork(d, p) ==
    LET r == dn[d]
        c == r.next
    IN \E x \in Targets :
         /\ dn' = [dn EXCEPT ![d] =
                     WithChannel(r, c, [kind |-> "ext", target |-> x,
                                        jobs |-> MoveTip(NoJobs, lastPrevHash)], p, FALSE)]
         /\ vardiff' = vardiff \cup {<<d, c>>}
         /\ Forward(d, <<OpenSuccess(c, x)>>)
         /\ UNCHANGED <<cm, cancelled>>

\* The hash rate or target asked for is invalid: the channel id is used up.
OpenInvalid(d) ==
    /\ dn' = [dn EXCEPT ![d].next = @ + 1]
    /\ UNCHANGED <<vardiff, miner, cm, cancelled>>

OpenUnchanged == UNCHANGED <<poolState, downstreams, senders, conn, seen, spoken, solved>>

HandleOpenStandardMiningChannel(d) ==
    /\ Serves(d) /\ dn[d].next <= MaxChannel
    /\ \E p \in Payouts :
          IF OpenRefused(dn[d], "std", p)
            THEN UNCHANGED <<dn, vardiff, miner, cm, cancelled>>
            ELSE OpenInvalid(d) \/ OpenWithTemplate(d, "std", p)
    /\ OpenUnchanged

HandleOpenExtendedMiningChannel(d) ==
    /\ Serves(d) /\ dn[d].next <= MaxChannel
    /\ \E p \in Payouts :
          IF OpenRefused(dn[d], "ext", p)
            THEN UNCHANGED <<dn, vardiff, miner, cm, cancelled>>
            ELSE \/ OpenInvalid(d)
                 \/ dn[d].custom /\ OpenForCustomWork(d, p)
                 \/ ~dn[d].custom /\ OpenWithTemplate(d, "ext", p)
    /\ OpenUnchanged

WithoutChannel(r, c) ==
    [r EXCEPT !.members = @ \ {c},
              !.chans = [k \in DOMAIN @ \ {c} |-> @[k]],
              !.payout = IF DOMAIN r.chans \subseteq {c} THEN NoPayout ELSE @]

HandleCloseChannel(d) ==
    /\ Serves(d)
    /\ \E c \in DOMAIN dn[d].chans :
          /\ dn' = [dn EXCEPT ![d] = WithoutChannel(@, c)]
          /\ vardiff' = vardiff \ {<<d, c>>}
          /\ miner' = [miner EXCEPT ![d].open = @ \ {c}, ![d].mines[c] = NoJob,
                                    ![d].known = {k \in @ : k[1] # c}]
    /\ UNCHANGED <<poolState, downstreams, senders, conn, seen, spoken, cm, solved, cancelled>>

\* update_channel may refuse the request; SetTarget is sent either way.
HandleUpdateChannel(d) ==
    /\ Serves(d)
    /\ \E c \in DOMAIN dn[d].chans, x \in Targets :
          /\ dn' = [dn EXCEPT ![d].chans[c].target = x]
          /\ Forward(d, <<SetTarget(c, x)>>)
    /\ UNCHANGED <<poolState, maps, conn, seen, spoken, cm, solved, cancelled>>

\* A block found on a job built from a template goes to the template provider.
BlockFound(d, c) ==
    \E job \in {dn[d].chans[c].jobs.active} \cup dn[d].chans[c].jobs.past :
        /\ solved' = IF job.t # 0
                       THEN {[job |-> job, policy |-> dn[d].payout]}
                       ELSE {}
        /\ UNCHANGED <<miner, cm, cancelled>>

\* What validate_share answers; an extended share may also have a bad extranonce.
StandardShareResults ==
    {"valid", "block", "invalid", "stale", "invalid-job-id", "low-difficulty",
     "duplicate", "version-rolling", "budget-exhausted"}
ExtendedShareResults == StandardShareResults \cup {"bad-extranonce-size"}

\* A share on a channel vardiff does not know closes the channel, one that
\* exhausts the budget of seen shares disconnects; the others are answered.
SubmitShare(d, c, result) ==
    /\ IF <<d, c>> \notin vardiff
         THEN Forward(d, <<CloseChannelMsg(c)>>) /\ UNCHANGED <<solved, cm, cancelled>>
       ELSE IF result = "block"
         THEN BlockFound(d, c)
       ELSE IF result = "budget-exhausted"
         THEN ErrorDisconnect(d) /\ UNCHANGED <<miner, solved>>
       ELSE UNCHANGED <<miner, solved, cm, cancelled>>
    /\ UNCHANGED <<poolState, maps, dn, conn, seen, spoken>>

ChannelsOf(d, kind) == {c \in DOMAIN dn[d].chans : dn[d].chans[c].kind = kind}

HandleSubmitSharesStandard(d) ==
    /\ Serves(d)
    /\ \E c \in ChannelsOf(d, "std"), result \in StandardShareResults : SubmitShare(d, c, result)

HandleSubmitSharesExtended(d) ==
    /\ Serves(d)
    /\ \E c \in ChannelsOf(d, "ext"), result \in ExtendedShareResults : SubmitShare(d, c, result)

\* The job declarator takes the token of a custom job: without a job declarator
\* or an extended channel the miner gets an error, as it does from a refusal.
HandleSetCustomMiningJob(d) ==
    /\ Serves(d)
    /\ \E c \in ChannelIds :
          IF JdsPresent /\ c \in ChannelsOf(d, "ext")
            THEN cm' \in {Idle, [op |-> "custom", d |-> d, ch |-> c]}
            ELSE UNCHANGED cm
    /\ UNCHANGED <<poolState, maps, dn, conn, seen, spoken, miner, solved, cancelled>>

\* The token is spent; downstream and channel are looked up again.
CommitCustomJob ==
    /\ cm.op = "custom"
    /\ IF cm.d \notin downstreams
         THEN ErrorDisconnect(cm.d) /\ UNCHANGED <<dn, miner>>
       ELSE IF cm.ch \notin DOMAIN dn[cm.d].chans
         THEN cm' = Idle /\ UNCHANGED <<dn, miner, cancelled>>
       ELSE \/ ErrorDisconnect(cm.d) /\ UNCHANGED <<dn, miner>>
            \/ /\ dn' = [dn EXCEPT ![cm.d].chans[cm.ch].jobs = AddJob(@, CustomJob, FALSE)]
               /\ Forward(cm.d, <<CustomSuccess(cm.ch)>>)
               /\ cm' = Idle
               /\ UNCHANGED cancelled
    /\ UNCHANGED <<poolState, maps, conn, seen, spoken, solved>>

\* Mutant: the new target is not sent.
RetargetSilently(d, ts) == <<>>
\* run_vardiff_on_extended_channel and run_vardiff_on_standard_channel: a channel
\* whose hashrate moved takes a target and its miner is sent it.
WithTarget(ch, x) == [ch EXCEPT !.target = x]
Retarget(d, ts) ==
    InAnyOrder({SetTarget(k[2], ts[k]) : k \in {k \in DOMAIN ts : k[1] = d}})

\* run_vardiff: the entries of unknown downstreams go, some of the channels of
\* the others get a new target.
RunVardiff ==
    LET live == {k \in vardiff : k[1] \in downstreams /\ k[2] \in DOMAIN dn[k[1]].chans}
    IN /\ CmReady
       /\ \E changed \in SUBSET live :
            \E ts \in [changed -> Targets] :
               /\ dn' = [d \in Miners |->
                          [dn[d] EXCEPT !.chans =
                             [c \in DOMAIN @ |-> IF <<d, c>> \in changed
                                                   THEN WithTarget(@[c], ts[<<d, c>>]) ELSE @[c]]]]
               /\ ForwardAll([d \in Miners |-> Retarget(d, ts)])
       /\ vardiff' = {k \in vardiff : k[1] \in downstreams}
       /\ UNCHANGED <<poolState, downstreams, senders, conn, seen, spoken, cm, solved, cancelled>>

----------------------------------------------------------------------------
Init ==
    /\ tp = [sent |-> 0, pending |-> 0]
    /\ lastFuture = 0 /\ lastPrevHash = 0
    /\ downstreams = {} /\ senders = {} /\ vardiff = {}
    /\ dn = [d \in Miners |-> NewDownstream]
    /\ conn = [d \in Miners |-> "absent"]
    /\ seen = [d \in Miners |-> [template |-> 0, prevHash |-> 0]]
    /\ spoken = {}
    /\ cm = Idle
    /\ miner = [d \in Miners |-> NewMiner]
    /\ solved = {}
    /\ cancelled = FALSE

ConnectionStep(d) ==
    \/ Accept(d) \/ ReadPrevHash(d) \/ BootstrapGroupChannel(d)
    \/ InsertSender(d) \/ InsertDownstream(d) \/ SetupConnection(d)
    \/ PeerLeaves(d) \/ ExtensionsRefused(d) \/ SenderDropped(d) \/ StopSeen(d) \/ OnDisconnect(d)

MiningMessage(d) ==
    \/ UnregisteredDownstream(d)
    \/ HandleOpenStandardMiningChannel(d) \/ HandleOpenExtendedMiningChannel(d)
    \/ HandleCloseChannel(d) \/ HandleUpdateChannel(d)
    \/ HandleSubmitSharesStandard(d) \/ HandleSubmitSharesExtended(d)
    \/ HandleSetCustomMiningJob(d)

Next ==
    \/ \E d \in Miners : ConnectionStep(d) \/ MiningMessage(d) \/ WalkVisit(d)
    \/ HandleNewTemplate \/ HandleSetNewPrevHash \/ WalkEnd
    \/ CommitCustomJob \/ RunVardiff
    \/ CmRemove \/ CmClose

Spec == Init /\ [][Next]_vars

\* Every task is scheduled.  Nothing makes a peer leave or send, or the
\* template provider send: those steps have no fairness.
Fairness ==
    /\ \A d \in Miners :
          /\ WF_vars(ReadPrevHash(d)) /\ WF_vars(BootstrapGroupChannel(d))
          /\ WF_vars(InsertSender(d)) /\ WF_vars(InsertDownstream(d))
          /\ WF_vars(OnDisconnect(d))
          /\ WF_vars(cancelled /\ SetupConnection(d))
          /\ WF_vars(SenderDropped(d) \/ StopSeen(d))
          /\ WF_vars(WalkVisit(d))
    /\ WF_vars(WalkEnd) /\ WF_vars(CommitCustomJob)
    /\ WF_vars(CmRemove) /\ WF_vars(CmClose)

LiveSpec == Spec /\ Fairness

----------------------------------------------------------------------------
(* Properties.                                                               *)

JobsOrNone == Jobs \cup {NoJob, CustomJob}
JobSets == [active : JobsOrNone, future : SUBSET Jobs, past : SUBSET JobsOrNone,
            tip : 0..MaxTemplate]

\* Every variable keeps its type.
TypeOK ==
    /\ tp \in [sent : 0..MaxTemplate, pending : 0..MaxTemplate]
    /\ lastFuture \in 0..MaxTemplate /\ lastPrevHash \in 0..MaxTemplate
    /\ downstreams \subseteq Miners /\ senders \subseteq Miners /\ spoken \subseteq Miners
    /\ vardiff \subseteq Miners \X ChannelIds
    /\ conn \in [Miners -> {"absent", "read", "bootstrap", "built", "sender", "setup", "running",
                            "closing", "removing2", "removing3", "gone"}]
    /\ \A d \in Miners :
          /\ dn[d].group \in JobSets
          /\ dn[d].members \subseteq DOMAIN dn[d].chans
          /\ DOMAIN dn[d].chans \subseteq ChannelIds
          /\ dn[d].payout \in Payouts \cup {NoPayout}
          /\ \A c \in DOMAIN dn[d].chans :
                /\ dn[d].chans[c].jobs \in JobSets
                /\ dn[d].chans[c].target \in Targets
    /\ cancelled \in BOOLEAN

\* While the channel manager runs, a registered downstream has a sender: what a
\* handler decides for it is never silently dropped by RouteMessageTo::forward.
RegisteredHaveSender == cm.op # "stopped" => downstreams \subseteq senders

Removing(d) ==
    \/ conn[d] = "removing2"
    \/ cm.op = "remove" /\ cm.d = d /\ cm.step = 2

\* `vardiff` has an entry for each channel of a registered downstream (or its
\* shares would close the channel), and no other entry outlives the removal of
\* its downstream.
VardiffMatchesChannels ==
    /\ \A d \in downstreams : \A c \in DOMAIN dn[d].chans : <<d, c>> \in vardiff
    /\ \A k \in vardiff : \/ k[1] \in downstreams /\ k[2] \in DOMAIN dn[k[1]].chans
                          \/ Removing(k[1])

\* The three maps of the channel manager agree, whichever of the two tasks that
\* remove a downstream is how far with it (remove_downstream).
RegistersAgree == TypeOK /\ RegisteredHaveSender /\ VardiffMatchesChannels

\* Between two messages, a miner has open the channels the pool has for it, and
\* on each mines the job the pool checks its shares against, at the same target:
\* group announcements and per-channel state agree.
MinerInSync ==
    cm.op = "idle" =>
        \A d \in downstreams :
           /\ miner[d].open = DOMAIN dn[d].chans
           /\ \A c \in DOMAIN dn[d].chans :
                 /\ miner[d].mines[c] = dn[d].chans[c].jobs.active
                 /\ miner[d].target[c] = dn[d].chans[c].target

\* A SetNewPrevHash only names a job that was announced before, on the channel
\* or group it is sent to.
NoStrayPrevHash == \A d \in Miners : ~miner[d].stray

\* What the miners were told is what the pool checks their shares against,
\* however templates, previous hashes, vardiff and arrivals interleave.
MinersInStep == MinerInSync /\ NoStrayPrevHash

\* A block handed to the template provider pays the outputs of the payout mode
\* of the connection that found it, whichever of the group's or the channel's
\* jobs, active or past, the share was for.
BlocksPayPolicy == \A s \in solved : s.job.p = s.policy

\* Once the job declarator has spent the token of a custom job, the job reaches
\* its channel unless the connection is gone: the second lookup finds the
\* channel the first one found.
CustomJobFindsChannel ==
    cm.op = "custom" /\ cm.d \in downstreams => cm.ch \in DOMAIN dn[cm.d].chans

\* A downstream the channel manager dropped leaves, and leaves nothing behind.
DroppedLeave ==
    \A d \in Miners :
        (d \in spoken /\ d \notin senders)
            ~> (conn[d] = "gone" /\ d \notin downstreams /\ \A c \in ChannelIds : <<d, c>> \notin vardiff)

\* After a shutdown request the channel manager and every connection end.
PoolStops ==
    cancelled ~> (cm.op = "stopped" /\ \A d \in Miners : conn[d] \in {"absent", "gone"})

\* Connections end when they are dropped and when the pool shuts down, and
\* leave nothing behind (remove_downstream, the shutdown arms of both loops).
ConnectionsEnd == DroppedLeave /\ PoolStops
============================================================================
