----------------------- MODULE TranslatorChannelManager -----------------------
(* The channel manager of the translator proxy (translator,                  *)
(* sv2/channel_manager/) between its upstream and the SV1 server.            *)
(*                                                                           *)
(* One task handles one message at a time and every send goes to an          *)
(* unbounded queue, so a handler is one step: a function from the state m of *)
(* the manager to the state it leaves, with the action of the error it       *)
(* returned in m.action.  The messages it sends to the SV1 server wait in    *)
(* m.queue until the server takes them.                                      *)
(*                                                                           *)
(* An extranonce prefix is the number of upstream prefixes set before it: a  *)
(* channel adds its own suffix, which never changes.  A job is its id; the   *)
(* chain tip is the future job that SetNewPrevHash activated on it.          *)
EXTENDS Naturals, Sequences, FiniteSets, FiniteSetsExt, SequencesExt

CONSTANTS
    Modes,          \* TproxyMode: "aggregated", "nonaggregated"
    ChannelIds,     \* channel ids the upstream uses
    GroupIds,       \* group ids it uses, some of them channel ids too
    Capacity,       \* AGGREGATED_TPROXY_MAX_CHANNELS
    MaxChannelId,   \* the highest id below AGGREGATED_CHANNEL_ID
    MaxRequest,     \* bound on open requests of the SV1 server
    MaxJob,         \* bound on jobs
    MaxPrefix,      \* bound on SetExtranoncePrefix
    MaxTarget,      \* bound on SetTarget
    MaxChurn,       \* bound on closed channels and regrouped ones together
    MaxShare,       \* bound on shares
    MaxEffort       \* bound on all of these together

ASSUME TranslatorAssumption ==
    /\ Modes \subseteq {"aggregated", "nonaggregated"}
    /\ ChannelIds \cup GroupIds \subseteq Nat \ {0}
    /\ Capacity \in Nat \ {0} /\ MaxChannelId \in Nat \ {0}
    /\ {MaxRequest, MaxJob, MaxPrefix, MaxTarget, MaxChurn, MaxShare, MaxEffort} \subseteq Nat

VARIABLES
    mode,
    m,        \* the channel manager
    sv1,      \* what the SV1 server made of the messages it took
    upstream, \* open requests it has not answered, channel ids it gave out, its last prefix
    spent,    \* what the exploration bounds count
    stop      \* "no", "fallback", "shutdown", or "internal" for a shutdown or a
              \* fallback over state the manager itself left inconsistent

vars == <<mode, m, sv1, upstream, spent, stop>>

WireIds == ChannelIds \cup GroupIds
AGG == 0     \* AGGREGATED_CHANNEL_ID
None == 0
Aggregated == mode = "aggregated"
Running == stop = "no"
Children(s) == DOMAIN s.chans \ {AGG}
Room(n) == spent.effort + n <= MaxEffort

----------------------------------------------------------------------------
(* Channels of channels_sv2, as the channel manager uses them.  A job keeps  *)
(* the prefix its channel had when the job arrived.                          *)

NoJob == [id |-> None, prefix |-> 0]
NoWork == [id |-> None]
NewChannel(up, prefix, target) ==
    [up |-> up, prefix |-> prefix, target |-> target, active |-> NoJob,
     past |-> {}, future |-> {}, tip |-> None]

OnNewExtendedMiningJob(c, j, future) ==
    LET job == [id |-> j, prefix |-> c.prefix]
    IN IF future THEN [c EXCEPT !.future = @ \cup {job}]
       ELSE [c EXCEPT !.past = @ \cup ({c.active} \ {NoJob}), !.active = job]

HasFuture(c, j) == \E job \in c.future : job.id = j
OnSetNewPrevHash(c, j) ==
    [c EXCEPT !.active = CHOOSE job \in c.future : job.id = j,
              !.past = {}, !.future = {}, !.tip = j]

NewGroup == [ids |-> {}, future |-> {}]

Without(f, S) == [x \in DOMAIN f \ S |-> f[x]]
Merge(f, g) == [x \in DOMAIN f \cup DOMAIN g |-> IF x \in DOMAIN f THEN f[x] ELSE g[x]]
Put(f, x, v) == [y \in DOMAIN f \cup {x} |-> IF y = x THEN v ELSE f[y]]

\* The SV1 server: its channels, the chain tip it holds for each, the requests
\* whose miner left, and the channels it is closing.
Sv1Empty == [chans |-> <<>>, prev |-> <<>>, gone |-> {}, outbox |-> <<>>]

----------------------------------------------------------------------------
NoManager ==
    [agg |-> "NoChannel", pending |-> {}, chans |-> <<>>, advertised |-> <<>>, groups |-> <<>>,
     seq |-> <<>>, queue |-> <<>>, answered |-> {}, action |-> "ok"]
NoUpstream == [opens |-> {}, used |-> {}, prefix |-> 0]
NothingSpent == [requests |-> 0, jobs |-> 0, targets |-> 0, churn |-> 0, shares |-> 0, effort |-> 0]

Init ==
    /\ mode \in Modes
    /\ m = NoManager
    /\ sv1 = Sv1Empty
    /\ upstream = NoUpstream
    /\ spent = NothingSpent
    /\ stop = "no"

Fails(s, action) == [s EXCEPT !.action = action]
Ok(s) == s.action = "ok"

\* What the bounds count: one step, of the named kind.
Allowed(kind, max) == spent[kind] < max /\ Room(1)
SpentOn(kind) == [spent EXCEPT ![kind] = @ + 1, !.effort = @ + 1]

\* handle_error_action, and run_channel_manager_tasks after it breaks: a logged
\* error leaves the loop running and the state as it was, the others end it and
\* drop the manager with all it knows.
Returns(s, up, sp) ==
    CASE s.action = "ok"  -> m' = s /\ upstream' = up /\ spent' = sp /\ UNCHANGED <<mode, sv1, stop>>
      [] s.action = "log" -> UNCHANGED vars
      [] OTHER ->
           /\ stop' = s.action
           /\ m' = NoManager /\ sv1' = Sv1Empty /\ upstream' = NoUpstream /\ spent' = NothingSpent
           /\ UNCHANGED mode

----------------------------------------------------------------------------
(* Messages for the SV1 server.                                              *)

Success(r, c, prefix, target) ==
    [type |-> "success", r |-> r, ch |-> c, prefix |-> prefix, target |-> target]
OpenError(r) == [type |-> "error", r |-> r]
Close(c) == [type |-> "close", ch |-> c]
Prefix(c, p) == [type |-> "prefix", ch |-> c, prefix |-> p]
PrevHash(c, j) == [type |-> "prevhash", ch |-> c, tip |-> j]
SetTarget(c, t) == [type |-> "target", ch |-> c, target |-> t]
\* caps and tip are history: the prefix each channel captured, and its tip.
Job(c, j, caps, tip) == [type |-> "job", ch |-> c, id |-> j, caps |-> caps, tip |-> tip]

\* One message for each member of S.
ForEach(S, Msg(_)) == LET q == SetToSeq(S) IN [i \in DOMAIN q |-> Msg(q[i])]
Send(s, msgs) == [s EXCEPT !.queue = @ \o msgs]

\* active_job_extranonce_prefixes.
ActiveJobExtranoncePrefixes(s, c) ==
    [x \in (IF c = AGG THEN Children(s) ELSE {c}) |-> s.chans[x].active.prefix]

\* Mutant: the new prefix is recorded as advertised and not sent.
MutPrefixesToSend(s, caps) == {}
PrefixesToSend(s, caps) == {x \in DOMAIN caps : s.advertised[x] # caps[x]}

\* forward_job_to_sv1_server.
ForwardJobToSv1Server(s, c, j) ==
    LET caps == ActiveJobExtranoncePrefixes(s, c)
        tip == IF c = AGG THEN s.chans[AGG].tip ELSE s.chans[c].tip
    IN IF ~ Ok(s) THEN s
       ELSE IF \E x \in DOMAIN caps :
                 s.chans[x].active.id # j \/ x \notin DOMAIN s.advertised
       THEN Fails(s, "internal")
       ELSE Send([s EXCEPT !.advertised = Merge(caps, @)],
                 ForEach(PrefixesToSend(s, caps), LAMBDA x : Prefix(x, caps[x]))
                 \o <<Job(c, j, caps, tip)>>)

\* reject_downstream_channel_request.
RejectDownstreamChannelRequest(s, r) ==
    Send([s EXCEPT !.answered = @ \cup {r}], <<OpenError(r)>>)

----------------------------------------------------------------------------
(* Channel opening.                                                          *)

\* Mutant: a new miner starts without the active job.
MutReplayed(parent) == [parent EXCEPT !.active = NoJob]
\* The child starts with the chain tip, the active job and the future jobs of
\* the shared channel, each with the prefix and target it was captured with.
Replayed(parent) == parent

\* The id after the highest one in use, or the first gap.
NextChannelId(s) ==
    LET top == IF Children(s) = {} THEN 0 ELSE Max(Children(s))
        gaps == (1..MaxChannelId) \ Children(s)
    IN IF top < MaxChannelId THEN top + 1
       ELSE IF gaps # {} THEN Min(gaps) ELSE None

\* The prefix in the answer to a late miner: that of the job it starts with.
SuccessPrefix(parent) ==
    IF parent.active # NoJob THEN parent.active.prefix ELSE parent.prefix

\* handle_downstream_channel_request_in_aggregated_mode.
HandleDownstreamChannelRequestInAggregatedMode(s, r) ==
    IF ~ Ok(s) THEN s
    ELSE IF AGG \notin DOMAIN s.chans THEN Fails(s, "internal")
    ELSE LET parent == s.chans[AGG]
             c == NextChannelId(s)
             opened == Send([s EXCEPT
                 !.chans = Put(@, c, [Replayed(parent) EXCEPT !.up = c, !.past = {}]),
                 !.advertised = Put(@, c, SuccessPrefix(parent)),
                 !.answered = @ \cup {r}],
                 <<Success(r, c, SuccessPrefix(parent), parent.target)>>)
         IN IF Cardinality(Children(s)) = Capacity \/ c = None
              THEN RejectDownstreamChannelRequest(s, r)
            ELSE IF parent.active # NoJob THEN ForwardJobToSv1Server(opened, c, parent.active.id)
            ELSE opened

\* open_pending_aggregated_downstream_channels, in the order the map yields them.
\* Mutant: the buffered requests are dropped.
MutOpenPendingAggregatedDownstreamChannels(s, order) == [s EXCEPT !.pending = {}]
OpenPendingAggregatedDownstreamChannels(s, order) ==
    FoldLeft(HandleDownstreamChannelRequestInAggregatedMode, [s EXCEPT !.pending = {}], order)

Opening(s, r) ==
    [s EXCEPT !.pending = @ \cup {r}, !.agg = IF Aggregated THEN "Pending" ELSE @]

\* OpenExtendedMiningChannel of the SV1 server (handle_downstream_message).
HandleOpenExtendedMiningChannel ==
    LET r == spent.requests + 1
        sp == SpentOn("requests")
    IN /\ Running
       /\ Allowed("requests", MaxRequest)
       /\ CASE Aggregated /\ m.agg = "Connected" ->
                 Returns(HandleDownstreamChannelRequestInAggregatedMode(m, r), upstream, sp)
            [] Aggregated /\ m.agg = "Pending" ->
                 Returns([m EXCEPT !.pending = @ \cup {r}], upstream, sp)
            [] OTHER ->
                 Returns(Opening(m, r), [upstream EXCEPT !.opens = @ \cup {r}], sp)

\* colliding_channel_id.
CollidingChannelId(s, c, g) ==
    \/ c = g
    \/ ~ Aggregated /\ ({c, g} \cap DOMAIN s.chans # {} \/ c \in DOMAIN s.groups)

AddToGroup(s, c, g) ==
    [s EXCEPT !.groups =
       Put(@, g, LET old == IF g \in DOMAIN @ THEN @[g] ELSE NewGroup
                 IN [old EXCEPT !.ids = @ \cup {c}])]

\* The channels of a successful open: the shared one and the first child, or
\* the miner's own.
SharedChannel(s, c, target) ==
    LET p == upstream.prefix
    IN [s EXCEPT !.chans = Put(Put(@, AGG, NewChannel(c, p, target)), 1, NewChannel(1, p, target)),
                 !.agg = "Connected"]
OwnChannel(s, c, target) ==
    [s EXCEPT !.chans = Put(@, c, NewChannel(c, upstream.prefix, target))]

InstallChannels(s, r, c, target) ==
    LET id == IF Aggregated THEN 1 ELSE c
        installed == IF Aggregated THEN SharedChannel(s, c, target) ELSE OwnChannel(s, c, target)
    IN Send([installed EXCEPT !.advertised = Put(@, id, upstream.prefix),
                              !.answered = @ \cup {r}],
            <<Success(r, id, upstream.prefix, target)>>)

\* handle_open_extended_mining_channel_success.  fits: the granted extranonce is
\* large enough, the group takes it and the target is one a share can meet.  The
\* upstream gives out an id once: it does not reuse that of a closed channel.
HandleOpenExtendedMiningChannelSuccess(r, c, g, fits, order) ==
    /\ Running
    /\ r \in upstream.opens
    /\ c \notin upstream.used \ DOMAIN m.chans
    /\ LET s == [m EXCEPT !.pending = @ \ {r}]
           installed == InstallChannels(AddToGroup(s, c, g), r, c, spent.targets)
           up == [upstream EXCEPT !.opens = @ \ {r}, !.used = @ \cup {c}]
       IN /\ Range(order) = IF Aggregated THEN s.pending ELSE {}
          /\ IF CollidingChannelId(s, c, g) \/ ~ fits THEN Returns(Fails(s, "fallback"), up, spent)
             ELSE IF Aggregated
               THEN Returns(OpenPendingAggregatedDownstreamChannels(installed, order), up, spent)
             ELSE Returns(installed, up, spent)

\* handle_open_mining_channel_error.
HandleOpenMiningChannelError(r) ==
    /\ Running
    /\ r \in upstream.opens
    /\ Returns(Fails(m, "fallback"), upstream, spent)

----------------------------------------------------------------------------
(* Channels going away.                                                      *)

WithoutMembers(groups, S) == [g \in DOMAIN groups |-> [groups[g] EXCEPT !.ids = @ \ S]]

Dropped(s, S) ==
    [s EXCEPT !.chans = Without(@, S), !.advertised = Without(@, S),
              !.groups = WithoutMembers(@, S)]

\* Mutant: only the channel the message names is reported, not a group's members.
MutClosedChannelIds(s, c) == {c} \cap DOMAIN s.chans
ClosedChannelIds(s, c) == IF c \in DOMAIN s.groups THEN s.groups[c].ids ELSE {c} \cap DOMAIN s.chans

\* handle_close_channel: the upstream closes a channel or a group.
HandleCloseChannel(c) ==
    LET closed == ClosedChannelIds(m, c)
        dropped == IF c \in DOMAIN m.groups THEN [m EXCEPT !.groups = Without(@, {c})] ELSE m
    IN /\ Running
       /\ Allowed("churn", MaxChurn)
       /\ Returns(IF Aggregated THEN Fails(m, "fallback")
                  ELSE IF c \notin DOMAIN m.groups \cup DOMAIN m.chans THEN Fails(m, "log")
                  ELSE Send(Dropped(dropped, IF c \in DOMAIN m.groups THEN m.groups[c].ids ELSE {c}),
                            ForEach(closed, Close)),
                  upstream, SpentOn("churn"))

\* CloseChannel of the SV1 server (handle_downstream_message), whose miner left.
HandleDownstreamCloseChannel ==
    /\ Running
    /\ sv1.outbox # <<>>
    /\ m' = Dropped(m, {Head(sv1.outbox)})
    /\ sv1' = [sv1 EXCEPT !.outbox = Tail(@)]
    /\ UNCHANGED <<mode, upstream, spent, stop>>

\* handle_set_group_channel: everything is validated before anything changes.
SetGroupRefused(g, ids) ==
    \/ Aggregated /\ AGG \notin DOMAIN m.chans
    \/ Aggregated /\ (g = m.chans[AGG].up \/ ids \ {m.chans[AGG].up} # {})
    \/ ~ Aggregated /\ (g \in DOMAIN m.chans \/ ~ ids \subseteq DOMAIN m.chans)

Regrouped(g, ids) ==
    LET left == WithoutMembers(m.groups, ids)
        kept == Without(left, {g} \cup {x \in DOMAIN left : left[x].ids = {}})
    IN IF ids = {} THEN kept ELSE Put(kept, g, [NewGroup EXCEPT !.ids = ids])

HandleSetGroupChannel(g, ids) ==
    /\ Running
    /\ Allowed("churn", MaxChurn)
    /\ Returns(IF SetGroupRefused(g, ids) THEN Fails(m, "fallback")
               ELSE [m EXCEPT !.groups = Regrouped(g, ids)],
               upstream, SpentOn("churn"))

----------------------------------------------------------------------------
(* Prefixes, jobs, chain tips and targets.                                   *)

\* The channels a message of the upstream addresses: in aggregated mode every
\* channel if it names the shared channel or its group, otherwise a group's
\* members or one channel.  "none" is an id nobody has, "absent" that there is
\* no shared channel or group yet.
Addressed(c) ==
    IF Aggregated
      THEN IF AGG \notin DOMAIN m.chans \/ DOMAIN m.groups = {} THEN "absent"
           ELSE IF c = m.chans[AGG].up \/ c = CHOOSE g \in DOMAIN m.groups : TRUE THEN "all"
           ELSE "none"
    ELSE IF c \in DOMAIN m.groups THEN "group"
    ELSE IF c \in DOMAIN m.chans THEN "one" ELSE "none"

ChannelsOf(c) ==
    CASE Addressed(c) = "all"   -> DOMAIN m.chans
      [] Addressed(c) = "group" -> m.groups[c].ids
      [] Addressed(c) = "one"   -> {c}
      [] OTHER                  -> {}

\* The ids under which the SV1 server hears of it.
Recipients(c) == IF Aggregated THEN {AGG} ELSE ChannelsOf(c)

\* The answers the three handlers below share.
Misaddressed(c) ==
    IF Addressed(c) = "absent" THEN Fails(m, "fallback")
    ELSE IF Addressed(c) = "none" THEN Fails(m, "log")
    ELSE IF ~ ChannelsOf(c) \subseteq DOMAIN m.chans THEN Fails(m, "internal")
    ELSE m

\* The last step of handle_set_new_prev_hash.
PrevHashThenJobs(s, j, S) ==
    FoldSet(LAMBDA c, t : ForwardJobToSv1Server(t, c, j),
            Send(s, ForEach(S, LAMBDA c : PrevHash(c, j))), S)

\* handle_set_extranonce_prefix.  Nothing is sent: the miners hear of the prefix
\* with the first job that uses it.
HandleSetExtranoncePrefix(c, fits) ==
    LET p == upstream.prefix + 1
        S == IF Aggregated THEN DOMAIN m.chans ELSE {c}
    IN /\ Running
       /\ upstream.prefix < MaxPrefix /\ Room(1)
       /\ Returns(IF Aggregated /\ AGG \notin DOMAIN m.chans THEN Fails(m, "shutdown")
                  ELSE IF (Aggregated /\ c # m.chans[AGG].up) \/ ~ S \subseteq DOMAIN m.chans
                    THEN Fails(m, "log")
                  ELSE IF ~ fits THEN Fails(m, "fallback")
                  ELSE [m EXCEPT !.chans = [x \in DOMAIN @ |->
                          IF x \in S THEN [@[x] EXCEPT !.prefix = p] ELSE @[x]]],
                  [upstream EXCEPT !.prefix = p], [spent EXCEPT !.effort = @ + 1])

\* The jobs a channel or a group keeps until their prev hash comes.
JobStored(s, c, j, future) ==
    [s EXCEPT !.chans = [x \in DOMAIN @ |->
                IF x \in ChannelsOf(c) THEN OnNewExtendedMiningJob(@[x], j, future) ELSE @[x]],
              !.groups = [g \in DOMAIN @ |->
                IF g = c /\ Addressed(c) = "group" /\ future
                  THEN [@[g] EXCEPT !.future = @ \cup {j}] ELSE @[g]]]

\* handle_new_extended_mining_job.  sound: version rolling is allowed, the
\* payout is the expected one and the group knows its extranonce size.
HandleNewExtendedMiningJob(c, future, sound) ==
    LET j == spent.jobs + 1
    IN /\ Running
       /\ Allowed("jobs", MaxJob)
       /\ Returns(IF ~ sound THEN Fails(m, "fallback")
                  ELSE IF ~ Ok(Misaddressed(c)) THEN Misaddressed(c)
                  ELSE IF future THEN JobStored(m, c, j, TRUE)
                  ELSE FoldSet(LAMBDA x, t : ForwardJobToSv1Server(t, x, j),
                               JobStored(m, c, j, FALSE), Recipients(c)),
                  upstream, SpentOn("jobs"))

\* handle_set_new_prev_hash.
HandleSetNewPrevHash(c, j) ==
    LET S == ChannelsOf(c)
        tipped == [m EXCEPT
            !.chans = [x \in DOMAIN @ |-> IF x \in S THEN OnSetNewPrevHash(@[x], j) ELSE @[x]],
            !.groups = [g \in DOMAIN @ |->
               IF g = c /\ Addressed(c) = "group" THEN [@[g] EXCEPT !.future = {}] ELSE @[g]]]
    IN /\ Running
       /\ j \in 1..spent.jobs /\ Room(1)
       /\ Returns(IF ~ Ok(Misaddressed(c)) THEN Misaddressed(c)
                  ELSE IF \/ \E x \in S : ~ HasFuture(m.chans[x], j)
                          \/ Addressed(c) = "group" /\ j \notin m.groups[c].future
                    THEN Fails(m, "fallback")
                  ELSE PrevHashThenJobs(tipped, j, Recipients(c)),
                  upstream, [spent EXCEPT !.effort = @ + 1])

Retargeted(c) == ChannelsOf(c)

\* handle_set_target.
HandleSetTarget(c, meetable) ==
    LET t == spent.targets + 1
    IN /\ Running
       /\ Allowed("targets", MaxTarget)
       /\ Returns(IF ~ Ok(Misaddressed(c)) THEN Misaddressed(c)
                  ELSE IF ~ meetable THEN Fails(m, "fallback")
                  ELSE Send([m EXCEPT !.chans = [x \in DOMAIN @ |->
                               IF x \in Retargeted(c) THEN [@[x] EXCEPT !.target = t] ELSE @[x]]],
                            ForEach(Recipients(c), LAMBDA x : SetTarget(x, t))),
                  upstream, SpentOn("targets"))

----------------------------------------------------------------------------
(* Shares.                                                                   *)

\* next_share_sequence_number.
NextShareSequenceNumber(s, c) == (IF c \in DOMAIN s.seq THEN s.seq[c] ELSE 0) + 1

\* The channel a share of c is validated on: the shared one, or its own.
ValidatingChannel(c) == IF Aggregated /\ AGG \in DOMAIN m.chans THEN AGG ELSE c
KnownJobs(c) == ({m.chans[c].active} \cup m.chans[c].past) \ {NoJob}

\* SubmitSharesExtended of the SV1 server (handle_downstream_message) for the
\* work the miner of c has: forwarded with the sequence number of the upstream
\* channel if the validating channel knows the job, dropped otherwise.
HandleSubmitSharesExtended(c) ==
    LET v == ValidatingChannel(c)
    IN /\ Running
       /\ c \in DOMAIN sv1.chans /\ sv1.chans[c].work # NoWork
       /\ Allowed("shares", MaxShare) /\ spent' = SpentOn("shares")
       /\ m' = IF v \in DOMAIN m.chans /\ \E job \in KnownJobs(v) : job.id = sv1.chans[c].work.id
                 THEN [m EXCEPT !.seq = Put(@, m.chans[v].up,
                                            NextShareSequenceNumber(m, m.chans[v].up))]
                 ELSE m
       /\ UNCHANGED <<mode, sv1, upstream, stop>>

----------------------------------------------------------------------------
(* The SV1 server, as far as the order of the messages matters to it.        *)

\* The miners a job reaches: every one, or the channel's, once the server has a
\* chain tip for it.
Reached(v, msg) ==
    IF (IF Aggregated THEN AGG ELSE msg.ch) \notin DOMAIN v.prev THEN {}
    ELSE (IF msg.ch = AGG THEN DOMAIN msg.caps ELSE {msg.ch}) \cap DOMAIN v.chans

\* A success nobody waits for any more has its channel closed.
TakeSuccess(v, msg) ==
    IF msg.r \in v.gone THEN [v EXCEPT !.outbox = Append(@, msg.ch)]
    ELSE [v EXCEPT !.chans = Put(@, msg.ch,
            [prefix |-> msg.prefix, target |-> msg.target, work |-> NoWork])]

TakeMessage(v, msg) ==
    CASE msg.type = "success" -> TakeSuccess(v, msg)
      [] msg.type = "error" -> v
      [] msg.type = "close" -> [v EXCEPT !.chans = Without(@, {msg.ch})]
      [] msg.type = "prefix" ->
           IF msg.ch \in DOMAIN v.chans THEN [v EXCEPT !.chans[msg.ch].prefix = msg.prefix] ELSE v
      [] msg.type = "target" ->
           [v EXCEPT !.chans = [x \in DOMAIN @ |->
              IF msg.ch \in {AGG, x} THEN [@[x] EXCEPT !.target = msg.target] ELSE @[x]]]
      [] msg.type = "prevhash" -> [v EXCEPT !.prev = Put(@, msg.ch, msg.tip)]
      [] OTHER ->
           [v EXCEPT !.chans = [x \in DOMAIN @ |->
              IF x \in Reached(v, msg)
                THEN [@[x] EXCEPT !.work =
                        [id |-> msg.id, told |-> v.chans[x].prefix, captured |-> msg.caps[x],
                         tip |-> v.prev[IF Aggregated THEN AGG ELSE x], minedOn |-> msg.tip]]
                ELSE @[x]]]

Sv1ServerTakes ==
    /\ Running
    /\ m.queue # <<>>
    /\ sv1' = TakeMessage(sv1, Head(m.queue))
    /\ m' = [m EXCEPT !.queue = Tail(@)]
    /\ UNCHANGED <<mode, upstream, spent, stop>>

\* A miner with a channel leaves.
MinerLeaves(c) ==
    /\ Running
    /\ c \in DOMAIN sv1.chans
    /\ Allowed("churn", MaxChurn) /\ spent' = SpentOn("churn")
    /\ sv1' = [sv1 EXCEPT !.chans = Without(@, {c}), !.outbox = Append(@, c)]
    /\ UNCHANGED <<mode, m, upstream, stop>>

\* A miner leaves while its channel is being opened.
WaitingMinerLeaves(r) ==
    /\ Running
    /\ r \in m.pending \ sv1.gone
    /\ Allowed("churn", MaxChurn) /\ spent' = SpentOn("churn")
    /\ sv1' = [sv1 EXCEPT !.gone = @ \cup {r}]
    /\ UNCHANGED <<mode, m, upstream, stop>>

----------------------------------------------------------------------------
Orders == {o \in UNION {[1..n -> 1..MaxRequest] : n \in 0..MaxRequest} :
             \A i, k \in DOMAIN o : o[i] = o[k] => i = k}

UpstreamAnswers ==
    \E r \in 1..MaxRequest :
      \/ HandleOpenMiningChannelError(r)
      \/ \E c \in ChannelIds, g \in GroupIds, fits \in BOOLEAN, order \in Orders :
           HandleOpenExtendedMiningChannelSuccess(r, c, g, fits, order)

Next ==
    \/ HandleOpenExtendedMiningChannel
    \/ UpstreamAnswers
    \/ \E g \in GroupIds, ids \in SUBSET ChannelIds : HandleSetGroupChannel(g, ids)
    \/ \E c \in WireIds :
         \/ HandleCloseChannel(c)
         \/ \E fits \in BOOLEAN : HandleSetExtranoncePrefix(c, fits)
         \/ \E future, sound \in BOOLEAN : HandleNewExtendedMiningJob(c, future, sound)
         \/ \E j \in 1..MaxJob : HandleSetNewPrevHash(c, j)
         \/ \E meetable \in BOOLEAN : HandleSetTarget(c, meetable)
    \/ HandleDownstreamCloseChannel
    \/ Sv1ServerTakes
    \/ \E c \in WireIds \cup 1..MaxChannelId : HandleSubmitSharesExtended(c) \/ MinerLeaves(c)
    \/ \E r \in 1..MaxRequest : WaitingMinerLeaves(r)

\* The upstream answers every request and both loops keep taking messages.
Spec ==
    /\ Init /\ [][Next]_vars
    /\ WF_vars(UpstreamAnswers)
    /\ WF_vars(Sv1ServerTakes)
    /\ WF_vars(HandleDownstreamCloseChannel)

----------------------------------------------------------------------------
Ids == WireIds \cup 0..MaxChannelId

\* The maps hold what their types say: channels and groups under ids of their
\* own, known jobs, known prefixes.
TypeOK ==
    /\ mode \in Modes
    /\ m.agg \in {"NoChannel", "Pending", "Connected"}
    /\ m.action = "ok"
    /\ m.pending \cup m.answered \subseteq 1..spent.requests
    /\ DOMAIN m.chans \subseteq Ids /\ DOMAIN m.advertised \subseteq Ids
    /\ DOMAIN m.groups \subseteq GroupIds
    /\ \A c \in DOMAIN m.chans : m.chans[c].prefix <= upstream.prefix
    /\ ~ Aggregated => DOMAIN m.chans \cap DOMAIN m.groups = {}
    /\ stop \in {"no", "fallback", "shutdown", "internal"}

\* A miner hashes every job with the extranonce prefix its channel captured the
\* job with: the prefix change reaches it before the first job that uses it and
\* after the last one that does not (forward_job_to_sv1_server).
JobsUsePrefix ==
    \A c \in DOMAIN sv1.chans :
       sv1.chans[c].work # NoWork => sv1.chans[c].work.told = sv1.chans[c].work.captured

\* A miner works on a job over the chain tip its channel holds the job for: the
\* SV1 server hears SetNewPrevHash before the job it activates
\* (handle_set_new_prev_hash).
JobsUseTip ==
    \A c \in DOMAIN sv1.chans :
       sv1.chans[c].work # NoWork => sv1.chans[c].work.tip = sv1.chans[c].work.minedOn

\* A share of current work is checked against the extranonce the miner really
\* used: in aggregated mode the shared channel, on which shares are validated,
\* captured the job with the prefix the miner was told (handle_downstream_message).
SharesValidatedAsHashed ==
    \A c \in DOMAIN sv1.chans :
       LET v == ValidatingChannel(c)
       IN sv1.chans[c].work # NoWork /\ v \in DOMAIN m.chans =>
            \A job \in KnownJobs(v) :
               job.id = sv1.chans[c].work.id => job.prefix = sv1.chans[c].work.told

\* A miner hashes what its shares are checked against: extranonce prefix and
\* chain tip are in order with the jobs, from the upstream message to the miner.
HashedAsChecked == JobsUsePrefix /\ JobsUseTip /\ SharesValidatedAsHashed

\* Once the messages under way are taken, the SV1 server has a miner on exactly
\* the open channels it is not closing, with the target the channel has and the
\* prefix the manager believes it was told.
Sv1ViewAgrees ==
    Running =>
      LET view == FoldLeft(TakeMessage, sv1, m.queue)
      IN /\ DOMAIN view.chans = Children(m) \ Range(view.outbox)
         /\ DOMAIN m.advertised = Children(m)
         /\ \A c \in DOMAIN view.chans :
              /\ view.chans[c].prefix = m.advertised[c]
              /\ view.chans[c].target = m.chans[c].target

\* Every miner's channel in aggregated mode follows the shared channel, however
\* late it joined: the same tip, the same active and future jobs, each with the
\* same prefix.
ChildrenTrackAggregate ==
    Aggregated /\ AGG \in DOMAIN m.chans =>
      \A c \in Children(m) :
         /\ m.chans[c].active = m.chans[AGG].active
         /\ m.chans[c].future = m.chans[AGG].future
         /\ m.chans[c].tip = m.chans[AGG].tip
         /\ m.chans[c].prefix = m.chans[AGG].prefix
         /\ m.chans[c].target = m.chans[AGG].target

\* A group names open channels only, and a channel is in one group: a message
\* for a group never meets a channel that is gone.
GroupsHoldOpenChannels ==
    /\ ~ Aggregated => \A g \in DOMAIN m.groups : m.groups[g].ids \subseteq DOMAIN m.chans
    /\ \A g, h \in DOMAIN m.groups : g # h => m.groups[g].ids \cap m.groups[h].ids = {}

\* The manager never stops the proxy over a state it made itself: a job that is
\* not active on a channel it is forwarded for, a channel without its advertised
\* prefix, a connected aggregate without its channel.
NoInternalError == stop # "internal"

\* In aggregated mode one channel is opened upstream, whatever the number of
\* miners that ask while it is being opened.
OneUpstreamOpen ==
    Aggregated => Cardinality(upstream.opens) + Cardinality({AGG} \cap DOMAIN m.chans) <= 1

\* The manager's maps of channels, groups and the aggregate agree, so that it
\* never meets a state it takes for an internal error.
ChannelsConsistent ==
    /\ TypeOK
    /\ NoInternalError
    /\ OneUpstreamOpen
    /\ ChildrenTrackAggregate
    /\ GroupsHoldOpenChannels

\* Every open request is answered, unless the manager stops.
EveryRequestAnswered ==
    \A r \in 1..MaxRequest :
       spent.requests >= r ~> r \in m.answered \/ ~ Running

=============================================================================
