-------------------------- MODULE JdcChannelManager --------------------------
(* The channel manager of the job declarator client (jd-client,              *)
(* channel_manager/) between its four peers: the template provider, the job  *)
(* declarator server, the pool and the miners behind it.                     *)
(*                                                                           *)
(* The channel manager is one task and no handler suspends, so a handler is  *)
(* one step; the map entry of a downstream is held while it is worked on.    *)
(* What is interleaved are the answers of the peers and the connection tasks *)
(* of the downstreams, which read the template state, and register and       *)
(* remove themselves, on their own.                                          *)
(*                                                                           *)
(* A job is the template it was built from, and a chain tip is the future    *)
(* template that SetNewPrevHash activated on it.  Requests to the job        *)
(* declarator and to the pool wait in the order they were sent in; the       *)
(* answer is chosen when it is handled.                                      *)
EXTENDS Naturals, Sequences, FiniteSets, FiniteSetsExt, SequencesExt

CONSTANTS
    Downstreams,
    Modes,         \* JDMode: "solo", "full", "coinbase"
    Hashes,        \* share hashes; the lower the better
    CacheCapacity, \* CACHED_SHARES_CAPACITY
    Capacity,      \* extranonce prefixes the allocator can hand out
    MaxTemplate,   \* bound on templates
    MaxRequest,    \* bound on declared jobs
    MaxOpens,      \* bound on open requests of a downstream
    StdDownstreams, \* the downstreams whose SetupConnection requires standard jobs
    ExtDownstreams, \* the downstreams that open extended channels only
    MaxChurn,      \* bound on departures, closed channels and new prefixes together
    MaxEffort      \* bound on all of these and the shares together

ASSUME JdcAssumption ==
    /\ Modes \subseteq {"solo", "full", "coinbase"}
    /\ Hashes \subseteq Nat
    /\ StdDownstreams \subseteq Downstreams /\ ExtDownstreams \subseteq Downstreams
    /\ CacheCapacity \in Nat \ {0}
    /\ {Capacity, MaxTemplate, MaxRequest, MaxOpens, MaxChurn, MaxEffort} \subseteq Nat

Templates == 1..MaxTemplate
None == 0

VARIABLES
    mode, upstreamState, upstreamChannel,
    pendingRequests,  \* pending_downstream_requests
    tp,               \* template provider: templates sent, future template to activate
    futures,          \* the templates sent with future_template set
    templateStore, lastFuture, lastPrevHash,
    tokens,           \* number of allocate_tokens
    declared,         \* last_declare_job_store
    requests,         \* request ids used for declared jobs
    jds, pool, txData,  \* what each peer was asked and has not answered
    upstreamJob,      \* keys of template_id_to_upstream_job_id
    cached,           \* cached_shares
    downstream,       \* the Downstream of each connection, and where its task is
    jobMap,           \* keys of downstream_channel_id_and_job_id_to_template_id
    prefix,           \* how often the upstream extranonce prefix was set
    offered,          \* history: hashes offered to each cache since it was emptied
    forwardedStale,   \* history: a share of another tip went to the pool
    stop              \* "no", "fallback" or "shutdown"

tpState == <<tp, futures>>
templates == <<templateStore, lastFuture, lastPrevHash>>
jobs == <<declared, requests, upstreamJob>>
peers == <<jds, pool, txData>>
caches == <<cached, offered>>
vars == <<mode, upstreamState, upstreamChannel, pendingRequests, tpState, templates,
          tokens, jobs, peers, caches, downstream, jobMap, prefix, forwardedStale, stop>>

Running == stop = "no"
Registered == {d \in Downstreams : downstream[d].at = "registered"}
Connected == upstreamState = "Connected"

\* What MaxChurn bounds.
Closed(d) == (1..(downstream[d].nextId - 1)) \ DOMAIN downstream[d].chans
Churn == prefix + Cardinality({d \in Downstreams : downstream[d].at = "gone"})
           + Cardinality(UNION {{d} \X Closed(d) : d \in Downstreams})

\* What MaxEffort bounds, with n more.
Room(n) ==
    tp.sent + requests + Churn + n
      + Cardinality({o \in Downstreams \X (1..MaxOpens) : o[2] <= downstream[o[1]].opens})
      + Cardinality({o \in Templates \X Hashes : o[2] \in offered[o[1]]}) <= MaxEffort

\* The future template that opened the tip template t was built on.
TipOf(t) == Max({f \in futures : f <= t})

----------------------------------------------------------------------------
(* Channels of channels_sv2, as the channel manager uses them.               *)

NoJobs == [active |-> None, future |-> {}, past |-> {}]

OnNewTemplate(js, t, future) ==
    IF future
      THEN [js EXCEPT !.future = @ \cup {t}]
      ELSE [js EXCEPT !.past = @ \cup ({js.active} \ {None}), !.active = t]

\* on_set_new_prev_hash fails when the template is not among the future jobs.
OnSetNewPrevHash(js, t) == [active |-> t, future |-> {}, past |-> {}]

Mineable(js) == ({js.active} \ {None}) \cup js.past

NoUpstream == [open |-> FALSE, tip |-> None, jobs |-> {}]
OnChainTipUpdate(u, t) == IF u.open THEN [u EXCEPT !.tip = t, !.jobs = {}] ELSE u

----------------------------------------------------------------------------
\* A DeclaredJob: its template, prev_hash, whether the template is still in the
\* future, and whether its set_custom_mining_job is there.
DeclaredJob(t, p, future, custom) ==
    [t |-> t, prev |-> p, future |-> future, custom |-> custom]
Declare(r) == [type |-> "declare", r |-> r]
Custom(r) == [type |-> "custom", r |-> r]
Token == [type |-> "token", r |-> 0]

NewDownstream ==
    [at |-> "absent", sees |-> None, group |-> NoJobs,
     opens |-> 0, waits |-> 0, nextId |-> 1, chans |-> <<>>]

\* try_upstream has set the state and asked for two tokens.
Init ==
    /\ mode \in Modes
    /\ upstreamState = IF mode = "solo" THEN "SoloMining" ELSE "NoChannel"
    /\ jds = IF mode = "solo" THEN <<>> ELSE <<Token, Token>>
    /\ upstreamChannel = NoUpstream
    /\ pendingRequests = <<>>
    /\ tp = [sent |-> 0, pending |-> None]
    /\ futures = {}
    /\ templateStore = {} /\ lastFuture = None /\ lastPrevHash = None
    /\ tokens = 0
    /\ declared = <<>> /\ requests = 0 /\ upstreamJob = {}
    /\ pool = <<>> /\ txData = {}
    /\ cached = [t \in Templates |-> {}] /\ offered = [t \in Templates |-> {}]
    /\ downstream = [d \in Downstreams |-> NewDownstream]
    /\ jobMap = {}
    /\ prefix = 0
    /\ forwardedStale = FALSE
    /\ stop = "no"

\* handle_error_action for the actions that end the loop; the runtime drops the
\* channel manager with everything in it.
TearDown(action) ==
    /\ stop' = action
    /\ upstreamChannel' = NoUpstream
    /\ pendingRequests' = <<>>
    /\ tp' = [sent |-> 0, pending |-> None]
    /\ futures' = {}
    /\ templateStore' = {} /\ lastFuture' = None /\ lastPrevHash' = None
    /\ tokens' = 0
    /\ declared' = <<>> /\ requests' = 0 /\ upstreamJob' = {}
    /\ pool' = <<>> /\ txData' = {}
    /\ cached' = [t \in Templates |-> {}] /\ offered' = [t \in Templates |-> {}]
    /\ downstream' = [d \in Downstreams |-> NewDownstream]
    /\ jobMap' = {}
    /\ prefix' = 0
    /\ upstreamState' = "NoChannel" /\ jds' = <<>>
    /\ UNCHANGED <<mode, forwardedStale>>

\* remove_downstream, which is also handle_error_action for Disconnect: the
\* requests it left in pending_downstream_requests stay there.
RemoveDownstream(d) ==
    /\ downstream' = [downstream EXCEPT ![d] =
                        [NewDownstream EXCEPT !.at = "gone", !.opens = downstream[d].opens]]
    /\ jobMap' = {k \in jobMap : k[1] # d}


----------------------------------------------------------------------------
(* Connections: start_downstream_server and bootstrap_group_channel.         *)

\* Environment: a miner connects once the template data is there.  The first
\* read of bootstrap_group_channel.
ReadFutureTemplate(d) ==
    /\ Running
    /\ downstream[d].at = "absent"
    /\ lastFuture # None /\ lastPrevHash # None
    /\ downstream' = [downstream EXCEPT ![d].at = "bootstrap", ![d].sees = lastFuture]
    /\ UNCHANGED <<mode, upstreamState, upstreamChannel, pendingRequests, tpState, templates,
                   tokens, jobs, peers, caches, jobMap, prefix, forwardedStale, stop>>

\* The second read, and the group channel built from both; when they do not
\* belong together the whole client is cancelled.
BootstrapGroupChannel(d) ==
    /\ Running
    /\ downstream[d].at = "bootstrap"
    /\ IF downstream[d].sees = lastPrevHash
         THEN /\ downstream' = [downstream EXCEPT ![d].at = "built",
                      ![d].group = OnSetNewPrevHash(NoJobs, lastPrevHash)]
              /\ UNCHANGED <<mode, upstreamState, upstreamChannel, pendingRequests, tpState,
                      templates, tokens, jobs, peers, caches, jobMap, prefix, forwardedStale, stop>>
         ELSE TearDown("shutdown")

\* The sender and the downstream are inserted; its SetupConnection follows.
Register(d) ==
    /\ Running
    /\ downstream[d].at = "built"
    /\ downstream' = [downstream EXCEPT ![d].at = "registered", ![d].sees = None]
    /\ UNCHANGED <<mode, upstreamState, upstreamChannel, pendingRequests, tpState, templates,
                   tokens, jobs, peers, caches, jobMap, prefix, forwardedStale, stop>>

\* handle_setup_connection refuses the protocol, the version or work selection.
SetupRefused(d) == d \in Registered /\ downstream[d].opens = 0

\* handle_downstream_message: the peer left or sent a frame that does not parse.
PeerLeaves(d) == d \in Registered /\ downstream[d].opens > 0

\* The downstream's task ends, or a handler disconnects it.
Leave(d) ==
    /\ Running
    /\ SetupRefused(d) \/ PeerLeaves(d)
    /\ Churn < MaxChurn /\ Room(1)
    /\ RemoveDownstream(d)
    /\ UNCHANGED <<mode, upstreamState, upstreamChannel, pendingRequests, tpState, templates,
                   tokens, jobs, peers, caches, prefix, forwardedStale, stop>>

----------------------------------------------------------------------------
(* The template provider.                                                    *)

\* The walk over the registered downstreams, their group channels and channels,
\* and the job ids it records.
EachChannel(Op(_)) ==
    [d \in Downstreams |->
       IF d \in Registered
         THEN [downstream[d] EXCEPT !.group = Op(@),
                                    !.chans = [c \in DOMAIN @ |-> [@[c] EXCEPT !.jobs = Op(@)]]]
         ELSE downstream[d]]
WalkNewTemplate(t, future) == EachChannel(LAMBDA js : OnNewTemplate(js, t, future))
WalkSetNewPrevHash(t) == EachChannel(LAMBDA js : OnSetNewPrevHash(js, t))

JobKeys(t) == UNION {{<<d, c, t>> : c \in DOMAIN downstream[d].chans} : d \in Registered}

NextFutureTemplate(t, future) == IF future THEN t ELSE lastFuture

\* In coinbase-only mode a template takes a token, if there is one to take, and
\* that token pays for a custom job per downstream.
TakesToken(future) ==
    ~future /\ mode = "coinbase" /\ upstreamChannel.open /\ lastPrevHash # None /\ tokens > 0

CustomJobs(t, n) ==
    /\ declared' = [r \in DOMAIN declared \cup (requests + 1)..(requests + n) |->
                      IF r > requests THEN DeclaredJob(t, lastPrevHash, FALSE, TRUE)
                      ELSE declared[r]]
    /\ requests' = requests + n
    /\ pool' = pool \o [i \in 1..n |-> Custom(requests + i)]

\* request_transaction_data, asked for only where the answer can be used.
RequestTransactionData(ts) == txData' = IF mode = "full" THEN txData \cup ts ELSE txData

\* handle_new_template.
HandleNewTemplate(future) ==
    LET t == tp.sent + 1
        token == TakesToken(future)
        n == IF token THEN Cardinality(Registered) ELSE 0
    IN /\ Running
       /\ tp.pending = None
       /\ t <= MaxTemplate /\ requests + n <= MaxRequest /\ Room(n + 1)
       /\ ~future => lastPrevHash # None
       /\ tp' = [sent |-> t, pending |-> IF future THEN t ELSE None]
       /\ futures' = IF future THEN futures \cup {t} ELSE futures
       /\ templateStore' = templateStore \cup {t}
       /\ lastFuture' = NextFutureTemplate(t, future)
       /\ RequestTransactionData(IF Connected THEN {t} ELSE {})
       /\ tokens' = IF token THEN tokens - 1 ELSE tokens
       /\ jds' = IF token THEN Append(jds, Token) ELSE jds
       /\ CustomJobs(t, n)
       /\ downstream' = WalkNewTemplate(t, future)
       /\ jobMap' = jobMap \cup JobKeys(t)
       /\ UNCHANGED <<mode, upstreamState, upstreamChannel, pendingRequests, lastPrevHash,
                      upstreamJob, caches, prefix, forwardedStale, stop>>

\* request_tx_data: the error codes for a stale or unknown template and the
\* other ones are only logged.
HandleRequestTxDataError ==
    /\ Running
    /\ \E t \in txData : txData' = txData \ {t}
    /\ UNCHANGED <<mode, upstreamState, upstreamChannel, pendingRequests, tpState, templates,
                   tokens, jobs, jds, pool, caches, downstream, jobMap, prefix,
                   forwardedStale, stop>>

\* Mutant: the token is not asked for again.
MutAskToken == <<>>
AskToken == <<Token>>

\* Mutant: a future template is declared as soon as its transactions are known.
MutKept(t) == FALSE
Kept(t) == t \in futures /\ lastPrevHash # t

\* handle_request_tx_data_success: a future template that SetNewPrevHash has
\* not named is kept for later, everything else is declared at once.
HandleRequestTxDataSuccess ==
    \E t \in txData :
      LET r == requests + 1
          usable == tokens > 0 /\ t \in templateStore
      IN /\ Running
         /\ r <= MaxRequest /\ Room(1)
         /\ txData' = txData \ {t}
         /\ templateStore' = templateStore \ {t}
         /\ tokens' = IF tokens > 0 THEN tokens - 1 ELSE 0
         /\ declared' = IF usable
              THEN r :> DeclaredJob(t, lastPrevHash, t \in futures, FALSE) @@ declared ELSE declared
         /\ requests' = r
         /\ jds' = jds \o AskToken \o (IF usable /\ ~Kept(t) THEN <<Declare(r)>> ELSE <<>>)
         /\ UNCHANGED <<mode, upstreamState, upstreamChannel, pendingRequests, tpState,
                        lastFuture, lastPrevHash, upstreamJob, pool, caches, downstream,
                        jobMap, prefix, forwardedStale, stop>>

\* handle_set_new_prev_hash, first half: the declared job of the future
\* template is sent now, and in coinbase-only mode a custom job for it; the
\* token goes even when there is no upstream channel to use it on.
ActivateDeclared(t) ==
    LET held == {q \in DOMAIN declared : declared[q].t = lastFuture}
        token == mode = "coinbase" /\ tokens > 0
        used == token /\ upstreamChannel.open
        r == requests + 1
        activated == [q \in DOMAIN declared |->
                        IF declared[q].future /\ declared[q].t = t
                          THEN [declared[q] EXCEPT !.prev = t, !.future = FALSE]
                          ELSE declared[q]]
    IN /\ used => r <= MaxRequest /\ Room(1)
       /\ tokens' = IF token THEN tokens - 1 ELSE tokens
       /\ declared' = IF used THEN r :> DeclaredJob(t, t, FALSE, TRUE) @@ activated ELSE activated
       /\ requests' = IF used THEN r ELSE requests
       /\ pool' = IF used THEN Append(pool, Custom(r)) ELSE pool
       /\ jds' = (IF held # {} /\ mode = "full" THEN Append(jds, Declare(Max(held))) ELSE jds)
                   \o (IF used THEN <<Token>> ELSE <<>>)

\* Mutant: the shares cached for the old tip stay.
MutCacheAtTip(cache) == cache
CacheAtTip(cache) == [t \in Templates |-> {}]

\* Second half: the walk over the downstreams.  A group channel that does not
\* hold the template sends the client into fallback.
HandleSetNewPrevHash ==
    LET t == tp.pending
    IN /\ Running
       /\ t # None
       /\ IF \E d \in Registered : t \notin downstream[d].group.future
            THEN TearDown("fallback")
            ELSE /\ tp' = [tp EXCEPT !.pending = None]
                 /\ cached' = CacheAtTip(cached) /\ offered' = CacheAtTip(offered)
                 /\ upstreamChannel' = OnChainTipUpdate(upstreamChannel, t)
                 /\ lastPrevHash' = t
                 /\ ActivateDeclared(t)
                 /\ downstream' = WalkSetNewPrevHash(t)
                 /\ jobMap' = jobMap \cup JobKeys(t)
                 /\ UNCHANGED <<mode, upstreamState, pendingRequests, futures, templateStore,
                                lastFuture, upstreamJob, txData, prefix, forwardedStale, stop>>

----------------------------------------------------------------------------
(* The job declarator server.                                                *)

HandleAllocateMiningJobTokenSuccess ==
    /\ Running
    /\ jds # <<>> /\ Head(jds) = Token
    /\ jds' = Tail(jds)
    /\ tokens' = tokens + 1
    /\ UNCHANGED <<mode, upstreamState, upstreamChannel, pendingRequests, tpState, templates,
                   jobs, pool, txData, caches, downstream, jobMap, prefix, forwardedStale, stop>>

\* handle_declare_mining_job_error: a stale chain tip is not fatal, and leaves
\* the declared job in its store; any other code is a fallback.
HandleDeclareMiningJobError ==
    /\ Running
    /\ jds # <<>> /\ Head(jds).type = "declare"
    /\ \/ TearDown("fallback")
       \/ /\ jds' = Tail(jds)
          /\ UNCHANGED <<mode, upstreamState, upstreamChannel, pendingRequests, tpState,
                  templates, tokens, jobs, pool, txData, caches, downstream, jobMap, prefix,
                  forwardedStale, stop>>

HandleDeclareMiningJobSuccess ==
    LET r == Head(jds).r
    IN /\ Running
       /\ jds # <<>> /\ Head(jds).type = "declare"
       /\ jds' = Tail(jds)
       /\ IF r \in DOMAIN declared /\ declared[r].prev # None /\ upstreamChannel.open
            THEN /\ declared' = [declared EXCEPT ![r].custom = TRUE]
                 /\ pool' = Append(pool, Custom(r))
            ELSE UNCHANGED <<declared, pool>>
       /\ UNCHANGED <<mode, upstreamState, upstreamChannel, pendingRequests, tpState, templates,
                      tokens, requests, upstreamJob, txData, caches, downstream, jobMap, prefix,
                      forwardedStale, stop>>

\* handle_provide_missing_transactions: the declaration waits for its answer
\* again, behind what was sent since.
HandleProvideMissingTransactions ==
    /\ Running
    /\ Len(jds) > 1 /\ Head(jds).type = "declare"
    /\ jds' = Append(Tail(jds), Head(jds))
    /\ UNCHANGED <<mode, upstreamState, upstreamChannel, pendingRequests, tpState, templates,
                   tokens, jobs, pool, txData, caches, downstream, jobMap, prefix,
                   forwardedStale, stop>>

----------------------------------------------------------------------------
(* Opening channels.                                                         *)

ChannelsOpen(ds) == Cardinality(UNION {{<<d, c>> : c \in DOMAIN ds[d].chans} : d \in Downstreams})

\* The two open handlers work on s, the part of the state they change.  Every
\* way to refuse answers the request.
AllocatorExhausted(s) == ChannelsOpen(s.downstream) >= Capacity
Answered(me) == [me EXCEPT !.waits = IF @ > 0 THEN @ - 1 ELSE 0]

\* The channel gets the last future template and the last prev hash; when they
\* do not belong together the client shuts down.
WithChannel(s, d, kind) ==
    LET me == Answered(s.downstream[d])
        channel == [kind |-> kind, jobs |-> OnSetNewPrevHash(NoJobs, lastPrevHash),
                    prefix |-> prefix]
    IN IF lastFuture # lastPrevHash THEN [s EXCEPT !.error = "shutdown"]
       ELSE [s EXCEPT !.downstream[d] = [me EXCEPT !.nextId = @ + 1,
                                                   !.chans = me.nextId :> channel @@ @],
                      !.jobMap = @ \cup {<<d, me.nextId, lastPrevHash>>}]

HandleOpenStandardMiningChannel(s, d) ==
    IF AllocatorExhausted(s) THEN [s EXCEPT !.downstream[d] = Answered(@)]
    ELSE WithChannel(s, d, "std")

HandleOpenExtendedMiningChannel(s, d) ==
    IF d \in StdDownstreams \/ AllocatorExhausted(s)
      THEN [s EXCEPT !.downstream[d] = Answered(@)]
      ELSE WithChannel(s, d, "ext")

\* with_registered_downstream: the request of a downstream that has left is an error.
HandleOpenMiningChannel(s, d, kind) ==
    IF s.downstream[d].at # "registered" THEN [s EXCEPT !.error = "disconnect"]
    ELSE IF kind = "std" THEN HandleOpenStandardMiningChannel(s, d)
    ELSE HandleOpenExtendedMiningChannel(s, d)

Opening(ds) == [downstream |-> ds, jobMap |-> jobMap, error |-> "no"]
Opened(s) == downstream' = s.downstream /\ jobMap' = s.jobMap /\ UNCHANGED stop

\* handle_downstream_message for an open request; the request of a downstream
\* that has left meanwhile may still be in the queue.
RequestOpen(d, kind) ==
    LET ds == [downstream EXCEPT ![d].opens = @ + 1]
        waiting == [ds EXCEPT ![d].waits = IF d \in Registered THEN @ + 1 ELSE 0]
        request == [d |-> d, kind |-> kind]
        handled == HandleOpenMiningChannel(Opening(ds), d, kind)
    IN /\ Running
       /\ downstream[d].at \in {"registered", "gone"}
       /\ downstream[d].opens < MaxOpens
       /\ Room(1)
       /\ \/ /\ upstreamState = "NoChannel"
             /\ pendingRequests' = <<request>> \o pendingRequests
             /\ upstreamState' = "Pending"
             /\ pool' = Append(pool, [type |-> "open", r |-> 0])
             /\ Opened(Opening(waiting))
             /\ UNCHANGED <<mode, upstreamChannel, tpState, templates, tokens, jobs, jds, txData,
                            caches, prefix, forwardedStale>>
          \/ /\ upstreamState = "Pending"
             /\ pendingRequests' = Append(pendingRequests, request)
             /\ Opened(Opening(waiting))
             /\ UNCHANGED <<mode, upstreamState, upstreamChannel, tpState, templates, tokens, jobs,
                            peers, caches, prefix, forwardedStale>>
          \/ /\ upstreamState \in {"Connected", "SoloMining"}
             /\ IF handled.error = "shutdown" THEN TearDown("shutdown")
                ELSE /\ Opened(handled)
                     /\ UNCHANGED <<mode, upstreamState, upstreamChannel, pendingRequests, tpState,
                             templates, tokens, jobs, peers, caches, prefix, forwardedStale>>

\* The replay of the pending requests at the end of
\* handle_open_extended_mining_channel_success: the first error ends it, and
\* the requests behind it are dropped.
Replay(s, reqs) ==
    FoldLeft(LAMBDA acc, q : IF acc.error # "no" THEN acc
                             ELSE HandleOpenMiningChannel(acc, q.d, q.kind), s, reqs)

\* Mutant: the state is not put back when there is no room for an allocator.
MutUselessChannel == "Pending"
UselessChannel == "NoChannel"

\* handle_open_extended_mining_channel_success.  The extranonce the pool grants
\* may be too small or its target invalid (fallback), or leave no room for an
\* allocator: then the upstream channel is closed again and the requests wait.
\* The coinbase-only custom job is never sent: there is no job factory yet.
HandleOpenExtendedMiningChannelSuccess ==
    LET replayed == Replay(Opening(downstream), pendingRequests)
    IN /\ Running
       /\ pool # <<>> /\ Head(pool).type = "open"
       /\ \/ TearDown("fallback")
          \/ /\ pool' = Tail(pool)
             /\ upstreamState' = UselessChannel
             /\ UNCHANGED <<mode, upstreamChannel, pendingRequests, tpState, templates, tokens, jobs,
                            jds, txData, caches, downstream, jobMap, prefix, forwardedStale, stop>>
          \/ IF replayed.error = "shutdown" THEN TearDown("shutdown")
             ELSE /\ pool' = Tail(pool)
                  /\ upstreamState' = "Connected"
                  /\ upstreamChannel' = [open |-> TRUE, tip |-> lastPrevHash, jobs |-> {}]
                  /\ RequestTransactionData({lastFuture} \ {None})
                  /\ Opened(replayed)
                  /\ pendingRequests' = <<>>
                  /\ UNCHANGED <<mode, tpState, templates, tokens, jobs, jds, caches, prefix,
                                 forwardedStale>>

\* handle_open_mining_channel_error, handle_update_channel_error,
\* handle_close_channel and a standard channel the client never asked for.
HandleUpstreamRefusal ==
    /\ Running
    /\ upstreamState \in {"Pending", "Connected"}
    /\ TearDown("fallback")

----------------------------------------------------------------------------
(* Custom jobs and shares.                                                   *)

\* What leaves for the pool with a share of template t.
Forward(t, u) == forwardedStale' = (forwardedStale \/ TipOf(t) # u.tip)

\* add_share_to_cache keeps the CacheCapacity best shares.
AddShareToCache(heap, h) ==
    IF Cardinality(heap) < CacheCapacity THEN heap \cup {h}
    ELSE IF h < Max(heap) THEN (heap \ {Max(heap)}) \cup {h} ELSE heap

\* handle_set_custom_mining_job_success: the shares cached for the template go
\* upstream when the channel accepts the job (validate_cached_share); a job for
\* another tip than the channel's is only logged.
HandleSetCustomMiningJobSuccess ==
    LET r == Head(pool).r
        t == declared[r].t
        accepted == declared[r].prev = upstreamChannel.tip
    IN /\ Running
       /\ pool # <<>> /\ Head(pool).type = "custom"
       /\ IF r \notin DOMAIN declared THEN TearDown("fallback")
          ELSE /\ pool' = Tail(pool)
               /\ declared' = [q \in DOMAIN declared \ {r} |-> declared[q]]
               /\ upstreamJob' = upstreamJob \cup {t}
               /\ cached' = [cached EXCEPT ![t] = {}] /\ offered' = [offered EXCEPT ![t] = {}]
               /\ upstreamChannel' = IF accepted THEN [upstreamChannel EXCEPT !.jobs = @ \cup {t}]
                                     ELSE upstreamChannel
               /\ IF accepted /\ cached[t] # {} THEN Forward(t, upstreamChannel)
                  ELSE UNCHANGED forwardedStale
               /\ UNCHANGED <<mode, upstreamState, pendingRequests, tpState, templates, tokens,
                              requests, jds, txData, downstream, jobMap, prefix, stop>>

\* handle_set_custom_mining_job_error: a stale chain tip drops the job and the
\* shares cached for it, any other code is a fallback.
HandleSetCustomMiningJobError ==
    LET r == Head(pool).r
        t == declared[r].t
    IN /\ Running
       /\ pool # <<>> /\ Head(pool).type = "custom"
       /\ \/ TearDown("fallback")
          \/ /\ pool' = Tail(pool)
             /\ IF r \in DOMAIN declared
                  THEN /\ declared' = [q \in DOMAIN declared \ {r} |-> declared[q]]
                       /\ cached' = [cached EXCEPT ![t] = {}]
                       /\ offered' = [offered EXCEPT ![t] = {}]
                  ELSE UNCHANGED <<declared, caches>>
             /\ UNCHANGED <<mode, upstreamState, upstreamChannel, pendingRequests, tpState, templates,
                            tokens, requests, upstreamJob, jds, txData, downstream, jobMap, prefix,
                            forwardedStale, stop>>

Reprefixed(chans) == [c \in DOMAIN chans |-> [chans[c] EXCEPT !.prefix = prefix + 1]]

\* handle_set_extranonce_prefix: a new allocator, and a new prefix for every
\* channel, or a fallback when the prefix does not fit.
HandleSetExtranoncePrefix ==
    /\ Running
    /\ upstreamChannel.open
    /\ Churn < MaxChurn /\ Room(1)
    /\ \/ TearDown("fallback")
       \/ /\ prefix' = prefix + 1
          /\ downstream' = [d \in Downstreams |-> [downstream[d] EXCEPT !.chans = Reprefixed(@)]]
          /\ UNCHANGED <<mode, upstreamState, upstreamChannel, pendingRequests, tpState, templates,
                         tokens, jobs, peers, caches, jobMap, forwardedStale, stop>>

\* What the two share handlers do with a share their channel has accepted: it
\* goes to the pool when the pool has acknowledged the job of its template and
\* the upstream channel accepts it too, and into the cache of its template
\* while the pool has not.  Without an upstream channel it goes nowhere.
ShareUpstream(d, c, t, h) ==
    /\ upstreamChannel.open
    /\ <<d, c, t>> \in jobMap
    /\ IF t \in upstreamJob
         THEN /\ t \in upstreamChannel.jobs
              /\ Forward(t, upstreamChannel)
              /\ UNCHANGED caches
         ELSE /\ h \notin offered[t] /\ Room(1)
              /\ cached' = [cached EXCEPT ![t] = AddShareToCache(@, h)]
              /\ offered' = [offered EXCEPT ![t] = @ \cup {h}]
              /\ UNCHANGED forwardedStale

\* The shares a channel accepts; every other one is answered with an error.
ShareAccepted(d, c, kind, t) ==
    /\ d \in Registered /\ c \in DOMAIN downstream[d].chans
    /\ downstream[d].chans[c].kind = kind
    /\ t \in Mineable(downstream[d].chans[c].jobs)

HandleSubmitSharesStandard(d, c, t, h) ==
    /\ Running
    /\ ShareAccepted(d, c, "std", t)
    /\ ShareUpstream(d, c, t, h)
    /\ UNCHANGED <<mode, upstreamState, upstreamChannel, pendingRequests, tpState, templates,
                   tokens, jobs, peers, downstream, jobMap, prefix, stop>>

HandleSubmitSharesExtended(d, c, t, h) ==
    /\ Running
    /\ ShareAccepted(d, c, "ext", t)
    /\ ShareUpstream(d, c, t, h)
    /\ UNCHANGED <<mode, upstreamState, upstreamChannel, pendingRequests, tpState, templates,
                   tokens, jobs, peers, downstream, jobMap, prefix, stop>>

\* handle_close_channel from a downstream: the job ids of the channel stay.
HandleCloseChannel(d, c) ==
    /\ Running
    /\ d \in Registered /\ c \in DOMAIN downstream[d].chans
    /\ Churn < MaxChurn /\ Room(1)
    /\ downstream' = [downstream EXCEPT ![d].chans =
                        [x \in DOMAIN @ \ {c} |-> @[x]]]
    /\ UNCHANGED <<mode, upstreamState, upstreamChannel, pendingRequests, tpState, templates,
                   tokens, jobs, peers, caches, jobMap, prefix, forwardedStale, stop>>

----------------------------------------------------------------------------
FromTemplateProvider ==
    \/ \E future \in BOOLEAN : HandleNewTemplate(future)
    \/ HandleSetNewPrevHash
    \/ HandleRequestTxDataSuccess \/ HandleRequestTxDataError

FromJobDeclarator ==
    \/ HandleAllocateMiningJobTokenSuccess
    \/ HandleDeclareMiningJobSuccess \/ HandleDeclareMiningJobError
    \/ HandleProvideMissingTransactions

FromPool ==
    \/ HandleOpenExtendedMiningChannelSuccess \/ HandleUpstreamRefusal
    \/ HandleSetCustomMiningJobSuccess \/ HandleSetCustomMiningJobError
    \/ HandleSetExtranoncePrefix

FromDownstream(d) ==
    \/ ReadFutureTemplate(d) \/ BootstrapGroupChannel(d) \/ Register(d) \/ Leave(d)
    \/ \E kind \in {"std", "ext"} : (d \in ExtDownstreams => kind = "ext") /\ RequestOpen(d, kind)
    \/ \E c \in 1..MaxOpens : HandleCloseChannel(d, c)
    \/ \E c \in 1..MaxOpens, t \in Templates, h \in Hashes :
          HandleSubmitSharesStandard(d, c, t, h) \/ HandleSubmitSharesExtended(d, c, t, h)

Next == FromTemplateProvider \/ FromJobDeclarator \/ FromPool
          \/ \E d \in Downstreams : FromDownstream(d)

\* The pool answers the request for a channel, and the channel manager reads it.
Fairness == WF_vars(HandleOpenExtendedMiningChannelSuccess)

Spec == Init /\ [][Next]_vars /\ Fairness

----------------------------------------------------------------------------
JobRecord == [active : Templates \cup {None}, future : SUBSET Templates, past : SUBSET Templates]

\* The state keeps the shape the declarations of channel_manager/mod.rs give it.
TypeOK ==
    /\ upstreamState \in {"NoChannel", "Pending", "Connected", "SoloMining"}
    /\ stop \in {"no", "fallback", "shutdown"}
    /\ templateStore \subseteq 1..tp.sent
    /\ {lastFuture, lastPrevHash} \subseteq futures \cup {None}
    /\ DOMAIN declared \subseteq 1..requests
    /\ \A i \in DOMAIN pendingRequests : pendingRequests[i].d \in Downstreams
    /\ \A d \in Downstreams : \A c \in DOMAIN downstream[d].chans :
          downstream[d].chans[c].jobs \in JobRecord
    /\ jobMap \subseteq Downstreams \X (1..MaxOpens) \X Templates

\* In full-template mode the supply of tokens never dries up: the ones at hand
\* and the ones the job declarator was asked for are at least two together, as
\* try_upstream left them (handle_request_tx_data_success asks again for every
\* token it takes, and once more when it found none).
TokenSupply ==
    Running /\ mode = "full" => tokens + Cardinality({i \in DOMAIN jds : jds[i] = Token}) >= 2

\* A declared job is with one peer at a time and asked for once: every
\* SetCustomMiningJob the pool still has to answer finds its entry in
\* last_declare_job_store, so that handle_set_custom_mining_job_success never
\* falls back for LastDeclareJobNotFound, and no declaration is sent again by
\* handle_set_new_prev_hash while it is out.
EachDeclarationOnce ==
    LET out == SelectSeq(jds, LAMBDA q : q.type = "declare")
                 \o SelectSeq(pool, LAMBDA q : q.type = "custom")
    IN /\ \A i, j \in DOMAIN out : out[i].r = out[j].r => i = j
       /\ \A i \in DOMAIN out : out[i].r \in DOMAIN declared
       /\ \A i \in DOMAIN pool :
             pool[i].type = "custom" => declared[pool[i].r].custom

\* A share waits in the cache only for a template of the current tip:
\* handle_set_new_prev_hash empties the caches and a channel it has moved on
\* accepts no share of an older template.
CachedSharesCurrent ==
    Running => \A t \in Templates : cached[t] # {} => TipOf(t) = lastPrevHash

\* The pool is never sent a share of a template of another tip than the one the
\* upstream channel is on, however late the template's transactions, its
\* declaration and its acknowledgement came.
NoStaleForward == ~forwardedStale

\* The cache of a template holds the best of all shares offered to it since it
\* was last emptied (add_share_to_cache).
CacheKeepsBest ==
    \A t \in Templates :
      /\ cached[t] \subseteq offered[t]
      /\ Cardinality(cached[t]) =
           IF Cardinality(offered[t]) < CacheCapacity THEN Cardinality(offered[t]) ELSE CacheCapacity
      /\ \A h \in cached[t], g \in offered[t] \ cached[t] : h < g

\* Every job a channel accepts shares for has its template recorded, whether
\* the channel got it when it opened or from a later template, so that no
\* accepted share is dropped for want of a template id.
EveryJobHasTemplate ==
    Running => \A d \in Registered : \A c \in DOMAIN downstream[d].chans :
                 \A t \in Mineable(downstream[d].chans[c].jobs) : <<d, c, t>> \in jobMap

\* No share goes to the pool stale, and none is lost before it may go: it finds
\* its template, and waits in its cache only as long as it is worth something.
NoShareStaleOrLost ==
    NoStaleForward /\ EveryJobHasTemplate /\ CachedSharesCurrent /\ CacheKeepsBest

\* The client has asked the pool for a channel exactly when it says so, however
\* many downstreams ask at once and whether or not an earlier answer was useless.
OneUpstreamOpen ==
    Running => (upstreamState = "Pending") = (\E i \in DOMAIN pool : pool[i].type = "open")

\* After SetExtranoncePrefix no channel keeps a prefix of the old upstream
\* prefix, also not one opened while requests were waiting.
PrefixesFollowUpstream ==
    \A d \in Registered : \A c \in DOMAIN downstream[d].chans :
      downstream[d].chans[c].prefix = prefix

\* What the client keeps about its peers is what it asked them for and was told:
\* tokens, the upstream channel, the extranonce prefix.
PeersAccountedFor == TypeOK /\ TokenSupply /\ OneUpstreamOpen /\ PrefixesFollowUpstream

\* Waiting for the upstream channel ends when the pool answers: the channel is
\* there, or it can be asked for again, or the client has given the pool up.
PendingResolves == (upstreamState = "Pending") ~> (upstreamState # "Pending" \/ ~Running)

\* "Once the upstream state transitions to `Connected`, all pending downstream
\* requests are processed, and downstream channels are opened accordingly"
\* (upstream_message_handler.rs): no request of a registered downstream is
\* unanswered while it is not in the queue.
PendingAllProcessed ==
    Running => \A d \in Registered :
      downstream[d].waits <= Cardinality({i \in DOMAIN pendingRequests : pendingRequests[i].d = d})
=============================================================================
