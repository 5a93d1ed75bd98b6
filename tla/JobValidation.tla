--------------------------- MODULE JobValidation ---------------------------
(***************************************************************************)
(* The Job Declaration runtime of bitcoin-core-sv2 and the jd-server       *)
(* engine that owns its thread: the bootstrap of the mempool mirror, the   *)
(* monitor that follows Bitcoin Core's templates, the loop that validates  *)
(* one declaration at a time with checkBlock, and shutdown.  Bitcoin Core  *)
(* is external: it answers, fails or stays silent.                         *)
(*                                                                         *)
(* A chain tip is a number and stands for its prev_hash, nbits and height; *)
(* ntime only feeds the assembled header and is left out.  The caller has  *)
(* already refused a coinbase without exactly one input, so a declaration  *)
(* here always has one.  version picks the backend: v31x and v30x differ   *)
(* in the interrupt of createNewBlock, the monitor's own IPC thread and    *)
(* the thread-busy retry.                                                  *)
(***************************************************************************)
EXTENDS Naturals, FiniteSetsExt, SequencesExt

CONSTANTS
    Txs,             \* ordinary transactions, each standing for its wtxid
    TxWeight,        \* their weights
    MaxTip,          \* bound: the chain tips are 0 .. MaxTip
    Mineable,        \* external: the transactions a block on each tip may hold
    Offers,          \* external: sets of transactions Core may put in a template
    MaxBlockWeight,
    CoinbaseWeight,
    MaxCarryOver,    \* MAX_MIRROR_CARRY_OVER_WEIGHT
    MaxDeclared,     \* MAX_DECLARED_TXS
    Requests,        \* what clients declare: tip, wtxid list, supplied transactions
    None, Push,      \* no value; a PushSolution request
    MaxInbox         \* bound on the requests waiting in the channel

CoinbaseTx == "coinbase"
Tips == 0 .. MaxTip

ASSUME WeightsAssumption ==
    /\ TxWeight \in [Txs -> Nat \ {0}]
    /\ {MaxBlockWeight, CoinbaseWeight, MaxCarryOver, MaxDeclared, MaxTip} \subseteq Nat
    /\ Mineable \in [Tips -> SUBSET Txs]

VARIABLES
    version,   \* "v30" or "v31"
    tip,       \* Bitcoin Core's chain tip
    silent,    \* Bitcoin Core has stopped answering
    cancel,    \* the shared cancellation token
    engine,    \* BitcoinCoreIPCEngine: starting, ready, failed, closing, closed
    thread,    \* where the JDP thread is
    monitor,   \* where the monitor task is
    tmpl,      \* current_template_ipc_client: the template it points to
    mirror,    \* MempoolMirror
    inbox,     \* incoming_requests
    job,       \* the declaration under checkBlock and its initial context
    verdict,   \* Bitcoin Core's answer to checkBlock, not yet read
    asked,     \* the conversation of one client that was asked for transactions
    trimmed,   \* the mirror dropped entries at the same tip since it was asked
    skipped    \* v30x: the last template never reached the mirror

core == <<version, tip, silent>>
handling == <<inbox, job, verdict, asked>>
data == <<tmpl, mirror, handling, trimmed, skipped>>
vars == <<core, cancel, engine, thread, monitor, data>>

Weights == [S \in SUBSET Txs |-> MapThenSumSet(LAMBDA t : TxWeight[t], S)]

WeightOf(S) == Weights[S]

MaxMirrorWeight == MaxBlockWeight + MaxCarryOver

\* External: what a template may hold beside its coinbase.
Templates == {S \in Offers : WeightOf(S) + CoinbaseWeight <= MaxBlockWeight}

Empty == [prev |-> None, tx |-> {}]

Init ==
    /\ version \in {"v30", "v31"}
    /\ tip = 0 /\ silent = FALSE /\ cancel = FALSE
    /\ engine = "starting" /\ thread = "connect" /\ monitor = "off"
    /\ tmpl = None
    /\ mirror = Empty
    /\ inbox = <<>> /\ job = None /\ verdict = None /\ asked = None
    /\ trimmed = FALSE /\ skipped = FALSE

\* The token is cancelled.  Every later step that reads a request, a template
\* or the mirror gives way to it, and jd-server's loop ends with its
\* conversations, so their values are forgotten here.
CancelToken ==
    /\ cancel' = TRUE
    /\ tmpl' = None /\ mirror' = Empty /\ trimmed' = FALSE /\ skipped' = FALSE
    /\ inbox' = <<>> /\ job' = None /\ verdict' = None /\ asked' = None

\* Mutant: a failed task leaves the runtime going.
FailsQuietly == UNCHANGED <<cancel, data>>

\* "Terminating Sv2 Bitcoin Core IPC Connection".
TerminateConnection == CancelToken

----------------------------------------------------------------------------
(* MempoolMirror *)

\* What the mirror holds beyond the template; a new tip clears it first.
CarryOver(m, t) == IF m.prev = t.prev THEN m.tx \ t.tx ELSE {}

\* retain visits the entries in any order and keeps them until the budget is
\* spent; an entry that exceeds it also uses it up.
Retained(m, t) ==
    {K \in SUBSET CarryOver(m, t) :
        /\ WeightOf(K) <= MaxCarryOver
        /\ \/ K = CarryOver(m, t)
           \/ \E x \in CarryOver(m, t) \ K : WeightOf(K) + TxWeight[x] > MaxCarryOver}

\* The block of a template is asked for once; then only its tip matters.
Read(t) == [t EXCEPT !.tx = {}]

\* MempoolMirror::update with the template's block, K being what it retained.
Updated(t, K) == [prev |-> t.prev, tx |-> K \union t.tx]

\* MempoolMirror::add_transactions: in order, up to the ceiling.
add_transactions(m, txs) ==
    LET Step(acc, x) ==
            IF acc.full \/ x \in acc.tx THEN acc
            ELSE IF WeightOf(acc.tx) + TxWeight[x] > MaxMirrorWeight
                 THEN [acc EXCEPT !.full = TRUE]
                 ELSE [acc EXCEPT !.tx = @ \union {x}]
    IN  [m EXCEPT !.tx = FoldLeft(Step, [tx |-> m.tx, full |-> FALSE], txs).tx]

\* Mutant: the lookup forgets the staged transactions.
KnownMirrorOnly(m, staged) == m.tx

Known(m, staged) == m.tx \union staged

\* MempoolMirror::resolve_txdata: too heavy before missing, missing in order.
resolve_txdata(m, list, staged, budget) ==
    LET known == Known(m, staged)
    IN  [heavy |-> WeightOf(ToSet(list) \intersect known) > budget,
         missing |-> SelectSeq(list, LAMBDA x : x \notin known)]

\* stage_missing_txs accepts the declaration.
stage_missing_txs(list, supplied) ==
    /\ Len(list) <= MaxDeclared
    /\ IsInjective(list)
    /\ CoinbaseTx \notin ToSet(supplied)
    /\ ToSet(supplied) \subseteq ToSet(list)
    /\ IsInjective(supplied)

----------------------------------------------------------------------------
(* Bootstrap of the thread: BitcoinCoreSv2JDP::new *)

BootRequest == [construct |-> "thread", thread |-> "mining", mining |-> "create"]

BootSame == UNCHANGED <<core, cancel, engine, handling, trimmed, skipped>>

\* Connecting to the local socket is not raced with cancellation.
Connect ==
    /\ thread = "connect" /\ thread' \in {"construct", "gone"}
    /\ BootSame /\ UNCHANGED <<monitor, tmpl, mirror>>

\* construct, makeThread and makeMining, each under run_until_cancelled.
BootReply ==
    /\ thread \in DOMAIN BootRequest /\ ~cancel /\ ~silent
    /\ thread' = BootRequest[thread]
    /\ BootSame /\ UNCHANGED <<monitor, tmpl, mirror>>

\* createNewBlock is raced with cancellation; a template that still wins the
\* race is abandoned at the next request.
BootCreated ==
    /\ thread = "create" /\ ~cancel /\ ~silent
    /\ \E S \in Templates : S \subseteq Mineable[tip] /\ tmpl' = [prev |-> tip, tx |-> S]
    /\ thread' = "mirror"
    /\ BootSame /\ UNCHANGED <<monitor, mirror>>

\* The mirror is filled, readiness is signalled and run() starts the monitor.
BootMirrored ==
    /\ thread = "mirror" /\ ~cancel /\ ~silent
    /\ mirror' = Updated(tmpl, {})
    /\ thread' = "loop"
    /\ monitor' = IF version = "v31" THEN "thread" ELSE "wait"
    /\ tmpl' = Read(tmpl) /\ BootSame

\* A bootstrap request fails: new() returns its error and the thread ends.
BootFailed ==
    /\ thread \in {"construct", "thread", "mining", "create", "mirror"} /\ ~silent
    /\ thread' = "gone"
    /\ BootSame /\ UNCHANGED <<monitor, tmpl, mirror>>

\* A pending bootstrap request gives way to cancellation.
BootCancelled ==
    /\ cancel
    /\ \/ thread \in {"construct", "thread", "mining", "mirror"} /\ thread' = "gone"
       \/ thread = "create" /\ thread' = (IF version = "v31" THEN "interrupt" ELSE "gone")
    /\ BootSame /\ UNCHANGED <<monitor, tmpl, mirror>>

\* interrupt_create_new_block_request: answered, refused or timed out.
BootInterrupted ==
    /\ thread = "interrupt" /\ thread' = "gone"
    /\ BootSame /\ UNCHANGED <<monitor, tmpl, mirror>>

----------------------------------------------------------------------------
(* The monitor task *)

MonSame == UNCHANGED <<core, engine, thread, handling>>

\* v31x gives waitNext an IPC thread of its own.
MonThread ==
    /\ monitor = "thread" /\ ~cancel /\ ~silent
    /\ monitor' = "wait"
    /\ MonSame /\ UNCHANGED <<cancel, tmpl, mirror, trimmed, skipped>>

\* waitNext returns a template: the tip moved, or its fees did not fall.  A
\* null answer (timeout) and v30x's thread-busy error only start it again; a
\* template that wins the select against cancellation is dropped unread.
MonWaitNext ==
    /\ monitor = "wait" /\ ~silent /\ ~cancel
    /\ \E S \in Templates : S \subseteq Mineable[tip] /\ tmpl' = [prev |-> tip, tx |-> S]
    /\ monitor' = "fetch"
    /\ MonSame /\ UNCHANGED <<cancel, mirror, trimmed, skipped>>

\* update_mempool_mirror: getBlock of the current template, then update.
update_mempool_mirror ==
    /\ monitor = "fetch" /\ ~cancel /\ ~silent
    /\ \E K \in Retained(mirror, tmpl) :
          /\ mirror' = Updated(tmpl, K)
          /\ trimmed' = (trimmed \/ (asked # None /\ ~ mirror.tx \subseteq mirror'.tx))
    /\ monitor' = "wait" /\ skipped' = FALSE /\ tmpl' = Read(tmpl)
    /\ MonSame /\ UNCHANGED cancel

\* v30x: getBlock found the shared IPC thread busy; the loop goes on with a
\* template the mirror never saw.
MonBusy ==
    /\ version = "v30" /\ monitor = "fetch" /\ ~cancel /\ ~silent
    /\ monitor' = "wait" /\ skipped' = TRUE /\ tmpl' = Read(tmpl)
    /\ MonSame /\ UNCHANGED <<cancel, mirror, trimmed>>

MonFailed ==
    /\ monitor \in {"thread", "wait", "fetch"} /\ ~cancel /\ ~silent
    /\ monitor' = "done" /\ TerminateConnection
    /\ UNCHANGED <<core, engine, thread>>

\* Cancellation: waitNext is interrupted first, with a bounded wait.
MonCancelled ==
    /\ \/ cancel /\ monitor \in {"thread", "fetch"} /\ monitor' = "done"
       \/ cancel /\ monitor = "wait" /\ monitor' = "interrupt"
       \/ monitor = "interrupt" /\ monitor' = "done"
    /\ MonSame /\ UNCHANGED <<cancel, tmpl, mirror, trimmed, skipped>>

----------------------------------------------------------------------------
(* The request loop: run, process_request and handle_declare_mining_job *)

HandlerSame == UNCHANGED <<core, engine, monitor, tmpl, skipped>>

\* What jd-server makes of a response: a request for transactions opens or
\* continues the client's conversation unless the tip drifted since its last
\* round; any other response to the conversation ends it.
Conversation(d, code, missing) ==
    IF code = "missing" /\ ~ (d.retry /\ asked.ctx # mirror.prev) 
       /\ (d.retry \/ (asked = None /\ d.supplied = <<>>))
    THEN [decl |-> [d EXCEPT !.retry = TRUE, !.supplied = missing], ctx |-> mirror.prev]
    ELSE IF d.retry THEN None ELSE asked

\* One response on the declaration's oneshot channel.
Respond(d, code, missing) ==
    /\ asked' = Conversation(d, code, missing)
    /\ trimmed' = (trimmed /\ asked # None /\ asked' # None)

Budget == IF CoinbaseWeight > MaxBlockWeight THEN 0 ELSE MaxBlockWeight - CoinbaseWeight

Resolution(d) == resolve_txdata(mirror, d.list, ToSet(d.supplied), Budget)

\* The declaration cannot be staged, or outweighs a block.
Refused(d) == ~ stage_missing_txs(d.list, d.supplied) \/ Resolution(d).heavy

\* The synchronous part of handle_declare_mining_job, under one borrow of the
\* mirror: refuse, ask for what is missing, or send checkBlock.
handle_declare_mining_job(d) ==
    \/ /\ Refused(d)
       /\ Respond(d, "invalid-job", <<>>)
       /\ UNCHANGED <<thread, job>>
    \/ /\ ~ Refused(d) /\ Resolution(d).missing # <<>>
       /\ Respond(d, "missing", Resolution(d).missing)
       /\ UNCHANGED <<thread, job>>
    \/ /\ ~ Refused(d) /\ Resolution(d).missing = <<>>
       /\ thread' = "check" /\ job' = [decl |-> d, prev |-> mirror.prev]
       /\ UNCHANGED <<asked, trimmed>>

\* handle_push_solution is a stub.
ProcessRequest ==
    /\ thread = "loop" /\ ~cancel /\ inbox # <<>>
    /\ inbox' = Tail(inbox)
    /\ IF Head(inbox) = Push
       THEN UNCHANGED <<thread, job, asked, trimmed>>
       ELSE handle_declare_mining_job(Head(inbox))
    /\ HandlerSame /\ UNCHANGED <<cancel, mirror, verdict>>

\* External: Core compares the block's parent with its tip, then the coinbase's
\* finality and height, and connects the transactions last.
CheckBlock(d, prev) ==
    CASE prev # tip -> "inconclusive-not-best-prevblk"
      [] prev = tip /\ d.builtOn > tip -> "bad-txns-nonfinal"
      [] prev = tip /\ d.builtOn < tip -> "bad-cb-height"
      [] OTHER -> IF ToSet(d.list) \subseteq Mineable[tip] THEN "ok" ELSE "bad-txns-inputs-missingorspent"

CoreChecks ==
    /\ thread = "check" /\ verdict = None /\ ~cancel /\ ~silent
    /\ verdict' = CheckBlock(job.decl, job.prev)
    /\ HandlerSame
    /\ UNCHANGED <<cancel, thread, mirror, inbox, job, asked, trimmed>>

\* Mutant: a coinbase of another height is the client's fault.
OnlyParent(reason) == reason = "inconclusive-not-best-prevblk"

\* The reasons of a rejection that only say the tip moved.
Stale(reason) == reason \in {"inconclusive-not-best-prevblk", "bad-txns-nonfinal", "bad-cb-height"}

\* Mutant: the tip is not compared again after checkBlock.
AssumeUnmoved == TRUE

\* The mirror is still at the tip the block was assembled on.
TipUnmoved == mirror.prev = job.prev

\* Only what the client supplied is committed; the rest came from the mirror.
Validated(d) == SelectSeq(d.list, LAMBDA x : x \in ToSet(d.supplied))

\* checkBlock answered: commit and succeed, or classify the rejection.
ReadVerdict ==
    /\ thread = "check" /\ ~cancel /\ verdict # None
    /\ \/ /\ verdict = "ok" /\ TipUnmoved
          /\ mirror' = add_transactions(mirror, Validated(job.decl))
          /\ Respond(job.decl, "success", <<>>)
       \/ /\ verdict = "ok" /\ ~TipUnmoved
          /\ mirror' = mirror /\ Respond(job.decl, "stale-chain-tip", <<>>)
       \/ /\ verdict # "ok"
          /\ mirror' = mirror
          /\ Respond(job.decl, IF Stale(verdict) THEN "stale-chain-tip" ELSE "invalid-job", <<>>)
    /\ thread' = "loop" /\ job' = None /\ verdict' = None
    /\ HandlerSame /\ UNCHANGED <<cancel, inbox>>

\* The checkBlock request itself fails: internal-error, and the connection ends.
CheckFailed ==
    /\ thread = "check" /\ ~cancel /\ verdict = None /\ ~silent
    /\ thread' = "loop" /\ TerminateConnection
    /\ UNCHANGED <<core, engine, monitor>>

\* Mutant: a request under way is waited for before the token is looked at.
StopsBetweenRequests == cancel /\ thread = "loop"

\* The loop, and the request it is processing, give way to cancellation.
MayStop == cancel /\ thread \in {"loop", "check"}

LoopStopped ==
    /\ MayStop /\ thread' = "join"
    /\ HandlerSame /\ UNCHANGED <<cancel, mirror, handling, trimmed>>

\* run() waits for the monitor; its return drops the LocalSet.
ThreadEnds ==
    /\ thread = "join" /\ monitor = "done"
    /\ thread' = "gone"
    /\ HandlerSame /\ UNCHANGED <<cancel, mirror, handling, trimmed>>

----------------------------------------------------------------------------
(* BitcoinCoreIPCEngine: the owner of the thread, and jd-server's requests *)

EngineSame == UNCHANGED <<core, thread, monitor, tmpl, mirror, trimmed, skipped>>

\* new() returns once readiness was signalled.
EngineReady ==
    /\ engine = "starting" /\ monitor # "off"
    /\ engine' = "ready"
    /\ EngineSame /\ UNCHANGED <<cancel, handling>>

\* The thread was joined.
Joined == thread = "gone"

\* Readiness never came, or cancellation was noticed first: join, then fail.
EngineFails ==
    /\ engine = "starting" /\ (cancel \/ monitor = "off")
    /\ Joined
    /\ engine' = "failed"
    /\ EngineSame /\ UNCHANGED <<cancel, handling>>

\* shutdown() cancels the token and joins the thread.
EngineShutdown ==
    /\ engine = "ready" /\ engine' = "closing" /\ CancelToken
    /\ UNCHANGED <<core, thread, monitor>>

EngineClosed ==
    /\ engine = "closing" /\ Joined /\ engine' = "closed"
    /\ EngineSame /\ UNCHANGED <<cancel, handling>>

\* jd-server's loop awaits each declaration before it reads the next message.
\* Bound: no new request once Bitcoin Core is silent.
Free == job = None /\ ToSet(inbox) \subseteq {Push}

Serving == engine = "ready" /\ ~cancel /\ ~silent /\ Free /\ Len(inbox) < MaxInbox

Enqueue(r) ==
    /\ inbox' = Append(inbox, r)
    /\ EngineSame /\ UNCHANGED <<cancel, engine, job, verdict, asked>>

\* A first declaration, or another client's answer to a missing-transactions
\* round with whatever it chose to supply.
Declare ==
    /\ Serving
    /\ \E r \in Requests :
          Enqueue([builtOn |-> r[1], list |-> r[2], supplied |-> r[3], retry |-> FALSE])

\* The followed client supplies exactly what it was last asked for.
Retry == Serving /\ asked # None /\ Enqueue(asked.decl)

handle_push_solution == Serving /\ Push \notin ToSet(inbox) /\ Enqueue(Push)

----------------------------------------------------------------------------
(* The environment *)

EnvSame == UNCHANGED <<engine, thread, monitor, tmpl, mirror, handling, trimmed, skipped>>

\* A silent Bitcoin Core's tip is seen by nobody.
TipMoves == tip < MaxTip /\ ~silent /\ tip' = tip + 1 /\ EnvSame /\ UNCHANGED <<version, silent, cancel>>

CoreSilent == ~silent /\ silent' = TRUE /\ EnvSame /\ UNCHANGED <<version, tip, cancel>>

Cancel == ~cancel /\ CancelToken /\ UNCHANGED <<core, engine, thread, monitor>>

BootStep == Connect \/ BootReply \/ BootCreated \/ BootMirrored \/ BootFailed \/ BootCancelled \/ BootInterrupted

MonStep == MonThread \/ update_mempool_mirror \/ MonBusy \/ MonFailed \/ MonCancelled

LoopStep == ProcessRequest \/ ReadVerdict \/ CheckFailed \/ LoopStopped \/ ThreadEnds

EngineStep == EngineReady \/ EngineFails \/ EngineClosed

Next ==
    \/ BootStep \/ MonStep \/ MonWaitNext \/ LoopStep \/ CoreChecks
    \/ EngineStep \/ EngineShutdown
    \/ Declare \/ Retry \/ handle_push_solution
    \/ TipMoves \/ CoreSilent \/ Cancel

\* waitNext is only sure to return for a tip it has not seen.
MonNewTip == monitor = "wait" /\ ~cancel /\ tmpl.prev # tip /\ MonWaitNext

\* Tasks run when they can, Bitcoin Core answers unless it is silent, the
\* application shuts the engine down once cancelled, and the followed client
\* gets its turn: its message waits in jd-server's FIFO inbox.
Fairness ==
    /\ WF_vars(BootStep) /\ WF_vars(MonStep \/ MonNewTip) /\ WF_vars(LoopStep) /\ WF_vars(CoreChecks)
    /\ WF_vars(EngineStep) /\ WF_vars(cancel /\ EngineShutdown)
    /\ SF_vars(Retry)

Spec == Init /\ [][Next]_vars /\ Fairness

----------------------------------------------------------------------------
(* Properties *)

\* State variables stay in their ranges, and the handler's three expect calls
\* hold: no request is processed before the mirror has a tip.
TypeOK ==
    /\ tip \in Tips /\ {silent, cancel, trimmed, skipped} \subseteq BOOLEAN
    /\ engine \in {"starting", "ready", "failed", "closing", "closed"}
    /\ monitor \in {"off", "thread", "wait", "fetch", "interrupt", "done"}
    /\ mirror.prev \in Tips \union {None} /\ mirror.tx \subseteq Txs
    /\ Len(inbox) <= MaxInbox
    /\ (thread \in {"loop", "check"} /\ ~cancel) => mirror.prev # None

\* The mirror never outweighs MAX_MIRROR_WEIGHT, neither by what templates
\* carry over nor by what accepted declarations commit between templates.
MirrorBounded == WeightOf(mirror.tx) <= MaxMirrorWeight

\* Everything in the mirror may be mined on the mirror's own tip: a tip that
\* moves while checkBlock is in flight brings in nothing of the old one.
MirrorMineable == mirror.prev # None => mirror.tx \subseteq Mineable[mirror.prev]

\* A declaration that was well-formed and valid on the tip it was built for.
Honest(d) ==
    /\ stage_missing_txs(d.list, d.supplied)
    /\ WeightOf(ToSet(d.list)) <= Budget
    /\ ToSet(d.list) \subseteq Mineable[d.builtOn]

\* invalid-job is never the answer to an honest declaration, wherever the tips
\* of the client, the mirror and Bitcoin Core stand when checkBlock runs.
BlameIsDue ==
    /\ (verdict # None /\ verdict # "ok" /\ ~Stale(verdict)) => ~Honest(job.decl)
    /\ \A i \in DOMAIN inbox : (inbox[i] # Push /\ Refused(inbox[i])) => ~Honest(inbox[i])

\* The engine never outlives its constructor's failure or its shutdown with
\* the thread, and so the connection to Bitcoin Core, still running.
EngineJoins == engine \in {"failed", "closed"} => thread = "gone" /\ monitor \in {"off", "done"}

\* The engine's state is sound: the mirror is a block's worth of transactions
\* of its own tip, and no thread works on it after the engine is closed.
EngineSound == TypeOK /\ MirrorBounded /\ MirrorMineable /\ EngineJoins

\* Once cancelled the engine is closed, even when Bitcoin Core stopped
\* answering during bootstrap, waitNext, getBlock or checkBlock.
ThreadReturns == cancel ~> engine \in {"failed", "closed"}

\* A client that supplies what it is asked for is not asked forever, unless
\* the mirror dropped entries during the conversation: then each round may
\* miss what an earlier round supplied.
ConversationEnds == (asked # None) ~> (asked = None \/ trimmed \/ silent \/ cancel)

\* The mirror follows Bitcoin Core's tip, or the runtime ends; only v30x's
\* thread-busy path may leave it behind until another template.
MirrorCatchesUp ==
    (engine = "ready" /\ mirror.prev # tip) ~> (mirror.prev = tip \/ skipped \/ silent \/ cancel)

============================================================================
