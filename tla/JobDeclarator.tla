---------------------------- MODULE JobDeclarator ----------------------------
(***************************************************************************)
(* The Job Declarator of jd-server with the Bitcoin Core validation engine *)
(* (pool-apps/jd-server/src/lib/job_declarator) and the one caller it has  *)
(* inside the pool.  Five kinds of threads share its maps:                 *)
(*                                                                         *)
(*   - one task per downstream connection, which feeds the fan-in queue    *)
(*     and runs cleanup_downstream when its loop ends;                     *)
(*   - the message loop, which handles one queued message at a time and    *)
(*     awaits Bitcoin Core in the middle of a declaration;                 *)
(*   - the pool's channel manager, which calls                             *)
(*     handle_set_custom_mining_job, one call at a time;                   *)
(*   - the janitors of the tokens, of the engine and of each connection;   *)
(*   - Bitcoin Core, whose tip moves.                                      *)
(*                                                                         *)
(* One operation on a SharedMap is one step.  A map is the set of its      *)
(* entries.  A job stands for everything a DeclareMiningJob and a          *)
(* SetCustomMiningJob have to agree on besides the previous block.         *)
(***************************************************************************)
EXTENDS Naturals, Sequences, FiniteSets

CONSTANTS Clients,      \* downstream ids, each used for one connection
          JdcClients,   \* clients that are jd-clients; the others send anything
          Identities,   \* user identities
          Jobs,         \* contents of a declared job
          BadCoinbase,  \* jobs whose coinbase does not decode
          RequestIds,   \* request ids the other clients draw from
          Budget,       \* bound: messages per connection
          MaxCalls,     \* bound: SetCustomMiningJob calls
          MaxTip        \* bound: blocks found

ASSUME ConstantsAssumption ==
    /\ IsFiniteSet(Clients)
    /\ JdcClients \subseteq Clients
    /\ BadCoinbase \subseteq Jobs
    /\ RequestIds \subseteq Nat
    /\ Budget \in [Clients -> Nat]
    /\ MaxCalls \in Nat /\ MaxTip \in Nat

VARIABLES
    counter, allocated, active, activating,  \* the TokenManager
    conn,       \* where each connection's task is
    clients,    \* downstream_clients
    senders,    \* downstream_client_senders
    pending,    \* pending_declare_mining_jobs of all connections
    queue,      \* job_declarator_sender / job_declarator_receiver
    engine,     \* the keys of the engine's downstream_states
    jobs,       \* their declared_custom_jobs
    entries,    \* their allocated_token_entries
    loop,       \* where the message loop is
    cur,        \* the message it is handling
    context,    \* previous_pending_validation_context (none or one)
    pool,       \* the pool's handle_set_custom_mining_job call
    tip,        \* Bitcoin Core's best block
    sent,       \* messages each client has sent
    calls,      \* calls the pool has made
    known,      \* allocations a jd-client has received and not used
    granted,    \* history: the DeclareMiningJob.Success answers
    validated,  \* history: the declarations Bitcoin Core accepted
    spent       \* history: the allocations an accepted custom job came from

TM == INSTANCE TokenManager

tokenVars == <<counter, allocated, active, activating>>
clientVars == <<sent, known>>
mapVars == <<clients, senders, pending>>
engineVars == <<engine, jobs, entries>>
loopVars == <<loop, cur, context>>
poolVars == <<pool, calls>>
history == <<granted, validated, spent>>

vars == <<tokenVars, clientVars, conn, mapVars, queue, engineVars, loopVars,
          poolVars, tip, history>>

-----------------------------------------------------------------------------
AllocateMessage == [kind : {"allocate"}, from : Clients, identity : Identities]
DeclareMessage == [kind : {"declare"}, from : Clients, token : Nat, rid : Nat, job : Jobs]
ProvideMessage == [kind : {"provide"}, from : Clients, rid : Nat]
PushMessage == [kind : {"push"}, from : Clients]

Message == AllocateMessage \cup DeclareMessage \cup ProvideMessage \cup PushMessage

\* What the loop holds: a message, an allocation to be answered, the declaration
\* that a ProvideMissingTransactions.Success resumes, or nothing.
Answer == [kind : {"allocate"}, from : Clients, identity : Identities, token : Nat]
Resumed == [kind : {"provide"}, from : Clients, token : Nat, rid : Nat, job : Jobs]
Nothing == [kind |-> "none"]

Work == Message \cup Answer \cup Resumed \cup {Nothing}

\* The steps of cleanup_downstream, in the order of the code.
CleanupSteps == {"rmClient", "rmSender", "rmEngine", "rmAllocated", "rmActive"}

AfterCleanup(step) ==
    CASE step = "rmClient" -> "rmSender"
      [] step = "rmSender" -> "rmEngine"
      [] step = "rmEngine" -> "rmAllocated"
      [] step = "rmAllocated" -> "rmActive"
      [] step = "rmActive" -> "finished"

TypeOK ==
    /\ TM!TypeOK
    /\ conn \in [Clients -> {"absent", "setup", "open", "finished", "gone"} \cup CleanupSteps]
    /\ clients \subseteq Clients
    /\ senders \subseteq Clients
    /\ pending \subseteq [owner : Clients, rid : Nat, token : Nat, job : Jobs]
    /\ queue \in Seq(Message)
    /\ engine \subseteq Clients
    /\ jobs \subseteq [owner : Clients, rid : Nat, job : Jobs, prev : Nat, validated : BOOLEAN]
    /\ entries \subseteq [owner : Clients, token : Nat, rid : Nat]
    /\ loop \in {"idle", "allocate", "lookup", "check", "pending", "validate", "ensure", "ipc",
                 "activate", "issue", "reject", "missing", "send"} \cup CleanupSteps
    /\ cur \in Work
    /\ context \subseteq Nat
    /\ pool \in [pc : {"idle"}] \cup [pc : {"deactivate", "take"}, tok : TM!ActiveToken, by : Identities]
                \cup [pc : {"accepted"}, tok : TM!ActiveToken, by : Identities,
                      job : Jobs, prev : Nat]
    /\ tip \in Nat
    /\ sent \in [Clients -> Nat]
    /\ calls \in Nat
    /\ known \subseteq [owner : Clients, token : Nat]
    /\ granted \subseteq [token : Nat, origin : Nat, owner : Clients, identity : Identities, job : Jobs]
    /\ validated \subseteq [owner : Clients, token : Nat, job : Jobs, prev : Nat]
    /\ spent \subseteq Nat

Init ==
    /\ TM!Init
    /\ conn = [d \in Clients |-> "absent"]
    /\ clients = {} /\ senders = {} /\ pending = {}
    /\ queue = <<>>
    /\ engine = {} /\ jobs = {} /\ entries = {}
    /\ loop = "idle" /\ cur = Nothing /\ context = {}
    /\ pool = [pc |-> "idle"] /\ calls = 0
    /\ tip = 0
    /\ sent = [d \in Clients |-> 0] /\ known = {}
    /\ granted = {} /\ validated = {} /\ spent = {}

-----------------------------------------------------------------------------
\* Connections.

\* The accept task fills both maps before it starts the downstream, so no
\* message of it is queued in between.
Accept(d) ==
    /\ conn[d] = "absent"
    /\ clients' = clients \cup {d}
    /\ senders' = senders \cup {d}
    /\ conn' = [conn EXCEPT ![d] = "setup"]
    /\ UNCHANGED <<tokenVars, clientVars, pending, queue, engineVars, loopVars,
                   poolVars, tip, history>>

\* setup_connection_with_downstream succeeds, or start cleans up and returns.
SetupConnection(d) ==
    /\ conn[d] = "setup"
    /\ \E next \in {"open", "rmClient"} : conn' = [conn EXCEPT ![d] = next]
    /\ UNCHANGED <<tokenVars, clientVars, mapVars, queue, engineVars, loopVars,
                   poolVars, tip, history>>

\* The connection's loop ends: the peer left, a frame was bad, or the
\* connection's token was cancelled.
Close(d) ==
    /\ conn[d] = "open"
    /\ conn' = [conn EXCEPT ![d] = "rmClient"]
    /\ UNCHANGED <<tokenVars, clientVars, mapVars, queue, engineVars, loopVars,
                   poolVars, tip, history>>

\* The task returns, and with it goes the last receiver of its replies.
Drop(d) ==
    /\ conn[d] = "finished"
    /\ conn' = [conn EXCEPT ![d] = "gone"]
    /\ UNCHANGED <<tokenVars, clientVars, mapVars, queue, engineVars, loopVars,
                   poolVars, tip, history>>

\* handle_message_from_downstream passes a message on to the fan-in queue.
Enqueue(m) ==
    /\ conn[m.from] = "open"
    /\ sent[m.from] < Budget[m.from]
    /\ sent' = [sent EXCEPT ![m.from] = @ + 1]
    /\ queue' = Append(queue, m)
    /\ UNCHANGED <<tokenVars, conn, mapVars, engineVars, loopVars, poolVars, tip, history>>

SendAllocate(d) ==
    \E i \in Identities :
        /\ Enqueue([kind |-> "allocate", from |-> d, identity |-> i])
        /\ UNCHANGED known

\* A jd-client pops the tokens it was given and numbers its requests, so that it
\* declares each token once (its template provider announces a future template
\* before every SetNewPrevHash, as bitcoin-core-sv2 does); another client may
\* send any token and any request id.
SendDeclare(d) ==
    \E t \in 0..counter, j \in Jobs :
        \/ /\ d \in JdcClients
           /\ [owner |-> d, token |-> t] \in known
           /\ Enqueue([kind |-> "declare", from |-> d, token |-> t,
                       rid |-> sent[d], job |-> j])
           /\ known' = known \ {[owner |-> d, token |-> t]}
        \/ /\ d \notin JdcClients
           /\ \E r \in RequestIds :
                 Enqueue([kind |-> "declare", from |-> d, token |-> t,
                          rid |-> r, job |-> j])
           /\ UNCHANGED known

SendProvide(d) ==
    /\ \E r \in IF d \in JdcClients THEN 0..Budget[d] ELSE RequestIds :
          Enqueue([kind |-> "provide", from |-> d, rid |-> r])
    /\ UNCHANGED known

SendPush(d) ==
    /\ Enqueue([kind |-> "push", from |-> d])
    /\ UNCHANGED known

-----------------------------------------------------------------------------
\* cleanup_downstream, one map at a time.  Its callers are the connection's
\* own task and, for an error that asks for a disconnect, the message loop.
RemoveClient(d) ==
    /\ clients' = clients \ {d}
    /\ pending' = {p \in pending : p.owner # d}
    /\ UNCHANGED <<senders, engineVars, tokenVars>>

RemoveSender(d) ==
    /\ senders' = senders \ {d}
    /\ UNCHANGED <<clients, pending, engineVars, tokenVars>>

RemoveEngineState(d) ==
    /\ engine' = engine \ {d}
    /\ jobs' = {j \in jobs : j.owner # d}
    /\ entries' = {e \in entries : e.owner # d}
    /\ UNCHANGED <<mapVars, tokenVars>>

CleanupDownstream(step, d) ==
    \/ step = "rmClient" /\ RemoveClient(d)
    \/ step = "rmSender" /\ RemoveSender(d)
    \/ step = "rmEngine" /\ RemoveEngineState(d)
    \/ step = "rmAllocated" /\ TM!RemoveAllocated(d) /\ UNCHANGED <<mapVars, engineVars>>
    \/ step = "rmActive" /\ TM!RemoveActive(d) /\ UNCHANGED <<mapVars, engineVars>>

CleanupByTask(d) ==
    /\ CleanupDownstream(conn[d], d)
    /\ conn' = [conn EXCEPT ![d] = AfterCleanup(conn[d])]
    /\ UNCHANGED <<clientVars, queue, loopVars, poolVars, tip, history>>

-----------------------------------------------------------------------------
\* The message loop.
LoopUnchanged == UNCHANGED <<conn, sent, poolVars, tip, spent>>

Become(step) == loop' = step /\ UNCHANGED <<cur, context>>

Finish == loop' = "idle" /\ cur' = Nothing /\ context' = {}

CleanupByLoop ==
    /\ CleanupDownstream(loop, cur.from)
    /\ IF AfterCleanup(loop) = "finished" THEN Finish ELSE Become(AfterCleanup(loop))
    /\ UNCHANGED <<known, queue, granted, validated>>
    /\ LoopUnchanged

\* handle_jdp_message takes the next message; a PushSolution is forwarded to
\* Bitcoin Core without waiting.
Receive ==
    /\ loop = "idle"
    /\ queue # <<>>
    /\ queue' = Tail(queue)
    /\ IF Head(queue).kind = "push"
         THEN UNCHANGED loopVars
         ELSE /\ cur' = Head(queue)
              /\ loop' = IF Head(queue).kind = "allocate" THEN "allocate" ELSE "lookup"
              /\ UNCHANGED context
    /\ UNCHANGED <<tokenVars, known, mapVars, engineVars, granted, validated>>
    /\ LoopUnchanged

\* handle_allocate_mining_job_token allocates before it looks for the sender.
AllocateToken ==
    /\ loop = "allocate"
    /\ TM!Allocate(cur.from, cur.identity)
    /\ cur' = [kind |-> "allocate", from |-> cur.from, identity |-> cur.identity,
               token |-> counter]
    /\ loop' = "lookup"
    /\ UNCHANGED <<context, known, mapVars, queue, engineVars, granted, validated>>
    /\ LoopUnchanged

LookupSender ==
    /\ loop = "lookup"
    /\ Become(CASE cur.from \notin senders -> "rmClient"
                [] cur.from \in senders /\ cur.kind = "allocate" -> "send"
                [] cur.from \in senders /\ cur.kind = "declare" -> "check"
                [] cur.from \in senders /\ cur.kind = "provide" -> "pending")
    /\ UNCHANGED <<tokenVars, known, mapVars, queue, engineVars, granted, validated>>
    /\ LoopUnchanged

CheckAllocated ==
    /\ loop = "check"
    /\ Become(IF TM!IsAllocated(cur.token, cur.from) THEN "validate" ELSE "send")
    /\ UNCHANGED <<tokenVars, known, mapVars, queue, engineVars, granted, validated>>
    /\ LoopUnchanged

\* handle_provide_missing_transactions_success takes the waiting declaration;
\* without one the message is only logged.
TakePending ==
    LET found == {p \in pending : p.owner = cur.from /\ p.rid = cur.rid}
    IN  /\ loop = "pending"
        /\ \/ cur.from \notin clients /\ Become("rmClient") /\ UNCHANGED pending
           \/ cur.from \in clients /\ found = {} /\ Finish /\ UNCHANGED pending
           \/ /\ cur.from \in clients
              /\ \E p \in found :
                    cur' = [kind |-> "provide", from |-> cur.from, token |-> p.token,
                            rid |-> p.rid, job |-> p.job]
              /\ pending' = pending \ found
              /\ loop' = "validate"
              /\ UNCHANGED context
        /\ UNCHANGED <<tokenVars, known, clients, senders, queue, engineVars,
                       granted, validated>>
        /\ LoopUnchanged

\* The engine's handle_declare_mining_job: the coinbase, then the context that
\* an earlier round committed to.
ValidateCoinbase ==
    /\ loop = "validate"
    /\ IF cur.job \in BadCoinbase
         THEN Become("reject")
         ELSE /\ loop' = "ensure"
              /\ context' = {j.prev : j \in {k \in jobs : /\ cur.kind = "provide"
                                                          /\ k.owner = cur.from
                                                          /\ k.rid = cur.rid}}
              /\ UNCHANGED cur
    /\ UNCHANGED <<tokenVars, known, mapVars, queue, engineVars, granted, validated>>
    /\ LoopUnchanged

\* with_mut_or_default, and the request to Bitcoin Core.
EnsureState ==
    /\ loop = "ensure"
    /\ engine' = engine \cup {cur.from}
    /\ Become("ipc")
    /\ UNCHANGED <<tokenVars, known, mapVars, queue, jobs, entries, granted, validated>>
    /\ LoopUnchanged

\* DownstreamState::insert_declared_custom_job and remove_declared_custom_job.
InsertDeclaredCustomJob(d, r, t, j) ==
    /\ jobs' = {k \in jobs : ~(k.owner = d /\ k.rid = r)} \cup {j}
    /\ entries' = {e \in entries : ~(e.owner = d /\ e.token = t)}
                      \cup {[owner |-> d, token |-> t, rid |-> r]}

RemoveDeclaredCustomJob(d, r, t) ==
    /\ jobs' = {k \in jobs : ~(k.owner = d /\ k.rid = r)}
    /\ entries' = {e \in entries : ~(e.owner = d /\ e.token = t)}

DeclaredCustomJob(ok) ==
    [owner |-> cur.from, rid |-> cur.rid, job |-> cur.job, prev |-> tip, validated |-> ok]

\* JdResponse::Success.  with_mut stores the job only if the state is still
\* there; otherwise the declaration fails with an internal error.
IpcSuccess ==
    /\ loop = "ipc"
    /\ validated' = validated \cup {[owner |-> cur.from, token |-> cur.token,
                                     job |-> cur.job, prev |-> tip]}
    /\ \/ /\ cur.from \in engine
          /\ InsertDeclaredCustomJob(cur.from, cur.rid, cur.token, DeclaredCustomJob(TRUE))
          /\ Become("activate")
       \/ /\ cur.from \notin engine
          /\ Become("reject")
          /\ UNCHANGED <<jobs, entries>>
    /\ UNCHANGED <<tokenVars, known, mapVars, queue, engine, granted>>
    /\ LoopUnchanged

IpcError ==
    /\ loop = "ipc"
    /\ RemoveDeclaredCustomJob(cur.from, cur.rid, cur.token)
    /\ Become("reject")
    /\ UNCHANGED <<tokenVars, known, mapVars, queue, engine, granted, validated>>
    /\ LoopUnchanged

\* validation_context_drifted, for a second round.
TipDrifted == \E prev \in context : prev # tip

\* JdResponse::MissingTransactions: a second round that is still missing some
\* is rejected, and is stale if the tip moved.
IpcMissing ==
    /\ loop = "ipc"
    /\ \/ /\ TipDrifted
          /\ RemoveDeclaredCustomJob(cur.from, cur.rid, cur.token)
          /\ Become("reject")
       \/ /\ ~TipDrifted
          /\ cur.from \in engine
          /\ InsertDeclaredCustomJob(cur.from, cur.rid, cur.token, DeclaredCustomJob(FALSE))
          /\ Become(IF cur.kind = "declare" THEN "missing" ELSE "reject")
       \/ /\ ~TipDrifted
          /\ cur.from \notin engine
          /\ Become("reject")
          /\ UNCHANGED <<jobs, entries>>
    /\ UNCHANGED <<tokenVars, known, mapVars, queue, engine, granted, validated>>
    /\ LoopUnchanged

\* The request cannot be sent, or its response channel is dropped.
IpcDropped ==
    /\ loop = "ipc"
    /\ Become("reject")
    /\ UNCHANGED <<tokenVars, known, mapVars, queue, engineVars, granted, validated>>
    /\ LoopUnchanged

RejectDeclaration ==
    /\ loop = "reject"
    /\ TM!Deallocate(cur.token)
    /\ Become("send")
    /\ UNCHANGED <<known, mapVars, queue, engineVars, granted, validated>>
    /\ LoopUnchanged

\* activate: remove_if, or an invalid-mining-job-token answer if the token was
\* removed meanwhile.
ActivateToken ==
    /\ loop = "activate"
    /\ \/ TM!ActivateRemove(cur.token, cur.from) /\ Become("issue")
       \/ /\ ~TM!IsAllocated(cur.token, cur.from)
          /\ Become("send")
          /\ UNCHANGED tokenVars
    /\ UNCHANGED <<known, mapVars, queue, engineVars, granted, validated>>
    /\ LoopUnchanged

IssueActiveToken ==
    /\ loop = "issue"
    /\ \E a \in activating :
          /\ TM!ActivateInsert(a)
          /\ granted' = granted \cup {[token |-> counter, origin |-> a.token,
                 owner |-> a.owner, identity |-> a.identity, job |-> cur.job]}
    /\ Become("send")
    /\ UNCHANGED <<known, mapVars, queue, engineVars, validated>>
    /\ LoopUnchanged

\* The declaration waits for its missing transactions, if the client is there.
AwaitMissing ==
    /\ loop = "missing"
    /\ \/ /\ cur.from \in clients
          /\ pending' = {p \in pending : ~(p.owner = cur.from /\ p.rid = cur.rid)}
                \cup {[owner |-> cur.from, rid |-> cur.rid, token |-> cur.token, job |-> cur.job]}
          /\ Become("send")
       \/ /\ cur.from \notin clients
          /\ Become("rmClient")
          /\ UNCHANGED pending
    /\ UNCHANGED <<tokenVars, known, clients, senders, queue, engineVars, granted, validated>>
    /\ LoopUnchanged

\* Mutant: a failed send is tried again instead of ending in a cleanup.
SendReplyRetrying ==
    /\ loop = "send"
    /\ IF conn[cur.from] = "gone"
         THEN Become("send") /\ UNCHANGED known
         ELSE /\ Finish
              /\ known' = IF cur.kind = "allocate" /\ cur.from \in JdcClients
                            THEN known \cup {[owner |-> cur.from, token |-> cur.token]}
                            ELSE known
    /\ UNCHANGED <<tokenVars, mapVars, queue, engineVars, granted, validated>>
    /\ LoopUnchanged

\* The answer goes to the cloned sender; it fails only once the connection's
\* task has dropped the receiver.
SendReply ==
    /\ loop = "send"
    /\ IF conn[cur.from] = "gone"
         THEN Become("rmClient") /\ UNCHANGED known
         ELSE /\ Finish
              /\ known' = IF cur.kind = "allocate" /\ cur.from \in JdcClients
                            THEN known \cup {[owner |-> cur.from, token |-> cur.token]}
                            ELSE known
    /\ UNCHANGED <<tokenVars, mapVars, queue, engineVars, granted, validated>>
    /\ LoopUnchanged

HandleMessage ==
    \/ AllocateToken \/ LookupSender \/ CheckAllocated \/ TakePending
    \/ ValidateCoinbase \/ EnsureState
    \/ IpcSuccess \/ IpcError \/ IpcMissing \/ IpcDropped
    \/ RejectDeclaration \/ ActivateToken \/ IssueActiveToken \/ AwaitMissing
    \/ SendReply \/ CleanupByLoop

-----------------------------------------------------------------------------
\* The pool's handle_set_custom_mining_job call.
PoolUnchanged ==
    UNCHANGED <<clientVars, conn, mapVars, queue, loopVars, tip, granted, validated>>

\* allocated_from_active and the identity check; a miss leaves the token as it is.
LookupActive ==
    /\ pool.pc = "idle"
    /\ calls < MaxCalls
    /\ calls' = calls + 1
    /\ \E t \in 0..counter, i \in Identities :
          \/ \E b \in TM!AllocatedFromActive(t) :
                b.identity = i /\ pool' = [pc |-> "deactivate", tok |-> b, by |-> i]
          \/ /\ \A b \in TM!AllocatedFromActive(t) : b.identity # i
             /\ UNCHANGED pool
    /\ UNCHANGED <<tokenVars, engineVars, spent>>
    /\ PoolUnchanged

DeactivateToken ==
    /\ pool.pc = "deactivate"
    /\ TM!Deactivate(pool.tok.token)
    /\ pool' = [pool EXCEPT !.pc = "take"]
    /\ UNCHANGED <<calls, engineVars, spent>>
    /\ PoolUnchanged

\* Mutant: a declaration that still misses transactions is good enough.
TakeUnvalidatedJob ==
    LET owner == pool.tok.owner
        entry == {e \in entries : e.owner = owner /\ e.token = pool.tok.origin}
        taken == {k \in jobs : k.owner = owner /\ \E e \in entry : k.rid = e.rid}
    IN  /\ pool.pc = "take"
        /\ entries' = entries \ entry
        /\ jobs' = jobs \ taken
        /\ \E job \in Jobs, prev \in 0..tip :
              IF \E k \in taken : k.job = job /\ k.prev = prev
                THEN /\ pool' = [pc |-> "accepted", tok |-> pool.tok, by |-> pool.by,
                                job |-> job, prev |-> prev]
                     /\ spent' = spent \cup {pool.tok.origin}
                ELSE pool' = [pc |-> "idle"] /\ UNCHANGED spent
        /\ UNCHANGED <<calls, tokenVars, engine>>
        /\ PoolUnchanged

\* The engine's handle_set_custom_mining_job: take_declared_custom_job, then
\* every comparison of the message (job, prev) with the declaration.
TakeDeclaredCustomJob ==
    LET owner == pool.tok.owner
        entry == {e \in entries : e.owner = owner /\ e.token = pool.tok.origin}
        taken == {k \in jobs : k.owner = owner /\ \E e \in entry : k.rid = e.rid}
    IN  /\ pool.pc = "take"
        /\ entries' = entries \ entry
        /\ jobs' = jobs \ taken
        /\ \E job \in Jobs, prev \in 0..tip :
              IF \E k \in taken : k.validated /\ k.job = job /\ k.prev = prev
                THEN /\ pool' = [pc |-> "accepted", tok |-> pool.tok, by |-> pool.by,
                                job |-> job, prev |-> prev]
                     /\ spent' = spent \cup {pool.tok.origin}
                ELSE pool' = [pc |-> "idle"] /\ UNCHANGED spent
        /\ UNCHANGED <<calls, tokenVars, engine>>
        /\ PoolUnchanged

\* SetCustomMiningJob.Success is returned to the channel manager.
ReturnSuccess ==
    /\ pool.pc = "accepted"
    /\ pool' = [pc |-> "idle"]
    /\ UNCHANGED <<calls, tokenVars, engineVars, spent>>
    /\ PoolUnchanged

-----------------------------------------------------------------------------
\* Janitors and the chain.
JanitorUnchanged ==
    UNCHANGED <<clientVars, conn, clients, senders, queue, loopVars, poolVars, tip, history>>

ExpireAllocatedToken ==
    /\ \E a \in allocated : TM!ExpireAllocated(a)
    /\ UNCHANGED <<pending, engineVars>>
    /\ JanitorUnchanged

\* Mutant: the janitor looks only at connected clients.
ExpireActiveOfClient(d) ==
    /\ d \in clients
    /\ \E b \in active : b.owner = d /\ TM!ExpireActive(b)
    /\ UNCHANGED <<pending, engineVars>>
    /\ JanitorUnchanged

ExpireActiveToken(d) ==
    /\ \E b \in active : b.owner = d /\ TM!ExpireActive(b)
    /\ UNCHANGED <<pending, engineVars>>
    /\ JanitorUnchanged

ExpirePending ==
    /\ \E p \in pending : pending' = pending \ {p}
    /\ UNCHANGED <<tokenVars, engineVars>>
    /\ JanitorUnchanged

\* The engine keeps an entry for a day, an active token lives ten seconds and
\* is issued right after the entry was stored: an entry is not old while its
\* declaration is being activated, is active, or is being used.
Recent(e) ==
    \/ \E b \in active : b.origin = e.token
    \/ loop \in {"activate", "issue"} /\ cur.token = e.token
    \/ pool.pc \in {"deactivate", "take"} /\ pool.tok.origin = e.token

\* Mutant: the engine prunes with the timeout of the active tokens.
PruneEarly ==
    /\ \E e \in entries :
          /\ entries' = entries \ {e}
          /\ jobs' = {k \in jobs : ~(k.owner = e.owner /\ k.rid = e.rid)}
    /\ UNCHANGED <<tokenVars, pending, engine>>
    /\ JanitorUnchanged

\* DownstreamState::prune_expired_allocations.
PruneExpiredAllocation ==
    /\ \E e \in entries :
          /\ ~Recent(e)
          /\ entries' = entries \ {e}
          /\ jobs' = {k \in jobs : ~(k.owner = e.owner /\ k.rid = e.rid)}
    /\ UNCHANGED <<tokenVars, pending, engine>>
    /\ JanitorUnchanged

NewBlock ==
    /\ tip < MaxTip
    /\ tip' = tip + 1
    /\ UNCHANGED <<tokenVars, clientVars, conn, mapVars, queue, engineVars, loopVars,
                   poolVars, history>>

\* Every connection has come and gone; janitors and blocks go on by themselves.
Quiesced ==
    /\ \A d \in Clients : conn[d] = "gone"
    /\ queue = <<>> /\ loop = "idle" /\ pool.pc = "idle"
    /\ UNCHANGED vars

-----------------------------------------------------------------------------
Connection(d) ==
    \/ Accept(d) \/ SetupConnection(d) \/ Close(d) \/ Drop(d) \/ CleanupByTask(d)
    \/ SendAllocate(d) \/ SendDeclare(d) \/ SendProvide(d) \/ SendPush(d)

Next ==
    \/ \E d \in Clients : Connection(d)
    \/ Receive
    \/ HandleMessage
    \/ LookupActive \/ DeactivateToken \/ TakeDeclaredCustomJob \/ ReturnSuccess
    \/ ExpireAllocatedToken \/ ExpirePending \/ PruneExpiredAllocation
    \/ \E d \in Clients : ExpireActiveToken(d)
    \/ NewBlock \/ Quiesced

Spec == Init /\ [][Next]_vars

-----------------------------------------------------------------------------
\* A custom job the pool accepts was accepted by Bitcoin Core in a declaration
\* of the client that owns the token, on the previous block it names, whatever
\* request ids and tokens the clients use.
AcceptedWasValidated ==
    pool.pc = "accepted" =>
        \E v \in validated : /\ v.owner = pool.tok.owner
                             /\ v.job = pool.job
                             /\ v.prev = pool.prev

\* The accepted job is the one the token was granted for.
MatchesGrant ==
    \E g \in granted : /\ g.token = pool.tok.token
                       /\ g.owner = pool.tok.owner
                       /\ g.identity = pool.by
                       /\ g.job = pool.job

\* "cross-check that a subsequent SetCustomMiningJob matches the original
\* declaration": it does for a jd-client, beside clients that send anything (a
\* client that uses one request id for two declarations is not a jd-client).
JdcAcceptedAsGranted ==
    pool.pc = "accepted" /\ pool.tok.owner \in JdcClients => MatchesGrant

\* An allocation leads to at most one accepted custom job.
SpentOnce ==
    [][pool.pc = "take" /\ pool'.pc = "accepted" => pool.tok.origin \notin spent]_vars

\* The active token of a connected jd-client has its validated declaration in
\* the engine, whatever other clients, the janitors and cleanups do: a
\* SetCustomMiningJob for it in time cannot fail with an invalid token.
ActiveBacked ==
    \A b \in active : b.owner \in JdcClients \cap clients =>
        \E e \in entries, k \in jobs, g \in granted :
            /\ e.owner = b.owner /\ e.token = b.origin
            /\ k.owner = b.owner /\ k.rid = e.rid /\ k.validated
            /\ g.token = b.token /\ g.job = k.job

\* What a jd-client may rely on while other clients send anything: a token it
\* holds is backed by its declaration (ensure_state, the janitors, cleanup), and
\* the job the pool accepts for it is the one it declared.
JdcServed == ActiveBacked /\ JdcAcceptedAsGranted

\* The connection's task has returned and no message of it is left.
Quiet(d) ==
    /\ conn[d] = "gone"
    /\ cur.kind # "none" => cur.from # d
    /\ \A n \in 1..Len(queue) : queue[n].from # d

\* No allocated token survives its connection, although the loop may allocate
\* for a connection that is being cleaned up or is gone.
NoOrphanAllocation ==
    \A d \in Clients : Quiet(d) => \A a \in allocated : a.owner # d

\* An allocation is never in two places, and no number names two tokens.
OnePlace == TM!OnePlace
NumbersDistinct == TM!NumbersDistinct

\* The loop disconnects only a connection whose task is leaving already: no
\* order of cleanups makes it drop a client that is being served.
OnlyLeavingDisconnected ==
    loop \in CleanupSteps =>
        conn[cur.from] \in CleanupSteps \cup {"finished", "gone"}

-----------------------------------------------------------------------------
\* tokio keeps polling the loop and the connections' tasks, Bitcoin Core answers
\* or the response channel is dropped, and the janitor runs every ten seconds.
Fairness ==
    /\ WF_vars(Receive) /\ WF_vars(HandleMessage)
    /\ \A d \in Clients : /\ WF_vars(CleanupByTask(d)) /\ WF_vars(Drop(d))
                         /\ WF_vars(ExpireActiveToken(d))

FairSpec == Spec /\ Fairness

\* The loop catches up with its queue, whoever disconnects meanwhile: no
\* handler waits for something that only another message could bring.
LoopCatchesUp == []<>(queue = <<>> /\ loop = "idle")

\* Time and again no token is left of a connection that is gone: the janitor
\* removes those the races with a cleanup left behind too.
OrphansReaped == []<>(\A x \in allocated \cup active : conn[x.owner] # "gone")

=============================================================================
