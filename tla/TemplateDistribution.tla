------------------------- MODULE TemplateDistribution -------------------------
(* The Bitcoin Core runtime of the Template Distribution Protocol              *)
(* (bitcoin-core-sv2, unix_capnp/v31x/template_distribution_protocol): run(),  *)
(* which boots on the first CoinbaseOutputConstraints, and the three tasks it  *)
(* spawns on one LocalSet - monitor_ipc_templates (mon), monitor_incoming_     *)
(* messages (inc) and monitor_template_retirement (sweep). The tasks           *)
(* interleave at every await on Bitcoin Core; between two awaits a step is     *)
(* atomic. Bitcoin Core may answer, fail, or stay silent for ever.             *)
(* Below, the user of the stream (a pool or a job declarator client): it reads *)
(* the messages, and may send a solution for any template one of its channels  *)
(* still holds a job for.                                                      *)
EXTENDS Integers, Sequences, FiniteSets, FiniteSetsExt

CONSTANTS MaxTip,    \* chain tips are 1..MaxTip
          MaxId,     \* bound on the template ids handed out
          MaxEpoch,  \* CoinbaseOutputConstraints messages the user sends
          MaxInbox,  \* bound on the messages waiting for the runtime
          MaxOut,    \* messages the user may be behind when another is sent
          Cap        \* max_same_tip_templates: the user's job history

ASSUME CapAssumption == Cap \in Nat \ {0}
ASSUME BoundsAssumption == {MaxId, MaxEpoch, MaxInbox, MaxOut} \subseteq Nat /\ MaxTip \in Nat \ {0}

VARIABLES coreTip,    \* Bitcoin Core's chain tip
          phase,      \* run(): "first", "boot", "run", "drain", "done"
          cancelled,  \* global_cancellation_token
          monStop,    \* template_ipc_client_cancellation_token of the monitor
          mon,        \* monitor_ipc_templates
          handle,     \* monitor_ipc_templates_handle is Some
          inc,        \* monitor_incoming_messages
          boot,       \* bootstrap_template_ipc_client_from_coinbase_output_constraints
          due,        \* templates monitor_template_retirement is destroying
          held,       \* retained_templates: id -> template
          future,     \* future_template, or NoTemplate
          current,    \* current_template_ipc_client and current_prev_hash
          nextId,     \* template_id_factory
          throttled,  \* min_interval since last_sent_template_instant not over
          inbox,      \* incoming_messages
          out,        \* outgoing_messages
          user,       \* the reader: its future template and its job history
          nextEpoch,  \* constraints the user sends next
          lost        \* a solution named a template no longer held

runtime == <<phase, cancelled, monStop, mon, handle, inc, boot, due>>
store == <<held, future, current, nextId, throttled>>
wire == <<inbox, out>>
userVars == <<user, nextEpoch, lost>>
vars == <<coreTip, runtime, store, wire, userVars>>

NoTemplate == [id |-> 0, tip |-> 0, epoch |-> 0]
NewMsg(t, isFuture) == [k |-> "new", future |-> isFuture, id |-> t.id, tip |-> t.tip, epoch |-> t.epoch]
PrevMsg(t) == [k |-> "prev", id |-> t.id, tip |-> t.tip]
DataMsg(id, ok) == [k |-> "data", id |-> id, ok |-> ok]

Off == [st |-> "off"]

Init ==
    /\ coreTip = 1
    /\ phase = "first" /\ cancelled = FALSE /\ monStop = FALSE
    /\ mon = Off /\ handle = FALSE /\ inc = Off /\ boot = Off /\ due = {}
    /\ held = <<>> /\ future = NoTemplate /\ current = NoTemplate
    /\ nextId = 1 /\ throttled = FALSE
    /\ inbox = <<>> /\ out = <<>>
    /\ user = [future |-> 0, jobs |-> {}]
    /\ nextEpoch = 1 /\ lost = FALSE

--------------------------------------------------------------------------------
(* The templates held. A retired one carries its deadline: "grace" until the   *)
(* grace period is over, then "due".                                           *)

Retire(t) == IF t.retired = "no" THEN [t EXCEPT !.retired = "grace"] ELSE t

Live(ret) == {i \in DOMAIN ret : ret[i].retired = "no"}

\* Retained templates and the slot of the tip's future template, as a pair.
Stored(ret, fut) == [ret |-> ret, fut |-> fut]

AsRetained(t, retired) == [tip |-> t.tip, epoch |-> t.epoch, retired |-> retired]

Put(ret, id, t) == [i \in DOMAIN ret \union {id} |-> IF i = id THEN t ELSE ret[i]]

retire_all_templates(s) ==
    LET ret == [i \in DOMAIN s.ret |-> Retire(s.ret[i])]
    IN  Stored(IF s.fut = NoTemplate THEN ret ELSE Put(ret, s.fut.id, AsRetained(s.fut, "grace")),
               NoTemplate)

store_template_data(s, t, isFuture) ==
    IF isFuture THEN Stored(s.ret, t)
                ELSE Stored(Put(s.ret, t.id, AsRetained(t, "no")), s.fut)

\* Mutant: one template fewer than the cap is kept.
OldestKeptOffByOne(live) == Max({i \in live : Cardinality({j \in live : j >= i}) >= Cap - 1})

\* The first of the Cap newest live templates.
OldestKept(live) == Max({i \in live : Cardinality({j \in live : j >= i}) >= Cap})

retire_templates_beyond_cap(s) ==
    LET live == Live(s.ret)
    IN  IF Cardinality(live) <= Cap
        THEN s
        ELSE Stored([i \in DOMAIN s.ret |-> IF i < OldestKept(live) THEN Retire(s.ret[i]) ELSE s.ret[i]], s.fut)

\* "no": never published or destroyed; else whether it still answers requests.
template_data_for(id) ==
    IF future.id = id THEN "live"
    ELSE IF id \notin DOMAIN held THEN "none"
    ELSE IF held[id].retired = "no" THEN "live" ELSE "retired"

\* Stores the template, applies the cap, sends NewTemplate and then, for a
\* future template, SetNewPrevHash. No other task runs in between: the channel
\* is unbounded. `s` is the store the caller leaves, after retiring or not.
publish_template(s, t, isFuture, sendPrev, updateInstant) ==
    LET kept == retire_templates_beyond_cap(store_template_data(s, t, isFuture))
    IN  /\ held' = kept.ret
        /\ future' = kept.fut
        /\ current' = t
        /\ out' = out \o IF sendPrev THEN <<NewMsg(t, isFuture), PrevMsg(t)>> ELSE <<NewMsg(t, isFuture)>>
        /\ throttled' = (throttled \/ updateInstant)

\* The user is at most MaxOut messages behind (the bound of the exploration).
Room == Len(out) <= MaxOut

\* Bitcoin Core hands out a template of the tip it is on; its data is fetched
\* next, under the id the factory gives it.
FetchedTemplate(epoch) == [id |-> nextId, tip |-> coreTip, epoch |-> epoch]

--------------------------------------------------------------------------------
(* Bootstrap, from run() ("run") or from handle_coinbase_output_constraints    *)
(* ("inc").                                                                    *)

StartBoot(by, epoch) == boot' = [st |-> "create", by |-> by, epoch |-> epoch]

\* createNewBlock answers; fetch_template_data starts.
BootCreated ==
    /\ boot.st = "create"
    /\ nextId <= MaxId
    /\ boot' = [st |-> "fetch", by |-> boot.by, got |-> FetchedTemplate(boot.epoch)]
    /\ nextId' = nextId + 1
    /\ UNCHANGED <<coreTip, phase, cancelled, monStop, mon, handle, inc, due, held, future, current, throttled, wire, userVars>>

\* Mutant: the replacement monitor is not spawned.
SpawnNoMonitor == mon' = [st |-> "exit"] /\ handle' = TRUE

SpawnMonitor == mon' = [st |-> "thread"] /\ handle' = TRUE

BootPublish ==
    /\ boot.st = "fetch" /\ Room
    /\ publish_template(Stored(held, future), boot.got, TRUE, TRUE, TRUE)
    /\ boot' = Off
    /\ SpawnMonitor
    /\ inc' = [st |-> "idle"]
    /\ phase' = IF boot.by = "run" THEN "run" ELSE phase
    /\ UNCHANGED <<coreTip, cancelled, monStop, due, nextId, inbox, userVars>>

\* Bitcoin Core answers with an error, or the wait is given up because the
\* runtime is being stopped: run() returns, the incoming task ends; both leave
\* the token cancelled.
BootAbandoned ==
    /\ boot.st \in {"create", "fetch"}
    /\ boot' = Off
    /\ cancelled' = TRUE
    /\ IF boot.by = "run" THEN phase' = "done" /\ UNCHANGED inc
                          ELSE inc' = [st |-> "exit"] /\ UNCHANGED phase
    /\ UNCHANGED <<coreTip, monStop, mon, handle, due, store, wire, userVars>>

--------------------------------------------------------------------------------
(* run()                                                                       *)

\* Everything but CoinbaseOutputConstraints is ignored until the first one.
RunFirst ==
    /\ phase = "first" /\ inbox # <<>>
    /\ inbox' = Tail(inbox)
    /\ IF Head(inbox).k = "con"
       THEN phase' = "boot" /\ StartBoot("run", Head(inbox).epoch)
       ELSE UNCHANGED <<phase, boot>>
    /\ UNCHANGED <<coreTip, cancelled, monStop, mon, handle, inc, due, store, out, userVars>>

RunCancelled ==
    /\ cancelled
    /\ \/ phase = "first" /\ phase' = "done" /\ UNCHANGED handle
       \/ /\ phase = "run"
          /\ phase' = IF handle THEN "drain" ELSE "done"
          /\ handle' = FALSE
       \/ phase = "drain" /\ mon.st = "exit" /\ phase' = "done" /\ UNCHANGED handle
    /\ UNCHANGED <<coreTip, cancelled, monStop, mon, inc, boot, due, store, wire, userVars>>

--------------------------------------------------------------------------------
(* monitor_ipc_templates: one waitNext request is always outstanding. `base`   *)
(* is the template it waits on, `fee` whether it may return for fees.          *)

Waiting(base, isThrottled) == [st |-> "wait", base |-> base, fee |-> ~isThrottled]

MonThread ==
    /\ mon.st = "thread"
    /\ mon' = Waiting(current, throttled)
    /\ UNCHANGED <<coreTip, phase, cancelled, monStop, handle, inc, boot, due, store, wire, userVars>>

MonTimeout ==
    /\ mon.st = "wait"
    /\ mon' = Waiting(mon.base, throttled)
    /\ UNCHANGED <<coreTip, phase, cancelled, monStop, handle, inc, boot, due, store, wire, userVars>>

FeeWakeup(m) == m.fee

\* waitNext returns a template, for a new tip or for fees.
MonWaitNext ==
    /\ mon.st = "wait"
    /\ nextId <= MaxId
    /\ coreTip # mon.base.tip \/ FeeWakeup(mon)
    /\ mon' = [st |-> "fetch", got |-> FetchedTemplate(mon.base.epoch)]
    /\ nextId' = nextId + 1
    /\ UNCHANGED <<coreTip, phase, cancelled, monStop, handle, inc, boot, due, held, future, current, throttled, wire, userVars>>

\* Mutant: every template waitNext returns is taken for a fee update.
NeverMoved(t) == FALSE

TipMoved(t) == t.tip # current.tip

MonPublish ==
    /\ mon.st = "fetch" /\ Room
    /\ IF TipMoved(mon.got)
       THEN publish_template(retire_all_templates(Stored(held, future)), mon.got, TRUE, TRUE, FALSE)
       ELSE publish_template(Stored(held, future), mon.got, FALSE, FALSE, TRUE)
    /\ mon' = Waiting(mon.got, throttled')
    /\ UNCHANGED <<coreTip, phase, cancelled, monStop, handle, inc, boot, due, nextId, inbox, userVars>>

MonFailed ==
    /\ mon.st \in {"thread", "wait", "fetch"}
    /\ cancelled' = TRUE
    /\ mon' = [st |-> "exit"]
    /\ UNCHANGED <<coreTip, phase, monStop, handle, inc, boot, due, store, wire, userVars>>

\* Mutant: a fetch in progress does not give way to the cancellation.
StopUnlessFetching(m) == (m.st \in {"thread", "wait"} /\ cancelled) \/ (m.st = "wait" /\ monStop)

\* Every wait gives way to the global token; waitNext also to the token of the
\* template client. The interrupt sent to Bitcoin Core is bounded by a timeout.
MonMayStop(m) ==
    \/ m.st \in {"thread", "wait", "fetch"} /\ cancelled
    \/ m.st = "wait" /\ monStop

MonStopped ==
    /\ MonMayStop(mon)
    /\ mon' = [st |-> "exit"]
    /\ UNCHANGED <<coreTip, phase, cancelled, monStop, handle, inc, boot, due, store, wire, userVars>>

--------------------------------------------------------------------------------
(* monitor_incoming_messages                                                   *)

\* Cancels the current monitor and waits for it to end.
handle_coinbase_output_constraints(m) ==
    /\ monStop' = TRUE
    /\ handle' = FALSE
    /\ inc' = [st |-> "join", epoch |-> m.epoch]
    /\ UNCHANGED <<out, lost>>

\* A retired template is refused from the moment it is superseded.
handle_request_transaction_data(m) ==
    /\ IF template_data_for(m.id) = "live"
       THEN inc' = [st |-> "data", id |-> m.id] /\ UNCHANGED out
       ELSE out' = Append(out, DataMsg(m.id, FALSE)) /\ UNCHANGED inc
    /\ UNCHANGED <<monStop, handle, lost>>

\* Not gated on retirement. A solution for a template that is gone is dropped.
handle_submit_solution(m) ==
    /\ IF template_data_for(m.id) = "none"
       THEN lost' = TRUE /\ UNCHANGED inc
       ELSE inc' = [st |-> "submit"] /\ UNCHANGED lost
    /\ UNCHANGED <<monStop, handle, out>>

IncReceive ==
    /\ inc.st = "idle" /\ inbox # <<>> /\ Room
    /\ inbox' = Tail(inbox)
    /\ LET m == Head(inbox)
       IN  CASE m.k = "con" -> handle_coinbase_output_constraints(m)
             [] m.k = "data" -> handle_request_transaction_data(m)
             [] m.k = "sol" -> handle_submit_solution(m)
    /\ UNCHANGED <<coreTip, phase, cancelled, mon, boot, due, store, user, nextEpoch>>

MonitorEnded == mon.st = "exit"

IncJoined ==
    /\ inc.st = "join" /\ MonitorEnded
    /\ LET s == retire_all_templates(Stored(held, future)) IN held' = s.ret /\ future' = s.fut
    /\ monStop' = FALSE
    /\ StartBoot("inc", inc.epoch)
    /\ inc' = [st |-> "boot"]
    /\ UNCHANGED <<coreTip, phase, cancelled, mon, handle, due, current, nextId, throttled, wire, userVars>>

\* getBlock answers; the template may have been retired meanwhile.
IncData ==
    /\ inc.st = "data" /\ Room
    /\ out' = Append(out, DataMsg(inc.id, TRUE))
    /\ inc' = [st |-> "idle"]
    /\ UNCHANGED <<coreTip, phase, cancelled, monStop, mon, handle, boot, due, store, inbox, userVars>>

\* Accepted or refused by Bitcoin Core; neither stops the runtime.
IncSubmitted ==
    /\ inc.st = "submit"
    /\ inc' = [st |-> "idle"]
    /\ UNCHANGED <<coreTip, phase, cancelled, monStop, mon, handle, boot, due, store, wire, userVars>>

IncFailed ==
    /\ inc.st = "data"
    /\ cancelled' = TRUE
    /\ inc' = [st |-> "exit"]
    /\ UNCHANGED <<coreTip, phase, monStop, mon, handle, boot, due, store, wire, userVars>>

IncStopped ==
    /\ cancelled /\ inc.st \in {"idle", "data", "submit"}
    /\ inc' = [st |-> "exit"]
    /\ UNCHANGED <<coreTip, phase, cancelled, monStop, mon, handle, boot, due, store, wire, userVars>>

--------------------------------------------------------------------------------
(* monitor_template_retirement: takes what is due out of the map, then         *)
(* destroys each.                                                              *)

IsDue(i) == held[i].retired = "due"

Sweep ==
    /\ phase = "run" /\ ~cancelled /\ due = {}
    /\ \E i \in DOMAIN held : IsDue(i)
    /\ due' = {i \in DOMAIN held : IsDue(i)}
    /\ held' = [i \in {j \in DOMAIN held : ~IsDue(j)} |-> held[i]]
    /\ UNCHANGED <<coreTip, phase, cancelled, monStop, mon, handle, inc, boot, future, current, nextId, throttled, wire, userVars>>

Destroy ==
    /\ due # {}
    /\ due' = due \ {Min(due)}
    /\ UNCHANGED <<coreTip, phase, cancelled, monStop, mon, handle, inc, boot, store, wire, userVars>>

DestroyFailed ==
    /\ due # {} /\ ~cancelled
    /\ cancelled' = TRUE /\ due' = {}
    /\ UNCHANGED <<coreTip, phase, monStop, mon, handle, inc, boot, store, wire, userVars>>

--------------------------------------------------------------------------------
(* Bitcoin Core's chain, time, the process owning the token, and the user.     *)

NewTip ==
    /\ coreTip < MaxTip
    /\ coreTip' = coreTip + 1
    /\ UNCHANGED <<runtime, store, wire, userVars>>

IntervalOver ==
    /\ throttled
    /\ throttled' = FALSE
    /\ UNCHANGED <<coreTip, runtime, held, future, current, nextId, wire, userVars>>

\* STALE_TEMPLATE_GRACE_PERIOD_SECS go by. The period is longer than a message
\* waits to be handled: what was in flight has been answered.
GraceOver ==
    /\ inbox = <<>> /\ out = <<>> /\ inc.st = "idle"
    /\ \E i \in DOMAIN held : held[i].retired = "grace"
    /\ held' = [i \in DOMAIN held |-> IF held[i].retired = "grace" THEN [held[i] EXCEPT !.retired = "due"] ELSE held[i]]
    /\ UNCHANGED <<coreTip, runtime, future, current, nextId, throttled, wire, userVars>>

Shutdown ==
    /\ ~cancelled
    /\ cancelled' = TRUE
    /\ UNCHANGED <<coreTip, phase, monStop, mon, handle, inc, boot, due, store, wire, userVars>>

Newest(ids) == {i \in ids : Cardinality({j \in ids : j > i}) < Cap}

UserRead ==
    /\ out # <<>>
    /\ out' = Tail(out)
    /\ user' = LET m == Head(out)
               IN  CASE m.k = "new" /\ ~m.future -> [user EXCEPT !.jobs = Newest(@ \union {m.id})]
                     [] m.k = "prev" -> [future |-> m.id, jobs |-> {}]
                     [] OTHER -> user
    /\ UNCHANGED <<coreTip, runtime, store, inbox, nextEpoch, lost>>

UserSends(m) ==
    /\ Len(inbox) < MaxInbox
    /\ inbox' = Append(inbox, m)
    /\ UNCHANGED <<coreTip, runtime, store, out, user, lost>>

UserConstrains ==
    /\ nextEpoch <= MaxEpoch
    /\ nextEpoch' = nextEpoch + 1
    /\ UserSends([k |-> "con", epoch |-> nextEpoch])

UserAsks ==
    \E id \in ({user.future} \union user.jobs) \ {0}, k \in {"data", "sol"} :
        UserSends([k |-> k, id |-> id]) /\ UNCHANGED nextEpoch

--------------------------------------------------------------------------------
Stopped == phase = "done" /\ UNCHANGED vars

RuntimeStep ==
    \/ BootCreated \/ BootPublish \/ BootAbandoned
    \/ RunFirst \/ RunCancelled
    \/ MonThread \/ MonTimeout \/ MonWaitNext \/ MonPublish \/ MonFailed \/ MonStopped
    \/ IncReceive \/ IncJoined \/ IncData \/ IncSubmitted \/ IncFailed \/ IncStopped
    \/ Sweep \/ Destroy \/ DestroyFailed

\* Once run() has returned the LocalSet is dropped and its tasks with it.
Next ==
    \/ phase # "done" /\ (RuntimeStep \/ NewTip \/ IntervalOver \/ GraceOver \/ Shutdown
                          \/ UserRead \/ UserConstrains \/ UserAsks)
    \/ Stopped

Spec == Init /\ [][Next]_vars

\* Local steps are scheduled; Bitcoin Core is not assumed to answer. A wait
\* given up on cancellation is a local step.
GiveUp == cancelled /\ phase # "done" /\ BootAbandoned
LocalFairness ==
    /\ WF_vars(phase # "done" /\ RunCancelled)
    /\ WF_vars(phase # "done" /\ MonStopped)
    /\ WF_vars(GiveUp)

SilentSpec == Spec /\ LocalFairness

\* A node that answers, and a user that reads. (Publishing is strongly fair only
\* because Room, a bound of the exploration, may come and go.)
AnsweringFairness ==
    /\ WF_vars(phase # "done" /\ (BootCreated \/ BootPublish))
    /\ WF_vars(phase # "done" /\ (MonThread \/ (mon.st = "wait" /\ coreTip # mon.base.tip /\ MonWaitNext) \/ MonStopped))
    /\ SF_vars(phase # "done" /\ MonPublish)
    /\ WF_vars(phase # "done" /\ (RunFirst \/ IncReceive \/ IncJoined \/ IncData \/ IncSubmitted))
    /\ WF_vars(phase # "done" /\ UserRead)

--------------------------------------------------------------------------------
Templates == [id : 0..MaxId, tip : 0..MaxTip, epoch : 0..MaxEpoch]

\* The fields of TemplateData and of the tasks keep their types.
TypeOK ==
    /\ coreTip \in 1..MaxTip
    /\ phase \in {"first", "boot", "run", "drain", "done"}
    /\ {cancelled, monStop, handle, throttled, lost} \subseteq BOOLEAN
    /\ mon.st \in {"off", "thread", "wait", "fetch", "exit"}
    /\ inc.st \in {"off", "idle", "join", "boot", "data", "submit", "exit"}
    /\ boot.st \in {"off", "create", "fetch"}
    /\ DOMAIN held \union due \subseteq 1..MaxId
    /\ \A i \in DOMAIN held : held[i].retired \in {"no", "grace", "due"}
    /\ future \in Templates /\ current \in Templates
    /\ nextId \in 1..MaxId + 1 /\ nextEpoch \in 1..MaxEpoch + 1

\* mod.rs: "The cap must cover the job history a downstream may still submit a
\* solution against": a solution for a job one of the user's channels still
\* holds finds its template, whatever was published, retired and swept since.
SolutionFindsTemplate == ~lost

\* The count cap bounds what Bitcoin Core keeps alive at one tip: never more
\* than Cap templates that are not retired, the future one apart.
LiveWithinCap == Cardinality(Live(held)) <= Cap

\* "We no longer care about templates created under previous constraints": the
\* templates that still answer requests are all of the tip and the constraints
\* of the current future template, although constraints and tips change while
\* a monitor is fetching.
LiveTemplatesCurrent ==
    future # NoTemplate =>
        \A i \in Live(held) : held[i].tip = future.tip /\ held[i].epoch = future.epoch

\* Retention is neither too short nor too long: the templates that still answer
\* are current and within the cap, and cover every solution the user may send
\* (retire_templates_beyond_cap, retire_all_templates, the sweep).
Retention == TypeOK /\ SolutionFindsTemplate /\ LiveWithinCap /\ LiveTemplatesCurrent

\* "Every request to Bitcoin Core gives way to it, so a node that stops
\* answering cannot hold shutdown": run() returns once cancelled, even when
\* Bitcoin Core never answers again.
CancelledReturns == cancelled ~> phase = "done"

\* A chain tip is announced (or the runtime stops), if Bitcoin Core answers.
TipAnnounced ==
    AnsweringFairness =>
        \A t \in 2..MaxTip :
            (coreTip = t /\ phase = "run") ~> (current.tip >= t \/ cancelled \/ nextId > MaxId)

\* The stream the user reads is one of a template source.
Promise == INSTANCE TemplateSource
    WITH Ids <- 1..MaxId, Tips <- 1..MaxTip, Epochs <- 1..MaxEpoch,
         stream <- out,
         announced <- [tip |-> current.tip, epoch |-> current.epoch],
         last <- current.id

\* publish_template sends an ordered stream: a future template with its
\* SetNewPrevHash, and non-future ones only for the tip and the constraints
\* announced last, whichever task publishes and whatever it raced with.
ImplementsTemplateSource == Promise!Spec
================================================================================
