------------------------- MODULE FallbackCoordinator -------------------------
(***************************************************************************)
(* The barrier that the miner-side applications (jd-client, translator)    *)
(* put between two upstreams: stratum-apps/src/fallback_coordinator.rs.    *)
(* Components register, somebody cancels the signal, the runtime calls     *)
(* trigger_fallback_and_wait and rebuilds everything once that returns.    *)
(*                                                                         *)
(* The counter, the cancellation token and tokio's Notify are each         *)
(* linearizable; the token takes a lock in cancel and in is_cancelled, so  *)
(* the relaxed counter updates before it are ordered by it.                *)
(***************************************************************************)
EXTENDS Naturals, FiniteSets

CONSTANTS Tasks,      \* components that take part in the fallback cycle
          LongLived,  \* components whose loop ends only on the signal
          Early,      \* long-lived components registered before serving starts
          LateTasks   \* components whose register() may run after the signal

ASSUME TasksAssumption ==
    /\ IsFiniteSet(Tasks)
    /\ LongLived \subseteq Tasks
    /\ Early \subseteq LongLived
    /\ LateTasks \subseteq Tasks

VARIABLES signal,   \* CancellationToken: is the fallback signal cancelled?
          pending,  \* AtomicUsize pending_tasks
          permit,   \* Notify: is a notify_one permit stored?
          task,     \* per component: spawned, registered, subtracted or done
          prev,     \* what the component's fetch_sub returned
          main      \* the runtime: serving, triggered, waiting or returned

vars == <<signal, pending, permit, task, prev, main>>

Registered == {t \in Tasks : task[t] = "registered"}

TypeOK ==
    /\ signal \in BOOLEAN
    /\ pending \in Nat
    /\ permit \in BOOLEAN
    /\ task \in [Tasks -> {"spawned", "registered", "subtracted", "done"}]
    /\ prev \in [Tasks -> Nat]
    /\ main \in {"serving", "triggered", "waiting", "returned"}

-----------------------------------------------------------------------------
Init ==
    /\ signal = FALSE
    /\ pending = Cardinality(Early)
    /\ permit = FALSE
    /\ task = [t \in Tasks |-> IF t \in Early THEN "registered" ELSE "spawned"]
    /\ prev = [t \in Tasks |-> 0]
    /\ main = "serving"

\* FallbackCoordinator::register, from the component's own task.
Register(t) ==
    /\ task[t] = "spawned"
    /\ ~signal \/ t \in LateTasks
    /\ pending' = pending + 1
    /\ task' = [task EXCEPT ![t] = "registered"]
    /\ UNCHANGED <<signal, permit, prev, main>>

\* A component's handle_error_action asks for a fallback: token().cancel().
SignalFallback ==
    /\ ~signal
    /\ signal' = TRUE
    /\ UNCHANGED <<pending, permit, task, prev, main>>

\* FallbackHandler::done up to the fetch_sub.  A long-lived loop only ends once
\* the signal is cancelled; a connection's may end at any time.
DoneSub(t) ==
    /\ task[t] = "registered"
    /\ signal \/ t \notin LongLived
    /\ prev' = [prev EXCEPT ![t] = pending]
    /\ pending' = pending - 1
    /\ task' = [task EXCEPT ![t] = "subtracted"]
    /\ UNCHANGED <<signal, permit, main>>

\* Mutant: every component that finishes notifies, not only the last.
DoneNotifyAlways(t) ==
    /\ task[t] = "subtracted"
    /\ permit' = (permit \/ signal)
    /\ task' = [task EXCEPT ![t] = "done"]
    /\ UNCHANGED <<signal, pending, prev, main>>

\* Mutant: the last component is taken to see 0 instead of 1.
DoneNotifyAtZero(t) ==
    /\ task[t] = "subtracted"
    /\ permit' = (permit \/ (signal /\ prev[t] = 0))
    /\ task' = [task EXCEPT ![t] = "done"]
    /\ UNCHANGED <<signal, pending, prev, main>>

\* The rest of done: the signal is monotone, so testing it and storing the
\* permit is one step.
DoneNotify(t) ==
    /\ task[t] = "subtracted"
    /\ permit' = (permit \/ (signal /\ prev[t] = 1))
    /\ task' = [task EXCEPT ![t] = "done"]
    /\ UNCHANGED <<signal, pending, prev, main>>

\* The runtime's wait() sees the cancelled signal and calls
\* trigger_fallback_and_wait, which cancels it (again) first.
Trigger ==
    /\ main = "serving"
    /\ signal
    /\ main' = "triggered"
    /\ UNCHANGED <<signal, pending, permit, task, prev>>

LoadPending ==
    /\ main = "triggered"
    /\ main' = IF pending = 0 THEN "returned" ELSE "waiting"
    /\ UNCHANGED <<signal, pending, permit, task, prev>>

\* Mutant: the runtime polls the count it loaded instead of awaiting the permit.
PollStaleCount ==
    /\ main = "waiting"
    /\ UNCHANGED vars

\* notified().await consumes the permit, whoever stored it and whenever.
Notified ==
    /\ main = "waiting"
    /\ permit
    /\ permit' = FALSE
    /\ main' = "returned"
    /\ UNCHANGED <<signal, pending, task, prev>>

\* The cycle is over; the next one has a FallbackCoordinator of its own.
CycleOver ==
    /\ main = "returned"
    /\ \A t \in Tasks : task[t] \in {"spawned", "done"}
    /\ UNCHANGED vars

Next ==
    \/ \E t \in Tasks : Register(t) \/ DoneSub(t) \/ DoneNotify(t)
    \/ SignalFallback
    \/ Trigger
    \/ LoadPending
    \/ Notified
    \/ CycleOver

\* tokio keeps polling runnable tasks, and every registered component's loop
\* has an arm for the cancelled signal that runs its cleanup and done().
Fairness ==
    /\ \A t \in Tasks : WF_vars(signal /\ DoneSub(t)) /\ WF_vars(DoneNotify(t))
    /\ WF_vars(Trigger) /\ WF_vars(LoadPending) /\ WF_vars(Notified)

Spec == Init /\ [][Next]_vars

FairSpec == Spec /\ Fairness

-----------------------------------------------------------------------------
\* "waiting until all registered components have completed their cleanup":
\* when trigger_fallback_and_wait has returned, no component is between
\* register() and done(), so ports and channels can be handed out again.
AllDoneOnReturn ==
    main = "returned" => Registered = {}

\* A waiting runtime is never forgotten: a permit is stored, a component that
\* has still to call done() exists, or one that saw itself as the last is
\* about to store the permit.
NoLostWakeup ==
    main = "waiting" /\ ~permit =>
        \/ Registered # {}
        \/ \E t \in Tasks : task[t] = "subtracted" /\ prev[t] = 1

\* Once a component asked for a fallback, trigger_fallback_and_wait returns.
FallbackCompletes == signal ~> main = "returned"

=============================================================================
