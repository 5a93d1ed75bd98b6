---------------------- MODULE FallbackCoordinatorProofs ----------------------
(***************************************************************************)
(* Proofs about FallbackCoordinator, for any finite set of components.     *)
(***************************************************************************)
EXTENDS FallbackCoordinator, FiniteSetTheorems, TLAPS

\* The counter pending_tasks counts the components between register() and the
\* fetch_sub of done().
CounterExact == pending = Cardinality(Registered)

CountInv == TypeOK /\ CounterExact

\* The registered components form a finite set, so their number is a natural
\* number, zero exactly when there are none, and one only for a singleton.
LEMMA RegisteredCount ==
    ASSUME TypeOK
    PROVE  /\ IsFiniteSet(Registered)
           /\ Cardinality(Registered) \in Nat
           /\ Cardinality(Registered) = 0 <=> Registered = {}
           /\ \A t \in Registered : Cardinality(Registered) = 1 => Registered = {t}
<1>1. IsFiniteSet(Registered)
  BY TasksAssumption, FS_Subset DEF Registered
<1>2. Cardinality(Registered) \in Nat
  BY <1>1, FS_CardinalityType
<1>3. Cardinality(Registered) = 0 <=> Registered = {}
  BY <1>1, FS_EmptySet
<1>4. ASSUME NEW t \in Registered, Cardinality(Registered) = 1
      PROVE  Registered = {t}
  <2>1. /\ IsFiniteSet(Registered \ {t})
        /\ Cardinality(Registered \ {t}) = 0
    BY <1>1, <1>2, <1>4, FS_RemoveElement
  <2>2. Registered \ {t} = {}
    BY <2>1, FS_EmptySet
  <2> QED BY <2>2
<1> QED BY <1>1, <1>2, <1>3, <1>4

\* Registering and finishing move the counter and the set together.
LEMMA CountStep == CountInv /\ [Next]_vars => CountInv'
<1> SUFFICES ASSUME CountInv, [Next]_vars PROVE CountInv'
  OBVIOUS
<1> USE DEF CountInv, CounterExact
<1>0. /\ IsFiniteSet(Registered)
      /\ Cardinality(Registered) \in Nat
  BY RegisteredCount
<1>1. ASSUME NEW t \in Tasks, Register(t) PROVE CountInv'
  <2>1. Registered' = Registered \cup {t} /\ t \notin Registered
    BY <1>1 DEF Register, Registered, TypeOK
  <2>2. Cardinality(Registered') = Cardinality(Registered) + 1
    BY <1>0, <2>1, FS_AddElement
  <2>3. TypeOK'
    BY <1>1 DEF Register, TypeOK
  <2> QED BY <1>1, <2>2, <2>3 DEF Register
<1>2. ASSUME NEW t \in Tasks, DoneSub(t) PROVE CountInv'
  <2>1. Registered' = Registered \ {t} /\ t \in Registered
    BY <1>2 DEF DoneSub, Registered, TypeOK
  <2>2. Cardinality(Registered') = Cardinality(Registered) - 1
    BY <1>0, <2>1, FS_RemoveElement
  <2>3. Cardinality(Registered') \in Nat
    <3>1. IsFiniteSet(Registered')
      BY <1>0, <2>1, FS_Subset
    <3> QED BY <3>1, FS_CardinalityType
  <2>4. pending' = Cardinality(Registered')
    BY <1>2, <2>2 DEF DoneSub
  <2>5. TypeOK'
    BY <1>2, <2>3, <2>4 DEF DoneSub, TypeOK
  <2> QED BY <2>4, <2>5
<1>3. ASSUME NEW t \in Tasks, DoneNotify(t) PROVE CountInv'
  <2>1. Registered' = Registered
    BY <1>3 DEF DoneNotify, Registered, TypeOK
  <2>2. TypeOK'
    BY <1>3 DEF DoneNotify, TypeOK
  <2> QED BY <1>3, <2>1, <2>2 DEF DoneNotify
<1>4. CASE SignalFallback \/ Trigger \/ LoadPending \/ Notified \/ CycleOver \/ UNCHANGED vars
  <2>1. Registered' = Registered /\ pending' = pending
    BY <1>4 DEF SignalFallback, Trigger, LoadPending, Notified, CycleOver, vars, Registered
  <2>2. TypeOK'
    BY <1>4, Zenon DEF SignalFallback, Trigger, LoadPending, Notified, CycleOver, vars, TypeOK, Registered
  <2> QED BY <2>1, <2>2
<1> QED BY <1>1, <1>2, <1>3, <1>4 DEF Next

\* new() starts from the components registered before serving.
LEMMA CountInit == Init => CountInv
<1> SUFFICES ASSUME Init PROVE CountInv
  OBVIOUS
<1>1. Registered = Early
  BY TasksAssumption DEF Init, Registered
<1>2. IsFiniteSet(Early)
  BY TasksAssumption, FS_Subset
<1>3. Cardinality(Early) \in Nat
  BY <1>2, FS_CardinalityType
<1> QED BY <1>1, <1>3, Zenon DEF Init, CountInv, CounterExact, TypeOK

\* Every variable keeps its type; in particular pending_tasks never wraps
\* below zero, whatever the order of register() and done().
THEOREM TypeCorrect == Spec => []TypeOK
<1>1. CountInv => TypeOK
  BY DEF CountInv
<1> QED BY CountInit, CountStep, <1>1, PTL DEF Spec

-----------------------------------------------------------------------------
\* The runtime only waits after the signal is cancelled.
SignalFirst == main # "serving" => signal

WakeInv == CountInv /\ SignalFirst /\ NoLostWakeup

\* The step that could lose the wake-up is the last fetch_sub between the load
\* of pending_tasks and notified(): it returns 1, and its owner stores the permit.
LEMMA WakeStep == WakeInv /\ [Next]_vars => WakeInv'
<1> SUFFICES ASSUME WakeInv, [Next]_vars PROVE WakeInv'
  OBVIOUS
<1>0. CountInv'
  BY CountStep DEF WakeInv
<1>t. TypeOK /\ TypeOK' /\ pending = Cardinality(Registered)
  BY <1>0 DEF WakeInv, CountInv, CounterExact
<1>1. ASSUME NEW t \in Tasks, Register(t) PROVE WakeInv'
  <2>1. t \in Registered'
    BY <1>1, <1>t DEF Register, Registered, TypeOK
  <2> QED BY <1>0, <1>1, <2>1 DEF WakeInv, SignalFirst, NoLostWakeup, Register
<1>2. ASSUME NEW t \in Tasks, DoneSub(t) PROVE WakeInv'
  <2>1. t \in Registered /\ Registered' = Registered \ {t}
    BY <1>2, <1>t DEF DoneSub, Registered, TypeOK
  <2>2. ASSUME Registered' = {} PROVE task'[t] = "subtracted" /\ prev'[t] = 1
    <3>1. Registered = {t}
      BY <2>1, <2>2
    <3>2. Cardinality(Registered) = 1
      BY <3>1, FS_Singleton, Zenon
    <3> QED BY <1>2, <1>t, <3>2 DEF DoneSub, TypeOK
  <2> QED BY <1>0, <1>2, <2>2 DEF WakeInv, SignalFirst, NoLostWakeup, DoneSub
<1>3. ASSUME NEW t \in Tasks, DoneNotify(t) PROVE WakeInv'
  <2>1. Registered' = Registered
    BY <1>3, <1>t DEF DoneNotify, Registered, TypeOK
  <2>2. SignalFirst'
    BY <1>3 DEF WakeInv, SignalFirst, DoneNotify
  <2>3. NoLostWakeup'
    <3> SUFFICES ASSUME main' = "waiting", ~permit', Registered' = {}
                 PROVE  \E u \in Tasks : task'[u] = "subtracted" /\ prev'[u] = 1
      BY DEF NoLostWakeup
    <3>1. main = "waiting" /\ ~permit /\ signal /\ prev[t] # 1
      BY <1>3, <1>t DEF WakeInv, SignalFirst, DoneNotify, TypeOK
    <3>2. PICK u \in Tasks : task[u] = "subtracted" /\ prev[u] = 1
      BY <2>1, <3>1 DEF WakeInv, NoLostWakeup
    <3>3. task'[u] = "subtracted" /\ prev'[u] = 1
      BY <1>3, <1>t, <3>1, <3>2 DEF DoneNotify, TypeOK
    <3> QED BY <3>3
  <2> QED BY <1>0, <2>2, <2>3 DEF WakeInv
<1>4. CASE SignalFallback
  BY <1>0, <1>4 DEF WakeInv, SignalFirst, NoLostWakeup, SignalFallback, Registered
<1>5. CASE Trigger
  BY <1>0, <1>5 DEF WakeInv, SignalFirst, NoLostWakeup, Trigger
<1>6. CASE LoadPending
  <2>1. main' = "waiting" => Registered' # {}
    BY <1>6, <1>t, RegisteredCount DEF LoadPending, Registered
  <2> QED BY <1>0, <1>6, <2>1 DEF WakeInv, SignalFirst, NoLostWakeup, LoadPending
<1>7. CASE Notified
  BY <1>0, <1>7 DEF WakeInv, SignalFirst, NoLostWakeup, Notified
<1>8. CASE CycleOver \/ UNCHANGED vars
  BY <1>0, <1>8 DEF WakeInv, SignalFirst, NoLostWakeup, CycleOver, vars, Registered
<1> QED BY <1>1, <1>2, <1>3, <1>4, <1>5, <1>6, <1>7, <1>8 DEF Next

\* trigger_fallback_and_wait never waits for a notification nobody will send,
\* for any set of components, late registrations included.
THEOREM WakeupNeverLost == Spec => []NoLostWakeup
<1>1. Init => WakeInv
  BY CountInit DEF Init, WakeInv, SignalFirst, NoLostWakeup
<1>2. WakeInv => NoLostWakeup
  BY DEF WakeInv
<1> QED BY <1>1, <1>2, WakeStep, PTL DEF Spec

-----------------------------------------------------------------------------
\* The discipline under which the barrier holds: some long-lived component is
\* registered before the cycle starts, and nobody registers after the signal.
Discipline == Early # {} /\ LateTasks = {}

\* Before the signal the early components keep the counter above zero, so a
\* fetch_sub that returns 1, and every permit, is younger than the signal.
BarrierInv ==
    /\ CountInv
    /\ SignalFirst
    /\ ~signal => Early \subseteq Registered
    /\ permit => signal /\ Registered = {}
    /\ \A t \in Tasks :
          task[t] = "subtracted" /\ prev[t] = 1 => signal /\ Registered = {}
    /\ main = "returned" => signal /\ Registered = {}

\* Under the discipline only the last done() stores a permit, and after it
\* nobody is registered any more.
LEMMA BarrierStep ==
    ASSUME Discipline
    PROVE  BarrierInv /\ [Next]_vars => BarrierInv'
<1> SUFFICES ASSUME BarrierInv, [Next]_vars PROVE BarrierInv'
  OBVIOUS
<1>0. CountInv'
  BY CountStep DEF BarrierInv
<1>t. TypeOK /\ TypeOK' /\ pending = Cardinality(Registered)
  BY <1>0 DEF BarrierInv, CountInv, CounterExact
<1>d. Early # {} /\ LateTasks = {} /\ Early \subseteq LongLived /\ Early \subseteq Tasks
  BY TasksAssumption DEF Discipline
<1>1. ASSUME NEW t \in Tasks, Register(t) PROVE BarrierInv'
  <2>1. ~signal /\ Registered \subseteq Registered'
    BY <1>1, <1>t, <1>d DEF Register, Registered, TypeOK
  <2>2. \A u \in Tasks : task'[u] = "subtracted" => task[u] = "subtracted"
    BY <1>1, <1>t DEF Register, TypeOK
  <2> QED BY <1>0, <1>1, <2>1, <2>2 DEF BarrierInv, SignalFirst, Register
<1>2. ASSUME NEW t \in Tasks, DoneSub(t) PROVE BarrierInv'
  <2>1. t \in Registered /\ Registered' = Registered \ {t}
    BY <1>2, <1>t DEF DoneSub, Registered, TypeOK
  <2>2. pending = 1 => Registered = {t}
    BY <1>t, <2>1, RegisteredCount
  <2>3. ~signal => t \notin Early
    BY <1>2, <1>d DEF DoneSub
  <2>4. ~signal => pending # 1
    BY <1>d, <2>2, <2>3 DEF BarrierInv
  <2>5. \A u \in Tasks : task'[u] = "subtracted" /\ prev'[u] = 1 =>
                            signal' /\ Registered' = {}
    BY <1>2, <1>t, <2>1, <2>2, <2>4 DEF BarrierInv, DoneSub, TypeOK
  <2>6. ~signal' => Early \subseteq Registered'
    BY <1>2, <2>1, <2>3 DEF BarrierInv, DoneSub
  <2> QED BY <1>0, <1>2, <2>1, <2>5, <2>6 DEF BarrierInv, SignalFirst, DoneSub
<1>3. ASSUME NEW t \in Tasks, DoneNotify(t) PROVE BarrierInv'
  <2>1. Registered' = Registered
    BY <1>3, <1>t DEF DoneNotify, Registered, TypeOK
  <2>2. \A u \in Tasks : task'[u] = "subtracted" => task[u] = "subtracted"
    BY <1>3, <1>t DEF DoneNotify, TypeOK
  <2>3. permit' => signal' /\ Registered' = {}
    BY <1>3, <2>1, Zenon DEF BarrierInv, DoneNotify
  <2> QED BY <1>0, <1>3, <2>1, <2>2, <2>3 DEF BarrierInv, SignalFirst, DoneNotify
<1>4. CASE SignalFallback
  BY <1>0, <1>4 DEF BarrierInv, SignalFirst, SignalFallback, Registered
<1>5. CASE Trigger
  BY <1>0, <1>5 DEF BarrierInv, SignalFirst, Trigger, Registered
<1>6. CASE LoadPending
  <2>1. pending = 0 => Registered = {}
    BY <1>t, RegisteredCount
  <2> QED BY <1>0, <1>6, <2>1 DEF BarrierInv, SignalFirst, LoadPending, Registered
<1>7. CASE Notified
  BY <1>0, <1>7 DEF BarrierInv, SignalFirst, Notified, Registered
<1>8. CASE CycleOver \/ UNCHANGED vars
  BY <1>0, <1>8 DEF BarrierInv, SignalFirst, CycleOver, vars, Registered
<1> QED BY <1>1, <1>2, <1>3, <1>4, <1>5, <1>6, <1>7, <1>8 DEF Next

\* Under the discipline, trigger_fallback_and_wait returns only when every
\* registered component has called done().
THEOREM BarrierHolds == ASSUME Discipline PROVE Spec => []AllDoneOnReturn
<1>1. Init => BarrierInv
  BY CountInit, TasksAssumption DEF Init, BarrierInv, SignalFirst, Registered
<1>2. BarrierInv => AllDoneOnReturn
  BY DEF BarrierInv, AllDoneOnReturn
<1> QED BY <1>1, <1>2, BarrierStep, PTL DEF Spec

=============================================================================
