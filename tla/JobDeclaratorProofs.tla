------------------------- MODULE JobDeclaratorProofs -------------------------
(***************************************************************************)
(* What holds of the Token Manager for any callers in any order, and of    *)
(* the Job Declarator, one such caller, for any clients, identities, jobs  *)
(* and bounds: types, tokens, validated jobs, cleanup, and what a          *)
(* jd-client may rely on beside clients that send anything.                *)
(***************************************************************************)
EXTENDS JobDeclarator, TLAPS

-----------------------------------------------------------------------------
(* The TokenManager, used by any callers in any order.                      *)

\* The counter is ahead of every number in use.
CounterAhead ==
    /\ \A a \in allocated \cup activating : a.token < counter
    /\ \A b \in active : b.token < counter /\ b.origin < counter

\* The inductive invariant of the TokenManager.
TokenInv == TM!TypeOK /\ CounterAhead /\ TM!OnePlace /\ TM!NumbersDistinct

\* TokenManager::new starts with empty maps.
LEMMA TokenInit == TM!Init => TokenInv
BY DEF TM!Init, TokenInv, TM!TypeOK, CounterAhead, TM!OnePlace, TM!NumbersDistinct

\* allocate, the two halves of activate, and every removal keep the invariant.
LEMMA TokenStep == TokenInv /\ [TM!Next]_TM!vars => TokenInv'
<1> SUFFICES ASSUME TokenInv, [TM!Next]_TM!vars PROVE TokenInv'
  OBVIOUS
<1> USE DEF TokenInv, TM!TypeOK, TM!AllocatedToken, TM!ActiveToken
<1>1. ASSUME NEW d \in Clients, NEW i \in Identities, TM!Allocate(d, i)
      PROVE  TokenInv'
  <2> DEFINE new == [token |-> counter, owner |-> d, identity |-> i]
  <2>1. allocated' = allocated \cup {new}
    BY <1>1 DEF TM!Allocate, CounterAhead
  <2>2. TM!TypeOK'
    BY <1>1, <2>1 DEF TM!Allocate
  <2>3. CounterAhead'
    BY <1>1, <2>1 DEF TM!Allocate, CounterAhead
  <2>4. TM!OnePlace'
    BY <1>1, <2>1 DEF TM!Allocate, CounterAhead, TM!OnePlace
  <2>5. TM!NumbersDistinct'
    BY <1>1, <2>1 DEF TM!Allocate, CounterAhead, TM!NumbersDistinct
  <2> QED BY <2>2, <2>3, <2>4, <2>5
<1>2. ASSUME NEW a \in activating, TM!ActivateInsert(a)
      PROVE  TokenInv'
  <2> DEFINE new == [token |-> counter, origin |-> a.token,
                     owner |-> a.owner, identity |-> a.identity]
  <2>1. active' = active \cup {new}
    BY <1>2 DEF TM!ActivateInsert, CounterAhead
  <2>2. TM!TypeOK'
    BY <1>2, <2>1 DEF TM!ActivateInsert
  <2>3. CounterAhead'
    BY <1>2, <2>1 DEF TM!ActivateInsert, CounterAhead
  <2>4. TM!OnePlace'
    BY <1>2, <2>1 DEF TM!ActivateInsert, CounterAhead, TM!OnePlace
  <2>5. TM!NumbersDistinct'
    BY <1>2, <2>1 DEF TM!ActivateInsert, CounterAhead, TM!NumbersDistinct
  <2> QED BY <2>2, <2>3, <2>4, <2>5
<1>3. ASSUME NEW t \in 0..counter, NEW d \in Clients, TM!ActivateRemove(t, d)
      PROVE  TokenInv'
  BY <1>3 DEF TM!ActivateRemove, CounterAhead, TM!OnePlace, TM!NumbersDistinct
<1>4. ASSUME counter' = counter, activating' = activating,
             allocated' \subseteq allocated, active' \subseteq active
      PROVE  TokenInv'
  BY <1>4 DEF CounterAhead, TM!OnePlace, TM!NumbersDistinct
<1>5. CASE \E t \in 0..counter : TM!Deallocate(t) \/ TM!Deactivate(t)
  BY <1>5, <1>4 DEF TM!Deallocate, TM!Deactivate
<1>6. CASE \E d \in Clients : TM!RemoveAllocated(d) \/ TM!RemoveActive(d)
  BY <1>6, <1>4 DEF TM!RemoveAllocated, TM!RemoveActive
<1>7. CASE \/ \E a \in allocated : TM!ExpireAllocated(a)
           \/ \E b \in active : TM!ExpireActive(b)
  BY <1>7, <1>4 DEF TM!ExpireAllocated, TM!ExpireActive
<1>8. CASE UNCHANGED TM!vars
  BY <1>8, <1>4 DEF TM!vars
<1> QED BY <1>1, <1>2, <1>3, <1>5, <1>6, <1>7, <1>8 DEF TM!Next

\* For any number of clients, identities and concurrent callers, an allocation
\* is in one place at a time: declared, being activated, or behind one active
\* token.
THEOREM TokensInOnePlace == TM!Spec => []TM!OnePlace
<1>1. TokenInv => TM!OnePlace
  BY DEF TokenInv
<1> QED BY TokenInit, TokenStep, <1>1, PTL DEF TM!Spec

\* No number ever names two tokens that are in the maps together.
THEOREM TokenNumbersUnique == TM!Spec => []TM!NumbersDistinct
<1>1. TokenInv => TM!NumbersDistinct
  BY DEF TokenInv
<1> QED BY TokenInit, TokenStep, <1>1, PTL DEF TM!Spec

-----------------------------------------------------------------------------
(* The Job Declarator, which is such a caller.                              *)

\* The message that the loop holds has the form its step needs.
Declaration == DeclareMessage \cup Resumed

Shape ==
    /\ loop = "idle" => cur = Nothing
    /\ loop = "allocate" => cur \in AllocateMessage
    /\ loop = "lookup" => cur \in Answer \cup DeclareMessage \cup ProvideMessage
    /\ loop = "check" => cur \in DeclareMessage
    /\ loop = "pending" => cur \in ProvideMessage
    /\ loop \in {"validate", "ensure", "ipc", "activate", "issue", "reject"}
          => cur \in Declaration
    /\ loop = "missing" => cur \in DeclareMessage
    /\ loop = "send" => cur \in Answer \cup Declaration
    /\ loop \in CleanupSteps => cur \in Answer \cup Declaration \cup ProvideMessage

TypeInv == TypeOK /\ TokenInv /\ Shape

-----------------------------------------------------------------------------
\* Only the operations of the TokenManager touch its maps.
LEMMA TokensUsed == TypeInv /\ [Next]_vars => [TM!Next]_TM!vars
<1> SUFFICES ASSUME TypeInv, [Next]_vars PROVE [TM!Next]_TM!vars
  OBVIOUS
<1> USE DEF TypeInv
<1>1. ASSUME NEW t \in Nat, TM!Deallocate(t) PROVE [TM!Next]_TM!vars
  <2>1. CASE t \in 0..counter
    BY <1>1, <2>1 DEF TM!Deallocate, TM!Next
  <2>2. CASE t \notin 0..counter
    BY <1>1, <2>2 DEF TM!Deallocate, TokenInv, CounterAhead, TM!TypeOK, TM!vars,
       TM!AllocatedToken
  <2> QED BY <2>1, <2>2
<1>2. ASSUME NEW t \in Nat, TM!Deactivate(t) PROVE [TM!Next]_TM!vars
  <2>1. CASE t \in 0..counter
    BY <1>2, <2>1 DEF TM!Deactivate, TM!Next
  <2>2. CASE t \notin 0..counter
    BY <1>2, <2>2 DEF TM!Deactivate, TokenInv, CounterAhead, TM!TypeOK, TM!vars,
       TM!ActiveToken
  <2> QED BY <2>1, <2>2
<1>3. ASSUME NEW d \in Clients, NEW step, CleanupDownstream(step, d)
      PROVE  [TM!Next]_TM!vars
  BY <1>3 DEF CleanupDownstream, RemoveClient, RemoveSender, RemoveEngineState, tokenVars,
     TM!RemoveAllocated, TM!RemoveActive, TM!Next, TM!vars
<1>4. ASSUME UNCHANGED tokenVars PROVE [TM!Next]_TM!vars
  BY <1>4 DEF tokenVars, TM!vars
<1>5. ASSUME NEW d \in Clients, Connection(d) PROVE [TM!Next]_TM!vars
  BY <1>3, <1>4, <1>5, ZenonT(30)
     DEF Connection, Accept, SetupConnection, Close, Drop, CleanupByTask,
     SendAllocate, SendDeclare, SendProvide, SendPush, Enqueue
<1>6. CASE AllocateToken
  <2>1. cur.from \in Clients /\ cur.identity \in Identities
    BY <1>6 DEF AllocateToken, Shape, AllocateMessage
  <2> QED BY <1>6, <2>1 DEF AllocateToken, TM!Allocate, TM!Next
<1>7. CASE RejectDeclaration
  <2>1. cur.token \in Nat
    BY <1>7 DEF RejectDeclaration, Shape, Declaration, DeclareMessage, Resumed
  <2> QED BY <1>1, <1>7, <2>1 DEF RejectDeclaration
<1>8. CASE ActivateToken
  <2>1. CASE UNCHANGED tokenVars
    BY <1>4, <2>1
  <2>2. CASE TM!ActivateRemove(cur.token, cur.from)
    <3>1. PICK a \in allocated : /\ a.token = cur.token
                                 /\ a.owner = cur.from
                                 /\ allocated' = allocated \ {a}
                                 /\ activating' = activating \cup {a}
                                 /\ UNCHANGED <<counter, active>>
      BY <2>2 DEF TM!ActivateRemove
    <3>2. a.token \in 0..counter /\ a.owner \in Clients
      BY DEF TokenInv, CounterAhead, TM!TypeOK, TM!AllocatedToken
    <3>3. TM!ActivateRemove(a.token, a.owner)
      BY <3>1 DEF TM!ActivateRemove
    <3> QED BY <3>2, <3>3 DEF TM!Next
  <2> QED BY <1>8, <2>1, <2>2 DEF ActivateToken
<1>9. CASE IssueActiveToken
  BY <1>9 DEF IssueActiveToken, TM!ActivateInsert, TM!Next
<1>10. CASE CleanupByLoop
  <2>1. cur.from \in Clients
    BY <1>10 DEF CleanupByLoop, CleanupDownstream, CleanupSteps, Shape, Answer, Declaration,
       DeclareMessage, Resumed, ProvideMessage
  <2> QED BY <1>3, <1>10, <2>1 DEF CleanupByLoop
<1>11. CASE DeactivateToken
  <2>1. pool.tok.token \in Nat
    BY <1>11 DEF DeactivateToken, TypeOK, TM!ActiveToken
  <2> QED BY <1>2, <1>11, <2>1 DEF DeactivateToken
<1>12. CASE \/ ExpireAllocatedToken
            \/ \E d \in Clients : ExpireActiveToken(d)
  BY <1>12 DEF ExpireAllocatedToken, ExpireActiveToken, TM!ExpireAllocated, TM!ExpireActive, TM!Next
<1>13. CASE \/ Receive \/ LookupSender \/ CheckAllocated \/ TakePending \/ ValidateCoinbase
            \/ EnsureState \/ IpcSuccess \/ IpcError \/ IpcMissing \/ IpcDropped
            \/ AwaitMissing \/ SendReply
  BY <1>4, <1>13, Zenon DEF Receive, LookupSender, CheckAllocated, TakePending, ValidateCoinbase,
     EnsureState, IpcSuccess, IpcError, IpcMissing, IpcDropped, AwaitMissing, SendReply
<1>14. CASE \/ LookupActive \/ TakeDeclaredCustomJob \/ ReturnSuccess \/ ExpirePending
            \/ PruneExpiredAllocation \/ NewBlock \/ Quiesced \/ UNCHANGED vars
  BY <1>4, <1>14 DEF LookupActive, TakeDeclaredCustomJob, ReturnSuccess, ExpirePending,
     PruneExpiredAllocation, NewBlock, Quiesced, vars
<1> QED
  BY <1>5, <1>6, <1>7, <1>8, <1>9, <1>10, <1>11, <1>12, <1>13, <1>14 DEF Next, HandleMessage

-----------------------------------------------------------------------------
\* The server starts with empty maps and an idle loop.
LEMMA TypeInit == Init => TypeInv
<1> SUFFICES ASSUME Init PROVE TypeInv
  OBVIOUS
<1>1. TokenInv
  BY TokenInit DEF Init, TM!Init
<1>2. TM!TypeOK
  BY <1>1 DEF TokenInv, TM!TypeOK, TM!AllocatedToken, TM!ActiveToken
<1>3. TypeOK /\ Shape
  BY <1>2 DEF Init, TypeOK, Shape, Work, Nothing, CleanupSteps
<1> QED BY <1>1, <1>3 DEF TypeInv

\* What a client sends is a message of its own, whichever kind of client it is.
LEMMA SentMessage ==
  ASSUME TypeOK, NEW d \in Clients,
         SendAllocate(d) \/ SendDeclare(d) \/ SendProvide(d) \/ SendPush(d)
  PROVE  \E m \in Message : Enqueue(m) /\ m.from = d /\ known' \subseteq known
<1>1. CASE SendAllocate(d)
  BY <1>1 DEF SendAllocate, Message, AllocateMessage
<1>2. CASE SendDeclare(d)
  <2>1. PICK t \in 0..counter, j \in Jobs :
           \/ /\ Enqueue([kind |-> "declare", from |-> d, token |-> t,
                          rid |-> sent[d], job |-> j])
              /\ known' = known \ {[owner |-> d, token |-> t]}
           \/ \E r \in RequestIds :
                 /\ Enqueue([kind |-> "declare", from |-> d, token |-> t,
                             rid |-> r, job |-> j])
                 /\ UNCHANGED known
    BY <1>2 DEF SendDeclare
  <2>2. t \in Nat /\ sent[d] \in Nat /\ RequestIds \subseteq Nat
    BY ConstantsAssumption DEF TypeOK, TM!TypeOK
  <2>3. \A r \in Nat : [kind |-> "declare", from |-> d, token |-> t,
                        rid |-> r, job |-> j] \in Message
    BY <2>2 DEF Message, DeclareMessage
  <2>4. known' \subseteq known
    BY Zenon, <2>1
  <2>5. PICK r \in Nat : Enqueue([kind |-> "declare", from |-> d, token |-> t,
                                  rid |-> r, job |-> j])
    BY Zenon, <2>1, <2>2
  <2> QED BY <2>3, <2>4, <2>5
<1>3. CASE SendProvide(d)
  <2>1. PICK r \in IF d \in JdcClients THEN 0..Budget[d] ELSE RequestIds :
           Enqueue([kind |-> "provide", from |-> d, rid |-> r])
    BY <1>3 DEF SendProvide
  <2>2. r \in Nat
    BY ConstantsAssumption
  <2>3. [kind |-> "provide", from |-> d, rid |-> r] \in Message
    BY <2>2 DEF Message, ProvideMessage
  <2> QED BY <1>3, <2>1, <2>3 DEF SendProvide
<1>4. CASE SendPush(d)
  BY <1>4 DEF SendPush, Message, PushMessage
<1> QED BY <1>1, <1>2, <1>3, <1>4

\* Each step leaves every variable in its type, and the loop with a message of
\* the form that its next step needs.
LEMMA TypeStep == TypeInv /\ [Next]_vars => TypeInv'
<1> SUFFICES ASSUME TypeInv, [Next]_vars PROVE TypeInv'
  OBVIOUS
<1>1. TokenInv'
  BY TokensUsed, TokenStep DEF TypeInv
<1>2. TM!TypeOK'
  BY <1>1 DEF TokenInv, TM!TypeOK, TM!AllocatedToken, TM!ActiveToken
<1> SUFFICES TypeOK' /\ Shape'
  BY <1>1 DEF TypeInv
<1>3. TypeOK /\ Shape
  BY DEF TypeInv
<1> USE <1>2, <1>3
<1> USE DEF CleanupSteps
<1>4. ASSUME NEW d \in Clients, Connection(d) PROVE TypeOK' /\ Shape'
  <2> USE DEF clientVars, mapVars, engineVars, loopVars, poolVars, history
  <2>1. CASE Accept(d) \/ SetupConnection(d) \/ Close(d) \/ Drop(d)
    <3>1. CASE Accept(d)
      BY <3>1, ZenonT(30) DEF Accept, TypeOK, Shape
    <3>2. CASE SetupConnection(d) \/ Close(d) \/ Drop(d)
      BY <3>2, ZenonT(30) DEF SetupConnection, Close, Drop, TypeOK, Shape
    <3> QED BY <2>1, <3>1, <3>2, Zenon
  <2>2. CASE CleanupByTask(d)
    <3>1. conn \in [Clients -> {"absent", "setup", "open", "finished", "gone"} \cup CleanupSteps]
      BY Zenon DEF TypeOK
    <3>2. AfterCleanup(conn[d]) \in CleanupSteps \cup {"finished"}
      <4>1. conn[d] \in CleanupSteps
        BY <2>2, Zenon DEF CleanupByTask, CleanupDownstream
      <4> HIDE <1>2, <1>3
      <4> QED BY <4>1 DEF AfterCleanup
    <3>3. conn' \in [Clients -> {"absent", "setup", "open", "finished", "gone"} \cup CleanupSteps]
      <4> HIDE DEF CleanupSteps
      <4> QED BY <2>2, <3>1, <3>2, Zenon DEF CleanupByTask
    <3>4. /\ clients' \subseteq clients /\ senders' \subseteq senders /\ pending' \subseteq pending
          /\ engine' \subseteq engine /\ jobs' \subseteq jobs /\ entries' \subseteq entries
      BY <2>2, Zenon DEF CleanupByTask, CleanupDownstream, RemoveClient, RemoveSender,
         RemoveEngineState
    <3>5. UNCHANGED <<sent, known, queue, loop, cur, context, pool, calls, tip, granted,
                      validated, spent>>
      BY <2>2, Zenon DEF CleanupByTask
    <3>6. Shape'
      BY <3>5, Zenon DEF Shape
    <3> HIDE DEF CleanupSteps
    <3>7. TypeOK'
      BY <3>3, <3>4, <3>5, Zenon DEF TypeOK
    <3> QED BY <3>6, <3>7, Zenon
  <2>3. ASSUME NEW m \in Message, Enqueue(m), known' \subseteq known
        PROVE  TypeOK' /\ Shape'
    <3>1. m.from \in Clients
      BY DEF Message, AllocateMessage, DeclareMessage, ProvideMessage, PushMessage
    <3>0. sent \in [Clients -> Nat] /\ queue \in Seq(Message)
      BY Zenon DEF TypeOK
    <3>2. sent' \in [Clients -> Nat]
      BY <2>3, <3>0, <3>1 DEF Enqueue
    <3>3. queue' \in Seq(Message)
      BY <2>3, <3>0 DEF Enqueue
    <3>4. UNCHANGED <<conn, clients, senders, pending, engine, jobs, entries, loop, cur, context,
                      pool, calls, tip, granted, validated, spent>>
      BY <2>3, Zenon DEF Enqueue
    <3>5. Shape'
      BY <3>4, Zenon DEF Shape
    <3> HIDE DEF CleanupSteps
    <3>6. TypeOK'
      BY <2>3, <3>2, <3>3, <3>4, Zenon DEF TypeOK
    <3> QED BY <3>5, <3>6, Zenon
  <2>4. CASE SendAllocate(d) \/ SendDeclare(d) \/ SendProvide(d) \/ SendPush(d)
    BY <2>3, <2>4, SentMessage
  <2> QED BY <1>4, <2>1, <2>2, <2>4 DEF Connection
<1>5. CASE Receive
  <2>1. Head(queue) \in Message /\ Tail(queue) \in Seq(Message)
    BY <1>5 DEF Receive, TypeOK
  <2>2. Shape' /\ cur' \in Work /\ loop' \in {"idle", "allocate", "lookup"}
    BY <1>5, <2>1, Zenon DEF Receive, Shape, loopVars, Message, AllocateMessage, DeclareMessage,
       ProvideMessage, PushMessage, Work, TypeOK
  <2> QED
    BY <1>5, <2>1, <2>2, Zenon
       DEF Receive, LoopUnchanged, TypeOK, mapVars, engineVars, loopVars, poolVars
<1>6. CASE AllocateToken
  <2>1. cur' \in Answer
    BY <1>6, Zenon DEF AllocateToken, Shape, AllocateMessage, Answer, TypeOK, TM!TypeOK
  <2> QED
    BY <1>6, <2>1, Zenon
       DEF AllocateToken, LoopUnchanged, Shape, TypeOK, Work, mapVars, engineVars, poolVars
<1>7. CASE LookupSender
  BY <1>7, ZenonT(30)
     DEF LookupSender, Become, LoopUnchanged, TypeOK, Shape, mapVars, engineVars, poolVars,
     Declaration, Answer, DeclareMessage, ProvideMessage
<1>8. CASE CheckAllocated
  BY <1>8, Zenon
     DEF CheckAllocated, Become, LoopUnchanged, TypeOK, Shape, mapVars, engineVars, poolVars,
     Declaration
<1>9. CASE TakePending
  <2>1. CASE /\ loop' \in {"idle", "rmClient"}
             /\ Become("rmClient") \/ Finish
             /\ UNCHANGED pending
    BY <1>9, <2>1, Zenon DEF TakePending, Become, Finish, LoopUnchanged, TypeOK, Shape, engineVars,
       poolVars, Work
  <2>2. CASE \E p \in pending :
               /\ cur' = [kind |-> "provide", from |-> cur.from, token |-> p.token,
                          rid |-> p.rid, job |-> p.job]
               /\ pending' \subseteq pending
               /\ loop' = "validate"
               /\ UNCHANGED context
    <3>0. pending \subseteq [owner : Clients, rid : Nat, token : Nat, job : Jobs]
          /\ cur \in ProvideMessage
      BY <1>9, Zenon DEF TakePending, Shape, TypeOK
    <3>1. cur' \in Resumed
      BY <2>2, <3>0 DEF ProvideMessage, Resumed
    <3> QED
      BY <1>9, <2>2, <3>1, Zenon
         DEF TakePending, LoopUnchanged, TypeOK, Shape, engineVars, poolVars,
         Work, Declaration
  <2> QED BY <1>9, <2>1, <2>2 DEF TakePending, Become, Finish
<1>10. CASE ValidateCoinbase
  <2>1. \A k \in jobs : k.prev \in Nat
    BY Zenon DEF TypeOK
  <2>2. {j.prev : j \in {k \in jobs : /\ cur.kind = "provide"
                                       /\ k.owner = cur.from
                                       /\ k.rid = cur.rid}} \subseteq Nat
    <3> HIDE <1>2, <1>3
    <3> QED BY <2>1
  <2>3. context' \subseteq Nat
    BY <1>10, <2>2, ZenonT(30) DEF ValidateCoinbase, Become, TypeOK
  <2> QED
    BY <1>10, <2>3, Zenon
       DEF ValidateCoinbase, Become, LoopUnchanged, TypeOK, Shape, mapVars, engineVars,
       poolVars
<1>11. CASE EnsureState
  <2>1. cur.from \in Clients
    BY <1>11 DEF EnsureState, Shape, Declaration, DeclareMessage, Resumed
  <2> QED
    BY <1>11, <2>1, Zenon DEF EnsureState, Become, LoopUnchanged, TypeOK, Shape, mapVars, poolVars
<1>12. ASSUME NEW ok \in BOOLEAN, loop = "ipc",
              InsertDeclaredCustomJob(cur.from, cur.rid, cur.token, DeclaredCustomJob(ok))
       PROVE  /\ jobs' \subseteq [owner : Clients, rid : Nat, job : Jobs, prev : Nat,
                                  validated : BOOLEAN]
              /\ entries' \subseteq [owner : Clients, token : Nat, rid : Nat]
  <2>1. cur.from \in Clients /\ cur.rid \in Nat /\ cur.token \in Nat /\ cur.job \in Jobs
    BY <1>12 DEF Shape, Declaration, DeclareMessage, Resumed
  <2>2. /\ jobs \subseteq [owner : Clients, rid : Nat, job : Jobs, prev : Nat,
                           validated : BOOLEAN]
        /\ entries \subseteq [owner : Clients, token : Nat, rid : Nat]
        /\ tip \in Nat
    BY Zenon DEF TypeOK
  <2>3. DeclaredCustomJob(ok) \in [owner : Clients, rid : Nat, job : Jobs, prev : Nat,
                                  validated : BOOLEAN]
        /\ [owner |-> cur.from, token |-> cur.token, rid |-> cur.rid]
             \in [owner : Clients, token : Nat, rid : Nat]
    BY <1>12, <2>1, <2>2 DEF DeclaredCustomJob
  <2> QED BY <1>12, <2>2, <2>3, Zenon DEF InsertDeclaredCustomJob
<1>13. CASE IpcSuccess
  <2>1. cur.from \in Clients /\ cur.token \in Nat /\ cur.job \in Jobs /\ tip \in Nat
    BY <1>13, Zenon DEF IpcSuccess, Shape, Declaration, DeclareMessage, Resumed, TypeOK
  <2>2. validated' \subseteq [owner : Clients, token : Nat, job : Jobs, prev : Nat]
    <3>1. validated \subseteq [owner : Clients, token : Nat, job : Jobs, prev : Nat]
      BY Zenon DEF TypeOK
    <3> QED BY <1>13, <2>1, <3>1 DEF IpcSuccess
  <2>3. /\ jobs' \subseteq [owner : Clients, rid : Nat, job : Jobs, prev : Nat,
                            validated : BOOLEAN]
        /\ entries' \subseteq [owner : Clients, token : Nat, rid : Nat]
    BY <1>12, <1>13, Zenon DEF IpcSuccess, TypeOK
  <2> QED
    BY <1>13, <2>2, <2>3, ZenonT(30)
       DEF IpcSuccess, Become, LoopUnchanged, TypeOK, Shape, mapVars, poolVars
<1>14. CASE IpcError \/ IpcDropped \/ RejectDeclaration
  BY <1>14, ZenonT(30) DEF IpcError, IpcDropped, RejectDeclaration, RemoveDeclaredCustomJob, Become,
     LoopUnchanged, TypeOK, Shape, mapVars, engineVars, poolVars
<1>15. CASE IpcMissing
  <2>1. /\ jobs' \subseteq [owner : Clients, rid : Nat, job : Jobs, prev : Nat,
                            validated : BOOLEAN]
        /\ entries' \subseteq [owner : Clients, token : Nat, rid : Nat]
    BY <1>12, <1>15, Zenon DEF IpcMissing, RemoveDeclaredCustomJob, TypeOK
  <2>2. Shape' /\ loop' \in {"missing", "reject"}
    BY <1>15, Zenon DEF IpcMissing, Become, Shape, Declaration, DeclareMessage, Resumed
  <2> QED
    BY <1>15, <2>1, <2>2, Zenon DEF IpcMissing, Become, LoopUnchanged, TypeOK, mapVars, poolVars
<1>16. CASE ActivateToken
  BY <1>16, ZenonT(30)
     DEF ActivateToken, Become, LoopUnchanged, TypeOK, Shape, mapVars, engineVars, poolVars
<1>17. CASE IssueActiveToken
  <2>1. cur.job \in Jobs
    BY <1>17 DEF IssueActiveToken, Shape, Declaration, DeclareMessage, Resumed
  <2>2. counter \in Nat /\ activating \subseteq TM!AllocatedToken
    BY Zenon DEF TypeOK, TM!TypeOK
  <2>3. granted' \subseteq [token : Nat, origin : Nat, owner : Clients,
                            identity : Identities, job : Jobs]
    <3>1. granted \subseteq [token : Nat, origin : Nat, owner : Clients,
                             identity : Identities, job : Jobs]
      BY Zenon DEF TypeOK
    <3> QED BY <1>17, <2>1, <2>2, <3>1 DEF IssueActiveToken, TM!AllocatedToken
  <2> QED
    BY <1>17, <2>3, Zenon
       DEF IssueActiveToken, Become, LoopUnchanged, TypeOK, Shape, mapVars, engineVars,
       poolVars
<1>18. CASE AwaitMissing
  <2>1. cur.from \in Clients /\ cur.rid \in Nat /\ cur.token \in Nat /\ cur.job \in Jobs
    BY <1>18, SMTT(30) DEF AwaitMissing, Shape, DeclareMessage
  <2>2. pending' \subseteq [owner : Clients, rid : Nat, token : Nat, job : Jobs]
    <3>1. pending \subseteq [owner : Clients, rid : Nat, token : Nat, job : Jobs]
      BY Zenon DEF TypeOK
    <3> QED BY <1>18, <2>1, <3>1 DEF AwaitMissing
  <2> QED
    BY <1>18, <2>2, ZenonT(30)
       DEF AwaitMissing, Become, LoopUnchanged, TypeOK, Shape, engineVars, poolVars,
       Declaration
<1>19. CASE SendReply
  <2>1. cur.kind = "allocate" => cur.from \in Clients /\ cur.token \in Nat
    BY <1>19 DEF SendReply, Shape, Answer, Declaration, DeclareMessage, Resumed
  <2>2. known' \subseteq [owner : Clients, token : Nat]
    <3>1. known \subseteq [owner : Clients, token : Nat]
      BY Zenon DEF TypeOK
    <3> QED BY <1>19, <2>1, <3>1 DEF SendReply
  <2>3. Shape' /\ loop' \in {"idle", "rmClient"} /\ cur' \in Work /\ context' \subseteq Nat
    BY <1>19, Zenon DEF SendReply, Become, Finish, Shape, Work, TypeOK
  <2> QED
    BY <1>19, <2>2, <2>3, Zenon DEF SendReply, LoopUnchanged, TypeOK, mapVars, engineVars, poolVars
<1>20. CASE CleanupByLoop
  <2>1. loop \in CleanupSteps
    BY <1>20, Zenon DEF CleanupByLoop, CleanupDownstream
  <2>2. AfterCleanup(loop) \in (CleanupSteps \ {"rmClient"}) \cup {"finished"}
    <3> HIDE <1>2, <1>3
    <3> QED BY <2>1 DEF AfterCleanup
  <2>3. /\ clients' \subseteq clients /\ senders' \subseteq senders /\ pending' \subseteq pending
        /\ engine' \subseteq engine /\ jobs' \subseteq jobs /\ entries' \subseteq entries
    BY <1>20, Zenon DEF CleanupByLoop, CleanupDownstream, RemoveClient, RemoveSender,
       RemoveEngineState, mapVars, engineVars
  <2>4. CASE Finish
    BY <1>20, <2>3, <2>4, Zenon DEF CleanupByLoop, Finish, LoopUnchanged, poolVars, Work, TypeOK, Shape
  <2>5. CASE Become(AfterCleanup(loop)) /\ AfterCleanup(loop) # "finished"
    BY <1>20, <2>1, <2>2, <2>3, <2>5, Zenon
       DEF CleanupByLoop, Become, LoopUnchanged, poolVars, TypeOK, Shape
  <2> QED BY <1>20, <2>4, <2>5, Zenon DEF CleanupByLoop
<1> DEFINE PoolType == [pc : {"idle"}]
               \cup [pc : {"deactivate", "take"}, tok : TM!ActiveToken, by : Identities]
               \cup [pc : {"accepted"}, tok : TM!ActiveToken, by : Identities,
                     job : Jobs, prev : Nat]
<1>21. CASE LookupActive
  <2>1. pool' \in PoolType /\ calls' \in Nat
    <3>1. pool \in PoolType /\ active \subseteq TM!ActiveToken /\ calls \in Nat
      BY Zenon DEF TypeOK, TM!TypeOK
    <3>2. pool' = pool \/ \E b \in active, i \in Identities :
                            pool' = [pc |-> "deactivate", tok |-> b, by |-> i]
      BY <1>21, Zenon DEF LookupActive, TM!AllocatedFromActive
    <3>3. calls' = calls + 1
      BY <1>21, Zenon DEF LookupActive
    <3> QED BY <3>1, <3>2, <3>3
  <2> QED
    BY <1>21, <2>1, Zenon
       DEF LookupActive, PoolUnchanged, TypeOK, Shape, clientVars, mapVars, engineVars,
       loopVars
<1>22. CASE DeactivateToken
  BY <1>22, ZenonT(30)
     DEF DeactivateToken, PoolUnchanged, TypeOK, Shape, clientVars, mapVars, engineVars,
     loopVars
<1>23. CASE TakeDeclaredCustomJob
  <2>1. /\ pool.tok \in TM!ActiveToken /\ pool.by \in Identities /\ pool.tok.origin \in Nat
        /\ tip \in Nat /\ spent \subseteq Nat
    BY <1>23, Zenon DEF TakeDeclaredCustomJob, TypeOK, TM!ActiveToken
  <2>2. pool' \in PoolType /\ spent' \subseteq Nat
    <3>1. PICK job \in Jobs, prev \in 0..tip :
             \/ /\ pool' = [pc |-> "accepted", tok |-> pool.tok, by |-> pool.by,
                            job |-> job, prev |-> prev]
                /\ spent' = spent \cup {pool.tok.origin}
             \/ pool' = [pc |-> "idle"] /\ spent' = spent
      BY <1>23, Zenon DEF TakeDeclaredCustomJob
    <3>2. prev \in Nat
      BY <2>1
    <3>3. /\ [pc |-> "idle"] \in [pc : {"idle"}]
          /\ [pc |-> "accepted", tok |-> pool.tok, by |-> pool.by, job |-> job, prev |-> prev]
               \in [pc : {"accepted"}, tok : TM!ActiveToken, by : Identities, job : Jobs, prev : Nat]
      BY <2>1, <3>2, Zenon
    <3> QED BY <2>1, <3>1, <3>3, Zenon
  <2> QED
    BY <1>23, <2>2, ZenonT(30)
       DEF TakeDeclaredCustomJob, PoolUnchanged, TypeOK, Shape, clientVars, mapVars,
       loopVars
<1>24. CASE ReturnSuccess
  BY <1>24, Zenon DEF ReturnSuccess, PoolUnchanged, TypeOK, Shape, clientVars, mapVars, engineVars,
     loopVars
<1>25. CASE \/ ExpireAllocatedToken \/ ExpirePending \/ PruneExpiredAllocation
            \/ \E d \in Clients : ExpireActiveToken(d)
  BY <1>25, ZenonT(30)
     DEF ExpireAllocatedToken, ExpirePending, PruneExpiredAllocation, ExpireActiveToken,
     JanitorUnchanged, TypeOK, Shape, clientVars, engineVars, loopVars, poolVars, history
<1>26. CASE NewBlock
  <2>1. tip' \in Nat
    <3>1. tip \in Nat
      BY Zenon DEF TypeOK
    <3> QED BY <1>26, <3>1 DEF NewBlock
  <2> HIDE DEF CleanupSteps
  <2>2. UNCHANGED <<conn, clients, senders, pending, queue, engine, jobs, entries, loop, cur, context>>
    BY <1>26, Zenon DEF NewBlock, mapVars, engineVars, loopVars
  <2>3. UNCHANGED <<pool, sent, calls, known, granted, validated, spent>>
    BY <1>26, Zenon DEF NewBlock, clientVars, poolVars, history
  <2>4. TypeOK'
    BY <2>1, <2>2, <2>3, ZenonT(30) DEF TypeOK
  <2>5. Shape'
    BY <2>2, Zenon DEF Shape
  <2> QED BY <2>4, <2>5, Zenon
<1>27. CASE Quiesced \/ UNCHANGED vars
  BY <1>27, ZenonT(30)
     DEF Quiesced, vars, TypeOK, Shape, clientVars, mapVars, engineVars, loopVars, poolVars,
     history
<1> QED
  BY SMTT(30), <1>4, <1>5, <1>6, <1>7, <1>8, <1>9, <1>10, <1>11, <1>13, <1>14, <1>15, <1>16, <1>17,
     <1>18, <1>19, <1>20, <1>21, <1>22, <1>23, <1>24, <1>25, <1>26, <1>27 DEF Next, HandleMessage

\* Every variable, and what the loop holds, has its type in every state.
THEOREM TypeCorrect == Spec => []TypeOK
<1>1. TypeInv => TypeOK
  BY DEF TypeInv
<1> QED BY <1>1, TypeInit, TypeStep, PTL DEF Spec

\* The server uses the token manager so that an allocation is never in two
\* places: to be declared, being activated, or behind an active token.
THEOREM AllocationInOnePlace == Spec => []OnePlace
<1>1. TypeInv => OnePlace
  BY DEF TypeInv, OnePlace, TokenInv, TM!OnePlace
<1> QED BY <1>1, TypeInit, TypeStep, PTL DEF Spec

\* ... and no number names two tokens, so that looking one up is unambiguous.
THEOREM NumbersUnique == Spec => []NumbersDistinct
<1>1. TypeInv => NumbersDistinct
  BY DEF TypeInv, NumbersDistinct, TokenInv, TM!NumbersDistinct
<1> QED BY <1>1, TypeInit, TypeStep, PTL DEF Spec

-----------------------------------------------------------------------------
\* An allocation that a custom job was accepted for is in no table any more.
SpentGone ==
    /\ \A a \in allocated \cup activating : a.token \notin spent
    /\ \A b \in active : b.origin \notin spent
    /\ \A s \in spent : s < counter

\* The allocation the pool is working on is nowhere but behind that one token.
InCall ==
    pool.pc \in {"deactivate", "take"} =>
        /\ pool.tok.origin \notin spent
        /\ pool.tok.origin < counter
        /\ \A a \in allocated \cup activating : a.token # pool.tok.origin
        /\ \A b \in active : b.origin = pool.tok.origin =>
              pool.pc = "deactivate" /\ b.token = pool.tok.token

SpentInv == TypeInv /\ SpentGone /\ InCall

\* A token comes out of an operation under a fresh number or under one that
\* was in a table before it.
LEMMA TokenFlow ==
  TypeInv /\ [Next]_vars =>
    /\ counter \in Nat /\ counter' \in Nat /\ counter <= counter'
    /\ \A a \in allocated' \cup activating' :
          \/ a \in allocated \cup activating
          \/ a.token = counter
    /\ \A b \in active' : b \in active \/ \E a \in activating : a.token = b.origin
<1> SUFFICES ASSUME TypeInv, [Next]_vars
             PROVE  /\ counter \in Nat /\ counter' \in Nat /\ counter <= counter'
                    /\ \A a \in allocated' \cup activating' :
                          \/ a \in allocated \cup activating
                          \/ a.token = counter
                    /\ \A b \in active' :
                          b \in active \/ \E a \in activating : a.token = b.origin
  OBVIOUS
<1>1. [TM!Next]_TM!vars
  BY TokensUsed
<1>2. counter \in Nat
  BY DEF TypeInv, TokenInv, TM!TypeOK
<1> QED
  BY <1>1, <1>2 DEF TM!Next, TM!vars, TM!Allocate, TM!Deallocate, TM!Deactivate,
     TM!ActivateRemove, TM!ActivateInsert, TM!RemoveAllocated, TM!RemoveActive,
     TM!ExpireAllocated, TM!ExpireActive

\* The pool's call marks the allocation as spent when it is in no table; no other
\* step brings it back.
LEMMA SpentStep == SpentInv /\ [Next]_vars => SpentInv'
<1> SUFFICES ASSUME SpentInv, [Next]_vars PROVE SpentInv'
  OBVIOUS
<1>1. TypeInv /\ TypeInv'
  BY TypeStep DEF SpentInv
<1>2. TypeOK /\ TM!OnePlace /\ TM!NumbersDistinct /\ CounterAhead /\ SpentGone /\ InCall
  BY DEF SpentInv, TypeInv, TokenInv
<1>3. /\ counter \in Nat /\ counter' \in Nat /\ counter <= counter'
      /\ \A a \in allocated' \cup activating' :
            \/ a \in allocated \cup activating
            \/ a.token = counter
      /\ \A b \in active' : b \in active \/ \E a \in activating : a.token = b.origin
  BY <1>1, TokenFlow
<1>4. spent \subseteq Nat
  BY <1>2 DEF TypeOK
<1> SUFFICES SpentGone' /\ InCall'
  BY <1>1 DEF SpentInv
<1>5. CASE UNCHANGED <<pool, spent>>
  <2>1. SpentGone'
    BY <1>2, <1>3, <1>4, <1>5 DEF SpentGone
  <2>2. pool.pc \in {"deactivate", "take"} => pool.tok.origin \in Nat
    BY <1>2, Zenon DEF TypeOK, TM!ActiveToken
  <2>3. InCall'
    BY <1>2, <1>3, <1>5, <2>2 DEF InCall
  <2> QED BY <2>1, <2>3
<1>6. CASE LookupActive
  <2>1. UNCHANGED <<tokenVars, spent>>
    BY <1>6 DEF LookupActive
  <2>2. CASE UNCHANGED pool
    BY SMTT(30), <1>5, <2>1, <2>2
  <2>3. CASE \E b \in active : pool'.tok = b /\ pool'.pc = "deactivate"
    BY <1>2, <2>1, <2>3, Zenon DEF SpentGone, InCall, tokenVars, TM!OnePlace, CounterAhead
  <2> QED BY <1>6, <2>2, <2>3 DEF LookupActive, TM!AllocatedFromActive
<1>7. CASE DeactivateToken
  <2>1. pool.pc = "deactivate" /\ pool'.pc = "take" /\ pool'.tok = pool.tok /\ spent' = spent
    BY <1>2, <1>7 DEF DeactivateToken, TypeOK
  <2>2. /\ active' = {b \in active : b.token # pool.tok.token}
        /\ UNCHANGED <<counter, allocated, activating>>
    BY <1>7 DEF DeactivateToken, TM!Deactivate
  <2> QED BY <1>2, <2>1, <2>2, Zenon DEF SpentGone, InCall
<1>8. CASE TakeDeclaredCustomJob
  <2>1. pool.pc = "take" /\ pool'.pc \in {"idle", "accepted"} /\ UNCHANGED tokenVars
        /\ spent' \in {spent, spent \cup {pool.tok.origin}}
    BY <1>8 DEF TakeDeclaredCustomJob
  <2> QED BY <1>2, <2>1, SMTT(30) DEF SpentGone, InCall, tokenVars
<1>9. CASE ReturnSuccess
  <2>1. pool'.pc = "idle" /\ UNCHANGED <<tokenVars, spent>>
    BY <1>9 DEF ReturnSuccess
  <2> QED BY <1>2, <2>1, Zenon DEF SpentGone, InCall, tokenVars
<1>10. ASSUME NEW d \in Clients, Connection(d) PROVE UNCHANGED <<pool, spent>>
  BY <1>10, ZenonT(30) DEF Connection, Accept, SetupConnection, Close, Drop, CleanupByTask,
     SendAllocate, SendDeclare, SendProvide, SendPush, Enqueue, poolVars, history
<1>11. CASE Receive \/ HandleMessage
  <2>1. LoopUnchanged
    BY <1>11, Zenon
       DEF Receive, HandleMessage, AllocateToken, LookupSender, CheckAllocated, TakePending,
       ValidateCoinbase, EnsureState, IpcSuccess, IpcError, IpcMissing, IpcDropped,
       RejectDeclaration, ActivateToken, IssueActiveToken, AwaitMissing, SendReply, CleanupByLoop
  <2> QED BY <1>5, <2>1 DEF LoopUnchanged, poolVars
<1>12. CASE \/ ExpireAllocatedToken \/ ExpirePending \/ PruneExpiredAllocation
            \/ (\E d \in Clients : ExpireActiveToken(d))
            \/ NewBlock \/ Quiesced \/ UNCHANGED vars
  BY <1>5, <1>12, Zenon DEF ExpireAllocatedToken, ExpirePending, PruneExpiredAllocation,
     ExpireActiveToken, JanitorUnchanged, NewBlock, Quiesced, vars, poolVars, history
<1> QED BY <1>5, <1>6, <1>7, <1>8, <1>9, <1>10, <1>11, <1>12 DEF Next

\* README: an active token is single-use.  However the declarations, the janitors
\* and the cleanups interleave with the pool's calls, no allocation leads to a
\* second accepted custom job.
THEOREM AllocationSpentOnce == Spec => SpentOnce
<1>1. Init => SpentInv
  <2>1. Init => /\ allocated = {} /\ activating = {} /\ active = {}
                /\ spent = {} /\ pool.pc = "idle"
    BY DEF Init, TM!Init
  <2> QED BY <2>1, TypeInit DEF SpentInv, SpentGone, InCall
<1>2. SpentInv => (pool.pc = "take" /\ pool'.pc = "accepted" => pool.tok.origin \notin spent)
  BY DEF SpentInv, InCall
<1> QED BY <1>1, <1>2, SpentStep, PTL DEF Spec, SpentOnce

-----------------------------------------------------------------------------
\* A job the engine holds as validated is one that Bitcoin Core accepted.
JobsValidated ==
    \A k \in jobs : k.validated =>
        \E v \in validated : v.owner = k.owner /\ v.job = k.job /\ v.prev = k.prev

ValidatedInv == TypeInv /\ JobsValidated /\ AcceptedWasValidated

\* Only IpcSuccess stores a job as validated, and only a validated job is accepted.
LEMMA ValidatedStep == ValidatedInv /\ [Next]_vars => ValidatedInv'
<1> SUFFICES ASSUME ValidatedInv, [Next]_vars PROVE ValidatedInv'
  OBVIOUS
<1>1. TypeInv /\ TypeInv' /\ JobsValidated /\ AcceptedWasValidated
  BY TypeStep DEF ValidatedInv
<1> SUFFICES JobsValidated' /\ AcceptedWasValidated'
  BY <1>1 DEF ValidatedInv
<1>2. ASSUME jobs' \subseteq jobs, UNCHANGED validated PROVE JobsValidated'
  BY <1>1, <1>2 DEF JobsValidated
<1>3. ASSUME UNCHANGED pool, validated \subseteq validated' PROVE AcceptedWasValidated'
  BY <1>1, <1>3 DEF AcceptedWasValidated
<1>4. CASE IpcSuccess
  <2> DEFINE new == DeclaredCustomJob(TRUE)
             val == [owner |-> cur.from, token |-> cur.token, job |-> cur.job, prev |-> tip]
  <2>1. jobs' \subseteq jobs \cup {new} /\ validated' = validated \cup {val} /\ UNCHANGED pool
    BY <1>4, Zenon DEF IpcSuccess, InsertDeclaredCustomJob, LoopUnchanged, poolVars
  <2>2. val.owner = new.owner /\ val.job = new.job /\ val.prev = new.prev
    BY DEF DeclaredCustomJob
  <2> HIDE DEF new, val
  <2>3. JobsValidated'
    <3> SUFFICES ASSUME NEW k \in jobs', k.validated
                 PROVE  \E v \in validated' : v.owner = k.owner /\ v.job = k.job /\ v.prev = k.prev
      BY DEF JobsValidated
    <3>1. CASE k \in jobs
      BY <1>1, <2>1, <3>1 DEF JobsValidated
    <3>2. CASE k = new
      BY <2>1, <2>2, <3>2
    <3> QED BY <2>1, <3>1, <3>2
  <2> QED BY <1>3, <2>1, <2>3
<1>5. CASE IpcMissing
  <2> DEFINE new == DeclaredCustomJob(FALSE)
  <2>1. jobs' \subseteq jobs \cup {new} /\ UNCHANGED <<pool, validated>>
    BY <1>5, Zenon DEF IpcMissing, InsertDeclaredCustomJob, RemoveDeclaredCustomJob, LoopUnchanged,
       poolVars
  <2>2. ~new.validated
    BY DEF DeclaredCustomJob
  <2>3. JobsValidated'
    BY <1>1, <2>1, <2>2, Zenon DEF JobsValidated
  <2> QED BY <1>3, <2>1, <2>3
<1>6. CASE TakeDeclaredCustomJob
  <2>1. jobs' \subseteq jobs /\ UNCHANGED validated
    BY <1>6, Zenon DEF TakeDeclaredCustomJob, PoolUnchanged
  <2>2. CASE pool'.pc = "idle"
    BY <1>2, <2>1, <2>2, SMTT(30) DEF AcceptedWasValidated
  <2>3. ASSUME NEW k \in jobs, k.validated, k.owner = pool.tok.owner,
               pool' = [pc |-> "accepted", tok |-> pool.tok, by |-> pool.by,
                        job |-> k.job, prev |-> k.prev]
        PROVE  AcceptedWasValidated'
    <3>1. pool'.tok = pool.tok /\ pool'.job = k.job /\ pool'.prev = k.prev
      BY <2>3
    <3>2. \E v \in validated : v.owner = k.owner /\ v.job = k.job /\ v.prev = k.prev
      BY <1>1, <2>3, Zenon DEF JobsValidated
    <3> QED BY <2>1, <2>3, <3>1, <3>2, Zenon DEF AcceptedWasValidated
  <2>4. \/ pool' = [pc |-> "idle"]
        \/ \E k \in jobs : /\ k.validated /\ k.owner = pool.tok.owner
                           /\ pool' = [pc |-> "accepted", tok |-> pool.tok, by |-> pool.by,
                                       job |-> k.job, prev |-> k.prev]
    BY <1>6, Zenon DEF TakeDeclaredCustomJob
  <2>5. AcceptedWasValidated'
    BY <2>2, <2>3, <2>4
  <2> QED BY SMTT(30), <1>2, <2>1, <2>5
<1>7. CASE LookupActive \/ DeactivateToken \/ ReturnSuccess
  <2>1. UNCHANGED <<jobs, validated>>
    BY <1>7 DEF LookupActive, DeactivateToken, ReturnSuccess, PoolUnchanged, engineVars
  <2>2. CASE UNCHANGED pool
    BY <1>2, <1>3, <2>1, <2>2
  <2>3. CASE pool'.pc # "accepted"
    BY <1>2, <2>1, <2>3 DEF AcceptedWasValidated
  <2>4. UNCHANGED pool \/ pool'.pc # "accepted"
    BY <1>1, <1>7 DEF LookupActive, DeactivateToken, ReturnSuccess, TypeInv, TypeOK
  <2> QED BY <2>2, <2>3, <2>4
<1>8. ASSUME NEW d, NEW step, CleanupDownstream(step, d) PROVE jobs' \subseteq jobs
  BY <1>8, Zenon DEF CleanupDownstream, RemoveClient, RemoveSender, RemoveEngineState, engineVars
<1>9. ASSUME NEW d \in Clients, Connection(d) PROVE JobsValidated' /\ AcceptedWasValidated'
  <2>1. UNCHANGED <<pool, validated>>
    BY <1>9, ZenonT(30) DEF Connection, Accept, SetupConnection, Close, Drop, CleanupByTask,
       SendAllocate, SendDeclare, SendProvide, SendPush, Enqueue, poolVars, history
  <2>2. jobs' \subseteq jobs
    BY <1>8, <1>9, ZenonT(30) DEF Connection, Accept, SetupConnection, Close, Drop, CleanupByTask,
       SendAllocate, SendDeclare, SendProvide, SendPush, Enqueue, engineVars
  <2> QED BY <1>2, <1>3, <2>1, <2>2
<1>10. CASE \/ Receive \/ AllocateToken \/ LookupSender \/ CheckAllocated \/ TakePending
            \/ ValidateCoinbase \/ EnsureState \/ IpcError \/ IpcDropped \/ RejectDeclaration
            \/ ActivateToken \/ IssueActiveToken \/ AwaitMissing \/ SendReply \/ CleanupByLoop
  <2>1. jobs' \subseteq jobs
    BY <1>8, <1>10, Zenon DEF Receive, AllocateToken, LookupSender, CheckAllocated, TakePending,
       ValidateCoinbase, EnsureState, IpcError, IpcDropped, RejectDeclaration, ActivateToken,
       IssueActiveToken, AwaitMissing, SendReply, CleanupByLoop, RemoveDeclaredCustomJob,
       engineVars
  <2>2. UNCHANGED <<pool, validated>>
    BY <1>10, Zenon DEF Receive, AllocateToken, LookupSender, CheckAllocated, TakePending,
       ValidateCoinbase, EnsureState, IpcError, IpcDropped, RejectDeclaration, ActivateToken,
       IssueActiveToken, AwaitMissing, SendReply, CleanupByLoop, LoopUnchanged, poolVars
  <2> QED BY SMTT(30), <1>2, <1>3, <2>1, <2>2
<1>11. CASE \/ ExpireAllocatedToken \/ ExpirePending \/ PruneExpiredAllocation
            \/ (\E d \in Clients : ExpireActiveToken(d))
            \/ NewBlock \/ Quiesced \/ UNCHANGED vars
  <2>1. jobs' \subseteq jobs /\ UNCHANGED <<pool, validated>>
    BY <1>11, Zenon DEF ExpireAllocatedToken, ExpirePending, PruneExpiredAllocation,
       ExpireActiveToken, JanitorUnchanged, NewBlock, Quiesced, vars, poolVars, history, engineVars
  <2> QED BY <1>2, <1>3, <2>1
<1> QED
  BY <1>4, <1>5, <1>6, <1>7, <1>9, <1>10, <1>11 DEF Next, HandleMessage

\* The pool never accepts a custom job that Bitcoin Core has not accepted in a
\* declaration of the same client on the same previous block, whatever request
\* ids and tokens its clients use and whenever the tip moves.
THEOREM OnlyValidatedAccepted == Spec => []AcceptedWasValidated
<1>1. Init => ValidatedInv
  <2>1. Init => jobs = {} /\ pool.pc = "idle"
    BY DEF Init
  <2> QED BY <2>1, TypeInit DEF ValidatedInv, JobsValidated, AcceptedWasValidated
<1>2. ValidatedInv => AcceptedWasValidated
  BY DEF ValidatedInv
<1> QED BY <1>1, <1>2, ValidatedStep, PTL DEF Spec

-----------------------------------------------------------------------------
\* A connection that is being served is in both maps.
Served ==
    \A d \in Clients : conn[d] \in {"setup", "open"} => d \in clients \cap senders

\* Whoever sent the message in a queue or in the loop had been set up.
SentWhenOpen ==
    /\ \A n \in 1..Len(queue) : conn[queue[n].from] \notin {"absent", "setup"}
    /\ cur.kind # "none" => conn[cur.from] \notin {"absent", "setup"}

\* The task removes the sender before the tokens ...
NoSender ==
    \A d \in Clients :
        conn[d] \in {"rmEngine", "rmAllocated", "rmActive", "finished", "gone"} => d \notin senders

\* ... so a token that is allocated after the task went over the tokens belongs
\* to the message in the loop, which will not find the sender and cleans up itself.
LeftToTheLoop ==
    \A a \in allocated : conn[a.owner] \in {"rmActive", "finished", "gone"} =>
        /\ cur.kind # "none"
        /\ cur.from = a.owner
        /\ \/ loop = "lookup" /\ cur.kind = "allocate"
           \/ loop \in {"rmClient", "rmSender", "rmEngine", "rmAllocated"}

CleanupInv ==
    /\ TypeInv
    /\ Served /\ SentWhenOpen /\ OnlyLeavingDisconnected
    /\ NoSender /\ LeftToTheLoop

\* A step that moves no connection, and adds neither a message nor a token, keeps
\* the invariant as far as the loop does.
LEMMA CleanupFrame ==
  ASSUME CleanupInv, TypeInv',
         UNCHANGED <<conn, clients, senders>>,
         \A n \in 1..Len(queue') : \E m \in 1..Len(queue) : queue'[n] = queue[m],
         allocated' \subseteq allocated, UNCHANGED loopVars
  PROVE  CleanupInv'
BY Zenon
   DEF CleanupInv, Served, SentWhenOpen, OnlyLeavingDisconnected, NoSender, LeftToTheLoop, loopVars

\* Every message names the client that sent it.
LEMMA FromClient ==
  /\ \A m \in Message : m.from \in Clients
  /\ \A w \in Work : w.kind # "none" => w.from \in Clients
<1>1. \A m \in Message : m.from \in Clients
  BY ZenonT(30) DEF Message, AllocateMessage, DeclareMessage, ProvideMessage, PushMessage
<1>2. \A w \in Answer \cup Resumed : w.from \in Clients
  BY Zenon DEF Answer, Resumed
<1>3. Nothing.kind = "none"
  BY DEF Nothing
<1> QED BY <1>1, <1>2, <1>3 DEF Work

\* Every step of a connection's task keeps it: it removes its sender before its
\* tokens.
LEMMA ConnectionCleanup ==
  ASSUME CleanupInv, TypeInv', NEW d \in Clients, Connection(d)
  PROVE  CleanupInv'
<1> USE DEF CleanupInv
<1>1. conn \in [Clients -> {"absent", "setup", "open", "finished", "gone"} \cup CleanupSteps]
  BY Zenon DEF TypeInv, TypeOK
<1>2. \A a \in allocated : a.owner \in Clients
  BY DEF TypeInv, TokenInv, TM!TypeOK, TM!AllocatedToken
<1>3. /\ queue \in Seq(Message)
      /\ \A n \in 1..Len(queue) : queue[n].from \in Clients
      /\ cur.kind # "none" => cur.from \in Clients
  <2>1. queue \in Seq(Message) /\ cur \in Work
    BY Zenon DEF TypeInv, TypeOK
  <2> QED BY SMTT(30), <2>1, FromClient
<1>4. loop \in CleanupSteps => cur.kind # "none"
  BY Zenon DEF TypeInv, Shape, CleanupSteps, Answer, Declaration, DeclareMessage, Resumed, ProvideMessage
<1>5. CASE Accept(d) \/ SetupConnection(d) \/ Close(d) \/ Drop(d)
  <2>1. UNCHANGED <<allocated, queue, loop, cur>>
    BY <1>5, Zenon DEF Accept, SetupConnection, Close, Drop, tokenVars, loopVars
  <2>2. \E next \in {"setup", "open", "rmClient", "gone"} :
           /\ conn' = [conn EXCEPT ![d] = next]
           /\ next = "setup" => conn[d] = "absent" /\ clients' = clients \cup {d}
                                /\ senders' = senders \cup {d}
           /\ next # "setup" => UNCHANGED <<clients, senders>>
           /\ next = "open" => conn[d] = "setup"
           /\ next = "rmClient" => conn[d] \in {"setup", "open"}
           /\ next = "gone" => conn[d] = "finished"
    BY <1>5, Zenon DEF Accept, SetupConnection, Close, Drop, mapVars
  <2>3. PICK next \in {"setup", "open", "rmClient", "gone"} :
           /\ conn' = [conn EXCEPT ![d] = next]
           /\ next = "setup" => conn[d] = "absent" /\ clients' = clients \cup {d}
                                /\ senders' = senders \cup {d}
           /\ next # "setup" => UNCHANGED <<clients, senders>>
           /\ next = "open" => conn[d] = "setup"
           /\ next = "rmClient" => conn[d] \in {"setup", "open"}
           /\ next = "gone" => conn[d] = "finished"
    BY Zenon, <2>2
  <2>4. Served'
    BY <1>1, <2>3, SMTT(30) DEF Served
  <2>5. SentWhenOpen'
    BY <1>1, <1>3, <2>1, <2>3, Zenon DEF SentWhenOpen
  <2>6. OnlyLeavingDisconnected'
    BY <1>1, <1>3, <1>4, <2>1, <2>3, Zenon DEF OnlyLeavingDisconnected, CleanupSteps
  <2>7. NoSender'
    BY <1>1, <2>3, SMTT(30) DEF NoSender
  <2>8. LeftToTheLoop'
    BY <1>1, <1>2, <2>1, <2>3, Zenon DEF LeftToTheLoop
  <2> QED BY SMTT(30), <2>4, <2>5, <2>6, <2>7, <2>8
<1>6. CASE CleanupByTask(d)
  <2>1. conn[d] \in CleanupSteps /\ UNCHANGED <<queue, loop, cur>>
    BY <1>6 DEF CleanupByTask, CleanupDownstream, CleanupSteps, loopVars
  <2>2. conn' = [conn EXCEPT ![d] = AfterCleanup(conn[d])]
    BY <1>6 DEF CleanupByTask
  <2>3. /\ clients \ {d} \subseteq clients' /\ senders \ {d} \subseteq senders'
        /\ senders' \subseteq senders
        /\ conn[d] = "rmSender" => d \notin senders'
        /\ allocated' \subseteq allocated
        /\ conn[d] = "rmAllocated" => \A a \in allocated' : a.owner # d
    BY <1>6, Zenon
       DEF CleanupByTask, CleanupDownstream, RemoveClient, RemoveSender, RemoveEngineState,
       TM!RemoveAllocated, TM!RemoveActive, mapVars, tokenVars
  <2>4. Served'
    BY <1>1, <2>1, <2>2, <2>3 DEF Served, AfterCleanup, CleanupSteps
  <2>5. SentWhenOpen'
    BY <1>1, <1>3, <2>1, <2>2 DEF SentWhenOpen, AfterCleanup, CleanupSteps
  <2>6. OnlyLeavingDisconnected'
    BY <1>1, <1>3, <1>4, <2>1, <2>2 DEF OnlyLeavingDisconnected, AfterCleanup, CleanupSteps
  <2>7. NoSender'
    BY <1>1, <2>1, <2>2, <2>3 DEF NoSender, AfterCleanup, CleanupSteps
  <2>8. LeftToTheLoop'
    BY <1>1, <1>2, <2>1, <2>2, <2>3 DEF LeftToTheLoop, AfterCleanup, CleanupSteps
  <2> QED BY <2>4, <2>5, <2>6, <2>7, <2>8
<1>7. ASSUME NEW m \in Message, Enqueue(m) PROVE CleanupInv'
  <2>1. UNCHANGED <<conn, clients, senders, allocated, loop, cur>> /\ conn[m.from] = "open"
        /\ queue' = Append(queue, m)
    BY <1>7, Zenon DEF Enqueue, mapVars, tokenVars, loopVars
  <2>2. queue \in Seq(Message)
    BY ZenonT(30) DEF TypeInv, TypeOK
  <2>3. ASSUME NEW n \in 1..Len(queue') PROVE conn[queue'[n].from] \notin {"absent", "setup"}
    <3>1. CASE n \in 1..Len(queue)
      <4>1. queue'[n] = queue[n]
        BY <2>1, <2>2, <3>1
      <4> QED BY <3>1, <4>1 DEF SentWhenOpen
    <3>2. CASE n = Len(queue) + 1
      <4>1. queue'[n] = m
        BY <2>1, <2>2, <3>2
      <4> QED BY <2>1, <4>1
    <3> QED BY <2>1, <2>2, <3>1, <3>2
  <2>4. SentWhenOpen'
    BY <2>1, <2>3, Zenon DEF SentWhenOpen
  <2> QED
    BY <2>1, <2>4, ZenonT(30) DEF Served, OnlyLeavingDisconnected, NoSender, LeftToTheLoop
<1>8. CASE SendAllocate(d) \/ SendDeclare(d) \/ SendProvide(d) \/ SendPush(d)
  <2>1. TypeOK
    BY SMTT(30) DEF TypeInv
  <2> QED BY <1>7, <1>8, <2>1, SentMessage
<1> QED BY <1>5, <1>6, <1>8, SMTT(30) DEF Connection

\* Every step of the message loop keeps it: it allocates before it looks for the
\* sender, and what it does not find makes it clean up.
LEMMA LoopCleanup ==
  ASSUME CleanupInv, TypeInv', Receive \/ HandleMessage
  PROVE  CleanupInv'
<1> USE DEF CleanupInv
<1>1. conn \in [Clients -> {"absent", "setup", "open", "finished", "gone"} \cup CleanupSteps]
  BY ZenonT(30) DEF TypeInv, TypeOK
<1>2. queue \in Seq(Message)
  BY Zenon DEF TypeInv, TypeOK
<1>3. loop # "idle" => cur.kind # "none" /\ cur.from \in Clients
  BY ZenonT(30) DEF TypeInv, TypeOK, Shape, CleanupSteps, AllocateMessage, Answer, Declaration,
     DeclareMessage, Resumed, ProvideMessage
<1>4. UNCHANGED conn
  BY ZenonT(30)
     DEF Receive, HandleMessage, AllocateToken, LookupSender, CheckAllocated, TakePending,
     ValidateCoinbase, EnsureState, IpcSuccess, IpcError, IpcMissing, IpcDropped,
     RejectDeclaration, ActivateToken, IssueActiveToken, AwaitMissing, SendReply, CleanupByLoop,
     LoopUnchanged
<1>5. CASE Receive
  <2>1. /\ loop = "idle" /\ queue # <<>> /\ queue' = Tail(queue)
        /\ UNCHANGED <<clients, senders, allocated>>
    BY <1>5 DEF Receive, mapVars, tokenVars
  <2>2. /\ loop' \in {"idle", "allocate", "lookup"}
        /\ cur' = Head(queue) \/ (loop' = "idle" /\ cur' = cur)
    BY <1>5, SMTT(30) DEF Receive, loopVars
  <2>3. SentWhenOpen'
    <3>1. /\ Head(queue) = queue[1] /\ Len(queue) \in Nat /\ Len(queue) >= 1
          /\ Len(queue') = Len(queue) - 1
          /\ \A n \in 1..Len(queue') : queue'[n] = queue[n + 1]
      BY <1>2, <2>1
    <3>2. \A n \in 1..Len(queue') : conn[queue'[n].from] \notin {"absent", "setup"}
      BY <3>1 DEF SentWhenOpen
    <3>3. cur'.kind # "none" => conn[cur'.from] \notin {"absent", "setup"}
      BY <2>2, <3>1 DEF SentWhenOpen
    <3> QED BY <1>4, <3>2, <3>3, Zenon DEF SentWhenOpen
  <2>4. cur = Nothing
    BY <2>1, Zenon DEF TypeInv, Shape
  <2>5. LeftToTheLoop'
    BY <1>4, <2>1, <2>4, Zenon DEF LeftToTheLoop, Nothing
  <2> QED
    BY <1>4, <2>1, <2>2, <2>3, <2>5, Zenon
       DEF Served, OnlyLeavingDisconnected, NoSender, CleanupSteps
<1>6. CASE AllocateToken
  <2>1. /\ loop = "allocate" /\ loop' = "lookup"
        /\ cur'.kind = "allocate" /\ cur'.from = cur.from
        /\ UNCHANGED <<clients, senders, queue>>
        /\ \A a \in allocated' : a \in allocated \/ a.owner = cur.from
    BY <1>6, SMTT(30) DEF AllocateToken, TM!Allocate, mapVars
  <2>2. SentWhenOpen'
    BY <1>3, <1>4, <2>1, Zenon DEF SentWhenOpen
  <2>3. LeftToTheLoop'
    BY <1>4, <2>1 DEF LeftToTheLoop
  <2> QED
    BY <1>4, <2>1, <2>2, <2>3, SMTT(30) DEF Served, OnlyLeavingDisconnected, NoSender, CleanupSteps
<1>7. ASSUME loop # "idle", UNCHANGED <<clients, senders, queue>>, allocated' \subseteq allocated,
             \/ /\ loop' \notin CleanupSteps
                /\ \/ cur'.kind # "none" /\ cur'.from = cur.from
                   \/ cur' = Nothing
                /\ \/ loop \notin CleanupSteps \cup {"lookup"}
                   \/ cur.from \in senders
             \/ /\ loop' = "rmClient" /\ UNCHANGED cur
                /\ conn[cur.from] \in CleanupSteps \cup {"finished", "gone"}
      PROVE  CleanupInv'
  <2>1. Served' /\ NoSender'
    BY <1>4, <1>7, SMTT(30) DEF Served, NoSender
  <2>2. SentWhenOpen'
    BY <1>3, <1>4, <1>7 DEF SentWhenOpen, Nothing
  <2>3. OnlyLeavingDisconnected'
    BY <1>4, <1>7, Zenon DEF OnlyLeavingDisconnected
  <2>4. LeftToTheLoop'
    BY <1>3, <1>4, <1>7, Zenon DEF LeftToTheLoop, NoSender, CleanupSteps
  <2> QED BY SMTT(30), <2>1, <2>2, <2>3, <2>4
<1>8. ASSUME loop # "idle", cur.from \notin clients \cap senders \/ conn[cur.from] = "gone"
      PROVE  conn[cur.from] \in CleanupSteps \cup {"finished", "gone"}
  BY <1>1, <1>3, <1>8, SMTT(30) DEF Served, SentWhenOpen
<1>9. CASE LookupSender
  <2>1. /\ loop = "lookup" /\ UNCHANGED <<clients, senders, queue, allocated, cur>>
        /\ \/ cur.from \notin senders /\ loop' = "rmClient"
           \/ cur.from \in senders /\ loop' \in {"send", "check", "pending"}
    BY <1>9, SMTT(30)
       DEF LookupSender, Become, mapVars, tokenVars, TypeInv, Shape, Answer, DeclareMessage,
       ProvideMessage
  <2> QED BY <1>3, <1>7, <1>8, <2>1, Zenon DEF CleanupSteps
<1>10. CASE TakePending
  <2>1. /\ loop = "pending" /\ UNCHANGED <<clients, senders, queue, allocated>>
        /\ \/ cur.from \notin clients /\ loop' = "rmClient" /\ UNCHANGED cur
           \/ loop' \in {"idle", "validate"}
              /\ (cur' = Nothing \/ (cur'.kind = "provide" /\ cur'.from = cur.from))
    BY <1>10, SMTT(30) DEF TakePending, Become, Finish, tokenVars
  <2> QED BY <1>3, <1>7, <1>8, <2>1, Zenon DEF CleanupSteps
<1>11. CASE AwaitMissing
  <2>1. /\ loop = "missing" /\ UNCHANGED <<clients, senders, queue, allocated, cur>>
        /\ \/ cur.from \notin clients /\ loop' = "rmClient"
           \/ loop' = "send"
    BY <1>11, Zenon DEF AwaitMissing, Become, tokenVars
  <2> QED BY <1>3, <1>7, <1>8, <2>1, Zenon DEF CleanupSteps
<1>12. CASE SendReply
  <2>1. /\ loop = "send" /\ UNCHANGED <<clients, senders, queue, allocated>>
        /\ \/ conn[cur.from] = "gone" /\ loop' = "rmClient" /\ UNCHANGED cur
           \/ loop' = "idle" /\ cur' = Nothing
    BY <1>12, Zenon DEF SendReply, Become, Finish, tokenVars, mapVars
  <2> QED BY <1>3, <1>7, <1>8, <2>1, Zenon DEF CleanupSteps
<1>13. CASE \/ CheckAllocated \/ ValidateCoinbase \/ EnsureState \/ IpcSuccess \/ IpcError
            \/ IpcMissing \/ IpcDropped \/ RejectDeclaration \/ ActivateToken \/ IssueActiveToken
  <2>1. /\ loop \in {"check", "validate", "ensure", "ipc", "reject", "activate", "issue"}
        /\ loop' \in {"validate", "send", "reject", "ensure", "ipc", "activate", "missing", "issue"}
        /\ UNCHANGED <<clients, senders, queue, cur>>
    BY <1>13, ZenonT(30)
       DEF CheckAllocated, ValidateCoinbase, EnsureState, IpcSuccess, IpcError, IpcMissing,
       IpcDropped, RejectDeclaration, ActivateToken, IssueActiveToken, Become, mapVars
  <2>2. allocated' \subseteq allocated
    BY <1>13, Zenon
       DEF CheckAllocated, ValidateCoinbase, EnsureState, IpcSuccess, IpcError, IpcMissing,
       IpcDropped, RejectDeclaration, ActivateToken, IssueActiveToken, tokenVars,
       TM!Deallocate, TM!ActivateRemove, TM!ActivateInsert
  <2> QED BY <1>3, <1>7, <2>1, <2>2, Zenon DEF CleanupSteps
<1>14. CASE CleanupByLoop
  <2>1. loop \in CleanupSteps /\ UNCHANGED queue
    BY <1>14, Zenon DEF CleanupByLoop, CleanupDownstream, CleanupSteps
  <2>2. \/ loop' = AfterCleanup(loop) /\ loop # "rmActive" /\ UNCHANGED cur
        \/ loop' = "idle" /\ loop = "rmActive" /\ cur' = Nothing
    BY <1>14, <2>1 DEF CleanupByLoop, AfterCleanup, CleanupSteps, Become, Finish
  <2>3. /\ clients \ {cur.from} \subseteq clients' /\ senders \ {cur.from} \subseteq senders'
        /\ senders' \subseteq senders
        /\ allocated' \subseteq allocated
        /\ loop = "rmAllocated" => \A a \in allocated' : a.owner # cur.from
    BY <1>14, Zenon
       DEF CleanupByLoop, CleanupDownstream, RemoveClient, RemoveSender, RemoveEngineState,
       TM!RemoveAllocated, TM!RemoveActive, mapVars, tokenVars
  <2>4. conn[cur.from] \in CleanupSteps \cup {"finished", "gone"}
    BY <2>1, SMTT(30) DEF OnlyLeavingDisconnected
  <2>5. Served' /\ NoSender'
    BY <1>4, <2>3, <2>4, Zenon DEF Served, NoSender, CleanupSteps
  <2>6. SentWhenOpen'
    BY <1>4, <2>1, <2>2 DEF SentWhenOpen, Nothing
  <2>7. OnlyLeavingDisconnected'
    BY <1>4, <2>2, <2>4, Zenon DEF OnlyLeavingDisconnected, CleanupSteps
  <2>8. LeftToTheLoop'
    BY <1>4, <2>1, <2>2, <2>3 DEF LeftToTheLoop, AfterCleanup, CleanupSteps
  <2> QED BY SMTT(30), <2>5, <2>6, <2>7, <2>8
<1> QED
  BY <1>5, <1>6, <1>9, <1>10, <1>11, <1>12, <1>13, <1>14, Zenon DEF HandleMessage

\* All other threads only read the two maps, or remove tokens.
LEMMA CleanupStep == CleanupInv /\ [Next]_vars => CleanupInv'
<1> SUFFICES ASSUME CleanupInv, [Next]_vars PROVE CleanupInv'
  OBVIOUS
<1>1. TypeInv'
  BY TypeStep DEF CleanupInv
<1>2. CASE \E d \in Clients : Connection(d)
  BY <1>1, <1>2, ConnectionCleanup
<1>3. CASE Receive \/ HandleMessage
  BY <1>1, <1>3, LoopCleanup
<1>4. CASE \/ LookupActive \/ DeactivateToken \/ TakeDeclaredCustomJob \/ ReturnSuccess
           \/ ExpireAllocatedToken \/ ExpirePending \/ PruneExpiredAllocation
           \/ (\E d \in Clients : ExpireActiveToken(d))
           \/ NewBlock \/ Quiesced \/ UNCHANGED vars
  <2>1. UNCHANGED <<conn, clients, senders, queue, loopVars>>
    BY <1>4, Zenon DEF LookupActive, DeactivateToken, TakeDeclaredCustomJob, ReturnSuccess,
       PoolUnchanged, ExpireAllocatedToken, ExpirePending, PruneExpiredAllocation,
       ExpireActiveToken, JanitorUnchanged, NewBlock, Quiesced, vars, mapVars
  <2>2. allocated' \subseteq allocated
    BY <1>4, Zenon DEF LookupActive, DeactivateToken, TakeDeclaredCustomJob, ReturnSuccess,
       ExpireAllocatedToken, ExpirePending, PruneExpiredAllocation, ExpireActiveToken,
       NewBlock, Quiesced, vars, tokenVars, TM!Deactivate, TM!ExpireAllocated, TM!ExpireActive
  <2> QED BY SMTT(30), <1>1, <2>1, <2>2, CleanupFrame
<1> QED BY <1>2, <1>3, <1>4 DEF Next

\* The server starts without connections.
LEMMA CleanupInit == Init => CleanupInv
BY TypeInit DEF Init, TM!Init, CleanupInv, Served, SentWhenOpen, OnlyLeavingDisconnected, NoSender,
   LeftToTheLoop, Nothing, CleanupSteps

\* cleanup_downstream run by the message loop is always the second cleanup: the
\* connection's own task is leaving, and no client that is served is dropped.
THEOREM LoopDropsOnlyLeaving == Spec => []OnlyLeavingDisconnected
<1>1. CleanupInv => OnlyLeavingDisconnected
  BY SMTT(30) DEF CleanupInv
<1> QED BY <1>1, CleanupInit, CleanupStep, PTL DEF Spec

\* Although the loop may allocate a token after the connection's task went over
\* the tokens, none survives the connection once its messages are handled.
THEOREM AllocationsRemoved == Spec => []NoOrphanAllocation
<1>1. CleanupInv => NoOrphanAllocation
  BY Zenon DEF CleanupInv, LeftToTheLoop, NoOrphanAllocation, Quiet
<1> QED BY <1>1, CleanupInit, CleanupStep, PTL DEF Spec

-----------------------------------------------------------------------------
(* A jd-client beside clients that send anything.  It declares each token    *)
(* once and numbers its requests, so its declarations never meet each other  *)
(* in the engine, whose tables are keyed by token and by request id.         *)

\* Two declarations that meet in neither of the engine's tables.
Apart(x, y) == x.token # y.token /\ x.rid # y.rid

\* A declaration of a jd-client that has not been activated yet is in the
\* queue, ...
Declares(n) == queue[n].kind = "declare" /\ queue[n].from \in JdcClients

\* ... with the message loop, ...
Deciding == {"check", "validate", "ensure", "ipc", "activate", "issue", "missing"}

CurWaits ==
    /\ loop \in Deciding \/ (loop = "lookup" /\ cur.kind = "declare")
    /\ cur.from \in JdcClients

\* ... or among the pending ones.
Waits(d, t, r) ==
    \/ \E n \in 1..Len(queue) : /\ Declares(n)
                                /\ queue[n].from = d /\ queue[n].token = t /\ queue[n].rid = r
    \/ \E p \in pending : p.owner = d /\ p.token = t /\ p.rid = r
    \/ CurWaits /\ cur.from = d /\ cur.token = t /\ cur.rid = r

\* It is in one of these places, once, and shares neither its token nor its
\* request id with another one of the same client.
QueueApart ==
    \A n, m \in 1..Len(queue) :
        Declares(n) /\ Declares(m) /\ n # m /\ queue[n].from = queue[m].from =>
            Apart(queue[n], queue[m])

PendingApart ==
    \A p \in pending : p.owner \in JdcClients =>
        /\ \A q \in pending : p # q /\ p.owner = q.owner => Apart(p, q)
        /\ \A n \in 1..Len(queue) :
              Declares(n) /\ queue[n].from = p.owner => Apart(queue[n], p)

CurApart ==
    CurWaits =>
        /\ \A n \in 1..Len(queue) :
              Declares(n) /\ queue[n].from = cur.from => Apart(cur, queue[n])
        /\ \A p \in pending : p.owner = cur.from => Apart(cur, p)

\* Every declaration of a jd-client is in one place and alone there.
DeclaredOnce == QueueApart /\ PendingApart /\ CurApart

\* The client has the token and has not declared it, or is about to get it.
Answers == loop \in {"lookup", "send"} /\ cur.kind = "allocate"

Held(d, t) ==
    \/ [owner |-> d, token |-> t] \in known
    \/ Answers /\ cur.from = d /\ cur.token = t

\* The token was activated, or the pool is using it.
InUse(d, t) ==
    \/ \E b \in active : b.owner = d /\ b.origin = t
    \/ pool.pc \in {"deactivate", "take"} /\ pool.tok.owner = d /\ pool.tok.origin = t

\* What the engine stored under a waiting declaration's token or request id is
\* of an earlier round of the same declaration.
Undecided(d, t, r) ==
    /\ t < counter /\ r < sent[d]
    /\ ~Held(d, t) /\ ~InUse(d, t)
    /\ \A e \in entries : e.owner = d => (e.token = t <=> e.rid = r)

\* No token is handed out or used before its declaration is decided ...
AllUndecided ==
    \A d \in JdcClients, t, r \in Nat : Waits(d, t, r) => Undecided(d, t, r)

\* ... or before it is declared.
HeldUnused ==
    \A d \in JdcClients, t \in Nat : Held(d, t) =>
        /\ t < counter
        /\ ~InUse(d, t)
        /\ \A e \in entries : e.owner = d => e.token # t

\* The engine's table of a jd-client is one to one between its tokens and its
\* request ids, so that dropping one declaration never drops another's job.
EntriesKeyed ==
    \A e \in entries : e.owner \in JdcClients =>
        /\ e.token < counter /\ e.rid < sent[e.owner]
        /\ \A f \in entries : f.owner = e.owner => (f.token = e.token <=> f.rid = e.rid)

\* A token that is about to be sent to the client has not been sent before.
AnswerNew ==
    Answers /\ cur.from \in JdcClients => [owner |-> cur.from, token |-> cur.token] \notin known

\* activate runs in the message loop only.
OneActivating ==
    \A a \in activating : loop = "issue" /\ a.token = cur.token /\ a.owner = cur.from

\* The inductive invariant about what a jd-client has sent.
OnceInv ==
    /\ SpentInv
    /\ DeclaredOnce /\ AllUndecided /\ HeldUnused /\ EntriesKeyed
    /\ AnswerNew /\ OneActivating

-----------------------------------------------------------------------------
\* The types of what the invariant is about.
LEMMA WaitTypes ==
  ASSUME TypeInv
  PROVE  /\ queue \in Seq(Message) /\ Len(queue) \in Nat
         /\ counter \in Nat /\ sent \in [Clients -> Nat]
         /\ JdcClients \subseteq Clients
         /\ pending \subseteq [owner : Clients, rid : Nat, token : Nat, job : Jobs]
         /\ entries \subseteq [owner : Clients, token : Nat, rid : Nat]
         /\ known \subseteq [owner : Clients, token : Nat]
         /\ active \subseteq TM!ActiveToken
<1>1. TypeOK
  BY DEF TypeInv
<1>2. TM!TypeOK
  BY <1>1, Zenon DEF TypeOK
<1>3. queue \in Seq(Message)
  BY <1>1, Zenon DEF TypeOK
<1>4. Len(queue) \in Nat
  BY <1>3
<1> QED BY <1>1, <1>2, <1>3, <1>4, ConstantsAssumption, Zenon DEF TypeOK, TM!TypeOK

\* A queued declaration has its fields.
LEMMA QueueTypes ==
  ASSUME TypeInv, NEW n \in 1..Len(queue)
  PROVE  /\ queue[n] \in Message
         /\ queue[n].kind = "declare" => queue[n] \in DeclareMessage
<1>1. queue \in Seq(Message)
  BY WaitTypes
<1>2. queue[n] \in Message
  BY <1>1
<1>3. queue[n].kind = "declare" => queue[n] \in DeclareMessage
  BY <1>2, Zenon DEF Message, AllocateMessage, DeclareMessage, ProvideMessage, PushMessage
<1> QED BY <1>2, <1>3

\* So has the one in the loop.
LEMMA CurTypes ==
  ASSUME TypeInv
  PROVE  /\ CurWaits => cur \in Declaration /\ cur.token \in Nat /\ cur.rid \in Nat
         /\ Answers => cur \in Answer /\ cur.token \in Nat
<1>1. Shape
  BY DEF TypeInv
<1>2. CurWaits => cur \in Declaration
  BY <1>1, Zenon DEF Shape, CurWaits, Deciding, Declaration, Answer, ProvideMessage,
     DeclareMessage, Resumed
<1>3. Answers => cur \in Answer
  BY <1>1, Zenon DEF Shape, Answers, Declaration, Answer, ProvideMessage, DeclareMessage, Resumed
<1>4. \A c \in Declaration : c.token \in Nat /\ c.rid \in Nat
  BY Zenon DEF Declaration, DeclareMessage, Resumed
<1>5. \A c \in Answer : c.token \in Nat
  BY Zenon DEF Answer
<1> QED BY <1>2, <1>3, <1>4, <1>5, Zenon

\* What is said of a waiting declaration outlasts a step that hands out no
\* token, uses none and stores nothing.
Calm ==
    /\ counter' \in Nat /\ counter <= counter'
    /\ \A d \in Clients : sent'[d] \in Nat /\ sent[d] <= sent'[d]
    /\ \A e \in entries' : e.owner \in JdcClients => e \in entries
    /\ \A d \in JdcClients, t \in Nat : /\ Held(d, t)' => Held(d, t)
                                        /\ InUse(d, t)' => InUse(d, t)

\* Such a step keeps the facts about tokens, entries and waiting declarations.
LEMMA CalmKeeps ==
  ASSUME OnceInv, Calm
  PROVE  /\ HeldUnused' /\ EntriesKeyed'
         /\ \A d \in JdcClients, t, r \in Nat : Undecided(d, t, r) => Undecided(d, t, r)'
<1>1. TypeInv /\ AllUndecided /\ HeldUnused /\ EntriesKeyed
  BY Zenon DEF OnceInv, SpentInv
<1>2. /\ counter \in Nat /\ sent \in [Clients -> Nat] /\ JdcClients \subseteq Clients
      /\ entries \subseteq [owner : Clients, token : Nat, rid : Nat]
  BY <1>1, WaitTypes
<1>3. /\ \A t \in Nat : t < counter => t < counter'
      /\ \A d \in JdcClients, r \in Nat : r < sent[d] => r < sent'[d]
  <2>1. counter' \in Nat /\ counter <= counter'
        /\ \A d \in Clients : sent'[d] \in Nat /\ sent[d] <= sent'[d]
    BY Zenon DEF Calm
  <2> QED BY <1>2, <2>1
<1>4. HeldUnused'
  BY <1>1, <1>3, Zenon DEF Calm, HeldUnused
<1>5. EntriesKeyed'
  <2>1. \A e \in entries : e.token \in Nat /\ e.rid \in Nat
    BY <1>2, Zenon
  <2> QED BY <1>1, <1>3, <2>1, Zenon DEF Calm, EntriesKeyed
<1>6. ASSUME NEW d \in JdcClients, NEW t \in Nat, NEW r \in Nat, Undecided(d, t, r)
      PROVE  Undecided(d, t, r)'
  <2>1. t < counter' /\ r < sent'[d]
    BY <1>3, <1>6, Zenon DEF Undecided
  <2> QED BY <1>6, <2>1, Zenon DEF Calm, Undecided
<1> QED BY <1>4, <1>5, <1>6, Zenon

\* A step that moves no declaration keeps them apart.
LEMMA ApartFrame ==
  ASSUME DeclaredOnce, UNCHANGED queue, pending' \subseteq pending,
         CurWaits' => CurWaits /\ UNCHANGED cur
  PROVE  /\ DeclaredOnce'
         /\ \A d, t, r : Waits(d, t, r)' => Waits(d, t, r)
<1>1. QueueApart'
  BY Zenon DEF DeclaredOnce, QueueApart, Declares
<1>2. PendingApart'
  BY Zenon DEF DeclaredOnce, PendingApart, Declares
<1>3. CurApart'
  BY Zenon DEF DeclaredOnce, CurApart, Declares
<1>4. \A d, t, r : Waits(d, t, r)' => Waits(d, t, r)
  BY ZenonT(30) DEF Waits, Declares
<1> QED BY <1>1, <1>2, <1>3, <1>4 DEF DeclaredOnce

\* A calm step that moves no declaration.
LEMMA CalmFrame ==
  ASSUME OnceInv, SpentInv', UNCHANGED queue, pending' \subseteq pending,
         CurWaits' => CurWaits /\ UNCHANGED cur,
         Calm, AnswerNew', OneActivating'
  PROVE  OnceInv'
<1>1. DeclaredOnce' /\ \A d, t, r : Waits(d, t, r)' => Waits(d, t, r)
  BY ApartFrame, Zenon DEF OnceInv
<1>2. /\ HeldUnused' /\ EntriesKeyed'
      /\ \A d \in JdcClients, t, r \in Nat : Undecided(d, t, r) => Undecided(d, t, r)'
  BY CalmKeeps, Zenon
<1>3. AllUndecided'
  BY <1>1, <1>2, Zenon DEF OnceInv, AllUndecided
<1> QED BY <1>1, <1>2, <1>3, Zenon DEF OnceInv

\* A step is calm if it only removes tokens and entries.
LEMMA CalmWhen ==
  ASSUME TypeInv, UNCHANGED <<counter, sent, pool>>,
         entries' \subseteq entries, known' \subseteq known, active' \subseteq active,
         Answers' => Answers /\ UNCHANGED cur
  PROVE  Calm
<1>1. counter \in Nat /\ sent \in [Clients -> Nat]
  BY WaitTypes
<1>2. counter' \in Nat /\ counter <= counter'
      /\ \A d \in Clients : sent'[d] \in Nat /\ sent[d] <= sent'[d]
  BY <1>1
<1>3. \A d \in JdcClients, t \in Nat : Held(d, t)' => Held(d, t)
  BY Zenon DEF Held
<1>4. \A d \in JdcClients, t \in Nat : InUse(d, t)' => InUse(d, t)
  BY Zenon DEF InUse
<1> QED BY <1>2, <1>3, <1>4, Zenon DEF Calm

\* A step that leaves the queue and the loop alone and only removes.
LEMMA RemovalFrame ==
  ASSUME OnceInv, SpentInv', UNCHANGED <<queue, loop, cur, counter, sent, pool, activating>>,
         pending' \subseteq pending, entries' \subseteq entries, known' \subseteq known,
         active' \subseteq active
  PROVE  OnceInv'
<1>1. TypeInv /\ AnswerNew /\ OneActivating
  BY Zenon DEF OnceInv, SpentInv
<1>2. (CurWaits' => CurWaits) /\ (Answers' => Answers)
  BY Zenon DEF CurWaits, Answers
<1>3. Calm
  BY <1>1, <1>2, CalmWhen, Zenon
<1>4. AnswerNew' /\ OneActivating'
  BY <1>1, <1>2, Zenon DEF AnswerNew, OneActivating
<1> QED BY <1>2, <1>3, <1>4, CalmFrame, Zenon

\* A step of the loop that goes on with the same message, or stops, and only
\* removes.
LEMMA LoopFrame ==
  ASSUME OnceInv, SpentInv', UNCHANGED <<queue, counter, sent, pool>>,
         loop # "issue" /\ UNCHANGED activating,
         CurWaits' => CurWaits /\ UNCHANGED cur,
         Answers' => Answers /\ UNCHANGED cur,
         pending' \subseteq pending, entries' \subseteq entries, known' \subseteq known,
         active' \subseteq active
  PROVE  OnceInv'
<1>1. TypeInv /\ AnswerNew /\ OneActivating
  BY Zenon DEF OnceInv, SpentInv
<1>2. Calm
  BY <1>1, CalmWhen, Zenon
<1>3. AnswerNew' /\ OneActivating'
  BY <1>1, Zenon DEF AnswerNew, OneActivating
<1> QED BY <1>2, <1>3, CalmFrame, Zenon

\* Cleanups only remove.
LEMMA CleanupRemoves ==
  ASSUME NEW step, NEW d, CleanupDownstream(step, d)
  PROVE  /\ UNCHANGED <<counter, activating>>
         /\ pending' \subseteq pending /\ entries' \subseteq entries /\ active' \subseteq active
<1>1. pending' \subseteq pending /\ entries' \subseteq entries
  BY Zenon DEF CleanupDownstream, RemoveClient, RemoveSender, RemoveEngineState, mapVars, engineVars
<1>2. UNCHANGED <<counter, activating>> /\ active' \subseteq active
  BY Zenon DEF CleanupDownstream, RemoveClient, RemoveSender, RemoveEngineState, tokenVars,
     TM!RemoveAllocated, TM!RemoveActive
<1> QED BY <1>1, <1>2, Zenon

\* A connection's task that does not send.
LEMMA OnceConnection ==
  ASSUME OnceInv, SpentInv', NEW d,
         Accept(d) \/ SetupConnection(d) \/ Close(d) \/ Drop(d) \/ CleanupByTask(d)
  PROVE  OnceInv'
<1>1. CASE CleanupByTask(d)
  <2>1. UNCHANGED <<queue, loop, cur, sent, pool, known>> /\ CleanupDownstream(conn[d], d)
    BY <1>1, Zenon DEF CleanupByTask, clientVars, loopVars, poolVars
  <2> QED BY <2>1, CleanupRemoves, RemovalFrame, Zenon
<1>2. CASE Accept(d) \/ SetupConnection(d) \/ Close(d) \/ Drop(d)
  <2>1. UNCHANGED <<queue, loop, cur, counter, sent, pool, activating, pending, entries, known,
                    active>>
    BY <1>2, Zenon DEF Accept, SetupConnection, Close, Drop, tokenVars, clientVars, mapVars,
       engineVars, loopVars, poolVars
  <2> QED BY <2>1, RemovalFrame, Zenon
<1> QED BY <1>1, <1>2, Zenon

\* Janitors, blocks and the end.
LEMMA OnceJanitors ==
  ASSUME OnceInv, SpentInv',
         \/ ExpireAllocatedToken \/ ExpirePending \/ PruneExpiredAllocation
         \/ (\E d \in Clients : ExpireActiveToken(d))
         \/ NewBlock \/ Quiesced \/ UNCHANGED vars
  PROVE  OnceInv'
<1>1. UNCHANGED <<queue, loop, cur, sent, pool, known>>
  BY Zenon DEF ExpireAllocatedToken, ExpirePending, PruneExpiredAllocation, ExpireActiveToken,
     JanitorUnchanged, NewBlock, Quiesced, vars, clientVars, loopVars, poolVars
<1>2. pending' \subseteq pending /\ entries' \subseteq entries
  BY Zenon DEF ExpireAllocatedToken, ExpirePending, PruneExpiredAllocation, ExpireActiveToken,
     NewBlock, Quiesced, vars, mapVars, engineVars
<1>3. UNCHANGED <<counter, activating>> /\ active' \subseteq active
  BY Zenon DEF ExpireAllocatedToken, ExpirePending, PruneExpiredAllocation, ExpireActiveToken,
     NewBlock, Quiesced, vars, tokenVars, TM!ExpireAllocated, TM!ExpireActive
<1> QED BY <1>1, <1>2, <1>3, RemovalFrame, Zenon

\* The steps of the loop that only decide or remove.
LEMMA OnceDecides ==
  ASSUME OnceInv, SpentInv',
         \/ LookupSender \/ CheckAllocated \/ ValidateCoinbase \/ EnsureState \/ IpcError
         \/ IpcDropped \/ RejectDeclaration \/ CleanupByLoop
  PROVE  OnceInv'
<1>0. Shape
  BY Zenon DEF OnceInv, SpentInv, TypeInv
<1>1. CASE CleanupByLoop
  <2>1. UNCHANGED <<queue, sent, pool, known>> /\ CleanupDownstream(loop, cur.from)
    BY <1>1, Zenon DEF CleanupByLoop, LoopUnchanged, poolVars
  <2>2. loop \in CleanupSteps
    BY <2>1, Zenon DEF CleanupDownstream, CleanupSteps
  <2>3. loop' \in CleanupSteps \cup {"idle"}
    BY <1>1, <2>2 DEF CleanupByLoop, AfterCleanup, CleanupSteps, Finish, Become
  <2>4. loop # "issue" /\ ~CurWaits' /\ ~Answers'
    BY <2>2, <2>3, Zenon DEF CleanupSteps, CurWaits, Deciding, Answers
  <2> QED BY <2>1, <2>4, CleanupRemoves, LoopFrame, Zenon
<1>2. CASE \/ LookupSender \/ CheckAllocated \/ ValidateCoinbase \/ EnsureState \/ IpcError
           \/ IpcDropped \/ RejectDeclaration
  <2>1. UNCHANGED <<queue, sent, pool, known, pending, cur>>
    BY <1>2, Zenon DEF LookupSender, CheckAllocated, ValidateCoinbase, EnsureState, IpcError,
       IpcDropped, RejectDeclaration, LoopUnchanged, poolVars, mapVars, Become
  <2>2. UNCHANGED <<counter, activating, active>>
    BY <1>2, Zenon DEF LookupSender, CheckAllocated, ValidateCoinbase, EnsureState, IpcError,
       IpcDropped, RejectDeclaration, tokenVars, TM!Deallocate
  <2>3. entries' \subseteq entries
    BY <1>2, Zenon DEF LookupSender, CheckAllocated, ValidateCoinbase, EnsureState, IpcError,
       IpcDropped, RejectDeclaration, engineVars, RemoveDeclaredCustomJob
  <2>4. CASE LookupSender
    <3>1. loop = "lookup"
          /\ loop' = CASE cur.from \notin senders -> "rmClient"
                [] cur.from \in senders /\ cur.kind = "allocate" -> "send"
                [] cur.from \in senders /\ cur.kind = "declare" -> "check"
                [] cur.from \in senders /\ cur.kind = "provide" -> "pending"
      BY <2>4, Zenon DEF LookupSender, Become
    <3>2. cur.kind \in {"allocate", "declare", "provide"}
      BY <1>0, <3>1, Zenon DEF Shape, Answer, DeclareMessage, ProvideMessage
    <3>3. \/ loop' = "rmClient" \/ loop' = "pending"
          \/ loop' = "send" /\ cur.kind = "allocate"
          \/ loop' = "check" /\ cur.kind = "declare"
      BY <3>1, <3>2
    <3>4. (CurWaits' => CurWaits) /\ (Answers' => Answers)
      BY <2>1, <3>1, <3>3, Zenon DEF CurWaits, Deciding, Answers
    <3>5. loop # "issue"
      BY <3>1
    <3> QED BY <2>1, <2>2, <2>3, <3>4, <3>5, LoopFrame, Zenon
  <2>5. CASE CheckAllocated \/ ValidateCoinbase \/ EnsureState \/ IpcError \/ IpcDropped \/ RejectDeclaration
    <3>1. /\ loop \in Deciding \/ (loop = "reject" /\ loop' = "send")
          /\ loop # "issue"
          /\ loop' # "lookup"
      BY <2>5, Zenon DEF CheckAllocated, ValidateCoinbase, EnsureState, IpcError, IpcDropped,
         RejectDeclaration, Become, Deciding
    <3>2. CurWaits' => CurWaits
      BY <2>1, <3>1, Zenon DEF CurWaits, Deciding
    <3>3. cur.kind # "allocate"
      BY <1>0, <3>1, Zenon DEF Shape, Deciding, Declaration, DeclareMessage, Resumed
    <3>4. ~Answers'
      BY <2>1, <3>3, Zenon DEF Answers
    <3> QED BY <2>1, <2>2, <2>3, <3>1, <3>2, <3>4, LoopFrame, Zenon
  <2> QED BY <1>2, <2>4, <2>5, Zenon
<1> QED BY <1>1, <1>2, Zenon

\* The pool uses an active token and drops it; it starts on no other one.
LEMMA OncePool ==
  ASSUME OnceInv, SpentInv',
         LookupActive \/ DeactivateToken \/ TakeDeclaredCustomJob \/ ReturnSuccess
  PROVE  OnceInv'
<1>1. TypeInv /\ AnswerNew /\ OneActivating
  BY Zenon DEF OnceInv, SpentInv
<1>2. UNCHANGED <<queue, loop, cur, sent, known, pending>>
  BY Zenon DEF LookupActive, DeactivateToken, TakeDeclaredCustomJob, ReturnSuccess, PoolUnchanged,
     clientVars, mapVars, loopVars
<1>3. UNCHANGED <<counter, activating>>
  BY Zenon DEF LookupActive, DeactivateToken, TakeDeclaredCustomJob, ReturnSuccess, tokenVars,
     TM!Deactivate
<1>4. entries' \subseteq entries
  BY Zenon DEF LookupActive, DeactivateToken, TakeDeclaredCustomJob, ReturnSuccess, engineVars
<1>5. \A d \in JdcClients, t \in Nat : InUse(d, t)' => InUse(d, t)
  <2>1. CASE LookupActive
    <3>1. UNCHANGED active
      BY <2>1, Zenon DEF LookupActive, tokenVars
    <3>2. UNCHANGED pool \/ \E b \in active, i \in Identities :
             pool' = [pc |-> "deactivate", tok |-> b, by |-> i]
      BY <2>1, Zenon DEF LookupActive, TM!AllocatedFromActive
    <3>3. CASE UNCHANGED pool
      BY <3>1, <3>3, Zenon DEF InUse
    <3>4. CASE \E b \in active, i \in Identities : pool' = [pc |-> "deactivate", tok |-> b, by |-> i]
      <4>1. PICK b \in active, i \in Identities : pool' = [pc |-> "deactivate", tok |-> b, by |-> i]
        BY <3>4
      <4>2. pool'.tok = b
        BY <4>1
      <4> QED BY <3>1, <4>2, Zenon DEF InUse
    <3> QED BY <3>2, <3>3, <3>4, Zenon
  <2>2. CASE DeactivateToken
    <3>1. active' \subseteq active /\ pool.pc = "deactivate"
          /\ pool' = [pool EXCEPT !.pc = "take"]
      BY <2>2, Zenon DEF DeactivateToken, TM!Deactivate
    <3>2. pool'.tok = pool.tok
      <4>1. TypeOK
        BY <1>1, Zenon DEF TypeInv
      <4> QED BY <3>1, <4>1 DEF TypeOK
    <3> QED BY <3>1, <3>2, Zenon DEF InUse
  <2>3. CASE TakeDeclaredCustomJob \/ ReturnSuccess
    <3>1. UNCHANGED active /\ pool'.pc \in {"idle", "accepted"}
      <4>1. CASE TakeDeclaredCustomJob
        <5>1. UNCHANGED active
          BY <4>1, Zenon DEF TakeDeclaredCustomJob, tokenVars
        <5>2. \/ \E job, prev : pool' = [pc |-> "accepted", tok |-> pool.tok, by |-> pool.by,
                                         job |-> job, prev |-> prev]
              \/ pool' = [pc |-> "idle"]
          BY <4>1, Zenon DEF TakeDeclaredCustomJob
        <5>3. pool'.pc \in {"idle", "accepted"}
          BY <5>2
        <5> QED BY <5>1, <5>3, Zenon
      <4>2. CASE ReturnSuccess
        BY <4>2, Zenon DEF ReturnSuccess, tokenVars
      <4> QED BY <2>3, <4>1, <4>2, Zenon
    <3> QED BY <3>1, Zenon DEF InUse
  <2> QED BY <2>1, <2>2, <2>3, Zenon
<1>6. Calm
  <2>1. counter \in Nat /\ sent \in [Clients -> Nat]
    BY <1>1, WaitTypes
  <2>2. counter' \in Nat /\ counter <= counter'
        /\ \A d \in Clients : sent'[d] \in Nat /\ sent[d] <= sent'[d]
    BY <1>2, <1>3, <2>1
  <2>3. \A d \in JdcClients, t \in Nat : Held(d, t)' => Held(d, t)
    BY <1>2, Zenon DEF Held, Answers
  <2> QED BY <1>4, <1>5, <2>2, <2>3, Zenon DEF Calm
<1>7. CurWaits' => CurWaits
  BY <1>2, Zenon DEF CurWaits
<1>8. AnswerNew' /\ OneActivating'
  BY <1>1, <1>2, <1>3, Zenon DEF AnswerNew, Answers, OneActivating
<1> QED BY <1>2, <1>6, <1>7, <1>8, CalmFrame, Zenon

\* remove_if takes the token of the declaration in the loop.
LEMMA OnceActivate ==
  ASSUME OnceInv, SpentInv', ActivateToken
  PROVE  OnceInv'
<1>1. TypeInv /\ AnswerNew /\ OneActivating /\ Shape
  BY Zenon DEF OnceInv, SpentInv, TypeInv
<1>2. loop = "activate" /\ UNCHANGED <<queue, cur, sent, pool, known, pending, entries>>
  BY Zenon DEF ActivateToken, Become, LoopUnchanged, poolVars, mapVars, engineVars
<1>3. UNCHANGED <<counter, active>>
  BY Zenon DEF ActivateToken, tokenVars, TM!ActivateRemove
<1>4. loop' \in {"issue", "send"}
  BY Zenon DEF ActivateToken, Become
<1>5. CurWaits' => CurWaits
  BY <1>2, <1>4, Zenon DEF CurWaits, Deciding
<1>6. cur.kind # "allocate"
  BY <1>1, <1>2, Zenon DEF Shape, Declaration, DeclareMessage, Resumed
<1>7. ~Answers'
  BY <1>2, <1>6, Zenon DEF Answers
<1>8. OneActivating'
  <2>1. activating = {}
    BY <1>1, <1>2 DEF OneActivating
  <2>2. CASE TM!ActivateRemove(cur.token, cur.from) /\ loop' = "issue"
    BY <1>2, <2>1, <2>2, Zenon DEF OneActivating, TM!ActivateRemove
  <2>3. CASE UNCHANGED tokenVars
    BY <2>1, <2>3, Zenon DEF OneActivating, tokenVars
  <2> QED BY <2>2, <2>3, Zenon DEF ActivateToken, Become
<1>9. Calm
  BY <1>1, <1>2, <1>3, <1>7, CalmWhen, Zenon
<1>10. AnswerNew'
  BY <1>7, Zenon DEF AnswerNew
<1> QED BY <1>2, <1>5, <1>8, <1>9, <1>10, CalmFrame, Zenon

\* The loop takes the first message of the queue.
LEMMA OnceReceive ==
  ASSUME OnceInv, SpentInv', Receive
  PROVE  OnceInv'
<1>1. TypeInv /\ AnswerNew /\ OneActivating /\ Shape /\ DeclaredOnce /\ AllUndecided
  BY Zenon DEF OnceInv, SpentInv, TypeInv
<1>2. /\ loop = "idle" /\ queue # <<>> /\ queue' = Tail(queue)
      /\ UNCHANGED <<sent, pool, known, pending, entries, counter, active, activating>>
  BY Zenon DEF Receive, LoopUnchanged, poolVars, mapVars, engineVars, tokenVars
<1>3. queue \in Seq(Message)
  BY <1>1, WaitTypes
<1>4. /\ 1 \in 1..Len(queue) /\ Head(queue) = queue[1]
      /\ \A n \in 1..Len(queue') : n + 1 \in 1..Len(queue) /\ queue'[n] = queue[n + 1] /\ n + 1 # 1
      /\ \A n, m \in 1..Len(queue') : n # m => n + 1 # m + 1
  BY <1>2, <1>3
<1>5. ~CurWaits
  BY <1>2, Zenon DEF CurWaits, Deciding
<1>6. CurWaits' => cur' = queue[1] /\ Declares(1)
  <2>1. CASE UNCHANGED loopVars
    BY <1>5, <2>1, Zenon DEF CurWaits, loopVars
  <2>2. CASE cur' = Head(queue) /\ loop' \in {"allocate", "lookup"}
    BY <1>4, <2>2, Zenon DEF CurWaits, Deciding, Declares
  <2> QED BY <2>1, <2>2, Zenon DEF Receive
<1>7. ~Answers'
  <2>1. CASE UNCHANGED loopVars
    BY <1>2, <2>1, Zenon DEF Answers, loopVars
  <2>2. CASE /\ cur' = Head(queue)
             /\ loop' = IF Head(queue).kind = "allocate" THEN "allocate" ELSE "lookup"
    BY <2>2, Zenon DEF Answers
  <2> QED BY <2>1, <2>2, Zenon DEF Receive
<1>8. QueueApart'
  BY <1>1, <1>4, ZenonT(30) DEF DeclaredOnce, QueueApart, Declares
<1>9. PendingApart'
  <2> SUFFICES ASSUME NEW p \in pending, p.owner \in JdcClients, NEW n \in 1..Len(queue'),
                      Declares(n)', queue'[n].from = p.owner
               PROVE  Apart(queue'[n], p)
    BY <1>1, <1>2, Zenon DEF DeclaredOnce, PendingApart
  <2>1. n + 1 \in 1..Len(queue) /\ queue'[n] = queue[n + 1]
    BY <1>4
  <2>2. Declares(n + 1)
    BY <2>1, Zenon DEF Declares
  <2> QED BY <1>1, <2>1, <2>2, Zenon DEF DeclaredOnce, PendingApart
<1>10. CurApart'
  <2> SUFFICES ASSUME CurWaits' PROVE CurApart'
    BY Zenon DEF CurApart
  <2>1. \A n \in 1..Len(queue') : Declares(n)' /\ queue'[n].from = cur'.from => Apart(cur', queue'[n])
    BY <1>1, <1>4, <1>6, Zenon DEF DeclaredOnce, QueueApart, Declares
  <2>2. \A p \in pending' : p.owner = cur'.from => Apart(cur', p)
    BY <1>1, <1>2, <1>4, <1>6, Zenon DEF DeclaredOnce, PendingApart, Declares
  <2> QED BY <2>1, <2>2, Zenon DEF CurApart
<1>11. ASSUME NEW d, NEW t, NEW r, Waits(d, t, r)' PROVE Waits(d, t, r)
  <2>1. CASE \E n \in 1..Len(queue') : /\ Declares(n)' /\ queue'[n].from = d
                                        /\ queue'[n].token = t /\ queue'[n].rid = r
    <3>1. PICK n \in 1..Len(queue') : /\ Declares(n)' /\ queue'[n].from = d
                                      /\ queue'[n].token = t /\ queue'[n].rid = r
      BY <2>1
    <3>2. n + 1 \in 1..Len(queue) /\ queue'[n] = queue[n + 1]
      BY <1>4
    <3>3. Declares(n + 1)
      BY <3>1, <3>2, Zenon DEF Declares
    <3> QED BY <3>1, <3>2, <3>3, Zenon DEF Waits
  <2>2. CASE CurWaits' /\ cur'.from = d /\ cur'.token = t /\ cur'.rid = r
    BY <1>4, <1>6, <2>2, Zenon DEF Waits
  <2> QED BY <1>2, <1>11, <2>1, <2>2, Zenon DEF Waits
<1>12. Calm
  BY <1>1, <1>2, <1>7, CalmWhen, Zenon
<1>13. AllUndecided' /\ HeldUnused' /\ EntriesKeyed'
  BY <1>1, <1>11, <1>12, CalmKeeps, Zenon DEF AllUndecided
<1>14. AnswerNew' /\ OneActivating'
  BY <1>1, <1>2, <1>7, Zenon DEF AnswerNew, OneActivating
<1> QED BY <1>8, <1>9, <1>10, <1>13, <1>14, Zenon DEF OnceInv, DeclaredOnce

\* The places of the queue after a message was added.
LEMMA AppendPlaces ==
  ASSUME TypeInv, NEW m, m \in Message, queue' = Append(queue, m)
  PROVE  \A n \in 1..Len(queue') : \/ n \in 1..Len(queue) /\ queue'[n] = queue[n]
                                   \/ n = Len(queue) + 1 /\ queue'[n] = m
<1>1. queue \in Seq(Message)
  BY WaitTypes
<1> QED BY <1>1

\* What a message in the queue changes for the waiting declarations.
LEMMA EnqueueFacts ==
  ASSUME OnceInv, NEW m, m \in Message, Enqueue(m), known' \subseteq known
  PROVE  /\ queue' = Append(queue, m)
         /\ UNCHANGED <<pending, loop, cur, pool, counter, active, activating, entries>>
         /\ sent' = [sent EXCEPT ![m.from] = @ + 1]
         /\ Calm /\ AnswerNew' /\ OneActivating'
         /\ (CurWaits' => CurWaits)
<1>1. TypeInv /\ AnswerNew /\ OneActivating
  BY Zenon DEF OnceInv, SpentInv
<1>2. /\ queue' = Append(queue, m)
      /\ UNCHANGED <<pending, loop, cur, pool, counter, active, activating, entries>>
      /\ sent' = [sent EXCEPT ![m.from] = @ + 1]
  BY Zenon DEF Enqueue, tokenVars, mapVars, engineVars, loopVars, poolVars
<1>3. counter \in Nat /\ sent \in [Clients -> Nat]
  BY <1>1, WaitTypes
<1>4. counter' \in Nat /\ counter <= counter'
      /\ \A d \in Clients : sent'[d] \in Nat /\ sent[d] <= sent'[d]
  BY <1>2, <1>3
<1>5. \A d \in JdcClients, t \in Nat : Held(d, t)' => Held(d, t)
  BY <1>2, Zenon DEF Held, Answers
<1>6. \A d \in JdcClients, t \in Nat : InUse(d, t)' => InUse(d, t)
  BY <1>2, Zenon DEF InUse
<1>7. Calm
  BY <1>2, <1>4, <1>5, <1>6, Zenon DEF Calm
<1>8. AnswerNew' /\ OneActivating'
  BY <1>1, <1>2, Zenon DEF AnswerNew, Answers, OneActivating
<1>9. CurWaits' => CurWaits
  BY <1>2, Zenon DEF CurWaits
<1> QED BY <1>2, <1>7, <1>8, <1>9, Zenon

\* A message that is no declaration of a jd-client.
LEMMA OnceOther ==
  ASSUME OnceInv, SpentInv', NEW m, m \in Message, Enqueue(m), known' \subseteq known,
         m.kind # "declare" \/ m.from \notin JdcClients
  PROVE  OnceInv'
<1>1. TypeInv /\ DeclaredOnce /\ AllUndecided
  BY Zenon DEF OnceInv, SpentInv
<1>2. /\ queue' = Append(queue, m)
      /\ UNCHANGED <<pending, loop, cur, pool, counter, active, activating, entries>>
      /\ Calm /\ AnswerNew' /\ OneActivating'
      /\ (CurWaits' => CurWaits)
  BY EnqueueFacts, Zenon
<1>3. \A n \in 1..Len(queue') : Declares(n)' => n \in 1..Len(queue) /\ queue'[n] = queue[n] /\ Declares(n)
  BY <1>1, <1>2, AppendPlaces, ZenonT(30) DEF Declares
<1>4. QueueApart'
  BY <1>1, <1>3, Zenon DEF DeclaredOnce, QueueApart
<1>5. PendingApart'
  BY <1>1, <1>2, <1>3, Zenon DEF DeclaredOnce, PendingApart
<1>6. CurApart'
  BY <1>1, <1>2, <1>3, Zenon DEF DeclaredOnce, CurApart
<1>7. \A d, t, r : Waits(d, t, r)' => Waits(d, t, r)
  BY <1>2, <1>3, ZenonT(30) DEF Waits
<1>8. AllUndecided' /\ HeldUnused' /\ EntriesKeyed'
  BY <1>1, <1>2, <1>7, CalmKeeps, Zenon DEF AllUndecided
<1> QED BY <1>2, <1>4, <1>5, <1>6, <1>8, Zenon DEF OnceInv, DeclaredOnce

\* A jd-client declares a token it holds under its next request id.
LEMMA OnceDeclares ==
  ASSUME OnceInv, SpentInv', NEW d \in JdcClients, NEW t \in Nat, NEW q \in Nat, NEW m, m \in Message,
         Enqueue(m), q = sent[d], m.kind = "declare", m.from = d, m.token = t, m.rid = q,
         [owner |-> d, token |-> t] \in known,
         known' = known \ {[owner |-> d, token |-> t]}
  PROVE  OnceInv'
<1>1. TypeInv /\ DeclaredOnce /\ AllUndecided /\ HeldUnused /\ EntriesKeyed /\ AnswerNew
  BY Zenon DEF OnceInv, SpentInv
<1>2. /\ queue' = Append(queue, m)
      /\ UNCHANGED <<pending, loop, cur, pool, counter, active, activating, entries>>
      /\ sent' = [sent EXCEPT ![m.from] = @ + 1]
      /\ Calm /\ AnswerNew' /\ OneActivating'
      /\ (CurWaits' => CurWaits)
  BY EnqueueFacts, Zenon
<1>3. /\ sent \in [Clients -> Nat] /\ JdcClients \subseteq Clients
      /\ entries \subseteq [owner : Clients, token : Nat, rid : Nat]
      /\ pending \subseteq [owner : Clients, rid : Nat, token : Nat, job : Jobs]
  BY <1>1, WaitTypes, Zenon
<1>4. q < sent'[d] /\ \A r \in Nat : r < sent[d] => r # q
  BY <1>2, <1>3
\* Nothing of this client waits under that token or that request id.
<1>5. ASSUME NEW u \in Nat, NEW r \in Nat, Waits(d, u, r) PROVE u # t /\ r # q
  <2>1. Undecided(d, u, r)
    BY <1>1, <1>5, Zenon DEF AllUndecided
  <2>2. r < sent[d] /\ [owner |-> d, token |-> u] \notin known
    BY <2>1, Zenon DEF Undecided, Held
  <2> QED BY <1>4, <2>2, Zenon
<1>6. \A n \in 1..Len(queue) : Declares(n) /\ queue[n].from = d =>
         /\ queue[n].token # t /\ queue[n].rid # q
  <2> SUFFICES ASSUME NEW n \in 1..Len(queue), Declares(n), queue[n].from = d
               PROVE  queue[n].token # t /\ queue[n].rid # q
    BY Zenon
  <2>1. queue[n] \in DeclareMessage
    BY <1>1, QueueTypes, Zenon DEF Declares
  <2>2. queue[n].token \in Nat /\ queue[n].rid \in Nat
    BY <2>1, Zenon DEF DeclareMessage
  <2>3. Waits(d, queue[n].token, queue[n].rid)
    BY Zenon DEF Waits
  <2> QED BY <1>5, <2>2, <2>3, Zenon
<1>7. \A p \in pending : p.owner = d => p.token # t /\ p.rid # q
  <2> SUFFICES ASSUME NEW p \in pending, p.owner = d PROVE p.token # t /\ p.rid # q
    OBVIOUS
  <2>1. p.token \in Nat /\ p.rid \in Nat
    BY <1>3, Zenon
  <2>2. Waits(d, p.token, p.rid)
    BY Zenon DEF Waits
  <2> QED BY <1>5, <2>1, <2>2, Zenon
<1>8. CurWaits /\ cur.from = d => cur.token # t /\ cur.rid # q
  <2> SUFFICES ASSUME CurWaits, cur.from = d PROVE cur.token # t /\ cur.rid # q
    OBVIOUS
  <2>1. cur.token \in Nat /\ cur.rid \in Nat
    BY <1>1, CurTypes, Zenon
  <2>2. Waits(d, cur.token, cur.rid)
    BY Zenon DEF Waits
  <2> QED BY <1>5, <2>1, <2>2, Zenon
<1>9. \A n \in 1..Len(queue') : Declares(n)' =>
         \/ n \in 1..Len(queue) /\ queue'[n] = queue[n] /\ Declares(n)
         \/ n = Len(queue) + 1 /\ queue'[n] = m
  BY <1>1, <1>2, AppendPlaces, Zenon DEF Declares
<1>10. QueueApart'
  <2> SUFFICES ASSUME NEW n \in 1..Len(queue'), NEW k \in 1..Len(queue'), Declares(n)', Declares(k)',
                      n # k, queue'[n].from = queue'[k].from
               PROVE  Apart(queue'[n], queue'[k])
    BY Zenon DEF QueueApart
  <2>1. CASE queue'[n] = m /\ queue'[k] = queue[k] /\ Declares(k) /\ k \in 1..Len(queue)
    BY <1>6, <2>1, Zenon DEF Apart
  <2>2. CASE queue'[k] = m /\ queue'[n] = queue[n] /\ Declares(n) /\ n \in 1..Len(queue)
    BY <1>6, <2>2, Zenon DEF Apart
  <2>3. CASE /\ queue'[k] = queue[k] /\ Declares(k) /\ k \in 1..Len(queue)
             /\ queue'[n] = queue[n] /\ Declares(n) /\ n \in 1..Len(queue)
    BY <1>1, <2>3, Zenon DEF DeclaredOnce, QueueApart
  <2>4. \/ n \in 1..Len(queue) /\ queue'[n] = queue[n] /\ Declares(n)
        \/ n = Len(queue) + 1 /\ queue'[n] = m
    BY <1>9, Zenon
  <2>5. \/ k \in 1..Len(queue) /\ queue'[k] = queue[k] /\ Declares(k)
        \/ k = Len(queue) + 1 /\ queue'[k] = m
    BY <1>9, Zenon
  <2> QED BY <2>1, <2>2, <2>3, <2>4, <2>5, Zenon
<1>11. PendingApart'
  <2> SUFFICES ASSUME NEW p \in pending, p.owner \in JdcClients, NEW n \in 1..Len(queue'),
                      Declares(n)', queue'[n].from = p.owner
               PROVE  Apart(queue'[n], p)
    BY <1>1, <1>2, Zenon DEF DeclaredOnce, PendingApart
  <2>1. CASE n \in 1..Len(queue) /\ queue'[n] = queue[n] /\ Declares(n)
    BY <1>1, <2>1, Zenon DEF DeclaredOnce, PendingApart
  <2>2. CASE queue'[n] = m
    BY <1>7, <2>2, Zenon DEF Apart
  <2> QED BY <1>9, <2>1, <2>2, Zenon
<1>12. CurApart'
  <2> SUFFICES ASSUME CurWaits, NEW n \in 1..Len(queue'), Declares(n)', queue'[n].from = cur.from
               PROVE  Apart(cur, queue'[n])
    BY <1>1, <1>2, Zenon DEF DeclaredOnce, CurApart
  <2>1. CASE n \in 1..Len(queue) /\ queue'[n] = queue[n] /\ Declares(n)
    BY <1>1, <2>1, Zenon DEF DeclaredOnce, CurApart
  <2>2. CASE queue'[n] = m
    BY <1>8, <2>2, Zenon DEF Apart
  <2> QED BY <1>9, <2>1, <2>2, Zenon
<1>13. ASSUME NEW c, NEW u, NEW r, Waits(c, u, r)'
       PROVE  Waits(c, u, r) \/ (c = d /\ u = t /\ r = q)
  <2>1. CASE \E n \in 1..Len(queue') : /\ Declares(n)' /\ queue'[n].from = c
                                        /\ queue'[n].token = u /\ queue'[n].rid = r
    <3>1. PICK n \in 1..Len(queue') : /\ Declares(n)' /\ queue'[n].from = c
                                      /\ queue'[n].token = u /\ queue'[n].rid = r
      BY <2>1, Zenon
    <3>2. CASE queue'[n] = m
      BY <3>1, <3>2, Zenon
    <3>3. CASE n \in 1..Len(queue) /\ queue'[n] = queue[n] /\ Declares(n)
      BY <3>1, <3>3, Zenon DEF Waits
    <3> QED BY <1>9, <3>1, <3>2, <3>3, Zenon
  <2>2. CASE CurWaits' /\ cur'.from = c /\ cur'.token = u /\ cur'.rid = r
    BY <1>2, <2>2, Zenon DEF Waits
  <2> QED BY <1>2, <1>13, <2>1, <2>2, Zenon DEF Waits
<1>14. Undecided(d, t, q)'
  <2>1. t < counter /\ ~InUse(d, t) /\ \A e \in entries : e.owner = d => e.token # t
    BY <1>1, Zenon DEF HeldUnused, Held
  <2>2. \A e \in entries : e.owner = d => e.rid # q
    BY <1>1, <1>3, <1>4, Zenon DEF EntriesKeyed
  <2>3. ~Held(d, t)'
    BY <1>1, <1>2, Zenon DEF Held, Answers, AnswerNew
  <2>4. ~InUse(d, t)'
    BY <1>2, <2>1, Zenon DEF InUse
  <2>5. t < counter' /\ q < sent'[d] /\ entries' = entries
    BY <1>2, <1>4, <2>1, Zenon
  <2>6. \A e \in entries' : e.owner = d => (e.token = t <=> e.rid = q)
    BY <2>1, <2>2, <2>5, Zenon
  <2> QED BY <2>3, <2>4, <2>5, <2>6, Zenon DEF Undecided
<1>15. HeldUnused' /\ EntriesKeyed'
       /\ \A c \in JdcClients, u, r \in Nat : Undecided(c, u, r) => Undecided(c, u, r)'
  BY <1>2, CalmKeeps, Zenon
<1>16. AllUndecided'
  <2> SUFFICES ASSUME NEW c \in JdcClients, NEW u \in Nat, NEW r \in Nat, Waits(c, u, r)'
               PROVE  Undecided(c, u, r)'
    BY Zenon DEF AllUndecided
  <2>1. CASE Waits(c, u, r)
    BY <1>1, <1>15, <2>1, Zenon DEF AllUndecided
  <2>2. CASE c = d /\ u = t /\ r = q
    BY <1>14, <2>2, Zenon
  <2>3. Waits(c, u, r) \/ (c = d /\ u = t /\ r = q)
    BY <1>13
  <2> QED BY <2>1, <2>2, <2>3, Zenon
<1> QED BY <1>2, <1>10, <1>11, <1>12, <1>15, <1>16, Zenon DEF OnceInv, DeclaredOnce

\* Whatever a connection sends.
LEMMA OnceSends ==
  ASSUME OnceInv, SpentInv', NEW d \in Clients,
         SendAllocate(d) \/ SendDeclare(d) \/ SendProvide(d) \/ SendPush(d)
  PROVE  OnceInv'
<1>1. TypeInv
  BY Zenon DEF OnceInv, SpentInv
<1>2. TypeOK /\ counter \in Nat /\ sent \in [Clients -> Nat]
  BY <1>1, WaitTypes, Zenon DEF TypeInv
<1>3. CASE SendDeclare(d)
  <2>1. PICK t \in 0..counter, j \in Jobs :
          \/ /\ d \in JdcClients
             /\ [owner |-> d, token |-> t] \in known
             /\ Enqueue([kind |-> "declare", from |-> d, token |-> t, rid |-> sent[d], job |-> j])
             /\ known' = known \ {[owner |-> d, token |-> t]}
          \/ /\ d \notin JdcClients
             /\ \E r \in RequestIds :
                   Enqueue([kind |-> "declare", from |-> d, token |-> t, rid |-> r, job |-> j])
             /\ UNCHANGED known
    BY <1>3, Zenon DEF SendDeclare
  <2>2. t \in Nat /\ sent[d] \in Nat /\ RequestIds \subseteq Nat
    BY <1>2, ConstantsAssumption
  <2> DEFINE M(r) == [kind |-> "declare", from |-> d, token |-> t, rid |-> r, job |-> j]
  <2>3. \A r \in Nat : M(r) \in Message
    BY <2>2, Zenon DEF Message, DeclareMessage
  <2>4. \A r : M(r).kind = "declare" /\ M(r).from = d /\ M(r).token = t /\ M(r).rid = r
    BY Zenon
  <2> HIDE DEF M
  <2>5. CASE /\ d \in JdcClients /\ [owner |-> d, token |-> t] \in known
             /\ Enqueue(M(sent[d])) /\ known' = known \ {[owner |-> d, token |-> t]}
    <3>1. M(sent[d]) \in Message
      BY <2>2, <2>3
    <3>2. M(sent[d]).kind = "declare" /\ M(sent[d]).from = d /\ M(sent[d]).token = t
          /\ M(sent[d]).rid = sent[d]
      BY <2>4
    <3> QED BY <2>2, <2>5, <3>1, <3>2, OnceDeclares, Zenon
  <2>6. CASE d \notin JdcClients /\ (\E r \in RequestIds : Enqueue(M(r))) /\ UNCHANGED known
    <3>1. PICK r \in RequestIds : Enqueue(M(r))
      BY <2>6
    <3>2. M(r) \in Message /\ M(r).from \notin JdcClients /\ known' \subseteq known
      BY <2>2, <2>3, <2>4, <2>6, Zenon
    <3> QED BY <3>1, <3>2, OnceOther, Zenon
  <2> QED BY <2>1, <2>5, <2>6, Zenon DEF M
<1>4. CASE SendAllocate(d) \/ SendProvide(d) \/ SendPush(d)
  <2>1. PICK m \in Message : Enqueue(m) /\ m.kind # "declare" /\ known' \subseteq known
    <3>1. CASE SendAllocate(d)
      BY <3>1 DEF SendAllocate, Message, AllocateMessage
    <3>2. CASE SendProvide(d)
      <4>1. PICK r \in IF d \in JdcClients THEN 0..Budget[d] ELSE RequestIds :
               Enqueue([kind |-> "provide", from |-> d, rid |-> r]) /\ UNCHANGED known
        BY <3>2 DEF SendProvide
      <4>2. r \in Nat
        BY ConstantsAssumption
      <4>3. [kind |-> "provide", from |-> d, rid |-> r] \in Message
        BY <4>2 DEF Message, ProvideMessage
      <4> QED BY <4>1, <4>3
    <3>3. CASE SendPush(d)
      BY <3>3 DEF SendPush, Message, PushMessage
    <3> QED BY <1>4, <3>1, <3>2, <3>3
  <2> QED BY <2>1, OnceOther, Zenon
<1> QED BY <1>3, <1>4, Zenon

\* A new token is above every number in use.
LEMMA OnceAllocate ==
  ASSUME OnceInv, SpentInv', AllocateToken
  PROVE  OnceInv'
<1>1. TypeInv /\ DeclaredOnce /\ AllUndecided /\ HeldUnused /\ EntriesKeyed /\ OneActivating
  BY Zenon DEF OnceInv, SpentInv
<1>2. /\ loop = "allocate" /\ loop' = "lookup" /\ counter' = counter + 1
      /\ cur' = [kind |-> "allocate", from |-> cur.from, identity |-> cur.identity, token |-> counter]
      /\ UNCHANGED <<queue, sent, pool, known, pending, entries, active, activating>>
  BY Zenon DEF AllocateToken, TM!Allocate, LoopUnchanged, poolVars, mapVars, engineVars
<1>3. cur'.kind = "allocate" /\ cur'.from = cur.from /\ cur'.token = counter
  BY <1>2, Zenon
<1>4. /\ counter \in Nat /\ sent \in [Clients -> Nat] /\ JdcClients \subseteq Clients
      /\ entries \subseteq [owner : Clients, token : Nat, rid : Nat]
      /\ known \subseteq [owner : Clients, token : Nat]
      /\ active \subseteq TM!ActiveToken
  BY <1>1, WaitTypes, Zenon
<1>5. /\ counter' \in Nat /\ counter < counter'
      /\ \A t \in Nat : t < counter => t < counter' /\ t # counter
  BY <1>2, <1>4
<1>6. ~CurWaits'
  BY <1>2, <1>3, Zenon DEF CurWaits, Deciding
<1>7. DeclaredOnce' /\ \A d, t, r : Waits(d, t, r)' => Waits(d, t, r)
  BY <1>1, <1>2, <1>6, ApartFrame, Zenon
<1>8. \A d, t : Held(d, t)' => Held(d, t) \/ t = counter
  BY <1>2, <1>3, Zenon DEF Held
<1>9. \A d, t : InUse(d, t)' => InUse(d, t)
  BY <1>2, Zenon DEF InUse
<1>10. \A d \in JdcClients : ~InUse(d, counter)
  <2>1. \A b \in active : b.origin \in Nat /\ b.origin < counter
    BY <1>1, <1>4, Zenon DEF TM!ActiveToken, TypeInv, TokenInv, CounterAhead
  <2>2. pool.pc \in {"deactivate", "take"} => pool.tok.origin < counter /\ pool.tok.origin \in Nat
    <3>1. TypeOK
      BY <1>1, Zenon DEF TypeInv
    <3>2. pool.pc \in {"deactivate", "take"} => pool.tok.origin \in Nat
      BY <3>1, Zenon DEF TypeOK, TM!ActiveToken
    <3> QED BY <3>2, Zenon DEF OnceInv, SpentInv, InCall
  <2> QED BY <1>5, <2>1, <2>2, Zenon DEF InUse
<1>11. HeldUnused'
  <2> SUFFICES ASSUME NEW d \in JdcClients, NEW t \in Nat, Held(d, t)'
               PROVE  t < counter' /\ ~InUse(d, t)' /\ \A e \in entries : e.owner = d => e.token # t
    BY <1>2, Zenon DEF HeldUnused
  <2>1. CASE Held(d, t)
    BY <1>1, <1>5, <1>9, <2>1, Zenon DEF HeldUnused
  <2>2. CASE t = counter
    BY <1>1, <1>4, <1>5, <1>9, <1>10, <2>2, Zenon DEF EntriesKeyed
  <2> QED BY <1>8, <2>1, <2>2, Zenon
<1>12. EntriesKeyed'
  BY <1>1, <1>2, <1>4, <1>5, Zenon DEF EntriesKeyed
<1>13. AllUndecided'
  <2> SUFFICES ASSUME NEW d \in JdcClients, NEW t \in Nat, NEW r \in Nat, Waits(d, t, r)'
               PROVE  Undecided(d, t, r)'
    BY Zenon DEF AllUndecided
  <2>1. Undecided(d, t, r)
    BY <1>1, <1>7, Zenon DEF AllUndecided
  <2>2. t < counter' /\ t # counter /\ r < sent'[d]
    BY <1>2, <1>5, <2>1, Zenon DEF Undecided
  <2> QED BY <1>2, <1>8, <1>9, <2>1, <2>2, Zenon DEF Undecided
<1>14. AnswerNew'
  <2> SUFFICES ASSUME cur.from \in JdcClients, [owner |-> cur.from, token |-> counter] \in known
               PROVE  FALSE
    BY <1>2, <1>3, Zenon DEF AnswerNew
  <2> QED BY <1>1, <1>4, <1>5, Zenon DEF HeldUnused, Held
<1>15. OneActivating'
  BY <1>1, <1>2, Zenon DEF OneActivating
<1> QED BY <1>7, <1>11, <1>12, <1>13, <1>14, <1>15, Zenon DEF OnceInv

\* The answer brings the client the token that was on its way.
LEMMA OnceReply ==
  ASSUME OnceInv, SpentInv', SendReply
  PROVE  OnceInv'
<1>1. TypeInv /\ OneActivating
  BY Zenon DEF OnceInv, SpentInv
<1>2. /\ loop = "send" /\ loop' \in {"rmClient", "idle"}
      /\ UNCHANGED <<queue, sent, pool, pending, entries, counter, active, activating>>
  BY Zenon DEF SendReply, Become, Finish, LoopUnchanged, poolVars, mapVars, engineVars, tokenVars
<1>3. ~CurWaits' /\ ~Answers'
  BY <1>2, Zenon DEF CurWaits, Deciding, Answers
<1>4. ASSUME NEW d \in JdcClients, NEW t \in Nat, Held(d, t)' PROVE Held(d, t)
  <2>1. \/ known' = known
        \/ cur.kind = "allocate" /\ known' = known \cup {[owner |-> cur.from, token |-> cur.token]}
    BY Zenon DEF SendReply
  <2>2. [owner |-> d, token |-> t] = [owner |-> cur.from, token |-> cur.token]
          => d = cur.from /\ t = cur.token
    OBVIOUS
  <2>3. [owner |-> d, token |-> t] \in known'
    BY <1>3, <1>4, Zenon DEF Held
  <2> QED BY <1>2, <2>1, <2>2, <2>3, Zenon DEF Held, Answers
<1>5. Calm
  <2>1. counter \in Nat /\ sent \in [Clients -> Nat]
    BY <1>1, WaitTypes
  <2>2. counter' \in Nat /\ counter <= counter'
        /\ \A d \in Clients : sent'[d] \in Nat /\ sent[d] <= sent'[d]
    BY <1>2, <2>1
  <2>3. \A d \in JdcClients, t \in Nat : InUse(d, t)' => InUse(d, t)
    BY <1>2, Zenon DEF InUse
  <2> QED BY <1>2, <1>4, <2>2, <2>3, Zenon DEF Calm
<1>6. AnswerNew' /\ OneActivating'
  BY <1>1, <1>2, <1>3, Zenon DEF AnswerNew, OneActivating
<1> QED BY <1>2, <1>3, <1>5, <1>6, CalmFrame, Zenon

\* A ProvideMissingTransactions.Success moves a pending declaration to the loop.
LEMMA OnceResume ==
  ASSUME OnceInv, SpentInv', TakePending
  PROVE  OnceInv'
<1>1. TypeInv /\ DeclaredOnce /\ AllUndecided /\ OneActivating
  BY Zenon DEF OnceInv, SpentInv
<1>2. /\ loop = "pending" /\ loop # "issue" /\ pending' \subseteq pending
      /\ UNCHANGED <<queue, sent, pool, known, entries, counter, active, activating>>
  BY Zenon DEF TakePending, LoopUnchanged, poolVars, engineVars, tokenVars
<1>3. CASE Become("rmClient") \/ Finish
  <2>1. ~CurWaits' /\ ~Answers'
    BY <1>3, Zenon DEF Become, Finish, CurWaits, Deciding, Answers
  <2> QED BY <1>2, <2>1, LoopFrame, Zenon
<1>4. CASE \E p \in pending :
             /\ p.owner = cur.from /\ p.rid = cur.rid
             /\ cur' = [kind |-> "provide", from |-> cur.from, token |-> p.token,
                        rid |-> p.rid, job |-> p.job]
             /\ pending' = pending \ {q \in pending : q.owner = cur.from /\ q.rid = cur.rid}
             /\ loop' = "validate"
  <2>1. PICK p \in pending :
             /\ p.owner = cur.from /\ p.rid = cur.rid
             /\ cur' = [kind |-> "provide", from |-> cur.from, token |-> p.token,
                        rid |-> p.rid, job |-> p.job]
             /\ pending' = pending \ {q \in pending : q.owner = cur.from /\ q.rid = cur.rid}
             /\ loop' = "validate"
    BY <1>4, Zenon
  <2>2. cur'.from = p.owner /\ cur'.token = p.token /\ cur'.rid = p.rid /\ cur'.kind = "provide"
    BY <2>1, Zenon
  <2>3. \A q \in pending' : q \in pending /\ q # p
    BY <2>1, Zenon
  <2>4. QueueApart' /\ PendingApart'
    BY <1>1, <1>2, Zenon DEF DeclaredOnce, QueueApart, PendingApart, Declares
  <2>5. CurApart'
    <3> SUFFICES ASSUME p.owner \in JdcClients PROVE CurApart'
      BY <2>2, Zenon DEF CurApart, CurWaits
    <3>1. \A n \in 1..Len(queue) : Declares(n) /\ queue[n].from = p.owner => Apart(queue[n], p)
      BY <1>1, Zenon DEF DeclaredOnce, PendingApart
    <3>2. \A q \in pending' : q.owner = p.owner => Apart(p, q)
      BY <1>1, <2>3, Zenon DEF DeclaredOnce, PendingApart
    <3> QED BY <1>2, <2>2, <3>1, <3>2, Zenon DEF CurApart, Declares, Apart
  <2>6. \A d, t, r : Waits(d, t, r)' => Waits(d, t, r)
    BY <1>2, <2>2, ZenonT(30) DEF Waits, Declares
  <2>7. ~Answers'
    BY <2>2, Zenon DEF Answers
  <2>8. Calm
    BY <1>1, <1>2, <2>7, CalmWhen, Zenon
  <2>9. AllUndecided' /\ HeldUnused' /\ EntriesKeyed'
    BY <1>1, <2>6, <2>8, CalmKeeps, Zenon DEF AllUndecided
  <2>10. AnswerNew' /\ OneActivating'
    BY <1>1, <1>2, <2>7, Zenon DEF AnswerNew, OneActivating
  <2> QED BY <2>4, <2>5, <2>9, <2>10, Zenon DEF OnceInv, DeclaredOnce
<1> QED BY <1>3, <1>4, Zenon DEF TakePending

\* A declaration that misses transactions moves from the loop to the pending ones.
LEMMA OnceAwait ==
  ASSUME OnceInv, SpentInv', AwaitMissing
  PROVE  OnceInv'
<1>1. TypeInv /\ DeclaredOnce /\ AllUndecided /\ OneActivating /\ Shape
  BY Zenon DEF OnceInv, SpentInv, TypeInv
<1>2. /\ loop = "missing" /\ loop' \in {"send", "rmClient"}
      /\ UNCHANGED <<queue, cur, sent, pool, known, entries, counter, active, activating>>
  BY Zenon DEF AwaitMissing, Become, LoopUnchanged, poolVars, engineVars, tokenVars
<1>3. cur.kind = "declare"
  BY <1>1, <1>2, Zenon DEF Shape, DeclareMessage
<1>4. ~CurWaits' /\ ~Answers' /\ (cur.from \in JdcClients => CurWaits)
  BY <1>2, <1>3, Zenon DEF CurWaits, Deciding, Answers
<1> DEFINE new == [owner |-> cur.from, rid |-> cur.rid, token |-> cur.token, job |-> cur.job]
<1>5. new.owner = cur.from /\ new.token = cur.token /\ new.rid = cur.rid
  BY Zenon
<1> HIDE DEF new
<1>6. \A p \in pending' : p \in pending \/ p = new
  BY Zenon DEF AwaitMissing, new
<1>7. QueueApart'
  BY <1>1, <1>2, Zenon DEF DeclaredOnce, QueueApart, Declares
<1>8. PendingApart'
  <2>1. ASSUME NEW p \in pending', p.owner \in JdcClients, NEW q \in pending', p # q,
               p.owner = q.owner
        PROVE  Apart(p, q)
    <3>1. CASE p \in pending /\ q \in pending
      BY <1>1, <2>1, <3>1, Zenon DEF DeclaredOnce, PendingApart
    <3>2. CASE p = new /\ q \in pending
      BY <1>1, <1>4, <1>5, <2>1, <3>2, Zenon DEF DeclaredOnce, CurApart, Apart
    <3>3. CASE p \in pending /\ q = new
      BY <1>1, <1>4, <1>5, <2>1, <3>3, Zenon DEF DeclaredOnce, CurApart, Apart
    <3> QED BY <1>6, <2>1, <3>1, <3>2, <3>3, Zenon
  <2>2. ASSUME NEW p \in pending', p.owner \in JdcClients, NEW n \in 1..Len(queue), Declares(n),
               queue[n].from = p.owner
        PROVE  Apart(queue[n], p)
    <3>1. CASE p \in pending
      BY <1>1, <2>2, <3>1, Zenon DEF DeclaredOnce, PendingApart
    <3>2. CASE p = new
      BY <1>1, <1>4, <1>5, <2>2, <3>2, Zenon DEF DeclaredOnce, CurApart, Apart
    <3> QED BY <1>6, <2>2, <3>1, <3>2, Zenon
  <2> QED BY <1>2, <2>1, <2>2, Zenon DEF PendingApart, Declares
<1>9. CurApart'
  BY <1>4, Zenon DEF CurApart
<1>10. ASSUME NEW d \in JdcClients, NEW t, NEW r, Waits(d, t, r)' PROVE Waits(d, t, r)
  <2>1. CASE \E p \in pending' : p.owner = d /\ p.token = t /\ p.rid = r
    BY <1>4, <1>5, <1>6, <2>1, Zenon DEF Waits
  <2> QED BY <1>2, <1>4, <1>10, <2>1, Zenon DEF Waits, Declares
<1>11. Calm
  BY <1>1, <1>2, <1>4, CalmWhen, Zenon
<1>12. HeldUnused' /\ EntriesKeyed'
       /\ \A d \in JdcClients, t, r \in Nat : Undecided(d, t, r) => Undecided(d, t, r)'
  BY <1>11, CalmKeeps, Zenon
<1>13. AllUndecided'
  <2> SUFFICES ASSUME NEW d \in JdcClients, NEW t \in Nat, NEW r \in Nat, Waits(d, t, r)'
               PROVE  Undecided(d, t, r)'
    BY Zenon DEF AllUndecided
  <2>1. Waits(d, t, r)
    BY <1>10
  <2> QED BY <1>1, <1>12, <2>1, Zenon DEF AllUndecided
<1>14. AnswerNew' /\ OneActivating'
  BY <1>1, <1>2, <1>4, Zenon DEF AnswerNew, OneActivating
<1> QED BY <1>7, <1>8, <1>9, <1>12, <1>13, <1>14, Zenon DEF OnceInv, DeclaredOnce

\* The declaration in the loop and another one of the same client have neither
\* the token nor the request id in common.
LEMMA CurWaiting ==
  ASSUME OnceInv, CurWaits
  PROVE  /\ cur.from \in JdcClients /\ cur.token \in Nat /\ cur.rid \in Nat
         /\ Undecided(cur.from, cur.token, cur.rid)
         /\ \A t, r : Waits(cur.from, t, r) => (cur.token = t <=> cur.rid = r)
<1>1. TypeInv /\ DeclaredOnce /\ AllUndecided
  BY Zenon DEF OnceInv, SpentInv
<1>2. cur.from \in JdcClients /\ cur.token \in Nat /\ cur.rid \in Nat
  BY <1>1, CurTypes, Zenon DEF CurWaits
<1>3. Waits(cur.from, cur.token, cur.rid)
  BY Zenon DEF Waits
<1>4. Undecided(cur.from, cur.token, cur.rid)
  BY <1>1, <1>2, <1>3, Zenon DEF AllUndecided
<1>5. \A t, r : Waits(cur.from, t, r) => (cur.token = t <=> cur.rid = r)
  BY <1>1, Zenon DEF DeclaredOnce, CurApart, Apart, Waits
<1> QED BY <1>2, <1>4, <1>5, Zenon

\* The answer of Bitcoin Core is stored under the token and the request id of
\* the declaration in the loop.
LEMMA OnceStores ==
  ASSUME OnceInv, SpentInv', loop = "ipc", NEW ok,
         InsertDeclaredCustomJob(cur.from, cur.rid, cur.token, DeclaredCustomJob(ok)),
         UNCHANGED <<queue, cur, pending, sent, pool, known, tokenVars>>,
         loop' \in {"activate", "missing", "reject"}
  PROVE  OnceInv'
<1>1. TypeInv /\ DeclaredOnce /\ AllUndecided /\ HeldUnused /\ EntriesKeyed /\ OneActivating /\ Shape
  BY Zenon DEF OnceInv, SpentInv, TypeInv
<1>2. UNCHANGED <<counter, active, activating>>
  BY Zenon DEF tokenVars
<1>3. CurWaits' => CurWaits
  BY Zenon DEF CurWaits, Deciding
<1>4. ~Answers'
  BY Zenon DEF Answers
<1>5. DeclaredOnce' /\ \A d, t, r : Waits(d, t, r)' => Waits(d, t, r)
  BY <1>1, <1>3, ApartFrame, Zenon
<1>6. AnswerNew' /\ OneActivating'
  BY <1>1, <1>2, <1>4, Zenon DEF AnswerNew, OneActivating
<1> DEFINE new == [owner |-> cur.from, token |-> cur.token, rid |-> cur.rid]
<1>7. new.owner = cur.from /\ new.token = cur.token /\ new.rid = cur.rid
  BY Zenon
<1> HIDE DEF new
<1>8. \A e \in entries' : e = new \/ (e \in entries /\ ~(e.owner = cur.from /\ e.token = cur.token))
  BY Zenon DEF InsertDeclaredCustomJob, new
<1>9. /\ \A d, t : Held(d, t)' => Held(d, t)
      /\ \A d, t : InUse(d, t)' => InUse(d, t)
  BY <1>2, <1>4, Zenon DEF Held, InUse
<1>10. CASE cur.from \notin JdcClients
  <2>1. \A e \in entries' : e.owner \in JdcClients => e \in entries
    BY <1>7, <1>8, <1>10, Zenon
  <2>2. counter \in Nat /\ sent \in [Clients -> Nat]
    BY <1>1, WaitTypes
  <2>3. counter' \in Nat /\ counter <= counter'
        /\ \A d \in Clients : sent'[d] \in Nat /\ sent[d] <= sent'[d]
    BY <1>2, <2>2
  <2>4. Calm
    BY <1>9, <2>1, <2>3, Zenon DEF Calm
  <2>5. AllUndecided' /\ HeldUnused' /\ EntriesKeyed'
    BY <1>1, <1>5, <2>4, CalmKeeps, Zenon DEF AllUndecided
  <2> QED BY <1>5, <1>6, <2>5, Zenon DEF OnceInv
<1>11. CASE cur.from \in JdcClients
  <2>1. CurWaits
    BY <1>11, Zenon DEF CurWaits, Deciding
  <2>2. /\ Undecided(cur.from, cur.token, cur.rid)
        /\ \A t, r : Waits(cur.from, t, r) => (cur.token = t <=> cur.rid = r)
    BY <2>1, CurWaiting, Zenon
  <2>3. HeldUnused'
    <3> SUFFICES ASSUME NEW d \in JdcClients, NEW t \in Nat, Held(d, t)',
                        NEW e \in entries', e.owner = d
                 PROVE  e.token # t
      BY <1>1, <1>2, <1>9, Zenon DEF HeldUnused
    <3>1. CASE e = new
      BY <1>7, <1>9, <2>2, <3>1, Zenon DEF Undecided
    <3>2. CASE e \in entries
      BY <1>1, <1>9, <3>2, Zenon DEF HeldUnused
    <3> QED BY <1>8, <3>1, <3>2, Zenon
  <2>4. EntriesKeyed'
    <3> SUFFICES ASSUME NEW e \in entries', e.owner \in JdcClients
                 PROVE  /\ e.token < counter /\ e.rid < sent[e.owner]
                        /\ \A f \in entries' : f.owner = e.owner => (f.token = e.token <=> f.rid = e.rid)
      BY <1>2, Zenon DEF EntriesKeyed
    <3>1. CASE e = new
      BY <1>7, <1>8, <2>2, <3>1, Zenon DEF Undecided
    <3>2. CASE e \in entries
      <4>1. e.token < counter /\ e.rid < sent[e.owner]
        BY <1>1, <3>2, Zenon DEF EntriesKeyed
      <4>2. ASSUME NEW f \in entries', f.owner = e.owner PROVE f.token = e.token <=> f.rid = e.rid
        <5>1. CASE f = new
          BY <1>7, <2>2, <3>2, <4>2, <5>1, Zenon DEF Undecided
        <5>2. CASE f \in entries
          BY <1>1, <3>2, <4>2, <5>2, Zenon DEF EntriesKeyed
        <5> QED BY <1>8, <5>1, <5>2, Zenon
      <4> QED BY <4>1, <4>2, Zenon
    <3> QED BY <1>8, <3>1, <3>2, Zenon
  <2>5. AllUndecided'
    <3> SUFFICES ASSUME NEW d \in JdcClients, NEW t \in Nat, NEW r \in Nat, Waits(d, t, r)'
                 PROVE  Undecided(d, t, r)'
      BY Zenon DEF AllUndecided
    <3>1. Waits(d, t, r)
      BY <1>5, Zenon
    <3>2. Undecided(d, t, r)
      BY <1>1, <3>1, Zenon DEF AllUndecided
    <3>3. t < counter' /\ r < sent'[d] /\ ~Held(d, t)' /\ ~InUse(d, t)'
      BY <1>2, <1>9, <3>2, Zenon DEF Undecided
    <3>4. ASSUME NEW e \in entries', e.owner = d PROVE e.token = t <=> e.rid = r
      <4>1. CASE e = new
        BY <1>7, <2>2, <3>1, <3>4, <4>1, Zenon
      <4>2. CASE e \in entries
        BY <3>2, <3>4, <4>2, Zenon DEF Undecided
      <4> QED BY <1>8, <4>1, <4>2, Zenon
    <3> QED BY <3>3, <3>4, Zenon DEF Undecided
  <2> QED BY <1>5, <1>6, <2>3, <2>4, <2>5, Zenon DEF OnceInv
<1> QED BY <1>10, <1>11

\* Bitcoin Core answers a declaration.
LEMMA OnceValidates ==
  ASSUME OnceInv, SpentInv', IpcSuccess \/ IpcMissing
  PROVE  OnceInv'
<1>1. Shape
  BY Zenon DEF OnceInv, SpentInv, TypeInv
<1>2. /\ loop = "ipc" /\ loop' \in {"activate", "missing", "reject"}
      /\ UNCHANGED <<queue, cur, pending, sent, pool, known, tokenVars>>
  BY Zenon DEF IpcSuccess, IpcMissing, Become, LoopUnchanged, poolVars, mapVars
<1>3. \/ \E ok \in BOOLEAN : InsertDeclaredCustomJob(cur.from, cur.rid, cur.token, DeclaredCustomJob(ok))
      \/ entries' \subseteq entries
  BY Zenon DEF IpcSuccess, IpcMissing, RemoveDeclaredCustomJob
<1>4. CASE \E ok \in BOOLEAN : InsertDeclaredCustomJob(cur.from, cur.rid, cur.token, DeclaredCustomJob(ok))
  BY <1>2, <1>4, OnceStores, Zenon
<1>5. CASE entries' \subseteq entries
  <2>1. (CurWaits' => CurWaits) /\ ~Answers'
    BY <1>2, Zenon DEF CurWaits, Deciding, Answers
  <2>2. UNCHANGED <<counter, active, activating>> /\ loop # "issue"
    BY <1>2, Zenon DEF tokenVars
  <2> QED BY <1>2, <1>5, <2>1, <2>2, LoopFrame, Zenon
<1> QED BY <1>3, <1>4, <1>5, Zenon

\* activate issues the token of the declaration in the loop.
LEMMA OnceIssue ==
  ASSUME OnceInv, SpentInv', IssueActiveToken
  PROVE  OnceInv'
<1>1. TypeInv /\ DeclaredOnce /\ AllUndecided /\ HeldUnused /\ EntriesKeyed /\ OneActivating /\ Shape
  BY Zenon DEF OnceInv, SpentInv, TypeInv
<1>2. /\ loop = "issue" /\ loop' = "send"
      /\ UNCHANGED <<queue, cur, pending, sent, pool, known, entries>>
  BY Zenon DEF IssueActiveToken, Become, LoopUnchanged, poolVars, mapVars, engineVars
<1>3. PICK a \in activating :
         /\ counter' = counter + 1
         /\ active' = {b \in active : b.token # counter}
                         \cup {[token |-> counter, origin |-> a.token,
                                owner |-> a.owner, identity |-> a.identity]}
         /\ activating' = activating \ {a}
  BY Zenon DEF IssueActiveToken, TM!ActivateInsert
<1>4. a.token = cur.token /\ a.owner = cur.from
  BY <1>1, <1>3, Zenon DEF OneActivating
<1>5. OneActivating'
  <2>1. TM!OnePlace
    BY <1>1, Zenon DEF TypeInv, TokenInv
  <2>2. activating' = {}
    <3> SUFFICES ASSUME NEW c \in activating' PROVE FALSE
      OBVIOUS
    <3>1. c \in activating /\ c # a /\ c.token = cur.token
      BY <1>1, <1>3, Zenon DEF OneActivating
    <3> QED BY <1>3, <1>4, <2>1, <3>1, Zenon DEF TM!OnePlace
  <2> QED BY <2>2, Zenon DEF OneActivating
<1>6. \A d, t : InUse(d, t)' => InUse(d, t) \/ (d = cur.from /\ t = cur.token)
  <2> DEFINE new == [token |-> counter, origin |-> a.token, owner |-> a.owner,
                     identity |-> a.identity]
  <2>1. new.owner = cur.from /\ new.origin = cur.token
    BY <1>4, Zenon
  <2>2. \A b \in active' : b \in active \/ b = new
    BY <1>3, Zenon
  <2> HIDE DEF new
  <2> QED BY <1>2, <2>1, <2>2, Zenon DEF InUse
<1>7. cur.kind # "allocate"
  BY <1>1, <1>2, Zenon DEF Shape, Declaration, DeclareMessage, Resumed
<1>8. ~CurWaits' /\ ~Answers'
  BY <1>2, <1>7, Zenon DEF CurWaits, Deciding, Answers
<1>9. DeclaredOnce' /\ \A d, t, r : Waits(d, t, r)' => Waits(d, t, r)
  BY <1>1, <1>2, <1>8, ApartFrame, Zenon
<1>10. \A d, t : Held(d, t)' => Held(d, t)
  BY <1>2, <1>8, Zenon DEF Held
<1>11. /\ counter \in Nat /\ entries \subseteq [owner : Clients, token : Nat, rid : Nat]
  BY <1>1, WaitTypes, Zenon
<1>12. \A t \in Nat : t < counter => t < counter'
  BY <1>3, <1>11
<1>13. cur.from \in JdcClients => CurWaits
  BY <1>2, Zenon DEF CurWaits, Deciding
<1>14. HeldUnused'
  <2> SUFFICES ASSUME NEW d \in JdcClients, NEW t \in Nat, Held(d, t)'
               PROVE  t < counter' /\ ~InUse(d, t)' /\ \A e \in entries : e.owner = d => e.token # t
    BY <1>2, Zenon DEF HeldUnused
  <2>1. Held(d, t)
    BY <1>10, Zenon
  <2>2. t < counter' /\ ~InUse(d, t) /\ \A e \in entries : e.owner = d => e.token # t
    BY <1>1, <1>12, <2>1, Zenon DEF HeldUnused
  <2>3. ~(d = cur.from /\ t = cur.token)
    BY <1>13, <2>1, CurWaiting, Zenon DEF Undecided
  <2> QED BY <1>6, <2>2, <2>3, Zenon
<1>15. EntriesKeyed'
  BY <1>1, <1>2, <1>11, <1>12, Zenon DEF EntriesKeyed
<1>16. AllUndecided'
  <2> SUFFICES ASSUME NEW d \in JdcClients, NEW t \in Nat, NEW r \in Nat, Waits(d, t, r)'
               PROVE  Undecided(d, t, r)'
    BY Zenon DEF AllUndecided
  <2>1. Undecided(d, t, r)
    BY <1>1, <1>9, Zenon DEF AllUndecided
  <2>2. ~(d = cur.from /\ t = cur.token)
    BY <1>1, <1>2, <1>8, <1>13, Zenon DEF Waits, Declares, DeclaredOnce, CurApart, Apart
  <2>3. t < counter' /\ r < sent'[d] /\ ~InUse(d, t)' /\ ~Held(d, t)'
    BY <1>2, <1>6, <1>10, <1>12, <2>1, <2>2, Zenon DEF Undecided
  <2> QED BY <1>2, <2>1, <2>3, Zenon DEF Undecided
<1>17. AnswerNew'
  BY <1>8, Zenon DEF AnswerNew
<1> QED BY <1>5, <1>9, <1>14, <1>15, <1>16, <1>17, Zenon DEF OnceInv

\* No declaration waits before a client is connected.
LEMMA OnceInit == Init => OnceInv
<1> SUFFICES ASSUME Init PROVE OnceInv
  OBVIOUS
<1>1. /\ allocated = {} /\ activating = {} /\ active = {} /\ spent = {} /\ pool.pc = "idle"
      /\ queue = <<>> /\ pending = {} /\ entries = {} /\ known = {} /\ loop = "idle"
  BY DEF Init, TM!Init
<1>2. SpentInv
  BY <1>1, TypeInit DEF SpentInv, SpentGone, InCall
<1>3. 1..Len(queue) = {}
  BY <1>1
<1>4. ~CurWaits /\ ~Answers
  BY <1>1, Zenon DEF CurWaits, Deciding, Answers
<1>5. DeclaredOnce
  BY <1>1, <1>3, <1>4, Zenon DEF DeclaredOnce, QueueApart, PendingApart, CurApart
<1>6. \A d, t, r : ~Waits(d, t, r) /\ ~Held(d, t)
  BY <1>1, <1>3, <1>4, Zenon DEF Waits, Held
<1> QED
  BY <1>1, <1>2, <1>4, <1>5, <1>6, Zenon
     DEF OnceInv, AllUndecided, HeldUnused, EntriesKeyed, AnswerNew, OneActivating

\* The declarations of a jd-client stay apart, whatever the others send.
LEMMA OnceStep == OnceInv /\ [Next]_vars => OnceInv'
<1> SUFFICES ASSUME OnceInv, [Next]_vars PROVE OnceInv'
  OBVIOUS
<1>1. SpentInv'
  BY SpentStep, Zenon DEF OnceInv
<1>2. CASE \E d \in Clients : Connection(d)
  BY <1>1, <1>2, OnceConnection, OnceSends, Zenon DEF Connection
<1>3. CASE Receive \/ HandleMessage
  BY <1>1, <1>3, OnceReceive, OnceAllocate, OnceDecides, OnceResume, OnceValidates, OnceActivate,
     OnceIssue, OnceAwait, OnceReply, Zenon DEF HandleMessage
<1>4. CASE LookupActive \/ DeactivateToken \/ TakeDeclaredCustomJob \/ ReturnSuccess
  BY <1>1, <1>4, OncePool, Zenon
<1>5. CASE \/ ExpireAllocatedToken \/ ExpirePending \/ PruneExpiredAllocation
           \/ (\E d \in Clients : ExpireActiveToken(d))
           \/ NewBlock \/ Quiesced \/ UNCHANGED vars
  BY <1>1, <1>5, OnceJanitors, Zenon
<1> QED BY <1>2, <1>3, <1>4, <1>5, Zenon DEF Next

-----------------------------------------------------------------------------
\* A client is in the map while its task has not begun to clean up; a token is
\* activated, and the loop cleans up, only for a client that was accepted.
Presence ==
    /\ \A d \in clients : conn[d] \in {"setup", "open", "rmClient"}
    /\ \A b \in active : conn[b.owner] # "absent"
    /\ loop \in CleanupSteps \ {"rmClient"} => cur.from \notin clients

\* The engine holds a validated declaration of the client under the token.
Kept(d, t) ==
    \E e \in entries, k \in jobs :
        /\ e.owner = d /\ e.token = t
        /\ k.owner = d /\ k.rid = e.rid /\ k.validated

\* It has to, from the moment that Bitcoin Core accepted the declaration of a
\* token that is still allocated until the active token is gone.
Matters(d, t) ==
    \/ \E b \in active : b.owner = d /\ b.origin = t
    \/ /\ loop \in {"activate", "issue"} /\ cur.from = d /\ cur.token = t
       /\ loop = "activate" => TM!IsAllocated(t, d)

\* So it does for every jd-client that is connected.
Backed == \A d \in JdcClients \cap clients, t \in Nat : Matters(d, t) => Kept(d, t)

\* Whatever the engine holds under the token is the given job.
Fits(b, job) ==
    \A e \in entries, k \in jobs :
        e.owner = b.owner /\ e.token = b.origin /\ k.owner = b.owner /\ k.rid = e.rid
            => k.job = job

\* The token was granted to the identity for what the engine holds under it.
GrantOf(b, i) ==
    \E g \in granted : /\ g.token = b.token /\ g.owner = b.owner /\ g.identity = i
                       /\ Fits(b, g.job)

\* The engine holds the declaration that is being activated, not an older one.
CurJob ==
    loop \in {"activate", "issue"} /\ cur.from \in JdcClients =>
        \A k \in jobs : k.owner = cur.from /\ k.rid = cur.rid => k.job = cur.job

\* That is so of every active token of a jd-client ...
ActiveGranted ==
    \A b \in active : b.owner \in JdcClients => GrantOf(b, b.identity)

\* ... and of the one that the pool has looked up.
CallGranted ==
    pool.pc \in {"deactivate", "take"} /\ pool.tok.owner \in JdcClients =>
        GrantOf(pool.tok, pool.by)

\* What the loop, the pool and the janitors keep for a jd-client, ...
Serving == Backed /\ CurJob /\ ActiveGranted /\ CallGranted /\ JdcAcceptedAsGranted

\* ... inductive together with what was sent, cleaned up and connected.
ServedInv == OnceInv /\ CleanupInv /\ Presence /\ Serving

\* The inductive invariant says what a jd-client may rely on.
LEMMA ServedInvServes == ServedInv => JdcServed
<1> SUFFICES ASSUME ServedInv PROVE ActiveBacked
  BY Zenon DEF ServedInv, Serving, JdcServed
<1> SUFFICES ASSUME NEW b \in active, b.owner \in JdcClients \cap clients
             PROVE  \E e \in entries, k \in jobs, g \in granted :
                       /\ e.owner = b.owner /\ e.token = b.origin
                       /\ k.owner = b.owner /\ k.rid = e.rid /\ k.validated
                       /\ g.token = b.token /\ g.job = k.job
  BY Zenon DEF ActiveBacked
<1>1. TypeInv
  BY Zenon DEF ServedInv, OnceInv, SpentInv
<1>2. b.origin \in Nat
  BY <1>1, WaitTypes, Zenon DEF TM!ActiveToken
<1>3. Kept(b.owner, b.origin)
  BY <1>2, Zenon DEF ServedInv, Serving, Backed, Matters
<1>4. GrantOf(b, b.identity)
  BY Zenon DEF ServedInv, Serving, ActiveGranted
<1> QED BY <1>3, <1>4, Zenon DEF Kept, GrantOf, Fits

-----------------------------------------------------------------------------
\* Connections come once, and leave the map before anything of theirs is removed.
LEMMA PresenceStep ==
  ASSUME OnceInv, CleanupInv, CleanupInv', Presence, [Next]_vars
  PROVE  Presence'
<1>1. TypeInv /\ Shape /\ OneActivating
  BY Zenon DEF OnceInv, SpentInv, TypeInv
<1>2. /\ conn \in [Clients -> {"absent", "setup", "open", "finished", "gone"} \cup CleanupSteps]
      /\ clients \subseteq Clients
  BY <1>1, Zenon DEF TypeInv, TypeOK
<1>3. \A b \in active : b.owner \in Clients
  BY <1>1, WaitTypes, Zenon DEF TM!ActiveToken
<1>4. loop \in CleanupSteps => /\ cur.from \in Clients
                               /\ conn[cur.from] \in CleanupSteps \cup {"finished", "gone"}
  <2>1. loop \in CleanupSteps => cur.from \in Clients
    BY <1>1, Zenon DEF Shape, Answer, Declaration, DeclareMessage, Resumed, ProvideMessage
  <2> QED BY <2>1, Zenon DEF CleanupInv, OnlyLeavingDisconnected
<1>5. ASSUME UNCHANGED <<conn, loop, cur>>, clients' \subseteq clients, active' \subseteq active
      PROVE  Presence'
  BY <1>5, Zenon DEF Presence
<1>6. ASSUME NEW d \in Clients, Accept(d) PROVE Presence'
  <2>1. conn[d] = "absent" /\ clients' = clients \cup {d} /\ conn' = [conn EXCEPT ![d] = "setup"]
        /\ UNCHANGED <<active, loop, cur>>
    BY <1>6, Zenon DEF Accept, tokenVars, loopVars
  <2>2. conn'[d] = "setup" /\ \A c \in Clients : c # d => conn'[c] = conn[c]
    BY <1>2, <2>1, Zenon
  <2>3. \A c \in clients' : conn'[c] \in {"setup", "open", "rmClient"}
    BY <1>2, <2>1, <2>2, Zenon DEF Presence
  <2>4. \A b \in active' : conn'[b.owner] # "absent"
    BY <1>3, <2>1, <2>2, Zenon DEF Presence
  <2>5. loop' \in CleanupSteps \ {"rmClient"} => cur'.from \notin clients'
    BY <1>4, <2>1, Zenon DEF Presence, CleanupSteps
  <2> QED BY <2>3, <2>4, <2>5, Zenon DEF Presence
<1>7. ASSUME NEW d \in Clients, NEW next, next # "absent",
             conn' = [conn EXCEPT ![d] = next], UNCHANGED <<loop, cur>>,
             clients' \subseteq clients, active' \subseteq active,
             d \in clients' => next \in {"setup", "open", "rmClient"}
      PROVE  Presence'
  <2>1. conn'[d] = next /\ \A c \in Clients : c # d => conn'[c] = conn[c]
    BY <1>2, <1>7, Zenon
  <2> QED BY <1>2, <1>3, <1>7, <2>1, Zenon DEF Presence
<1>8. ASSUME NEW d \in Clients, SetupConnection(d) \/ Close(d) \/ Drop(d) PROVE Presence'
  <2>1. UNCHANGED <<clients, active, loop, cur>>
    BY <1>8, Zenon DEF SetupConnection, Close, Drop, mapVars, tokenVars, loopVars
  <2>2. \/ \E next \in {"open", "rmClient"} : conn' = [conn EXCEPT ![d] = next]
        \/ conn[d] = "finished" /\ conn' = [conn EXCEPT ![d] = "gone"]
    BY <1>8, Zenon DEF SetupConnection, Close, Drop
  <2>3. CASE \E next \in {"open", "rmClient"} : conn' = [conn EXCEPT ![d] = next]
    BY <1>7, <2>1, <2>3, Zenon
  <2>4. CASE conn[d] = "finished" /\ conn' = [conn EXCEPT ![d] = "gone"]
    <3>1. d \notin clients
      BY <2>4, Zenon DEF Presence
    <3> QED BY <1>7, <2>1, <2>4, <3>1, Zenon
  <2> QED BY <2>2, <2>3, <2>4, Zenon
<1>9. ASSUME NEW d \in Clients, CleanupByTask(d) PROVE Presence'
  <2>1. conn[d] \in CleanupSteps /\ conn' = [conn EXCEPT ![d] = AfterCleanup(conn[d])]
        /\ UNCHANGED <<loop, cur>>
    BY <1>9, Zenon DEF CleanupByTask, CleanupDownstream, CleanupSteps, loopVars
  <2>2. AfterCleanup(conn[d]) # "absent"
    BY <2>1 DEF AfterCleanup, CleanupSteps
  <2>3. /\ clients' \subseteq clients /\ active' \subseteq active
        /\ conn[d] = "rmClient" => d \notin clients'
    BY <1>9, Zenon DEF CleanupByTask, CleanupDownstream, RemoveClient, RemoveSender,
       RemoveEngineState, mapVars, tokenVars, TM!RemoveAllocated, TM!RemoveActive
  <2>4. d \notin clients'
    BY <2>1, <2>3, Zenon DEF Presence, CleanupSteps
  <2> QED BY <1>7, <2>1, <2>2, <2>3, <2>4, Zenon
<1>10. CASE CleanupByLoop
  <2>1. loop \in CleanupSteps /\ UNCHANGED conn
    BY <1>10, Zenon DEF CleanupByLoop, CleanupDownstream, CleanupSteps, LoopUnchanged
  <2>2. clients' \subseteq clients /\ active' \subseteq active
        /\ (loop = "rmClient" => cur.from \notin clients')
    BY <1>10, Zenon DEF CleanupByLoop, CleanupDownstream, RemoveClient, RemoveSender,
       RemoveEngineState, mapVars, tokenVars, TM!RemoveAllocated, TM!RemoveActive
  <2>3. loop' = "idle" \/ UNCHANGED cur
    BY <1>10, Zenon DEF CleanupByLoop, Finish, Become
  <2>4. cur.from \notin clients'
    BY <2>1, <2>2, Zenon DEF Presence
  <2> QED BY <2>1, <2>2, <2>3, <2>4, Zenon DEF Presence, CleanupSteps
<1>11. CASE IssueActiveToken
  <2>1. UNCHANGED <<conn, clients>> /\ loop' = "send" /\ loop = "issue"
    BY <1>11, Zenon DEF IssueActiveToken, Become, LoopUnchanged, mapVars
  <2>2. cur.kind # "none"
    BY <1>1, <2>1, Zenon DEF Shape, Declaration, DeclareMessage, Resumed
  <2>3. conn[cur.from] # "absent"
    BY <2>2, Zenon DEF CleanupInv, SentWhenOpen
  <2>4. \A b \in active' : b \in active \/ b.owner = cur.from
    <3>1. PICK a \in activating : TM!ActivateInsert(a)
      BY <1>11, Zenon DEF IssueActiveToken
    <3> DEFINE new == [token |-> counter, origin |-> a.token, owner |-> a.owner,
                       identity |-> a.identity]
    <3>2. new.owner = cur.from
      BY <1>1, Zenon DEF OneActivating
    <3> HIDE DEF new
    <3>3. active' = {b \in active : b.token # counter} \cup {new}
      BY <3>1, Zenon DEF TM!ActivateInsert, new
    <3> QED BY <3>2, <3>3, Zenon
  <2> QED BY <2>1, <2>3, <2>4, Zenon DEF Presence, CleanupSteps
<1>12. CASE \/ Receive \/ AllocateToken \/ LookupSender \/ CheckAllocated \/ TakePending
            \/ ValidateCoinbase \/ EnsureState \/ IpcSuccess \/ IpcError \/ IpcMissing \/ IpcDropped
            \/ RejectDeclaration \/ ActivateToken \/ AwaitMissing \/ SendReply
  <2>1. UNCHANGED <<conn, clients>>
    BY <1>12, Zenon DEF Receive, AllocateToken, LookupSender, CheckAllocated, TakePending,
       ValidateCoinbase, EnsureState, IpcSuccess, IpcError, IpcMissing, IpcDropped,
       RejectDeclaration, ActivateToken, AwaitMissing, SendReply, LoopUnchanged, mapVars
  <2>2. UNCHANGED active
    BY <1>12, Zenon DEF Receive, AllocateToken, LookupSender, CheckAllocated, TakePending,
       ValidateCoinbase, EnsureState, IpcSuccess, IpcError, IpcMissing, IpcDropped,
       RejectDeclaration, ActivateToken, AwaitMissing, SendReply, tokenVars, TM!Allocate,
       TM!Deallocate, TM!ActivateRemove
  <2>3. loop' \notin CleanupSteps \ {"rmClient"}
    <3>1. CASE \/ Receive \/ AllocateToken \/ CheckAllocated \/ TakePending
               \/ ValidateCoinbase \/ EnsureState \/ IpcSuccess \/ IpcError \/ IpcMissing
               \/ IpcDropped \/ RejectDeclaration \/ ActivateToken \/ AwaitMissing \/ SendReply
      BY <3>1, Zenon DEF Receive, AllocateToken, CheckAllocated, TakePending,
         ValidateCoinbase, EnsureState, IpcSuccess, IpcError, IpcMissing, IpcDropped,
         RejectDeclaration, ActivateToken, AwaitMissing, SendReply, Become, Finish, loopVars,
         CleanupSteps
    <3>2. CASE LookupSender
      <4>1. loop = "lookup"
            /\ loop' = CASE cur.from \notin senders -> "rmClient"
                         [] cur.from \in senders /\ cur.kind = "allocate" -> "send"
                         [] cur.from \in senders /\ cur.kind = "declare" -> "check"
                         [] cur.from \in senders /\ cur.kind = "provide" -> "pending"
        BY <3>2, Zenon DEF LookupSender, Become
      <4>2. cur.kind \in {"allocate", "declare", "provide"}
        BY <1>1, <4>1, Zenon DEF Shape, Answer, DeclareMessage, ProvideMessage
      <4>3. loop' \in {"rmClient", "send", "check", "pending"}
        BY <4>1, <4>2
      <4> QED BY <4>3, Zenon DEF CleanupSteps
    <3> QED BY <1>12, <3>1, <3>2, Zenon
  <2> QED BY <2>1, <2>2, <2>3, Zenon DEF Presence
<1>13. ASSUME NEW d \in Clients, SendAllocate(d) \/ SendDeclare(d) \/ SendProvide(d) \/ SendPush(d)
       PROVE  Presence'
  <2>1. UNCHANGED <<conn, loop, cur, clients, active>>
    <3>1. CASE SendAllocate(d) \/ SendPush(d)
      BY <3>1, Zenon DEF SendAllocate, SendPush, Enqueue, tokenVars, loopVars, mapVars
    <3>2. CASE SendDeclare(d)
      BY <3>2, ZenonT(30) DEF SendDeclare, Enqueue, tokenVars, loopVars, mapVars
    <3>3. CASE SendProvide(d)
      BY <3>3, Zenon DEF SendProvide, Enqueue, tokenVars, loopVars, mapVars
    <3> QED BY <1>13, <3>1, <3>2, <3>3, Zenon
  <2> QED BY <1>5, <2>1, Zenon
<1>14. CASE \/ LookupActive \/ DeactivateToken \/ TakeDeclaredCustomJob \/ ReturnSuccess
            \/ ExpireAllocatedToken \/ ExpirePending \/ PruneExpiredAllocation
            \/ (\E d \in Clients : ExpireActiveToken(d))
            \/ NewBlock \/ Quiesced \/ UNCHANGED vars
  <2>1. UNCHANGED <<conn, loop, cur, clients>>
    BY <1>14, Zenon DEF LookupActive, DeactivateToken, TakeDeclaredCustomJob, ReturnSuccess,
       PoolUnchanged, ExpireAllocatedToken, ExpirePending, PruneExpiredAllocation,
       ExpireActiveToken, JanitorUnchanged, NewBlock, Quiesced, vars, mapVars, loopVars
  <2>2. active' \subseteq active
    BY <1>14, Zenon DEF LookupActive, DeactivateToken, TakeDeclaredCustomJob, ReturnSuccess,
       ExpireAllocatedToken, ExpirePending, PruneExpiredAllocation, ExpireActiveToken,
       NewBlock, Quiesced, vars, tokenVars, TM!Deactivate, TM!ExpireAllocated, TM!ExpireActive
  <2> QED BY <1>5, <2>1, <2>2, Zenon
<1> QED
  BY <1>6, <1>8, <1>9, <1>10, <1>11, <1>12, <1>13, <1>14, Zenon DEF Next, Connection, HandleMessage

-----------------------------------------------------------------------------
\* A grant stays what it is while the engine only forgets.
LEMMA GrantsStay ==
  ASSUME entries' \subseteq entries, jobs' \subseteq jobs, granted \subseteq granted'
  PROVE  \A b, i : GrantOf(b, i) => GrantOf(b, i)'
BY Zenon DEF GrantOf, Fits

\* A step that activates nothing and calls nothing.
LEMMA GrantFrame ==
  ASSUME Serving, Backed', UNCHANGED pool, granted \subseteq granted', active' \subseteq active,
         jobs' \subseteq jobs, entries' \subseteq entries,
         loop' \in {"activate", "issue"} => loop \in {"activate", "issue"} /\ UNCHANGED cur
  PROVE  Serving'
<1>1. \A b, i : GrantOf(b, i) => GrantOf(b, i)'
  BY GrantsStay, Zenon
<1>2. ActiveGranted'
  BY <1>1, Zenon DEF Serving, ActiveGranted
<1>3. CallGranted'
  <2> SUFFICES ASSUME pool.pc \in {"deactivate", "take"}, pool.tok.owner \in JdcClients
               PROVE  GrantOf(pool.tok, pool.by)'
    BY Zenon DEF CallGranted
  <2>1. GrantOf(pool.tok, pool.by)
    BY Zenon DEF Serving, CallGranted
  <2>2. PICK b, i : b = pool.tok /\ i = pool.by
    OBVIOUS
  <2>3. GrantOf(b, i)'
    BY <1>1, <2>1, <2>2, Zenon
  <2>4. b = pool'.tok /\ i = pool'.by
    BY <2>2, Zenon
  <2> QED BY <2>3, <2>4, Zenon
<1>4. CurJob'
  BY Zenon DEF Serving, CurJob
<1>5. JdcAcceptedAsGranted'
  BY Zenon DEF Serving, JdcAcceptedAsGranted, MatchesGrant
<1> QED BY <1>2, <1>3, <1>4, <1>5 DEF Serving

\* A declaration comes to matter only when Bitcoin Core answers.
LEMMA MattersFrame ==
  ASSUME active' \subseteq active,
         loop' \in {"activate", "issue"} =>
            /\ UNCHANGED <<loop, cur>>
            /\ allocated' \subseteq allocated
  PROVE  \A d, t : Matters(d, t)' => Matters(d, t)
<1> SUFFICES ASSUME NEW d, NEW t, Matters(d, t)' PROVE Matters(d, t)
  BY Zenon
<1>1. CASE \E b \in active' : b.owner = d /\ b.origin = t
  BY <1>1, Zenon DEF Matters
<1>2. CASE /\ loop' \in {"activate", "issue"} /\ cur'.from = d /\ cur'.token = t
           /\ loop' = "activate" => TM!IsAllocated(t, d)'
  <2>1. TM!IsAllocated(t, d)' => TM!IsAllocated(t, d)
    BY <1>2, Zenon DEF TM!IsAllocated
  <2> QED BY <1>2, <2>1, Zenon DEF Matters
<1> QED BY <1>1, <1>2, Zenon DEF Matters

\* What the engine keeps depends on its tables only.
LEMMA KeptStays ==
  ASSUME UNCHANGED <<entries, jobs>>
  PROVE  \A d, t : Kept(d, t) => Kept(d, t)'
BY Zenon DEF Kept

\* A step that leaves the engine's tables alone.
LEMMA PlainFrame ==
  ASSUME Serving, UNCHANGED <<pool, entries, jobs, granted>>, active' \subseteq active,
         clients' \subseteq clients,
         loop' \in {"activate", "issue"} =>
            /\ UNCHANGED <<loop, cur>>
            /\ allocated' \subseteq allocated
  PROVE  Serving'
<1>1. \A d, t : Matters(d, t)' => Matters(d, t)
  BY MattersFrame, Zenon
<1>2. \A d, t : Kept(d, t) => Kept(d, t)'
  BY KeptStays, Zenon
<1>3. Backed'
  <2> SUFFICES ASSUME NEW d \in JdcClients \cap clients', NEW t \in Nat, Matters(d, t)'
               PROVE  Kept(d, t)'
    BY Zenon DEF Backed
  <2>1. Matters(d, t) /\ d \in JdcClients \cap clients
    BY <1>1, Zenon
  <2> QED BY <1>2, <2>1, Zenon DEF Serving, Backed
<1> QED BY <1>3, GrantFrame, Zenon

\* A step that forgets only what does not matter to a connected jd-client.
LEMMA ForgetFrame ==
  ASSUME Serving, UNCHANGED <<pool, granted>>, active' \subseteq active,
         clients' \subseteq clients, entries' \subseteq entries, jobs' \subseteq jobs,
         loop' \in {"activate", "issue"} =>
            /\ UNCHANGED <<loop, cur>>
            /\ allocated' \subseteq allocated,
         \A d \in JdcClients \cap clients, t \in Nat : Matters(d, t)' =>
            \A e \in entries, k \in jobs :
               e.owner = d /\ e.token = t /\ k.owner = d /\ k.rid = e.rid =>
                  e \in entries' /\ k \in jobs'
  PROVE  Serving'
<1>1. \A d, t : Matters(d, t)' => Matters(d, t)
  BY MattersFrame, Zenon
<1>2. Backed'
  <2> SUFFICES ASSUME NEW d \in JdcClients \cap clients', NEW t \in Nat, Matters(d, t)'
               PROVE  Kept(d, t)'
    BY Zenon DEF Backed
  <2>1. Kept(d, t)
    BY <1>1, Zenon DEF Serving, Backed
  <2>2. PICK e \in entries, k \in jobs : /\ e.owner = d /\ e.token = t
                                         /\ k.owner = d /\ k.rid = e.rid /\ k.validated
    BY <2>1, Zenon DEF Kept
  <2>3. e \in entries' /\ k \in jobs'
    BY <2>2, Zenon
  <2> QED BY <2>2, <2>3, Zenon DEF Kept
<1> QED BY <1>2, GrantFrame, Zenon

-----------------------------------------------------------------------------
\* A cleanup removes the engine's tables of a client that is not in the map.
LEMMA ServingCleanup ==
  ASSUME Serving, NEW step, NEW d, CleanupDownstream(step, d),
         step # "rmClient" => d \notin clients, UNCHANGED <<pool, granted>>,
         loop' \in {"activate", "issue"} => UNCHANGED <<loop, cur>>
  PROVE  Serving'
<1>1. /\ active' \subseteq active /\ clients' \subseteq clients
      /\ entries' \subseteq entries /\ jobs' \subseteq jobs
  BY Zenon DEF CleanupDownstream, RemoveClient, RemoveSender, RemoveEngineState, mapVars,
     tokenVars, engineVars, TM!RemoveAllocated, TM!RemoveActive
<1>2. allocated' \subseteq allocated
  BY Zenon DEF CleanupDownstream, RemoveClient, RemoveSender, RemoveEngineState,
     tokenVars, TM!RemoveAllocated, TM!RemoveActive
<1>3. ASSUME NEW c \in clients, NEW e \in entries, NEW k \in jobs, e.owner = c, k.owner = c
      PROVE  e \in entries' /\ k \in jobs'
  <2>1. CASE step = "rmEngine"
    <3>1. d \notin clients
      BY <2>1
    <3>2. /\ jobs' = {j \in jobs : j.owner # d}
          /\ entries' = {x \in entries : x.owner # d}
      BY <2>1 DEF CleanupDownstream, RemoveEngineState
    <3> QED BY <1>3, <3>1, <3>2, Zenon
  <2>2. CASE step # "rmEngine"
    <3>1. UNCHANGED <<jobs, entries>>
      BY <2>2, Zenon DEF CleanupDownstream, RemoveClient, RemoveSender, engineVars
    <3> QED BY <1>3, <3>1, Zenon
  <2> QED BY <2>1, <2>2
<1> QED BY <1>1, <1>2, <1>3, ForgetFrame, Zenon

\* Only a connection without active tokens comes back into the map.
LEMMA ServingConnection ==
  ASSUME OnceInv, CleanupInv, Presence, Serving, NEW d \in Clients,
         Accept(d) \/ SetupConnection(d) \/ Close(d) \/ Drop(d) \/ CleanupByTask(d)
  PROVE  Serving'
<1>1. CASE CleanupByTask(d)
  <2>1. CleanupDownstream(conn[d], d) /\ UNCHANGED <<pool, granted, loop, cur>>
    BY <1>1, Zenon DEF CleanupByTask, poolVars, loopVars, history
  <2>2. conn[d] \in CleanupSteps
    BY <2>1, Zenon DEF CleanupDownstream, CleanupSteps
  <2>3. conn[d] # "rmClient" => d \notin clients
    BY <2>2, Zenon DEF Presence, CleanupSteps
  <2> QED BY <2>1, <2>3, ServingCleanup, Zenon
<1>2. CASE SetupConnection(d) \/ Close(d) \/ Drop(d)
  <2>1. UNCHANGED <<pool, entries, jobs, granted, active, clients, loop, cur, allocated>>
    BY <1>2, Zenon DEF SetupConnection, Close, Drop, tokenVars, mapVars, engineVars, loopVars,
       poolVars, history
  <2> QED BY <2>1, PlainFrame, Zenon
<1>3. CASE Accept(d)
  <2>1. /\ UNCHANGED <<pool, entries, jobs, granted, active, loop, cur, allocated>>
        /\ conn[d] = "absent" /\ clients' = clients \cup {d}
    BY <1>3, Zenon DEF Accept, tokenVars, mapVars, engineVars, loopVars, poolVars, history
  <2>2. \A c, t : Matters(c, t)' => Matters(c, t)
    BY <2>1, MattersFrame, Zenon
  <2>3. Shape
    BY Zenon DEF OnceInv, SpentInv, TypeInv
  <2>4. loop \in {"activate", "issue"} => cur.from # d
    <3>1. loop \in {"activate", "issue"} => cur.kind # "none"
      BY <2>3, Zenon DEF Shape, Declaration, DeclareMessage, Resumed
    <3> QED BY <2>1, <3>1, Zenon DEF CleanupInv, SentWhenOpen
  <2>5. \A t : ~Matters(d, t)
    BY <2>1, <2>4, Zenon DEF Matters, Presence
  <2>6. Backed'
    <3> SUFFICES ASSUME NEW c \in JdcClients \cap clients', NEW t \in Nat, Matters(c, t)'
                 PROVE  Kept(c, t)'
      BY Zenon DEF Backed
    <3>1. Matters(c, t) /\ c # d
      BY <2>2, <2>5, Zenon
    <3>2. Kept(c, t)
      BY <2>1, <3>1, Zenon DEF Serving, Backed
    <3> QED BY <2>1, <3>2, KeptStays, Zenon
  <2> QED BY <2>1, <2>6, GrantFrame, Zenon
<1> QED BY <1>1, <1>2, <1>3, Zenon

\* Janitors, blocks and the end: an entry that matters is recent.
LEMMA ServingJanitors ==
  ASSUME OnceInv, Serving,
         \/ ExpireAllocatedToken \/ ExpirePending \/ PruneExpiredAllocation
         \/ (\E d \in Clients : ExpireActiveToken(d))
         \/ NewBlock \/ Quiesced \/ UNCHANGED vars
  PROVE  Serving'
<1>1. CASE PruneExpiredAllocation
  <2>1. PICK x \in entries : /\ ~Recent(x)
                             /\ entries' = entries \ {x}
                             /\ jobs' = {k \in jobs : ~(k.owner = x.owner /\ k.rid = x.rid)}
    BY <1>1, Zenon DEF PruneExpiredAllocation
  <2>2. UNCHANGED <<pool, granted, active, clients, loop, cur, allocated>>
    BY <1>1, Zenon DEF PruneExpiredAllocation, JanitorUnchanged, tokenVars, loopVars, poolVars,
       history
  <2>3. entries' \subseteq entries /\ jobs' \subseteq jobs
    BY <2>1, Zenon
  <2>4. \A d, t : Matters(d, t)' => Matters(d, t)
    BY <2>2, MattersFrame, Zenon
  <2>5. ASSUME NEW d \in JdcClients, NEW t, Matters(d, t)', NEW e \in entries, NEW k \in jobs,
               e.owner = d, e.token = t, k.owner = d, k.rid = e.rid
        PROVE  e \in entries' /\ k \in jobs'
    <3>1. Matters(d, t)
      BY <2>4, <2>5, Zenon
    <3>2. \/ \E b \in active : b.origin = t
          \/ loop \in {"activate", "issue"} /\ cur.token = t
      BY <3>1, Zenon DEF Matters
    <3>3. x.token # e.token
      BY <2>1, <2>5, <3>2, Zenon DEF Recent
    <3>4. x.owner = d => x.rid # e.rid
      BY <2>5, <3>3, Zenon DEF OnceInv, EntriesKeyed
    <3> QED BY <2>1, <2>5, <3>3, <3>4, Zenon
  <2> QED BY <2>2, <2>3, <2>5, ForgetFrame, Zenon
<1>2. CASE \/ ExpireAllocatedToken \/ ExpirePending
           \/ (\E d \in Clients : ExpireActiveToken(d))
           \/ NewBlock \/ Quiesced \/ UNCHANGED vars
  <2>1. UNCHANGED <<pool, granted, clients, loop, cur, entries, jobs>>
    BY <1>2, Zenon DEF ExpireAllocatedToken, ExpirePending, ExpireActiveToken, JanitorUnchanged,
       NewBlock, Quiesced, vars, mapVars, engineVars, loopVars, poolVars, history
  <2>2. active' \subseteq active /\ allocated' \subseteq allocated
    BY <1>2, Zenon DEF ExpireAllocatedToken, ExpirePending, ExpireActiveToken, NewBlock,
       Quiesced, vars, tokenVars, TM!ExpireAllocated, TM!ExpireActive
  <2> QED BY <2>1, <2>2, PlainFrame, Zenon
<1> QED BY <1>1, <1>2, Zenon

-----------------------------------------------------------------------------
\* The pool's call: what it finds was granted, and it takes nothing else.
LEMMA ServingPool ==
  ASSUME OnceInv, Serving,
         LookupActive \/ DeactivateToken \/ TakeDeclaredCustomJob \/ ReturnSuccess
  PROVE  Serving'
<1>1. UNCHANGED <<granted, clients, loop, cur, allocated>>
  <2>1. PoolUnchanged
    BY Zenon DEF LookupActive, DeactivateToken, TakeDeclaredCustomJob, ReturnSuccess
  <2>2. UNCHANGED allocated
    BY Zenon DEF LookupActive, DeactivateToken, TakeDeclaredCustomJob, ReturnSuccess, tokenVars,
       TM!Deactivate
  <2> QED BY <2>1, <2>2, Zenon DEF PoolUnchanged, mapVars, loopVars, history
<1>2. active' \subseteq active /\ entries' \subseteq entries /\ jobs' \subseteq jobs
  <2>1. active' \subseteq active
    BY Zenon DEF LookupActive, DeactivateToken, TakeDeclaredCustomJob, ReturnSuccess,
       tokenVars, TM!Deactivate
  <2>2. CASE TakeDeclaredCustomJob
    <3> DEFINE entry == {e \in entries : e.owner = pool.tok.owner /\ e.token = pool.tok.origin}
               taken == {k \in jobs : k.owner = pool.tok.owner /\ \E e \in entry : k.rid = e.rid}
    <3>1. entries' = entries \ entry /\ jobs' = jobs \ taken
      BY <2>2, Zenon DEF TakeDeclaredCustomJob
    <3> HIDE DEF entry, taken
    <3> QED BY <2>1, <3>1, Zenon
  <2>3. CASE LookupActive \/ DeactivateToken \/ ReturnSuccess
    <3>1. UNCHANGED <<entries, jobs>>
      BY <2>3, Zenon DEF LookupActive, DeactivateToken, ReturnSuccess, engineVars
    <3> QED BY <2>1, <3>1, Zenon
  <2> QED BY <2>2, <2>3, Zenon
<1>3. \A b, i : GrantOf(b, i) => GrantOf(b, i)'
  BY <1>1, <1>2, GrantsStay, Zenon
<1>4. \A d, t : Matters(d, t)' => Matters(d, t)
  BY <1>1, <1>2, MattersFrame, Zenon
<1>5. ActiveGranted' /\ CurJob'
  BY <1>1, <1>2, <1>3, Zenon DEF Serving, ActiveGranted, CurJob
<1>6. CASE LookupActive
  <2>1. UNCHANGED <<entries, jobs>> /\ pool.pc = "idle"
    BY <1>6, Zenon DEF LookupActive, engineVars
  <2>2. Backed'
    BY <1>1, <1>4, <2>1, KeptStays, Zenon DEF Serving, Backed
  <2>3. \/ UNCHANGED pool
        \/ \E b \in active, i \in Identities :
              b.identity = i /\ pool' = [pc |-> "deactivate", tok |-> b, by |-> i]
    BY <1>6, Zenon DEF LookupActive, TM!AllocatedFromActive
  <2>4. CASE UNCHANGED pool
    BY <1>1, <1>2, <2>2, <2>4, GrantFrame, Zenon
  <2>5. CASE \E b \in active, i \in Identities :
                b.identity = i /\ pool' = [pc |-> "deactivate", tok |-> b, by |-> i]
    <3>1. PICK b \in active : pool' = [pc |-> "deactivate", tok |-> b, by |-> b.identity]
      BY <2>5, Zenon
    <3>2. pool'.pc = "deactivate" /\ pool'.tok = b /\ pool'.by = b.identity
      BY <3>1
    <3>3. PICK i : i = b.identity
      OBVIOUS
    <3>4. b.owner \in JdcClients => GrantOf(b, i)'
      BY <1>3, <3>3, Zenon DEF Serving, ActiveGranted
    <3>5. CallGranted'
      BY <3>2, <3>3, <3>4, Zenon DEF CallGranted
    <3>6. JdcAcceptedAsGranted'
      BY <3>2, Zenon DEF JdcAcceptedAsGranted
    <3> QED BY <1>5, <2>2, <3>5, <3>6, Zenon DEF Serving
  <2> QED BY <2>3, <2>4, <2>5, Zenon
<1>7. CASE DeactivateToken
  <2>1. UNCHANGED <<entries, jobs>> /\ pool.pc = "deactivate" /\ pool' = [pool EXCEPT !.pc = "take"]
    BY <1>7, Zenon DEF DeactivateToken, engineVars
  <2>2. Backed'
    BY <1>1, <1>4, <2>1, KeptStays, Zenon DEF Serving, Backed
  <2>3. pool'.pc = "take" /\ pool'.tok = pool.tok /\ pool'.by = pool.by
    <3>1. TypeOK
      BY Zenon DEF OnceInv, SpentInv, TypeInv
    <3> QED BY <2>1, <3>1 DEF TypeOK
  <2>4. PICK b, i : b = pool.tok /\ i = pool.by
    OBVIOUS
  <2>5. b.owner \in JdcClients => GrantOf(b, i)
    BY <2>1, <2>4, Zenon DEF Serving, CallGranted
  <2>6. b.owner \in JdcClients => GrantOf(b, i)'
    BY <1>3, <2>5, Zenon
  <2>7. CallGranted'
    BY <2>3, <2>4, <2>6, Zenon DEF CallGranted
  <2>8. JdcAcceptedAsGranted'
    BY <2>3, Zenon DEF JdcAcceptedAsGranted
  <2> QED BY <1>5, <2>2, <2>7, <2>8, Zenon DEF Serving
<1>8. CASE ReturnSuccess
  <2>1. UNCHANGED <<entries, jobs>> /\ pool' = [pc |-> "idle"]
    BY <1>8, Zenon DEF ReturnSuccess, engineVars
  <2>2. Backed'
    BY <1>1, <1>4, <2>1, KeptStays, Zenon DEF Serving, Backed
  <2>3. CallGranted' /\ JdcAcceptedAsGranted'
    BY <2>1 DEF CallGranted, JdcAcceptedAsGranted
  <2> QED BY <1>5, <2>2, <2>3, Zenon DEF Serving
<1>9. CASE TakeDeclaredCustomJob
  <2> DEFINE entry == {e \in entries : e.owner = pool.tok.owner /\ e.token = pool.tok.origin}
             taken == {k \in jobs : k.owner = pool.tok.owner /\ \E e \in entry : k.rid = e.rid}
  <2>1. pool.pc = "take" /\ entries' = entries \ entry /\ jobs' = jobs \ taken
    BY <1>9, Zenon DEF TakeDeclaredCustomJob
  <2>2. \/ pool' = [pc |-> "idle"]
        \/ \E job \in Jobs, prev \in 0..tip, k \in taken :
              /\ k.validated /\ k.job = job
              /\ pool' = [pc |-> "accepted", tok |-> pool.tok, by |-> pool.by,
                          job |-> job, prev |-> prev]
    BY <1>9, Zenon DEF TakeDeclaredCustomJob
  <2>3. ASSUME NEW d \in JdcClients, NEW t, Matters(d, t)'
        PROVE  ~(pool.tok.owner = d /\ pool.tok.origin = t)
    <3>1. Matters(d, t)
      BY <1>4, <2>3, Zenon
    <3>2. CASE \E b \in active : b.owner = d /\ b.origin = t
      BY <2>1, <3>2, Zenon DEF OnceInv, SpentInv, InCall
    <3>3. CASE loop \in {"activate", "issue"} /\ cur.from = d /\ cur.token = t
      <4>1. CurWaits
        BY <3>3, Zenon DEF CurWaits, Deciding
      <4>2. ~InUse(d, t)
        BY <3>3, <4>1, CurWaiting, Zenon DEF Undecided
      <4> QED BY <2>1, <4>2, Zenon DEF InUse
    <3> QED BY <3>1, <3>2, <3>3, Zenon DEF Matters
  <2>4. Backed'
    <3> SUFFICES ASSUME NEW d \in JdcClients \cap clients, NEW t \in Nat, Matters(d, t)'
                 PROVE  Kept(d, t)'
      BY <1>1, Zenon DEF Backed
    <3>1. Kept(d, t) /\ ~(pool.tok.owner = d /\ pool.tok.origin = t)
      BY <1>4, <2>3, Zenon DEF Serving, Backed
    <3>2. PICK e \in entries, k \in jobs : /\ e.owner = d /\ e.token = t
                                           /\ k.owner = d /\ k.rid = e.rid /\ k.validated
      BY <3>1, Zenon DEF Kept
    <3>3. e \in entries'
      BY <2>1, <3>1, <3>2, Zenon
    <3>4. \A f \in entry : f.owner = d => f.rid # e.rid
      BY <3>1, <3>2, Zenon DEF OnceInv, EntriesKeyed
    <3>5. k \in jobs'
      BY <2>1, <3>2, <3>4, Zenon
    <3> QED BY <3>2, <3>3, <3>5, Zenon DEF Kept
  <2>5. CASE pool' = [pc |-> "idle"]
    <3>1. CallGranted' /\ JdcAcceptedAsGranted'
      BY <2>5 DEF CallGranted, JdcAcceptedAsGranted
    <3> QED BY <1>5, <2>4, <3>1, Zenon DEF Serving
  <2>6. ASSUME NEW job \in Jobs, NEW prev \in 0..tip, NEW k \in taken,
               k.validated, k.job = job,
               pool' = [pc |-> "accepted", tok |-> pool.tok, by |-> pool.by,
                        job |-> job, prev |-> prev]
        PROVE  Serving'
    <3>1. pool'.pc = "accepted" /\ pool'.tok = pool.tok /\ pool'.by = pool.by /\ pool'.job = k.job
      BY <2>6, Zenon
    <3>2. CallGranted'
      BY <3>1, Zenon DEF CallGranted
    <3>3. ASSUME pool.tok.owner \in JdcClients
          PROVE  \E g \in granted : /\ g.token = pool.tok.token /\ g.owner = pool.tok.owner
                                    /\ g.identity = pool.by /\ g.job = k.job
      <4>1. PICK g \in granted : /\ g.token = pool.tok.token /\ g.owner = pool.tok.owner
                                 /\ g.identity = pool.by /\ Fits(pool.tok, g.job)
        BY <2>1, <3>3, Zenon DEF Serving, CallGranted, GrantOf
      <4>2. g.job = k.job
        BY <4>1, Zenon DEF Fits
      <4> QED BY <4>1, <4>2, Zenon
    <3>4. JdcAcceptedAsGranted'
      BY <1>1, <3>1, <3>3, Zenon DEF JdcAcceptedAsGranted, MatchesGrant
    <3> QED BY <1>5, <2>4, <3>2, <3>4, Zenon DEF Serving
  <2> QED BY <2>2, <2>5, <2>6, Zenon
<1> QED BY <1>6, <1>7, <1>8, <1>9, Zenon

-----------------------------------------------------------------------------
\* A declaration is stored beside everything that matters.
LEMMA ServingStores ==
  ASSUME OnceInv, Serving, loop = "ipc", NEW ok \in BOOLEAN,
         InsertDeclaredCustomJob(cur.from, cur.rid, cur.token, DeclaredCustomJob(ok)),
         UNCHANGED <<cur, pool, granted, clients, tokenVars>>,
         (loop' = "activate" /\ ok) \/ loop' \in {"missing", "reject"}
  PROVE  Serving'
<1>1. TypeInv /\ EntriesKeyed
  BY Zenon DEF OnceInv, SpentInv
<1>2. UNCHANGED <<active, allocated>>
  BY Zenon DEF tokenVars
<1> DEFINE new == [owner |-> cur.from, token |-> cur.token, rid |-> cur.rid]
           dec == DeclaredCustomJob(ok)
<1>3. /\ new.owner = cur.from /\ new.token = cur.token /\ new.rid = cur.rid
      /\ dec.owner = cur.from /\ dec.rid = cur.rid /\ dec.job = cur.job /\ dec.validated = ok
  BY Zenon DEF DeclaredCustomJob
<1> HIDE DEF new, dec
<1>4. /\ entries' = {e \in entries : ~(e.owner = cur.from /\ e.token = cur.token)} \cup {new}
      /\ jobs' = {k \in jobs : ~(k.owner = cur.from /\ k.rid = cur.rid)} \cup {dec}
  BY Zenon DEF InsertDeclaredCustomJob, new, dec
<1>5. cur.from \in JdcClients => Undecided(cur.from, cur.token, cur.rid)
  <2>1. cur.from \in JdcClients => CurWaits
    BY Zenon DEF CurWaits, Deciding
  <2> QED BY <2>1, CurWaiting, Zenon
\* The tokens in use are others.
<1>6. ASSUME NEW d \in JdcClients, NEW t, InUse(d, t), NEW e \in entries', e.owner = d, e.token = t
      PROVE  e \in entries /\ ~(d = cur.from /\ e.rid = cur.rid)
  <2>1. e # new
    BY <1>3, <1>5, <1>6, Zenon DEF Undecided
  <2>2. e \in entries /\ ~(e.owner = cur.from /\ e.token = cur.token)
    BY <1>4, <2>1, Zenon
  <2> QED BY <1>5, <1>6, <2>2, Zenon DEF Undecided
<1>7. ASSUME NEW b, NEW i, b.owner \in JdcClients, InUse(b.owner, b.origin), GrantOf(b, i)
      PROVE  GrantOf(b, i)'
  <2>1. PICK g \in granted : /\ g.token = b.token /\ g.owner = b.owner /\ g.identity = i
                             /\ Fits(b, g.job)
    BY <1>7, Zenon DEF GrantOf
  <2>2. ASSUME NEW e \in entries', NEW k \in jobs', e.owner = b.owner, e.token = b.origin,
               k.owner = b.owner, k.rid = e.rid
        PROVE  k.job = g.job
    <3>1. e \in entries /\ ~(b.owner = cur.from /\ e.rid = cur.rid)
      BY <1>6, <1>7, <2>2, Zenon
    <3>2. k # dec
      BY <1>3, <2>2, <3>1, Zenon
    <3>3. k \in jobs
      BY <1>4, <3>2, Zenon
    <3> QED BY <2>1, <2>2, <3>1, <3>3, Zenon DEF Fits
  <2> QED BY <2>1, <2>2, Zenon DEF GrantOf, Fits
<1>8. ActiveGranted'
  <2> SUFFICES ASSUME NEW b \in active, b.owner \in JdcClients PROVE GrantOf(b, b.identity)'
    BY <1>2, Zenon DEF ActiveGranted
  <2>1. InUse(b.owner, b.origin) /\ GrantOf(b, b.identity)
    BY Zenon DEF InUse, Serving, ActiveGranted
  <2> QED BY <1>7, <2>1, Zenon
<1>9. CallGranted'
  <2> SUFFICES ASSUME pool.pc \in {"deactivate", "take"}, pool.tok.owner \in JdcClients
               PROVE  GrantOf(pool.tok, pool.by)'
    BY Zenon DEF CallGranted
  <2>1. InUse(pool.tok.owner, pool.tok.origin) /\ GrantOf(pool.tok, pool.by)
    BY Zenon DEF InUse, Serving, CallGranted
  <2>2. PICK b, i : b = pool.tok /\ i = pool.by
    OBVIOUS
  <2>3. GrantOf(b, i)'
    BY <1>7, <2>1, <2>2, Zenon
  <2>4. b = pool'.tok /\ i = pool'.by
    BY <2>2, Zenon
  <2> QED BY <2>3, <2>4, Zenon
<1>10. CurJob'
  <2>1. \A k \in jobs' : k.owner = cur.from /\ k.rid = cur.rid => k.job = cur.job
    BY <1>3, <1>4, Zenon
  <2> QED BY <2>1, Zenon DEF CurJob
<1>11. JdcAcceptedAsGranted'
  BY Zenon DEF Serving, JdcAcceptedAsGranted, MatchesGrant
<1>12. Backed'
  <2> SUFFICES ASSUME NEW d \in JdcClients \cap clients, NEW t \in Nat, Matters(d, t)'
               PROVE  Kept(d, t)'
    BY Zenon DEF Backed
  <2>1. CASE loop' = "activate" /\ ok /\ d = cur.from /\ t = cur.token
    <3>1. new \in entries' /\ dec \in jobs'
      BY <1>4, Zenon
    <3> QED BY <1>3, <2>1, <3>1, Zenon DEF Kept
  <2>2. CASE \E b \in active : b.owner = d /\ b.origin = t
    <3>1. Matters(d, t) /\ InUse(d, t)
      BY <2>2, Zenon DEF Matters, InUse
    <3>2. Kept(d, t)
      BY <3>1, Zenon DEF Serving, Backed
    <3>3. PICK e \in entries, k \in jobs : /\ e.owner = d /\ e.token = t
                                           /\ k.owner = d /\ k.rid = e.rid /\ k.validated
      BY <3>2, Zenon DEF Kept
    <3>4. ~(d = cur.from /\ t = cur.token)
      BY <1>5, <3>1, Zenon DEF Undecided
    <3>5. e \in entries'
      BY <1>4, <3>3, <3>4, Zenon
    <3>6. ~(d = cur.from /\ e.rid = cur.rid)
      BY <1>6, <3>1, <3>3, <3>5, Zenon
    <3>7. k \in jobs'
      BY <1>4, <3>3, <3>6, Zenon
    <3> QED BY <3>3, <3>5, <3>7, Zenon DEF Kept
  <2>3. \/ \E b \in active : b.owner = d /\ b.origin = t
        \/ loop' \in {"activate", "issue"} /\ cur.from = d /\ cur.token = t
    BY <1>2, Zenon DEF Matters
  <2> QED BY <2>1, <2>2, <2>3, Zenon
<1> QED BY <1>8, <1>9, <1>10, <1>11, <1>12 DEF Serving

\* What is removed with a rejected declaration is its own.
LEMMA ServingRemoves ==
  ASSUME OnceInv, Serving, loop = "ipc", RemoveDeclaredCustomJob(cur.from, cur.rid, cur.token),
         UNCHANGED <<cur, pool, granted, clients, tokenVars>>, loop' = "reject"
  PROVE  Serving'
<1>1. UNCHANGED <<active, allocated>>
  BY Zenon DEF tokenVars
<1>2. /\ entries' = {e \in entries : ~(e.owner = cur.from /\ e.token = cur.token)}
      /\ jobs' = {k \in jobs : ~(k.owner = cur.from /\ k.rid = cur.rid)}
  BY Zenon DEF RemoveDeclaredCustomJob
<1>3. entries' \subseteq entries /\ jobs' \subseteq jobs
  BY <1>2, Zenon
<1>4. cur.from \in JdcClients => Undecided(cur.from, cur.token, cur.rid)
  <2>1. cur.from \in JdcClients => CurWaits
    BY Zenon DEF CurWaits, Deciding
  <2> QED BY <2>1, CurWaiting, Zenon
<1>5. ASSUME NEW d \in JdcClients, NEW t, Matters(d, t)', NEW e \in entries, NEW k \in jobs,
             e.owner = d, e.token = t, k.owner = d, k.rid = e.rid
      PROVE  e \in entries' /\ k \in jobs'
  <2>1. InUse(d, t)
    BY <1>1, <1>5, Zenon DEF Matters, InUse
  <2>2. d = cur.from => t # cur.token /\ e.rid # cur.rid
    BY <1>4, <1>5, <2>1, Zenon DEF Undecided
  <2> QED BY <1>2, <1>5, <2>2, Zenon
<1> QED BY <1>1, <1>3, <1>5, ForgetFrame, Zenon

\* Bitcoin Core answers a declaration, or does not.
LEMMA ServingValidates ==
  ASSUME OnceInv, Serving, IpcSuccess \/ IpcError \/ IpcMissing \/ IpcDropped
  PROVE  Serving'
<1>1. loop = "ipc" /\ UNCHANGED <<cur, pool, granted, clients, tokenVars>>
  BY Zenon DEF IpcSuccess, IpcError, IpcMissing, IpcDropped, Become, LoopUnchanged, poolVars,
     mapVars
<1>2. \/ /\ InsertDeclaredCustomJob(cur.from, cur.rid, cur.token, DeclaredCustomJob(TRUE))
         /\ loop' = "activate"
      \/ /\ InsertDeclaredCustomJob(cur.from, cur.rid, cur.token, DeclaredCustomJob(FALSE))
         /\ loop' \in {"missing", "reject"}
      \/ RemoveDeclaredCustomJob(cur.from, cur.rid, cur.token) /\ loop' = "reject"
      \/ UNCHANGED <<jobs, entries>> /\ loop' = "reject"
  BY Zenon DEF IpcSuccess, IpcError, IpcMissing, IpcDropped, Become, engineVars
<1>3. CASE UNCHANGED <<jobs, entries>> /\ loop' = "reject"
  <2>1. UNCHANGED active
    BY <1>1, Zenon DEF tokenVars
  <2> QED BY <1>1, <1>3, <2>1, PlainFrame, Zenon
<1>4. CASE RemoveDeclaredCustomJob(cur.from, cur.rid, cur.token) /\ loop' = "reject"
  BY <1>1, <1>4, ServingRemoves, Zenon
<1>5. CASE /\ InsertDeclaredCustomJob(cur.from, cur.rid, cur.token, DeclaredCustomJob(TRUE))
           /\ loop' = "activate"
  BY <1>1, <1>5, ServingStores, Zenon
<1>6. CASE /\ InsertDeclaredCustomJob(cur.from, cur.rid, cur.token, DeclaredCustomJob(FALSE))
           /\ loop' \in {"missing", "reject"}
  BY <1>1, <1>6, ServingStores, Zenon
<1> QED BY <1>2, <1>3, <1>4, <1>5, <1>6, Zenon

-----------------------------------------------------------------------------
\* The first half of activate: the declaration goes on to matter.
LEMMA ServingActivate ==
  ASSUME OnceInv, Serving, ActivateToken
  PROVE  Serving'
<1>1. /\ loop = "activate" /\ loop' \in {"issue", "send"}
      /\ UNCHANGED <<cur, pool, entries, jobs, granted, clients>>
  BY Zenon DEF ActivateToken, Become, LoopUnchanged, poolVars, mapVars, engineVars
<1>2. UNCHANGED active
  BY Zenon DEF ActivateToken, tokenVars, TM!ActivateRemove
<1>3. loop' = "issue" => TM!IsAllocated(cur.token, cur.from)
  BY Zenon DEF ActivateToken, Become, TM!ActivateRemove, TM!IsAllocated
<1>4. ASSUME NEW d, NEW t, Matters(d, t)' PROVE Matters(d, t)
  <2>1. \/ \E b \in active : b.owner = d /\ b.origin = t
        \/ loop' = "issue" /\ cur.from = d /\ cur.token = t
    BY <1>1, <1>2, <1>4, Zenon DEF Matters
  <2>2. CASE loop' = "issue" /\ cur.from = d /\ cur.token = t
    BY <1>1, <1>3, <2>2, Zenon DEF Matters
  <2> QED BY <2>1, <2>2, Zenon DEF Matters
<1>5. Backed'
  BY <1>1, <1>4, KeptStays, Zenon DEF Serving, Backed
<1> QED BY <1>1, <1>2, <1>5, GrantFrame, Zenon

\* The second half: the token is granted for the job that the engine holds.
LEMMA ServingIssue ==
  ASSUME OnceInv, Serving, IssueActiveToken
  PROVE  Serving'
<1>1. /\ loop = "issue" /\ loop' = "send"
      /\ UNCHANGED <<cur, pool, entries, jobs, clients>>
  BY Zenon DEF IssueActiveToken, Become, LoopUnchanged, poolVars, mapVars, engineVars
<1>2. PICK a \in activating :
         /\ TM!ActivateInsert(a)
         /\ granted' = granted \cup {[token |-> counter, origin |-> a.token,
                owner |-> a.owner, identity |-> a.identity, job |-> cur.job]}
  BY Zenon DEF IssueActiveToken
<1>3. PICK b0, g0 :
         /\ b0 = [token |-> counter, origin |-> a.token, owner |-> a.owner, identity |-> a.identity]
         /\ g0 = [token |-> counter, origin |-> a.token, owner |-> a.owner,
                  identity |-> a.identity, job |-> cur.job]
  BY Zenon
<1>4. /\ b0.token = g0.token /\ b0.owner = g0.owner /\ b0.identity = g0.identity
      /\ b0.owner = cur.from /\ b0.origin = cur.token /\ g0.job = cur.job
  <2>1. a.token = cur.token /\ a.owner = cur.from
    BY Zenon DEF OnceInv, OneActivating
  <2> QED BY <1>3, <2>1, Zenon
<1>5. granted' = granted \cup {g0}
  BY <1>2, <1>3, Zenon
<1>6. active' = {b \in active : b.token # counter} \cup {b0}
  BY <1>2, <1>3, Zenon DEF TM!ActivateInsert
<1>7. \A b, i : GrantOf(b, i) => GrantOf(b, i)'
  <2>1. granted \subseteq granted'
    BY <1>5, Zenon
  <2> QED BY <1>1, <2>1, GrantsStay, Zenon
<1>8. cur.from \in JdcClients => Fits(b0, cur.job)
  <2> SUFFICES ASSUME cur.from \in JdcClients, NEW e \in entries, NEW k \in jobs,
                      e.owner = cur.from, e.token = cur.token, k.owner = cur.from, k.rid = e.rid
               PROVE  k.job = cur.job
    BY <1>4, Zenon DEF Fits
  <2>1. CurWaits
    BY <1>1, Zenon DEF CurWaits, Deciding
  <2>2. e.rid = cur.rid
    BY <2>1, CurWaiting, Zenon DEF Undecided
  <2> QED BY <1>1, <2>2, Zenon DEF Serving, CurJob
<1>9. cur.from \in JdcClients => GrantOf(b0, b0.identity)'
  <2>1. cur.from \in JdcClients => Fits(b0, g0.job)'
    BY <1>1, <1>4, <1>8, Zenon DEF Fits
  <2>2. g0 \in granted'
    BY <1>5, Zenon
  <2> QED BY <1>4, <2>1, <2>2, Zenon DEF GrantOf
<1>10. ActiveGranted'
  <2> SUFFICES ASSUME NEW b \in active', b.owner \in JdcClients PROVE GrantOf(b, b.identity)'
    BY Zenon DEF ActiveGranted
  <2> QED BY <1>4, <1>6, <1>7, <1>9, Zenon DEF Serving, ActiveGranted
<1>11. CallGranted'
  <2> SUFFICES ASSUME pool.pc \in {"deactivate", "take"}, pool.tok.owner \in JdcClients
               PROVE  GrantOf(pool.tok, pool.by)'
    BY <1>1, Zenon DEF CallGranted
  <2>1. PICK b, i : b = pool.tok /\ i = pool.by
    OBVIOUS
  <2>2. GrantOf(b, i)
    BY <2>1, Zenon DEF Serving, CallGranted
  <2>3. GrantOf(b, i)' /\ b = pool'.tok /\ i = pool'.by
    BY <1>1, <1>7, <2>1, <2>2, Zenon
  <2> QED BY <2>3, Zenon
<1>12. CurJob' /\ JdcAcceptedAsGranted'
  <2>1. CurJob'
    BY <1>1, Zenon DEF CurJob
  <2>2. granted \subseteq granted'
    BY <1>5, Zenon
  <2>3. JdcAcceptedAsGranted'
    BY <1>1, <2>2, Zenon DEF Serving, JdcAcceptedAsGranted, MatchesGrant
  <2> QED BY <2>1, <2>3
<1>13. Backed'
  <2>1. ASSUME NEW d, NEW t, Matters(d, t)' PROVE Matters(d, t)
    <3>1. PICK b \in active' : b.owner = d /\ b.origin = t
      BY <1>1, <2>1, Zenon DEF Matters
    <3>2. CASE b = b0
      BY <1>1, <1>4, <3>1, <3>2, Zenon DEF Matters
    <3>3. CASE b \in active
      BY <3>1, <3>3, Zenon DEF Matters
    <3> QED BY <1>6, <3>2, <3>3, Zenon
  <2> QED BY <1>1, <2>1, KeptStays, Zenon DEF Serving, Backed
<1> QED BY <1>10, <1>11, <1>12, <1>13 DEF Serving

\* The other steps of the loop, and the messages that clients send.
LEMMA ServingLoop ==
  ASSUME OnceInv, Presence, Serving,
         \/ CleanupByLoop \/ Receive \/ AllocateToken \/ LookupSender \/ CheckAllocated
         \/ TakePending \/ ValidateCoinbase \/ EnsureState \/ RejectDeclaration
         \/ AwaitMissing \/ SendReply
         \/ \E d \in Clients : SendAllocate(d) \/ SendDeclare(d) \/ SendProvide(d) \/ SendPush(d)
  PROVE  Serving'
<1>1. CASE CleanupByLoop
  <2>1. CleanupDownstream(loop, cur.from) /\ UNCHANGED <<pool, granted>>
    BY <1>1, Zenon DEF CleanupByLoop, LoopUnchanged, poolVars
  <2>2. loop \in CleanupSteps
    BY <2>1, Zenon DEF CleanupDownstream, CleanupSteps
  <2>3. loop' \in CleanupSteps \cup {"idle"}
    BY <1>1, <2>2 DEF CleanupByLoop, AfterCleanup, CleanupSteps, Finish, Become
  <2>4. loop' \notin {"activate", "issue"}
    BY <2>3, Zenon DEF CleanupSteps
  <2>5. loop # "rmClient" => cur.from \notin clients
    BY <2>2, Zenon DEF Presence
  <2> QED BY <2>1, <2>4, <2>5, ServingCleanup, Zenon
<1>2. CASE \/ Receive \/ AllocateToken \/ CheckAllocated \/ TakePending \/ ValidateCoinbase
           \/ EnsureState \/ RejectDeclaration \/ AwaitMissing \/ SendReply
  <2>1. UNCHANGED <<pool, granted, clients, entries, jobs>>
    BY <1>2, Zenon DEF Receive, AllocateToken, CheckAllocated, TakePending, ValidateCoinbase,
       EnsureState, RejectDeclaration, AwaitMissing, SendReply, LoopUnchanged, mapVars,
       engineVars, poolVars
  <2>2. UNCHANGED active
    BY <1>2, Zenon DEF Receive, AllocateToken, CheckAllocated, TakePending, ValidateCoinbase,
       EnsureState, RejectDeclaration, AwaitMissing, SendReply, tokenVars, TM!Allocate,
       TM!Deallocate
  <2>3. loop' \notin {"activate", "issue"}
    BY <1>2, Zenon DEF Receive, AllocateToken, CheckAllocated, TakePending, ValidateCoinbase,
       EnsureState, RejectDeclaration, AwaitMissing, SendReply, Become, Finish, loopVars
  <2> QED BY <2>1, <2>2, <2>3, PlainFrame, Zenon
<1>3. CASE LookupSender
  <2>1. UNCHANGED <<pool, granted, clients, entries, jobs, active>>
    BY <1>3, Zenon DEF LookupSender, LoopUnchanged, mapVars, tokenVars, engineVars, poolVars
  <2>2. loop' \notin {"activate", "issue"}
    <3>1. loop = "lookup"
          /\ loop' = CASE cur.from \notin senders -> "rmClient"
                       [] cur.from \in senders /\ cur.kind = "allocate" -> "send"
                       [] cur.from \in senders /\ cur.kind = "declare" -> "check"
                       [] cur.from \in senders /\ cur.kind = "provide" -> "pending"
      BY <1>3, Zenon DEF LookupSender, Become
    <3>2. cur.kind \in {"allocate", "declare", "provide"}
      BY <3>1, Zenon DEF OnceInv, SpentInv, TypeInv, Shape, Answer, DeclareMessage, ProvideMessage
    <3> QED BY <3>1, <3>2
  <2> QED BY <2>1, <2>2, PlainFrame, Zenon
<1>4. CASE \E d \in Clients : SendAllocate(d) \/ SendDeclare(d) \/ SendProvide(d) \/ SendPush(d)
  <2>1. \E m : Enqueue(m)
    BY <1>4, Zenon DEF SendAllocate, SendDeclare, SendProvide, SendPush
  <2>2. UNCHANGED <<pool, granted, clients, entries, jobs, active, allocated, loop, cur>>
    BY <2>1, Zenon DEF Enqueue, tokenVars, loopVars, mapVars, engineVars, poolVars, history
  <2> QED BY <2>2, PlainFrame, Zenon
<1> QED BY <1>1, <1>2, <1>3, <1>4, Zenon

\* Every step serves the jd-clients.
LEMMA ServedStep == ServedInv /\ [Next]_vars => ServedInv'
<1> SUFFICES ASSUME ServedInv, [Next]_vars PROVE ServedInv'
  OBVIOUS
<1>1. OnceInv /\ CleanupInv /\ Presence /\ Serving
  BY Zenon DEF ServedInv
<1>2. OnceInv' /\ CleanupInv'
  BY <1>1, OnceStep, CleanupStep
<1>3. Presence'
  BY <1>1, <1>2, PresenceStep, Zenon
<1> SUFFICES Serving'
  BY <1>2, <1>3, Zenon DEF ServedInv
<1>4. CASE \E d \in Clients : Connection(d)
  BY <1>1, <1>4, ServingConnection, ServingLoop, Zenon DEF Connection
<1>5. CASE Receive \/ HandleMessage
  BY <1>1, <1>5, ServingLoop, ServingValidates, ServingActivate, ServingIssue,
     Zenon DEF HandleMessage
<1>6. CASE LookupActive \/ DeactivateToken \/ TakeDeclaredCustomJob \/ ReturnSuccess
  BY <1>1, <1>6, ServingPool, Zenon
<1>7. CASE \/ ExpireAllocatedToken \/ ExpirePending \/ PruneExpiredAllocation
           \/ (\E d \in Clients : ExpireActiveToken(d))
           \/ NewBlock \/ Quiesced \/ UNCHANGED vars
  BY <1>1, <1>7, ServingJanitors, Zenon
<1> QED BY <1>4, <1>5, <1>6, <1>7, Zenon DEF Next

\* A jd-client is served whatever other clients send, whenever connections come
\* and go and however the janitors run: its active token is backed by its
\* validated declaration while it is connected, and the pool accepts for the
\* token the job that was declared for it and no other.
THEOREM JdcIsServed == Spec => []JdcServed
<1>1. Init => ServedInv
  <2> SUFFICES ASSUME Init PROVE ServedInv
    OBVIOUS
  <2>1. /\ OnceInv
        /\ CleanupInv
    BY OnceInit, CleanupInit
  <2>2. clients = {} /\ active = {} /\ jobs = {} /\ loop = "idle" /\ pool.pc = "idle"
    BY DEF Init, TM!Init
  <2>3. Presence
    BY <2>2, Zenon DEF Presence, CleanupSteps
  <2>4. Serving
    BY <2>2, Zenon DEF Serving, Backed, CurJob, ActiveGranted, CallGranted, JdcAcceptedAsGranted
  <2> QED BY <2>1, <2>3, <2>4, Zenon DEF ServedInv
<1> QED BY <1>1, ServedStep, ServedInvServes, PTL DEF Spec

=============================================================================
