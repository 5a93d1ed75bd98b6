---------------------------- MODULE TokenManager -----------------------------
(***************************************************************************)
(* The Job Declaration tokens of jd-server:                                *)
(* job_declarator/token_management/mod.rs.                                 *)
(*                                                                         *)
(* A map is the set of its entries.  One operation on a SharedMap is one   *)
(* step, so activate (remove_if, then insert) and remove_downstream        *)
(* (retain, then retain) take two steps each and interleave with whatever  *)
(* other threads do in between.  Tokens come from a 64-bit counter that    *)
(* does not wrap within the life of a server.                              *)
(***************************************************************************)
EXTENDS Naturals

CONSTANTS Clients,    \* downstream ids
          Identities  \* user identities

VARIABLES counter,    \* token_factory
          allocated,  \* allocated_tokens
          active,     \* active_tokens
          activating  \* allocated tokens that activate has removed, not yet reissued

vars == <<counter, allocated, active, activating>>

AllocatedToken == [token : Nat, owner : Clients, identity : Identities]

ActiveToken == [token : Nat, origin : Nat, owner : Clients, identity : Identities]

TypeOK ==
    /\ counter \in Nat
    /\ allocated \subseteq AllocatedToken
    /\ active \subseteq ActiveToken
    /\ activating \subseteq AllocatedToken

-----------------------------------------------------------------------------
Init ==
    /\ counter = 0
    /\ allocated = {}
    /\ active = {}
    /\ activating = {}

Allocate(d, i) ==
    /\ counter' = counter + 1
    /\ allocated' = {a \in allocated : a.token # counter}
                        \cup {[token |-> counter, owner |-> d, identity |-> i]}
    /\ UNCHANGED <<active, activating>>

Deallocate(t) ==
    /\ allocated' = {a \in allocated : a.token # t}
    /\ UNCHANGED <<counter, active, activating>>

IsAllocated(t, d) == \E a \in allocated : a.token = t /\ a.owner = d

\* Mutant: the allocated token is looked up but not removed.
ActivateKeep(t, d) ==
    \E a \in allocated :
        /\ a.token = t
        /\ a.owner = d
        /\ activating' = activating \cup {a}
        /\ UNCHANGED <<counter, allocated, active>>

\* activate, up to the remove_if.
ActivateRemove(t, d) ==
    \E a \in allocated :
        /\ a.token = t
        /\ a.owner = d
        /\ allocated' = allocated \ {a}
        /\ activating' = activating \cup {a}
        /\ UNCHANGED <<counter, active>>

\* activate, from the fetch_add on.
ActivateInsert(a) ==
    /\ a \in activating
    /\ counter' = counter + 1
    /\ active' = {b \in active : b.token # counter}
                     \cup {[token |-> counter, origin |-> a.token,
                            owner |-> a.owner, identity |-> a.identity]}
    /\ activating' = activating \ {a}
    /\ UNCHANGED allocated

Deactivate(t) ==
    /\ active' = {b \in active : b.token # t}
    /\ UNCHANGED <<counter, allocated, activating>>

\* allocated_from_active finds the entries of t (none or one).
AllocatedFromActive(t) == {b \in active : b.token = t}

\* remove_downstream: the retain over allocated_tokens.
RemoveAllocated(d) ==
    /\ allocated' = {a \in allocated : a.owner # d}
    /\ UNCHANGED <<counter, active, activating>>

\* remove_downstream: the retain over active_tokens.
RemoveActive(d) ==
    /\ active' = {b \in active : b.owner # d}
    /\ UNCHANGED <<counter, allocated, activating>>

\* The janitor finds a token past its timeout.
ExpireAllocated(a) ==
    /\ a \in allocated
    /\ allocated' = allocated \ {a}
    /\ UNCHANGED <<counter, active, activating>>

ExpireActive(b) ==
    /\ b \in active
    /\ active' = active \ {b}
    /\ UNCHANGED <<counter, allocated, activating>>

\* Any caller, any operation, in any order.  A number that was never handed out
\* is in neither map, and the operations leave it alone.
Next ==
    \/ \E d \in Clients, i \in Identities : Allocate(d, i)
    \/ \E t \in 0..counter : Deallocate(t) \/ Deactivate(t)
    \/ \E t \in 0..counter, d \in Clients : ActivateRemove(t, d)
    \/ \E a \in activating : ActivateInsert(a)
    \/ \E d \in Clients : RemoveAllocated(d) \/ RemoveActive(d)
    \/ \E a \in allocated : ExpireAllocated(a)
    \/ \E b \in active : ExpireActive(b)

Spec == Init /\ [][Next]_vars

-----------------------------------------------------------------------------
\* An allocation is in one place at a time: waiting to be declared, being
\* activated, or behind one active token; never two, whatever the callers do.
OnePlace ==
    /\ allocated \cap activating = {}
    /\ \A a, b \in allocated \cup activating : a.token = b.token => a = b
    /\ \A a \in allocated \cup activating, b \in active : a.token # b.origin
    /\ \A b, c \in active : b.origin = c.origin => b = c

\* No number names two tokens: not two active ones, nor an active and an
\* allocated one, so is_allocated and allocated_from_active are unambiguous.
NumbersDistinct ==
    /\ \A b, c \in active : b.token = c.token => b = c
    /\ \A a \in allocated \cup activating, b \in active : a.token # b.token

=============================================================================
