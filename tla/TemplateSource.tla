---------------------------- MODULE TemplateSource ----------------------------
(* What the users of a template provider (the pool and the job declarator      *)
(* client) rely on: one ordered stream of messages in which                    *)
(*  - template ids only grow;                                                  *)
(*  - a future template is followed at once by the SetNewPrevHash naming it;   *)
(*  - a template that is not future belongs to the chain tip, and to the       *)
(*    coinbase output constraints, of the latest SetNewPrevHash;               *)
(*  - an answer to RequestTransactionData names a template sent before.        *)
(* TemplateDistribution (the Bitcoin Core runtime) is shown to implement it.   *)
EXTENDS Naturals, Sequences

CONSTANTS Ids,      \* template ids
          Tips,     \* chain tips (prev_hash values)
          Epochs    \* sets of coinbase output constraints

VARIABLES stream,     \* messages sent and not yet read
          announced,  \* tip and constraints of the latest SetNewPrevHash
          last        \* id of the latest template sent, 0 before the first

vars == <<stream, announced, last>>

Unannounced == [tip |-> 0, epoch |-> 0]

NewTemplate(t, future) == [k |-> "new", future |-> future, id |-> t.id, tip |-> t.tip, epoch |-> t.epoch]
SetNewPrevHash(t) == [k |-> "prev", id |-> t.id, tip |-> t.tip]
Answer(id, ok) == [k |-> "data", id |-> id, ok |-> ok]

Init == stream = <<>> /\ announced = Unannounced /\ last = 0

Announce(t) ==
    /\ t.id > last
    /\ stream' = stream \o <<NewTemplate(t, TRUE), SetNewPrevHash(t)>>
    /\ announced' = [tip |-> t.tip, epoch |-> t.epoch]
    /\ last' = t.id

Refresh(id) ==
    /\ announced # Unannounced
    /\ id > last
    /\ stream' = Append(stream, NewTemplate([id |-> id, tip |-> announced.tip, epoch |-> announced.epoch], FALSE))
    /\ last' = id
    /\ UNCHANGED announced

AnswerRequest(id, ok) ==
    /\ id <= last
    /\ stream' = Append(stream, Answer(id, ok))
    /\ UNCHANGED <<announced, last>>

Read ==
    /\ stream # <<>>
    /\ stream' = Tail(stream)
    /\ UNCHANGED <<announced, last>>

Next ==
    \/ \E t \in [id : Ids, tip : Tips, epoch : Epochs] : Announce(t)
    \/ \E id \in Ids : Refresh(id)
    \/ \E id \in Ids, ok \in BOOLEAN : AnswerRequest(id, ok)
    \/ Read

Spec == Init /\ [][Next]_vars
================================================================================
