--------------------------- MODULE MCJobDeclarator ---------------------------
(* Instances of JobDeclarator for TLC: a jd-client, a client that sends      *)
(* anything, and scenarios that bound who connects, what is sent and how     *)
(* often the pool calls and the chain grows.                                 *)
EXTENDS JobDeclarator, TLC

CONSTANTS jdc, other, alice, bob, j1, j2, bad

VARIABLE scenario   \* the bounds of this behaviour

\* One jd-client against its own cleanup and a new block.
Racing ==
    [budget |-> (jdc :> 3) @@ (other :> 0), as |-> {<<jdc, alice>>},
     jobs |-> {j1}, calls |-> 1, tip |-> 1, stays |-> {}]

\* One jd-client that declares two tokens one after the other, or a coinbase that
\* does not pay the pool.
Pipelining ==
    [budget |-> (jdc :> 4) @@ (other :> 0), as |-> {<<jdc, alice>>},
     jobs |-> {j1, bad}, calls |-> 1, tip |-> 0, stays |-> {jdc}]

\* A jd-client beside a client that sends anything.
Sharing ==
    [budget |-> (jdc :> 2) @@ (other :> 1), as |-> {<<jdc, alice>>, <<other, bob>>},
     jobs |-> {j1}, calls |-> 1, tip |-> 0, stays |-> {jdc}]

\* A client that reuses tokens and request ids.
Reusing ==
    [budget |-> (jdc :> 0) @@ (other :> 3), as |-> {<<other, alice>>},
     jobs |-> {j1}, calls |-> 2, tip |-> 0, stays |-> {}]

\* A client that declares a second token under the request id of the first.
Overwriting ==
    [budget |-> (jdc :> 0) @@ (other :> 4), as |-> {<<other, alice>>},
     jobs |-> {j1, j2}, calls |-> 1, tip |-> 0, stays |-> {other}]

\* The largest number of messages of any scenario.
MaxBudget == (jdc :> 4) @@ (other :> 4)

Takes(d) == scenario.budget[d] > 0

WithinScenario ==
    /\ \A d \in Clients : /\ sent'[d] <= scenario.budget[d]
                          /\ ~Takes(d) => conn'[d] = "absent"
                          /\ d \in scenario.stays => conn'[d] \in {"absent", "setup", "open"}
    /\ calls' <= scenario.calls
    /\ tip' <= scenario.tip
    /\ Len(queue') > Len(queue) =>
          LET m == queue'[Len(queue')]
          IN  /\ m.kind = "allocate" => <<m.from, m.identity>> \in scenario.as
              /\ m.kind = "declare" => m.job \in scenario.jobs
              /\ m.kind = "provide" => m.rid < scenario.budget[m.from]

MCInit == Init /\ scenario \in {Racing, Pipelining, Sharing, Reusing, Overwriting}

\* The connections of the scenario have come and gone.
MCQuiesced ==
    /\ \A d \in Clients :
          Takes(d) => conn[d] = IF d \in scenario.stays THEN "open" ELSE "gone"
    /\ queue = <<>> /\ loop = "idle" /\ pool.pc = "idle"
    /\ UNCHANGED vars

MCNext == ((Next /\ WithinScenario) \/ MCQuiesced) /\ UNCHANGED scenario

MCSpec == MCInit /\ [][MCNext]_<<vars, scenario>> /\ Fairness

=============================================================================
