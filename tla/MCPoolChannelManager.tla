------------------------ MODULE MCPoolChannelManager ------------------------
(* An instance of PoolChannelManager for TLC.  A scenario bounds which       *)
(* miners connect and how many templates, channels, payouts and targets      *)
(* there are; each behaviour is explored under one of them.                  *)
EXTENDS PoolChannelManager, Payout, TLC

CONSTANTS m1, m2, poolScript, minerScript, invalid

VARIABLE scenario

\* Jobs pile up on one channel.
ManyTemplates ==
    [who |-> {m1}, templates |-> 3, channels |-> 2, payouts |-> {"pool"}, targets |-> {0}]

\* A group of two channels, in two payout modes.
ManyChannels ==
    [who |-> {m1}, templates |-> 2, channels |-> 3, payouts |-> {"pool", "solo"}, targets |-> {0}]

\* Two connections come and go while the channel manager walks over them.
ManyMiners ==
    [who |-> {m1, m2}, templates |-> 1, channels |-> 2, payouts |-> {"pool"}, targets |-> {0, 1}]

\* Scripts, with the sizes and costs of p2tr and p2pkh outputs.
OutputSizes == (poolScript :> 43) @@ (minerScript :> 34)
OutputSigops == (poolScript :> 0) @@ (minerScript :> 4)

SmallIdentities ==
    PlainIdentities \cup [sri : {TRUE}, policy : {"solo", "donate", "other"}, fields : 0..3,
                          percentage : {0, 1, 33, 99, 100}, script : Scripts \cup {Invalid}]

\* The payout computations on small values, before they are proved for all: the
\* pool pays out what it was given, its jobs pass the check made of them, and
\* the comparison at 100 satoshis stands for the one at any value.
ASSUME PayoutsOnSmallValues ==
    \A a \in Modes, total \in {0, 1, 2, 99, 100, 101, 1999} :
        LET outs == CoinbaseOutputs(a, total, poolScript)
        IN  /\ Sats(outs, Scripts) = total
            /\ total # 0 /\ a.script # poolScript => ValidateCoinbaseOutputs(a, outs)
            /\ \A b \in Modes :
                  HasSameCoinbaseOutputs(a, b, poolScript) => outs = CoinbaseOutputs(b, total, poolScript)

\* Pool and translator read the same payout mode out of an identity.
ASSUME IdentitiesAgree ==
    \A id \in SmallIdentities : \A up \in UpstreamIdentities(id) :
        ExpectedPayout(id) \in Modes => PoolPayoutMode(up) = ExpectedPayout(id)

Flags == (m1 :> {{}, {"std"}, {"custom"}}) @@ (m2 :> {{"std"}})

WithinScenario ==
    /\ tp'.sent <= scenario.templates
    /\ \A d \in Miners :
          /\ d \notin scenario.who => conn'[d] = "absent"
          /\ dn'[d].next <= scenario.channels + 1
          /\ dn'[d].payout \in scenario.payouts \cup {NoPayout}
          /\ \A c \in DOMAIN dn'[d].chans : dn'[d].chans[c].target \in scenario.targets

MCInit == Init /\ scenario \in {ManyTemplates, ManyChannels, ManyMiners}
MCNext == Next /\ WithinScenario /\ UNCHANGED scenario
MCSpec == MCInit /\ [][MCNext]_<<vars, scenario>> /\ Fairness

=============================================================================
