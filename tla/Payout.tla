------------------------------- MODULE Payout -------------------------------
(* The payout a user identity stands for (stratum-apps, payout.rs): the pool *)
(* derives coinbase outputs from it, the translator checks the coinbase of   *)
(* every job against the identity it was configured with.                    *)
(*                                                                           *)
(* A script is a constant; an identity is what its parser tells apart.  A    *)
(* block pays at most 21 * 10^14 satoshis, so that no product below leaves   *)
(* the 64 bits it is computed in.                                            *)
EXTENDS Naturals, Sequences

CONSTANTS
    Scripts,     \* output scripts an address may stand for
    Invalid,     \* the outcome of script_from_address on anything else
    Size,        \* the serialized size of an output that pays a script
    SigopCost    \* the signature operations it is counted for

ASSUME ScriptsAssumption ==
    /\ Invalid \notin Scripts
    /\ Size \in [Scripts -> Nat]
    /\ SigopCost \in [Scripts -> Nat]

MinLegacySoloPayoutPercentage == 90

----------------------------------------------------------------------------
(* Identities.  A plain one has an account, the part before its first dot;   *)
(* "sri/<policy>/..." has a number of fields after the policy, the first or  *)
(* the second of which is an address, and a percentage (0 for none at all).  *)

PlainIdentities == [sri : {FALSE}, account : Scripts \cup {Invalid}, worker : {"own", "proxy", "miner"}]
SriIdentities == [sri : {TRUE}, policy : {"solo", "donate", "other"}, fields : Nat,
                  percentage : Nat, script : Scripts \cup {Invalid}]
Identities == PlainIdentities \cup SriIdentities

Solo(s) == [kind |-> "solo", script |-> s, percentage |-> 0]
LegacySolo(s) == [kind |-> "legacy", script |-> s, percentage |-> 0]
Donate(s, p) == [kind |-> "donate", script |-> s, percentage |-> p]
FullDonation == [kind |-> "full", script |-> Invalid, percentage |-> 0]
Error(e) == [kind |-> e, script |-> Invalid, percentage |-> 0]

MinerModes == [kind : {"solo", "legacy"}, script : Scripts, percentage : {0}]
                \cup [kind : {"donate"}, script : Scripts, percentage : 1..99]
Modes == MinerModes \cup {FullDonation}

\* The match on the parts of an identity that starts with "sri".
SriPayoutMode(id) ==
    IF id.policy = "solo" /\ id.fields >= 1
      THEN IF id.script = Invalid THEN Error("InvalidPayoutAddress") ELSE Solo(id.script)
    ELSE IF id.policy # "donate" THEN Error("InvalidUserIdentity")
    ELSE IF id.fields <= 1 THEN FullDonation
    ELSE IF id.percentage \notin 1..99 THEN Error("InvalidDonationPercentage")
    ELSE IF id.script = Invalid THEN Error("InvalidPayoutAddress")
    ELSE Donate(id.script, id.percentage)

\* PayoutMode::try_from.
PayoutModeOf(id) ==
    IF id.sri THEN SriPayoutMode(id)
    ELSE IF id.account = Invalid THEN Error("NoPayoutMode")
    ELSE LegacySolo(id.account)

\* The pool's open handlers: an identity that names no mode mines for the pool,
\* any other error refuses the channel.
PoolPayoutMode(id) ==
    IF PayoutModeOf(id) = Error("NoPayoutMode") THEN FullDonation ELSE PayoutModeOf(id)

\* expected_payout_distribution of the translator with verify_payout set.
ExpectedPayout(id) ==
    IF PayoutModeOf(id) \in {FullDonation, Error("NoPayoutMode")} THEN Error("MissingMinerPayout")
    ELSE PayoutModeOf(id)

\* aggregated_upstream_user_identity.
AggregatedUpstreamUserIdentity(id) == IF id.sri THEN id ELSE [id EXCEPT !.worker = "proxy"]

\* The identity of a channel of its own for each miner.
MinerUserIdentity(id) == IF id.sri THEN id ELSE [id EXCEPT !.worker = "miner"]

UpstreamIdentities(id) == {AggregatedUpstreamUserIdentity(id), MinerUserIdentity(id)}

----------------------------------------------------------------------------
(* Coinbase outputs.                                                         *)

Output(s, v) == [script |-> s, value |-> v]

\* The donated part, rounded down.
PoolSats(total, p) == (total * p) \div 100

CoinbaseOutputs(mode, total, pool) ==
    CASE mode.kind \in {"solo", "legacy"} -> <<Output(mode.script, total)>>
      [] mode.kind = "donate" ->
           LET donated == PoolSats(total, mode.percentage)
           IN <<Output(pool, donated), Output(mode.script, total - donated)>>
      [] mode.kind = "full" -> <<Output(pool, total)>>

\* has_same_coinbase_outputs_as, at the reference value of 100 satoshis.
HasSameCoinbaseOutputs(a, b, pool) == CoinbaseOutputs(a, 100, pool) = CoinbaseOutputs(b, 100, pool)

\* The spendable outputs of a coinbase, of which there are two at most: their
\* sum over a set of scripts.
SatsAt(outs, i, S) == IF i \in DOMAIN outs /\ outs[i].script \in S THEN outs[i].value ELSE 0
Sats(outs, S) == SatsAt(outs, 1, S) + SatsAt(outs, 2, S)

ExpectedLegacySoloMinerSats(total) == (total * MinLegacySoloPayoutPercentage + 99) \div 100

ExpectedMinerSats(mode, total) ==
    IF mode.kind = "donate" THEN total - PoolSats(total, mode.percentage) ELSE total

\* validate_coinbase_outputs, given the sum of all spendable outputs and of
\* those that pay the miner's script.
ValidateSats(mode, total, miner) ==
    \/ mode.kind = "full"
    \/ /\ total # 0
       /\ IF mode.kind = "legacy" THEN miner >= ExpectedLegacySoloMinerSats(total)
          ELSE miner = ExpectedMinerSats(mode, total)

ValidateCoinbaseOutputs(mode, outs) ==
    ValidateSats(mode, Sats(outs, Scripts), Sats(outs, {mode.script}))

----------------------------------------------------------------------------
(* What the pool asks the template provider to leave free in a block.        *)

OffsetAdditionalSize == 43
OffsetMaxSigops == 4

\* The sum of f over the outputs of a coinbase, of which there are two at most.
CostAt(f, outs, i) == IF i \in DOMAIN outs THEN f[outs[i].script] ELSE 0
Cost(f, outs) == CostAt(f, outs, 1) + CostAt(f, outs, 2)

CoinbaseOutputConstraints(outs) ==
    [size |-> Cost(Size, outs), sigops |-> Cost(SigopCost, outs)]

CoinbaseOutputConstraintsWithOffset(outs) ==
    [size |-> CoinbaseOutputConstraints(outs).size + OffsetAdditionalSize,
     sigops |-> CoinbaseOutputConstraints(outs).sigops + OffsetMaxSigops]
=============================================================================
