---------------------------- MODULE PayoutProofs ----------------------------
(* What the payout code computes, for every identity, script and value.      *)
EXTENDS Payout, Integers, TLAPS

\* The donated part is the whole percentage, rounded down, and never the total.
LEMMA PoolSatsBounds ==
    ASSUME NEW total \in Nat, NEW p \in 1..99
    PROVE  /\ PoolSats(total, p) \in Nat
           /\ 100 * PoolSats(total, p) <= total * p
           /\ total * p < 100 * PoolSats(total, p) + 100
           /\ PoolSats(total, p) <= total
           /\ total # 0 => PoolSats(total, p) < total
  <1> DEFINE n == total * p
             q == n \div 100
  <1>1. n \in Nat /\ n <= 99 * total
    <2>1. p \in Nat /\ p <= 99  OBVIOUS
    <2> QED  BY <2>1, SMT
  <1>2. q \in Nat /\ 100 * q <= n /\ n < 100 * q + 100
    <2> HIDE DEF n
    <2> QED  BY <1>1, SMT
  <1>3. PoolSats(total, p) = q  BY DEF PoolSats
  <1> HIDE DEF q
  <1> QED  BY <1>1, <1>2, <1>3, SMT

\* Ninety per cent, rounded up.
LEMMA LegacySatsBounds ==
    ASSUME NEW total \in Nat
    PROVE  /\ ExpectedLegacySoloMinerSats(total) \in Nat
           /\ 100 * ExpectedLegacySoloMinerSats(total) >= 90 * total
           /\ ExpectedLegacySoloMinerSats(total) <= total
  BY SMT DEF ExpectedLegacySoloMinerSats, MinLegacySoloPayoutPercentage

\* The three ways a mode pays a miner, and the one that does not.
LEMMA ModeCases ==
    ASSUME NEW mode \in Modes
    PROVE  \/ /\ mode.kind \in {"solo", "legacy"}
              /\ mode.script \in Scripts
              /\ mode.percentage = 0
           \/ /\ mode.kind = "donate"
              /\ mode.script \in Scripts
              /\ mode.percentage \in 1..99
           \/ /\ mode.kind = "full"
              /\ mode = FullDonation
  BY DEF Modes, MinerModes, FullDonation

\* The outputs a mode stands for, case by case.
LEMMA OutputsByCase ==
    ASSUME NEW mode \in Modes, NEW total \in Nat, NEW pool \in Scripts
    PROVE  /\ mode.kind \in {"solo", "legacy"} =>
                 CoinbaseOutputs(mode, total, pool) = <<Output(mode.script, total)>>
           /\ mode.kind = "donate" =>
                 CoinbaseOutputs(mode, total, pool) =
                    <<Output(pool, PoolSats(total, mode.percentage)),
                      Output(mode.script, total - PoolSats(total, mode.percentage))>>
           /\ mode.kind = "full" =>
                 CoinbaseOutputs(mode, total, pool) = <<Output(pool, total)>>
  BY ModeCases DEF CoinbaseOutputs

\* The sums over one and over two outputs.
LEMMA SatsOfOne ==
    ASSUME NEW s, NEW v \in Nat, NEW S
    PROVE  Sats(<<Output(s, v)>>, S) = IF s \in S THEN v ELSE 0
  BY DEF Sats, SatsAt, Output

LEMMA SatsOfTwo ==
    ASSUME NEW s, NEW v \in Nat, NEW t, NEW w \in Nat, NEW S
    PROVE  Sats(<<Output(s, v), Output(t, w)>>, S) =
             (IF s \in S THEN v ELSE 0) + (IF t \in S THEN w ELSE 0)
  BY DEF Sats, SatsAt, Output

\* Rounding loses nothing: the outputs coinbase_outputs builds pay exactly the
\* value of the template, in every mode.
THEOREM OutputsPayTotal ==
    ASSUME NEW mode \in Modes, NEW total \in Nat, NEW pool \in Scripts
    PROVE  Sats(CoinbaseOutputs(mode, total, pool), Scripts) = total
  <1>1. CASE mode.kind \in {"solo", "legacy"}
    BY <1>1, ModeCases, OutputsByCase, SatsOfOne
  <1>2. CASE mode.kind = "donate"
    <2> DEFINE q == PoolSats(total, mode.percentage)
    <2>1. mode.script \in Scripts /\ mode.percentage \in 1..99  BY <1>2, ModeCases
    <2>2. q \in Nat /\ q <= total  BY <2>1, PoolSatsBounds, Zenon
    <2>3. CoinbaseOutputs(mode, total, pool) = <<Output(pool, q), Output(mode.script, total - q)>>
      BY <1>2, OutputsByCase
    <2> HIDE DEF q
    <2>4. total - q \in Nat  BY <2>2
    <2>5. Sats(<<Output(pool, q), Output(mode.script, total - q)>>, Scripts) = q + (total - q)
      BY <2>1, <2>2, <2>4, SatsOfTwo
    <2> QED  BY <2>2, <2>3, <2>5
  <1>3. CASE mode.kind = "full"
    BY <1>3, OutputsByCase, SatsOfOne
  <1> QED  BY <1>1, <1>2, <1>3, ModeCases

\* What the outputs of a mode pay the miner's own script.
LEMMA MinerShare ==
    ASSUME NEW mode \in Modes, mode.kind # "full", NEW total \in Nat,
           NEW pool \in Scripts, pool # mode.script
    PROVE  Sats(CoinbaseOutputs(mode, total, pool), {mode.script}) = ExpectedMinerSats(mode, total)
  <1>1. CASE mode.kind \in {"solo", "legacy"}
    BY <1>1, OutputsByCase, SatsOfOne DEF ExpectedMinerSats
  <1>2. CASE mode.kind = "donate"
    <2> DEFINE q == PoolSats(total, mode.percentage)
    <2>1. mode.percentage \in 1..99  BY <1>2, ModeCases
    <2>2. q \in Nat /\ q <= total  BY <2>1, PoolSatsBounds, Zenon
    <2>3. CoinbaseOutputs(mode, total, pool) = <<Output(pool, q), Output(mode.script, total - q)>>
      BY <1>2, OutputsByCase
    <2>4. ExpectedMinerSats(mode, total) = total - q  BY <1>2 DEF ExpectedMinerSats
    <2> HIDE DEF q
    <2>5. total - q \in Nat  BY <2>2
    <2>6. Sats(<<Output(pool, q), Output(mode.script, total - q)>>, {mode.script}) = 0 + (total - q)
      BY <2>2, <2>5, SatsOfTwo
    <2> QED  BY <2>3, <2>4, <2>5, <2>6
  <1> QED  BY <1>1, <1>2, ModeCases

\* A job the pool builds for a payout mode passes the check a client makes of
\* it in the same mode, for every value of the template but zero, as long as
\* the miner and the pool do not share a script.
THEOREM OwnOutputsValidate ==
    ASSUME NEW mode \in Modes, NEW total \in Nat \ {0},
           NEW pool \in Scripts, pool # mode.script
    PROVE  ValidateCoinbaseOutputs(mode, CoinbaseOutputs(mode, total, pool))
  <1>1. CASE mode.kind = "full"
    BY <1>1 DEF ValidateCoinbaseOutputs, ValidateSats
  <1>2. CASE mode.kind # "full"
    <2>1. Sats(CoinbaseOutputs(mode, total, pool), Scripts) = total  BY OutputsPayTotal
    <2>2. Sats(CoinbaseOutputs(mode, total, pool), {mode.script}) = ExpectedMinerSats(mode, total)
      BY <1>2, MinerShare
    <2>3. mode.kind = "legacy" => ExpectedMinerSats(mode, total) >= ExpectedLegacySoloMinerSats(total)
      BY LegacySatsBounds DEF ExpectedMinerSats
    <2> QED  BY <2>1, <2>2, <2>3 DEF ValidateCoinbaseOutputs, ValidateSats
  <1> QED  BY <1>1, <1>2

\* Why the scripts must differ: with the pool's own script as the miner's, a
\* donation of at least one satoshi is summed into the miner's part, and the
\* exact comparison of validate_coinbase_outputs refuses the pool's own job.
THEOREM SharedScriptRefused ==
    ASSUME NEW pool \in Scripts, NEW p \in 1..99, NEW total \in Nat, PoolSats(total, p) # 0
    PROVE  ~ValidateCoinbaseOutputs(Donate(pool, p), CoinbaseOutputs(Donate(pool, p), total, pool))
  <1> DEFINE mode == Donate(pool, p)
             q == PoolSats(total, p)
  <1>1. /\ mode \in Modes /\ mode.kind = "donate"
        /\ mode.script = pool /\ mode.percentage = p
    BY DEF Modes, MinerModes, Donate
  <1> HIDE DEF mode
  <1>2. q \in Nat /\ q <= total /\ q # 0  BY PoolSatsBounds, Zenon
  <1>3. CoinbaseOutputs(mode, total, pool) = <<Output(pool, q), Output(pool, total - q)>>
    BY <1>1, OutputsByCase
  <1>4. Sats(CoinbaseOutputs(mode, total, pool), Scripts) = total  BY <1>1, OutputsPayTotal
  <1>5. ExpectedMinerSats(mode, total) = total - q  BY <1>1 DEF ExpectedMinerSats
  <1> HIDE DEF q
  <1>6. total - q \in Nat  BY <1>2
  <1>7. Sats(<<Output(pool, q), Output(pool, total - q)>>, {pool}) = q + (total - q)
    BY <1>2, <1>6, SatsOfTwo
  <1>8. Sats(CoinbaseOutputs(mode, total, pool), {mode.script}) = total
    BY <1>1, <1>2, <1>3, <1>7
  <1>9. total # ExpectedMinerSats(mode, total)  BY <1>2, <1>5
  <1>10. ~ValidateCoinbaseOutputs(mode, CoinbaseOutputs(mode, total, pool))
    BY <1>1, <1>4, <1>8, <1>9 DEF ValidateCoinbaseOutputs, ValidateSats
  <1> QED  BY <1>10 DEF mode

\* What a miner is promised by a coinbase that validate_coinbase_outputs
\* accepts: something, all of it in solo mode, nine tenths in the legacy one,
\* and in donate mode the rest of the percentage, to the satoshi.
THEOREM AcceptedCoinbasePays ==
    ASSUME NEW mode \in MinerModes, NEW total \in Nat, NEW miner \in 0..total,
           ValidateSats(mode, total, miner)
    PROVE  /\ miner > 0
           /\ mode.kind = "solo" => miner = total
           /\ mode.kind = "legacy" => 100 * miner >= 90 * total
           /\ mode.kind = "donate" =>
                 /\ 100 * miner >= total * (100 - mode.percentage)
                 /\ 100 * miner < total * (100 - mode.percentage) + 100
  <1>1. mode \in Modes /\ mode.kind \in {"solo", "legacy", "donate"}
    BY DEF Modes, MinerModes
  <1>2. total # 0  BY <1>1 DEF ValidateSats
  <1>3. CASE mode.kind = "solo"
    <2>1. miner = total  BY <1>3 DEF ValidateSats, ExpectedMinerSats
    <2> QED  BY <1>2, <1>3, <2>1
  <1>4. CASE mode.kind = "legacy"
    <2>1. miner >= ExpectedLegacySoloMinerSats(total)  BY <1>4 DEF ValidateSats
    <2>2. 100 * miner >= 90 * total  BY <2>1, LegacySatsBounds, SMT
    <2>3. miner > 0  BY <1>2, <2>2, SMT
    <2> QED  BY <1>4, <2>2, <2>3
  <1>5. CASE mode.kind = "donate"
    <2> DEFINE p == mode.percentage
               q == PoolSats(total, p)
               n == total * p
    <2>1. p \in 1..99  BY <1>1, <1>5, ModeCases
    <2>2. miner = total - q  BY <1>5 DEF ValidateSats, ExpectedMinerSats
    <2>3. /\ q \in Nat /\ 100 * q <= n /\ n < 100 * q + 100 /\ q < total
      BY <1>2, <2>1, PoolSatsBounds, ZenonT(30)
    <2>4. n \in Int /\ total * (100 - p) = 100 * total - n
      <3> HIDE DEF p
      <3> QED  BY <2>1, SMT
    <2> HIDE DEF q, n
    <2>5. /\ 100 * miner >= 100 * total - n
          /\ 100 * miner < 100 * total - n + 100
          /\ miner > 0
      BY <2>2, <2>3, <2>4, SMT
    <2> QED  BY <1>5, <2>4, <2>5
  <1> QED  BY <1>1, <1>3, <1>4, <1>5

\* At the reference value of 100 satoshis the donated part is the percentage.
LEMMA ReferenceValue ==
    ASSUME NEW p \in 1..99
    PROVE  PoolSats(100, p) = p
  <1>1. PoolSats(100, p) \in Nat /\ 100 * PoolSats(100, p) <= 100 * p
        /\ 100 * p < 100 * PoolSats(100, p) + 100
    BY PoolSatsBounds, ZenonT(30)
  <1> QED  BY <1>1, SMT

\* The comparison of two modes at the reference value settles it for every
\* template: modes that agree there build the same outputs at every value, so
\* channels of one connection that payout_is_compatible lets share a payout
\* mode are paid alike.
THEOREM ReferenceComparisonSound ==
    ASSUME NEW a \in Modes, NEW b \in Modes, NEW pool \in Scripts,
           HasSameCoinbaseOutputs(a, b, pool), NEW total \in Nat
    PROVE  CoinbaseOutputs(a, total, pool) = CoinbaseOutputs(b, total, pool)
  <1>1. CoinbaseOutputs(a, 100, pool) = CoinbaseOutputs(b, 100, pool)
    BY DEF HasSameCoinbaseOutputs
  <1>2. a.kind = "donate" <=> b.kind = "donate"
    BY <1>1, ModeCases, OutputsByCase, 100 \in Nat
  <1>3. CASE a.kind = "donate"
    <2>1. /\ b.kind = "donate"
          /\ a.percentage \in 1..99 /\ b.percentage \in 1..99
      BY <1>2, <1>3, ModeCases
    <2>2. /\ CoinbaseOutputs(a, 100, pool) =
                <<Output(pool, a.percentage), Output(a.script, 100 - a.percentage)>>
          /\ CoinbaseOutputs(b, 100, pool) =
                <<Output(pool, b.percentage), Output(b.script, 100 - b.percentage)>>
      <3>1. PoolSats(100, a.percentage) = a.percentage /\ PoolSats(100, b.percentage) = b.percentage
        BY <2>1, ReferenceValue
      <3>2. /\ CoinbaseOutputs(a, 100, pool) =
                  <<Output(pool, PoolSats(100, a.percentage)),
                    Output(a.script, 100 - PoolSats(100, a.percentage))>>
            /\ CoinbaseOutputs(b, 100, pool) =
                  <<Output(pool, PoolSats(100, b.percentage)),
                    Output(b.script, 100 - PoolSats(100, b.percentage))>>
        <4>1. 100 \in Nat  OBVIOUS
        <4> QED  BY ONLY <1>3, <2>1, <4>1, OutputsByCase, a \in Modes, b \in Modes, pool \in Scripts, Zenon
      <3> QED  BY <3>1, <3>2
    <2>3. a.percentage = b.percentage /\ a.script = b.script
      BY <1>1, <2>2 DEF Output
    <2> QED  BY <1>3, <2>1, <2>3, OutputsByCase
  <1>4. CASE a.kind # "donate"
    <2> DEFINE payee(m) == IF m.kind = "full" THEN pool ELSE m.script
    <2>1. \A v \in Nat : /\ CoinbaseOutputs(a, v, pool) = <<Output(payee(a), v)>>
                         /\ CoinbaseOutputs(b, v, pool) = <<Output(payee(b), v)>>
      BY <1>2, <1>4, ModeCases, OutputsByCase
    <2>2. payee(a) = payee(b)
      <3> HIDE DEF payee
      <3> QED  BY <1>1, <2>1, 100 \in Nat DEF Output
    <2> QED  BY <2>1, <2>2
  <1> QED  BY <1>3, <1>4

\* A translator that checks payouts accepts the jobs of a pool that follows
\* the same code: whichever identity it presents upstream, of its one
\* aggregated channel or of a miner's own, the pool reads the payout mode the
\* translator expects out of it, and the coinbase it builds passes the check.
THEOREM VerifiedPayoutAgrees ==
    ASSUME NEW id \in Identities, ExpectedPayout(id) \in Modes,
           NEW up \in UpstreamIdentities(id),
           NEW total \in Nat \ {0}, NEW pool \in Scripts, pool # ExpectedPayout(id).script
    PROVE  /\ PoolPayoutMode(up) = ExpectedPayout(id)
           /\ ValidateCoinbaseOutputs(ExpectedPayout(id),
                                      CoinbaseOutputs(PoolPayoutMode(up), total, pool))
  <1>1. PayoutModeOf(up) = PayoutModeOf(id)
    BY Zenon DEF UpstreamIdentities, AggregatedUpstreamUserIdentity, MinerUserIdentity,
           PayoutModeOf, SriPayoutMode, Identities, PlainIdentities, SriIdentities
  <1>2. Error("MissingMinerPayout") \notin Modes
    BY DEF Error, Modes, MinerModes, FullDonation
  <1>3. ExpectedPayout(id) = PayoutModeOf(id) /\ PayoutModeOf(id) # Error("NoPayoutMode")
    BY <1>2 DEF ExpectedPayout
  <1>4. PoolPayoutMode(up) = ExpectedPayout(id)
    BY <1>1, <1>3 DEF PoolPayoutMode
  <1> QED  BY <1>4, OwnOutputsValidate

\* The costs of one and of two outputs.
LEMMA CostOfOne ==
    ASSUME NEW f \in [Scripts -> Nat], NEW s \in Scripts, NEW v
    PROVE  f[s] \in Nat /\ Cost(f, <<Output(s, v)>>) = f[s]
  BY DEF Cost, CostAt, Output

LEMMA CostOfTwo ==
    ASSUME NEW f \in [Scripts -> Nat], NEW s \in Scripts, NEW v, NEW t \in Scripts, NEW w
    PROVE  Cost(f, <<Output(s, v), Output(t, w)>>) = f[s] + f[t]
  BY DEF Cost, CostAt, Output

\* What the pool reserves for its own output and the offsets is enough for the
\* coinbase outputs of every payout mode, whatever the value, as long as the
\* miner's output is no larger than the offsets allow for.
THEOREM ReservedSpaceSuffices ==
    ASSUME NEW mode \in Modes, NEW total \in Nat, NEW any \in Nat, NEW pool \in Scripts,
           mode.script \in Scripts => /\ Size[mode.script] <= OffsetAdditionalSize
                                      /\ SigopCost[mode.script] <= OffsetMaxSigops
    PROVE  LET needed == CoinbaseOutputConstraints(CoinbaseOutputs(mode, total, pool))
               reserved == CoinbaseOutputConstraintsWithOffset(<<Output(pool, any)>>)
           IN  needed.size <= reserved.size /\ needed.sigops <= reserved.sigops
  <1> DEFINE needed(f) == Cost(f, CoinbaseOutputs(mode, total, pool))
             own(f) == Cost(f, <<Output(pool, any)>>)
  <1>1. ASSUME NEW f \in [Scripts -> Nat], NEW k \in Nat,
               mode.script \in Scripts => f[mode.script] <= k
        PROVE  needed(f) <= own(f) + k
    <2>1. f[pool] \in Nat /\ own(f) = f[pool]  BY CostOfOne
    <2>2. CASE mode.kind \in {"solo", "legacy"}
      <3>1. mode.script \in Scripts  BY <2>2, ModeCases
      <3>2. CoinbaseOutputs(mode, total, pool) = <<Output(mode.script, total)>>
        BY <2>2, OutputsByCase
      <3>3. f[mode.script] \in Nat /\ needed(f) = f[mode.script]  BY <3>1, <3>2, CostOfOne
      <3> QED  BY <1>1, <2>1, <3>1, <3>3
    <2>3. CASE mode.kind = "donate"
      <3> DEFINE q == PoolSats(total, mode.percentage)
      <3>1. mode.script \in Scripts  BY <2>3, ModeCases
      <3>2. CoinbaseOutputs(mode, total, pool) = <<Output(pool, q), Output(mode.script, total - q)>>
        BY <2>3, OutputsByCase
      <3>3. f[mode.script] \in Nat /\ needed(f) = f[pool] + f[mode.script]
        BY <3>1, <3>2, CostOfOne, CostOfTwo
      <3> QED  BY <1>1, <2>1, <3>1, <3>3
    <2>4. CASE mode.kind = "full"
      <3>1. CoinbaseOutputs(mode, total, pool) = <<Output(pool, total)>>  BY <2>4, OutputsByCase
      <3>2. needed(f) = f[pool]  BY <3>1, CostOfOne
      <3> QED  BY <2>1, <3>2
    <2> QED  BY <2>2, <2>3, <2>4, ModeCases
  <1>2. /\ needed(Size) <= own(Size) + OffsetAdditionalSize
        /\ needed(SigopCost) <= own(SigopCost) + OffsetMaxSigops
    BY <1>1, ScriptsAssumption DEF OffsetAdditionalSize, OffsetMaxSigops
  <1> QED  BY <1>2 DEF CoinbaseOutputConstraints, CoinbaseOutputConstraintsWithOffset
=============================================================================
