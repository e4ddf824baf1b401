------------------------------ MODULE Incentive ------------------------------
(***************************************************************************)
(* x/incentive: how the fees of a block become rewards of the finality     *)
(* providers that voted for it and of their BTC stakers.  BeginBlock puts  *)
(* a portion of the fees in the gauges of the block; when the block is     *)
(* finalized, usually blocks later, the gauges are split over the voters.  *)
(* What a provider's stakers get is not split: it is added to the current  *)
(* reward period of the provider, and a staker is paid from the difference *)
(* of the cumulative rewards per satoshi of two periods when the stake     *)
(* changes or rewards are withdrawn.  Changes of stake reach the tracker   *)
(* through a queue of events by height, so that the rewards of a block are *)
(* split over the stake as it was at that block.                           *)
(*                                                                         *)
(* Coins are of one denomination.  The types of an account's reward gauge  *)
(* are "FP", "BTC" (a BTC staker) and "CO" (a costaker).                   *)
(***************************************************************************)
EXTENDS Integers, FiniteSets, FiniteSetsExt, Functions, Sequences, SequencesExt, TLC

CONSTANTS
    Provider,           \* addresses of finality providers
    Staker,             \* addresses of BTC stakers
    Stake,              \* BTC delegations
    ProviderOf,         \* [Stake -> Provider]
    StakerOf,           \* [Stake -> Staker]
    SatsOf,             \* [Stake -> Nat]
    Fees,               \* what the fee collector may hold at the start of a block
    One,                \* the unit of decimal portions (10^18)
    DecimalRewards,     \* the unit of cumulative rewards (10^20)
    BtcStakingPortion,  \* of the fees, in units of 1/One
    FpPortion,
    Commission,         \* [Provider -> Nat], in units of 1/One
    MaxBlock,           \* bound: blocks
    MaxChanges          \* bound: delegations that change in a block

ASSUME IncentiveAssumption ==
    /\ ProviderOf \in [Stake -> Provider] /\ StakerOf \in [Stake -> Staker]
    /\ SatsOf \in [Stake -> Nat \ {0}] /\ Fees \subseteq Nat
    /\ One \in Nat \ {0} /\ DecimalRewards \in Nat \ {0}
    /\ BtcStakingPortion \in Nat /\ FpPortion \in Nat
    /\ BtcStakingPortion + FpPortion < One
    /\ \A p \in Provider : Commission[p] \in 0..One

VARIABLES
    block,          \* the height of the current block
    phase,          \* "txs" after BeginBlock, "end" in EndBlock
    stake,          \* [Stake -> {"new", "active", "ended"}]: x/btcstaking and x/finality
    banned,         \* slashed providers
    power,          \* per block: the distribution cache (satoshis, the active set)
    nextReward,     \* the first block that was not rewarded
    trk,            \* the reward tracker, see below
    pending,        \* per block: the events of the tracker
    processed,      \* the last block whose events were processed
    fees,           \* per block: [btc, fp], its two gauges
    gauge,          \* [{"FP","BTC","CO"} \X address -> [coins, out]]
    bank,           \* [module account -> coins]
    panicked,       \* a hook or the rewarding of a block panicked
    due             \* history: [{"BTC","CO"} \X Staker -> exact share, in units of 1/Common]

envVars == <<block, phase, stake, banned, power, nextReward>>
incentiveVars == <<trk, pending, processed, fees, gauge, bank, panicked, due>>

(* The elements of a finite set, in some order.                            *)
Ordered(S) == FoldSet(LAMBDA x, s : Append(s, x), <<>>, S)

SatsAmong(S) == MapThenSumSet(LAMBDA d : SatsOf[d], S)

Active(s) == {d \in Stake : s[d] = "active"}

(* The delegations of D to p, of everyone or of staker u.                  *)
StakedTo(p, D) == {d \in D : ProviderOf[d] = p}
StakedBy(u, p, D) == {d \in D : ProviderOf[d] = p /\ StakerOf[d] = u}

(* types.GetCoinsPortion: truncated twice, to a decimal and to a coin.     *)
GetCoinsPortion(coins, portion) == (coins * portion) \div One

-----------------------------------------------------------------------------
(* The reward tracker is a record of partial functions:                    *)
(*   cur   provider -> [rwd, period, sat]: the current reward period       *)
(*   hist  provider -> rewards per satoshi, cumulated; hist[p][n + 1] is   *)
(*         the entry of period n                                           *)
(*   del   <<provider, staker>> -> [start, sat]; its domain is also the    *)
(*         index from stakers to providers                                 *)
(*   paid  staker -> what the tracker sent to the staker's gauge           *)
(*   bad   an operation returned an error or panicked                      *)

Bad(t) == [t EXCEPT !.bad = TRUE]

initializeFinalityProvider(p, t) ==
    [t EXCEPT !.hist = (p :> <<0>>) @@ @,
              !.cur = (p :> [rwd |-> 0, period |-> 1, sat |-> 0]) @@ @]

(* The period that ends is the one before the current period of the        *)
(* result, except for a provider that was just initialized.                *)
IncrementFinalityProviderPeriod(p, t) ==
    IF p \notin DOMAIN t.cur
    THEN initializeFinalityProvider(p, t)
    ELSE LET c == t.cur[p]
             perSat == IF c.sat = 0 THEN 0 ELSE (c.rwd * DecimalRewards) \div c.sat
         IN [t EXCEPT !.hist[p] = Append(@, @[c.period] + perSat),
                      !.cur[p] = [rwd |-> 0, period |-> c.period + 1, sat |-> c.sat]]

EndedPeriod(p, t) == IF p \in DOMAIN t.cur THEN t.cur[p].period ELSE 1

calculateDelegationRewardsBetween(p, d, end, t) ==
    (d.sat * (t.hist[p][end + 1] - t.hist[p][d.start + 1])) \div DecimalRewards

(* What CalculateBTCDelegationRewardsAndSendToGauge pays; nothing without  *)
(* a tracker or satoshis.                                                  *)
CalculateBTCDelegationRewards(p, u, end, t) ==
    IF <<p, u>> \in DOMAIN t.del /\ t.del[<<p, u>>].sat # 0
    THEN calculateDelegationRewardsBetween(p, t.del[<<p, u>>], end, t)
    ELSE 0

(* addDelegationSat and subDelegationSat, with the totals of the provider. *)
changeDelegationSat(p, u, amt, t) ==
    LET d == IF <<p, u>> \in DOMAIN t.del THEN t.del[<<p, u>>] ELSE [start |-> 0, sat |-> 0]
    IN IF amt < 0 /\ (<<p, u>> \notin DOMAIN t.del \/ d.sat + amt < 0 \/ t.cur[p].sat + amt < 0)
       THEN Bad(t)
       ELSE [t EXCEPT !.del = (<<p, u>> :> [d EXCEPT !.sat = @ + amt]) @@ @,
                      !.cur[p].sat = @ + amt]

StartsOnePeriodLate(p, u, t) ==
    IF t.bad \/ <<p, u>> \notin DOMAIN t.del THEN Bad(t)
    ELSE [t EXCEPT !.del[<<p, u>>].start = t.cur[p].period]

initializeBTCDelegation(p, u, t) ==
    IF t.bad \/ <<p, u>> \notin DOMAIN t.del THEN Bad(t)
    ELSE [t EXCEPT !.del[<<p, u>>].start = t.cur[p].period - 1]

(* btcDelegationModifiedWithPreInitDel: the stake of u to p changes by     *)
(* amt, which is 0 when rewards are withdrawn.                             *)
btcDelegationModified(p, u, amt, t) ==
    LET end == EndedPeriod(p, t)
        t1 == IncrementFinalityProviderPeriod(p, t)
        t2 == [t1 EXCEPT !.paid[u] = @ + CalculateBTCDelegationRewards(p, u, end, t1)]
        t3 == IF amt = 0 THEN t2 ELSE changeDelegationSat(p, u, amt, t2)
    IN initializeBTCDelegation(p, u, t3)

(* BtcDelegationActivated and BtcDelegationUnbonded, for an event.         *)
ProcessEvent(t, e) == btcDelegationModified(ProviderOf[e.d], StakerOf[e.d], e.amt, t)

ProcessRewardTrackerEventsAtHeight(h, t) == FoldLeft(ProcessEvent, t, pending[h])

(* ProcessRewardTrackerEvents: the blocks after the last one processed.    *)
Interval(m, n) == [i \in 1..(n - m + 1) |-> m + i - 1]

ProcessesPastUntil(until, t) ==
    FoldLeft(LAMBDA u, h : ProcessRewardTrackerEventsAtHeight(h, u), t,
             Interval(processed + 1, block))

ProcessRewardTrackerEvents(until, t) ==
    FoldLeft(LAMBDA u, h : ProcessRewardTrackerEventsAtHeight(h, u), t,
             Interval(processed + 1, until))

(* sendAllBtcRewardsToGauge: every provider in the staker's index.         *)
sendAllBtcRewardsToGauge(u, t) ==
    FoldSet(LAMBDA p, v : btcDelegationModified(p, u, 0, v), t,
            {p \in Provider : <<p, u>> \in DOMAIN t.del})

(* IterateBTCDelegationSatsUpdated: the satoshis of a staker under p, with *)
(* the events of the tracker that are not processed yet.                   *)
PendingSats(u, p, evts) ==
    LET Of(h) == SelectSeq(evts[h], LAMBDA e : ProviderOf[e.d] = p /\ StakerOf[e.d] = u)
        Total(h) == FoldLeft(LAMBDA n, e : n + e.amt, 0, Of(h))
    IN MapThenSumSet(Total, {h \in DOMAIN evts : h > processed})

SatsNotUpdated(u, p, evts) == IF <<p, u>> \in DOMAIN trk.del THEN trk.del[<<p, u>>].sat ELSE 0

SatsUpdated(u, p, evts) ==
    (IF <<p, u>> \in DOMAIN trk.del THEN trk.del[<<p, u>>].sat ELSE 0) + PendingSats(u, p, evts)

(* accumulateRewardGauge, for what the tracker paid.                       *)
AddPaid(g, t) ==
    [k \in DOMAIN g |-> IF k[1] = "BTC" /\ k[2] \in DOMAIN t.paid
                        THEN [g[k] EXCEPT !.coins = @ + t.paid[k[2]]] ELSE g[k]]

Settled(t) == [t EXCEPT !.paid = [u \in Staker |-> 0], !.bad = FALSE]
-----------------------------------------------------------------------------
(* The events AfterBtcDelegationActivated and AfterBtcDelegationUnbonded   *)
(* add: x/finality calls the hooks of all activations first.               *)
UnbondedFirst(on, off) ==
    Ordered({[d |-> d, amt |-> -SatsOf[d]] : d \in off})
        \o Ordered({[d |-> d, amt |-> SatsOf[d]] : d \in on})

Events(on, off) ==
    Ordered({[d |-> d, amt |-> SatsOf[d]] : d \in on})
        \o Ordered({[d |-> d, amt |-> -SatsOf[d]] : d \in off})

AddRewardTrackerEvents(on, off) == Append(pending, Events(on, off))

(* UpdatePowerDist, as PowerDist shows it: delegations of `on' get active, *)
(* those of `off' end, providers of `ban' are slashed, and A are active.   *)
UpdatePowerDist(on, off, ban, A) ==
    /\ Cardinality(on \union off) <= MaxChanges
    /\ stake' = [d \in Stake |-> IF d \in off THEN "ended"
                                 ELSE IF d \in on THEN "active" ELSE stake[d]]
    /\ banned' = banned \union ban
    /\ \A p \in A : p \notin banned' /\ SatsAmong(StakedTo(p, Active(stake'))) > 0
    /\ power' = Append(power, [dels |-> Active(stake'), active |-> A])

PrevActive == IF power = <<>> THEN {} ELSE Last(power).active

-----------------------------------------------------------------------------
(* RewardBTCStaking of block h, for which V voted.                         *)
TotalBondedSat(h, p) == SatsAmong(StakedTo(p, power[h].dels))
PowerAmong(h, V) == MapThenSumSet(LAMBDA p : TotalBondedSat(h, p), V)

FpShare(h, V, p) == (TotalBondedSat(h, p) * One) \div PowerAmong(h, V)
CoinsForFpsAndDels(h, V, p) == GetCoinsPortion(fees[h].btc, FpShare(h, V, p))
CoinsForCommission(h, V, p) == GetCoinsPortion(CoinsForFpsAndDels(h, V, p), Commission[p])
CoinsForFpDirect(h, V, p) == GetCoinsPortion(fees[h].fp, FpShare(h, V, p))
CommissionNotDeducted(h, V, p) == CoinsForFpsAndDels(h, V, p)

CoinsForBTCDels(h, V, p) == CoinsForFpsAndDels(h, V, p) - CoinsForCommission(h, V, p)

AddFinalityProviderRewardsForBtcDelegations(p, coins, t) ==
    IF p \notin DOMAIN t.cur THEN Bad(t) ELSE [t EXCEPT !.cur[p].rwd = @ + coins]

RewardVoters(h, V, t) ==
    FoldSet(LAMBDA p, u : AddFinalityProviderRewardsForBtcDelegations(p, CoinsForBTCDels(h, V, p), u),
            t, V)

(* Units in which every share of a provider's rewards is a whole number.   *)
Common == FoldSet(LAMBDA n, c : n * c, 1, 1..SatsAmong(Stake))

ExactShare(h, V, u) ==
    MapThenSumSet(LAMBDA p : CoinsForBTCDels(h, V, p) * (Common \div TotalBondedSat(h, p))
                             * SatsAmong(StakedBy(u, p, power[h].dels)), V)

(* HandleRewarding reaches block h; the blocks it passes have no power.    *)
(* Tally decides which blocks those are, and with which votes.             *)
Reward(h, V) ==
    /\ phase = "end" /\ h \in nextReward..block
    /\ \A g \in nextReward..(h - 1) : power[g].active = {}
    /\ V \subseteq power[h].active
    /\ 3 * PowerAmong(h, V) > 2 * PowerAmong(h, power[h].active)
    /\ \E t \in {RewardVoters(h, V, ProcessRewardTrackerEvents(h, trk))} :
          /\ trk' = Settled(t)
          /\ gauge' = [k \in DOMAIN gauge |->
                         IF k[1] = "FP" /\ k[2] \in V
                         THEN [gauge[k] EXCEPT !.coins = @ + CoinsForCommission(h, V, k[2])
                                                           + CoinsForFpDirect(h, V, k[2])]
                         ELSE AddPaid(gauge, t)[k]]
          /\ panicked' = (panicked \/ t.bad)
    /\ due' = [k \in DOMAIN due |-> due[k] + (IF k[1] = "BTC" THEN ExactShare(h, V, k[2]) ELSE 0)]
    /\ pending' = [g \in DOMAIN pending |-> IF g <= h THEN <<>> ELSE pending[g]]
    /\ processed' = h
    /\ fees' = [fees EXCEPT ![h] = [btc |-> 0, fp |-> 0]]
    /\ nextReward' = h + 1
    /\ UNCHANGED <<block, phase, stake, banned, power, bank>>

(* withdrawReward: what is withdrawn from one gauge.                       *)
Withdrawable(k, g) == g[k].coins - g[k].out
Withdrawn(K, g) == [k \in DOMAIN g |-> IF k \in K THEN [g[k] EXCEPT !.out = g[k].coins] ELSE g[k]]
=============================================================================
