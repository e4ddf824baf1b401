------------------------------- MODULE Rewards -------------------------------
(***************************************************************************)
(* The rewards of a chain of blocks: x/incentive and x/costaking under the *)
(* calls of x/finality, x/staking and x/epoching.  A block goes through    *)
(* the phases                                                              *)
(*   "fees"   BeginBlock of incentive, costaking and distribution is done; *)
(*            validators may be slashed                                    *)
(*   "txs"    UpdatePowerDist is done; rewards are withdrawn, parameters   *)
(*            change                                                       *)
(*   "epoch"  EndBlock of x/epoching at the end of an epoch: the queued    *)
(*            messages of x/staking, one by one                            *)
(*   "end"    EndBlock of x/finality: finalized blocks are rewarded        *)
(*   "done"   EndBlock of x/costaking is done                              *)
(***************************************************************************)
EXTENDS Costaking

CONSTANTS
    Amounts,        \* tokens a message of x/staking moves
    Burns           \* tokens a slashing burns

rewardsVars == <<envVars, incentiveVars, costakingVars>>

RewardsInit ==
    /\ block = 0 /\ phase = "done" /\ nextReward = 1
    /\ stake = [d \in Stake |-> "new"] /\ banned = {} /\ power = <<>>
    /\ trk = [cur |-> <<>>, hist |-> <<>>, del |-> <<>>,
              paid |-> [u \in Staker |-> 0], bad |-> FALSE]
    /\ pending = <<>> /\ processed = 0 /\ fees = <<>>
    /\ gauge = [k \in ({"FP"} \X Provider) \union ({"BTC", "CO"} \X Staker) |-> [coins |-> 0, out |-> 0]]
    /\ bank = [incentive |-> 0, costaking |-> 0]
    /\ panicked = FALSE
    /\ due = [k \in {"BTC", "CO"} \X Staker |-> 0]
    /\ ratio = Ratio
    /\ val = [v \in Validator |->
                LET n == SelfBond + MapThenSumSet(LAMBDA u : GenesisNtk[<<u, v>>], Staker)
                IN [tok |-> n, sh |-> n * One, cut |-> FALSE]]
    /\ share = [k \in Staker \X Validator |-> GenesisNtk[k] * One]
    /\ bonded = GenesisSet /\ valset = GenesisSet
    /\ cachedSet = {} /\ cached = <<>> /\ hookFailed = FALSE
    /\ LET Ntk(u) == MapThenSumSet(LAMBDA v : GenesisNtk[<<u, v>>], GenesisSet)
       IN co = [pool |-> [rwd |-> 0, period |-> 1, score |-> 0], hist |-> <<0>>,
                trk |-> [u \in {u \in Staker : Ntk(u) > 0} |->
                           [start |-> 1, sats |-> 0, ntk |-> Ntk(u), score |-> 0]],
                paid |-> [u \in Staker |-> 0], bad |-> FALSE]

-----------------------------------------------------------------------------
BeginBlock(f) ==
    LET btc == GetCoinsPortion(f, BtcStakingPortion)
        fp == GetCoinsPortion(f, FpPortion)
        coins == CoinsForCostakers(f - btc - fp)
    IN /\ phase = "done" /\ block < MaxBlock
       /\ block' = block + 1 /\ phase' = "fees"
       /\ fees' = Append(fees, [btc |-> btc, fp |-> fp])
       /\ bank' = [bank EXCEPT !.incentive = @ + btc + fp, !.costaking = @ + coins]
       /\ co' = AddRewardsForCostakers(coins, co)
       /\ due' = [k \in DOMAIN due |->
                    IF k[1] = "CO" /\ k[2] \in DOMAIN co.trk /\ co.pool.score > 0
                    THEN due[k] + coins * co.trk[k[2]].score * (Common \div co.pool.score)
                    ELSE due[k]]
       /\ UNCHANGED <<stake, banned, power, nextReward, trk, pending, processed, gauge, panicked,
                      ratio, stakingVars>>

BeginBlockPower(on, off, ban, A) ==
    /\ phase = "fees" /\ phase' = "txs"
    /\ UpdatePowerDist(on, off, ban, A)
    /\ pending' = AddRewardTrackerEvents(on, off)
    /\ \E c \in {HookFinality(on, off, A, AddRewardTrackerEvents(on, off), co)} :
          Settle(c) /\ panicked' = (panicked \/ c.bad)
    /\ UNCHANGED <<block, nextReward, trk, processed, fees, due, ratio, stakingVars>>

(* WithdrawReward.  A BTC staker withdraws as a costaker too; without a    *)
(* tracker of costaking that part fails, but the period it ended stays.    *)
WithdrawReward(type, a) ==
    LET t == IF type = "BTC" THEN sendAllBtcRewardsToGauge(a, trk) ELSE trk
        c == IF type = "FP" THEN co ELSE costakerWithdrawRewards(a, co)
        K == IF type = "BTC" THEN {<<"BTC", a>>, <<"CO", a>>} ELSE {<<type, a>>}
        g == AddCostakers(AddPaid(gauge, t), c)
        coins == MapThenSumSet(LAMBDA k : Withdrawable(k, g), K)
    IN /\ phase = "txs"
       /\ type = "CO" => ~c.bad
       /\ ~t.bad /\ coins > 0
       /\ trk' = Settled(t)
       /\ co' = SettledCostakers(c)
       /\ gauge' = Withdrawn(K, g)
       /\ bank' = [MoveCoins(PaidTotal(c)) EXCEPT !.incentive = @ - coins]
       /\ UNCHANGED <<envVars, pending, processed, fees, panicked, due, ratio, stakingVars>>

UpdateParams(r) ==
    LET c == UpdateAllCostakersScore(r, co)
    IN /\ phase = "txs" /\ r # ratio
       /\ ratio' = r
       /\ Settle(c)
       /\ UNCHANGED <<envVars, trk, pending, processed, fees, panicked, due, stakingVars>>

-----------------------------------------------------------------------------
Unchanged == UNCHANGED <<block, stake, banned, power, nextReward, trk, pending, processed, fees,
                         panicked, due, ratio>>

SlashValidator(v, burn) == phase = "fees" /\ Slash(v, burn) /\ UNCHANGED phase /\ Unchanged

(* The end of an epoch: BeforeEpochEnds fills the cache.                   *)
BeforeEpochEnds ==
    /\ phase = "txs" /\ phase' = "epoch"
    /\ cachedSet' = {ActiveSet}
    /\ UNCHANGED <<co, gauge, bank, val, share, bonded, valset, cached, hookFailed>> /\ Unchanged

EpochDelegate(u, v, a) == phase = "epoch" /\ Delegate(u, v, a) /\ UNCHANGED phase /\ Unchanged

EpochUndelegate(u, v, a) == phase = "epoch" /\ Undelegate(u, v, a) /\ UNCHANGED phase /\ Unchanged

EpochEnds(new) == phase = "epoch" /\ phase' = "end" /\ AfterEpochEnds(new) /\ Unchanged

NoEpochEnd ==
    /\ phase = "txs" /\ phase' = "end"
    /\ UNCHANGED <<co, gauge, bank, stakingVars>> /\ Unchanged

RewardBlock(h, V) == Reward(h, V) /\ UNCHANGED costakingVars

EndBlock ==
    /\ phase = "end" /\ phase' = "done"
    /\ ClearCache
    /\ UNCHANGED <<co, gauge, bank, val, share, bonded, valset, hookFailed>> /\ Unchanged

(* The changes of stake of a block; all but these are chosen in Steps.     *)
Eligible(on, off, ban) ==
    {ProviderOf[d] : d \in (Active(stake) \union on) \ off} \ (banned \union ban)

Changes ==
    \E on \in SUBSET {d \in Stake : stake[d] = "new"} :
       \E off \in SUBSET (Active(stake) \union on), ban \in SUBSET (Provider \ banned) :
          \E A \in SUBSET Eligible(on, off, ban) : BeginBlockPower(on, off, ban, A)

Steps ==
    \/ \E f \in Fees : BeginBlock(f)
    \/ \E v \in Validator, b \in Burns : SlashValidator(v, b)
    \/ \E p \in Provider : WithdrawReward("FP", p)
    \/ \E u \in Staker, type \in {"BTC", "CO"} : WithdrawReward(type, u)
    \/ \E r \in Ratios : UpdateParams(r)
    \/ BeforeEpochEnds \/ NoEpochEnd
    \/ \E u \in Staker, v \in Validator, a \in Amounts : EpochDelegate(u, v, a) \/ EpochUndelegate(u, v, a)
    \/ \E new \in SUBSET Validator : EpochEnds(new)
    \/ phase = "end" /\ \E h \in nextReward..block, V \in SUBSET Provider : RewardBlock(h, V)
    \/ EndBlock

RewardsNext == Changes \/ Steps

RewardsSpec == RewardsInit /\ [][RewardsNext]_rewardsVars

-----------------------------------------------------------------------------
(* What the trackers would pay if all periods ended now.                   *)
AccruedBtc(u) ==
    LET of(p) == CalculateBTCDelegationRewards(p, u, trk.cur[p].period,
                                               IncrementFinalityProviderPeriod(p, trk))
    IN MapThenSumSet(of, DOMAIN trk.cur)

AccruedCo(u) == CalculateCostakerRewards(u, co.pool.period, IncrementRewardsPeriod(co))

Received(k) == gauge[k].coins + (IF k[1] = "BTC" THEN AccruedBtc(k[2]) ELSE AccruedCo(k[2]))

(* Every coin x/incentive and x/costaking owe is on their accounts: what   *)
(* can be withdrawn, what accrued to stakers and costakers, and the gauges *)
(* of blocks that are still to be rewarded.  Rounding never pays out more  *)
(* than came in, whatever the order of changes, payments and rewards.      *)
RewardsAreBacked ==
    /\ bank.incentive >= MapThenSumSet(LAMBDA k : Withdrawable(k, gauge), DOMAIN gauge)
                          + MapThenSumSet(AccruedBtc, Staker)
                          + MapThenSumSet(LAMBDA h : fees[h].btc + fees[h].fp, DOMAIN fees)
    /\ bank.costaking >= MapThenSumSet(AccruedCo, Staker)

(* A staker gets the share of each rewarded block that its satoshis had    *)
(* at that block, a costaker that of its score when the fees came in: no   *)
(* more, and less only by a coin for each period that was rounded down.    *)
SharesAreExact ==
    \A k \in DOMAIN due :
        LET periods == IF k[1] = "CO" THEN Len(co.hist)
                       ELSE MapThenSumSet(LAMBDA p : Len(trk.hist[p]), DOMAIN trk.hist)
        IN /\ Received(k) * Common <= due[k]
           /\ due[k] <= (Received(k) + periods) * Common

(* The tracker, with the events up to the last rewarded block, has for     *)
(* every provider the satoshis of the distribution cache of that block,    *)
(* and the total of a provider is the sum of its stakers'.                 *)
TrackerMatchesPower ==
    \A p \in DOMAIN trk.cur :
        /\ trk.cur[p].sat = MapThenSumSet(LAMBDA k : trk.del[k].sat, {k \in DOMAIN trk.del : k[1] = p})
        /\ processed > 0 => trk.cur[p].sat = TotalBondedSat(processed, p)

(* Neither the rewarding of a block nor a hook of x/finality ever fails,   *)
(* which would halt the chain.                                             *)
RewardingNeverPanics == ~panicked

(* Between blocks the tracker of a costaker has the satoshis staked to     *)
(* active providers and the tokens delegated to validators of the epoch,   *)
(* and the total score is the sum of the costakers' scores.  (Once a       *)
(* slashing has made shares worth less than a token the tokens are         *)
(* rounded, see StakingHooksSucceed; the scores still follow them.)        *)
ScoresAreCurrent ==
    LET Sats(u) == SatsAmong({d \in Active(stake) : StakerOf[d] = u /\ ProviderOf[d] \in PrevActive})
        Ntk(u) == MapThenSumSet(LAMBDA v : TruncateInt(Tokens(u, v, share)),
                                {v \in bonded : share[<<u, v>>] > 0})
    IN phase = "done" =>
         /\ \A u \in Staker :
               LET t == GetCostakerRewardsOrInitialize(u, co)
               IN /\ t.sats = Sats(u)
                  /\ (\A v \in Validator : ~val[v].cut) => t.ntk = Ntk(u)
                  /\ t.score = CalculateScore(ratio, t.ntk, t.sats)
         /\ co.pool.score = MapThenSumSet(LAMBDA u : co.trk[u].score, DOMAIN co.trk)

(* A validator leaves the set, or a delegation is removed, without an      *)
(* error of costaking's hooks.  Sanitize says the tokens of a costaker can *)
(* be off by one.                                                          *)
StakingHooksSucceed == ~hookFailed
=============================================================================
