------------------------------ MODULE Costaking ------------------------------
(***************************************************************************)
(* x/costaking: accounts that stake both BTC and the native token (ntk)    *)
(* share a portion of the fees by score, min(satoshis, ntk / ratio).       *)
(* Satoshis count while their finality provider is active, tokens while    *)
(* their validator is in the set of the epoch.  One pool of reward periods *)
(* serves all costakers; hooks of x/finality, x/staking and x/epoching     *)
(* keep the tracker of each of them.                                       *)
(*                                                                         *)
(* x/staking is external: validators with tokens and shares, delegations   *)
(* in shares, and decimals of which One is the unit.                       *)
(***************************************************************************)
EXTENDS Incentive

CONSTANTS
    Validator,
    GenesisNtk,         \* [Staker \X Validator -> Nat]: delegations at genesis
    SelfBond,           \* what a validator's operator, no costaker, delegated
    GenesisSet,         \* the validators of the first epoch
    Ratios,             \* values of ScoreRatioBtcByNtk; the first is Ratio
    Ratio,
    CostakingPortion    \* of what x/incentive leaves, in units of 1/One

ASSUME CostakingAssumption ==
    /\ GenesisNtk \in [Staker \X Validator -> Nat]
    /\ SelfBond \in Nat \ {0} /\ GenesisSet \subseteq Validator
    /\ Ratios \subseteq Nat \ {0} /\ Ratio \in Ratios
    /\ CostakingPortion \in 0..One

VARIABLES
    co,             \* the pool and the trackers, see below
    ratio,          \* the parameter ScoreRatioBtcByNtk
    val,            \* x/staking: [Validator -> [tok, sh, cut]]; cut: ever slashed
    share,          \* x/staking: [Staker \X Validator -> shares]
    bonded,         \* x/staking: the validators of the last powers
    valset,         \* the validator set the module stores
    cachedSet,      \* StakingCache: {} or {the validator set}
    cached,         \* StakingCache: <<staker, validator>> -> tokens before the change
    hookFailed      \* history: a hook of x/epoching or x/staking returned an error

stakingVars == <<val, share, bonded, valset, cachedSet, cached, hookFailed>>
costakingVars == <<co, ratio, stakingVars>>

-----------------------------------------------------------------------------
(* co is a record:                                                         *)
(*   pool  [rwd, period, score]: CurrentRewards, rwd with decimals.  It is *)
(*         created at period 1 on first use, with entry 0 of hist          *)
(*   hist  rewards per score, cumulated; hist[n + 1] is that of period n   *)
(*   trk   costaker -> [start, sats, ntk, score]                           *)
(*   paid  costaker -> what was sent to the costaker's gauge, and from the *)
(*         account of this module to that of x/incentive                   *)
(*   bad   an operation returned an error                                  *)

CalculateScore(r, ntk, sats) == Min({sats, ntk \div r})

IncrementRewardsPeriod(c) ==
    LET perScore == IF c.pool.score = 0 THEN 0 ELSE c.pool.rwd \div c.pool.score
    IN [c EXCEPT !.hist = Append(@, @[c.pool.period] + perScore),
                 !.pool = [rwd |-> 0, period |-> @.period + 1, score |-> @.score]]

CalculateCostakerRewards(u, end, c) ==
    IF u \in DOMAIN c.trk /\ c.trk[u].score # 0
    THEN (c.trk[u].score * (c.hist[end + 1] - c.hist[c.trk[u].start + 1])) \div DecimalRewards
    ELSE 0

(* CalculateCostakerRewardsAndSendToGauge, up to the last ended period.    *)
PayCostaker(u, c) ==
    [c EXCEPT !.paid[u] = @ + CalculateCostakerRewards(u, c.pool.period - 1, c)]

initializeCoStakerRwdTracker(u, c) ==
    IF u \in DOMAIN c.trk THEN [c EXCEPT !.trk[u].start = c.pool.period - 1]
    ELSE [c EXCEPT !.bad = TRUE]

costakerWithdrawRewards(u, c) ==
    initializeCoStakerRwdTracker(u, PayCostaker(u, IncrementRewardsPeriod(c)))

GetCostakerRewardsOrInitialize(u, c) ==
    IF u \in DOMAIN c.trk THEN c.trk[u]
    ELSE [start |-> c.pool.period, sats |-> 0, ntk |-> 0, score |-> 0]

(* Sanitize: a rounding error of one token.                                *)
Sanitize(n) == IF n = -1 THEN 0 ELSE n

costakerModified(u, dsats, dntk, c) ==
    LET old == GetCostakerRewardsOrInitialize(u, c)
        sats == old.sats + dsats
        ntk == Sanitize(old.ntk + dntk)
        score == CalculateScore(ratio, ntk, sats)
        Set(x) == [x EXCEPT !.trk = (u :> [old EXCEPT !.sats = sats, !.ntk = ntk, !.score = score]) @@ @]
        paid == Set(PayCostaker(u, IncrementRewardsPeriod(c)))
        total == c.pool.score + score - old.score
    IN IF sats < 0 \/ ntk < 0 THEN [c EXCEPT !.bad = TRUE]
       ELSE IF score = old.score THEN Set(c)
       ELSE IF total < 0 THEN [paid EXCEPT !.bad = TRUE]
       ELSE initializeCoStakerRwdTracker(u, [paid EXCEPT !.pool.score = total])

(* A hook modifies costakers one after another and stops at an error.      *)
Modify(changes, c) ==
    FoldLeft(LAMBDA x, m : IF x.bad THEN x ELSE costakerModified(m.u, m.sats, m.ntk, x), c, changes)

(* UpdateAllCostakersScore: pays those whose score changes.                *)
UpdateAllCostakersScore(r, c) ==
    LET New(u) == CalculateScore(r, c.trk[u].ntk, c.trk[u].sats)
        Rescore(u, x) ==
            IF New(u) = c.trk[u].score THEN x
            ELSE initializeCoStakerRwdTracker(u, [PayCostaker(u, x) EXCEPT !.trk[u].score = New(u)])
        scored == FoldSet(Rescore, IncrementRewardsPeriod(c), DOMAIN c.trk)
    IN [IncrementRewardsPeriod(scored) EXCEPT !.pool.score = MapThenSumSet(New, DOMAIN c.trk)]

(* What was paid moves to the gauges, and between the module accounts.     *)
PaidTotal(c) == MapThenSumSet(LAMBDA u : c.paid[u], Staker)

SettledCostakers(c) == [c EXCEPT !.paid = [u \in Staker |-> 0], !.bad = FALSE]

AddCostakers(g, c) ==
    [k \in DOMAIN g |-> IF k[1] = "CO" THEN [g[k] EXCEPT !.coins = @ + c.paid[k[2]]] ELSE g[k]]

MoveCoins(n) == [bank EXCEPT !.costaking = @ - n, !.incentive = @ + n]

Settle(c) ==
    /\ co' = SettledCostakers(c)
    /\ gauge' = AddCostakers(gauge, c)
    /\ bank' = MoveCoins(PaidTotal(c))

-----------------------------------------------------------------------------
(* The hooks of x/finality, in the order UpdatePowerDist calls them:       *)
(* activations, unbondings, providers that become active, those that stop. *)
(* evts are the events of the reward tracker, this block's included.       *)
DelegationChanges(D, sign) ==
    LET counted == {d \in D : ProviderOf[d] \in PrevActive}
    IN Ordered({[u |-> StakerOf[d], sats |-> sign * SatsOf[d], ntk |-> 0, d |-> d] : d \in counted})

Delegators(p, evts) ==
    {u \in Staker : \/ <<p, u>> \in DOMAIN trk.del
                    \/ \E h \in DOMAIN evts : h > processed /\ \E i \in DOMAIN evts[h] :
                          ProviderOf[evts[h][i].d] = p /\ StakerOf[evts[h][i].d] = u}

ProviderChanges(P, sign, evts) ==
    LET of(p) == Ordered({[u |-> u, sats |-> sign * SatsUpdated(u, p, evts), ntk |-> 0] :
                             u \in Delegators(p, evts)})
    IN FoldSet(LAMBDA p, s : s \o of(p), <<>>, P)

HookFinality(on, off, A, evts, c) ==
    Modify(DelegationChanges(on, 1) \o DelegationChanges(off, -1)
             \o ProviderChanges(A \ PrevActive, 1, evts)
             \o ProviderChanges(PrevActive \ A, -1, evts), c)
-----------------------------------------------------------------------------
(* x/staking.  Decimals are multiples of 1/One; a quotient of decimals is  *)
(* rounded half to even, that of a decimal and an integer truncated.       *)
Quo(x, y) ==
    LET q == (x * One) \div y
        digits == (((x * One) % y) * One) \div y
    IN IF 2 * digits > One \/ (2 * digits = One /\ q % 2 = 1) THEN q + 1 ELSE q

TokensFromShares(s, v) == Quo(s * v.tok, v.sh)
SharesFromTokens(a, v) == (v.sh * a) \div v.tok

(* TruncateInt: towards zero.                                              *)
TruncateInt(x) == IF x >= 0 THEN x \div One ELSE -((-x) \div One)

Tokens(u, v, x) == TokensFromShares(x[<<u, v>>], val[v])

(* isActiveValidator reads the set through the cache and fills it.         *)
ActiveSet == IF cachedSet = {} THEN valset ELSE CHOOSE V \in cachedSet : TRUE

(* BeforeDelegationSharesModified: caches the tokens of a delegation.      *)
BeforeModified(u, v) ==
    IF v \in ActiveSet /\ share[<<u, v>>] > 0
    THEN (<<u, v>> :> Tokens(u, v, share)) @@ cached ELSE cached

CachedTokens(k, x) == IF k \in DOMAIN x THEN x[k] ELSE 0

Without(k, x) == [j \in DOMAIN x \ {k} |-> x[j]]

(* AfterDelegationModified and BeforeDelegationRemoved: the change of the  *)
(* costaker's tokens, when the validator has v of tokens and shares and    *)
(* the delegation s of shares.                                             *)
AfterModified(u, v, w, s) ==
    IF v \notin ActiveSet THEN 0
    ELSE TruncateInt(TokensFromShares(s, w) - CachedTokens(<<u, v>>, BeforeModified(u, v)))

BeforeRemoved(u, v) == IF v \notin ActiveSet THEN 0 ELSE -TruncateInt(Tokens(u, v, share))

NtkChange(u, n) == <<[u |-> u, sats |-> 0, ntk |-> n]>>

(* A message of the epoch: it takes effect only if the hooks succeed, but  *)
(* the cache is memory of the node and keeps what they did to it.          *)
Message(u, v, n, share2, val2) ==
    LET c == IF v \in ActiveSet THEN Modify(NtkChange(u, n), co) ELSE co
    IN /\ cachedSet' = {ActiveSet}
       /\ cached' = Without(<<u, v>>, BeforeModified(u, v))
       /\ IF c.bad THEN hookFailed' = TRUE /\ UNCHANGED <<co, gauge, bank, share, val>>
          ELSE Settle(c) /\ share' = share2 /\ val' = val2 /\ UNCHANGED hookFailed
       /\ UNCHANGED <<bonded, valset>>

Delegate(u, v, a) ==
    LET issued == SharesFromTokens(a, val[v])
        w == [val[v] EXCEPT !.tok = @ + a, !.sh = @ + issued]
        s == share[<<u, v>>] + issued
    IN /\ val[v].tok > 0
       /\ Message(u, v, AfterModified(u, v, w, s), [share EXCEPT ![<<u, v>>] = s],
                  [val EXCEPT ![v] = w])

(* Unbond: the hooks run before the validator loses tokens and shares.     *)
Undelegate(u, v, a) ==
    LET mine == share[<<u, v>>]
        s == Min({SharesFromTokens(a, val[v]), mine})
        out == IF s = val[v].sh THEN val[v].tok ELSE TruncateInt(TokensFromShares(s, val[v]))
        n == IF s = mine THEN BeforeRemoved(u, v) ELSE AfterModified(u, v, val[v], mine - s)
    IN /\ val[v].tok > 0 /\ s > 0
       /\ Message(u, v, n, [share EXCEPT ![<<u, v>>] = mine - s],
                  [val EXCEPT ![v].tok = @ - out, ![v].sh = @ - s])

(* Slash burns tokens of v; the hook is told the fraction, rounded up.  An *)
(* error of the hook is logged and leaves what it did before.              *)
Slash(v, burn) ==
    LET fraction == (burn * One + val[v].tok - 1) \div val[v].tok
        lost(u) == (fraction * TruncateInt(Tokens(u, v, share))) \div One
        D == {u \in Staker : share[<<u, v>>] > 0}
        hit == Ordered({[u |-> u, sats |-> 0, ntk |-> -lost(u)] : u \in D})
        c == IF v \in ActiveSet THEN Modify(hit, co) ELSE co
    IN /\ burn \in 1..val[v].tok
       /\ cachedSet' = {ActiveSet}
       /\ Settle(c)
       /\ hookFailed' = (hookFailed \/ c.bad)
       /\ val' = [val EXCEPT ![v].tok = @ - burn, ![v].cut = TRUE]
       /\ UNCHANGED <<share, bonded, valset, cached>>

(* AfterEpochEnds, once x/staking moved to the validators of `new'.  An    *)
(* error stops the hook and is only logged: the stored set stays.          *)
EpochChanges(V, sign) ==
    LET of(v) == Ordered({[u |-> u, sats |-> 0, ntk |-> sign * TruncateInt(Tokens(u, v, share))] :
                             u \in {u \in Staker : share[<<u, v>>] > 0}})
    IN FoldSet(LAMBDA v, s : s \o of(v), <<>>, V)

AfterEpochEnds(new) ==
    LET c == Modify(EpochChanges(new \ ActiveSet, 1) \o EpochChanges(ActiveSet \ new, -1), co)
    IN /\ new # {} /\ \A v \in new : val[v].tok > 0
       /\ bonded' = new
       /\ Settle(c)
       /\ valset' = IF c.bad THEN valset ELSE new
       /\ hookFailed' = (hookFailed \/ c.bad)
       /\ cachedSet' = {ActiveSet}
       /\ UNCHANGED <<val, share, cached>>

(* EndBlock of x/costaking.                                                *)
ClearCache == cachedSet' = {} /\ cached' = <<>>

(* HandleCoinsInFeeCollector: rest is what x/incentive left there.         *)
CoinsForCostakers(rest) == GetCoinsPortion(rest, CostakingPortion)

AddRewardsForCostakers(coins, c) == [c EXCEPT !.pool.rwd = @ + coins * DecimalRewards]
=============================================================================
