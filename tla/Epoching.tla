------------------------------- MODULE Epoching -------------------------------
(***************************************************************************)
(* x/epoching: the chain is cut into epochs.  A staking message waits, its *)
(* coins locked in the delegation pool, until the last block of its epoch, *)
(* the validator set is fixed within an epoch, and an unbonding ends when  *)
(* the checkpoint of its epoch is final on Bitcoin.  A block is BeginBlock *)
(* (slashing, evidence, then epoching), the messages, and EndBlock         *)
(* (epoching, then x/btccheckpoint, which finalises epochs).  Every block  *)
(* is one unit of time later than its parent.                              *)
(***************************************************************************)
EXTENDS StakingEffects, Sequences, SequencesExt

CONSTANTS
    Coins,          \* the balance of an account at genesis
    GenesisPower,   \* [Validator -> Nat]: self-delegations; 0: not a validator yet
    Intervals,      \* the values governance gives EpochInterval
    UnbondingTimes, \* the values governance gives UnbondingTime
    Kinds,          \* the kinds of staking messages users send
    Faults,         \* which faults of validators are slashed
    MaxHeight,      \* bound: the last block
    MaxQueue        \* bound: messages in one epoch

ASSUME EpochingAssumption ==
    /\ Coins \in Nat /\ MaxHeight \in Nat /\ MaxQueue \in Nat
    /\ GenesisPower \in [Validator -> Nat]
    /\ Intervals \subseteq Nat /\ \A i \in Intervals : i >= 2
    /\ UnbondingTimes \subseteq Nat
    /\ Kinds \subseteq {"Delegate", "Undelegate", "Redelegate", "Cancel", "Create", "Params"}
    /\ Faults \subseteq {"downtime", "doublesign"}

VARIABLES
    height, ended,  \* the current block; its EndBlock of x/epoching has run
    epochs,         \* the metadata of every epoch, the current one last
    interval,       \* parameter EpochInterval
    queue,          \* the messages of the current epoch
    pool,           \* the balance of the delegation pool
    stk,            \* the state of the staking module
    valSet,         \* the powers recorded for the current epoch
    slashed,        \* the slashed validators and power of the current epoch
    fired,          \* ghost: how often each threshold hook ran in this epoch
    lastFin         \* the last epoch whose checkpoint is final

epochingVars == <<height, ended, epochs, interval, queue, pool, stk, valSet, slashed, fired, lastFin>>

Thresholds == {33, 67}      \* per cent of the voting power

NewEpoch(i, first) == [interval |-> i, first |-> first, lastTime |-> 0]

cur == Len(epochs) - 1      \* GetEpoch: the epoch with the largest number

EpochInfo(e) == epochs[e + 1]

GetLastBlockHeight(e) ==
    IF e = 0 THEN 0 ELSE EpochInfo(e).first + EpochInfo(e).interval - 1

IsLastBlock(h) == GetLastBlockHeight(cur) = h

IsFirstBlockOfNextEpoch(h) ==
    IF cur = 0 THEN h = 1 ELSE EpochInfo(cur).first + EpochInfo(cur).interval = h

WithinBoundary(e, h) == h >= EpochInfo(e).first /\ h <= GetLastBlockHeight(e)

CalculateEpochNumber(h, i) == IF h = 0 THEN 0 ELSE ((h - 1) \div i) + 1

GetEpochNumByHeight(h) == CalculateEpochNumber(h, interval)

TotalPower(set) == MapThenSumSet(LAMBDA v : valSet[v], set)

-----------------------------------------------------------------------------
EpochingInit ==
    /\ height = 0 /\ ended = TRUE
    /\ epochs = <<NewEpoch(1, 0)>>
    /\ interval \in Intervals
    /\ queue = <<>> /\ pool = 0
    /\ \E ut \in UnbondingTimes :
         stk = UpdateValidatorSet(
                 [bal |-> [d \in Account |-> Coins],
                  del |-> [p \in Account \X Validator |->
                             IF p[1] = p[2] THEN GenesisPower[p[2]] ELSE 0],
                  ubd |-> {}, red |-> {}, ut |-> ut,
                  val |-> [v \in Validator |->
                             IF GenesisPower[v] = 0 THEN NoVal
                             ELSE [NoVal EXCEPT !.st = "Unbonded", !.life = "CREATED"]]], 0, 0)
    /\ valSet = [v \in Validator |-> stk.val[v].last]
    /\ slashed = [set |-> {}, power |-> 0]
    /\ fired = [t \in Thresholds |-> 0]
    /\ lastFin = 0

-----------------------------------------------------------------------------
(* The message servers.  NewQueuedMessage records the message; coins move  *)
(* to the pool at once for the two kinds that bond coins.                  *)
Msg(k, d, v, w, amt, x) == [k |-> k, d |-> d, v |-> v, w |-> w, amt |-> amt, x |-> x]

LocksFunds(m) == m.k \in {"Delegate", "Create"}

LockFundsForDelegateMsgs(s, p, m) ==
    IF LocksFunds(m) THEN [s |-> [s EXCEPT !.bal[m.d] = @ - m.amt], p |-> p + m.amt]
    ELSE [s |-> s, p |-> p]

EnqueueMsg(m) ==
    LET locked == LockFundsForDelegateMsgs(stk, pool, m)
    IN  /\ ~ended /\ m.k \in Kinds /\ Len(queue) < MaxQueue
        /\ stk' = locked.s /\ pool' = locked.p
        /\ queue' = Append(queue, m)
        /\ UNCHANGED <<height, ended, epochs, interval, valSet, slashed, fired, lastFin>>

WrappedDelegate(d, v) ==
    /\ Exists(stk, v) /\ stk.bal[d] >= 1
    /\ EnqueueMsg(Msg("Delegate", d, v, v, 1, 0))

WrappedUndelegate(d, v) ==
    /\ CanUndelegate(stk, d, v, 1)
    /\ EnqueueMsg(Msg("Undelegate", d, v, v, 1, 0))

(* The destination is not looked up before the epoch ends.                 *)
WrappedBeginRedelegate(d, v, w) ==
    /\ ValidateUnbondAmount(stk, d, v, 1) /\ ~HasReceivingRedelegation(stk, d, v)
    /\ Cardinality({r \in stk.red : r.d = d /\ r.src = v /\ r.dst = w}) < MaxEntries
    /\ EnqueueMsg(Msg("Redelegate", d, v, w, 1, 0))

(* Neither the entry nor its height is looked up before the epoch ends.    *)
CancelHeights == {1} \union {u.h : u \in stk.ubd}

WrappedCancelUnbondingDelegation(d, v, h) ==
    EnqueueMsg(Msg("Cancel", d, v, v, 1, h))

(* The balance must be larger than the self-delegation.                    *)
CheckMsgCreateValidator(v, amt) == ~Exists(stk, v) /\ stk.bal[v] > amt

(* Of x/checkpointing: the BLS key is registered as well; a second message *)
(* with the same key is let in.                                            *)
WrappedCreateValidator(v) ==
    /\ CheckMsgCreateValidator(v, 1)
    /\ EnqueueMsg(Msg("Create", v, v, v, 1, 0))

WrappedStakingUpdateParams(ut) ==
    EnqueueMsg(Msg("Params", 0, 0, 0, 0, ut))

(* A proposal changes EpochInterval; the current epoch keeps its own.      *)
EpochingUpdateParams(i) ==
    /\ ~ended /\ i # interval
    /\ interval' = i
    /\ UNCHANGED <<height, ended, epochs, queue, pool, stk, valSet, slashed, fired, lastFin>>

-----------------------------------------------------------------------------
(* Hook of the staking module.  The sum so far is compared with each       *)
(* threshold before this validator is added to it.                         *)
Crossed(t, sum, v) ==
    LET total == TotalPower(Validator)
    IN  100 * sum < t * total /\ t * total <= 100 * (sum + valSet[v])

(* A validator outside the set of the epoch is not counted.                *)
BeforeValidatorSlashed(sl, v) ==
    IF valSet[v] = 0 THEN sl
    ELSE [set   |-> sl.set \union {v},
          power |-> sl.power + valSet[v],
          fired |-> [t \in Thresholds |-> sl.fired[t] + (IF Crossed(t, sl.power, v) THEN 1 ELSE 0)]]

(* The faults that the slashing and evidence modules punish in BeginBlock. *)
Slashable(f) ==
    {v \in Validator :
        /\ stk.val[v].st \in {"Bonded", "Unbonding"}
        /\ f = "downtime"   => stk.val[v].last > 0 /\ ~stk.val[v].jailed
        /\ f = "doublesign" => ~stk.val[v].tomb}

Jail(s, v, f) ==
    [s EXCEPT !.val[v].jailed = TRUE, !.val[v].tomb = @ \/ f = "doublesign"]

(* slashed' and the staking state after a fault of v (f = "none": none).   *)
AfterFault(f, v) ==
    IF f = "none"
    THEN [sl |-> [set |-> slashed.set, power |-> slashed.power, fired |-> fired], s |-> stk]
    ELSE [sl |-> BeforeValidatorSlashed([set |-> slashed.set, power |-> slashed.power,
                                         fired |-> fired], v),
          s  |-> Jail(stk, v, f)]

InitValidatorSet(s) == [v \in Validator |-> s.val[v].last]

InitSlashedVotingPower(sl) == [set |-> {}, power |-> 0]

(* Mutation: the new epoch starts after its first block. *)
StartsLate(h) == NewEpoch(interval, h + 1)

IncEpoch(h) == NewEpoch(interval, h)

BeginBlock(f, v) ==
    LET h == height + 1
        a == AfterFault(f, v)
    IN  /\ ended /\ height < MaxHeight
        /\ \E w \in Validator : stk.val[w].last > 0    \* CometBFT needs a validator
        /\ f = "none" \/ (f \in Faults /\ v \in Slashable(f))
        /\ height' = h /\ ended' = FALSE
        /\ stk' = a.s
        /\ IF IsFirstBlockOfNextEpoch(h)
           THEN /\ epochs' = Append(epochs, IncEpoch(h))
                /\ queue' = <<>>
                /\ slashed' = InitSlashedVotingPower(slashed)
                /\ fired' = [t \in Thresholds |-> 0]
                /\ valSet' = InitValidatorSet(a.s)
           ELSE /\ slashed' = [set |-> a.sl.set, power |-> a.sl.power]
                /\ fired' = a.sl.fired
                /\ UNCHANGED <<epochs, queue, valSet>>
        /\ UNCHANGED <<interval, pool, lastFin>>

-----------------------------------------------------------------------------
(* runUnwrappedMsg: the effects are written only when the handler of the   *)
(* staking module succeeds.                                                *)
HandleQueuedMsg(s, m) ==
    CASE m.k = "Delegate" ->
            IF CanDelegate(s, m.d, m.v, m.amt) THEN Delegate(s, m.d, m.v, m.amt) ELSE s
      [] m.k = "Undelegate" ->
            IF CanUndelegate(s, m.d, m.v, m.amt)
            THEN Undelegate(s, m.d, m.v, m.amt, height, cur) ELSE s
      [] m.k = "Redelegate" ->
            IF CanRedelegate(s, m.d, m.v, m.w, m.amt)
            THEN Redelegate(s, m.d, m.v, m.w, m.amt, height, cur) ELSE s
      [] m.k = "Cancel" ->
            IF CanCancel(s, m.d, m.v, m.amt, m.x, height)
            THEN CancelUnbonding(s, m.d, m.v, m.amt, m.x, height) ELSE s
      [] m.k = "Create" ->
            IF CanCreate(s, m.v, m.amt) THEN CreateValidator(s, m.v, m.amt) ELSE s
      [] m.k = "Params" -> [s EXCEPT !.ut = m.x]

(* Mutation: a message that will fail keeps its coins locked. *)
UnlocksOnSuccess(s, p, m) ==
    IF LocksFunds(m) /\ (m.k = "Delegate" => Exists(s, m.v)) /\ (m.k = "Create" => ~Exists(s, m.v))
    THEN [s |-> [s EXCEPT !.bal[m.d] = @ + m.amt], p |-> p - m.amt]
    ELSE [s |-> s, p |-> p]

UnlockFundsForDelegateMsgs(s, p, m) ==
    IF LocksFunds(m) THEN [s |-> [s EXCEPT !.bal[m.d] = @ + m.amt], p |-> p - m.amt]
    ELSE [s |-> s, p |-> p]

(* A message whose coins cannot be unlocked is skipped.                    *)
RunMsg(acc, m) ==
    IF LocksFunds(m) /\ acc.p < m.amt THEN acc
    ELSE LET u == UnlockFundsForDelegateMsgs(acc.s, acc.p, m)
         IN  [s |-> HandleQueuedMsg(u.s, m), p |-> u.p]

RunQueue(q) == FoldLeft(RunMsg, [s |-> stk, p |-> pool], q)

EpochingEndBlock ==
    /\ ~ended
    /\ ended' = TRUE
    /\ IF IsLastBlock(height)
       THEN \E r \in {RunQueue(queue)} :
              /\ pool' = r.p
              /\ stk' = UpdateValidatorSet(r.s, height, cur)
              /\ epochs' = [epochs EXCEPT ![cur + 1].lastTime = height]
       ELSE UNCHANGED <<epochs, pool, stk>>
    /\ UNCHANGED <<height, interval, queue, valSet, slashed, fired, lastFin>>

(* Mutation: the offset is added to the time of this block. *)
FinalizedTimeNow(e) == height + stk.ut

(* The time offset that nullifies UnbondingTime.                           *)
FinalizedTime(e) == EpochInfo(e).lastTime + stk.ut

RecordNewValState(s, vs, state) ==
    [s EXCEPT !.val = [v \in Validator |->
        IF v \in vs THEN [s.val[v] EXCEPT !.life = state] ELSE s.val[v]]]

(* The validators recorded as UNBONDED are those whose time has come at    *)
(* this block, not those that this call unbonds.                           *)
ApplyMatureUnbonding(e) ==
    LET recorded == RecordNewValState(UnbondAllMatureValidators(stk, FinalizedTime(e)),
                                      MatureValidators(stk, height), "UNBONDED")
    IN  CompleteMature(recorded, FinalizedTime(e))

(* x/btccheckpoint finalises the sealed epochs in order; the hook of       *)
(* x/checkpointing then runs ApplyMatureUnbonding.                         *)
AfterRawCheckpointFinalized(e) ==
    /\ ended /\ e < cur /\ e = lastFin + 1
    /\ lastFin' = e
    /\ stk' = ApplyMatureUnbonding(e)
    /\ UNCHANGED <<height, ended, epochs, interval, queue, pool, valSet, slashed, fired>>

EpochingNext ==
    \/ \E f \in {"none"} \union Faults, v \in Validator : BeginBlock(f, v)
    \/ EpochingEndBlock
    \/ \E d \in Account, v \in Validator : WrappedDelegate(d, v)
    \/ \E d \in Account, v \in Validator : WrappedUndelegate(d, v)
    \/ \E d \in Account, v, w \in Validator : WrappedBeginRedelegate(d, v, w)
    \/ \E d \in Account, v \in Validator, h \in CancelHeights : WrappedCancelUnbondingDelegation(d, v, h)
    \/ \E v \in Validator : WrappedCreateValidator(v)
    \/ \E ut \in UnbondingTimes : WrappedStakingUpdateParams(ut)
    \/ \E i \in Intervals : EpochingUpdateParams(i)
    \/ \E e \in 1..MaxHeight : AfterRawCheckpointFinalized(e)

EpochingSpec == EpochingInit /\ [][EpochingNext]_epochingVars

-----------------------------------------------------------------------------
(* Every variable has the shape of the store it stands for.                *)
EpochingTypeOK ==
    /\ height \in 0..MaxHeight /\ ended \in BOOLEAN
    /\ \A e \in 0..cur : EpochInfo(e).interval >= 1 /\ EpochInfo(e).first \in Nat
    /\ interval \in Intervals /\ Len(queue) <= MaxQueue
    /\ pool \in Nat /\ lastFin \in 0..cur
    /\ stk.bal \in [Account -> Nat] /\ stk.del \in [Account \X Validator -> Nat]
    /\ \A u \in stk.ubd : u.amt > 0
    /\ \A v \in Validator : stk.val[v].st \in ValStatus /\ stk.val[v].life \in ValLife
    /\ slashed.set \subseteq Validator

Sum(f(_), set) == MapThenSumSet(f, set)

Held ==
    Sum(LAMBDA d : stk.bal[d], Account) + pool
    + Sum(LAMBDA v : Tokens(stk, v), Validator) + Sum(LAMBDA u : u.amt, stk.ubd)

(* Coins that are locked in the delegation pool and released at the end of *)
(* the epoch are neither created nor lost, whichever queued messages fail; *)
(* the pool holds exactly the coins of the messages that still wait, and   *)
(* is empty once the last block of the epoch has run them.                 *)
FundsAccounted ==
    /\ EpochingTypeOK
    /\ Held = Coins * Cardinality(Account) + Sum(LAMBDA v : GenesisPower[v], Validator)
    /\ pool = IF ended /\ IsLastBlock(height) THEN 0
              ELSE Sum(LAMBDA i : IF LocksFunds(queue[i]) THEN queue[i].amt ELSE 0, DOMAIN queue)

(* ApplyMatureUnbonding ends every unbonding and redelegation, and unbonds *)
(* every validator, that began in an epoch whose checkpoint is final, and  *)
(* no unbonding ends before the checkpoint of its epoch is final: the      *)
(* UnbondingTime of the staking module plays no part.                      *)
UnbondingFollowsFinality ==
    /\ [](/\ \A u \in stk.ubd : u.ep > lastFin
          /\ \A r \in stk.red : r.ep > lastFin
          /\ \A v \in Validator : stk.val[v].st = "Unbonding" => stk.val[v].ep > lastFin)
    /\ [][lastFin' # lastFin =>
             /\ \A u \in stk.ubd \ stk'.ubd : u.ep <= lastFin'
             /\ \A v \in Validator : stk.val[v].st = "Unbonding" /\ stk'.val[v].st # "Unbonding"
                                        => stk.val[v].ep <= lastFin']_epochingVars

(* An epoch is one range of heights and one validator set.  Every height   *)
(* so far belongs to exactly one epoch, also when governance changes the   *)
(* interval in the middle of one; GetEpochNumByHeight, on which x/finality *)
(* relies to know whether a block is timestamped, returns that epoch if    *)
(* all epochs so far were made with today's EpochInterval.  The powers     *)
(* that checkpoints are signed with are those of the validators CometBFT   *)
(* runs with, from the first block of the epoch to its last; and the hook  *)
(* of a threshold runs once in an epoch, when the validators slashed in it *)
(* hold that much of the voting power, and not before.                     *)
EpochsPartition ==
    /\ \A h \in 1..height :
          /\ Cardinality({e \in 0..cur : WithinBoundary(e, h)}) = 1
          /\ (\A e \in 1..cur : EpochInfo(e).interval = interval) =>
                GetEpochNumByHeight(h) \in 0..cur /\ WithinBoundary(GetEpochNumByHeight(h), h)
    /\ ~(ended /\ IsLastBlock(height)) => \A v \in Validator : valSet[v] = stk.val[v].last
    /\ \A t \in Thresholds :
          fired[t] = IF 100 * TotalPower(slashed.set) >= t * TotalPower(Validator) THEN 1 ELSE 0
=============================================================================
