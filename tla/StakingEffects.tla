---------------------------- MODULE StakingEffects ----------------------------
(***************************************************************************)
(* What the staking module of the Cosmos SDK does with a message that      *)
(* x/epoching forwards to it, as far as x/epoching depends on it: operators *)
(* on a record of staking state.  Shares are coins, one coin is one unit of *)
(* power, and slashing jails a validator without burning its coins.        *)
(***************************************************************************)
EXTENDS Integers, FiniteSets, FiniteSetsExt

CONSTANTS
    Account,            \* account numbers
    Validator,          \* the accounts that are or may become validators
    MaxValidators,      \* staking parameter
    MaxEntries          \* staking parameter: unbondings of one pair at a time

ASSUME StakingAssumption ==
    /\ Account \subseteq Nat /\ IsFiniteSet(Account)
    /\ Validator \subseteq Account
    /\ MaxValidators \in Nat \ {0} /\ MaxEntries \in Nat \ {0}

(* bal: bank balances; del: bonded coins of a delegator with a validator;  *)
(* ubd, red: the unbonding and redelegation entries; ut: UnbondingTime;    *)
(* val: a validator's status, the time its unbonding ends and the epoch in *)
(* which it began, its power at the last update of the validator set, and  *)
(* the last state that x/epoching recorded for it.                         *)
ValStatus == {"None", "Unbonded", "Unbonding", "Bonded"}
ValLife   == {"NONE", "CREATED", "BONDED", "UNBONDING", "UNBONDED", "REMOVED"}

NoVal == [st |-> "None", at |-> 0, ep |-> 0, jailed |-> FALSE, tomb |-> FALSE,
          last |-> 0, life |-> "NONE"]

Exists(s, v) == s.val[v].st # "None"

Tokens(s, v) == MapThenSumSet(LAMBDA d : s.del[d, v], Account)

Entries(s, d, v) == {u \in s.ubd : u.d = d /\ u.v = v}

(* Unbond: an empty validator that is not bonded any more is removed.      *)
RemoveEmpty(s, v) ==
    IF s.val[v].st = "Unbonded" /\ Tokens(s, v) = 0
    THEN [s EXCEPT !.val[v] = [NoVal EXCEPT !.life = "REMOVED"]]
    ELSE s

ValidateUnbondAmount(s, d, v, amt) == Exists(s, v) /\ s.del[d, v] >= amt

HasReceivingRedelegation(s, d, v) == \E r \in s.red : r.d = d /\ r.dst = v

CanDelegate(s, d, v, amt) == Exists(s, v) /\ s.bal[d] >= amt

Delegate(s, d, v, amt) ==
    [s EXCEPT !.bal[d] = @ - amt, !.del[d, v] = @ + amt]

CanCreate(s, v, amt) == ~Exists(s, v) /\ s.bal[v] >= amt

CreateValidator(s, v, amt) ==
    Delegate([s EXCEPT !.val[v] = [NoVal EXCEPT !.st = "Unbonded", !.life = "CREATED"]],
             v, v, amt)

CanUndelegate(s, d, v, amt) ==
    ValidateUnbondAmount(s, d, v, amt) /\ Cardinality(Entries(s, d, v)) < MaxEntries

(* Entries of one pair that begin in one block are one entry.              *)
Undelegate(s, d, v, amt, now, e) ==
    LET new  == [d |-> d, v |-> v, amt |-> amt, at |-> now + s.ut, h |-> now, ep |-> e]
        same == {u \in Entries(s, d, v) : u.at = new.at /\ u.h = now}
        put  == [new EXCEPT !.amt = amt + MapThenSumSet(LAMBDA u : u.amt, same)]
    IN  RemoveEmpty([s EXCEPT !.del[d, v] = @ - amt, !.ubd = (@ \ same) \union {put}], v)

CanRedelegate(s, d, v, w, amt) ==
    /\ v # w /\ Exists(s, w)
    /\ ValidateUnbondAmount(s, d, v, amt)
    /\ ~HasReceivingRedelegation(s, d, v)
    /\ Cardinality({r \in s.red : r.d = d /\ r.src = v /\ r.dst = w}) < MaxEntries

(* A redelegation ends with the unbonding of its source, and at once when  *)
(* the source is unbonded.                                                 *)
Redelegate(s, d, v, w, amt, now, e) ==
    LET src == s.val[v]
        r   == [d |-> d, src |-> v, dst |-> w,
                at |-> IF src.st = "Unbonding" THEN src.at ELSE now + s.ut,
                ep |-> IF src.st = "Unbonding" THEN src.ep ELSE e]
    IN  RemoveEmpty([s EXCEPT !.del = [@ EXCEPT ![d, v] = @ - amt, ![d, w] = @ + amt],
                              !.red = IF src.st = "Unbonded" THEN @ ELSE @ \union {r}], v)

Cancellable(s, d, v, amt, h, now) ==
    {u \in Entries(s, d, v) : u.h = h /\ u.at > now /\ u.amt >= amt}

CanCancel(s, d, v, amt, h, now) ==
    /\ Exists(s, v) /\ ~s.val[v].jailed
    /\ Cancellable(s, d, v, amt, h, now) # {}

CancelUnbonding(s, d, v, amt, h, now) ==
    LET u == CHOOSE x \in Cancellable(s, d, v, amt, h, now) : TRUE
    IN  [s EXCEPT !.del[d, v] = @ + amt,
                  !.ubd = (@ \ {u}) \union
                          {x \in {[u EXCEPT !.amt = @ - amt]} : x.amt > 0}]

-----------------------------------------------------------------------------
(* ApplyAndReturnValidatorSetUpdates: the strongest validators are bonded, *)
(* the others that were bonded begin to unbond.                            *)
Stronger(s, v, w) ==
    \/ Tokens(s, v) > Tokens(s, w)
    \/ Tokens(s, v) = Tokens(s, w) /\ v < w

Active(s) ==
    LET candidates == {v \in Validator : Exists(s, v) /\ ~s.val[v].jailed /\ Tokens(s, v) > 0}
    IN  {v \in candidates :
            Cardinality({w \in candidates : Stronger(s, w, v)}) < MaxValidators}

UpdateValidatorSet(s, now, e) ==
    LET top == Active(s)
        updated(v) ==
            LET x == s.val[v] IN
            IF v \in top
            THEN [x EXCEPT !.st = "Bonded", !.last = Tokens(s, v),
                           !.life = IF x.st = "Bonded" THEN @ ELSE "BONDED"]
            ELSE IF x.st = "Bonded"
            THEN [x EXCEPT !.st = "Unbonding", !.at = now + s.ut, !.ep = e, !.last = 0,
                           !.life = "UNBONDING"]
            ELSE x
    IN  [s EXCEPT !.val = [v \in Validator |-> updated(v)]]

MatureValidators(s, time) == {v \in Validator : s.val[v].st = "Unbonding" /\ s.val[v].at <= time}

UnbondAllMatureValidators(s, time) ==
    LET mature == MatureValidators(s, time)
    IN  [s EXCEPT !.val = [v \in Validator |->
            IF v \notin mature THEN s.val[v]
            ELSE IF Tokens(s, v) = 0 THEN [NoVal EXCEPT !.life = "REMOVED"]
            ELSE [s.val[v] EXCEPT !.st = "Unbonded"]]]

(* DequeueAllMatureUBDQueue with CompleteUnbonding, and the same for       *)
(* redelegations.                                                          *)
CompleteMature(s, time) ==
    LET mature == {u \in s.ubd : u.at <= time}
        paid(d) == MapThenSumSet(LAMBDA u : u.amt, {u \in mature : u.d = d})
    IN  [s EXCEPT !.ubd = @ \ mature,
                  !.red = {r \in @ : r.at > time},
                  !.bal = [d \in Account |-> @[d] + paid(d)]]
=============================================================================
