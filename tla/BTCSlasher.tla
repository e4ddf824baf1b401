----------------------------- MODULE BTCSlasher -----------------------------
(***************************************************************************)
(* The two slashers of the vigilante's BTC staking tracker.  The BTC       *)
(* slasher reads the evidence of equivocation that the chain lists, from   *)
(* the height after the last one it has handled, and starts a goroutine    *)
(* for every delegation of an offender; the goroutine tries to slash the   *)
(* staking output and the output of the unbonding transaction at the same  *)
(* time.  The atomic slasher looks for slashing transactions in Bitcoin    *)
(* blocks: one of a provider without evidence reveals its key, and the     *)
(* other delegations of the provider are slashed too.                      *)
(***************************************************************************)
EXTENDS Integers, FiniteSets

CONSTANTS
    Offenders,     \* finality providers
    FpOf,          \* the provider of each delegation
    MaxEvidence,   \* bound: heights of evidence
    MaxFailures,   \* bound: calls that fail
    MaxKills       \* bound: ends of the process

Secured == DOMAIN FpOf

ASSUME SlasherAssumption ==
    /\ \A d \in Secured : FpOf[d] \in Offenders
    /\ MaxEvidence \in Nat /\ MaxFailures \in Nat /\ MaxKills \in Nat

VARIABLES
    evidence,         \* height of the first evidence against a provider, 0: none
    slashedFps,       \* providers slashed on the chain
    delState,         \* "ACTIVE", "UNBONDED" or "EXPIRED"
    coin,             \* where the stake is: "staked", "unbonding" (in the output of the
                      \*   unbonding transaction), "gone", or being slashed (in the mempool) or
                      \*   slashed (in a block) from one of the outputs
    exposed,          \* providers that have sent a slashing transaction themselves
    slasher,          \* "down", "boot" or "run"
    bsHeight,         \* bs.height
    storedHeight,     \* the height in the store, 0: none
    round,            \* processEvidencesFromHeight: [on, todo, last, err]
    jobs,             \* goroutines of slashBTCDelegation, two at most for a delegation
    index,            \* btcDelIndex
    slashingTxChan,   \* delegations whose slashing transaction was seen in a block
    slashedFPSKChan,  \* providers whose key was extracted
    failures, kills,
    missed            \* history: delegations that the slashers lost sight of

slasherSide == <<slasher, bsHeight, storedHeight, round>>
atomicSide == <<index, slashingTxChan, slashedFPSKChan>>
chainView == <<evidence, slashedFps, delState>>
slasherVars == <<chainView, coin, exposed, slasherSide, jobs, atomicSide, failures, kills, missed>>

NoRound == [on |-> FALSE, todo |-> {}, last |-> 0, err |-> FALSE]
NoJob == [staking |-> "none", unbonding |-> "none"]
NewJob == [staking |-> "try", unbonding |-> "try"]
Paths == {"staking", "unbonding"}
Source(path) == IF path = "staking" THEN "staked" ELSE "unbonding"
InMempool(path) == IF path = "staking" THEN "slashing" ELSE "uslashing"
InBlock(path) == IF path = "staking" THEN "slashed" ELSE "uslashed"
Unslashed == {"staked", "unbonding"}
DelsOf(p) == {d \in Secured : FpOf[d] = p}

SlasherInit ==
    /\ evidence = [p \in Offenders |-> 0] /\ slashedFps = {} /\ exposed = {}
    /\ delState \in [Secured -> {"ACTIVE", "EXPIRED"}] /\ coin = [d \in Secured |-> "staked"]
    /\ slasher = "down" /\ bsHeight = 0 /\ storedHeight = 0 /\ round = NoRound
    /\ jobs = [d \in Secured |-> [i \in 1..2 |-> NoJob]]
    /\ index = {} /\ slashingTxChan = {} /\ slashedFPSKChan = {}
    /\ failures = 0 /\ kills = 0 /\ missed = {}

Fails == failures < MaxFailures /\ failures' = failures + 1

-----------------------------------------------------------------------------
(* Bitcoin, the chain and the process *)

(* AddFinalitySig: the provider is slashed with its first evidence.  The   *)
(* slasher goes on from above the greatest height it was given, and loses  *)
(* sight of evidence that arrives with a smaller or the same height.       *)
AddEvidence(p, h) ==
    /\ p \notin slashedFps
    /\ evidence' = [evidence EXCEPT ![p] = h] /\ slashedFps' = slashedFps \cup {p}
    /\ missed' = IF \E q \in Offenders : evidence[q] >= h THEN missed \cup DelsOf(p) ELSE missed
    /\ UNCHANGED <<delState, coin, exposed, slasherSide, jobs, atomicSide, failures, kills>>

(* The chain learns of an unbonding, or a stake nears the end of its       *)
(* timelock.                                                               *)
ChangeState(d) ==
    /\ delState[d] = "ACTIVE"
    /\ \/ coin[d] # "staked" /\ delState' = [delState EXCEPT ![d] = "UNBONDED"]
       \/ coin[d] = "staked" /\ delState' = [delState EXCEPT ![d] = "EXPIRED"]
    /\ UNCHANGED <<evidence, slashedFps, coin, exposed, slasherSide, jobs, atomicSide,
                   failures, kills, missed>>

(* The staker unbonds, or withdraws after a timelock. *)
StakerMoves(d) ==
    /\ \/ coin[d] = "staked" /\ coin' = [coin EXCEPT ![d] = "unbonding"]
       \/ coin[d] = "unbonding" /\ coin' = [coin EXCEPT ![d] = "gone"]
       \/ coin[d] = "staked" /\ delState[d] = "EXPIRED" /\ coin' = [coin EXCEPT ![d] = "gone"]
    /\ UNCHANGED <<chainView, exposed, slasherSide, jobs, atomicSide, failures, kills, missed>>

(* A provider signs and sends the slashing transaction of one delegation.  *)
SelectiveSlashing(d, path) ==
    /\ exposed = {} /\ FpOf[d] \notin slashedFps /\ coin[d] = Source(path)
    /\ coin' = [coin EXCEPT ![d] = InMempool(path)] /\ exposed' = {FpOf[d]}
    /\ UNCHANGED <<chainView, slasherSide, jobs, atomicSide, failures, kills, missed>>

(* A block with the slashing transaction of d.  slashingTxTracker looks up *)
(* the transactions of the block, unless the block cannot be fetched.      *)
SlashingTxTracker(d, path) ==
    LET found == slasher = "run" /\ d \in index
    IN  /\ coin[d] = InMempool(path) /\ coin' = [coin EXCEPT ![d] = InBlock(path)]
        /\ \/ /\ found /\ slashingTxChan' = slashingTxChan \cup {d}
              /\ UNCHANGED <<missed, failures>>
           \/ /\ IF found THEN Fails ELSE UNCHANGED failures
              /\ missed' = IF FpOf[d] \in slashedFps THEN missed ELSE missed \cup DelsOf(FpOf[d])
              /\ UNCHANGED slashingTxChan
        /\ UNCHANGED <<chainView, exposed, slasherSide, jobs, index, slashedFPSKChan, kills>>

(* The process ends and takes the goroutines and channels with it.         *)
Kill ==
    LET again == {p \in Offenders : evidence[p] > 0 /\ evidence[p] >= storedHeight}
    IN  /\ slasher # "down" /\ kills < MaxKills /\ kills' = kills + 1
        /\ slasher' = "down" /\ bsHeight' = 0 /\ round' = NoRound
        /\ jobs' = [d \in Secured |-> [i \in 1..2 |-> NoJob]]
        /\ index' = {} /\ slashingTxChan' = {} /\ slashedFPSKChan' = {}
        /\ missed' = missed \cup {d \in Secured :
               FpOf[d] \in (slashedFps \cup exposed) \ again /\ coin[d] \in Unslashed}
        /\ UNCHANGED <<chainView, coin, exposed, storedHeight, failures>>

-----------------------------------------------------------------------------
(* Evidence *)

(* SlashFinalityProvider, for the delegations that are ACTIVE, or UNBONDED *)
(* with a quorum of covenant signatures (without it none is UNBONDED).     *)
SlashFinalityProvider(p) ==
    LET dels == {d \in DelsOf(p) : delState[d] \in {"ACTIVE", "UNBONDED"}}
        free(d) == IF jobs[d][1] = NoJob THEN 1 ELSE 2
    IN  /\ \A d \in dels : jobs[d][free(d)] = NoJob
        /\ jobs' = [d \in Secured |-> IF d \in dels THEN [jobs[d] EXCEPT ![free(d)] = NewJob]
                                      ELSE jobs[d]]

ListEvidences(startHeight) == {p \in Offenders : evidence[p] > 0 /\ evidence[p] >= startHeight}

(* BTCStakingTracker.Bootstrap *)
Bootstrap ==
    /\ slasher = "down"
    /\ \/ /\ slasher' = "boot" /\ bsHeight' = storedHeight
          /\ round' = [NoRound EXCEPT !.on = TRUE, !.todo = ListEvidences(storedHeight)]
          /\ UNCHANGED failures
       \/ Fails /\ UNCHANGED <<slasher, bsHeight, round>>
    /\ UNCHANGED <<chainView, coin, exposed, storedHeight, jobs, atomicSide, kills, missed>>

(* fetchEvidences, at a tick that finds something *)
FetchEvidences ==
    /\ slasher = "run" /\ ~round.on /\ ListEvidences(bsHeight) # {}
    /\ \/ /\ round' = [NoRound EXCEPT !.on = TRUE, !.todo = ListEvidences(bsHeight)]
          /\ UNCHANGED failures
       \/ Fails /\ UNCHANGED round
    /\ UNCHANGED <<chainView, coin, exposed, slasher, bsHeight, storedHeight, jobs, atomicSide,
                   kills, missed>>

(* One evidence of processEvidencesFromHeight; after an error the others   *)
(* are still handled.                                                      *)
ProcessEvidence(p) ==
    /\ round.on /\ p \in round.todo
    /\ \/ /\ SlashFinalityProvider(p) /\ UNCHANGED failures
          /\ round' = [round EXCEPT !.todo = @ \ {p},
                                    !.last = IF @ < evidence[p] THEN evidence[p] ELSE @]
       \/ /\ Fails /\ round' = [round EXCEPT !.todo = @ \ {p}, !.err = TRUE]
          /\ UNCHANGED jobs
    /\ UNCHANGED <<chainView, coin, exposed, slasher, bsHeight, storedHeight, atomicSide,
                   kills, missed>>

(* Mutation: the height moves on past evidence whose handling failed.      *)
AdvancesDespiteErrors == round.last > 0

(* bs.height and the store follow only a round without errors.             *)
Advances == ~round.err /\ round.last > 0

(* An error ends a bootstrap, and with it the process.                     *)
RoundEnds ==
    /\ round.on /\ round.todo = {} /\ round' = NoRound
    /\ \/ /\ Advances /\ bsHeight' = round.last + 1 /\ storedHeight' = round.last
          /\ slasher' = "run" /\ UNCHANGED failures
       \/ /\ Advances /\ bsHeight' = round.last + 1 /\ Fails /\ UNCHANGED storedHeight
          /\ slasher' = IF slasher = "boot" THEN "down" ELSE "run"
       \/ /\ ~Advances /\ UNCHANGED <<bsHeight, storedHeight, failures>>
          /\ slasher' = IF slasher = "boot" /\ round.err THEN "down" ELSE "run"
    /\ IF slasher' = "down" THEN jobs' = [d \in Secured |-> [i \in 1..2 |-> NoJob]]
       ELSE UNCHANGED jobs
    /\ UNCHANGED <<chainView, coin, exposed, atomicSide, kills, missed>>

-----------------------------------------------------------------------------
(* One delegation: slashBTCDelegation *)

(* A path has its result.  The goroutine is done when it is a success, or  *)
(* when neither path was slashable, each at the time it was looked at; it  *)
(* waits for the other path after a first failure, and tries both again    *)
(* after two.                                                              *)
AttemptSlashingTx(d, i, path, result) ==
    LET job == [jobs[d][i] EXCEPT ![path] = result]
        results == {job[q] : q \in Paths}
        next == IF result = "ok" \/ results = {"notSlashable"} THEN NoJob
                ELSE IF results \subseteq {"err", "notSlashable"} THEN NewJob ELSE job
    IN  /\ jobs' = [jobs EXCEPT ![d][i] = next]
        /\ missed' = IF results = {"notSlashable"} /\ coin[d] \in Unslashed THEN missed \cup {d}
                     ELSE missed

(* sendSlashingTx: the questions to the Bitcoin node and the sending are   *)
(* one step, that of the other path may come long before or after.         *)
SendSlashingTx(d, i, path) ==
    LET known == coin[d] \in {InMempool(path), InBlock(path)}
    IN  /\ jobs[d][i][path] = "try"
        /\ \/ known /\ AttemptSlashingTx(d, i, path, "ok") /\ UNCHANGED <<coin, failures>>
           \/ /\ ~known /\ coin[d] # Source(path)
              /\ AttemptSlashingTx(d, i, path, "notSlashable") /\ UNCHANGED <<coin, failures>>
           \/ /\ coin[d] = Source(path) /\ coin' = [coin EXCEPT ![d] = InMempool(path)]
              /\ \/ AttemptSlashingTx(d, i, path, "wait") /\ UNCHANGED failures
                 \/ AttemptSlashingTx(d, i, path, "err") /\ Fails
           \/ ~known /\ AttemptSlashingTx(d, i, path, "err") /\ Fails /\ UNCHANGED coin
        /\ UNCHANGED <<chainView, exposed, slasherSide, atomicSide, kills>>

(* waitForTxKDeep *)
WaitForTxKDeep(d, i, path) ==
    /\ jobs[d][i][path] = "wait" /\ coin[d] = InBlock(path)
    /\ AttemptSlashingTx(d, i, path, "ok")
    /\ UNCHANGED <<chainView, coin, exposed, slasherSide, atomicSide, failures, kills>>

-----------------------------------------------------------------------------
(* Selective slashing *)

(* btcDelegationTracker: all delegations are polled. *)
BtcDelegationTracker ==
    /\ slasher = "run" /\ index # Secured /\ index' = Secured
    /\ UNCHANGED <<chainView, coin, exposed, slasherSide, jobs, slashingTxChan, slashedFPSKChan,
                   failures, kills, missed>>

(* selectiveSlashingReporter: after a failed query the transaction is      *)
(* dropped, after a failed report the delegations are slashed all the same.*)
SelectiveSlashingReporter(d) ==
    LET p == FpOf[d]
    IN  /\ slasher = "run" /\ d \in slashingTxChan /\ slashingTxChan' = slashingTxChan \ {d}
        /\ \/ /\ p \in slashedFps
              /\ UNCHANGED <<slashedFps, index, slashedFPSKChan, failures, missed>>
           \/ /\ p \notin slashedFps /\ Fails /\ missed' = missed \cup DelsOf(p)
              /\ UNCHANGED <<slashedFps, index, slashedFPSKChan>>
           \/ /\ p \notin slashedFps
              /\ \/ slashedFps' = slashedFps \cup {p} /\ UNCHANGED failures
                 \/ UNCHANGED slashedFps /\ Fails
              /\ slashedFPSKChan' = slashedFPSKChan \cup {p} /\ index' = index \ {d}
              /\ UNCHANGED missed
        /\ UNCHANGED <<evidence, delState, coin, exposed, slasherSide, jobs, kills>>

(* slashingEnforcer: an error is logged. *)
SlashingEnforcer(p) ==
    /\ slasher = "run" /\ p \in slashedFPSKChan /\ slashedFPSKChan' = slashedFPSKChan \ {p}
    /\ \/ SlashFinalityProvider(p) /\ UNCHANGED <<failures, missed>>
       \/ Fails /\ missed' = missed \cup DelsOf(p) /\ UNCHANGED jobs
    /\ UNCHANGED <<chainView, coin, exposed, slasherSide, index, slashingTxChan, kills>>

-----------------------------------------------------------------------------
EvidenceLoop ==
    \/ Bootstrap \/ FetchEvidences \/ RoundEnds
    \/ \E p \in Offenders : ProcessEvidence(p)

SlashJob(d, i) ==
    \E path \in Paths : SendSlashingTx(d, i, path) \/ WaitForTxKDeep(d, i, path)

Mined == \E d \in Secured, path \in Paths : SlashingTxTracker(d, path)

SlasherNext ==
    \/ \E p \in Offenders, h \in 1..MaxEvidence : AddEvidence(p, h)
    \/ \E d \in Secured : ChangeState(d) \/ StakerMoves(d)
    \/ \E d \in Secured, path \in Paths : SelectiveSlashing(d, path)
    \/ Mined \/ Kill \/ EvidenceLoop
    \/ \E d \in Secured, i \in 1..2 : SlashJob(d, i)
    \/ BtcDelegationTracker
    \/ \E d \in Secured : SelectiveSlashingReporter(d)
    \/ \E p \in Offenders : SlashingEnforcer(p)

(* The tickers and goroutines run, Bitcoin mines what its mempool holds,   *)
(* and the process is started again.                                       *)
SlasherFairness ==
    /\ WF_slasherVars(EvidenceLoop) /\ WF_slasherVars(Mined)
    /\ \A d \in Secured, i \in 1..2 : WF_slasherVars(SlashJob(d, i))
    /\ WF_slasherVars(\E d \in Secured : SelectiveSlashingReporter(d))
    /\ WF_slasherVars(\E p \in Offenders : SlashingEnforcer(p))

SlasherSpec == SlasherInit /\ [][SlasherNext]_slasherVars /\ SlasherFairness

-----------------------------------------------------------------------------
(* Again and again no stake of an offender is left that could be slashed:  *)
(* of a provider with evidence, or with a slashing transaction of its own  *)
(* on Bitcoin, every delegation is slashed or its stake is gone, past      *)
(* failed calls, restarts and stakers that unbond meanwhile.  Not covered: *)
(* the delegations that the slashers lost sight of.                        *)
OffendersAreSlashed ==
    []<>\A d \in Secured :
            \/ FpOf[d] \notin {p \in Offenders : evidence[p] > 0} \cup exposed
            \/ delState[d] = "EXPIRED" \/ coin[d] \notin Unslashed \/ d \in missed

(* slasher_utils.go: "inf retries, we exit via context, tx included in     *)
(* chain, or both unspendable": a goroutine does not end while one of the  *)
(* two outputs can be spent.                                               *)
EndsWhenUnspendable ==
    [][\A d \in Secured, i \in 1..2 :
          jobs[d][i] # NoJob /\ jobs'[d][i] = NoJob /\ slasher' # "down"
              => coin[d] \notin Unslashed]_slasherVars
=============================================================================
