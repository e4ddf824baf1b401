------------------------------ MODULE Submitter ------------------------------
(***************************************************************************)
(* The vigilante submitter.  The poller reads the oldest Sealed checkpoint *)
(* from the chain and hands it over a bounded channel; the relayer writes  *)
(* it to Bitcoin as two transactions, the second spending the change of    *)
(* the first, keeps the pair on disk, and later replaces the second        *)
(* transaction by one with a larger fee.  A transaction is                 *)
(* <<epoch, pair, version>>: version 0 is the first one of the pair, the   *)
(* other versions are the second one as it is replaced.  Fees are          *)
(* abstracted: whether a bump is worth sending and which replacement rule  *)
(* it breaks is a choice.                                                  *)
(***************************************************************************)
EXTENDS Integers, Sequences, FiniteSets

CONSTANTS
    LastEpoch,      \* bound: the epochs are 1..LastEpoch
    BufferSize,     \* capacity of rawCkptChan
    Attempts,       \* retry.Attempts of a resubmission
    MaxPairs,       \* bound: pairs built for an epoch
    MaxVersions,    \* bound: versions of a second transaction
    MaxSubFaults,   \* bound: failed calls to Bitcoin
    MaxRestarts,    \* bound: crashes of the submitter
    MaxForgotten,   \* bound: checkpoints that a reorg takes back
    MaxLost         \* bound: transactions that the mempool drops

ASSUME SubmitterAssumption ==
    /\ LastEpoch \in Nat /\ BufferSize \in Nat \ {0} /\ Attempts \in Nat \ {0}
    /\ MaxPairs \in Nat /\ MaxVersions \in Nat
    /\ MaxSubFaults \in Nat /\ MaxRestarts \in Nat
    /\ MaxForgotten \in Nat /\ MaxLost \in Nat

VARIABLES
    rawCkpt,        \* status of the checkpoint of each epoch on the chain
    polled,         \* checkpoint that PollSealedCheckpoints is about to push, or 0
    rawCkptChan,    \* epochs in the channel
    relay,          \* what processCheckpoints is doing
    lastSubmitted,  \* lastSubmittedCheckpoint, in memory
    resendDue,      \* ResendIntervalSeconds have passed since lastSubmitted.TS
    storedCkpt,     \* the checkpoint under lastSubmittedCkptKey, on disk
    mempool, mined, \* transactions that Bitcoin knows
    pairs,          \* pairs[e]: pairs begun for the epoch
    mishaps         \* [fault, restart, forgotten, lost |-> how often each happened]

bitcoinTxs == <<mempool, mined, pairs>>
submitterVars == <<rawCkpt, polled, rawCkptChan, relay, lastSubmitted, resendDue,
                   storedCkpt, bitcoinTxs, mishaps>>

CkptEpoch == 1..LastEpoch
NoTx == <<0, 0, 0>>
BTCTx == CkptEpoch \X (1..MaxPairs) \X (0..MaxVersions)

Known == mempool \cup mined
SealedEpochs == {e \in CkptEpoch : rawCkpt[e] = "sealed"}

Begin(pc, e) == [pc |-> pc, e |-> e, n |-> 0, rbf |-> FALSE, orig |-> NoTx]
IdleRelay == Begin("idle", 0)
NothingSubmitted == [e |-> 0, tx1 |-> NoTx, tx2 |-> NoTx, id2 |-> NoTx]

SubmitterInit ==
    /\ rawCkpt = [e \in CkptEpoch |-> "none"]
    /\ polled = 0 /\ rawCkptChan = <<>> /\ relay = IdleRelay
    /\ lastSubmitted = NothingSubmitted /\ resendDue = TRUE
    /\ storedCkpt = [e |-> 0, tx1 |-> NoTx, tx2 |-> NoTx]
    /\ mempool = {} /\ mined = {} /\ pairs = [e \in CkptEpoch |-> 0]
    /\ mishaps = [fault |-> 0, restart |-> 0, forgotten |-> 0, lost |-> 0]

-----------------------------------------------------------------------------
(* The poller *)

PollSealedCheckpoints ==
    /\ polled = 0 /\ SealedEpochs # {}
    /\ polled' = CHOOSE e \in SealedEpochs : \A d \in SealedEpochs : e <= d
    /\ UNCHANGED <<rawCkpt, rawCkptChan, relay, lastSubmitted, resendDue, storedCkpt, bitcoinTxs, mishaps>>

(* The send on the channel blocks while it is full. *)
PushCheckpoint ==
    /\ polled # 0 /\ Len(rawCkptChan) < BufferSize
    /\ rawCkptChan' = Append(rawCkptChan, polled) /\ polled' = 0
    /\ UNCHANGED <<rawCkpt, relay, lastSubmitted, resendDue, storedCkpt, bitcoinTxs, mishaps>>

-----------------------------------------------------------------------------
(* SendCheckpointToBTC *)

(* Mutation: only the first checkpoint of a process is sent. *)
SendsOnlyOnce(e) == lastSubmitted.tx1 = NoTx

shouldSendCompleteCkpt(e) == lastSubmitted.tx1 = NoTx \/ lastSubmitted.e < e

shouldSendTx2(e) ==
    (lastSubmitted.tx1 # NoTx \/ lastSubmitted.e < e) /\ lastSubmitted.tx2 = NoTx

(* processCheckpoints goes on to MaybeResubmitSecondCheckpointTx, which    *)
(* leaves alone an epoch below the last one and a recent submission.       *)
Resubmit(e) ==
    IF e < lastSubmitted.e \/ ~resendDue THEN IdleRelay
    ELSE Begin("bump", e)

RelayAt(pc) == [relay EXCEPT !.pc = pc]

Fault == mishaps.fault < MaxSubFaults /\ mishaps' = [mishaps EXCEPT !.fault = @ + 1]

TakeCheckpoint ==
    /\ relay = IdleRelay /\ rawCkptChan # <<>>
    /\ LET e == Head(rawCkptChan)
       IN  relay' = IF shouldSendCompleteCkpt(e) \/ shouldSendTx2(e)
                  THEN Begin("store", e) ELSE Resubmit(e)
    /\ rawCkptChan' = Tail(rawCkptChan)
    /\ UNCHANGED <<rawCkpt, polled, lastSubmitted, resendDue, storedCkpt, bitcoinTxs, mishaps>>

(* Bitcoin takes a first transaction, and a second one whose parent it     *)
(* knows and whose input no other version spends.                          *)
MempoolAccepts(known, tx) ==
    tx[3] = 0 \/ /\ <<tx[1], tx[2], 0>> \in known
                 /\ \A v \in 1..MaxVersions : v # tx[3] => <<tx[1], tx[2], v>> \notin known

(* What maybeResendFunc leaves in the mempool, {} for "refused".  A bumped *)
(* transaction was stored as it was before signTx and is refused.          *)
resend(known, tx) ==
    IF tx \in known THEN known
    ELSE IF tx[3] <= 1 /\ MempoolAccepts(known, tx) THEN known \cup {tx} ELSE {}

(* Mutation: a pair that had to be resent is reported as not processed, as *)
(* the comment on maybeResendFromStore has it.                             *)
ProcessedIfNothingResent ==
    storedCkpt.e = relay.e /\ {storedCkpt.tx1, storedCkpt.tx2} \subseteq Known

hasBeenProcessed == storedCkpt.e = relay.e

(* maybeResendFromStore, and the choice of what is to be built.            *)
maybeResendFromStore ==
    LET first == resend(Known, storedCkpt.tx1)
        both == resend(first, storedCkpt.tx2)
    IN  /\ relay.pc = "store"
        /\ \/ /\ storedCkpt.e = relay.e
              /\ \/ /\ mempool' = mempool \cup ((IF both = {} THEN first ELSE both) \ mined)
                    /\ relay' = IF both = {} THEN IdleRelay
                              ELSE IF hasBeenProcessed THEN Resubmit(relay.e) ELSE RelayAt("tx1")
                    /\ UNCHANGED mishaps
                 \/ /\ Fault /\ mempool' \in {mempool, mempool \cup (first \ mined)}
                    /\ relay' = IdleRelay
           \/ /\ storedCkpt.e # relay.e
              /\ relay' = RelayAt(IF shouldSendCompleteCkpt(relay.e) THEN "tx1" ELSE "tx2")
              /\ UNCHANGED <<mempool, mishaps>>
        /\ UNCHANGED <<rawCkpt, polled, rawCkptChan, lastSubmitted, resendDue, storedCkpt, mined, pairs>>

(* A call to Bitcoin fails: processCheckpoints logs it and waits for the   *)
(* next poll.                                                              *)
SubmissionFails ==
    /\ relay.pc \in {"tx1", "tx2"}
    /\ Fault /\ relay' = IdleRelay
    /\ UNCHANGED <<rawCkpt, polled, rawCkptChan, lastSubmitted, resendDue, storedCkpt, bitcoinTxs>>

(* The first half of ChainTwoTxAndSend: the transaction is remembered with *)
(* the epoch and the second transaction of the submission before.          *)
SendTx1 ==
    LET tx1 == <<relay.e, pairs[relay.e] + 1, 0>>
    IN  /\ relay.pc = "tx1" /\ tx1 \in BTCTx
        /\ pairs' = [pairs EXCEPT ![relay.e] = @ + 1]
        /\ mempool' = mempool \cup {tx1}
        /\ lastSubmitted' = [lastSubmitted EXCEPT !.tx1 = tx1]
        /\ relay' = RelayAt("tx2")
        /\ UNCHANGED <<rawCkpt, polled, rawCkptChan, resendDue, storedCkpt, mined, mishaps>>

(* Its second half; SendCheckpointToBTC notes the submission in memory.    *)
SendTx2 ==
    LET tx1 == lastSubmitted.tx1
        tx2 == <<relay.e, tx1[2], 1>>
    IN  /\ relay.pc = "tx2" /\ MempoolAccepts(Known, tx2)
        /\ mempool' = mempool \cup {tx2}
        /\ lastSubmitted' = [e |-> relay.e, tx1 |-> tx1, tx2 |-> tx2, id2 |-> tx2]
        /\ resendDue' = FALSE
        /\ relay' = RelayAt("put")
        /\ UNCHANGED <<rawCkpt, polled, rawCkptChan, storedCkpt, mined, pairs, mishaps>>

(* PutCheckpoint, after a submission and after a resubmission.             *)
PutCheckpoint ==
    /\ relay.pc \in {"put", "update"}
    /\ storedCkpt' = [e |-> lastSubmitted.e, tx1 |-> lastSubmitted.tx1, tx2 |-> lastSubmitted.tx2]
    /\ relay' = IF relay.pc = "put" THEN Resubmit(relay.e) ELSE IdleRelay
    /\ UNCHANGED <<rawCkpt, polled, rawCkptChan, lastSubmitted, resendDue, bitcoinTxs, mishaps>>

-----------------------------------------------------------------------------
(* MaybeResubmitSecondCheckpointTx *)

AttemptFailed(rbf) ==
    IF relay.n + 1 = Attempts THEN IdleRelay
    ELSE [pc |-> "bump", e |-> relay.e, n |-> relay.n + 1, rbf |-> rbf, orig |-> NoTx]

(* calculateBumpedFee, shouldResendCheckpoint and the first half of        *)
(* maybeResendSecondTxOfCheckpointToBTC.  Without a second transaction in  *)
(* memory every attempt fails, and after a refused replacement the fee is  *)
(* computed from the mempool.  A new fee is written into the outputs or    *)
(* the inputs of the transaction in memory.                                *)
BumpFee ==
    LET tx2 == lastSubmitted.tx2
    IN  /\ relay.pc = "bump"
        /\ \/ /\ tx2 = NoTx \/ (relay.rbf /\ lastSubmitted.id2 \notin mempool)
              /\ relay' = IF tx2 = NoTx THEN IdleRelay ELSE AttemptFailed(relay.rbf)
              /\ UNCHANGED <<lastSubmitted, mishaps>>
           \/ /\ tx2 # NoTx
              /\ relay.rbf => lastSubmitted.id2 \in mempool
              /\ \/ relay' = IdleRelay /\ UNCHANGED <<lastSubmitted, mishaps>>
                 \/ Fault /\ relay' = AttemptFailed(FALSE) /\ UNCHANGED lastSubmitted
                 \/ /\ lastSubmitted.id2 \notin mined /\ tx2[3] < MaxVersions
                    /\ lastSubmitted' = [lastSubmitted EXCEPT !.tx2[3] = @ + 1]
                    /\ relay' = [relay EXCEPT !.pc = "replace", !.orig = tx2]
                    /\ UNCHANGED mishaps
        /\ UNCHANGED <<rawCkpt, polled, rawCkptChan, resendDue, storedCkpt, bitcoinTxs>>

(* verifyRBFRequirements asks the mempool for the original transaction; a  *)
(* broken rule or a failed call is retried with a larger fee, too many     *)
(* descendants end the resubmission.  Then the transaction is signed and   *)
(* sent.                                                                   *)
Replace ==
    /\ relay.pc = "replace"
    /\ \/ /\ relay.orig \notin mempool
          /\ relay' = AttemptFailed(FALSE)
          /\ UNCHANGED <<lastSubmitted, resendDue, mempool, mishaps>>
       \/ /\ relay.orig \in mempool
          /\ \/ /\ relay' \in {IdleRelay, AttemptFailed(TRUE)}
                /\ UNCHANGED <<lastSubmitted, resendDue, mempool, mishaps>>
             \/ /\ Fault /\ relay' = AttemptFailed(FALSE)
                /\ UNCHANGED <<lastSubmitted, resendDue, mempool>>
             \/ /\ mempool' = (mempool \ {relay.orig}) \cup {lastSubmitted.tx2}
                /\ lastSubmitted' = [lastSubmitted EXCEPT !.id2 = lastSubmitted.tx2]
                /\ resendDue' = FALSE
                /\ relay' = RelayAt("update")
                /\ UNCHANGED mishaps
    /\ UNCHANGED <<rawCkpt, polled, rawCkptChan, storedCkpt, mined, pairs>>

-----------------------------------------------------------------------------
(* The process, the chain and Bitcoin *)

ResendIntervalPasses ==
    /\ ~resendDue /\ resendDue' = TRUE
    /\ UNCHANGED <<rawCkpt, polled, rawCkptChan, relay, lastSubmitted, storedCkpt, bitcoinTxs, mishaps>>

(* A crash, and relayer.New: what was not stored is forgotten, the time of *)
(* the last submission included.                                           *)
RestartSubmitter ==
    /\ mishaps.restart < MaxRestarts
    /\ mishaps' = [mishaps EXCEPT !.restart = @ + 1]
    /\ polled' = 0 /\ rawCkptChan' = <<>> /\ relay' = IdleRelay
    /\ lastSubmitted' = NothingSubmitted /\ resendDue' = TRUE
    /\ UNCHANGED <<rawCkpt, storedCkpt, bitcoinTxs>>

SealEpoch(e) ==
    /\ rawCkpt[e] = "none" /\ \A d \in 1..(e - 1) : rawCkpt[d] # "none"
    /\ rawCkpt' = [rawCkpt EXCEPT ![e] = "sealed"]
    /\ UNCHANGED <<polled, rawCkptChan, relay, lastSubmitted, resendDue, storedCkpt, bitcoinTxs, mishaps>>

Mine(tx) ==
    /\ tx \in mempool /\ (tx[3] = 0 \/ <<tx[1], tx[2], 0>> \in mined)
    /\ mempool' = mempool \ {tx} /\ mined' = mined \cup {tx}
    /\ UNCHANGED <<rawCkpt, polled, rawCkptChan, relay, lastSubmitted, resendDue, storedCkpt, pairs, mishaps>>

(* The chain learns of a mined pair: the reporter matches the two halves   *)
(* of a checkpoint by their data, whichever transactions carry them.       *)
SubmittedOnChain(e) ==
    /\ rawCkpt[e] = "sealed" /\ \A d \in 1..(e - 1) : rawCkpt[d] = "submitted"
    /\ \E a, b \in mined : a[1] = e /\ a[3] = 0 /\ b[1] = e /\ b[3] > 0
    /\ rawCkpt' = [rawCkpt EXCEPT ![e] = "submitted"]
    /\ UNCHANGED <<polled, rawCkptChan, relay, lastSubmitted, resendDue, storedCkpt, bitcoinTxs, mishaps>>

(* A Bitcoin reorg: the transactions of the epoch and of later ones are    *)
(* back in the mempool, and their checkpoints are Sealed again.            *)
ForgottenOnChain(e) ==
    LET later == {tx \in mined : tx[1] >= e}
    IN  /\ rawCkpt[e] = "submitted" /\ mishaps.forgotten < MaxForgotten
        /\ mishaps' = [mishaps EXCEPT !.forgotten = @ + 1]
        /\ rawCkpt' = [d \in CkptEpoch |-> IF d >= e /\ rawCkpt[d] = "submitted" THEN "sealed" ELSE rawCkpt[d]]
        /\ mined' = mined \ later /\ mempool' = mempool \cup later
        /\ UNCHANGED <<polled, rawCkptChan, relay, lastSubmitted, resendDue, storedCkpt, pairs>>

(* The mempool drops a transaction, and with it the one that spends it.    *)
LoseTx(tx) ==
    /\ tx \in mempool /\ mishaps.lost < MaxLost
    /\ mishaps' = [mishaps EXCEPT !.lost = @ + 1]
    /\ mempool' = {t \in mempool : t # tx /\ ~(tx[3] = 0 /\ t[1] = tx[1] /\ t[2] = tx[2])}
    /\ UNCHANGED <<rawCkpt, polled, rawCkptChan, relay, lastSubmitted, resendDue, storedCkpt, mined, pairs>>

PollerLoop == PollSealedCheckpoints \/ PushCheckpoint

ProcessLoop ==
    \/ TakeCheckpoint \/ maybeResendFromStore \/ SubmissionFails \/ SendTx1 \/ SendTx2
    \/ PutCheckpoint \/ BumpFee \/ Replace

SubmitterNext ==
    \/ PollerLoop \/ ProcessLoop
    \/ ResendIntervalPasses \/ RestartSubmitter
    \/ \E e \in CkptEpoch : SealEpoch(e) \/ SubmittedOnChain(e) \/ ForgottenOnChain(e)
    \/ \E tx \in mempool : Mine(tx) \/ LoseTx(tx)

(* The two loops run, Bitcoin mines what it accepted, and the reporter     *)
(* brings what is mined to the chain.                                      *)
SubmitterFairness ==
    /\ WF_submitterVars(PollerLoop) /\ WF_submitterVars(ProcessLoop)
    /\ WF_submitterVars(\E tx \in mempool : Mine(tx))
    /\ WF_submitterVars(\E e \in CkptEpoch : SubmittedOnChain(e))

SubmitterSpec == SubmitterInit /\ [][SubmitterNext]_submitterVars /\ SubmitterFairness

-----------------------------------------------------------------------------
(* Properties *)

(* "we want to ensure that we don't send txns again for a checkpoint that  *)
(* has already been processed": whatever crashes and whatever Bitcoin has  *)
(* lost, no second pair is begun for the epoch whose pair is on disk.  And *)
(* the pair on disk is a pair: its second transaction spends its first,    *)
(* unless a reorg has reopened an epoch that was already left.             *)
StoredIsNotRebuilt ==
    /\ [][\A e \in CkptEpoch : pairs'[e] # pairs[e] => storedCkpt.e # e]_submitterVars
    /\ [](mishaps.forgotten = 0 => storedCkpt.tx1[2] = storedCkpt.tx2[2]
                                /\ storedCkpt.tx1[1] = storedCkpt.tx2[1])

(* Every Sealed checkpoint is written to Bitcoin and counted as submitted: *)
(* again and again none is left, past failed calls, crashes at any point,  *)
(* refused replacements and reorgs, as long as the mempool keeps what it   *)
(* has accepted: nothing sends a lost transaction again before the next    *)
(* restart.                                                                *)
SealedReachesBitcoin ==
    []<>(mishaps.lost > 0 \/ \A e \in CkptEpoch : rawCkpt[e] # "sealed")
=============================================================================
