--------------------------- MODULE SubmitterProofs ---------------------------
(***************************************************************************)
(* Proof that the submitter builds no second pair for the epoch on disk    *)
(* and stores no mixed pair, for any number of epochs, crashes, failed     *)
(* calls, lost transactions and attempts.                                  *)
(***************************************************************************)
EXTENDS Submitter, WellFoundedInduction, TLAPS

Tx == Nat \X Nat \X Nat

Relay == [pc : {"idle", "store", "tx1", "tx2", "put", "bump", "replace", "update"},
          e : 0..LastEpoch, n : Nat, rbf : BOOLEAN, orig : Tx]

SubmitterTypeOK ==
  /\ rawCkpt \in [CkptEpoch -> {"none", "sealed", "submitted"}]
  /\ polled \in 0..LastEpoch
  /\ rawCkptChan \in Seq(CkptEpoch)
  /\ relay \in Relay
  /\ relay.pc # "idle" => relay.e \in CkptEpoch
  /\ lastSubmitted \in [e : 0..LastEpoch, tx1 : Tx, tx2 : Tx, id2 : Tx]
  /\ storedCkpt \in [e : 0..LastEpoch, tx1 : Tx, tx2 : Tx]
  /\ pairs \in [CkptEpoch -> Nat]
  /\ mishaps \in [fault : Nat, restart : Nat, forgotten : Nat, lost : Nat]

-----------------------------------------------------------------------------

LEMMA LeastNatural ==
  ASSUME NEW T \in SUBSET Nat, T # {}
  PROVE  \E x \in T : \A y \in T : x <= y
  <1> DEFINE R == OpToRel(<, Nat)
  <1>1. PICK x \in T : \A y \in T : <<y, x>> \notin R
    <2>1. IsWellFoundedOn(R, Nat)
      BY NatLessThanWellFounded
    <2> HIDE DEF R
    <2> QED
      BY <2>1, WFMin
  <1>2. \A y \in T : ~(y < x)
    BY <1>1 DEF OpToRel
  <1> QED
    BY <1>2

LEMMA NoTxType == NoTx \in Tx /\ IdleRelay \in Relay
  BY SubmitterAssumption DEF NoTx, Tx, IdleRelay, Begin, Relay

LEMMA BumpedTx ==
  ASSUME NEW tx \in Tx
  PROVE  /\ [tx EXCEPT ![3] = @ + 1] \in Tx
         /\ [tx EXCEPT ![3] = @ + 1][1] = tx[1]
         /\ [tx EXCEPT ![3] = @ + 1][2] = tx[2]
  BY DEF Tx

LEMMA RelayValues ==
  ASSUME NEW e \in CkptEpoch, NEW pc \in {"store", "bump"}
  PROVE  /\ Begin(pc, e) \in Relay /\ Begin(pc, e).pc = pc /\ Begin(pc, e).e = e
         /\ IdleRelay.pc = "idle" /\ IdleRelay.e = 0
         /\ Resubmit(e) = IdleRelay \/ Resubmit(e) = Begin("bump", e)
  <1>1. e \in 0..LastEpoch
    BY SubmitterAssumption DEF CkptEpoch
  <1>2. Begin(pc, e) \in Relay /\ Begin(pc, e).pc = pc /\ Begin(pc, e).e = e
    BY <1>1, NoTxType DEF Relay, Begin
  <1>3. IdleRelay.pc = "idle" /\ IdleRelay.e = 0
    BY DEF IdleRelay, Begin
  <1> QED
    BY <1>2, <1>3 DEF Resubmit

LEMMA RelayMoves ==
  ASSUME SubmitterTypeOK,
         NEW pc \in {"idle", "store", "tx1", "tx2", "put", "bump", "replace", "update"}
  PROVE  RelayAt(pc) \in Relay /\ RelayAt(pc).pc = pc /\ RelayAt(pc).e = relay.e
  BY DEF SubmitterTypeOK, Relay, RelayAt

LEMMA RelayAttempts ==
  ASSUME SubmitterTypeOK, NEW b \in BOOLEAN
  PROVE  /\ AttemptFailed(b) \in Relay
         /\ \/ AttemptFailed(b).pc = "idle" /\ AttemptFailed(b).e = 0
            \/ AttemptFailed(b).pc = "bump" /\ AttemptFailed(b).e = relay.e
  <1> DEFINE r == [pc |-> "bump", e |-> relay.e, n |-> relay.n + 1, rbf |-> b, orig |-> NoTx]
  <1>1. relay \in Relay
    BY DEF SubmitterTypeOK
  <1>2. r \in Relay /\ r.pc = "bump" /\ r.e = relay.e
    BY <1>1, NoTxType DEF Relay
  <1>3. IdleRelay.pc = "idle" /\ IdleRelay.e = 0
    BY DEF IdleRelay, Begin
  <1>4. AttemptFailed(b) = IdleRelay \/ AttemptFailed(b) = r
    BY DEF AttemptFailed
  <1> HIDE DEF r
  <1> QED
    BY <1>2, <1>3, <1>4, NoTxType

Mishaps == [fault : Nat, restart : Nat, forgotten : Nat, lost : Nat]

LEMMA MishapValues ==
  ASSUME SubmitterTypeOK
  PROVE  /\ mishaps \in Mishaps
         /\ Fault => mishaps' \in Mishaps /\ mishaps'.forgotten = mishaps.forgotten
         /\ [mishaps EXCEPT !.restart = @ + 1] \in Mishaps
         /\ [mishaps EXCEPT !.restart = @ + 1].forgotten = mishaps.forgotten
         /\ [mishaps EXCEPT !.lost = @ + 1] \in Mishaps
         /\ [mishaps EXCEPT !.lost = @ + 1].forgotten = mishaps.forgotten
         /\ [mishaps EXCEPT !.forgotten = @ + 1] \in Mishaps
         /\ [mishaps EXCEPT !.forgotten = @ + 1].forgotten # 0
  <1>1. mishaps \in Mishaps
    BY DEF SubmitterTypeOK, Mishaps
  <1>2. /\ [mishaps EXCEPT !.fault = @ + 1] \in Mishaps
        /\ [mishaps EXCEPT !.fault = @ + 1].forgotten = mishaps.forgotten
    BY <1>1 DEF Mishaps
  <1>3. /\ [mishaps EXCEPT !.restart = @ + 1] \in Mishaps
        /\ [mishaps EXCEPT !.restart = @ + 1].forgotten = mishaps.forgotten
    BY <1>1 DEF Mishaps
  <1>4. /\ [mishaps EXCEPT !.lost = @ + 1] \in Mishaps
        /\ [mishaps EXCEPT !.lost = @ + 1].forgotten = mishaps.forgotten
    BY <1>1 DEF Mishaps
  <1>5. /\ [mishaps EXCEPT !.forgotten = @ + 1] \in Mishaps
        /\ [mishaps EXCEPT !.forgotten = @ + 1].forgotten # 0
    BY <1>1 DEF Mishaps
  <1> QED
    BY <1>1, <1>2, <1>3, <1>4, <1>5 DEF Fault

-----------------------------------------------------------------------------
(* Types *)

LEMMA InitType == SubmitterInit => SubmitterTypeOK
  <1> SUFFICES ASSUME SubmitterInit PROVE SubmitterTypeOK
    OBVIOUS
  <1>1. lastSubmitted \in [e : 0..LastEpoch, tx1 : Tx, tx2 : Tx, id2 : Tx]
    BY NoTxType, SubmitterAssumption DEF SubmitterInit, NothingSubmitted
  <1>2. storedCkpt \in [e : 0..LastEpoch, tx1 : Tx, tx2 : Tx]
    BY NoTxType, SubmitterAssumption DEF SubmitterInit
  <1>3. relay \in Relay /\ relay.pc = "idle"
    BY NoTxType DEF SubmitterInit, IdleRelay, Begin
  <1>4. mishaps \in [fault : Nat, restart : Nat, forgotten : Nat, lost : Nat]
    BY DEF SubmitterInit
  <1>5. polled \in 0..LastEpoch /\ rawCkptChan \in Seq(CkptEpoch)
    BY SubmitterAssumption DEF SubmitterInit
  <1>6. pairs \in [CkptEpoch -> Nat] /\ rawCkpt \in [CkptEpoch -> {"none", "sealed", "submitted"}]
    BY DEF SubmitterInit
  <1> QED
    BY <1>1, <1>2, <1>3, <1>4, <1>5, <1>6 DEF SubmitterTypeOK

\* What the loop of the relayer may do next, and to which epoch.
LEMMA RelaySteps ==
  ASSUME SubmitterTypeOK, ProcessLoop
  PROVE  /\ relay' \in Relay /\ (relay'.pc # "idle" => relay'.e \in CkptEpoch)
         /\ \/ relay'.e \in {0, relay.e} /\ UNCHANGED rawCkptChan
            \/ TakeCheckpoint /\ relay'.e \in {0, Head(rawCkptChan)}
  <1>1. relay \in Relay /\ (relay.pc # "idle" => relay.e \in CkptEpoch) /\ rawCkptChan \in Seq(CkptEpoch)
    BY DEF SubmitterTypeOK
  <1>2. IdleRelay \in Relay /\ IdleRelay.pc = "idle" /\ IdleRelay.e = 0
    BY NoTxType DEF IdleRelay, Begin
  <1>3. CASE TakeCheckpoint
    <2>1. Head(rawCkptChan) \in CkptEpoch
      BY <1>1, <1>3 DEF TakeCheckpoint
    <2>2. relay' \in {IdleRelay, Begin("bump", Head(rawCkptChan)), Begin("store", Head(rawCkptChan))}
      BY <1>3 DEF TakeCheckpoint, Resubmit
    <2> QED
      BY <1>2, <1>3, <2>1, <2>2, RelayValues
  <1>4. ASSUME relay' \in {IdleRelay, Begin("bump", relay.e)}, relay.pc # "idle", UNCHANGED rawCkptChan
        PROVE  /\ relay' \in Relay /\ (relay'.pc # "idle" => relay'.e \in CkptEpoch)
               /\ relay'.e \in {0, relay.e} /\ UNCHANGED rawCkptChan
    BY <1>1, <1>2, <1>4, RelayValues
  <1>5. ASSUME NEW pc \in {"tx1", "tx2", "put", "update"}, relay' = RelayAt(pc), relay.pc # "idle", UNCHANGED rawCkptChan
        PROVE  /\ relay' \in Relay /\ (relay'.pc # "idle" => relay'.e \in CkptEpoch)
               /\ relay'.e \in {0, relay.e} /\ UNCHANGED rawCkptChan
    BY <1>1, <1>5, RelayMoves
  <1>6. ASSUME NEW b \in BOOLEAN, relay' = AttemptFailed(b), relay.pc # "idle", UNCHANGED rawCkptChan
        PROVE  /\ relay' \in Relay /\ (relay'.pc # "idle" => relay'.e \in CkptEpoch)
               /\ relay'.e \in {0, relay.e} /\ UNCHANGED rawCkptChan
    BY <1>1, <1>6, RelayAttempts
  <1>7. CASE maybeResendFromStore
    <2>1. relay.pc # "idle" /\ UNCHANGED rawCkptChan
      BY <1>7 DEF maybeResendFromStore
    <2>2. relay' \in {IdleRelay, Begin("bump", relay.e), RelayAt("tx1"), RelayAt("tx2")}
      BY <1>7 DEF maybeResendFromStore, Resubmit
    <2> QED
      BY <1>4, <1>5, <2>1, <2>2
  <1>8. CASE SubmissionFails
    BY <1>4, <1>8 DEF SubmissionFails
  <1>9. CASE SendTx1
    BY <1>5, <1>9 DEF SendTx1
  <1>10. CASE SendTx2
    BY <1>5, <1>10 DEF SendTx2
  <1>11. CASE PutCheckpoint
    BY <1>4, <1>11 DEF PutCheckpoint, Resubmit
  <1>12. CASE BumpFee
    <2>1. relay.pc = "bump" /\ UNCHANGED rawCkptChan
      BY <1>12 DEF BumpFee
    <2>2. relay' \in {IdleRelay, AttemptFailed(FALSE), AttemptFailed(relay.rbf),
                     [relay EXCEPT !.pc = "replace", !.orig = lastSubmitted.tx2]}
      BY <1>12 DEF BumpFee
    <2>3. relay.rbf \in BOOLEAN /\ lastSubmitted.tx2 \in Tx
      BY <1>1 DEF Relay, SubmitterTypeOK
    <2>4. ASSUME relay' = [relay EXCEPT !.pc = "replace", !.orig = lastSubmitted.tx2]
          PROVE  relay' \in Relay /\ relay'.e = relay.e
      BY <1>1, <2>3, <2>4 DEF Relay
    <2> QED
      BY <1>1, <1>4, <1>6, <2>1, <2>2, <2>3, <2>4
  <1>13. CASE Replace
    <2>1. relay.pc = "replace" /\ UNCHANGED rawCkptChan
      BY <1>13 DEF Replace
    <2>2. relay' \in {IdleRelay, AttemptFailed(FALSE), AttemptFailed(TRUE), RelayAt("update")}
      BY <1>13 DEF Replace
    <2> QED
      BY <1>4, <1>5, <1>6, <2>1, <2>2
  <1> QED
    BY <1>3, <1>7, <1>8, <1>9, <1>10, <1>11, <1>12, <1>13 DEF ProcessLoop

Submission == [e : 0..LastEpoch, tx1 : Tx, tx2 : Tx, id2 : Tx]

LEMMA SubmissionValues ==
  ASSUME SubmitterTypeOK
  PROVE  /\ lastSubmitted \in Submission
         /\ SendTx1 => lastSubmitted' = [lastSubmitted EXCEPT !.tx1 = <<relay.e, pairs[relay.e] + 1, 0>>]
                       /\ lastSubmitted' \in Submission
         /\ SendTx2 => lastSubmitted' \in Submission
         /\ BumpFee => \/ UNCHANGED lastSubmitted
                       \/ /\ lastSubmitted.tx2 # NoTx
                          /\ relay' = [relay EXCEPT !.pc = "replace", !.orig = lastSubmitted.tx2]
                          /\ lastSubmitted' \in Submission
                          /\ lastSubmitted'.e = lastSubmitted.e /\ lastSubmitted'.tx1 = lastSubmitted.tx1
                          /\ lastSubmitted'.tx2[1] = lastSubmitted.tx2[1]
                          /\ lastSubmitted'.tx2[2] = lastSubmitted.tx2[2]
         /\ Replace => /\ lastSubmitted' \in Submission
                       /\ lastSubmitted'.e = lastSubmitted.e /\ lastSubmitted'.tx1 = lastSubmitted.tx1
                       /\ lastSubmitted'.tx2 = lastSubmitted.tx2
  <1>1. lastSubmitted \in Submission /\ relay.e \in Nat /\ relay.e \in 0..LastEpoch
    BY SubmitterAssumption DEF SubmitterTypeOK, Submission, Relay
  <1>2. ASSUME SendTx1 PROVE /\ lastSubmitted' = [lastSubmitted EXCEPT !.tx1 = <<relay.e, pairs[relay.e] + 1, 0>>]
                             /\ lastSubmitted' \in Submission
    <2>1. <<relay.e, pairs[relay.e] + 1, 0>> \in Tx
      BY <1>2 DEF SendTx1, BTCTx, Tx, CkptEpoch
    <2> QED
      BY <1>1, <1>2, <2>1 DEF SendTx1, Submission
  <1>3. ASSUME SendTx2 PROVE lastSubmitted' \in Submission
    <2>1. lastSubmitted.tx1 \in Tx /\ <<relay.e, lastSubmitted.tx1[2], 1>> \in Tx
      BY <1>1 DEF Submission, Tx
    <2> QED
      BY <1>1, <1>3, <2>1 DEF SendTx2, Submission
  <1>4. ASSUME BumpFee, ~UNCHANGED lastSubmitted
        PROVE  /\ lastSubmitted.tx2 # NoTx
               /\ relay' = [relay EXCEPT !.pc = "replace", !.orig = lastSubmitted.tx2]
               /\ lastSubmitted' \in Submission
               /\ lastSubmitted'.e = lastSubmitted.e /\ lastSubmitted'.tx1 = lastSubmitted.tx1
               /\ lastSubmitted'.tx2[1] = lastSubmitted.tx2[1]
               /\ lastSubmitted'.tx2[2] = lastSubmitted.tx2[2]
    <2>1. /\ lastSubmitted.tx2 # NoTx
          /\ lastSubmitted' = [lastSubmitted EXCEPT !.tx2[3] = @ + 1]
          /\ relay' = [relay EXCEPT !.pc = "replace", !.orig = lastSubmitted.tx2]
      BY <1>4 DEF BumpFee
    <2>2. lastSubmitted.tx2 \in Tx
      BY <1>1 DEF Submission
    <2>3. lastSubmitted' = [lastSubmitted EXCEPT !.tx2 = [lastSubmitted.tx2 EXCEPT ![3] = @ + 1]]
      BY <2>1
    <2> QED
      BY <1>1, <2>1, <2>2, <2>3, BumpedTx DEF Submission
  <1>5. ASSUME Replace PROVE /\ lastSubmitted' \in Submission
                             /\ lastSubmitted'.e = lastSubmitted.e /\ lastSubmitted'.tx1 = lastSubmitted.tx1
                             /\ lastSubmitted'.tx2 = lastSubmitted.tx2
    BY <1>1, <1>5 DEF Replace, Submission
  <1> QED
    BY <1>1, <1>2, <1>3, <1>4, <1>5

\* The relayer changes neither the chain nor the poller.
LEMMA ProcessSteps ==
  ASSUME SubmitterTypeOK, ProcessLoop
  PROVE  SubmitterTypeOK' /\ UNCHANGED <<rawCkpt, polled>> /\ mishaps'.forgotten = mishaps.forgotten
  <1>1. UNCHANGED <<rawCkpt, polled>>
    BY DEF ProcessLoop, TakeCheckpoint, maybeResendFromStore, SubmissionFails, SendTx1, SendTx2,
           PutCheckpoint, BumpFee, Replace
  <1>2. relay' \in Relay /\ (relay'.pc # "idle" => relay'.e \in CkptEpoch)
    BY RelaySteps
  <1>3. rawCkptChan' \in Seq(CkptEpoch)
    <2>1. UNCHANGED rawCkptChan \/ (rawCkptChan # <<>> /\ rawCkptChan' = Tail(rawCkptChan))
      BY RelaySteps DEF TakeCheckpoint
    <2>2. rawCkptChan \in Seq(CkptEpoch)
      BY DEF SubmitterTypeOK
    <2> QED
      BY <2>1, <2>2
  <1>4. Fault \/ UNCHANGED mishaps
    BY DEF ProcessLoop, TakeCheckpoint, maybeResendFromStore, SubmissionFails, SendTx1, SendTx2,
           PutCheckpoint, BumpFee, Replace
  <1>5. mishaps' \in Mishaps /\ mishaps'.forgotten = mishaps.forgotten
    BY <1>4, MishapValues
  <1>6. lastSubmitted' \in Submission
    <2>1. UNCHANGED lastSubmitted \/ SendTx1 \/ SendTx2 \/ BumpFee \/ Replace
      BY DEF ProcessLoop, TakeCheckpoint, maybeResendFromStore, SubmissionFails, PutCheckpoint
    <2> QED
      BY <2>1, SubmissionValues
  <1>7. storedCkpt' \in [e : 0..LastEpoch, tx1 : Tx, tx2 : Tx]
    <2>1. CASE PutCheckpoint
      BY <2>1, SubmissionValues DEF PutCheckpoint, Submission
    <2>2. CASE ~PutCheckpoint
      BY <2>2 DEF ProcessLoop, TakeCheckpoint, maybeResendFromStore, SubmissionFails, SendTx1, SendTx2,
                  BumpFee, Replace, SubmitterTypeOK
    <2> QED
      BY <2>1, <2>2
  <1>8. pairs' \in [CkptEpoch -> Nat]
    <2>1. CASE SendTx1
      BY <2>1 DEF SendTx1, SubmitterTypeOK
    <2>2. CASE ~SendTx1
      BY <2>2 DEF ProcessLoop, TakeCheckpoint, maybeResendFromStore, SubmissionFails, SendTx2,
                  PutCheckpoint, BumpFee, Replace, bitcoinTxs, SubmitterTypeOK
    <2> QED
      BY <2>1, <2>2
  <1> QED
    BY <1>1, <1>2, <1>3, <1>5, <1>6, <1>7, <1>8 DEF SubmitterTypeOK, Submission, Mishaps

\* The chain, Bitcoin and the clock change nothing the submitter remembers.
Outside ==
  \/ ResendIntervalPasses
  \/ \E e \in CkptEpoch : SealEpoch(e) \/ SubmittedOnChain(e) \/ ForgottenOnChain(e)
  \/ \E tx \in mempool : Mine(tx) \/ LoseTx(tx)

LEMMA OutsideSteps ==
  ASSUME SubmitterTypeOK, Outside
  PROVE  /\ SubmitterTypeOK'
         /\ UNCHANGED <<polled, rawCkptChan, relay, lastSubmitted, storedCkpt, pairs>>
         /\ mishaps'.forgotten = 0 =>
               /\ mishaps.forgotten = 0
               /\ \/ UNCHANGED rawCkpt
                  \/ \E e \in CkptEpoch : SealEpoch(e) \/ SubmittedOnChain(e)
  <1>1. UNCHANGED <<polled, rawCkptChan, relay, lastSubmitted, storedCkpt, pairs>>
    BY DEF Outside, ResendIntervalPasses, SealEpoch, SubmittedOnChain, ForgottenOnChain, Mine, LoseTx, bitcoinTxs
  <1>2. rawCkpt' \in [CkptEpoch -> {"none", "sealed", "submitted"}]
    BY DEF Outside, ResendIntervalPasses, SealEpoch, SubmittedOnChain, ForgottenOnChain, Mine, LoseTx, SubmitterTypeOK
  <1>3. mishaps' \in Mishaps
    BY MishapValues DEF Outside, ResendIntervalPasses, SealEpoch, SubmittedOnChain, ForgottenOnChain, Mine, LoseTx
  <1>4. mishaps'.forgotten = 0 =>
               /\ mishaps.forgotten = 0
               /\ \/ UNCHANGED rawCkpt
                  \/ \E e \in CkptEpoch : SealEpoch(e) \/ SubmittedOnChain(e)
    BY MishapValues DEF Outside, ResendIntervalPasses, SealEpoch, SubmittedOnChain, ForgottenOnChain, Mine, LoseTx
  <1> QED
    BY <1>1, <1>2, <1>3, <1>4 DEF SubmitterTypeOK, Mishaps

LEMMA PollerSteps ==
  ASSUME SubmitterTypeOK, PollerLoop
  PROVE  /\ SubmitterTypeOK'
         /\ UNCHANGED <<rawCkpt, relay, lastSubmitted, storedCkpt, pairs, mishaps>>
         /\ PollSealedCheckpoints =>
               /\ polled' \in CkptEpoch /\ rawCkpt[polled'] = "sealed"
               /\ \A d \in CkptEpoch : d < polled' => rawCkpt[d] # "sealed"
  <1>1. UNCHANGED <<rawCkpt, relay, lastSubmitted, storedCkpt, pairs, mishaps>>
    BY DEF PollerLoop, PollSealedCheckpoints, PushCheckpoint, bitcoinTxs
  <1>2. ASSUME PollSealedCheckpoints
        PROVE  /\ polled' \in CkptEpoch /\ rawCkpt[polled'] = "sealed"
               /\ \A d \in CkptEpoch : d < polled' => rawCkpt[d] # "sealed"
    <2>1. SealedEpochs \in SUBSET Nat /\ SealedEpochs # {}
      BY <1>2 DEF PollSealedCheckpoints, SealedEpochs, CkptEpoch
    <2>2. PICK m \in SealedEpochs : \A d \in SealedEpochs : m <= d
      BY <2>1, LeastNatural
    <2>3. polled' \in SealedEpochs /\ \A d \in SealedEpochs : polled' <= d
      BY <1>2, <2>2 DEF PollSealedCheckpoints
    <2> QED
      BY <2>1, <2>3 DEF SealedEpochs, CkptEpoch
  <1>3. polled' \in 0..LastEpoch /\ rawCkptChan' \in Seq(CkptEpoch)
    <2>1. CASE PollSealedCheckpoints
      BY <1>2, <2>1, SubmitterAssumption DEF PollSealedCheckpoints, CkptEpoch, SubmitterTypeOK
    <2>2. CASE PushCheckpoint
      <3>1. polled \in CkptEpoch /\ rawCkptChan \in Seq(CkptEpoch)
        BY <2>2, SubmitterAssumption DEF PushCheckpoint, CkptEpoch, SubmitterTypeOK
      <3> QED
        BY <2>2, <3>1, SubmitterAssumption DEF PushCheckpoint
    <2> QED
      BY <2>1, <2>2 DEF PollerLoop
  <1> QED
    BY <1>1, <1>2, <1>3 DEF SubmitterTypeOK

LEMMA RestartStep ==
  ASSUME SubmitterTypeOK, RestartSubmitter
  PROVE  SubmitterTypeOK' /\ mishaps'.forgotten = mishaps.forgotten
  <1>1. lastSubmitted' \in Submission
    BY NoTxType, SubmitterAssumption DEF RestartSubmitter, NothingSubmitted, Submission
  <1>2. relay' \in Relay /\ relay'.pc = "idle"
    BY NoTxType DEF RestartSubmitter, IdleRelay, Begin
  <1>3. mishaps' \in Mishaps /\ mishaps'.forgotten = mishaps.forgotten
    BY MishapValues DEF RestartSubmitter
  <1>4. polled' \in 0..LastEpoch /\ rawCkptChan' \in Seq(CkptEpoch)
    BY SubmitterAssumption DEF RestartSubmitter
  <1>5. UNCHANGED <<rawCkpt, storedCkpt, pairs>>
    BY DEF RestartSubmitter, bitcoinTxs
  <1> QED
    BY <1>1, <1>2, <1>3, <1>4, <1>5 DEF SubmitterTypeOK, Submission, Mishaps

-----------------------------------------------------------------------------
(* The order of the epochs *)

FirstEpoch == lastSubmitted.tx1[1]

Reached(c) == \A d \in CkptEpoch : d < c => rawCkpt[d] = "submitted"

(* As long as no checkpoint is taken back, the epochs on their way to the  *)
(* relayer never decrease, and none is below the one it last began.        *)
QueueInv ==
  /\ \A d, e \in CkptEpoch : d < e /\ rawCkpt[e] # "none" => rawCkpt[d] # "none"
  /\ Reached(polled) /\ Reached(FirstEpoch) /\ Reached(relay.e)
  /\ polled # 0 => FirstEpoch <= polled /\ relay.e <= polled
  /\ \A i \in 1..Len(rawCkptChan) :
       /\ Reached(rawCkptChan[i])
       /\ FirstEpoch <= rawCkptChan[i] /\ relay.e <= rawCkptChan[i]
       /\ polled # 0 => rawCkptChan[i] <= polled
       /\ \A j \in 1..i : rawCkptChan[j] <= rawCkptChan[i]

LEMMA QueueTypes ==
  ASSUME SubmitterTypeOK
  PROVE  /\ FirstEpoch \in Nat /\ relay.e \in Nat /\ polled \in Nat
         /\ rawCkptChan \in Seq(CkptEpoch) /\ CkptEpoch \subseteq Nat
  <1>1. lastSubmitted.tx1 \in Tx /\ relay.e \in 0..LastEpoch /\ polled \in 0..LastEpoch
    BY DEF SubmitterTypeOK, Relay
  <1>2. FirstEpoch \in Nat
    BY <1>1 DEF FirstEpoch, Tx
  <1>3. rawCkptChan \in Seq(CkptEpoch) /\ CkptEpoch \subseteq Nat
    BY SubmitterAssumption DEF SubmitterTypeOK, CkptEpoch
  <1> QED
    BY <1>1, <1>2, <1>3, SubmitterAssumption

LEMMA QueueKept ==
  ASSUME SubmitterTypeOK, SubmitterTypeOK', QueueInv, UNCHANGED <<rawCkpt, polled, rawCkptChan>>,
         relay'.e \in {0, relay.e}, FirstEpoch' \in {0, FirstEpoch, relay.e}
  PROVE  QueueInv'
  <1>1. Reached(FirstEpoch)' /\ Reached(relay.e)' /\ Reached(polled)'
    BY QueueTypes DEF QueueInv, Reached
  <1>2. \A i \in 1..Len(rawCkptChan) : rawCkptChan[i] \in Nat
    BY QueueTypes
  <1>3. \A i \in 1..Len(rawCkptChan) : Reached(rawCkptChan[i])'
    BY DEF QueueInv, Reached
  <1>4. \A i \in 1..Len(rawCkptChan) : FirstEpoch' <= rawCkptChan[i] /\ relay'.e <= rawCkptChan[i]
    BY <1>2 DEF QueueInv
  <1>5. polled # 0 => FirstEpoch' <= polled /\ relay'.e <= polled
    BY QueueTypes DEF QueueInv
  <1> QED
    BY <1>1, <1>3, <1>4, <1>5 DEF QueueInv

LEMMA QueueTaken ==
  ASSUME SubmitterTypeOK, SubmitterTypeOK', QueueInv, UNCHANGED <<rawCkpt, polled, lastSubmitted>>,
         rawCkptChan # <<>>, rawCkptChan' = Tail(rawCkptChan), relay'.e \in {0, Head(rawCkptChan)}
  PROVE  QueueInv'
  <1>1. /\ Head(rawCkptChan) = rawCkptChan[1] /\ 1 \in 1..Len(rawCkptChan)
        /\ Len(rawCkptChan') = Len(rawCkptChan) - 1
        /\ \A i \in 1..Len(rawCkptChan') : rawCkptChan'[i] = rawCkptChan[i + 1] /\ i + 1 \in 1..Len(rawCkptChan)
    BY QueueTypes
  <1>2. \A i \in 1..Len(rawCkptChan) : rawCkptChan[i] \in Nat
    BY QueueTypes
  <1>3. Reached(FirstEpoch)' /\ Reached(polled)'
    BY DEF QueueInv, Reached, FirstEpoch
  <1>4. Reached(relay.e)'
    BY <1>1, SubmitterAssumption DEF QueueInv, Reached, CkptEpoch
  <1>5. polled # 0 => FirstEpoch' <= polled /\ relay'.e <= polled
    BY <1>1, QueueTypes DEF QueueInv, FirstEpoch
  <1>6. ASSUME NEW i \in 1..Len(rawCkptChan')
        PROVE  /\ Reached(rawCkptChan[i])'
               /\ FirstEpoch' <= rawCkptChan'[i] /\ relay'.e <= rawCkptChan'[i]
               /\ polled' # 0 => rawCkptChan'[i] <= polled'
    BY <1>1, <1>2 DEF QueueInv, Reached, FirstEpoch
  <1>7. ASSUME NEW i \in 1..Len(rawCkptChan'), NEW j \in 1..i
        PROVE  rawCkptChan'[j] <= rawCkptChan'[i]
    <2>1. i + 1 \in 1..Len(rawCkptChan) /\ j + 1 \in 1..(i + 1) /\ j \in 1..Len(rawCkptChan')
      BY <1>1
    <2> QED
      BY <1>1, <2>1 DEF QueueInv
  <1> QED
    BY <1>3, <1>4, <1>5, <1>6, <1>7 DEF QueueInv

LEMMA QueuePolled ==
  ASSUME SubmitterTypeOK, SubmitterTypeOK', QueueInv, PollerLoop
  PROVE  QueueInv'
  <1>1. UNCHANGED <<rawCkpt, relay, lastSubmitted>>
    BY PollerSteps
  <1>2. \A i \in 1..Len(rawCkptChan) : rawCkptChan[i] \in CkptEpoch /\ rawCkptChan[i] \in Nat
    BY QueueTypes
  <1>3. Reached(FirstEpoch)' /\ Reached(relay.e)'
    BY <1>1 DEF QueueInv, Reached, FirstEpoch
  <1>4. CASE PollSealedCheckpoints
    <2>1. /\ polled' \in CkptEpoch /\ polled' \in Nat /\ rawCkpt[polled'] = "sealed"
          /\ \A d \in CkptEpoch : d < polled' => rawCkpt[d] # "sealed"
      BY <1>4, PollerSteps, QueueTypes
    <2>2. Reached(polled)'
      <3>1. ASSUME NEW d \in CkptEpoch, d < polled' PROVE rawCkpt[d] = "submitted"
        <4>1. rawCkpt[d] # "none"
          BY <2>1, <3>1 DEF QueueInv
        <4> QED
          BY <2>1, <3>1, <4>1 DEF SubmitterTypeOK
      <3> QED
        BY <1>1, <3>1 DEF Reached
    <2>3. ASSUME NEW c \in Nat, Reached(c) PROVE c <= polled'
      BY <2>1, <2>3 DEF Reached
    <2>4. FirstEpoch' <= polled' /\ relay'.e <= polled'
      BY <1>1, <2>3, QueueTypes DEF QueueInv, FirstEpoch
    <2>5. UNCHANGED rawCkptChan
      BY <1>4 DEF PollSealedCheckpoints
    <2>6. ASSUME NEW i \in 1..Len(rawCkptChan)
          PROVE  Reached(rawCkptChan[i])' /\ rawCkptChan[i] <= polled'
      BY <1>1, <1>2, <2>3, <2>5 DEF QueueInv, Reached
    <2>7. FirstEpoch' = FirstEpoch
      BY <1>1 DEF FirstEpoch
    <2> QED
      BY <1>1, <1>3, <2>2, <2>4, <2>5, <2>6, <2>7 DEF QueueInv
  <1>5. CASE PushCheckpoint
    <2>1. polled # 0 /\ polled \in CkptEpoch /\ polled' = 0 /\ rawCkptChan' = Append(rawCkptChan, polled)
      BY <1>5, SubmitterAssumption DEF PushCheckpoint, SubmitterTypeOK, CkptEpoch
    <2>2. /\ Len(rawCkptChan) \in Nat /\ Len(rawCkptChan') = Len(rawCkptChan) + 1
          /\ rawCkptChan'[Len(rawCkptChan) + 1] = polled
          /\ \A i \in 1..Len(rawCkptChan) : rawCkptChan'[i] = rawCkptChan[i]
      BY <2>1, QueueTypes
    <2>3. Reached(polled)'
      BY <2>1, SubmitterAssumption DEF Reached, CkptEpoch
    <2>4. FirstEpoch' = FirstEpoch
      BY <1>1 DEF FirstEpoch
    <2>5. ASSUME NEW i \in 1..Len(rawCkptChan')
          PROVE  /\ Reached(rawCkptChan[i])'
                 /\ FirstEpoch <= rawCkptChan'[i] /\ relay.e <= rawCkptChan'[i]
                 /\ \A j \in 1..i : rawCkptChan'[j] <= rawCkptChan'[i]
      <3>1. CASE i \in 1..Len(rawCkptChan)
        <4>1. rawCkptChan'[i] = rawCkptChan[i] /\ \A j \in 1..i : rawCkptChan'[j] = rawCkptChan[j]
          BY <2>2, <3>1
        <4> QED
          BY <1>1, <3>1, <4>1 DEF QueueInv, Reached
      <3>2. CASE i = Len(rawCkptChan) + 1
        <4>1. rawCkptChan'[i] = polled
          BY <2>2, <3>2
        <4>2. \A j \in 1..i : rawCkptChan'[j] <= polled
          BY <2>1, <2>2, <3>2, <1>2, QueueTypes DEF QueueInv
        <4> QED
          BY <1>1, <2>1, <4>1, <4>2 DEF QueueInv, Reached
      <3> QED
        BY <2>2, <3>1, <3>2
    <2> QED
      BY <1>1, <1>3, <2>1, <2>3, <2>4, <2>5 DEF QueueInv
  <1> QED
    BY <1>4, <1>5 DEF PollerLoop

LEMMA QueueOutside ==
  ASSUME SubmitterTypeOK, SubmitterTypeOK', QueueInv, UNCHANGED <<polled, rawCkptChan, relay, lastSubmitted>>,
         \/ UNCHANGED rawCkpt
         \/ \E e \in CkptEpoch : SealEpoch(e) \/ SubmittedOnChain(e)
  PROVE  QueueInv'
  <1>1. rawCkpt \in [CkptEpoch -> {"none", "sealed", "submitted"}]
    BY DEF SubmitterTypeOK
  <1>2. \A d \in CkptEpoch : rawCkpt[d] = "submitted" => rawCkpt'[d] = "submitted"
    BY <1>1 DEF SealEpoch, SubmittedOnChain
  <1>3. ASSUME NEW c, Reached(c) PROVE \A d \in CkptEpoch : d < c => rawCkpt'[d] = "submitted"
    BY <1>2, <1>3 DEF Reached
  <1>4. Reached(polled)' /\ Reached(FirstEpoch)' /\ Reached(relay.e)'
    BY <1>3 DEF QueueInv, Reached, FirstEpoch
  <1>5. \A i \in 1..Len(rawCkptChan) : Reached(rawCkptChan[i])'
    BY <1>3 DEF QueueInv, Reached
  <1>6. ASSUME NEW d \in CkptEpoch, NEW e \in CkptEpoch, d < e, rawCkpt'[e] # "none"
        PROVE  rawCkpt'[d] # "none"
    <2>1. rawCkpt[d] # "none" => rawCkpt'[d] # "none"
      BY <1>1 DEF SealEpoch, SubmittedOnChain
    <2>2. CASE rawCkpt[e] # "none"
      BY <1>6, <2>1, <2>2 DEF QueueInv
    <2>3. CASE rawCkpt[e] = "none"
      <3>1. SealEpoch(e)
        BY <1>1, <1>6, <2>3 DEF SealEpoch, SubmittedOnChain
      <3>2. d \in 1..(e - 1)
        BY <1>6 DEF CkptEpoch
      <3> QED
        BY <2>1, <3>1, <3>2 DEF SealEpoch
    <2> QED
      BY <2>2, <2>3
  <1>7. FirstEpoch' = FirstEpoch
    BY DEF FirstEpoch
  <1> QED
    BY <1>4, <1>5, <1>6, <1>7 DEF QueueInv

-----------------------------------------------------------------------------
(* The pair in memory and on disk *)

SamePair(a, b) == a[1] = b[1] /\ a[2] = b[2]

(* What the disk holds is never of the epoch that a pair is about to be    *)
(* built for.                                                              *)
DiskInv == relay.pc = "tx1" => storedCkpt.e # relay.e

(* The first transaction in memory may be of a later epoch than the        *)
(* second, when the second could not be sent.  Nothing is stored then: the *)
(* relayer bumps or stores only when both are of the epoch it works on.    *)
PairInv ==
  /\ lastSubmitted.e <= FirstEpoch
  /\ lastSubmitted.e = 0 => lastSubmitted.tx2 = NoTx
  /\ lastSubmitted.e # 0 => lastSubmitted.tx2[1] = lastSubmitted.e
  /\ lastSubmitted.e # 0 /\ lastSubmitted.e = FirstEpoch => SamePair(lastSubmitted.tx1, lastSubmitted.tx2)
  /\ lastSubmitted.e # 0 /\ relay.pc # "put" => storedCkpt.e = lastSubmitted.e
  /\ relay.pc # "idle" => FirstEpoch <= relay.e
  /\ relay.pc \in {"store", "tx1"} => lastSubmitted.e < relay.e
  /\ relay.pc = "tx2" => FirstEpoch = relay.e
  /\ relay.pc = "put" => lastSubmitted.e = relay.e /\ FirstEpoch = relay.e
  /\ relay.pc \in {"bump", "replace", "update"} => lastSubmitted.e = 0 \/ lastSubmitted.e = FirstEpoch
  /\ relay.pc \in {"replace", "update"} => lastSubmitted.e # 0
  /\ SamePair(storedCkpt.tx1, storedCkpt.tx2)

Inv ==
  /\ SubmitterTypeOK /\ DiskInv
  /\ mishaps.forgotten = 0 => QueueInv /\ PairInv

LEMMA InitInv == SubmitterInit => Inv
  <1> SUFFICES ASSUME SubmitterInit PROVE Inv
    OBVIOUS
  <1>1. SubmitterTypeOK
    BY InitType
  <1>2. relay.pc = "idle" /\ relay.e = 0
    BY DEF SubmitterInit, IdleRelay, Begin
  <1>3. FirstEpoch = 0 /\ lastSubmitted.e = 0 /\ lastSubmitted.tx2 = NoTx
    BY DEF SubmitterInit, NothingSubmitted, FirstEpoch, NoTx
  <1>4. polled = 0 /\ Len(rawCkptChan) = 0 /\ \A e \in CkptEpoch : rawCkpt[e] = "none"
    BY DEF SubmitterInit
  <1>5. QueueInv
    BY <1>2, <1>3, <1>4, SubmitterAssumption DEF QueueInv, Reached, CkptEpoch
  <1>6. SamePair(storedCkpt.tx1, storedCkpt.tx2)
    BY DEF SubmitterInit, SamePair
  <1> QED
    BY <1>1, <1>2, <1>3, <1>5, <1>6 DEF Inv, DiskInv, PairInv

LEMMA RelayerDisk ==
  ASSUME SubmitterTypeOK, DiskInv, ProcessLoop
  PROVE  DiskInv' /\ \A e \in CkptEpoch : pairs'[e] # pairs[e] => storedCkpt.e # e
  <1>1. IdleRelay.pc = "idle" /\ \A e : Begin("bump", e).pc = "bump" /\ Begin("store", e).pc = "store"
    BY DEF IdleRelay, Begin
  <1>2. relay \in Relay /\ pairs \in [CkptEpoch -> Nat]
    BY DEF SubmitterTypeOK
  <1>3. ASSUME relay'.pc = "tx1" PROVE maybeResendFromStore /\ relay' = RelayAt("tx1") /\ storedCkpt.e # relay.e
    <2>1. ~TakeCheckpoint /\ ~SubmissionFails /\ ~PutCheckpoint
      BY <1>1, <1>3 DEF TakeCheckpoint, SubmissionFails, PutCheckpoint, Resubmit
    <2>2. ~SendTx1 /\ ~SendTx2
      BY <1>3, RelayMoves DEF SendTx1, SendTx2
    <2>3. ~BumpFee
      <3> SUFFICES ASSUME BumpFee PROVE FALSE
        OBVIOUS
      <3>1. relay' \in {IdleRelay, AttemptFailed(FALSE), AttemptFailed(relay.rbf),
                       [relay EXCEPT !.pc = "replace", !.orig = lastSubmitted.tx2]}
        BY DEF BumpFee
      <3>2. relay.rbf \in BOOLEAN
        BY <1>2 DEF Relay
      <3>3. [relay EXCEPT !.pc = "replace", !.orig = lastSubmitted.tx2].pc = "replace"
        BY <1>2 DEF Relay
      <3> QED
        BY <1>1, <1>3, <3>1, <3>2, <3>3, RelayAttempts
    <2>4. ~Replace
      BY <1>1, <1>3, RelayAttempts, RelayMoves DEF Replace
    <2>5. maybeResendFromStore
      BY <2>1, <2>2, <2>3, <2>4 DEF ProcessLoop
    <2>6. relay' \in {IdleRelay, Begin("bump", relay.e)} \/ storedCkpt.e # relay.e
      BY <2>5 DEF maybeResendFromStore, hasBeenProcessed, Resubmit
    <2>7. storedCkpt.e # relay.e
      BY <1>1, <1>3, <2>6
    <2>8. relay' \in {RelayAt("tx1"), RelayAt("tx2")}
      BY <2>5, <2>7 DEF maybeResendFromStore
    <2> QED
      BY <1>3, <2>5, <2>7, <2>8, RelayMoves
  <1>4. DiskInv'
    <2> SUFFICES ASSUME relay'.pc = "tx1" PROVE storedCkpt'.e # relay'.e
      BY DEF DiskInv
    <2> QED
      BY <1>3, RelayMoves DEF maybeResendFromStore
  <1>5. ASSUME NEW e \in CkptEpoch, pairs'[e] # pairs[e] PROVE storedCkpt.e # e
    <2>1. SendTx1
      BY <1>5 DEF ProcessLoop, TakeCheckpoint, maybeResendFromStore, SubmissionFails, SendTx2,
                  PutCheckpoint, BumpFee, Replace, bitcoinTxs
    <2>2. e = relay.e /\ relay.pc = "tx1"
      BY <1>2, <1>5, <2>1 DEF SendTx1
    <2> QED
      BY <2>2 DEF DiskInv
  <1> QED
    BY <1>4, <1>5

\* The relayer keeps the order of the epochs: it moves only to the head of
\* the channel, and its first transaction only to the epoch it works on.
LEMMA RelayerQueue ==
  ASSUME SubmitterTypeOK, SubmitterTypeOK', QueueInv, ProcessLoop
  PROVE  QueueInv'
  <1>1. UNCHANGED <<rawCkpt, polled>>
    BY ProcessSteps
  <1>2. CASE TakeCheckpoint
    BY <1>1, <1>2, QueueTaken, RelaySteps, QueueTypes DEF TakeCheckpoint
  <1>3. CASE ~TakeCheckpoint
    <2>1. relay'.e \in {0, relay.e} /\ UNCHANGED rawCkptChan
      BY <1>3, RelaySteps
    <2>2. FirstEpoch' \in {FirstEpoch, relay.e}
      <3>1. CASE SendTx1
        BY <3>1, SubmissionValues DEF FirstEpoch, Submission
      <3>2. CASE SendTx2
        BY <3>2 DEF FirstEpoch, SendTx2
      <3>3. CASE BumpFee \/ Replace
        BY <3>3, SubmissionValues DEF FirstEpoch
      <3>4. CASE ~SendTx1 /\ ~SendTx2 /\ ~BumpFee /\ ~Replace
        BY <3>4 DEF FirstEpoch, ProcessLoop, TakeCheckpoint, maybeResendFromStore, SubmissionFails, PutCheckpoint
      <3> QED
        BY <3>1, <3>2, <3>3, <3>4
    <2> QED
      BY <1>1, <2>1, <2>2, QueueKept
  <1> QED
    BY <1>2, <1>3

\* The relayer moves on and neither memory nor disk changes.
LEMMA PairMoves ==
  ASSUME SubmitterTypeOK, SubmitterTypeOK', PairInv, UNCHANGED <<lastSubmitted, storedCkpt>>, relay.pc # "put",
         \/ relay'.pc = "idle"
         \/ relay'.pc \in {"store", "tx1"} /\ FirstEpoch <= relay'.e /\ lastSubmitted.e < relay'.e
         \/ /\ relay'.pc = "bump" /\ FirstEpoch <= relay'.e
            /\ lastSubmitted.e = 0 \/ lastSubmitted.e = FirstEpoch
  PROVE  PairInv'
  BY DEF PairInv, FirstEpoch, SamePair

LEMMA RelayerPair ==
  ASSUME SubmitterTypeOK, SubmitterTypeOK', QueueInv, PairInv, ProcessLoop
  PROVE  PairInv'
  <1>1. /\ lastSubmitted.e \in Nat /\ FirstEpoch \in Nat /\ relay.e \in Nat
        /\ relay.pc # "idle" => relay.e \in CkptEpoch /\ relay.e # 0
    <2>1. lastSubmitted.e \in 0..LastEpoch /\ (relay.pc # "idle" => relay.e \in CkptEpoch)
      BY DEF SubmitterTypeOK
    <2> QED
      BY <2>1, QueueTypes, SubmitterAssumption DEF CkptEpoch
  <1>2. IdleRelay.pc = "idle" /\ \A e : /\ Begin("bump", e).pc = "bump" /\ Begin("bump", e).e = e
                                        /\ Begin("store", e).pc = "store" /\ Begin("store", e).e = e
    BY DEF IdleRelay, Begin
  <1>3. ASSUME relay'.pc = "idle", UNCHANGED <<lastSubmitted, storedCkpt>>, relay.pc # "put"
        PROVE  PairInv'
    BY <1>3, PairMoves
  <1>4. CASE TakeCheckpoint
    <2> DEFINE e == Head(rawCkptChan)
    <2>1. e \in CkptEpoch /\ e \in Nat /\ e > 0 /\ e = rawCkptChan[1] /\ 1 \in 1..Len(rawCkptChan)
      <3>1. rawCkptChan \in Seq(CkptEpoch) /\ rawCkptChan # <<>>
        BY <1>4, QueueTypes DEF TakeCheckpoint
      <3>2. e \in CkptEpoch /\ e = rawCkptChan[1] /\ 1 \in 1..Len(rawCkptChan)
        BY <3>1
      <3> QED
        BY <3>2, SubmitterAssumption DEF CkptEpoch
    <2>2. FirstEpoch <= e
      BY <2>1 DEF QueueInv
    <2>3. relay.pc = "idle" /\ UNCHANGED <<lastSubmitted, storedCkpt>>
      BY <1>2, <1>4 DEF TakeCheckpoint
    <2> HIDE DEF e
    <2>4. CASE relay' = Begin("store", e) /\ (shouldSendCompleteCkpt(e) \/ shouldSendTx2(e))
      <3>1. lastSubmitted.e < e
        <4>1. CASE lastSubmitted.tx1 = NoTx
          BY <1>1, <2>1, <4>1 DEF PairInv, FirstEpoch, NoTx
        <4>2. CASE lastSubmitted.tx2 = NoTx
          BY <1>1, <2>1, <4>2 DEF PairInv, NoTx
        <4> QED
          BY <2>4, <4>1, <4>2 DEF shouldSendCompleteCkpt, shouldSendTx2
      <3> QED
        BY <1>2, <2>2, <2>3, <2>4, <3>1, PairMoves
    <2>5. CASE relay' = Resubmit(e) /\ ~shouldSendCompleteCkpt(e)
      <3>1. lastSubmitted.e = FirstEpoch
        BY <1>1, <2>1, <2>2, <2>5 DEF PairInv, shouldSendCompleteCkpt
      <3>2. relay' \in {IdleRelay, Begin("bump", e)}
        BY <2>5 DEF Resubmit
      <3> QED
        BY <1>2, <1>3, <2>2, <2>3, <3>1, <3>2, PairMoves
    <2> QED
      BY <1>4, <2>4, <2>5 DEF TakeCheckpoint, e
  <1>5. CASE maybeResendFromStore
    <2>1. relay.pc = "store" /\ UNCHANGED <<lastSubmitted, storedCkpt>>
      BY <1>5 DEF maybeResendFromStore
    <2>2. lastSubmitted.e < relay.e /\ FirstEpoch <= relay.e /\ shouldSendCompleteCkpt(relay.e)
      BY <2>1 DEF PairInv, shouldSendCompleteCkpt
    <2>3. CASE storedCkpt.e = relay.e
      <3>1. lastSubmitted.e = 0
        BY <1>1, <2>1, <2>2, <2>3 DEF PairInv
      <3>2. relay' \in {IdleRelay, Begin("bump", relay.e)}
        BY <1>5, <2>3 DEF maybeResendFromStore, hasBeenProcessed, Resubmit
      <3> QED
        BY <1>2, <1>3, <2>1, <2>2, <3>1, <3>2, PairMoves
    <2>4. CASE storedCkpt.e # relay.e
      <3>1. relay' = RelayAt("tx1")
        BY <1>5, <2>2, <2>4 DEF maybeResendFromStore
      <3> QED
        BY <2>1, <2>2, <3>1, RelayMoves, PairMoves
    <2> QED
      BY <2>3, <2>4
  <1>6. CASE SubmissionFails
    BY <1>2, <1>3, <1>6 DEF SubmissionFails
  <1>7. CASE SendTx1
    <2>1. relay.pc = "tx1" /\ relay'.pc = "tx2" /\ relay'.e = relay.e /\ UNCHANGED storedCkpt
      BY <1>7, RelayMoves DEF SendTx1
    <2>2. lastSubmitted'.e = lastSubmitted.e /\ lastSubmitted'.tx2 = lastSubmitted.tx2 /\ FirstEpoch' = relay.e
      BY <1>7, SubmissionValues DEF FirstEpoch, Submission
    <2> QED
      BY <1>1, <2>1, <2>2 DEF PairInv
  <1>8. CASE SendTx2
    <2>1. relay.pc = "tx2" /\ relay'.pc = "put" /\ relay'.e = relay.e /\ UNCHANGED storedCkpt
      BY <1>8, RelayMoves DEF SendTx2
    <2>2. /\ lastSubmitted'.e = relay.e /\ lastSubmitted'.tx1 = lastSubmitted.tx1
          /\ lastSubmitted'.tx2[1] = relay.e /\ lastSubmitted'.tx2[2] = lastSubmitted.tx1[2]
      BY <1>8 DEF SendTx2
    <2>3. FirstEpoch' = relay.e /\ lastSubmitted.tx1[1] = relay.e
      BY <2>1, <2>2 DEF PairInv, FirstEpoch
    <2> QED
      BY <1>1, <2>1, <2>2, <2>3 DEF PairInv, SamePair
  <1>9. CASE PutCheckpoint
    <2>1. relay.pc \in {"put", "update"} /\ UNCHANGED lastSubmitted /\ FirstEpoch' = FirstEpoch
      BY <1>9 DEF PutCheckpoint, FirstEpoch
    <2>2. storedCkpt'.e = lastSubmitted.e /\ storedCkpt'.tx1 = lastSubmitted.tx1 /\ storedCkpt'.tx2 = lastSubmitted.tx2
      BY <1>9 DEF PutCheckpoint
    <2>3. relay'.pc = "idle" \/ (relay'.pc = "bump" /\ relay'.e = relay.e)
      BY <1>2, <1>9 DEF PutCheckpoint, Resubmit
    <2>4. lastSubmitted.e # 0 /\ lastSubmitted.e = FirstEpoch
      BY <1>1, <2>1 DEF PairInv
    <2> QED
      BY <2>1, <2>2, <2>3, <2>4 DEF PairInv, SamePair
  <1>10. CASE BumpFee
    <2>1. relay.pc = "bump" /\ UNCHANGED storedCkpt
      BY <1>10 DEF BumpFee
    <2>2. CASE UNCHANGED lastSubmitted /\ relay' \in {IdleRelay, AttemptFailed(FALSE), AttemptFailed(relay.rbf)}
      <3>1. relay.rbf \in BOOLEAN
        BY DEF SubmitterTypeOK, Relay
      <3>2. relay'.pc = "idle" \/ (relay'.pc = "bump" /\ relay'.e = relay.e)
        BY <1>2, <2>2, <3>1, RelayAttempts
      <3>3. FirstEpoch <= relay.e /\ (lastSubmitted.e = 0 \/ lastSubmitted.e = FirstEpoch)
        BY <2>1 DEF PairInv
      <3> QED
        BY <2>1, <2>2, <3>2, <3>3, PairMoves
    <2>3. CASE ~UNCHANGED lastSubmitted
      <3>1. /\ lastSubmitted.tx2 # NoTx
            /\ lastSubmitted'.e = lastSubmitted.e /\ lastSubmitted'.tx1 = lastSubmitted.tx1
            /\ lastSubmitted'.tx2[1] = lastSubmitted.tx2[1]
            /\ lastSubmitted'.tx2[2] = lastSubmitted.tx2[2]
            /\ relay' = [relay EXCEPT !.pc = "replace", !.orig = lastSubmitted.tx2]
        BY <1>10, <2>3, SubmissionValues
      <3>2. relay'.pc = "replace" /\ relay'.e = relay.e
        BY <3>1 DEF SubmitterTypeOK, Relay
      <3>3. lastSubmitted.e # 0 /\ FirstEpoch' = FirstEpoch
        BY <3>1 DEF PairInv, FirstEpoch
      <3> QED
        BY <2>1, <3>1, <3>2, <3>3 DEF PairInv, SamePair
    <2>4. UNCHANGED lastSubmitted => relay' \in {IdleRelay, AttemptFailed(FALSE), AttemptFailed(relay.rbf)}
      <3>1. lastSubmitted \in Submission
        BY SubmissionValues
      <3>2. lastSubmitted # [lastSubmitted EXCEPT !.tx2[3] = @ + 1]
        BY <3>1 DEF Submission, Tx
      <3> QED
        BY <1>10, <3>2 DEF BumpFee
    <2> QED
      BY <2>2, <2>3, <2>4
  <1>11. CASE Replace
    <2>1. relay.pc = "replace" /\ UNCHANGED storedCkpt
      BY <1>11 DEF Replace
    <2>2. /\ lastSubmitted'.e = lastSubmitted.e /\ lastSubmitted'.tx1 = lastSubmitted.tx1
          /\ lastSubmitted'.tx2 = lastSubmitted.tx2 /\ FirstEpoch' = FirstEpoch
      BY <1>11, SubmissionValues DEF FirstEpoch
    <2>3. relay' \in {IdleRelay, AttemptFailed(FALSE), AttemptFailed(TRUE), RelayAt("update")}
      BY <1>11 DEF Replace
    <2>4. relay'.pc = "idle" \/ (relay'.pc \in {"bump", "update"} /\ relay'.e = relay.e)
      BY <1>2, <2>3, RelayAttempts, RelayMoves
    <2> QED
      BY <2>1, <2>2, <2>4 DEF PairInv
  <1> QED
    BY <1>4, <1>5, <1>6, <1>7, <1>8, <1>9, <1>10, <1>11 DEF ProcessLoop

-----------------------------------------------------------------------------

LEMMA StepInv == Inv /\ [SubmitterNext]_submitterVars => Inv'
  <1> SUFFICES ASSUME Inv, [SubmitterNext]_submitterVars PROVE Inv'
    OBVIOUS
  <1>1. SubmitterTypeOK /\ DiskInv /\ (mishaps.forgotten = 0 => QueueInv /\ PairInv)
    BY DEF Inv
  <1>2. ASSUME UNCHANGED <<relay, lastSubmitted, storedCkpt>>
        PROVE  DiskInv' /\ (PairInv => PairInv')
    BY <1>1, <1>2 DEF DiskInv, PairInv, FirstEpoch, SamePair
  <1>3. CASE PollerLoop
    BY <1>1, <1>2, <1>3, PollerSteps, QueuePolled DEF Inv
  <1>4. CASE ProcessLoop
    BY <1>1, <1>4, ProcessSteps, RelayerDisk, RelayerQueue, RelayerPair DEF Inv
  <1>5. CASE Outside
    BY <1>1, <1>2, <1>5, OutsideSteps, QueueOutside DEF Inv
  <1>6. CASE RestartSubmitter
    <2>1. SubmitterTypeOK' /\ mishaps'.forgotten = mishaps.forgotten
      BY <1>1, <1>6, RestartStep
    <2>2. relay'.pc = "idle" /\ relay'.e = 0
      BY <1>6 DEF RestartSubmitter, IdleRelay, Begin
    <2>3. FirstEpoch' = 0 /\ lastSubmitted'.e = 0 /\ lastSubmitted'.tx2 = NoTx
      BY <1>6 DEF RestartSubmitter, NothingSubmitted, FirstEpoch, NoTx
    <2>4. polled' = 0 /\ Len(rawCkptChan') = 0 /\ UNCHANGED <<rawCkpt, storedCkpt>>
      BY <1>6 DEF RestartSubmitter
    <2>5. QueueInv => QueueInv'
      BY <2>2, <2>3, <2>4, SubmitterAssumption DEF QueueInv, Reached, CkptEpoch
    <2>6. PairInv => PairInv'
      BY <2>2, <2>3, <2>4 DEF PairInv, SamePair
    <2> QED
      BY <1>1, <2>1, <2>2, <2>5, <2>6 DEF Inv, DiskInv
  <1>7. CASE UNCHANGED submitterVars
    <2>1. UNCHANGED <<rawCkpt, polled, rawCkptChan, relay, lastSubmitted, storedCkpt, pairs, mishaps>>
      BY <1>7 DEF submitterVars, bitcoinTxs
    <2>2. SubmitterTypeOK'
      BY <1>1, <2>1 DEF SubmitterTypeOK
    <2> QED
      BY <1>1, <1>2, <2>1, <2>2, QueueOutside DEF Inv
  <1> QED
    BY <1>3, <1>4, <1>5, <1>6, <1>7 DEF SubmitterNext, Outside

(* No second pair is begun for the epoch whose pair is on disk, and the    *)
(* pair on disk is a pair until a reorg takes a checkpoint back, for any   *)
(* numbers of epochs, attempts, failures and restarts.                     *)
THEOREM PairsCorrect == SubmitterSpec => StoredIsNotRebuilt
  <1>1. Inv => (mishaps.forgotten = 0 => /\ storedCkpt.tx1[2] = storedCkpt.tx2[2]
                                         /\ storedCkpt.tx1[1] = storedCkpt.tx2[1])
    BY DEF Inv, PairInv, SamePair
  <1>2. Inv /\ [SubmitterNext]_submitterVars
          => [\A e \in CkptEpoch : pairs'[e] # pairs[e] => storedCkpt.e # e]_submitterVars
    <2> SUFFICES ASSUME Inv, SubmitterNext PROVE \A e \in CkptEpoch : pairs'[e] # pairs[e] => storedCkpt.e # e
      OBVIOUS
    <2>1. SubmitterTypeOK /\ DiskInv
      BY DEF Inv
    <2>2. CASE ProcessLoop
      BY <2>1, <2>2, RelayerDisk
    <2>3. CASE PollerLoop \/ RestartSubmitter \/ Outside
      <3>1. UNCHANGED pairs
        BY <2>1, <2>3, PollerSteps, OutsideSteps DEF RestartSubmitter, bitcoinTxs
      <3> QED
        BY <3>1
    <2> QED
      BY <2>2, <2>3 DEF SubmitterNext, Outside
  <1> QED
    BY <1>1, <1>2, InitInv, StepInv, PTL DEF SubmitterSpec, StoredIsNotRebuilt
=============================================================================
