---------------------------- MODULE BTCCheckpoint ----------------------------
(***************************************************************************)
(* x/btccheckpoint: the submissions of an epoch's checkpoint to Bitcoin,   *)
(* as seen through the light client.  A submission is a pair of Bitcoin    *)
(* transactions.  InsertBTCSpvProof stores submissions in the data of      *)
(* their epoch; at the end of a block in which the light client changed,   *)
(* checkCheckpoints walks over the epochs, drops submissions that are on a *)
(* fork or before their parent, and confirms or finalises epochs by the    *)
(* depth of their best submission, which it reports to x/checkpointing.    *)
(***************************************************************************)
EXTENDS BTCLightClient, Checkpointing, Functions

CONSTANTS
    Sub,            \* submissions that reporters may prove
    EpochOf,        \* the epoch a submission is for
    TxBlock,        \* the Bitcoin blocks of its two transactions
    TxIndex,        \* and their positions in these blocks
    Verdict,        \* verifyCkptBytes: "valid" or "conflict"; what it refuses has no effect
    W               \* params.CheckpointFinalizationTimeout, immutable

ASSUME BTCCheckpointAssumption ==
    /\ EpochOf \in [Sub -> Epoch]
    /\ TxBlock \in [Sub -> Block \X Block] /\ TxIndex \in [Sub -> Nat \X Nat]
    /\ Verdict \in [Sub -> {"valid", "conflict"}]
    /\ W \in Nat /\ \A d \in Depths : d < W

VARIABLES
    epochData,      \* epochData[e]: [Keys, Status]; NoEpochData before the first one
    submissions,    \* submissions with data in the store
    lastFinalized,  \* LatestFinalizedEpoch of x/btccheckpoint
    lcUpdated,      \* transient: the light client changed in this block
    panicked        \* history: why checkCheckpoints stopped the chain

btccVars == <<epochData, submissions, lastFinalized, lcUpdated, panicked>>
vars == <<lightVars, ckptVars, btccVars>>

NoEpochData == [Keys |-> <<>>, Status |-> "None"]
NewEmptyEpochData == [Keys |-> <<>>, Status |-> "Submitted"]

BTCCheckpointTypeOK ==
    /\ LightTypeOK /\ CheckpointingTypeOK
    /\ DOMAIN epochData = Epoch
    /\ \A e \in Epoch :
          /\ epochData[e].Status \in {"None", "Submitted", "Confirmed", "Finalized"}
          /\ Range(epochData[e].Keys) \subseteq {s \in Sub : EpochOf[s] = e}
          /\ Len(epochData[e].Keys) = Cardinality(Range(epochData[e].Keys))
    /\ submissions \subseteq Sub
    /\ lastFinalized \in 0..MaxEpoch
    /\ lcUpdated \in BOOLEAN
    /\ panicked \in {"no", "forked", "several"}

Init ==
    /\ LightInit /\ CheckpointingInit
    /\ epochData = [e \in Epoch |-> NoEpochData]
    /\ submissions = {}
    /\ lastFinalized = 0
    /\ lcUpdated = FALSE
    /\ panicked = "no"

-----------------------------------------------------------------------------
(* Where a submission is on the Bitcoin chain *)

OnMainChain(s) == \A i \in 1..2 : HeaderExists(TxBlock[s][i])

TxDepths(s) == {MainChainDepth(TxBlock[s][i]) : i \in 1..2}

(* SubmissionBtcInfo of a submission on the main chain. *)
YoungestBlockDepth(s) == CHOOSE d \in TxDepths(s) : \A c \in TxDepths(s) : d <= c
OldestBlockDepth(s) == CHOOSE d \in TxDepths(s) : \A c \in TxDepths(s) : d >= c
YoungestBlockLowestTxIdx(s) ==
    LET young == {TxIndex[s][i] : i \in {j \in 1..2 : MainChainDepth(TxBlock[s][j]) = YoungestBlockDepth(s)}}
    IN  CHOOSE x \in young : \A y \in young : x <= y

HappenedAfter(s, parent) == OldestBlockDepth(s) < YoungestBlockDepth(parent)

IsBetterThan(s, t) ==
    \/ YoungestBlockDepth(s) > YoungestBlockDepth(t)
    \/ /\ YoungestBlockDepth(s) = YoungestBlockDepth(t)
       /\ YoungestBlockLowestTxIdx(s) < YoungestBlockLowestTxIdx(t)

(* Mutation: an epoch is final as soon as it is submitted. *)
FinalTooEarly(s) == "Finalized"

checkSubmissionStatus(s) ==
    CASE YoungestBlockDepth(s) >= W -> "Finalized"
      [] YoungestBlockDepth(s) >= depth /\ YoungestBlockDepth(s) < W -> "Confirmed"
      [] OTHER -> "Submitted"

-----------------------------------------------------------------------------
(* MsgInsertBTCSpvProof *)

HasSubmission(s) == s \in submissions

(* Mutation: ancestors are not checked. *)
NoAncestorNeeded(s) == TRUE

checkAncestors(s) ==
    EpochOf[s] > 1 =>
        \E p \in Range(epochData[EpochOf[s] - 1].Keys) : OnMainChain(p) /\ HappenedAfter(s, p)

addEpochSubmission(s) ==
    LET e == EpochOf[s]
        ed == IF epochData[e] = NoEpochData THEN NewEmptyEpochData ELSE epochData[e]
    IN  /\ ckpt' = IF ed.Keys = <<>> THEN SetCheckpointSubmitted(ckpt, e) ELSE ckpt
        /\ epochData' = [epochData EXCEPT ![e] = [ed EXCEPT !.Keys = Append(@, s)]]
        /\ submissions' = submissions \cup {s}

(* A conflicting checkpoint ends the message with success and only leaves  *)
(* the flag behind.                                                        *)
InsertBTCSpvProof(s) ==
    /\ ~halted
    /\ ~HasSubmission(s)
    /\ OnMainChain(s)
    /\ epochData[EpochOf[s]].Status # "Finalized"
    /\ ckpt.st[EpochOf[s]] # "None"
    /\ \/ /\ Verdict[s] = "conflict"
          /\ conflict' = TRUE
          /\ UNCHANGED <<ckpt, epochData, submissions>>
       \/ /\ Verdict[s] = "valid"
          /\ checkAncestors(s)
          /\ addEpochSubmission(s)
          /\ UNCHANGED conflict
    /\ UNCHANGED <<lightVars, lastFinalized, lcUpdated, panicked>>

-----------------------------------------------------------------------------
(* checkCheckpoints *)

NoParent == "no parent"     \* first epoch of the walk
LostParent == "lost"        \* the parent epoch has no submission left

(* The submissions of an epoch that stay. *)
SubmissionsToKeep(keys, parent) ==
    SelectSeq(keys, LAMBDA s : OnMainChain(s) /\ (parent = NoParent \/ HappenedAfter(s, parent)))

(* The first of the deepest submissions. *)
EpochBestSubmission(keep) ==
    keep[CHOOSE i \in 1..Len(keep) :
            /\ \A j \in 1..Len(keep) : ~IsBetterThan(keep[j], keep[i])
            /\ \A j \in 1..(i - 1) : IsBetterThan(keep[i], keep[j])]

(* BestSubmissionIdx is assigned only when a later submission beats the    *)
(* first one that is kept.                                                 *)
BestSubmissionIdx(keys, keep) ==
    IF EpochBestSubmission(keep) = keep[1]
    THEN 1 ELSE CHOOSE i \in 1..Len(keys) : keys[i] = EpochBestSubmission(keep)

(* The state of the walk. *)
Walk == [ed |-> epochData, subs |-> submissions, last |-> lastFinalized, ckpt |-> ckpt,
         parent |-> NoParent, done |-> FALSE, panic |-> "no"]

(* clearEpochData and SetCheckpointForgotten: the status of the epoch data *)
(* is left as it was.                                                      *)
ForgetEpoch(w, e) ==
    [w EXCEPT !.ed[e].Keys = <<>>,
              !.subs = @ \ Range(w.ed[e].Keys),
              !.ckpt = SetCheckpointForgotten(@, e),
              !.parent = LostParent]

(* A finalised epoch is the first of the walk: it only gives the parent.   *)
VisitFinalized(w, e) ==
    IF Len(w.ed[e].Keys) # 1 THEN [w EXCEPT !.panic = "several"]
    ELSE IF ~OnMainChain(w.ed[e].Keys[1]) THEN [w EXCEPT !.panic = "forked"]
    ELSE [w EXCEPT !.parent = w.ed[e].Keys[1]]

(* Mutation: an epoch has to be confirmed in an earlier block to be final. *)
StatusOnce(old, best) == IF old = "Submitted" /\ best # "Submitted" THEN "Confirmed" ELSE old

(* The two status updates of the walk, one after the other. *)
NewStatus(old, best) ==
    CASE best = "Finalized" -> "Finalized"
      [] best = "Confirmed" -> "Confirmed"
      [] OTHER -> old

ReportStatus(c, e, old, new) ==
    LET d == IF old = "Submitted" /\ new # "Submitted" THEN SetCheckpointConfirmed(c, e) ELSE c
    IN  IF new = "Finalized" THEN SetCheckpointFinalized(d, e) ELSE d

UpdateEpoch(w, e, keep) ==
    LET keys == w.ed[e].Keys
        best == EpochBestSubmission(keep)
        new == NewStatus(w.ed[e].Status, checkSubmissionStatus(best))
        gone == IF new = "Finalized"
                THEN Range(keys) \ {keys[BestSubmissionIdx(keys, keep)]}
                ELSE Range(keys) \ Range(keep)
    IN  [w EXCEPT !.ed[e] = [Keys |-> IF new = "Finalized" THEN <<best>> ELSE keep, Status |-> new],
                  !.subs = @ \ gone,
                  !.last = IF new = "Finalized" THEN e ELSE @,
                  !.ckpt = ReportStatus(@, e, w.ed[e].Status, new),
                  !.parent = best]

(* One iteration over the epoch store, which starts at the last finalised  *)
(* epoch and stops at the first epoch without submissions.                 *)
VisitEpoch(w, e) ==
    IF w.done \/ w.panic # "no" \/ e < lastFinalized \/ w.ed[e] = NoEpochData THEN w
    ELSE IF w.ed[e].Keys = <<>> THEN [w EXCEPT !.done = TRUE]
    ELSE IF w.ed[e].Status = "Finalized" THEN VisitFinalized(w, e)
    ELSE IF w.parent = LostParent THEN ForgetEpoch(w, e)
    ELSE LET keep == SubmissionsToKeep(w.ed[e].Keys, w.parent)
         IN  IF keep = <<>> THEN ForgetEpoch(w, e) ELSE UpdateEpoch(w, e, keep)

checkCheckpoints ==
    LET walk[e \in 0..MaxEpoch] == IF e = 0 THEN Walk ELSE VisitEpoch(walk[e - 1], e)
    IN  walk[MaxEpoch]

-----------------------------------------------------------------------------
(* Blocks *)

InsertBTCHeaders(s) ==
    /\ InsertHeaders(s)
    /\ lcUpdated' = TRUE
    /\ UNCHANGED <<ckptVars, epochData, submissions, lastFinalized, panicked>>

SealEpoch(e) ==
    /\ ~halted
    /\ SealCheckpoint(e)
    /\ UNCHANGED <<lightVars, btccVars>>

UpdateParams(d) ==
    /\ UpdateDepth(d)
    /\ UNCHANGED <<ckptVars, btccVars>>

(* EndBlockers of btccheckpoint (a panic or the new state), checkpointing  *)
(* (a panic on a conflict) and btcstaking (the reorg guard), in this order.*)
EndBlock ==
    \E w \in {IF lcUpdated THEN checkCheckpoints ELSE Walk} :
        /\ ~halted
        /\ epochData' = w.ed
        /\ submissions' = w.subs
        /\ lastFinalized' = w.last
        /\ ckpt' = w.ckpt
        /\ panicked' = w.panic
        /\ lcUpdated' = FALSE
        /\ \/ /\ w.panic = "no" /\ ~conflict
              /\ LightEndBlock
           \/ /\ w.panic # "no" \/ conflict
              /\ halted' = TRUE
              /\ UNCHANGED <<store, depth, largestReorg, history>>
        /\ UNCHANGED conflict

Next ==
    \/ \E s \in Message : InsertBTCHeaders(s)
    \/ \E e \in Epoch : SealEpoch(e)
    \/ \E s \in Sub : InsertBTCSpvProof(s)
    \/ \E d \in Depths : UpdateParams(d)
    \/ EndBlock

Spec == Init /\ [][Next]_vars

(* Every block ends (EndBlock is enabled until the chain halts), and       *)
(* reporters relay headers.                                                *)
FairSpec ==
    /\ Spec
    /\ []<>(halted \/ ~lcUpdated)
    /\ WF_vars(\E s \in Message : InsertBTCHeaders(s))

-----------------------------------------------------------------------------
(* Properties *)

(* Submission and finalisation are reported to x/checkpointing by calls    *)
(* that may be refused with a log line only: the two modules still agree   *)
(* on the status of every epoch and on the prefix that is finalised, and   *)
(* data is stored for exactly the submissions that epochs still list.      *)
(* Between blocks, every stored submission is on the main chain, and after *)
(* the best submission of the previous epoch, which still has one.         *)
ModulesAgree ==
    /\ BTCCheckpointTypeOK
    /\ \A e \in Epoch : IF epochData[e].Keys = <<>> THEN ckpt.st[e] \in {"None", "Sealed"}
                       ELSE ckpt.st[e] = epochData[e].Status
    /\ lastFinalized = ckpt.last
    /\ \A e \in Epoch : ckpt.st[e] = "Finalized" <=> e <= ckpt.last
    /\ \A s \in Sub : epochData[EpochOf[s]].Status # "Finalized" =>
          (s \in submissions <=> s \in Range(epochData[EpochOf[s]].Keys))
    /\ ~lcUpdated /\ ~halted =>
          \A e \in Epoch : \A s \in Range(epochData[e].Keys) :
             /\ OnMainChain(s)
             /\ e > 1 => LET parents == epochData[e - 1].Keys
                         IN  parents # <<>> /\ HappenedAfter(s, EpochBestSubmission(parents))

(* checkCheckpoints panics for a finalised submission off the main chain   *)
(* only when the reorg guard stops the chain in the same block anyway.     *)
PanicsOnlyOnReorg ==
    panicked # "no" => panicked = "forked" /\ largestReorg >= depth

(* "delete all submissions except best one": the data of the submission    *)
(* that finalised an epoch stays, which BtcCheckpointInfo dereferences.    *)
FinalDataIsKept ==
    \A e \in Epoch : epochData[e].Status = "Finalized" => Range(epochData[e].Keys) \subseteq submissions

Heaviest == {b \in Block : \A c \in Block : TotalWork[c] <= TotalWork[b]}

(* The submissions that the heaviest chain buries W deep. *)
Deep == {s \in Sub : \A b \in Heaviest, i \in 1..2 : HeightOf[TxBlock[s][i]] + W <= HeightOf[b]}

(* Until it halts, the chain learns of the heaviest Bitcoin chain, and the *)
(* block that does finalises the epochs, and all earlier ones, of the      *)
(* submissions that this chain buries W deep.                              *)
DeepIsFinalized ==
    (\A b \in Heaviest : ~HeaderExists(b)) ~>
        (halted \/ /\ \E b \in Heaviest : HeaderExists(b)
                   /\ \A s \in Deep : s \in Range(epochData[EpochOf[s]].Keys) => ckpt.last >= EpochOf[s])

(* The promise made to the modules that wait for finalised epochs. *)
Promise == INSTANCE EpochFinality WITH
    sealed <- Cardinality({e \in Epoch : ckpt.st[e] # "None"}), finalized <- ckpt.last

PrefixGrows == Promise!Spec
=============================================================================
