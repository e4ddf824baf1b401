---------------------------- MODULE Checkpointing ----------------------------
(***************************************************************************)
(* The status of the raw checkpoints of x/checkpointing.  One checkpoint   *)
(* per epoch is sealed by the PreBlocker of the first block of the next    *)
(* epoch; x/btccheckpoint then moves it through its states.  A status that *)
(* does not allow the move is only logged: the caller does not learn of it.*)
(***************************************************************************)
EXTENDS Integers

CONSTANT MaxEpoch           \* bound: the epochs are 1..MaxEpoch

ASSUME CheckpointingAssumption == MaxEpoch \in Nat

VARIABLES
    ckpt,           \* [st |-> status of each epoch, last |-> LastFinalizedEpoch]
    conflict        \* ConflictingCheckpointReceived

ckptVars == <<ckpt, conflict>>

Epoch == 1..MaxEpoch

CkptStatus == {"None", "Sealed", "Submitted", "Confirmed", "Finalized"}

Checkpoints == [st : [Epoch -> CkptStatus], last : 0..MaxEpoch]

CheckpointingTypeOK == ckpt \in Checkpoints /\ conflict \in BOOLEAN

CheckpointingInit ==
    /\ ckpt = [st |-> [e \in Epoch |-> "None"], last |-> 0]
    /\ conflict = FALSE

(* Mutation: checkpoints that were missed are made up for. *)
SealsUpTo(e) ==
    /\ ckpt.st[e] = "None"
    /\ ckpt' = [ckpt EXCEPT !.st = [d \in Epoch |-> IF d <= e /\ @[d] = "None" THEN "Sealed" ELSE @[d]]]
    /\ UNCHANGED conflict

(* PreBlocker: CreateRawCkptWithMeta refuses a second checkpoint.          *)
SealCheckpoint(e) ==
    /\ ckpt.st[e] = "None"
    /\ \A d \in 1..(e - 1) : ckpt.st[d] # "None"
    /\ ckpt' = [ckpt EXCEPT !.st[e] = "Sealed"]
    /\ UNCHANGED conflict

setCheckpointStatus(c, e, allowed, to) ==
    IF c.st[e] \in allowed THEN [c EXCEPT !.st[e] = to] ELSE c

SetCheckpointSubmitted(c, e) == setCheckpointStatus(c, e, {"Sealed"}, "Submitted")
SetCheckpointConfirmed(c, e) == setCheckpointStatus(c, e, {"Submitted"}, "Confirmed")

(* The last finalised epoch is remembered only when the status was changed. *)
SetCheckpointFinalized(c, e) ==
    LET d == setCheckpointStatus(c, e, {"Confirmed"}, "Finalized")
    IN  IF c.st[e] = "Confirmed" THEN [d EXCEPT !.last = e] ELSE d

(* "In case of big reorg, the checkpoint might be forgotten even if it was  *)
(* already confirmed".                                                     *)
SetCheckpointForgotten(c, e) ==
    setCheckpointStatus(c, e, {"Submitted", "Confirmed"}, "Sealed")
=============================================================================
