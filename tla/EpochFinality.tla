---------------------------- MODULE EpochFinality ----------------------------
(***************************************************************************)
(* What the Bitcoin timestamping of epochs promises to the rest of the     *)
(* chain: epochs are sealed one after the other, and a growing prefix of   *)
(* the sealed ones is finalised, which is never undone.                    *)
(***************************************************************************)
EXTENDS Integers

VARIABLES
    sealed,         \* the last sealed epoch
    finalized       \* the last epoch all of whose predecessors are finalised

Init == sealed = 0 /\ finalized = 0

Seal == sealed' = sealed + 1 /\ UNCHANGED finalized

Finalize ==
    /\ finalized' \in (finalized + 1)..sealed
    /\ UNCHANGED sealed

Next == Seal \/ Finalize

Spec == Init /\ [][Next]_<<sealed, finalized>>
=============================================================================
