---------------------------- MODULE MCTimestamping ----------------------------
(* Epochs and their timestamps on Bitcoin.  A behaviour exercises one part *)
(* and leaves the others as they are initially.                            *)
(*                                                                         *)
(* The epochs: two validators at genesis, of which both fit in the set,    *)
(* and a third account that may become one.  In "funds" accounts 1 and 3   *)
(* move coins; in "sets" validators are slashed, coins are redelegated and *)
(* governance changes the length of epochs.                                *)
(*                                                                         *)
(* Their checkpoints: in "seal" four validators, any third of whose power  *)
(* may be faulty, seal the checkpoint of an epoch.                         *)
(*                                                                         *)
(* Bitcoin: a trunk a, a fork b that overtakes it, and a fork of one block *)
(* c2 that is harder than three: its chain is shorter than the one it      *)
(* replaces.  Submissions are made on a and b.  In "headers" only the      *)
(* light client and its depth change; in "submit" checkpoints are          *)
(* submitted at one depth.                                                 *)
EXTENDS Epoching, CheckpointQuorum, BTCCheckpoint, TLC

CONSTANTS Parts

CONSTANTS a2, a3, a4, a5, b3, b4, b5, b6, b7, c2, s1, u1, t1, s2, t2, x1

Link == Base :> NoBlock @@ a2 :> Base @@ a3 :> a2 @@ a4 :> a3 @@ a5 :> a4 @@ c2 :> Base
          @@ b3 :> a2 @@ b4 :> b3 @@ b5 :> b4 @@ b6 :> b5 @@ b7 :> b6
At == Base :> 1 @@ a2 :> 2 @@ a3 :> 3 @@ a4 :> 4 @@ a5 :> 5 @@ c2 :> 2
        @@ b3 :> 3 @@ b4 :> 4 @@ b5 :> 5 @@ b6 :> 6 @@ b7 :> 7

TreeParent == [b \in Block |-> Link[b]]
TreeHeight == [b \in Block |-> At[b]]
TreeWork == [b \in Block |-> 2 * At[b] + (IF b = c2 THEN 7 ELSE 0)]

(* s1, u1 and t1 are for epoch 1, s2 and t2 for epoch 2; x1 conflicts.     *)
SubEpoch == [s \in Sub |-> IF s \in {s2, t2} THEN 2 ELSE 1]
SubBlock ==
    [s \in Sub |-> (s1 :> <<a3, a3>> @@ u1 :> <<a2, a2>> @@ t1 :> <<b3, b3>>
                    @@ s2 :> <<a4, a4>> @@ t2 :> <<b4, b4>> @@ x1 :> <<a2, a2>>)[s]]
SubIndex == [s \in Sub |-> IF s = x1 THEN <<3, 4>> ELSE <<1, 2>>]
SubVerdict == [s \in Sub |-> IF s = x1 THEN "conflict" ELSE "valid"]

MCGenesis == [v \in Validator |-> CASE v = 1 -> 2 [] v = 2 -> 1 [] OTHER -> 0]

MCPower == <<2, 2, 1, 1>>

VARIABLE part

MCInit ==
    /\ part \in Parts
    /\ EpochingInit /\ (part # "sets" => interval = 2)
    /\ QuorumInit /\ (part # "seal" => faulty = {})
    /\ Init /\ (part # "headers" => depth = 2)

QueuedKinds == {queue'[i].k : i \in DOMAIN queue'}

EpochsWithin ==
    /\ part = "funds" =>
          /\ height' <= 4 /\ interval' = interval /\ slashed'.set = {}
          /\ QueuedKinds \subseteq {"Delegate", "Undelegate", "Cancel", "Create"}
          /\ \A i \in DOMAIN queue' : queue'[i].d # 2 /\ queue'[i].v # 2
    /\ part = "sets" => QueuedKinds \subseteq {"Redelegate", "Params"} /\ Len(queue') <= 1

BitcoinWithin ==
    /\ part = "headers" => UNCHANGED ckptVars
    /\ part = "submit" => UNCHANGED depth

MCNext ==
    \/ /\ part \in {"funds", "sets"} /\ EpochingNext /\ EpochsWithin
       /\ UNCHANGED <<part, quorumVars, vars>>
    \/ /\ part = "seal" /\ QuorumNext
       /\ UNCHANGED <<part, epochingVars, vars>>
    \/ /\ part \in {"headers", "submit"} /\ Next /\ BitcoinWithin
       /\ UNCHANGED <<part, epochingVars, quorumVars>>

MCSpec ==
    /\ MCInit /\ [][MCNext]_<<vars, epochingVars, quorumVars, part>>
    /\ []<>(halted \/ ~lcUpdated)
    /\ WF_vars(part \in {"headers", "submit"} /\ \E s \in Message : InsertBTCHeaders(s))

(* BTCCheckpoint: DeepIsFinalized, in the parts in which Bitcoin grows:    *)
(* until it halts, the chain learns of the heaviest Bitcoin chain and      *)
(* finalises the epochs of the submissions that it buries W deep.          *)
BuriedIsFinalized == part \in {"headers", "submit"} => DeepIsFinalized
=============================================================================
