------------------------------- MODULE Tally -------------------------------
(***************************************************************************)
(* The finality gadget of x/finality: one voting power table and one       *)
(* distribution cache per height, votes arriving in any later block, the   *)
(* EndBlock tally that finalises blocks in order, and the rewarding of the *)
(* finalised blocks behind the signature timeout.  Jailing and slashing    *)
(* appear only through their effect here: a barred provider cannot vote    *)
(* and gets no power in new tables (module FPLiveness has the reasons).    *)
(* Every provider holds stake throughout, so each cache lists all of FP;   *)
(* a table gives power to those that are active.                           *)
(* Heights above MaxHeight are not tracked: the later blocks of the chain  *)
(* only run EndBlock over the tracked heights.                             *)
(***************************************************************************)
EXTENDS Integers, FiniteSets, Functions

CONSTANTS
    FP,                 \* finality providers
    Tables,             \* voting power tables the staking module may compute
    ActivationHeight,   \* params.FinalityActivationHeight
    SigTimeout,         \* params.FinalitySigTimeout
    MaxBatch,           \* MaxFinalizedRewardedBlocksPerEndBlock
    Honest,             \* providers that keep voting (liveness only)
    Faulty,             \* bound: providers that may be jailed or slashed
    MaxHeight,          \* bound: tracked heights
    MaxProposals        \* bound: resume-finality proposals

ASSUME TallyAssumption ==
    /\ IsFiniteSet(FP)
    /\ Tables \subseteq [FP -> Nat]
    /\ [f \in FP |-> 0] \in Tables
    /\ ActivationHeight \in Nat \ {0}
    /\ SigTimeout \in Nat \ {0}
    /\ MaxBatch \in Nat \ {0}
    /\ Honest \subseteq FP /\ Faulty \subseteq FP
    /\ MaxHeight \in Nat \ {0}
    /\ MaxProposals \in Nat

VARIABLES
    height,         \* last block begun (at most MaxHeight)
    extra,          \* blocks begun after MaxHeight, up to SigTimeout
    phase,          \* "idle" between blocks, "txs" while a block executes
    members,        \* members[h]: providers with an entry in the power table
    power,          \* power[h][f]: the entry's value, 0 without an entry
    voters,         \* voters[h]: providers whose signature is stored
    barred,         \* jailed or slashed providers
    indexed,        \* heights whose block is indexed
    finalized,      \* heights whose indexed block is finalised
    nextFinalize,   \* NextHeightToFinalizeKey, 0 if unset
    nextReward,     \* NextHeightToRewardKey, 0 if unset
    cached,         \* heights that have a distribution cache
    rewarded,       \* heights whose reward was distributed (history)
    proposals       \* resume proposals executed so far (bound)

chain == <<height, extra, phase>>
store == <<members, power, voters, barred>>
progress == <<indexed, finalized, nextFinalize, nextReward, cached, rewarded>>
vars == <<chain, store, progress, proposals>>

Heights == 1..MaxHeight

(* Types; the pointers stay within one past the tracked heights. *)
TypeOK ==
    /\ height \in 0..MaxHeight
    /\ extra \in 0..SigTimeout
    /\ phase \in {"idle", "txs"}
    /\ members \in [Heights -> SUBSET FP]
    /\ power \in [Heights -> [FP -> Nat]]
    /\ voters \in [Heights -> SUBSET FP]
    /\ barred \subseteq FP
    /\ indexed \subseteq 1..height
    /\ finalized \subseteq indexed
    /\ nextFinalize \in 0..(MaxHeight + 1)
    /\ nextReward \in 0..(MaxHeight + 1)
    /\ cached \subseteq 1..height
    /\ rewarded \subseteq finalized
    /\ proposals \in 0..MaxProposals

Init ==
    /\ height = 0 /\ extra = 0 /\ phase = "idle"
    /\ members = [h \in Heights |-> {}]
    /\ power = [h \in Heights |-> [f \in FP |-> 0]]
    /\ voters = [h \in Heights |-> {}]
    /\ barred = {}
    /\ indexed = {} /\ finalized = {} /\ cached = {} /\ rewarded = {}
    /\ nextFinalize = 0 /\ nextReward = 0
    /\ proposals = 0

-----------------------------------------------------------------------------
(* The voting power tables *)

HasTable == {h \in Heights : members[h] # {}}

IsBTCStakingActivated == HasTable # {}

(* The first height with an entry, zero entries included. *)
GetBTCStakingActivatedHeight ==
    CHOOSE h \in HasTable : \A g \in HasTable : h <= g

IsFinalityActive == height >= ActivationHeight /\ IsBTCStakingActivated

PowerOf(h, S) == SumFunctionOnSet(power[h], S \cap members[h])

(* tally: strictly more than two thirds of the table's power has voted. *)
tally(h) == PowerOf(h, voters[h]) * 3 > PowerOf(h, FP) * 2

-----------------------------------------------------------------------------
(* Blocks and transactions *)

(* RecordVotingPowerAndCache for the next height.  Before the activation   *)
(* height no provider can have committed randomness, hence no table.       *)
BeginBlock(t) ==
    /\ phase = "idle" /\ height < MaxHeight
    /\ height + 1 < ActivationHeight => t = [f \in FP |-> 0]
    /\ \A f \in barred : t[f] = 0
    /\ height' = height + 1
    /\ phase' = "txs"
    /\ members' = [members EXCEPT ![height + 1] = {f \in FP : t[f] > 0}]
    /\ power' = [power EXCEPT ![height + 1] = t]
    /\ cached' = cached \cup {height + 1}
    /\ UNCHANGED <<extra, voters, barred, indexed, finalized, nextFinalize,
                   nextReward, rewarded, proposals>>

(* A block above the tracked heights begins. *)
BeginLaterBlock ==
    /\ phase = "idle" /\ height = MaxHeight
    /\ phase' = "txs"
    /\ extra' = IF extra < SigTimeout THEN extra + 1 ELSE extra
    /\ UNCHANGED <<height, store, progress, proposals>>

(* AddFinalitySig, canonical vote. *)
AddFinalitySig(f, h) ==
    /\ phase = "txs"
    /\ h >= ActivationHeight
    /\ h \in indexed
    /\ f \notin barred
    /\ power[h][f] > 0
    /\ f \notin voters[h]
    /\ voters' = [voters EXCEPT ![h] = @ \cup {f}]
    /\ UNCHANGED <<chain, members, power, barred, progress, proposals>>

(* A provider is jailed or slashed. *)
Bar(f) ==
    /\ phase = "txs"
    /\ f \notin barred
    /\ barred' = barred \cup {f}
    /\ UNCHANGED <<chain, members, power, voters, progress, proposals>>

(* A jailed provider is unjailed. *)
Unbar(f) ==
    /\ phase = "txs"
    /\ f \in barred
    /\ barred' = barred \ {f}
    /\ UNCHANGED <<chain, members, power, voters, progress, proposals>>

-----------------------------------------------------------------------------
(* Governance *)

(* HandleResumeFinalityProposal: the listed providers, none of which voted *)
(* at the halting height, are jailed and get a zero entry in every table   *)
(* from the halting height on.  A rewarded height has no cache any more,   *)
(* which makes the handler fail.                                           *)
HandleResumeFinalityProposal(L, halt) ==
    /\ phase = "txs" /\ extra = 0
    /\ proposals < MaxProposals
    /\ ActivationHeight <= halt /\ halt <= height
    /\ L # {} /\ L \cap voters[halt] = {}
    /\ halt..height \subseteq cached
    /\ members' = [h \in Heights |->
                     IF h \in halt..height THEN members[h] \cup L ELSE members[h]]
    /\ power' = [h \in Heights |->
                   IF h \in halt..height
                   THEN [f \in FP |-> IF f \in L THEN 0 ELSE power[h][f]]
                   ELSE power[h]]
    /\ barred' = barred \cup L
    /\ proposals' = proposals + 1
    /\ UNCHANGED <<chain, voters, progress>>

(* What the handler's comment calls a valid proposal: the halting height   *)
(* is indeed not finalised (it is not below where the tally stands).       *)
DocumentedProposal(halt) ==
    /\ IsBTCStakingActivated
    /\ halt >= GetBTCStakingActivatedHeight
    /\ halt >= nextFinalize

-----------------------------------------------------------------------------
(* EndBlock *)

Least(S) == CHOOSE x \in S : \A y \in S : x <= y
Greatest(S) == CHOOSE x \in S : \A y \in S : x >= y

IndexBlock == indexed \cup {height}

(* The first height TallyBlocks looks at. *)
TallyStart ==
    IF nextFinalize < GetBTCStakingActivatedHeight
    THEN GetBTCStakingActivatedHeight ELSE nextFinalize

TallyEnd == IF TallyStart + MaxBatch - 1 < height
            THEN TallyStart + MaxBatch - 1 ELSE height

(* Mutation: the loop goes on past a block without a quorum. *)
StopHeightSkips == TallyEnd + 1

(* Mutation: the loop also breaks at a block without a table. *)
StopHeightAtEmpty ==
    LET waiting == {h \in TallyStart..TallyEnd : ~tally(h)}
    IN  IF waiting = {} THEN TallyEnd + 1 ELSE Least(waiting)

(* The height at which the tally loop stops: the first block with a table  *)
(* and without a quorum, or the end of the range.                          *)
StopHeight ==
    LET waiting == {h \in TallyStart..TallyEnd : members[h] # {} /\ ~tally(h)}
    IN  IF waiting = {} THEN TallyEnd + 1 ELSE Least(waiting)

Processed == TallyStart..(StopHeight - 1)

finalizeBlock == finalized \cup {h \in Processed : members[h] # {}}

(* Mutation: the pointer jumps past the current block. *)
NextFinalizePastTip == IF Processed = {} THEN nextFinalize ELSE height + 1

setNextHeightToFinalize ==
    IF Processed = {} THEN nextFinalize ELSE StopHeight

(* The range of HandleRewarding. *)
HeightToExamine == height + extra - SigTimeout

RewardStart == IF nextReward = 0 THEN GetBTCStakingActivatedHeight ELSE nextReward

RewardEnd == IF RewardStart + MaxBatch - 1 < HeightToExamine
             THEN RewardStart + MaxBatch - 1 ELSE HeightToExamine

(* Mutation: only the last height of the range is looked at. *)
RewardOnlyLast ==
    IF HeightToExamine < 1 THEN {}
    ELSE finalizeBlock \cap {h \in RewardStart..RewardEnd : h = RewardEnd}

(* The finalised heights of the range; unfinalised ones are stepped over.  *)
rewardBTCStaking ==
    IF HeightToExamine < 1 THEN {}
    ELSE finalizeBlock \cap (RewardStart..RewardEnd)

(* Mutation: the pointer stays on the last rewarded height. *)
NextRewardStays ==
    IF rewardBTCStaking = {} THEN nextReward ELSE Greatest(rewardBTCStaking)

SetNextHeightToReward ==
    IF rewardBTCStaking = {} THEN nextReward ELSE Greatest(rewardBTCStaking) + 1

(* The panics of TallyBlocks and of HandleRewarding. *)
TallyPanics ==
    \E h \in TallyStart..TallyEnd :
        /\ h <= StopHeight
        /\ h \notin IndexBlock \/ h \in finalized

RewardPanics ==
    /\ HeightToExamine >= 1
    /\ \/ \E h \in RewardStart..RewardEnd : h \notin IndexBlock
       \/ ~(rewardBTCStaking \subseteq cached)

EndBlock ==
    /\ phase = "txs"
    /\ phase' = "idle"
    /\ IF IsFinalityActive
       THEN /\ ~TallyPanics /\ ~RewardPanics
            /\ indexed' = IndexBlock
            /\ finalized' = finalizeBlock
            /\ nextFinalize' = setNextHeightToFinalize
            /\ rewarded' = rewarded \cup rewardBTCStaking
            /\ cached' = cached \ rewardBTCStaking
            /\ nextReward' = SetNextHeightToReward
       ELSE UNCHANGED progress
    /\ UNCHANGED <<height, extra, store, proposals>>

-----------------------------------------------------------------------------
Next ==
    \/ \E t \in Tables : BeginBlock(t)
    \/ BeginLaterBlock
    \/ \E f \in FP, h \in Heights : AddFinalitySig(f, h)
    \/ \E f \in Faulty : Bar(f)
    \/ \E f \in FP : Unbar(f)
    \/ EndBlock
    \/ \E L \in SUBSET FP, halt \in Heights :
         DocumentedProposal(halt) /\ HandleResumeFinalityProposal(L, halt)

Spec == Init /\ [][Next]_vars

(* CometBFT keeps producing blocks; the daemon of an honest provider       *)
(* resubmits its votes until they are included.                            *)
Fairness ==
    /\ WF_vars((\E t \in Tables : BeginBlock(t)) \/ BeginLaterBlock \/ EndBlock)
    /\ \A f \in Honest : SF_vars(\E h \in Heights : AddFinalitySig(f, h))

FairSpec == Spec /\ Fairness

-----------------------------------------------------------------------------
(* Properties *)

(* TallyBlocks: below the pointer, from the activated height on, every     *)
(* block is finalised or has no finality provider set, and nothing at or   *)
(* above the pointer is finalised.                                         *)
FinalizedPrefix ==
    /\ \A h \in finalized : h < nextFinalize
    /\ IsBTCStakingActivated =>
         \A h \in HasTable : h < nextFinalize => h \in finalized

(* finalizeBlock: a block is finalised only while more than two thirds of  *)
(* the power in its table at that moment belongs to providers whose vote   *)
(* for it is stored, and its table is not empty.                           *)
FinalizedByQuorum ==
    [][\A h \in finalized' \ finalized :
         /\ members[h] # {}
         /\ PowerOf(h, voters[h]) * 3 > PowerOf(h, FP) * 2]_vars

(* The panics of TallyBlocks ("failing to get an existing block is a       *)
(* programming error", a finalised block at the pointer), of HandleRewarding *)
(* and of rewardBTCStaking (no distribution cache) are unreachable.        *)
EndBlockNeverPanics ==
    phase = "txs" /\ IsFinalityActive => ~TallyPanics /\ ~RewardPanics

(* A finalised block keeps its distribution cache until it is rewarded, and*)
(* after EndBlock every finalised block up to the examined height has been *)
(* rewarded (for batches that exceed the tracked heights).                 *)
FinalizedAreRewarded ==
    /\ finalized \ rewarded \subseteq cached
    /\ MaxBatch >= MaxHeight /\ phase = "idle" =>
         \A h \in finalized : h <= HeightToExamine => h \in rewarded

(* A power table is frozen for the providers that voted at the halting     *)
(* height: a finalised block would still reach its quorum under the table  *)
(* as it stands, so resume proposals never take a quorum away.             *)
QuorumIsKept == \A h \in finalized : tally(h)

HonestQuorum(h) ==
    \/ h > height
    \/ members[h] = {}
    \/ PowerOf(h, Honest) * 3 > PowerOf(h, FP) * 2

(* Liveness of TallyBlocks and of resume proposals: again and again every  *)
(* tracked block with a table is finalised, unless an honest provider is   *)
(* barred or the honest providers have no quorum in the table of a height  *)
(* up to that of the block.                                                *)
HonestFinalize ==
    []<>\A h \in indexed :
            \/ members[h] = {} \/ h \in finalized
            \/ Honest \cap barred # {} \/ \E g \in 1..h : ~HonestQuorum(g)

=============================================================================
