--------------------------- MODULE FinalityVotes ---------------------------
(***************************************************************************)
(* Public randomness commitments, finality votes and equivocation evidence *)
(* of x/finality.  A vote is accepted only against a commitment that is    *)
(* BTC-timestamped (its epoch is finalised by checkpointing); votes for    *)
(* the canonical block are stored, votes for a fork become evidence, and   *)
(* the two together slash.  Signature checks are abstracted to "the        *)
(* provider did sign this block"; an EOTS signature is determined by       *)
(* provider, height and block, so a vote is the triple of them.  Tallying  *)
(* is module Tally, jailing for absence module FPLiveness.                 *)
(***************************************************************************)
EXTENDS Integers, Sequences, FiniteSets

CONSTANTS
    FP,                 \* finality providers
    Forks,              \* app hashes that differ from the canonical one
    Canonical,          \* the app hash of the indexed block, at every height
    ActivationHeight,   \* params.FinalityActivationHeight
    MinPubRand,         \* params.MinPubRand
    MaxOffset,          \* MaxPubRandCommitOffset
    Word,               \* 2^64 in the code: heights are unsigned words
    MaxHeight,          \* bound: chain height
    MaxEpoch,           \* bound: epochs
    MaxCommits          \* bound: commitments per provider

ASSUME VotesAssumption ==
    /\ IsFiniteSet(FP) /\ IsFiniteSet(Forks) /\ Canonical \notin Forks
    /\ ActivationHeight \in Nat \ {0} /\ MinPubRand \in Nat \ {0} /\ MaxOffset \in Nat
    /\ Word \in Nat \ {0} /\ MaxHeight \in Nat /\ MaxHeight + MaxOffset < Word
    /\ MaxEpoch \in Nat \ {0} /\ MaxCommits \in Nat

VARIABLES
    height,             \* current block
    epoch,              \* current epoch number
    lastFinalizedEpoch, \* last epoch whose checkpoint is BTC-finalised
    epochOf,            \* epochOf[h]: epoch of block h
    commits,            \* commits[f]: commitments in the order of the index
    table,              \* table[h]: providers with voting power at h
    jailed, slashed,    \* status of the providers in btcstaking
    finalizedBlocks,    \* heights whose block is finalised by Tally
    sigs,               \* sigs[h]: providers with a stored canonical vote
    evidence,           \* evidence[f][h]: NoEvidence or the stored record
    accepted            \* votes accepted so far (history)

blockVars == <<height, epoch, lastFinalizedEpoch, epochOf, table, finalizedBlocks>>
voteVars == <<sigs, evidence, accepted>>
vars == <<blockVars, commits, jailed, slashed, voteVars>>

Heights == 1..MaxHeight
Blocks == Forks \cup {Canonical}
Commitment == [start : 0..(Word - 1), num : 0..(Word - 1), epoch : 1..MaxEpoch]
NoEvidence == [fork |-> Canonical, canonicalSig |-> FALSE]
Evidence == [fork : Blocks, canonicalSig : BOOLEAN]

(* Types. *)
TypeOK ==
    /\ height \in 0..MaxHeight
    /\ epoch \in 1..MaxEpoch
    /\ lastFinalizedEpoch \in 0..(epoch - 1)
    /\ epochOf \in [Heights -> 0..epoch]
    /\ commits \in [FP -> Seq(Commitment)]
    /\ table \in [Heights -> SUBSET FP]
    /\ jailed \subseteq FP /\ slashed \subseteq FP
    /\ finalizedBlocks \subseteq Heights
    /\ sigs \in [Heights -> SUBSET FP]
    /\ evidence \in [FP -> [Heights -> Evidence]]
    /\ accepted \subseteq FP \X Heights \X Blocks

Init ==
    /\ height = 0 /\ epoch = 1 /\ lastFinalizedEpoch = 0
    /\ epochOf = [h \in Heights |-> 0]
    /\ commits = [f \in FP |-> <<>>]
    /\ table = [h \in Heights |-> {}]
    /\ jailed = {} /\ slashed = {} /\ finalizedBlocks = {}
    /\ sigs = [h \in Heights |-> {}]
    /\ evidence = [f \in FP |-> [h \in Heights |-> NoEvidence]]
    /\ accepted = {}

-----------------------------------------------------------------------------
(* Public randomness commitments *)

EndHeight(c) == (c.start + c.num - 1) % Word

IsInRange(c, h) == c.start <= h /\ h <= EndHeight(c)

(* The commitment with the largest start height that is not above h: what  *)
(* the binary search over the index of start heights selects.              *)
Candidates(f, h) == {i \in 1..Len(commits[f]) : commits[f][i].start <= h}

Selected(f, h) ==
    CHOOSE i \in Candidates(f, h) : \A j \in Candidates(f, h) : j <= i

(* GetPubRandCommitForHeight finds a commitment. *)
HasPubRandCommit(f, h) ==
    /\ Candidates(f, h) # {}
    /\ IsInRange(commits[f][Selected(f, h)], h)

GetPubRandCommitForHeight(f, h) == commits[f][Selected(f, h)]

(* HasTimestampedPubRand; no epoch is finalised while the number is 0. *)
HasTimestampedPubRand(f, h) ==
    /\ HasPubRandCommit(f, h)
    /\ lastFinalizedEpoch # 0
    /\ GetPubRandCommitForHeight(f, h).epoch <= lastFinalizedEpoch

(* Mutation: the wrap-around is not checked. *)
NoOverflowUnchecked(start, num) == TRUE

(* ValidateBasic of the message: start + num does not wrap around. *)
NoOverflow(start, num) == start < (start + num) % Word

(* CommitPubRandList: the last commitment is the one with the largest      *)
(* start; the index refuses a start that does not increase.                *)
CommitPubRandList(f, start, num) ==
    /\ height >= 1
    /\ NoOverflow(start, num)
    /\ start < height + MaxOffset
    /\ start >= ActivationHeight
    /\ num >= MinPubRand
    /\ Len(commits[f]) < MaxCommits
    /\ commits[f] # <<>> =>
         LET last == commits[f][Len(commits[f])]
         IN  start > EndHeight(last) /\ start > last.start
    /\ commits' = [commits EXCEPT ![f] =
                     Append(@, [start |-> start, num |-> num, epoch |-> epoch])]
    /\ UNCHANGED <<blockVars, jailed, slashed, voteVars>>

-----------------------------------------------------------------------------
(* Blocks, epochs, jailing *)

(* A block begins: power goes to providers in good standing that have      *)
(* timestamped randomness for this height (RecordVotingPowerAndCache).     *)
RecordVotingPower(T) ==
    /\ height < MaxHeight
    /\ T \cap (slashed \cup jailed) = {}
    /\ \A f \in T : HasTimestampedPubRand(f, height + 1)
    /\ height' = height + 1
    /\ epochOf' = [epochOf EXCEPT ![height + 1] = epoch]
    /\ table' = [table EXCEPT ![height + 1] = T]
    /\ UNCHANGED <<epoch, lastFinalizedEpoch, finalizedBlocks, commits, jailed,
                   slashed, voteVars>>

(* Epoching moves to the next epoch. *)
NextEpoch ==
    /\ height >= 1 /\ epoch < MaxEpoch
    /\ epoch' = epoch + 1
    /\ UNCHANGED <<height, lastFinalizedEpoch, epochOf, table, finalizedBlocks,
                   commits, jailed, slashed, voteVars>>

(* The checkpoint of the next ended epoch becomes finalised on BTC. *)
FinalizeEpoch ==
    /\ lastFinalizedEpoch + 1 < epoch
    /\ lastFinalizedEpoch' = lastFinalizedEpoch + 1
    /\ UNCHANGED <<height, epoch, epochOf, table, finalizedBlocks, commits, jailed,
                   slashed, voteVars>>

(* Tally finalises an indexed block. *)
FinalizeBlock(h) ==
    /\ h < height /\ h \notin finalizedBlocks /\ table[h] # {}
    /\ finalizedBlocks' = finalizedBlocks \cup {h}
    /\ UNCHANGED <<height, epoch, lastFinalizedEpoch, epochOf, table, commits,
                   jailed, slashed, voteVars>>

JailFinalityProvider(f) ==
    /\ f \notin slashed /\ f \notin jailed
    /\ jailed' = jailed \cup {f}
    /\ UNCHANGED <<blockVars, commits, slashed, voteVars>>

(* btcstaking refuses to unjail a slashed provider. *)
UnjailFinalityProvider(f) ==
    /\ f \in jailed /\ f \notin slashed
    /\ jailed' = jailed \ {f}
    /\ UNCHANGED <<blockVars, commits, slashed, voteVars>>

-----------------------------------------------------------------------------
(* Votes *)

(* ShouldAcceptSigForHeight: not both finalised and BTC-timestamped. *)
ShouldAcceptSigForHeight(h) ==
    ~(h \in finalizedBlocks /\ lastFinalizedEpoch >= epochOf[h])

(* The early returns of AddFinalitySig; a block is indexed at the end of   *)
(* its own execution.                                                      *)
CanVote(f, h) ==
    /\ h < height /\ h >= ActivationHeight
    /\ ShouldAcceptSigForHeight(h)
    /\ f \notin slashed /\ f \notin jailed
    /\ f \in table[h]
    /\ HasTimestampedPubRand(f, h)

HasEvidence(f, h) == evidence[f][h] # NoEvidence

(* AddFinalitySig for a fork: the evidence at this height is overwritten.  *)
AddForkSig(f, h, b) ==
    /\ b # Canonical /\ CanVote(f, h)
    /\ evidence' = [evidence EXCEPT ![f][h] = [fork |-> b, canonicalSig |-> f \in sigs[h]]]
    /\ slashed' = IF f \in sigs[h] THEN slashed \cup {f} ELSE slashed
    /\ accepted' = accepted \cup {<<f, h, b>>}
    /\ UNCHANGED <<blockVars, commits, jailed, sigs>>

(* Mutation: earlier evidence is not looked up. *)
CanonicalIgnoresEvidence(f, h) ==
    /\ CanVote(f, h) /\ f \notin sigs[h]
    /\ sigs' = [sigs EXCEPT ![h] = @ \cup {f}]
    /\ accepted' = accepted \cup {<<f, h, Canonical>>}
    /\ UNCHANGED <<blockVars, commits, jailed, slashed, evidence>>

(* AddFinalitySig for the canonical block; the same vote twice is refused. *)
AddCanonicalSig(f, h) ==
    /\ CanVote(f, h) /\ f \notin sigs[h]
    /\ sigs' = [sigs EXCEPT ![h] = @ \cup {f}]
    /\ accepted' = accepted \cup {<<f, h, Canonical>>}
    /\ IF HasEvidence(f, h)
       THEN /\ evidence' = [evidence EXCEPT ![f][h].canonicalSig = TRUE]
            /\ slashed' = slashed \cup {f}
       ELSE UNCHANGED <<evidence, slashed>>
    /\ UNCHANGED <<blockVars, commits, jailed>>

-----------------------------------------------------------------------------
Next ==
    \/ \E T \in SUBSET FP : RecordVotingPower(T)
    \/ NextEpoch
    \/ FinalizeEpoch
    \/ \E h \in Heights : FinalizeBlock(h)
    \/ \E f \in FP : JailFinalityProvider(f)
    \/ \E f \in FP : UnjailFinalityProvider(f)
    \/ \E f \in FP, start, num \in 0..(Word - 1) : CommitPubRandList(f, start, num)
    \/ \E f \in FP, h \in Heights, b \in Forks : AddForkSig(f, h, b)
    \/ \E f \in FP, h \in Heights : AddCanonicalSig(f, h)

Spec == Init /\ [][Next]_vars

-----------------------------------------------------------------------------
(* Properties *)

(* Commitments never share a height, whatever ranges are submitted, so the *)
(* randomness of a height is committed at most once, and the binary search *)
(* over start heights finds the commitment of a height whenever one exists.*)
(* A provider that got voting power for a height keeps the timestamped     *)
(* randomness it needs to vote there: later commitments and epochs never   *)
(* take it away, and it was committed in an epoch finalised on BTC.        *)
OneRandomnessPerHeight ==
    \A f \in FP, h \in Heights :
        LET covering == {i \in 1..Len(commits[f]) :
                           commits[f][i].start <= h /\ h < commits[f][i].start + commits[f][i].num}
        IN  /\ Cardinality(covering) <= 1
            /\ covering # {} <=> HasPubRandCommit(f, h)
            /\ covering # {} => Selected(f, h) \in covering
            /\ f \in table[h] => /\ covering # {}
                                 /\ GetPubRandCommitForHeight(f, h).epoch <= lastFinalizedEpoch

(* A provider whose canonical vote and fork vote for one height were both  *)
(* accepted, in either order, is slashed and its evidence is complete.     *)
EquivocationIsSlashed ==
    \A f \in FP, h \in Heights, b \in Forks :
        <<f, h, Canonical>> \in accepted /\ <<f, h, b>> \in accepted =>
            f \in slashed /\ evidence[f][h].canonicalSig

(* Nobody is slashed without having signed two blocks of one height, and   *)
(* the stored evidence names two blocks that were really voted for.        *)
SlashingIsProven ==
    \A f \in slashed : \E h \in Heights :
        /\ HasEvidence(f, h) /\ evidence[f][h].canonicalSig
        /\ <<f, h, evidence[f][h].fork>> \in accepted
        /\ <<f, h, Canonical>> \in accepted

(* AddFinalitySig slashes exactly the providers whose votes for two blocks *)
(* of one height, the canonical one among them, were accepted.             *)
SlashedIffEquivocated == EquivocationIsSlashed /\ SlashingIsProven

=============================================================================
