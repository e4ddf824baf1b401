--------------------------- MODULE CheckpointQuorum ---------------------------
(***************************************************************************)
(* How the checkpoint of one epoch is sealed.  A validator that precommits *)
(* the last block of the epoch sends its BLS signature of the block in its *)
(* vote extension; the proposer of the next block accumulates the          *)
(* extensions of its last commit into a checkpoint and injects it with the *)
(* commit, the others rebuild it, and PreBlocker stores it.  A checkpoint  *)
(* that later comes from Bitcoin is compared with the stored one.          *)
(*                                                                         *)
(* Consensus is external: less than a third of the power is faulty, a hash *)
(* that got two thirds of the precommits stays locked, and votes that come *)
(* after two thirds were collected are kept without VerifyVoteExtension.   *)
(***************************************************************************)
EXTENDS Integers, FiniteSets, FiniteSetsExt, SequencesExt

CONSTANTS
    Member,         \* the validators of the epoch: 1..n, in the order of the commit
    Power,          \* [Member -> Nat]
    Hash            \* hashes of candidates for the last block

ASSUME QuorumAssumption ==
    /\ Member = 1..Cardinality(Member)
    /\ Power \in [Member -> Nat \ {0}]
    /\ \A u, v \in Member : u <= v => Power[u] >= Power[v]

VARIABLES
    faulty,         \* the validators that do not follow the protocol
    signed,         \* [Member -> SUBSET Hash]: the BLS signatures of correct ones
    block,          \* the last block consensus decided, or Undecided
    proposal,       \* the proposal of the next block, or NoProposal
    stored,         \* the sealed checkpoint of the epoch, or Unsealed
    alarm           \* ConflictingCheckpointReceived

quorumVars == <<faulty, signed, block, proposal, stored, alarm>>

Undecided == "undecided"
NoProposal == [by |-> "nobody"]
Unsealed == [st |-> "None"]
Empty == [signer |-> -1]        \* no vote, or a vote without an extension
Panic == [by |-> "panic"]

PowerOf(S) == MapThenSumSet(LAMBDA v : Power[v], S)

Total == PowerOf(Member)

(* baseapp's and findLastBlockHash's threshold.                            *)
RequiredVP == (Total * 2) \div 3 + 1

-----------------------------------------------------------------------------
(* A vote extension: who is said to have signed which hash (0: a validator *)
(* that is not in the set of the epoch), whether the epoch number in it is *)
(* that of the epoch, and whether the signature verifies under the key of  *)
(* the signer for that epoch number and hash.                              *)
Ext == [signer : Member \union {0}, hash : Hash, own : BOOLEAN, valid : BOOLEAN]

CorrectExt(v, h) == [signer |-> v, hash |-> h, own |-> TRUE, valid |-> TRUE]

(* What faulty validators can send: no signature of a correct one verifies *)
(* unless it was made.                                                     *)
Forgeable ==
    {x \in Ext : x.valid /\ x.signer \notin faulty \union {0}
                    => x.own /\ x.hash \in signed[x.signer]} \union {Empty}

(* VerifyVoteExtension of a precommit of v for block h.                    *)
VerifyVoteExtension(v, x, h) ==
    x # Empty /\ x.own /\ x.signer = v /\ x.hash = h /\ x.valid

(* verifyVoteExtension of the proposal handler.                            *)
verifyVoteExtension(x, h) == x # Empty /\ x.hash = h /\ x.valid

(* The extended commits a proposer can put together for the last block.    *)
Commits ==
    {[v \in Member |-> IF v \in faulty THEN f[v]
                       ELSE IF v \in S THEN CorrectExt(v, block) ELSE Empty] :
        f \in [faulty -> Forgeable],
        S \in SUBSET {v \in Member \ faulty : block \in signed[v]}}

(* baseapp.ValidateVoteExtensions: two thirds of the votes are there.      *)
ValidateVoteExtensions(c) == PowerOf({v \in Member : c[v] # Empty}) >= RequiredVP

findLastBlockHash(c) ==
    {h \in Hash : PowerOf({v \in Member : c[v] # Empty /\ c[v].hash = h}) >= RequiredVP}

-----------------------------------------------------------------------------
NewCheckpoint(h) == [st |-> "Accumulating", hash |-> h, sigs |-> {}, power |-> 0]

Bitmap(ck) == {s.signer : s \in ck.sigs}

(* Mutation: a validator may be counted twice. *)
AccumulateTwice(ck, x) ==
    IF ck.st # "Accumulating" \/ x.signer \notin Member THEN ck
    ELSE LET p == ck.power + Power[x.signer]
         IN  [ck EXCEPT !.sigs = @ \union {[signer |-> x.signer, own |-> x.own]},
                        !.power = p,
                        !.st = IF p * 3 > Total * 2 THEN "Sealed" ELSE @]

(* Accumulate: one signature per validator of the epoch, until they have   *)
(* more than two thirds of the power.                                      *)
Accumulate(ck, x) ==
    IF ck.st # "Accumulating" \/ x.signer \notin Member \/ x.signer \in Bitmap(ck) THEN ck
    ELSE LET p == ck.power + Power[x.signer]
         IN  [ck EXCEPT !.sigs = @ \union {[signer |-> x.signer, own |-> x.own]},
                        !.power = p,
                        !.st = IF p * 3 > Total * 2 THEN "Sealed" ELSE @]

(* The valid extensions of a commit for hash h, in the order of the votes. *)
ValidBlsSigs(c, h) ==
    SelectSeq([v \in Member |-> c[v]], LAMBDA x : verifyVoteExtension(x, h))

(* Mutation: one invalid extension is an error. *)
BuildsFromValidOnly(c) ==
    IF findLastBlockHash(c) = {} THEN Unsealed
    ELSE LET h == CHOOSE g \in findLastBlockHash(c) : TRUE
             ck == FoldLeft(Accumulate, NewCheckpoint(h), ValidBlsSigs(c, h))
         IN  IF ck.st = "Sealed" /\ \A v \in Member : c[v] = Empty \/ c[v].valid
             THEN ck ELSE Unsealed

(* buildCheckpointFromVoteExtensions; Unsealed stands for its errors.      *)
buildCheckpointFromVoteExtensions(c) ==
    IF findLastBlockHash(c) = {} THEN Unsealed
    ELSE LET h == CHOOSE g \in findLastBlockHash(c) : TRUE
             ck == FoldLeft(Accumulate, NewCheckpoint(h), ValidBlsSigs(c, h))
         IN  IF ck.st = "Sealed" THEN ck ELSE Unsealed

(* getValidBlsSigsAndPruneCommitInfo: invalid votes are marked as absent.  *)
PruneCommitInfo(c, h) ==
    [v \in Member |-> IF verifyVoteExtension(c[v], h) THEN c[v] ELSE Empty]

-----------------------------------------------------------------------------
QuorumInit ==
    /\ faulty \in {S \in SUBSET Member : PowerOf(S) * 3 < Total}
    /\ signed = [v \in Member |-> {}]
    /\ block = Undecided
    /\ proposal = NoProposal
    /\ stored = Unsealed
    /\ alarm = FALSE

Signers(h) == {v \in Member \ faulty : h \in signed[v]}

(* With the faulty ones, h may have had two thirds of the precommits.      *)
Locked(h) == PowerOf(Signers(h) \union faulty) * 3 > Total * 2

(* ExtendVote at the last block of the epoch.                              *)
ExtendVote(v, h) ==
    /\ v \notin faulty /\ block = Undecided
    /\ \A g \in Hash \ {h} : ~Locked(g)
    /\ signed' = [signed EXCEPT ![v] = @ \union {h}]
    /\ UNCHANGED <<faulty, block, proposal, stored, alarm>>

(* Consensus decides the last block of the epoch.                          *)
Decide(h) ==
    /\ block = Undecided
    /\ Locked(h)
    /\ block' = h
    /\ UNCHANGED <<faulty, signed, proposal, stored, alarm>>

(* PrepareProposal of a correct proposer, in whose commit two thirds of    *)
(* the votes passed VerifyVoteExtension.                                   *)
PrepareProposal(c) ==
    /\ block # Undecided /\ proposal = NoProposal /\ stored = Unsealed
    /\ PowerOf({v \in Member : VerifyVoteExtension(v, c[v], block)}) >= RequiredVP
    /\ LET ck == buildCheckpointFromVoteExtensions(c)
       IN  proposal' = IF ~ValidateVoteExtensions(c) \/ ck = Unsealed THEN Panic
                       ELSE [by |-> "correct", ck |-> ck, commit |-> PruneCommitInfo(c, ck.hash)]
    /\ UNCHANGED <<faulty, signed, block, stored, alarm>>

(* A proposal of a faulty validator: any commit, and a checkpoint that is  *)
(* the one of the commit or has another block in it.                       *)
FaultyProposal(c, h) ==
    /\ block # Undecided /\ proposal = NoProposal /\ stored = Unsealed
    /\ faulty # {}
    /\ LET ck == buildCheckpointFromVoteExtensions(c)
       IN  proposal' = [by |-> "faulty",
                        ck |-> IF ck = Unsealed THEN NewCheckpoint(h) ELSE [ck EXCEPT !.hash = h],
                        commit |-> c]
    /\ UNCHANGED <<faulty, signed, block, stored, alarm>>

Accepted(p) ==
    /\ ValidateVoteExtensions(p.commit)
    /\ buildCheckpointFromVoteExtensions(p.commit) # Unsealed
    /\ buildCheckpointFromVoteExtensions(p.commit) = p.ck

(* ProcessProposal; an accepted proposal becomes the block, whose          *)
(* PreBlocker stores the checkpoint.                                       *)
ProcessProposal ==
    /\ proposal.by \in {"correct", "faulty"}
    /\ stored' = IF Accepted(proposal) THEN proposal.ck ELSE stored
    /\ proposal' = NoProposal
    /\ UNCHANGED <<faulty, signed, block, alarm>>

(* VerifyRawCheckpoint of a checkpoint with hash h and signatures of S.    *)
VerifyRawCheckpoint(S) == PowerOf(S) * 3 > Total * 2

(* VerifyCheckpoint of a checkpoint found on Bitcoin, signed by S.         *)
VerifyCheckpoint(S, h) ==
    /\ stored # Unsealed
    /\ S \subseteq Signers(h) \union faulty
    /\ VerifyRawCheckpoint(S)
    /\ alarm' = (alarm \/ stored.hash # h)
    /\ UNCHANGED <<faulty, signed, block, proposal, stored>>

QuorumNext ==
    \/ \E v \in Member, h \in Hash : ExtendVote(v, h)
    \/ \E h \in Hash : Decide(h)
    \/ \E c \in Commits : PrepareProposal(c)
    \/ \E c \in Commits, h \in Hash : FaultyProposal(c, h)
    \/ ProcessProposal
    \/ \E S \in SUBSET Member, h \in Hash : VerifyCheckpoint(S, h)

-----------------------------------------------------------------------------
(* The sealed checkpoint is of the block consensus decided, and correct    *)
(* validators of the epoch with more than a third of the power signed it:  *)
(* neither a faulty proposer nor a signature that is sent twice, under     *)
(* another validator's vote or for another block, helps to seal it.  So no *)
(* checkpoint that verifies raises the alarm of a fork, which halts the    *)
(* chain, while less than a third of the power is faulty.                  *)
SealedByQuorum ==
    stored # Unsealed =>
        /\ stored.hash = block
        /\ PowerOf(Bitmap(stored)) * 3 > Total * 2
        /\ Bitmap(stored) \ faulty \subseteq Signers(block)
        /\ ~alarm

(* The next block can always be made: a correct proposer, who prunes the   *)
(* invalid votes of its commit, does not panic whatever late votes are in  *)
(* it, and what it proposes is accepted by everybody who rebuilds the      *)
(* checkpoint from the pruned commit.                                      *)
CorrectProposalsPass ==
    /\ proposal # Panic
    /\ proposal.by = "correct" => Accepted(proposal)
=============================================================================
