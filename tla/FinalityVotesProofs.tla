------------------------ MODULE FinalityVotesProofs ------------------------
(***************************************************************************)
(* Accountability of FinalityVotes for every set of providers, forks and   *)
(* bounds: a provider is slashed if and only if the chain accepted its     *)
(* canonical and a fork vote for one height, and slashing is final.        *)
(***************************************************************************)
EXTENDS FinalityVotes, TLAPS

(* What ties the vote and evidence stores to the votes accepted so far. *)
VoteInv ==
    /\ TypeOK
    /\ \A f \in FP, h \in Heights : f \in sigs[h] <=> <<f, h, Canonical>> \in accepted
    /\ \A f \in FP, h \in Heights, b \in Forks : <<f, h, b>> \in accepted => HasEvidence(f, h)
    /\ \A f \in FP, h \in Heights : HasEvidence(f, h) =>
         /\ evidence[f][h].fork \in Forks
         /\ <<f, h, evidence[f][h].fork>> \in accepted
         /\ f \in sigs[h] => f \in slashed /\ evidence[f][h].canonicalSig
    /\ SlashingIsProven

\* Every step keeps the variables in their types.
LEMMA TypeOKStep == TypeOK /\ [Next]_vars => TypeOK'
  <1> SUFFICES ASSUME TypeOK, [Next]_vars PROVE TypeOK'
    OBVIOUS
  <1> USE VotesAssumption DEF TypeOK
  <1>1. ASSUME NEW T \in SUBSET FP, RecordVotingPower(T) PROVE TypeOK'
    BY <1>1 DEF RecordVotingPower, voteVars, Heights
  <1>2. ASSUME NextEpoch PROVE TypeOK'
    BY <1>2 DEF NextEpoch, voteVars
  <1>3. ASSUME FinalizeEpoch PROVE TypeOK'
    BY <1>3 DEF FinalizeEpoch, voteVars
  <1>4. ASSUME NEW h \in Heights, FinalizeBlock(h) PROVE TypeOK'
    BY <1>4 DEF FinalizeBlock, voteVars
  <1>5. ASSUME NEW f \in FP, JailFinalityProvider(f) \/ UnjailFinalityProvider(f) PROVE TypeOK'
    BY <1>5 DEF JailFinalityProvider, UnjailFinalityProvider, blockVars, voteVars
  <1>6. ASSUME NEW f \in FP, NEW start \in 0..(Word - 1), NEW num \in 0..(Word - 1),
               CommitPubRandList(f, start, num)
        PROVE  TypeOK'
    <2>1. [start |-> start, num |-> num, epoch |-> epoch] \in Commitment
      BY DEF Commitment
    <2> QED
      BY <1>6, <2>1 DEF CommitPubRandList, blockVars, voteVars
  <1>7. ASSUME NEW f \in FP, NEW h \in Heights, NEW b \in Forks, AddForkSig(f, h, b)
        PROVE  TypeOK'
    <2>1. [fork |-> b, canonicalSig |-> f \in sigs[h]] \in Evidence
      BY DEF Evidence, Blocks
    <2>2. evidence' \in [FP -> [Heights -> Evidence]]
      BY <1>7, <2>1 DEF AddForkSig
    <2>3. accepted' \subseteq FP \X Heights \X Blocks /\ slashed' \subseteq FP
      BY <1>7 DEF AddForkSig, Blocks
    <2> QED
      BY <1>7, <2>2, <2>3 DEF AddForkSig, blockVars
  <1>8. ASSUME NEW f \in FP, NEW h \in Heights, AddCanonicalSig(f, h) PROVE TypeOK'
    <2>1. [evidence[f][h] EXCEPT !.canonicalSig = TRUE] \in Evidence
      <3>1. evidence[f][h] \in Evidence
        OBVIOUS
      <3> QED
        BY <3>1 DEF Evidence
    <2>2. evidence' \in [FP -> [Heights -> Evidence]]
      <3>1. CASE HasEvidence(f, h)
        <4>1. evidence' = [evidence EXCEPT ![f] = [evidence[f] EXCEPT ![h] =
                             [evidence[f][h] EXCEPT !.canonicalSig = TRUE]]]
          BY <1>8, <3>1 DEF AddCanonicalSig
        <4> HIDE DEF Evidence
        <4> QED
          BY <2>1, <4>1
      <3>2. CASE ~HasEvidence(f, h)
        BY <1>8, <3>2 DEF AddCanonicalSig
      <3> QED
        BY <3>1, <3>2
    <2>3. accepted' \subseteq FP \X Heights \X Blocks /\ slashed' \subseteq FP
      BY <1>8 DEF AddCanonicalSig, Blocks
    <2> QED
      BY <1>8, <2>2, <2>3 DEF AddCanonicalSig, blockVars
  <1>9. CASE UNCHANGED vars
    BY <1>9 DEF vars, blockVars, voteVars
  <1> QED
    BY <1>1, <1>2, <1>3, <1>4, <1>5, <1>6, <1>7, <1>8, <1>9 DEF Next

\* A fork vote keeps the stores in step with the accepted votes.
LEMMA ForkVoteStep ==
  ASSUME VoteInv, NEW f \in FP, NEW h \in Heights, NEW b \in Forks, AddForkSig(f, h, b)
  PROVE  /\ \A g \in FP, k \in Heights : g \in sigs'[k] <=> <<g, k, Canonical>> \in accepted'
         /\ \A g \in FP, k \in Heights, c \in Forks :
              <<g, k, c>> \in accepted' => HasEvidence(g, k)'
         /\ \A g \in FP, k \in Heights : HasEvidence(g, k)' =>
              /\ evidence'[g][k].fork \in Forks
              /\ <<g, k, evidence'[g][k].fork>> \in accepted'
              /\ g \in sigs'[k] => g \in slashed' /\ evidence'[g][k].canonicalSig
         /\ SlashingIsProven'
  <1> DEFINE rec == [fork |-> b, canonicalSig |-> f \in sigs[h]]
  <1>1. /\ evidence \in [FP -> [Heights -> Evidence]] /\ b # Canonical /\ f \notin slashed
        /\ evidence' = [evidence EXCEPT ![f] = [evidence[f] EXCEPT ![h] = rec]]
        /\ slashed' = IF f \in sigs[h] THEN slashed \cup {f} ELSE slashed
        /\ accepted' = accepted \cup {<<f, h, b>>} /\ sigs' = sigs
    BY DEF AddForkSig, CanVote, VoteInv, TypeOK
  <1>2. /\ evidence'[f][h] = rec
        /\ \A g \in FP, k \in Heights : <<g, k>> # <<f, h>> => evidence'[g][k] = evidence[g][k]
    BY <1>1
  <1>3. rec # NoEvidence /\ rec.fork = b /\ (rec.canonicalSig <=> f \in sigs[h])
    <2>1. rec.fork # NoEvidence.fork
      BY <1>1 DEF NoEvidence
    <2> QED
      BY <2>1
  <1> HIDE DEF rec
  <1>4. \A g \in FP, k \in Heights : g \in sigs'[k] <=> <<g, k, Canonical>> \in accepted'
    BY <1>1 DEF VoteInv
  <1>5. \A g \in FP, k \in Heights, c \in Forks :
          <<g, k, c>> \in accepted' => evidence'[g][k] # NoEvidence
    BY <1>1, <1>2, <1>3 DEF VoteInv, HasEvidence
  <1>6. \A g \in FP, k \in Heights : evidence'[g][k] # NoEvidence =>
          /\ evidence'[g][k].fork \in Forks
          /\ <<g, k, evidence'[g][k].fork>> \in accepted'
          /\ g \in sigs'[k] => g \in slashed' /\ evidence'[g][k].canonicalSig
    <2> SUFFICES ASSUME NEW g \in FP, NEW k \in Heights, evidence'[g][k] # NoEvidence
                 PROVE  /\ evidence'[g][k].fork \in Forks
                        /\ <<g, k, evidence'[g][k].fork>> \in accepted'
                        /\ g \in sigs'[k] => g \in slashed' /\ evidence'[g][k].canonicalSig
      OBVIOUS
    <2>1. CASE g = f /\ k = h
      BY <1>1, <1>2, <1>3, <2>1
    <2>2. CASE <<g, k>> # <<f, h>>
      BY <1>1, <1>2, <2>2 DEF VoteInv, HasEvidence
    <2> QED
      BY <2>1, <2>2
  <1>7. SlashingIsProven'
    <2> SUFFICES ASSUME NEW g \in slashed'
                 PROVE  \E k \in Heights :
                          /\ evidence'[g][k] # NoEvidence /\ evidence'[g][k].canonicalSig
                          /\ <<g, k, evidence'[g][k].fork>> \in accepted'
                          /\ <<g, k, Canonical>> \in accepted'
      BY DEF SlashingIsProven, HasEvidence
    <2>1. CASE g \in slashed
      <3>1. g # f /\ g \in FP
        BY <1>1, <2>1 DEF VoteInv, TypeOK
      <3>2. PICK k \in Heights :
              /\ evidence[g][k] # NoEvidence /\ evidence[g][k].canonicalSig
              /\ <<g, k, evidence[g][k].fork>> \in accepted
              /\ <<g, k, Canonical>> \in accepted
        BY <2>1 DEF VoteInv, SlashingIsProven, HasEvidence
      <3>3. <<g, k>> # <<f, h>>
        BY <3>1
      <3>4. evidence'[g][k] = evidence[g][k]
        BY <1>2, <3>1, <3>3
      <3>5. accepted \subseteq accepted'
        BY <1>1
      <3> QED
        BY <3>2, <3>4, <3>5, Zenon
    <2>2. CASE g \notin slashed
      <3>1. g = f /\ f \in sigs[h]
        BY <1>1, <2>2
      <3> QED
        <4>1. evidence'[f][h] # NoEvidence /\ evidence'[f][h].canonicalSig /\ evidence'[f][h].fork = b
          BY <1>2, <1>3, <3>1
        <4>2. <<f, h, Canonical>> \in accepted /\ <<f, h, b>> \in accepted'
          BY <1>1, <3>1 DEF VoteInv
        <4> QED
          BY <1>1, <3>1, <4>1, <4>2
    <2> QED
      BY <2>1, <2>2
  <1> QED
    BY <1>4, <1>5, <1>6, <1>7 DEF HasEvidence

\* So does a canonical vote.
LEMMA CanonicalVoteStep ==
  ASSUME VoteInv, NEW f \in FP, NEW h \in Heights, AddCanonicalSig(f, h)
  PROVE  /\ \A g \in FP, k \in Heights : g \in sigs'[k] <=> <<g, k, Canonical>> \in accepted'
         /\ \A g \in FP, k \in Heights, c \in Forks :
              <<g, k, c>> \in accepted' => HasEvidence(g, k)'
         /\ \A g \in FP, k \in Heights : HasEvidence(g, k)' =>
              /\ evidence'[g][k].fork \in Forks
              /\ <<g, k, evidence'[g][k].fork>> \in accepted'
              /\ g \in sigs'[k] => g \in slashed' /\ evidence'[g][k].canonicalSig
         /\ SlashingIsProven'
  <1>1. /\ evidence \in [FP -> [Heights -> Evidence]] /\ f \notin slashed
        /\ sigs \in [Heights -> SUBSET FP] /\ slashed \subseteq FP
        /\ sigs' = [sigs EXCEPT ![h] = sigs[h] \cup {f}]
        /\ accepted' = accepted \cup {<<f, h, Canonical>>}
        /\ slashed' = IF evidence[f][h] # NoEvidence THEN slashed \cup {f} ELSE slashed
    BY DEF AddCanonicalSig, CanVote, VoteInv, TypeOK, HasEvidence
  <1>2. /\ evidence'[f][h] # NoEvidence <=> evidence[f][h] # NoEvidence
        /\ evidence'[f][h].fork = evidence[f][h].fork
        /\ evidence[f][h] # NoEvidence => evidence'[f][h].canonicalSig
        /\ \A g \in FP, k \in Heights : <<g, k>> # <<f, h>> => evidence'[g][k] = evidence[g][k]
    <2>1. CASE evidence[f][h] # NoEvidence
      <3>1. evidence' = [evidence EXCEPT ![f] = [evidence[f] EXCEPT ![h] =
                           [evidence[f][h] EXCEPT !.canonicalSig = TRUE]]]
        BY <2>1 DEF AddCanonicalSig, HasEvidence
      <3>2. evidence[f][h] \in [fork : Blocks, canonicalSig : BOOLEAN]
        BY <1>1 DEF Evidence
      <3>3. evidence'[f][h] = [evidence[f][h] EXCEPT !.canonicalSig = TRUE]
        BY <1>1, <3>1
      <3>4. evidence'[f][h].fork = evidence[f][h].fork /\ evidence'[f][h].canonicalSig = TRUE
        BY <3>2, <3>3
      <3>5. evidence'[f][h] # NoEvidence
        BY <3>4 DEF NoEvidence
      <3> QED
        BY <1>1, <2>1, <3>1, <3>4, <3>5
    <2>2. CASE evidence[f][h] = NoEvidence
      BY <2>2 DEF AddCanonicalSig, HasEvidence
    <2> QED
      BY <2>1, <2>2
  <1>3. \A g \in FP, k \in Heights : g \in sigs'[k] <=> <<g, k, Canonical>> \in accepted'
    BY <1>1 DEF VoteInv
  <1>4. \A g \in FP, k \in Heights, c \in Forks :
          <<g, k, c>> \in accepted' => evidence'[g][k] # NoEvidence
    <2>1. Canonical \notin Forks
      BY VotesAssumption
    <2> QED
      BY <1>1, <1>2, <2>1 DEF VoteInv, HasEvidence
  <1>5. \A g \in FP, k \in Heights : evidence'[g][k] # NoEvidence =>
          /\ evidence'[g][k].fork \in Forks
          /\ <<g, k, evidence'[g][k].fork>> \in accepted'
          /\ g \in sigs'[k] => g \in slashed' /\ evidence'[g][k].canonicalSig
    <2> SUFFICES ASSUME NEW g \in FP, NEW k \in Heights, evidence'[g][k] # NoEvidence
                 PROVE  /\ evidence'[g][k].fork \in Forks
                        /\ <<g, k, evidence'[g][k].fork>> \in accepted'
                        /\ g \in sigs'[k] => g \in slashed' /\ evidence'[g][k].canonicalSig
      OBVIOUS
    <2>1. CASE g = f /\ k = h
      BY <1>1, <1>2, <2>1 DEF VoteInv, HasEvidence
    <2>2. CASE <<g, k>> # <<f, h>>
      BY <1>1, <1>2, <2>2 DEF VoteInv, HasEvidence
    <2> QED
      BY <2>1, <2>2
  <1>6. SlashingIsProven'
    <2> SUFFICES ASSUME NEW g \in slashed'
                 PROVE  \E k \in Heights :
                          /\ evidence'[g][k] # NoEvidence /\ evidence'[g][k].canonicalSig
                          /\ <<g, k, evidence'[g][k].fork>> \in accepted'
                          /\ <<g, k, Canonical>> \in accepted'
      BY DEF SlashingIsProven, HasEvidence
    <2>1. CASE g \in slashed
      <3>1. g # f /\ g \in FP
        BY <1>1, <2>1
      <3>2. PICK k \in Heights :
              /\ evidence[g][k] # NoEvidence /\ evidence[g][k].canonicalSig
              /\ <<g, k, evidence[g][k].fork>> \in accepted
              /\ <<g, k, Canonical>> \in accepted
        BY <2>1 DEF VoteInv, SlashingIsProven, HasEvidence
      <3>3. <<g, k>> # <<f, h>>
        BY <3>1
      <3>4. evidence'[g][k] = evidence[g][k]
        BY <1>2, <3>1, <3>3
      <3> QED
        BY <1>1, <3>2, <3>4
    <2>2. CASE g \notin slashed
      <3>1. g = f /\ evidence[f][h] # NoEvidence
        BY <1>1, <2>2
      <3>2. <<f, h, evidence[f][h].fork>> \in accepted
        BY <3>1 DEF VoteInv, HasEvidence
      <3> QED
        BY <1>1, <1>2, <3>1, <3>2
    <2> QED
      BY <2>1, <2>2
  <1> QED
    BY <1>3, <1>4, <1>5, <1>6 DEF HasEvidence

\* Every step keeps the stores in step with the accepted votes.
LEMMA VoteInvStep == VoteInv /\ [Next]_vars => VoteInv'
  <1> SUFFICES ASSUME VoteInv, [Next]_vars PROVE VoteInv'
    OBVIOUS
  <1>1. TypeOK'
    BY TypeOKStep DEF VoteInv
  <1>2. ASSUME NEW f \in FP, NEW h \in Heights, NEW b \in Forks, AddForkSig(f, h, b)
        PROVE  VoteInv'
    BY <1>1, <1>2, ForkVoteStep DEF VoteInv
  <1>3. ASSUME NEW f \in FP, NEW h \in Heights, AddCanonicalSig(f, h) PROVE VoteInv'
    BY <1>1, <1>3, CanonicalVoteStep DEF VoteInv
  <1>4. ASSUME UNCHANGED <<voteVars, slashed>> PROVE VoteInv'
    BY <1>1, <1>4 DEF VoteInv, HasEvidence, SlashingIsProven, voteVars
  <1>5. CASE UNCHANGED vars
    BY <1>4, <1>5 DEF vars
  <1>6. CASE Next
    BY <1>2, <1>3, <1>4, <1>6
       DEF Next, RecordVotingPower, NextEpoch, FinalizeEpoch, FinalizeBlock,
           JailFinalityProvider, UnjailFinalityProvider, CommitPubRandList
  <1> QED
    BY <1>5, <1>6

\* The inductive invariant of AddFinalitySig and CommitPubRandList holds in
\* every reachable state.
THEOREM Invariance == Spec => []VoteInv
  <1>1. Init => VoteInv
    <2> SUFFICES ASSUME Init PROVE VoteInv
      OBVIOUS
    <2>1. NoEvidence \in Evidence
      BY DEF NoEvidence, Evidence, Blocks
    <2>2. TypeOK
      BY <2>1, VotesAssumption DEF Init, TypeOK, Commitment
    <2>3. \A f \in FP, h \in Heights : ~HasEvidence(f, h)
      BY DEF Init, HasEvidence
    <2> QED
      BY <2>2, <2>3 DEF Init, VoteInv, SlashingIsProven
  <1> QED
    BY <1>1, VoteInvStep, PTL DEF Spec

\* AddFinalitySig: a canonical and a fork vote for one height, accepted in
\* either order, leave the provider slashed with complete evidence.
THEOREM Accountability == Spec => []EquivocationIsSlashed
  <1>1. VoteInv => EquivocationIsSlashed
    BY DEF VoteInv, EquivocationIsSlashed
  <1> QED
    BY <1>1, Invariance, PTL

\* AddFinalitySig: a provider is slashed only with evidence that names two
\* blocks of one height the provider really voted for.
THEOREM NoFalseSlashing == Spec => []SlashingIsProven
  <1>1. VoteInv => SlashingIsProven
    BY DEF VoteInv
  <1> QED
    BY <1>1, Invariance, PTL

\* AddFinalitySig slashes a provider iff two of its accepted votes, the canonical
\* one among them, are for one height.
THEOREM SlashingCorrect == Spec => []SlashedIffEquivocated
  BY Accountability, NoFalseSlashing, PTL DEF SlashedIffEquivocated

=============================================================================
