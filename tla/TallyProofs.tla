---------------------------- MODULE TallyProofs ----------------------------
(***************************************************************************)
(* Safety of Tally for every set of providers, every set of power tables   *)
(* and every bound: the finalised prefix, the quorum behind every          *)
(* finalisation and the absence of panics in EndBlock, for proposals the   *)
(* resume handler documents as valid.                                      *)
(***************************************************************************)
EXTENDS Tally, WellFoundedInduction, TLAPS

(* The inductive invariant: what TallyBlocks and HandleRewarding rely on.  *)
(* Tables exist from the activation height to the current one; every block *)
(* from the first table on is indexed once its EndBlock has run; the       *)
(* finalised heights are the ones with a table below the pointer; a cache  *)
(* is missing only below the reward pointer, which follows a finalised one.*)
TallyInv ==
    /\ TypeOK
    /\ FinalizedPrefix
    /\ nextFinalize <= height + 1
    /\ \A h \in HasTable : ActivationHeight <= h /\ h <= height
    /\ finalized \subseteq HasTable
    /\ \A h \in Heights, g \in HasTable :
         g <= h /\ (h < height \/ (h = height /\ phase = "idle")) => h \in indexed
    /\ \A h \in 1..height : h \notin cached => h < nextReward
    /\ nextReward # 0 => nextReward - 1 \in finalized

-----------------------------------------------------------------------------
\* A non-empty set of naturals has the least element that Least chooses.
LEMMA LeastIsLeast ==
  ASSUME NEW S \in SUBSET Nat, S # {}
  PROVE  Least(S) \in S /\ \A y \in S : Least(S) <= y
  <1>1. PICK x \in S : \A y \in S : ~(<<y, x>> \in OpToRel(<, Nat))
    <2>1. S \subseteq Nat
      OBVIOUS
    <2> QED
      BY <2>1, NatLessThanWellFounded, WFMin, Zenon
  <1>2. \A y \in S : ~(y < x)
    BY <1>1, Zenon DEF OpToRel
  <1>3. \A y \in S : x <= y
    BY <1>2
  <1> QED
    BY <1>3 DEF Least

\* A non-empty bounded set of naturals has the greatest element.
LEMMA GreatestIsGreatest ==
  ASSUME NEW n \in Nat, NEW S \in SUBSET (0..n), S # {}
  PROVE  Greatest(S) \in S /\ \A y \in S : Greatest(S) >= y
  <1> DEFINE T == {n - x : x \in S}
  <1>1. T \in SUBSET Nat /\ T # {}
    <2>1. \A x \in S : n - x \in Nat
      OBVIOUS
    <2>2. PICK x \in S : TRUE
      OBVIOUS
    <2>3. n - x \in T
      OBVIOUS
    <2> QED
      BY <2>1, <2>3
  <1>2. Least(T) \in T /\ \A y \in T : Least(T) <= y
    BY <1>1, LeastIsLeast
  <1>3. PICK x \in S : Least(T) = n - x
    BY <1>2
  <1>4. \A y \in S : x >= y
    BY <1>2, <1>3
  <1> QED
    BY <1>4 DEF Greatest

\* The activated height is the first height with a table.
LEMMA ActivatedIsFirst ==
  ASSUME TypeOK, IsBTCStakingActivated
  PROVE  /\ GetBTCStakingActivatedHeight \in HasTable
         /\ \A g \in HasTable : GetBTCStakingActivatedHeight <= g
  <1>1. HasTable \in SUBSET Nat /\ HasTable # {}
    BY DEF HasTable, Heights, IsBTCStakingActivated
  <1>2. GetBTCStakingActivatedHeight = Least(HasTable)
    BY DEF GetBTCStakingActivatedHeight, Least
  <1> QED
    BY <1>1, <1>2, LeastIsLeast

\* Where the tally loop starts, ends and stops.
LEMMA LoopRange ==
  ASSUME TallyInv, IsBTCStakingActivated
  PROVE  /\ TallyStart \in 1..(height + 1)
         /\ TallyStart >= GetBTCStakingActivatedHeight
         /\ TallyStart >= nextFinalize
         /\ TallyStart \in {nextFinalize, GetBTCStakingActivatedHeight}
         /\ TallyEnd \in 0..height
         /\ TallyEnd >= TallyStart \/ (TallyEnd = height /\ TallyStart = height + 1)
         /\ StopHeight \in TallyStart..(TallyEnd + 1)
         /\ \A h \in TallyStart..(StopHeight - 1) : members[h] = {} \/ tally(h)
  <1> USE TallyAssumption DEF TallyInv, TypeOK, Heights, HasTable
  <1>1. /\ GetBTCStakingActivatedHeight \in HasTable
        /\ \A g \in HasTable : GetBTCStakingActivatedHeight <= g
    BY ActivatedIsFirst
  <1>2. /\ TallyStart \in 1..(height + 1)
        /\ TallyStart >= GetBTCStakingActivatedHeight
        /\ TallyStart >= nextFinalize
        /\ TallyStart \in {nextFinalize, GetBTCStakingActivatedHeight}
    BY <1>1 DEF TallyStart
  <1>3. /\ TallyEnd \in 0..height
        /\ TallyEnd >= TallyStart \/ (TallyEnd = height /\ TallyStart = height + 1)
    BY <1>2 DEF TallyEnd
  <1> DEFINE waiting == {h \in TallyStart..TallyEnd : members[h] # {} /\ ~tally(h)}
  <1>4. waiting \in SUBSET Nat
    BY <1>2, <1>3
  <1>5. StopHeight = IF waiting = {} THEN TallyEnd + 1 ELSE Least(waiting)
    BY DEF StopHeight
  <1>6. /\ StopHeight \in TallyStart..(TallyEnd + 1)
        /\ \A h \in TallyStart..(StopHeight - 1) : h \notin waiting
    <2>1. CASE waiting = {}
      <3> HIDE DEF waiting
      <3> QED
        BY <1>2, <1>3, <1>5, <2>1
    <2>2. CASE waiting # {}
      <3>1. Least(waiting) \in waiting /\ \A y \in waiting : Least(waiting) <= y
        BY <1>4, <2>2, LeastIsLeast
      <3> HIDE DEF waiting
      <3>2. StopHeight \in waiting /\ \A y \in waiting : StopHeight <= y
        BY <1>5, <2>2, <3>1
      <3>3. waiting \subseteq TallyStart..TallyEnd
        BY DEF waiting
      <3> QED
        BY <1>2, <1>3, <3>2, <3>3
    <2> QED
      BY <2>1, <2>2
  <1>7. \A h \in TallyStart..(StopHeight - 1) : members[h] = {} \/ tally(h)
    BY <1>2, <1>3, <1>6
  <1> QED
    BY <1>2, <1>3, <1>6, <1>7

\* The reward loop stays between the first table and the current height.
LEMMA RewardRange ==
  ASSUME TallyInv, IsBTCStakingActivated
  PROVE  /\ RewardStart \in 1..(MaxHeight + 1)
         /\ RewardStart >= GetBTCStakingActivatedHeight
         /\ RewardStart >= nextReward
         /\ HeightToExamine \in Int /\ HeightToExamine <= height
         /\ RewardEnd \in Int /\ RewardEnd <= height
  <1> USE TallyAssumption DEF TallyInv, TypeOK, Heights, HasTable
  <1>1. /\ GetBTCStakingActivatedHeight \in HasTable
        /\ \A g \in HasTable : GetBTCStakingActivatedHeight <= g
    BY ActivatedIsFirst
  <1>2. /\ RewardStart \in 1..(MaxHeight + 1)
        /\ RewardStart >= GetBTCStakingActivatedHeight
        /\ RewardStart >= nextReward
    BY <1>1 DEF RewardStart
  <1>3. HeightToExamine \in Int /\ HeightToExamine <= height
    BY DEF HeightToExamine
  <1>4. RewardEnd \in Int /\ RewardEnd <= height
    BY <1>2, <1>3 DEF RewardEnd
  <1> QED
    BY <1>2, <1>3, <1>4

\* What EndBlock finalises and rewards lies among the tracked heights.
LEMMA EndBlockRanges ==
  ASSUME TallyInv, IsBTCStakingActivated
  PROVE  /\ finalizeBlock \subseteq HasTable
         /\ finalizeBlock \subseteq 1..height
         /\ \A h \in finalizeBlock : h < setNextHeightToFinalize
         /\ \A h \in HasTable : h < setNextHeightToFinalize => h \in finalizeBlock
         /\ setNextHeightToFinalize \in 0..(height + 1)
         /\ rewardBTCStaking \subseteq finalizeBlock
         /\ \A h \in rewardBTCStaking : nextReward <= h
  <1> DEFINE act == GetBTCStakingActivatedHeight
  <1>1. /\ act \in HasTable
        /\ \A g \in HasTable : act <= g
    BY ActivatedIsFirst DEF TallyInv
  <1>2. /\ TallyStart \in 1..(height + 1)
        /\ TallyStart >= nextFinalize
        /\ TallyStart \in {nextFinalize, act}
        /\ TallyEnd \in 0..height
        /\ StopHeight \in TallyStart..(TallyEnd + 1)
    BY LoopRange
  <1>3. /\ RewardStart \in 1..(MaxHeight + 1) /\ RewardStart >= nextReward
        /\ RewardEnd \in Int
    BY RewardRange
  <1> HIDE DEF act
  <1>4. /\ height \in Nat /\ height <= MaxHeight /\ MaxHeight \in Nat
        /\ HasTable \subseteq Heights /\ Heights = 1..MaxHeight
        /\ \A h \in HasTable : h <= height
        /\ nextFinalize \in Nat /\ nextFinalize <= height + 1
        /\ finalized \subseteq HasTable
        /\ \A h \in finalized : h < nextFinalize
        /\ \A h \in HasTable : h < nextFinalize => h \in finalized
        /\ nextReward \in Nat
    BY TallyAssumption DEF TallyInv, TypeOK, FinalizedPrefix, HasTable, Heights, IsBTCStakingActivated
  <1>5. Processed = TallyStart..(StopHeight - 1)
    BY DEF Processed
  <1>6. Processed \subseteq Heights
    BY <1>2, <1>4, <1>5
  <1>7. finalizeBlock = finalized \cup (Processed \cap HasTable)
    BY <1>6 DEF finalizeBlock, HasTable
  <1>8. setNextHeightToFinalize = IF Processed = {} THEN nextFinalize ELSE StopHeight
    BY DEF setNextHeightToFinalize
  <1>9. Processed # {} => StopHeight > TallyStart
    BY <1>2, <1>5
  <1>10. finalizeBlock \subseteq HasTable /\ finalizeBlock \subseteq 1..height
    <2>1. finalizeBlock \subseteq HasTable
      BY <1>4, <1>7
    <2>2. HasTable \subseteq 1..height
      BY <1>4
    <2> QED
      BY <2>1, <2>2
  <1>11. setNextHeightToFinalize \in 0..(height + 1)
    BY <1>2, <1>4, <1>8
  <1>12. \A h \in finalizeBlock : h < setNextHeightToFinalize
    BY <1>2, <1>4, <1>5, <1>7, <1>8, <1>9
  <1>13. \A h \in HasTable : h < setNextHeightToFinalize => h \in finalizeBlock
    BY <1>1, <1>2, <1>4, <1>5, <1>7, <1>8
  <1>14. rewardBTCStaking \subseteq finalizeBlock /\ \A h \in rewardBTCStaking : nextReward <= h
    BY <1>3, <1>4, <1>10 DEF rewardBTCStaking
  <1> QED
    BY <1>10, <1>11, <1>12, <1>13, <1>14

-----------------------------------------------------------------------------
\* EndBlock's panics are unreachable when the invariant holds.
LEMMA InvNeverPanics == TallyInv => EndBlockNeverPanics
  <1> SUFFICES ASSUME TallyInv, phase = "txs", IsFinalityActive
               PROVE  ~TallyPanics /\ ~RewardPanics
    BY DEF EndBlockNeverPanics
  <1>1. IsBTCStakingActivated
    BY DEF IsFinalityActive
  <1> DEFINE act == GetBTCStakingActivatedHeight
  <1>2. act \in HasTable
    BY <1>1, ActivatedIsFirst DEF TallyInv
  <1>3. /\ TallyStart \in 1..(height + 1) /\ TallyStart >= act /\ TallyStart >= nextFinalize
        /\ TallyEnd \in 0..height
    BY <1>1, LoopRange
  <1>4. /\ RewardStart \in 1..(MaxHeight + 1) /\ RewardStart >= act
        /\ RewardEnd \in Int /\ RewardEnd <= height
    BY <1>1, RewardRange
  <1>5. rewardBTCStaking \subseteq 1..height /\ \A h \in rewardBTCStaking : nextReward <= h
    BY <1>1, EndBlockRanges
  <1> HIDE DEF act
  <1>6. \A h \in Heights : act <= h /\ h < height => h \in indexed
    BY <1>2 DEF TallyInv
  <1>7. height \in 0..MaxHeight /\ MaxHeight \in Nat /\ Heights = 1..MaxHeight /\ act \in Heights
    BY <1>2, TallyAssumption DEF TallyInv, TypeOK, Heights, HasTable
  <1>8. \A h \in Heights : act <= h /\ h <= height => h \in IndexBlock
    BY <1>6, <1>7 DEF IndexBlock
  <1>9. ~TallyPanics
    <2>1. \A h \in finalized : h < nextFinalize
      BY DEF TallyInv, FinalizedPrefix
    <2>2. finalized \subseteq 1..height /\ nextFinalize \in Nat
      BY DEF TallyInv, TypeOK
    <2> QED
      BY <1>3, <1>7, <1>8, <2>1, <2>2 DEF TallyPanics
  <1>10. ~RewardPanics
    <2>1. \A h \in 1..height : h \notin cached => h < nextReward
      BY DEF TallyInv
    <2>2. nextReward \in Nat
      BY DEF TallyInv, TypeOK
    <2>3. rewardBTCStaking \subseteq cached
      BY <1>5, <1>7, <2>1, <2>2
    <2>4. \A h \in RewardStart..RewardEnd : h \in IndexBlock
      BY <1>4, <1>7, <1>8
    <2> QED
      BY <2>3, <2>4 DEF RewardPanics
  <1> QED
    BY <1>9, <1>10

\* EndBlock preserves the invariant.
LEMMA EndBlockStep == TallyInv /\ EndBlock => TallyInv'
  <1> SUFFICES ASSUME TallyInv, EndBlock PROVE TallyInv'
    OBVIOUS
  <1>1. /\ phase = "txs" /\ phase' = "idle"
        /\ UNCHANGED <<height, extra, members, power, voters, barred, proposals>>
    BY DEF EndBlock, store
  <1>2. HasTable' = HasTable /\ IsBTCStakingActivated' = IsBTCStakingActivated
    BY <1>1 DEF HasTable, Heights, IsBTCStakingActivated
  <1>3. /\ height \in 0..MaxHeight /\ MaxHeight \in Nat /\ HasTable \subseteq Heights
        /\ Heights = 1..MaxHeight
        /\ \A h \in HasTable : ActivationHeight <= h /\ h <= height
    BY TallyAssumption DEF TallyInv, TypeOK, Heights, HasTable
  <1>4. CASE ~IsFinalityActive
    <2>1. UNCHANGED progress
      BY <1>4 DEF EndBlock
    <2>2. HasTable = {}
      BY <1>3, <1>4, TallyAssumption DEF IsFinalityActive, IsBTCStakingActivated
    <2> QED
      BY <1>1, <1>2, <2>1, <2>2 DEF TallyInv, TypeOK, FinalizedPrefix, progress, Heights
  <1>5. CASE IsFinalityActive
    <2>1. IsBTCStakingActivated
      BY <1>5 DEF IsFinalityActive
    <2>2. /\ indexed' = indexed \cup {height}
          /\ finalized' = finalizeBlock
          /\ nextFinalize' = setNextHeightToFinalize
          /\ rewarded' = rewarded \cup rewardBTCStaking
          /\ cached' = cached \ rewardBTCStaking
          /\ nextReward' = IF rewardBTCStaking = {} THEN nextReward
                           ELSE Greatest(rewardBTCStaking) + 1
      BY <1>5 DEF EndBlock, IndexBlock, SetNextHeightToReward
    <2>3. /\ finalizeBlock \subseteq HasTable
          /\ finalizeBlock \subseteq 1..height
          /\ \A h \in finalizeBlock : h < setNextHeightToFinalize
          /\ \A h \in HasTable : h < setNextHeightToFinalize => h \in finalizeBlock
          /\ setNextHeightToFinalize \in 0..(height + 1)
          /\ rewardBTCStaking \subseteq finalizeBlock
          /\ \A h \in rewardBTCStaking : nextReward <= h
      BY <2>1, EndBlockRanges
    <2>4. finalized \subseteq finalizeBlock
      BY DEF finalizeBlock
    <2>5. height >= 1
      <3>1. PICK h \in HasTable : TRUE
        BY <2>1 DEF IsBTCStakingActivated
      <3> QED
        BY <1>3, <3>1
    <2>6. \A h \in Heights, g \in HasTable : g <= h /\ h <= height => h \in indexed'
      BY <1>1, <1>3, <2>2 DEF TallyInv
    <2>7. finalizeBlock \subseteq indexed'
      <3>1. \A h \in HasTable : h \in Heights /\ h <= h /\ h <= height
        BY <1>3
      <3>2. \A h \in HasTable : h \in indexed'
        BY <2>6, <3>1
      <3> QED
        BY <2>3, <3>2
    <2>8. rewardBTCStaking # {} =>
            /\ Greatest(rewardBTCStaking) \in rewardBTCStaking
            /\ \A h \in rewardBTCStaking : Greatest(rewardBTCStaking) >= h
      <3>1. rewardBTCStaking \in SUBSET (0..height) /\ height \in Nat
        BY <1>3, <2>3
      <3> QED
        BY <3>1, GreatestIsGreatest
    <2>9. /\ nextReward' \in 0..(MaxHeight + 1)
          /\ nextReward' >= nextReward
          /\ \A h \in rewardBTCStaking : h < nextReward'
          /\ nextReward' # 0 => nextReward' - 1 \in finalized'
      <3>1. nextReward \in 0..(MaxHeight + 1) /\ (nextReward # 0 => nextReward - 1 \in finalized)
        BY DEF TallyInv, TypeOK
      <3>2. CASE rewardBTCStaking = {}
        BY <1>3, <2>2, <2>4, <3>1, <3>2
      <3>3. CASE rewardBTCStaking # {}
        <4> DEFINE top == Greatest(rewardBTCStaking)
        <4>1. top \in rewardBTCStaking /\ nextReward' = top + 1 /\ top \in finalizeBlock
              /\ \A h \in rewardBTCStaking : top >= h
          BY <2>2, <2>3, <2>8, <3>3
        <4>2. top \in 1..height /\ nextReward <= top
          BY <2>3, <4>1
        <4> HIDE DEF top
        <4>3. rewardBTCStaking \subseteq 1..height
          BY <2>3
        <4> QED
          BY <1>3, <2>2, <3>1, <4>1, <4>2, <4>3
      <3> QED
        BY <3>2, <3>3
    <2>10. TypeOK'
      <3>1. /\ indexed' \subseteq 1..height /\ rewarded' \subseteq finalized'
            /\ cached' \subseteq 1..height
        BY <1>3, <2>2, <2>3, <2>4, <2>5 DEF TallyInv, TypeOK
      <3>2. nextFinalize' \in 0..(MaxHeight + 1)
        BY <1>3, <2>2, <2>3
      <3> QED
        BY <1>1, <2>2, <2>7, <2>9, <3>1, <3>2 DEF TallyInv, TypeOK, Heights
    <2>11. FinalizedPrefix' /\ nextFinalize' <= height' + 1
      BY <1>1, <1>2, <1>3, <2>2, <2>3 DEF FinalizedPrefix
    <2>12. \A h \in 1..height : h \notin cached' => h < nextReward'
      <3>1. \A h \in 1..height : h \notin cached => h < nextReward
        BY DEF TallyInv
      <3>2. nextReward \in Nat /\ nextReward' \in Nat
        BY <2>9, TallyAssumption DEF TallyInv, TypeOK
      <3> QED
        BY <1>3, <2>2, <2>9, <3>1, <3>2
    <2>13. \A h \in Heights, g \in HasTable' :
             g <= h /\ (h < height' \/ (h = height' /\ phase' = "idle")) => h \in indexed'
      BY <1>1, <1>2, <1>3, <2>6
    <2> QED
      BY <1>1, <1>2, <1>3, <2>2, <2>3, <2>9, <2>10, <2>11, <2>12, <2>13 DEF TallyInv
  <1> QED
    BY <1>4, <1>5

\* Every step preserves the invariant.
LEMMA TallyInvStep == TallyInv /\ [Next]_vars => TallyInv'
  <1> SUFFICES ASSUME TallyInv, [Next]_vars PROVE TallyInv'
    OBVIOUS
  <1>1. ASSUME NEW t \in Tables, BeginBlock(t) PROVE TallyInv'
    <2>1. /\ height' = height + 1 /\ height' \in Heights /\ phase = "idle" /\ phase' = "txs"
          /\ members' = [members EXCEPT ![height + 1] = {f \in FP : t[f] > 0}]
          /\ power' = [power EXCEPT ![height + 1] = t]
          /\ cached' = cached \cup {height + 1}
          /\ height + 1 < ActivationHeight => t = [f \in FP |-> 0]
          /\ UNCHANGED <<extra, voters, barred, indexed, finalized, nextFinalize,
                         nextReward, rewarded, proposals>>
      BY <1>1, TallyAssumption DEF BeginBlock, TallyInv, TypeOK, Heights
    <2>2. /\ HasTable' \subseteq HasTable \cup {height + 1} /\ HasTable \subseteq HasTable'
          /\ height + 1 < ActivationHeight => HasTable' = HasTable
      <3>1. height + 1 \notin HasTable
        BY TallyAssumption DEF TallyInv, TypeOK, HasTable, Heights
      <3>2. \A h \in Heights : h # height + 1 => members'[h] = members[h]
        BY <2>1 DEF TallyInv, TypeOK
      <3>3. height + 1 < ActivationHeight => members'[height + 1] = {}
        BY <2>1 DEF TallyInv, TypeOK
      <3> QED
        BY <2>1, <3>1, <3>2, <3>3 DEF HasTable
    <2>3. TypeOK'
      BY <2>1, TallyAssumption DEF TallyInv, TypeOK, Heights
    <2>4. FinalizedPrefix'
      BY <2>1, <2>2, TallyAssumption DEF TallyInv, TypeOK, FinalizedPrefix, IsBTCStakingActivated
    <2>5. \A h \in HasTable' : ActivationHeight <= h /\ h <= height'
      BY <2>1, <2>2, TallyAssumption DEF TallyInv, TypeOK, HasTable, Heights
    <2>6. \A h \in Heights, g \in HasTable' :
            g <= h /\ (h < height' \/ (h = height' /\ phase' = "idle")) => h \in indexed'
      <3> SUFFICES ASSUME NEW h \in Heights, NEW g \in HasTable', g <= h, h < height + 1
                   PROVE  h \in indexed
        BY <2>1, TallyAssumption DEF TallyInv, TypeOK
      <3>1. g # height + 1
        BY TallyAssumption DEF TallyInv, TypeOK, Heights
      <3>2. g \in HasTable
        BY <2>2, <3>1
      <3>3. h < height \/ (h = height /\ phase = "idle")
        BY <2>1, TallyAssumption DEF TallyInv, TypeOK, Heights
      <3> QED
        BY <3>2, <3>3 DEF TallyInv
    <2>7. \A h \in 1..height' : h \notin cached' => h < nextReward'
      BY <2>1, TallyAssumption DEF TallyInv, TypeOK
    <2>8. nextFinalize' <= height' + 1
      BY <2>1, TallyAssumption DEF TallyInv, TypeOK
    <2> QED
      BY <2>1, <2>2, <2>3, <2>4, <2>5, <2>6, <2>7, <2>8 DEF TallyInv
  <1>2. ASSUME BeginLaterBlock PROVE TallyInv'
    <2>1. HasTable' = HasTable /\ IsBTCStakingActivated' = IsBTCStakingActivated
      BY <1>2 DEF BeginLaterBlock, store, HasTable, Heights, IsBTCStakingActivated
    <2> QED
      BY <1>2, <2>1, TallyAssumption
      DEF BeginLaterBlock, store, progress, TallyInv, TypeOK, FinalizedPrefix, Heights
  <1>3. ASSUME NEW f \in FP, NEW h \in Heights, AddFinalitySig(f, h) PROVE TallyInv'
    <2>1. HasTable' = HasTable /\ IsBTCStakingActivated' = IsBTCStakingActivated
      BY <1>3 DEF AddFinalitySig, HasTable, Heights, IsBTCStakingActivated
    <2> QED
      BY <1>3, <2>1 DEF AddFinalitySig, chain, progress, TallyInv, TypeOK, FinalizedPrefix
  <1>4. ASSUME NEW f \in FP, Bar(f) \/ Unbar(f) PROVE TallyInv'
    <2>1. HasTable' = HasTable /\ IsBTCStakingActivated' = IsBTCStakingActivated
      BY <1>4 DEF Bar, Unbar, HasTable, Heights, IsBTCStakingActivated
    <2> QED
      BY <1>4, <2>1 DEF Bar, Unbar, chain, progress, TallyInv, TypeOK, FinalizedPrefix
  <1>5. ASSUME EndBlock PROVE TallyInv'
    BY <1>5, EndBlockStep
  <1>6. ASSUME NEW L \in SUBSET FP, NEW halt \in Heights,
               DocumentedProposal(halt), HandleResumeFinalityProposal(L, halt)
        PROVE  TallyInv'
    <2>1. /\ members' = [h \in Heights |->
                           IF h \in halt..height THEN members[h] \cup L ELSE members[h]]
          /\ power' = [h \in Heights |->
                         IF h \in halt..height
                         THEN [f \in FP |-> IF f \in L THEN 0 ELSE power[h][f]]
                         ELSE power[h]]
          /\ barred' = barred \cup L /\ proposals < MaxProposals /\ proposals' = proposals + 1
          /\ UNCHANGED <<height, extra, phase, voters, indexed, finalized, nextFinalize,
                         nextReward, cached, rewarded>>
          /\ halt <= height /\ halt >= ActivationHeight
      BY <1>6 DEF HandleResumeFinalityProposal, chain, progress
    <2>2. /\ GetBTCStakingActivatedHeight \in HasTable /\ IsBTCStakingActivated
          /\ halt >= GetBTCStakingActivatedHeight /\ halt >= nextFinalize
      BY <1>6, ActivatedIsFirst DEF DocumentedProposal, TallyInv
    <2>3. HasTable \subseteq HasTable' /\ HasTable' \subseteq HasTable \cup (halt..height)
      BY <2>1 DEF HasTable
    <2>4. TypeOK'
      <3>1. members' \in [Heights -> SUBSET FP] /\ power' \in [Heights -> [FP -> Nat]]
        BY <2>1 DEF TallyInv, TypeOK
      <3> QED
        BY <2>1, <3>1, TallyAssumption DEF TallyInv, TypeOK
    <2>5. FinalizedPrefix'
      BY <2>1, <2>2, <2>3 DEF TallyInv, TypeOK, FinalizedPrefix, Heights
    <2>6. \A h \in HasTable' : ActivationHeight <= h /\ h <= height'
      BY <2>1, <2>3, TallyAssumption DEF TallyInv, TypeOK, Heights
    <2>7. \A h \in Heights, g \in HasTable' :
            g <= h /\ (h < height' \/ (h = height' /\ phase' = "idle")) => h \in indexed'
      <3> SUFFICES ASSUME NEW h \in Heights, NEW g \in HasTable',
                          g <= h, h < height \/ (h = height /\ phase = "idle")
                   PROVE  h \in indexed
        BY <2>1
      <3>1. \E k \in HasTable : k <= h
        <4>1. CASE g \in HasTable
          BY <4>1
        <4>2. CASE g \in halt..height
          <5>1. GetBTCStakingActivatedHeight \in Nat /\ halt \in Nat /\ h \in Nat /\ g \in Nat
            BY <2>2, <4>2, TallyAssumption DEF Heights, HasTable, TallyInv, TypeOK
          <5>2. GetBTCStakingActivatedHeight <= h
            BY <2>2, <4>2, <5>1
          <5> QED
            BY <2>2, <5>2
        <4> QED
          BY <2>3, <4>1, <4>2
      <3> QED
        BY <3>1 DEF TallyInv
    <2> QED
      BY <2>1, <2>3, <2>4, <2>5, <2>6, <2>7 DEF TallyInv
  <1>7. CASE UNCHANGED vars
    BY <1>7 DEF vars, chain, store, progress, TallyInv, TypeOK, FinalizedPrefix,
                HasTable, Heights, IsBTCStakingActivated
  <1> QED
    BY <1>1, <1>2, <1>3, <1>4, <1>5, <1>6, <1>7, TallyAssumption DEF Next

\* The inductive invariant holds in every reachable state.
THEOREM Invariance == Spec => []TallyInv
  <1>1. Init => TallyInv
    BY TallyAssumption DEF Init, TallyInv, TypeOK, FinalizedPrefix, HasTable, Heights,
                           IsBTCStakingActivated
  <1> QED
    BY <1>1, TallyInvStep, PTL DEF Spec

\* Below the pointer of TallyBlocks every block with a table is finalised,
\* and nothing at or above it is.
THEOREM PrefixCorrect == Spec => []FinalizedPrefix
  <1>1. TallyInv => FinalizedPrefix
    BY DEF TallyInv
  <1> QED
    BY <1>1, Invariance, PTL

\* None of the panics of TallyBlocks, HandleRewarding and rewardBTCStaking
\* is reachable while proposals are as the handler documents them.
THEOREM NeverPanics == Spec => []EndBlockNeverPanics
  BY Invariance, InvNeverPanics, PTL

\* A block becomes finalised only with a quorum of its own table.
THEOREM QuorumBehindFinalization == Spec => FinalizedByQuorum
  <1> DEFINE ByQuorum == \A h \in finalized' \ finalized :
                           /\ members[h] # {}
                           /\ PowerOf(h, voters[h]) * 3 > PowerOf(h, FP) * 2
  <1>1. TallyInv /\ [Next]_vars => [ByQuorum]_vars
    <2> SUFFICES ASSUME TallyInv, Next PROVE ByQuorum
      OBVIOUS
    <2>1. CASE EndBlock /\ IsFinalityActive
      <3>1. IsBTCStakingActivated
        BY <2>1 DEF IsFinalityActive
      <3>2. \A h \in Processed : members[h] = {} \/ tally(h)
        BY <3>1, LoopRange DEF Processed
      <3>3. finalized' \ finalized \subseteq {h \in Processed : members[h] # {}}
        BY <2>1 DEF EndBlock, finalizeBlock
      <3> QED
        BY <3>2, <3>3 DEF tally
    <2>2. CASE EndBlock /\ ~IsFinalityActive
      BY <2>2 DEF EndBlock, progress
    <2>3. CASE ~EndBlock
      <3>1. finalized' = finalized
        BY <2>3 DEF Next, BeginBlock, BeginLaterBlock, AddFinalitySig, Bar, Unbar,
                    HandleResumeFinalityProposal, progress
      <3> QED
        BY <3>1
    <2> QED
      BY <2>1, <2>2, <2>3
  <1> QED
    BY <1>1, Invariance, PTL DEF Spec, FinalizedByQuorum

=============================================================================
