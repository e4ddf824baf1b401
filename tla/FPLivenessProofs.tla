-------------------------- MODULE FPLivenessProofs --------------------------
(***************************************************************************)
(* Type correctness of FPLiveness, the agreement of the missed-block        *)
(* counter with the bitmap, and the absence of panics in HandleLiveness.    *)
(***************************************************************************)
EXTENDS FPLiveness, FiniteSetTheorems, TLAPS

\* MissedIndex is an index of the bitmap, whatever the window.
LEMMA IndexInWindow ==
  ASSUME NEW n \in Nat, NEW w \in Nat \ {0}
  PROVE  n % w \in Nat /\ n % w < w
  OBVIOUS

\* Every step keeps the variables in their types.
LEMMA TypeOKStep == TypeOK /\ [Next]_vars => TypeOK'
  <1> SUFFICES ASSUME TypeOK, [Next]_vars PROVE TypeOK'
    OBVIOUS
  <1> USE LivenessAssumption DEF TypeOK, Heights
  <1>1. ASSUME NEW candidates \in SUBSET FP, BeginBlock(candidates) PROVE TypeOK'
    <2>1. ApplyActiveFinalityProviders(candidates, MaxActive) \in SUBSET FP
      BY DEF ApplyActiveFinalityProviders
    <2>2. height + 1 \in 1..MaxHeight
      BY <1>1 DEF BeginBlock
    <2> QED
      BY <1>1, <2>1, <2>2 DEF BeginBlock, HandleActivatedFinalityProvider, historyVars
  <1>2. ASSUME NEW fp \in FP, NEW h \in Heights, AddFinalitySig(fp, h) PROVE TypeOK'
    BY <1>2 DEF AddFinalitySig, blockVars, infoVars, historyVars
  <1>3. ASSUME NEW fp \in FP, UnjailFinalityProvider(fp) PROVE TypeOK'
    BY <1>3 DEF UnjailFinalityProvider, blockVars, infoVars, historyVars
  <1>4. ASSUME NEW fp \in Faulty, SlashFinalityProvider(fp) PROVE TypeOK'
    BY <1>4 DEF SlashFinalityProvider, blockVars, infoVars, historyVars
  <1>5. ASSUME NEW w \in Windows, UpdateParams(w) PROVE TypeOK'
    BY <1>5 DEF UpdateParams, blockVars, infoVars, historyVars
  <1>6. ASSUME NEW halt \in Heights, NEW listed \in SUBSET FP,
               HandleResumeFinalityProposal(halt, listed)
        PROVE  TypeOK'
    <2>1. \A h \in Heights : ActiveWithout(listed, h) \in SUBSET FP
      BY DEF ActiveWithout, ApplyActiveFinalityProviders
    <2> DEFINE affected == halt..height
               toJail == listed \ (jailed \cup slashed)
               promoted == UNION {ActiveWithout(listed, h) \ cacheActive[h] : h \in affected}
    <2> HIDE DEF affected, toJail, promoted
    <2>2. /\ entries' = [h \in Heights |-> IF h \in affected THEN entries[h] \cup listed ELSE entries[h]]
          /\ zeroed' = [h \in Heights |-> IF h \in affected THEN zeroed[h] \cup listed ELSE zeroed[h]]
          /\ eligible' = [h \in Heights |-> IF h \in affected THEN eligible[h] \ listed ELSE eligible[h]]
          /\ cacheActive' = [h \in Heights |-> IF h \in affected THEN ActiveWithout(listed, h) ELSE cacheActive[h]]
      BY <1>6 DEF HandleResumeFinalityProposal, affected
    <2>3. /\ jailed' = jailed \cup toJail
          /\ missed' = [fp \in FP |-> IF fp \in toJail THEN 0 ELSE missed[fp]]
          /\ bitmap' = [fp \in FP |-> IF fp \in toJail THEN {} ELSE bitmap[fp]]
          /\ jailedUntil' = [fp \in FP |-> IF fp \in promoted THEN 0
                                          ELSE IF fp \in toJail THEN height + JailDuration
                                          ELSE jailedUntil[fp]]
          /\ startHeight' = [fp \in FP |-> IF fp \in promoted THEN height ELSE startHeight[fp]]
          /\ jailedAt' = [fp \in FP |-> IF fp \in toJail THEN height ELSE jailedAt[fp]]
      BY <1>6 DEF HandleResumeFinalityProposal, HandleActivatedFinalityProvider, affected, toJail, promoted
    <2>4. /\ phase' = "end" /\ proposals' \in 0..MaxProposals
          /\ UNCHANGED <<height, window, voters, slashed, absent, resized>>
      BY <1>6 DEF HandleResumeFinalityProposal
    <2>5. toJail \in SUBSET FP
      BY DEF toJail
    <2>6. <<entries, zeroed, eligible, cacheActive>>' \in
            [Heights -> SUBSET FP] \X [Heights -> SUBSET FP] \X [Heights -> SUBSET FP] \X [Heights -> SUBSET FP]
      BY <2>1, <2>2
    <2>7. /\ jailed' \in SUBSET FP
          /\ startHeight' \in [FP -> 0..MaxHeight]
          /\ missed' \in [FP -> Int]
          /\ jailedUntil' \in [FP -> Nat]
          /\ bitmap' \in [FP -> SUBSET Indices]
          /\ jailedAt' \in [FP -> Nat]
      BY <2>3, <2>5
    <2> QED
      BY <2>4, <2>6, <2>7
  <1>7. CASE HandleLiveness
    <2>1. Counted \in SUBSET FP /\ Sluggish \in SUBSET FP
      BY DEF Counted, Sluggish, Handled, Examined
    <2>2. \A fp \in FP : UpdatedMissed(fp) \in Int
      BY DEF UpdatedMissed
    <2>3. \A fp \in FP : UpdatedBitmap(fp) \subseteq Indices
      <3> SUFFICES ASSUME NEW fp \in FP, fp \in Counted
                   PROVE  MissedIndex(fp) \in Indices
        BY DEF UpdatedBitmap
      <3>1. Examined - startHeight[fp] \in Nat
        BY DEF Counted, Examined
      <3>2. window \in Windows /\ window \in Nat \ {0}
        OBVIOUS
      <3> QED
        BY <3>1, <3>2, IndexInWindow DEF MissedIndex, Indices
    <2>4. /\ missed' \in [FP -> Int]
          /\ bitmap' \in [FP -> SUBSET Indices]
          /\ jailedUntil' \in [FP -> Nat]
          /\ jailedAt' \in [FP -> Nat]
      BY <1>7, <2>1, <2>2, <2>3 DEF HandleLiveness
    <2>5. jailed' \in SUBSET FP /\ absent' \in [Heights -> SUBSET FP]
      BY <1>7, <2>1 DEF HandleLiveness
    <2>6. /\ phase' = "begin"
          /\ UNCHANGED <<height, window, voters, slashed, startHeight, proposals, resized>>
          /\ UNCHANGED <<entries, zeroed, eligible, cacheActive>>
      BY <1>7 DEF HandleLiveness, blockVars
    <2> QED
      BY <2>4, <2>5, <2>6
  <1>8. CASE UNCHANGED vars
    BY <1>8 DEF vars, blockVars, infoVars, historyVars
  <1> QED
    BY <1>1, <1>2, <1>3, <1>4, <1>5, <1>6, <1>7, <1>8 DEF Next

\* Type correctness: heights, tables, signing infos and bitmaps stay in range.
THEOREM TypeCorrect == Spec => []TypeOK
  <1>1. Init => TypeOK
    <2>1. Init => resized \in BOOLEAN
      BY DEF Init
    <2> QED
      BY <2>1, LivenessAssumption DEF Init, TypeOK, Heights
  <1> QED
    BY <1>1, TypeOKStep, PTL DEF Spec

\* One provider's examination moves the counter exactly as it moves the bit.
LEMMA ExaminationKeepsCount ==
  ASSUME TypeOK, CounterMatchesBitmap, NEW fp \in FP
  PROVE  /\ IsFiniteSet(UpdatedBitmap(fp))
         /\ UpdatedMissed(fp) = Cardinality(UpdatedBitmap(fp))
  <1>1. IsFiniteSet(bitmap[fp]) /\ missed[fp] = Cardinality(bitmap[fp])
    BY DEF CounterMatchesBitmap
  <1>2. CASE fp \notin Counted
    BY <1>1, <1>2 DEF UpdatedBitmap, UpdatedMissed
  <1>3. CASE fp \in Counted /\ fp \in voters[Examined]
    BY <1>1, <1>3, FS_RemoveElement DEF UpdatedBitmap, UpdatedMissed
  <1>4. CASE fp \in Counted /\ fp \notin voters[Examined]
    BY <1>1, <1>4, FS_AddElement DEF UpdatedBitmap, UpdatedMissed
  <1> QED
    BY <1>2, <1>3, <1>4

\* The missed-block counter of every signing info equals the number of bits
\* set in the bitmap, for any windows, proposals and parameter changes.
THEOREM CounterCorrect == Spec => []CounterMatchesBitmap
  <1>1. Init => CounterMatchesBitmap
    BY FS_EmptySet DEF Init, CounterMatchesBitmap
  <1>2. TypeOK /\ CounterMatchesBitmap /\ [Next]_vars => CounterMatchesBitmap'
    <2> SUFFICES ASSUME TypeOK, CounterMatchesBitmap, [Next]_vars
                 PROVE  CounterMatchesBitmap'
      OBVIOUS
    <2>1. ASSUME UNCHANGED <<missed, bitmap>> PROVE CounterMatchesBitmap'
      BY <2>1 DEF CounterMatchesBitmap
    <2>2. ASSUME NEW candidates \in SUBSET FP, BeginBlock(candidates)
          PROVE  CounterMatchesBitmap'
      BY <2>1, <2>2 DEF BeginBlock
    <2>3. ASSUME NEW fp \in FP, NEW h \in Heights, AddFinalitySig(fp, h)
          PROVE  CounterMatchesBitmap'
      BY <2>1, <2>3 DEF AddFinalitySig, infoVars
    <2>4. ASSUME NEW fp \in FP, UnjailFinalityProvider(fp)
          PROVE  CounterMatchesBitmap'
      BY <2>1, <2>4 DEF UnjailFinalityProvider, infoVars
    <2>5. ASSUME NEW fp \in Faulty, SlashFinalityProvider(fp)
          PROVE  CounterMatchesBitmap'
      BY <2>1, <2>5 DEF SlashFinalityProvider, infoVars
    <2>6. ASSUME NEW w \in Windows, UpdateParams(w)
          PROVE  CounterMatchesBitmap'
      BY <2>1, <2>6 DEF UpdateParams, infoVars
    <2>7. ASSUME NEW halt \in Heights, NEW listed \in SUBSET FP,
                 HandleResumeFinalityProposal(halt, listed)
          PROVE  CounterMatchesBitmap'
      <3>1. PICK toJail : /\ missed' = [fp \in FP |-> IF fp \in toJail THEN 0 ELSE missed[fp]]
                          /\ bitmap' = [fp \in FP |-> IF fp \in toJail THEN {} ELSE bitmap[fp]]
        BY <2>7 DEF HandleResumeFinalityProposal
      <3> QED
        BY <3>1, FS_EmptySet DEF CounterMatchesBitmap, TypeOK
    <2>8. CASE HandleLiveness
      <3> SUFFICES ASSUME NEW fp \in FP
                   PROVE  IsFiniteSet(bitmap'[fp]) /\ missed'[fp] = Cardinality(bitmap'[fp])
        BY DEF CounterMatchesBitmap
      <3>1. CASE fp \in Sluggish
        <4>1. bitmap'[fp] = {} /\ missed'[fp] = 0
          BY <2>8, <3>1 DEF HandleLiveness
        <4> QED
          BY <4>1, FS_EmptySet
      <3>2. CASE fp \notin Sluggish
        <4>1. bitmap'[fp] = UpdatedBitmap(fp) /\ missed'[fp] = UpdatedMissed(fp)
          BY <2>8, <3>2 DEF HandleLiveness
        <4> QED
          BY <4>1, ExaminationKeepsCount
      <3> QED
        BY <3>1, <3>2
    <2>9. CASE UNCHANGED vars
      BY <2>1, <2>9 DEF vars, infoVars
    <2> QED
      BY <2>2, <2>3, <2>4, <2>5, <2>6, <2>7, <2>8, <2>9 DEF Next
  <1> QED
    BY <1>1, <1>2, TypeCorrect, PTL DEF Spec

\* The strengthening behind the absence of panics: whoever is jailed, active in
\* a cache, or in a table without having been slashed, has signing info.
SigningInfoInv ==
  /\ \A fp \in jailed : startHeight[fp] # 0
  /\ \A h \in Heights : \A fp \in cacheActive[h] : startHeight[fp] # 0
  /\ \A h \in Heights : \A fp \in entries[h] \ slashed : startHeight[fp] # 0

\* Every step leaves signing info for whoever may be examined.
LEMMA SigningInfoStep == TypeOK /\ SigningInfoInv /\ [Next]_vars => SigningInfoInv'
  <1> SUFFICES ASSUME TypeOK, SigningInfoInv, [Next]_vars PROVE SigningInfoInv'
    OBVIOUS
  <1> USE DEF TypeOK, SigningInfoInv
  <1>1. ASSUME NEW candidates \in SUBSET FP, BeginBlock(candidates)
        PROVE  SigningInfoInv'
    <2> DEFINE actives == ApplyActiveFinalityProviders(candidates, MaxActive)
               newlyActive == actives \ PrevActive
    <2> HIDE DEF actives, newlyActive
    <2>1. /\ entries' = [entries EXCEPT ![height + 1] = actives]
          /\ cacheActive' = [cacheActive EXCEPT ![height + 1] = actives]
          /\ startHeight' = [fp \in FP |-> IF fp \in newlyActive THEN height + 1 ELSE startHeight[fp]]
          /\ UNCHANGED <<jailed, slashed>>
          /\ height + 1 # 0
      BY <1>1 DEF BeginBlock, HandleActivatedFinalityProvider, actives, newlyActive
    <2>2. actives \in SUBSET FP
      BY DEF actives, ApplyActiveFinalityProviders
    <2>3. \A fp \in FP : startHeight[fp] # 0 => startHeight'[fp] # 0
      BY <2>1
    <2>4. \A fp \in actives : startHeight'[fp] # 0
      BY <2>1, <2>2, <2>3 DEF newlyActive, PrevActive, Heights
    <2> QED
      BY <2>1, <2>2, <2>3, <2>4
  <1>2. ASSUME NEW fp \in FP, NEW h \in Heights, AddFinalitySig(fp, h)
        PROVE  SigningInfoInv'
    BY <1>2 DEF AddFinalitySig, blockVars, infoVars
  <1>3. ASSUME NEW fp \in FP, UnjailFinalityProvider(fp)
        PROVE  SigningInfoInv'
    BY <1>3 DEF UnjailFinalityProvider, blockVars, infoVars
  <1>4. ASSUME NEW fp \in Faulty, SlashFinalityProvider(fp)
        PROVE  SigningInfoInv'
    BY <1>4 DEF SlashFinalityProvider, blockVars, infoVars
  <1>5. ASSUME NEW w \in Windows, UpdateParams(w)
        PROVE  SigningInfoInv'
    BY <1>5 DEF UpdateParams, blockVars, infoVars
  <1>6. ASSUME NEW halt \in Heights, NEW listed \in SUBSET FP,
               HandleResumeFinalityProposal(halt, listed)
        PROVE  SigningInfoInv'
    <2> DEFINE affected == halt..height
               toJail == listed \ (jailed \cup slashed)
               promoted == UNION {ActiveWithout(listed, h) \ cacheActive[h] : h \in affected}
    <2> HIDE DEF affected, toJail, promoted
    <2>1. /\ \A fp \in toJail : startHeight[fp] # 0
          /\ jailed' = jailed \cup toJail
          /\ startHeight' = [fp \in FP |-> IF fp \in promoted THEN height ELSE startHeight[fp]]
          /\ slashed' = slashed
      BY <1>6 DEF HandleResumeFinalityProposal, HandleActivatedFinalityProvider, affected, toJail, promoted
    <2>2. /\ entries' = [h \in Heights |-> IF h \in affected THEN entries[h] \cup listed ELSE entries[h]]
          /\ cacheActive' = [h \in Heights |-> IF h \in affected THEN ActiveWithout(listed, h) ELSE cacheActive[h]]
      BY <1>6 DEF HandleResumeFinalityProposal, affected
    <2>3. height # 0
      BY <1>6 DEF HandleResumeFinalityProposal, Heights
    <2>4. \A fp \in FP : startHeight[fp] # 0 => startHeight'[fp] # 0
      BY <2>1, <2>3
    <2>5. \A fp \in promoted \cap FP : startHeight'[fp] # 0
      BY <2>1, <2>3
    <2>6. \A fp \in jailed' : startHeight'[fp] # 0
      BY <2>1, <2>4 DEF toJail
    <2>7. \A h \in Heights : \A fp \in cacheActive'[h] : startHeight'[fp] # 0
      <3> SUFFICES ASSUME NEW h \in Heights, NEW fp \in cacheActive'[h]
                   PROVE  startHeight'[fp] # 0
        OBVIOUS
      <3>1. ActiveWithout(listed, h) \subseteq FP
        BY DEF ActiveWithout, ApplyActiveFinalityProviders
      <3>2. CASE h \in affected
        <4>1. fp \in FP /\ (fp \in cacheActive[h] \/ fp \in promoted)
          BY <2>2, <3>1, <3>2 DEF promoted
        <4> QED
          BY <4>1, <2>4, <2>5
      <3>3. CASE h \notin affected
        BY <2>2, <2>4, <3>3
      <3> QED
        BY <3>2, <3>3
    <2>8. \A h \in Heights : \A fp \in entries'[h] \ slashed' : startHeight'[fp] # 0
      BY <2>1, <2>2, <2>4 DEF toJail
    <2> QED
      BY <2>6, <2>7, <2>8
  <1>7. CASE HandleLiveness
    BY <1>7 DEF HandleLiveness, Sluggish, blockVars
  <1>8. CASE UNCHANGED vars
    BY <1>8 DEF vars, blockVars, infoVars
  <1> QED
    BY <1>1, <1>2, <1>3, <1>4, <1>5, <1>6, <1>7, <1>8 DEF Next

\* HandleLiveness never panics on missing signing info.
THEOREM NeverPanics == Spec => []LivenessNeverPanics
  <1>1. Init => SigningInfoInv
    BY DEF Init, SigningInfoInv
  <1>2. TypeOK /\ SigningInfoInv => LivenessNeverPanics
    BY LivenessAssumption DEF TypeOK, SigningInfoInv, LivenessNeverPanics, Handled, Examined, Heights
  <1> QED
    BY <1>1, <1>2, TypeCorrect, SigningInfoStep, PTL DEF Spec

=============================================================================
