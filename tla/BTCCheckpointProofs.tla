------------------------- MODULE BTCCheckpointProofs -------------------------
(***************************************************************************)
(* Proofs about the light client within BTCCheckpoint, for every Bitcoin   *)
(* tree: its two stores describe one chain (StoreInSync), and the guard of *)
(* x/btcstaking halts the chain before a confirmed block is lost           *)
(* (ReorgGuard).                                                           *)
(***************************************************************************)
EXTENDS BTCCheckpoint, SequenceTheorems, WellFoundedInduction, TLAPS

-----------------------------------------------------------------------------
(* Chains of headers *)

\* A nonempty set of naturals has a least element: induction over the
\* positions of a message rests on this.
LEMMA LeastNatural ==
  ASSUME NEW T \in SUBSET Nat, T # {}
  PROVE  \E x \in T : \A y \in T : x <= y
  <1> DEFINE R == OpToRel(<, Nat)
  <1>1. PICK x \in T : \A y \in T : <<y, x>> \notin R
    <2>1. IsWellFoundedOn(R, Nat)
      BY NatLessThanWellFounded
    <2> HIDE DEF R
    <2> QED
      BY <2>1, WFMin
  <1>2. \A y \in T : ~(y < x)
    BY <1>1 DEF OpToRel
  <1> QED
    BY <1>2

\* The headers of a message have consecutive heights.
LEMMA ChainHeights ==
  ASSUME NEW s \in Seq(Block), headersFormChain(s), s # <<>>
  PROVE  \A i \in 1..Len(s) : HeightOf[s[i]] = HeightOf[s[1]] + i - 1
  <1> DEFINE T == {i \in 1..Len(s) : HeightOf[s[i]] # HeightOf[s[1]] + i - 1}
  <1>1. SUFFICES ASSUME T # {} PROVE FALSE
    OBVIOUS
  <1>2. \A i \in 1..Len(s) : s[i] \in Block /\ HeightOf[s[i]] \in Nat
    BY LightClientAssumption
  <1>3. PICK m \in T : \A i \in T : m <= i
    <2>1. T \in SUBSET Nat
      OBVIOUS
    <2> HIDE DEF T
    <2> QED
      BY <1>1, <2>1, LeastNatural
  <1>4. m # 1
    BY <1>2, <1>3
  <1>5. m - 1 \in 1..Len(s) /\ m - 1 \notin T
    BY <1>3, <1>4
  <1>6. HeightOf[s[m - 1]] = HeightOf[s[1]] + m - 2
    BY <1>5
  <1>7. s[m] # Base /\ HeightOf[s[m]] = HeightOf[s[m - 1]] + 1
    <2>1. Parent[s[m]] = s[m - 1]
      BY <1>3, <1>4 DEF headersFormChain
    <2> QED
      BY <2>1, <1>2, <1>5, LightClientAssumption
  <1>8. m \in 1..Len(s) /\ HeightOf[s[m]] # HeightOf[s[1]] + m - 1
    BY <1>3
  <1>9. HeightOf[s[1]] \in Nat
    BY <1>2, <1>8
  <1> QED
    BY <1>6, <1>7, <1>8, <1>9

-----------------------------------------------------------------------------
(* The stores *)

\* The main chain has no holes.
ChainInv ==
  /\ LightTypeOK /\ StoreInSync
  /\ \E t \in Nat \ {0} : Stored = 1..t

LEMMA LastOfInterval ==
  ASSUME NEW t \in Nat \ {0}
  PROVE  (CHOOSE h \in 1..t : \A g \in 1..t : g <= h) = t
  <1>1. t \in 1..t /\ \A g \in 1..t : g <= t
    OBVIOUS
  <1>2. \A h \in 1..t : (\A g \in 1..t : g <= h) => h = t
    BY <1>1
  <1> QED
    BY <1>1, <1>2

\* The tip is the highest of the stored heights.
LEMMA TipOfStore ==
  ASSUME LightTypeOK, NEW t \in Nat \ {0}, Stored = 1..t
  PROVE  TipHeight = t /\ t \in Height /\ GetTip = headers[t] /\ headers[t] \in Block
  <1>1. TipHeight = t
    BY LastOfInterval DEF TipHeight
  <1>2. t \in Stored
    OBVIOUS
  <1> QED
    BY <1>1, <1>2 DEF GetTip, Stored, LightTypeOK

\* What insertHeader makes of the stores when a message is put on top of the
\* stored header at height p, above which everything was deleted.
LEMMA Inserted ==
  ASSUME ChainInv, NEW s \in Seq(Block), s # <<>>, headersFormChain(s),
         NEW p \in Stored, Parent[s[1]] = headers[p],
         NEW st, insertHeader(st, s),
         st.h = [h \in Height |-> IF h > p THEN NoBlock ELSE headers[h]],
         st.i = [b \in Block |-> IF \E h \in Stored : h > p /\ headers[h] = b
                                 THEN 0 ELSE hashToHeight[b]]
  PROVE  /\ headers' \in [Height -> Block \cup {NoBlock}]
         /\ hashToHeight' \in [Block -> Height \cup {0}]
         /\ StoreInSync'
         /\ Stored' = 1..(p + Len(s))
         /\ HeightOf[s[Len(s)]] = p + Len(s)
         /\ \A b \in Block : hashToHeight[b] \in 1..p => hashToHeight'[b] = hashToHeight[b]
  <1> DEFINE n == Len(s)
             new == {s[i] : i \in 1..n}
  <1>1. PICK t \in Nat \ {0} : Stored = 1..t
    BY DEF ChainInv
  <1>2. p \in 1..t /\ p \in Height /\ headers[p] \in Block /\ HeightOf[headers[p]] = p
    BY <1>1 DEF ChainInv, LightTypeOK, StoreInSync, Stored
  <1>3. n \in Nat \ {0} /\ \A i \in 1..n : s[i] \in Block
    OBVIOUS
  <1>4. HeightOf[s[1]] = p + 1
    <2>1. s[1] \in Block \ {Base}
      BY <1>2, <1>3, LightClientAssumption
    <2> QED
      BY <1>2, <2>1, LightClientAssumption
  <1>5. \A i \in 1..n : HeightOf[s[i]] = p + i
    BY <1>2, <1>3, <1>4, ChainHeights
  <1>6. Height \subseteq Nat \ {0} /\ NoBlock \notin Block
    BY LightClientAssumption DEF Height
  <1>7. \A i \in 1..n : p + i \in Height
    BY <1>3, <1>5 DEF Height
  <1> HIDE DEF n
  <1>8. ASSUME NEW h \in Height
        PROVE  headers'[h] = IF h \in (p + 1)..(p + n) THEN s[h - p]
                             ELSE IF h > p THEN NoBlock ELSE headers[h]
    <2>1. headers'[h] = IF \E b \in new : HeightOf[b] = h
                        THEN CHOOSE b \in new : HeightOf[b] = h ELSE st.h[h]
      BY DEF insertHeader, n
    <2>2. CASE h \in (p + 1)..(p + n)
      <3>1. h - p \in 1..n /\ HeightOf[s[h - p]] = h
        BY <1>2, <1>3, <1>5, <2>2
      <3>2. ASSUME NEW b \in new, HeightOf[b] = h PROVE b = s[h - p]
        <4>1. PICK i \in 1..n : b = s[i]
          OBVIOUS
        <4>2. i = h - p
          BY <1>2, <1>3, <1>5, <3>2, <4>1
        <4> QED
          BY <4>1, <4>2
      <3> QED
        BY <2>1, <2>2, <3>1, <3>2
    <2>3. CASE h \notin (p + 1)..(p + n)
      <3>1. ~ \E b \in new : HeightOf[b] = h
        BY <1>2, <1>3, <1>5, <2>3
      <3> QED
        BY <2>1, <2>3, <3>1
    <2> QED
      BY <2>2, <2>3
  <1>9. ASSUME NEW b \in Block
        PROVE  hashToHeight'[b] = IF b \in new THEN HeightOf[b]
                                  ELSE IF hashToHeight[b] > p THEN 0 ELSE hashToHeight[b]
    <2>1. (\E h \in Stored : h > p /\ headers[h] = b) <=> hashToHeight[b] > p
      BY <1>2, <1>6 DEF ChainInv, StoreInSync, LightTypeOK, Stored
    <2> QED
      BY <2>1 DEF insertHeader, n
  <1>10. \A b \in new : b \in Block /\ \E i \in 1..n : b = s[i] /\ HeightOf[b] = p + i
    BY <1>3, <1>5
  <1> HIDE DEF new
  <1>11. headers' \in [Height -> Block \cup {NoBlock}]
    <2>1. \A h \in Height : headers'[h] \in Block \cup {NoBlock}
      BY <1>2, <1>3, <1>6, <1>8 DEF ChainInv, LightTypeOK
    <2> QED
      BY <2>1 DEF insertHeader
  <1>12. hashToHeight' \in [Block -> Height \cup {0}]
    <2>1. \A b \in Block : hashToHeight'[b] \in Height \cup {0}
      BY <1>9 DEF ChainInv, LightTypeOK, Height
    <2> QED
      BY <2>1 DEF insertHeader
  <1>13. ASSUME NEW b \in Block, NEW h \in Height
         PROVE  headers'[h] = b <=> hashToHeight'[b] = h
    <2>1. headers[h] = b <=> hashToHeight[b] = h
      BY DEF ChainInv, StoreInSync
    <2>2. hashToHeight[b] \in Nat
      <3>1. hashToHeight[b] \in Height \cup {0}
        BY DEF ChainInv, LightTypeOK
      <3> QED
        BY <1>6, <3>1
    <2>3. headers[h] = b => HeightOf[b] = h
      BY <1>6 DEF ChainInv, StoreInSync, Stored
    <2>4. CASE h \in (p + 1)..(p + n)
      <3>1. headers'[h] = s[h - p] /\ h - p \in 1..n
        BY <1>2, <1>3, <1>8, <2>4
      <3>2. s[h - p] \in new /\ HeightOf[s[h - p]] = h
        BY <1>2, <1>3, <1>5, <3>1 DEF new
      <3>3. ASSUME hashToHeight'[b] = h PROVE b = s[h - p]
        <4>1. b \in new
          BY <1>2, <1>9, <2>2, <2>4, <3>3
        <4>2. PICK i \in 1..n : b = s[i] /\ HeightOf[b] = p + i
          BY <1>10, <4>1
        <4>3. i = h - p
          BY <1>2, <1>9, <3>3, <4>1, <4>2
        <4> QED
          BY <4>2, <4>3
      <3> QED
        BY <1>9, <3>1, <3>2, <3>3
    <2>5. CASE h > p + n
      <3>1. headers'[h] # b
        BY <1>2, <1>3, <1>6, <1>8, <2>5
      <3>2. hashToHeight'[b] # h
        BY <1>2, <1>3, <1>9, <1>10, <2>2, <2>5
      <3> QED
        BY <3>1, <3>2
    <2>6. CASE h <= p
      <3>1. headers'[h] = headers[h]
        BY <1>2, <1>3, <1>6, <1>8, <2>6
      <3>2. b \in new => HeightOf[b] > p
        BY <1>2, <1>10
      <3> QED
        BY <1>2, <1>6, <1>9, <2>1, <2>2, <2>3, <2>6, <3>1, <3>2
    <2> QED
      BY <1>2, <1>3, <1>6, <2>4, <2>5, <2>6
  <1>14. Stored' = 1..(p + n)
    <2>1. \A h \in 1..p : h \in Height /\ headers[h] # NoBlock
      BY <1>1, <1>2 DEF Stored
    <2>2. \A h \in (p + 1)..(p + n) : h - p \in 1..n /\ h \in Height /\ s[h - p] # NoBlock
      <3> TAKE h \in (p + 1)..(p + n)
      <3>1. h - p \in 1..n /\ p + (h - p) = h
        BY <1>2, <1>3
      <3> QED
        BY <1>3, <1>6, <1>7, <3>1
    <2>3. \A h \in Height : headers'[h] # NoBlock <=> h \in 1..(p + n)
      BY <1>2, <1>3, <1>6, <1>8, <2>1, <2>2
    <2>4. \A h \in 1..(p + n) : h \in Height
      BY <1>2, <1>3, <2>1, <2>2
    <2> QED
      BY <2>3, <2>4 DEF Stored
  <1>15. \A h \in Stored' : h = HeightOf[headers'[h]]
    <2> SUFFICES ASSUME NEW h \in 1..(p + n) PROVE h = HeightOf[headers'[h]]
      BY <1>14
    <2>1. h \in Height
      BY <1>14 DEF Stored
    <2>2. CASE h <= p
      <3>1. headers'[h] = headers[h] /\ h \in Stored
        BY <1>1, <1>2, <1>3, <1>8, <2>1, <2>2
      <3> QED
        BY <3>1 DEF ChainInv, StoreInSync
    <2>3. CASE h > p
      <3>1. h - p \in 1..n /\ headers'[h] = s[h - p]
        BY <1>2, <1>3, <1>8, <2>1, <2>3
      <3> QED
        BY <1>2, <1>5, <3>1
    <2> QED
      BY <1>2, <2>2, <2>3
  <1>16. ASSUME NEW h \in Stored' \ {1}
         PROVE  h - 1 \in Stored' /\ Parent[headers'[h]] = headers'[h - 1]
    <2>1. h \in 2..(p + n) /\ h \in Height /\ h - 1 \in Stored' /\ h - 1 \in Height
      <3>1. h \in 2..(p + n) /\ h - 1 \in 1..(p + n)
        BY <1>2, <1>3, <1>14
      <3>2. h \in Stored' /\ h - 1 \in Stored'
        BY <1>14, <3>1
      <3>3. Stored' \subseteq Height
        BY DEF Stored
      <3> QED
        BY <3>1, <3>2, <3>3
    <2>2. CASE h <= p
      <3>1. headers'[h] = headers[h] /\ headers'[h - 1] = headers[h - 1]
        BY <1>2, <1>3, <1>8, <2>1, <2>2
      <3>2. h \in Stored \ {1}
        BY <1>1, <1>2, <2>1, <2>2
      <3> QED
        BY <2>1, <3>1, <3>2 DEF ChainInv, StoreInSync
    <2>3. CASE h = p + 1
      BY <1>2, <1>3, <1>8, <2>1, <2>3
    <2>4. CASE h > p + 1
      <3>1. h - p \in 2..n /\ headers'[h] = s[h - p] /\ headers'[h - 1] = s[(h - p) - 1]
        <4>1. h - p \in 2..n /\ h \in (p + 1)..(p + n) /\ h - 1 \in (p + 1)..(p + n)
          BY <1>2, <1>3, <2>1, <2>4
        <4>2. (h - 1) - p = (h - p) - 1
          BY <1>2, <2>1
        <4> QED
          BY <1>8, <2>1, <4>1, <4>2
      <3> QED
        BY <2>1, <3>1 DEF headersFormChain, n
    <2> QED
      BY <1>2, <2>1, <2>2, <2>3, <2>4
  <1>17. headers'[1] = Base
    <2>1. 1 \in Height /\ headers[1] = Base
      BY LightClientAssumption DEF Height, ChainInv, StoreInSync
    <2> QED
      BY <1>2, <1>3, <1>8, <2>1
  <1>18. StoreInSync'
    BY <1>13, <1>15, <1>16, <1>17 DEF StoreInSync
  <1>19. \A b \in Block : hashToHeight[b] \in 1..p => hashToHeight'[b] = hashToHeight[b]
    <2> SUFFICES ASSUME NEW b \in Block, hashToHeight[b] \in 1..p
                 PROVE  hashToHeight'[b] = hashToHeight[b]
      OBVIOUS
    <2>1. hashToHeight[b] \in Height /\ headers[hashToHeight[b]] = b
      BY <1>1, <1>2 DEF ChainInv, StoreInSync, Stored
    <2>2. HeightOf[b] = hashToHeight[b]
      <3>1. hashToHeight[b] \in Stored
        BY <1>6, <2>1 DEF Stored
      <3> QED
        BY <2>1, <3>1 DEF ChainInv, StoreInSync
    <2>3. b \notin new
      BY <1>2, <1>10, <2>2
    <2> QED
      BY <1>2, <1>9, <2>3
  <1>20. HeightOf[s[n]] = p + n
    BY <1>3, <1>5
  <1> QED
    BY <1>11, <1>12, <1>14, <1>18, <1>19, <1>20 DEF n

-----------------------------------------------------------------------------
(* The guard *)

\* The chain is halted, or the largest reorg belongs to this block or is
\* small.  In the latter case confirmed blocks are still buried.
GuardInv ==
  /\ blockReorg <= largestReorg
  /\ ~halted /\ ~redefined => largestReorg < depth \/ blockReorg = largestReorg
  /\ ~halted /\ ~redefined /\ ~dipped /\ largestReorg < depth =>
        \A b \in confirmed : HeaderExists(b) /\ hashToHeight[b] + depth <= TipHeight

LightInv == ChainInv /\ GuardInv

\* A halt for another reason than a reorg: a panic of an earlier EndBlocker.
Stop ==
  /\ halted' = TRUE
  /\ UNCHANGED <<store, depth, largestReorg, history>>

LEMMA InitLight == LightInit => LightInv
  <1> SUFFICES ASSUME LightInit PROVE LightInv
    OBVIOUS
  <1>1. 1 \in Height /\ Height \subseteq Nat \ {0} /\ Depths \subseteq Nat \ {0}
    BY LightClientAssumption DEF Height
  <1>2. LightTypeOK
    BY <1>1, LightClientAssumption DEF LightInit, LightTypeOK
  <1>3. Stored = 1..1
    BY <1>1, LightClientAssumption DEF LightInit, Stored
  <1>4. StoreInSync
    <2>1. \A b \in Block, h \in Height : headers[h] = b <=> hashToHeight[b] = h
      BY <1>1, LightClientAssumption DEF LightInit
    <2>2. headers[1] = Base /\ HeightOf[Base] = 1
      BY <1>1, LightClientAssumption DEF LightInit
    <2> QED
      BY <1>3, <2>1, <2>2 DEF StoreInSync
  <1>5. GuardInv
    BY <1>1 DEF LightInit, GuardInv
  <1> QED
    BY <1>2, <1>3, <1>4, <1>5 DEF LightInv, ChainInv

\* A message that extends the tip or starts a heavier fork puts its headers on
\* the stored header at height p.
LEMMA InsertOnStored ==
  ASSUME ChainInv, NEW s \in Message, InsertHeaders(s)
  PROVE  \E p \in Stored :
            /\ ChainInv'
            /\ Stored' = 1..(p + Len(s))
            /\ HeightOf[s[Len(s)]] = p + Len(s)
            /\ \A b \in Block : hashToHeight[b] \in 1..p => hashToHeight'[b] = hashToHeight[b]
            /\ \/ p = TipHeight /\ UNCHANGED <<largestReorg, blockReorg>>
               \/ /\ largestReorg' = SetLargestBtcReorg(TipHeight - p)
                  /\ blockReorg' = IF TipHeight - p > blockReorg THEN TipHeight - p ELSE blockReorg
  <1>1. s \in Seq(Block) /\ s # <<>> /\ headersFormChain(s)
    <2>1. s \in Seq(Block) /\ headersFormChain(s)
      BY DEF Message, InsertHeaders
    <2>2. PICK k \in (1..MaxHeaders) \X Block : s = [i \in 1..k[1] |-> Ancestor[k[1] - i][k[2]]]
      BY DEF Message
    <2>3. 1 \in DOMAIN s
      BY <2>2, LightClientAssumption
    <2> QED
      BY <2>1, <2>3
  <1>2. PICK t \in Nat \ {0} : Stored = 1..t
    BY DEF ChainInv
  <1>3. TipHeight = t /\ t \in Height /\ GetTip = headers[t] /\ headers[t] \in Block
    BY <1>2, TipOfStore DEF ChainInv
  <1>4. Height \subseteq Nat \ {0} /\ NoBlock \notin Block
    BY LightClientAssumption DEF Height
  <1>5. CASE ExtendsTip(s)
    <2> DEFINE st == [h |-> headers, i |-> hashToHeight]
    <2>1. t \in Stored /\ Parent[s[1]] = headers[t]
      BY <1>2, <1>3, <1>5 DEF ExtendsTip
    <2>2. insertHeader(st, s) /\ UNCHANGED <<largestReorg, blockReorg>>
      BY <1>5 DEF InsertHeaders
    <2>3. \A h \in Height : h > t => headers[h] = NoBlock
      BY <1>2, <1>4 DEF Stored
    <2>4. st.h = [h \in Height |-> IF h > t THEN NoBlock ELSE headers[h]]
      BY <2>3 DEF ChainInv, LightTypeOK
    <2>5. st.i = [b \in Block |-> IF \E h \in Stored : h > t /\ headers[h] = b
                                  THEN 0 ELSE hashToHeight[b]]
      BY <1>2 DEF ChainInv, LightTypeOK
    <2> HIDE DEF st
    <2>6. /\ headers' \in [Height -> Block \cup {NoBlock}]
          /\ hashToHeight' \in [Block -> Height \cup {0}]
          /\ StoreInSync'
          /\ Stored' = 1..(t + Len(s))
          /\ HeightOf[s[Len(s)]] = t + Len(s)
          /\ \A b \in Block : hashToHeight[b] \in 1..t => hashToHeight'[b] = hashToHeight[b]
      BY <1>1, <2>1, <2>2, <2>4, <2>5, Inserted
    <2>7. ChainInv'
      <3>1. LightTypeOK'
        BY <1>3, <2>2, <2>6 DEF ChainInv, LightTypeOK, InsertHeaders
      <3>2. t + Len(s) \in Nat \ {0}
        BY <1>1
      <3> QED
        BY <2>6, <3>1, <3>2 DEF ChainInv
    <2> QED
      BY <1>3, <2>1, <2>2, <2>6, <2>7
  <1>6. CASE ~ExtendsTip(s)
    <2> DEFINE q == Parent[s[1]]
               p == hashToHeight[q]
               st == rollBackHeadersUpTo(p)
    <2>1. q \in Block /\ p # 0
      BY <1>6 DEF InsertHeaders, IsBetterFork, HeaderExists
    <2>2. p \in Height /\ headers[p] = q
      BY <2>1 DEF ChainInv, StoreInSync, LightTypeOK
    <2>3. p \in Stored /\ p \in 1..t
      BY <1>2, <1>4, <2>1, <2>2 DEF Stored
    <2>4. HeightOf[GetHeaderByHash(q)] = p
      BY <2>2, <2>3 DEF GetHeaderByHash, ChainInv, StoreInSync
    <2>5. /\ insertHeader(st, s)
          /\ largestReorg' = SetLargestBtcReorg(TipHeight - p)
          /\ blockReorg' = IF TipHeight - p > blockReorg THEN TipHeight - p ELSE blockReorg
      BY <1>6, <2>4 DEF InsertHeaders
    <2>6. /\ st.h = [h \in Height |-> IF h > p THEN NoBlock ELSE headers[h]]
          /\ st.i = [b \in Block |-> IF \E h \in Stored : h > p /\ headers[h] = b
                                     THEN 0 ELSE hashToHeight[b]]
      BY DEF rollBackHeadersUpTo
    <2> HIDE DEF st, p
    <2>7. /\ headers' \in [Height -> Block \cup {NoBlock}]
          /\ hashToHeight' \in [Block -> Height \cup {0}]
          /\ StoreInSync'
          /\ Stored' = 1..(p + Len(s))
          /\ HeightOf[s[Len(s)]] = p + Len(s)
          /\ \A b \in Block : hashToHeight[b] \in 1..p => hashToHeight'[b] = hashToHeight[b]
      BY <1>1, <2>2, <2>3, <2>5, <2>6, Inserted
    <2>8. ChainInv'
      <3>1. largestReorg' \in Nat /\ blockReorg' \in Nat
        BY <1>3, <2>3, <2>5 DEF ChainInv, LightTypeOK, SetLargestBtcReorg
      <3>2. LightTypeOK'
        BY <2>7, <3>1 DEF ChainInv, LightTypeOK, InsertHeaders
      <3>3. p + Len(s) \in Nat \ {0}
        BY <1>1, <2>3
      <3> QED
        BY <2>7, <3>2, <3>3 DEF ChainInv
    <2> QED
      BY <2>3, <2>5, <2>7, <2>8
  <1> QED
    BY <1>5, <1>6

\* Every step of the light client preserves the invariant.
LEMMA StepLight ==
  ASSUME LightInv,
         \/ \E s \in Message : InsertHeaders(s)
         \/ LightEndBlock
         \/ \E d \in Depths : UpdateDepth(d)
         \/ Stop
         \/ UNCHANGED lightVars
  PROVE  LightInv'
  <1>1. PICK t \in Nat \ {0} : Stored = 1..t
    BY DEF LightInv, ChainInv
  <1>2. TipHeight = t
    BY <1>1, TipOfStore DEF LightInv, ChainInv
  <1>3. Depths \subseteq Nat \ {0} /\ Height \subseteq Nat \ {0}
    BY LightClientAssumption DEF Height
  <1>4. ASSUME UNCHANGED store, LightTypeOK' PROVE ChainInv'
    BY <1>4 DEF LightInv, ChainInv, StoreInSync, Stored, store
  <1>5. ASSUME UNCHANGED store
        PROVE  TipHeight' = TipHeight /\ \A b : HeaderExists(b)' <=> HeaderExists(b)
    BY <1>5 DEF TipHeight, Stored, HeaderExists, store
  <1>6. ASSUME NEW s \in Message, InsertHeaders(s) PROVE LightInv'
    <2>1. PICK p \in Stored :
            /\ ChainInv'
            /\ Stored' = 1..(p + Len(s))
            /\ HeightOf[s[Len(s)]] = p + Len(s)
            /\ \A b \in Block : hashToHeight[b] \in 1..p => hashToHeight'[b] = hashToHeight[b]
            /\ \/ p = TipHeight /\ UNCHANGED <<largestReorg, blockReorg>>
               \/ /\ largestReorg' = SetLargestBtcReorg(TipHeight - p)
                  /\ blockReorg' = IF TipHeight - p > blockReorg THEN TipHeight - p ELSE blockReorg
      BY <1>6, InsertOnStored DEF LightInv
    <2>2. s \in Seq(Block) /\ Len(s) \in Nat
      BY DEF Message
    <2>3. p \in 1..t /\ p + Len(s) \in Nat \ {0}
      BY <1>1, <2>2
    <2>4. TipHeight' = p + Len(s)
      BY <2>1, <2>3, LastOfInterval DEF TipHeight
    <2>5. /\ depth \in Nat /\ largestReorg \in Nat /\ blockReorg \in Nat
          /\ blockReorg <= largestReorg
          /\ hashToHeight \in [Block -> Height \cup {0}]
          /\ confirmed \subseteq Block
      BY <1>3 DEF LightInv, ChainInv, GuardInv, LightTypeOK
    <2>6. /\ UNCHANGED <<depth, halted, confirmed, redefined>>
          /\ dipped' = (dipped \/ p + Len(s) < t)
      BY <1>2, <1>6, <2>1 DEF InsertHeaders
    <2>7. /\ blockReorg' <= largestReorg' /\ largestReorg <= largestReorg'
          /\ p = t \/ t - p <= largestReorg'
      BY <1>2, <2>1, <2>3, <2>5 DEF SetLargestBtcReorg
    <2>8. ASSUME ~halted', ~redefined'
          PROVE  largestReorg' < depth' \/ blockReorg' = largestReorg'
      <3>1. largestReorg < depth \/ blockReorg = largestReorg
        BY <2>6, <2>8 DEF LightInv, GuardInv
      <3>2. CASE UNCHANGED <<largestReorg, blockReorg>>
        BY <2>6, <3>1, <3>2
      <3>3. CASE /\ largestReorg' = SetLargestBtcReorg(TipHeight - p)
                 /\ blockReorg' = IF TipHeight - p > blockReorg THEN TipHeight - p ELSE blockReorg
        BY <1>2, <2>3, <2>5, <2>6, <3>1, <3>3 DEF SetLargestBtcReorg
      <3> QED
        BY <2>1, <3>2, <3>3
    <2>9. ASSUME ~halted', ~redefined', ~dipped', largestReorg' < depth', NEW b \in confirmed'
          PROVE  HeaderExists(b)' /\ hashToHeight'[b] + depth' <= TipHeight'
      <3>1. b \in Block /\ hashToHeight[b] # 0 /\ hashToHeight[b] + depth <= t
        <4>1. largestReorg < depth
          BY <2>5, <2>6, <2>7, <2>9, <2>1 DEF ChainInv, LightTypeOK
        <4> QED
          BY <1>2, <2>5, <2>6, <2>9, <4>1 DEF LightInv, GuardInv, HeaderExists
      <3>2. hashToHeight[b] \in Nat \ {0} /\ largestReorg' \in Nat
        BY <1>3, <2>1, <2>5, <3>1 DEF ChainInv, LightTypeOK
      <3>3. hashToHeight[b] \in 1..p
        BY <2>3, <2>5, <2>6, <2>7, <2>9, <3>1, <3>2
      <3>4. hashToHeight'[b] = hashToHeight[b]
        BY <2>1, <3>1, <3>3
      <3>5. p + Len(s) >= t
        <4>1. ~(p + Len(s) < t)
          BY <2>6, <2>9, Zenon
        <4> QED
          BY <2>2, <2>3, <4>1
      <3> QED
        BY <2>2, <2>3, <2>4, <2>5, <2>6, <3>1, <3>2, <3>4, <3>5 DEF HeaderExists
    <2> QED
      BY <2>1, <2>7, <2>8, <2>9 DEF LightInv, GuardInv
  <1>7. CASE LightEndBlock
    <2>1. LightTypeOK'
      BY <1>7 DEF LightEndBlock, LightInv, ChainInv, LightTypeOK, store, MainChain, Stored
    <2>2. ~halted /\ UNCHANGED store /\ depth' = depth /\ largestReorg' = largestReorg
      BY <1>7 DEF LightEndBlock
    <2>3. blockReorg' = 0 /\ largestReorg' \in Nat /\ depth \in Nat /\ redefined' = redefined /\ dipped' = dipped
      BY <1>3, <1>7, <2>2 DEF LightEndBlock, LightInv, ChainInv, LightTypeOK
    <2>4. ~halted' => largestReorg < depth
      <3>1. ~halted' => ~(largestReorg >= depth)
        BY <1>7, Zenon DEF LightEndBlock
      <3> QED
        BY <2>2, <2>3, <3>1
    <2>5. ASSUME ~halted', ~redefined', ~dipped', NEW b \in confirmed'
          PROVE  HeaderExists(b) /\ hashToHeight[b] + depth <= TipHeight
      <3>1. CASE b \in confirmed
        BY <2>2, <2>3, <2>4, <2>5, <3>1 DEF LightInv, GuardInv
      <3>2. CASE b \in MainChain /\ MainChainDepth(b) >= depth
        <4>1. PICK h \in Stored : b = headers[h]
          BY <3>2 DEF MainChain
        <4>2. h \in Height /\ b \in Block /\ h \in Nat \ {0}
          BY <1>3, <4>1 DEF Stored, LightInv, ChainInv, LightTypeOK
        <4>3. hashToHeight[b] = h /\ HeightOf[b] = h
          BY <4>1, <4>2 DEF LightInv, ChainInv, StoreInSync
        <4>4. MainChainDepth(b) = t - h
          BY <1>2, <4>1, <4>3 DEF MainChainDepth, GetHeaderByHash
        <4> QED
          BY <1>2, <2>3, <3>2, <4>2, <4>3, <4>4 DEF HeaderExists
      <3> QED
        BY <1>7, <3>1, <3>2 DEF LightEndBlock
    <2>6. GuardInv'
      BY <1>5, <2>2, <2>3, <2>4, <2>5 DEF GuardInv, store
    <2> QED
      BY <1>4, <2>1, <2>2, <2>6 DEF LightInv
  <1>8. ASSUME NEW d \in Depths, UpdateDepth(d) PROVE LightInv'
    <2>1. LightTypeOK'
      BY <1>8 DEF UpdateDepth, LightInv, ChainInv, LightTypeOK, store
    <2>2. GuardInv'
      BY <1>8 DEF UpdateDepth, LightInv, GuardInv
    <2> QED
      BY <1>4, <1>8, <2>1, <2>2 DEF UpdateDepth, LightInv
  <1>9. CASE Stop
    <2>1. LightTypeOK'
      BY <1>9 DEF Stop, LightInv, ChainInv, LightTypeOK, store, history
    <2>2. GuardInv'
      BY <1>9 DEF Stop, LightInv, GuardInv, history
    <2> QED
      BY <1>4, <1>9, <2>1, <2>2 DEF Stop, LightInv
  <1>10. CASE UNCHANGED lightVars
    <2>1. LightTypeOK'
      BY <1>10 DEF LightInv, ChainInv, LightTypeOK, lightVars, store, history
    <2>2. GuardInv'
      BY <1>5, <1>10 DEF LightInv, GuardInv, HeaderExists, lightVars, store, history
    <2> QED
      BY <1>4, <1>10, <2>1, <2>2 DEF LightInv, lightVars
  <1> QED
    BY <1>6, <1>7, <1>8, <1>9, <1>10

\* The blocks of the whole module take steps of the light client.
LEMMA LightInvariant == Spec => []LightInv
  <1>1. Init => LightInv
    BY InitLight DEF Init
  <1>2. LightInv /\ [Next]_vars => LightInv'
    <2> SUFFICES ASSUME LightInv, [Next]_vars PROVE LightInv'
      OBVIOUS
    <2>1. ASSUME NEW s \in Message, InsertBTCHeaders(s) PROVE LightInv'
      BY <2>1, StepLight DEF InsertBTCHeaders
    <2>2. ASSUME NEW d \in Depths, UpdateParams(d) PROVE LightInv'
      BY <2>2, StepLight DEF UpdateParams
    <2>3. ASSUME NEW e \in Epoch, SealEpoch(e) PROVE LightInv'
      BY <2>3, StepLight DEF SealEpoch
    <2>4. ASSUME NEW s \in Sub, InsertBTCSpvProof(s) PROVE LightInv'
      BY <2>4, StepLight DEF InsertBTCSpvProof
    <2>5. CASE EndBlock
      <3>1. LightEndBlock \/ Stop
        BY <2>5 DEF EndBlock, Stop
      <3> QED
        BY <3>1, StepLight
    <2>6. CASE UNCHANGED vars
      BY <2>6, StepLight DEF vars
    <2> QED
      BY <2>1, <2>2, <2>3, <2>4, <2>5, <2>6 DEF Next
  <1> QED
    BY <1>1, <1>2, PTL DEF Spec

\* The comment of GetHeaderByHash, "those should always be in sync": for
\* every Bitcoin tree and any sequence of extensions and rollbacks, both
\* stores describe one linked chain from the base header to the tip.
THEOREM StoresInSync == Spec => []StoreInSync
  <1>1. LightInv => StoreInSync
    BY DEF LightInv, ChainInv
  <1> QED
    BY <1>1, LightInvariant, PTL

\* HaltIfBtcReorgLargerThanConfirmationDepth stops the chain before a block
\* that was once confirmed is missing at the end of a block, and only for a
\* reorg of that block, for every depth and every Bitcoin tree.
THEOREM GuardCorrect == Spec => ReorgGuard
  <1> DEFINE Guarded == LightEndBlock /\ ~redefined =>
                          IF halted' THEN blockReorg >= depth
                          ELSE dipped \/ confirmed \subseteq MainChain
  <1>1. LightInv => Guarded
    <2> SUFFICES ASSUME LightInv, LightEndBlock, ~redefined
                 PROVE  IF halted' THEN blockReorg >= depth
                        ELSE dipped \/ confirmed \subseteq MainChain
      OBVIOUS
    <2>1. ~halted /\ (halted' <=> largestReorg >= depth)
      BY Zenon DEF LightEndBlock
    <2>2. depth \in Nat /\ largestReorg \in Nat /\ blockReorg \in Nat
      BY LightClientAssumption DEF LightInv, ChainInv, LightTypeOK
    <2>3. CASE halted'
      BY <2>1, <2>2, <2>3 DEF LightInv, GuardInv
    <2>4. CASE ~halted'
      <3> SUFFICES ASSUME ~dipped, NEW b \in confirmed PROVE b \in MainChain
        BY <2>4
      <3>1. b \in Block /\ hashToHeight[b] # 0
        BY <2>1, <2>2, <2>4 DEF LightInv, GuardInv, HeaderExists
      <3>2. hashToHeight[b] \in Height /\ headers[hashToHeight[b]] = b
        BY <3>1 DEF LightInv, ChainInv, LightTypeOK, StoreInSync
      <3>3. hashToHeight[b] \in Stored
        BY <3>1, <3>2, LightClientAssumption DEF Stored
      <3> QED
        BY <3>2, <3>3 DEF MainChain
    <2> QED
      BY <2>3, <2>4
  <1> QED
    BY <1>1, LightInvariant, PTL DEF ReorgGuard
=============================================================================
