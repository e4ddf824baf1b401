------------------------- MODULE FPRandomnessProofs -------------------------
(***************************************************************************)
(* Proof that the stored proofs are those of the committed randomness, for *)
(* every size of a commit, every delay and any number of crashes.          *)
(***************************************************************************)
EXTENDS FPRandomness, TLAPS

Busy == {"commit", "send", "wait"}

\* The types, and what keeps the last committed height defined.
CommitsInv ==
  /\ RandTypeOK
  /\ commits \subseteq Nat /\ pending \subseteq Nat
  /\ commits # {} => \E m \in commits : \A s \in commits : s <= m
  /\ step \in Busy => start >= 1 /\ start + NumPubRand - 1 <= Horizon

\* While no transaction is left over, the only one in the mempool is the one the loop
\* waits for.  A commit in progress starts after everything that is committed, so its
\* proofs replace none that are needed.
ProofsInv ==
  ~late => /\ ProofsOfCommits
           /\ pending = IF step = "wait" THEN {start} ELSE {}
           /\ step \in Busy => start > GetLastCommittedHeight
           /\ step \in {"send", "wait"} => \A h \in CommitRange(start) : proofs[h] = start

RandInv == CommitsInv /\ ProofsInv

-----------------------------------------------------------------------------

LEMMA LastOf ==
  ASSUME NEW C \in SUBSET Nat, NEW m \in C, \A s \in C : s <= m
  PROVE  (CHOOSE s \in C : \A t \in C : t <= s) = m
  <1>1. \A s \in C : (\A t \in C : t <= s) => s = m
    OBVIOUS
  <1> QED
    BY <1>1

\* The last committed height is a number, at least the end of every commit.
LEMMA LastCommitted ==
  ASSUME CommitsInv
  PROVE  /\ GetLastCommittedHeight \in 0..Horizon
         /\ \A s \in commits : s + NumPubRand - 1 <= GetLastCommittedHeight
  <1>1. Horizon \in Nat
    BY RandAssumption DEF Horizon, Larger
  <1>2. CASE commits = {}
    BY <1>1, <1>2 DEF GetLastCommittedHeight
  <1>3. CASE commits # {}
    <2>1. PICK m \in commits : \A s \in commits : s <= m
      BY <1>3 DEF CommitsInv
    <2>2. LastStart = m
      BY <2>1, LastOf DEF CommitsInv, LastStart
    <2>3. GetLastCommittedHeight = m + NumPubRand - 1 /\ commits \subseteq Nat
      BY <1>3, <2>2 DEF GetLastCommittedHeight, CommitsInv
    <2>4. m + NumPubRand - 1 \in CommitRange(m) /\ m \in Nat
      BY <2>3, RandAssumption DEF CommitRange
    <2>5. m + NumPubRand - 1 <= Horizon
      BY <1>1, <2>4 DEF CommitsInv, RandTypeOK
    <2> QED
      BY <1>1, <2>1, <2>3, <2>4, <2>5, RandAssumption
  <1> QED
    BY <1>2, <1>3

LEMMA RandInitInv == RandInit => RandInv
  <1> SUFFICES ASSUME RandInit PROVE RandInv
    OBVIOUS
  <1>1. Horizon \in Nat
    BY RandAssumption DEF Horizon, Larger
  <1>2. RandTypeOK
    <2>1. randTip \in 1..MaxTip /\ start \in 0..Horizon /\ crashes \in 0..MaxCrashes
      BY <1>1, RandAssumption DEF RandInit
    <2>2. proofs \in [1..Horizon -> 0..Horizon]
      BY <1>1 DEF RandInit
    <2> QED
      BY <2>1, <2>2 DEF RandInit, RandTypeOK
  <1>3. CommitsInv
    BY <1>2 DEF RandInit, CommitsInv, Busy
  <1>4. ProofsInv
    BY DEF RandInit, ProofsInv, Busy, ProofsOfCommits
  <1> QED
    BY <1>3, <1>4 DEF RandInv

\* Where a commit starts.
LEMMA StartOfCommit ==
  ASSUME RandInv, ShouldCommit
  PROVE  /\ start' \in 1..Horizon
         /\ start' + NumPubRand - 1 <= Horizon
         /\ start' > GetLastCommittedHeight
  <1>1. GetLastCommittedHeight \in Nat
    BY LastCommitted DEF RandInv
  <1>2. randTip \in 1..MaxTip
    BY DEF RandInv, CommitsInv, RandTypeOK
  <1>3. \/ /\ GetLastCommittedHeight < randTip + Delay
           /\ start' = Larger(randTip + Delay, FirstHeight)
        \/ /\ GetLastCommittedHeight < randTip + Delay + NumPubRand
           /\ start' = Larger(GetLastCommittedHeight + 1, FirstHeight)
    BY DEF ShouldCommit
  <1> HIDE DEF GetLastCommittedHeight
  <1> QED
    BY <1>1, <1>2, <1>3, RandAssumption DEF Larger, Horizon

\* Every step preserves the invariant.
LEMMA RandStepInv == RandInv /\ [RandNext]_randVars => RandInv'
  <1> SUFFICES ASSUME RandInv, [RandNext]_randVars PROVE RandInv'
    OBVIOUS
  <1>1. Horizon \in Nat
    BY RandAssumption DEF Horizon, Larger
  <1>2. ASSUME UNCHANGED commits
        PROVE  GetLastCommittedHeight' = GetLastCommittedHeight
    BY <1>2 DEF GetLastCommittedHeight, LastStart
  <1>3. CASE UNCHANGED randVars
    BY <1>2, <1>3 DEF randVars, RandInv, CommitsInv, ProofsInv, RandTypeOK, ProofsOfCommits
  <1>4. CASE RandNewBlock
    <2>1. randTip' \in 1..MaxTip
      BY <1>4, RandAssumption DEF RandNewBlock, RandInv, CommitsInv, RandTypeOK
    <2>2. CommitsInv'
      BY <1>4, <2>1 DEF RandNewBlock, RandInv, CommitsInv, RandTypeOK
    <2>3. ProofsInv'
      BY <1>2, <1>4 DEF RandNewBlock, RandInv, ProofsInv, ProofsOfCommits
    <2> QED
      BY <2>2, <2>3 DEF RandInv
  <1>5. CASE ShouldCommit
    <2>1. start' \in 1..Horizon /\ start' + NumPubRand - 1 <= Horizon /\ start' > GetLastCommittedHeight
      BY <1>5, StartOfCommit
    <2>2. CommitsInv'
      BY <1>1, <1>5, <2>1 DEF ShouldCommit, RandInv, CommitsInv, RandTypeOK
    <2>3. ProofsInv'
      BY <1>2, <1>5, <2>1 DEF ShouldCommit, RandInv, ProofsInv, ProofsOfCommits, Busy
    <2> QED
      BY <2>2, <2>3 DEF RandInv
  <1>6. CASE AddPubRandProofList
    <2>1. CommitsInv'
      BY <1>1, <1>6 DEF AddPubRandProofList, RandInv, CommitsInv, RandTypeOK, Busy
    <2>2. ASSUME ~late', NEW s \in commits, NEW h \in CommitRange(s) PROVE proofs'[h] = s
      <3>1. proofs[h] = s /\ start > GetLastCommittedHeight /\ h \in 1..Horizon
        BY <1>6, <2>2 DEF AddPubRandProofList, RandInv, ProofsInv, ProofsOfCommits, CommitsInv, RandTypeOK, Busy
      <3>2. h <= GetLastCommittedHeight
        BY <1>1, <3>1, LastCommitted, RandAssumption DEF RandInv, CommitsInv, CommitRange
      <3>3. h \notin CommitRange(start)
        <4>1. GetLastCommittedHeight \in Nat /\ start \in Nat
          <5>1. GetLastCommittedHeight \in 0..Horizon
            BY LastCommitted DEF RandInv
          <5>2. start \in 0..Horizon
            BY DEF RandInv, CommitsInv, RandTypeOK
          <5> QED
            BY <1>1, <5>1, <5>2
        <4> QED
          BY <3>1, <3>2, <4>1, RandAssumption DEF CommitRange
      <3> QED
        BY <1>6, <3>1, <3>3 DEF AddPubRandProofList
    <2>3. \A h \in CommitRange(start) : h \in 1..Horizon /\ proofs'[h] = start
      BY <1>1, <1>6, RandAssumption DEF AddPubRandProofList, CommitRange, RandInv, CommitsInv, RandTypeOK, Busy
    <2>4. ProofsInv'
      BY <1>2, <1>6, <2>2, <2>3 DEF AddPubRandProofList, RandInv, ProofsInv, ProofsOfCommits, Busy
    <2> QED
      BY <2>1, <2>4 DEF RandInv
  <1>7. CASE SendCommit
    <2>1. CommitRange(start) \subseteq 1..Horizon /\ start \in Nat
      BY <1>1, <1>7, RandAssumption DEF SendCommit, CommitRange, RandInv, CommitsInv, RandTypeOK, Busy
    <2>2. CommitsInv'
      BY <1>7, <2>1 DEF SendCommit, RandInv, CommitsInv, RandTypeOK, Busy
    <2>3. ProofsInv'
      BY <1>2, <1>7 DEF SendCommit, RandInv, ProofsInv, ProofsOfCommits, Busy
    <2> QED
      BY <2>2, <2>3 DEF RandInv
  <1>8. CASE Restart
    BY <1>2, <1>8 DEF Restart, RandInv, CommitsInv, ProofsInv, RandTypeOK, ProofsOfCommits, Busy
  <1>9. ASSUME NEW stays \in BOOLEAN, RandCrash(stays) PROVE RandInv'
    <2>1. CommitsInv'
      BY <1>1, <1>9, RandAssumption DEF RandCrash, RandInv, CommitsInv, RandTypeOK, Busy
    <2>2. ProofsInv'
      BY <1>2, <1>9 DEF RandCrash, RandInv, ProofsInv, ProofsOfCommits, Busy
    <2> QED
      BY <2>1, <2>2 DEF RandInv
  <1>10. ASSUME NEW s \in pending, CommitPubRandList(s) PROVE RandInv'
    <2>1. s \in Nat /\ pending' \subseteq pending /\ commits' \in {commits, commits \cup {s}}
      BY <1>10 DEF CommitPubRandList, RandInv, CommitsInv
    <2>2. RandTypeOK' /\ commits' \subseteq Nat /\ pending' \subseteq Nat
      BY <1>1, <1>10, <2>1 DEF CommitPubRandList, RandInv, CommitsInv, RandTypeOK
    <2>3. ASSUME Accepts(s) PROVE \A t \in commits : t <= s
      <3>1. s > GetLastCommittedHeight /\ commits \subseteq Nat
        BY <2>3 DEF Accepts, RandInv, CommitsInv
      <3>2. GetLastCommittedHeight \in Nat /\ \A t \in commits : t + NumPubRand - 1 <= GetLastCommittedHeight
        BY LastCommitted DEF RandInv
      <3> HIDE DEF GetLastCommittedHeight
      <3> QED
        BY <2>1, <3>1, <3>2, RandAssumption
    <2>4. commits' # {} => \E m \in commits' : \A t \in commits' : t <= m
      <3>1. CASE Accepts(s)
        BY <1>10, <2>1, <2>3, <3>1 DEF CommitPubRandList
      <3>2. CASE ~Accepts(s)
        BY <1>10, <3>2 DEF CommitPubRandList, RandInv, CommitsInv
      <3> QED
        BY <3>1, <3>2
    <2>5. step' \in Busy => step \in Busy /\ start' = start
      BY <1>10 DEF CommitPubRandList, Busy
    <2>6. CommitsInv'
      BY <2>2, <2>4, <2>5 DEF RandInv, CommitsInv
    <2>7. ASSUME ~late PROVE s = start /\ step = "wait" /\ pending = {start}
      BY <2>7 DEF RandInv, ProofsInv
    <2>8. ASSUME ~late PROVE step' \notin Busy /\ pending' = {} /\ ProofsOfCommits'
      <3>1. step' \notin Busy /\ pending' = {} /\ proofs' = proofs
        BY <1>10, <2>7, <2>8 DEF CommitPubRandList, Busy
      <3>2. \A t \in commits \cup {s} : \A h \in CommitRange(t) : proofs[h] = t
        BY <2>7, <2>8 DEF RandInv, ProofsInv, ProofsOfCommits
      <3> QED
        BY <2>1, <3>1, <3>2 DEF ProofsOfCommits
    <2>9. ProofsInv'
      BY <1>10, <2>8 DEF CommitPubRandList, ProofsInv, Busy
    <2> QED
      BY <2>6, <2>9 DEF RandInv
  <1> QED
    BY <1>3, <1>4, <1>5, <1>6, <1>7, <1>8, <1>9, <1>10 DEF RandNext, Loop

\* The proofs in the database of the daemon are those of the randomness on the chain,
\* although AddPubRandProofList overwrites proofs before the commit is accepted and
\* crashes leave proofs of commits that never reached the chain.
THEOREM ProofsCorrect == RandSpec => []ProofsMatchCommits
  <1>1. RandInv => ProofsMatchCommits
    BY DEF RandInv, CommitsInv, ProofsInv, ProofsMatchCommits
  <1> QED
    BY <1>1, RandInitInv, RandStepInv, PTL DEF RandSpec
=============================================================================
