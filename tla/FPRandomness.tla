--------------------------- MODULE FPRandomness ---------------------------
(***************************************************************************)
(* The randomness commitment loop of the finality provider daemon.  It      *)
(* commits the Merkle root of public randomness for NumPubRand heights to   *)
(* the chain and keeps the inclusion proofs in its own database, where the  *)
(* submission loop looks them up by height.  Randomness is a function of    *)
(* key, chain and height, so a commit is determined by its start height,    *)
(* and a proof by the height and the start height of its tree.              *)
(***************************************************************************)
EXTENDS Naturals, FiniteSets

CONSTANTS
  MaxTip,            \* bound: last height of the chain
  Delay,             \* TimestampingDelayBlocks
  NumPubRand,        \* randomness values in a commit
  FirstHeight,       \* finality activation height
  MaxOffset,         \* MaxPubRandCommitOffset of the chain
  MaxCrashes         \* bound: crashes of the daemon and unanswered transactions

ASSUME RandAssumption ==
  /\ MaxTip \in Nat \ {0} /\ Delay \in Nat /\ NumPubRand \in Nat \ {0}
  /\ FirstHeight \in Nat /\ MaxOffset \in Nat
  /\ MaxCrashes \in Nat

VARIABLES
  randTip,    \* height of the chain
  commits,    \* start heights of the commits on the chain
  pending,    \* start heights of commit transactions in the mempool
  proofs,     \* height -> start height of the tree its stored proof is for, 0 when none
  step,       \* of the loop: idle, commit (proofs not yet stored), send, wait, down
  start,      \* start height of the commit in progress
  crashes,    \* bound used up
  late        \* history: a transaction stayed in the mempool when its daemon ended

randVars == <<randTip, commits, pending, proofs, step, start, crashes, late>>

Larger(a, b) == IF a >= b THEN a ELSE b

Horizon == Larger(MaxTip + Delay, FirstHeight) + 3 * NumPubRand
CommitRange(s) == s..(s + NumPubRand - 1)

RandTypeOK ==
  /\ randTip \in 1..MaxTip
  /\ \A s \in commits \cup pending : CommitRange(s) \subseteq 1..Horizon
  /\ proofs \in [1..Horizon -> 0..Horizon]
  /\ step \in {"idle", "commit", "send", "wait", "down"}
  /\ start \in 0..Horizon
  /\ crashes \in 0..MaxCrashes /\ late \in BOOLEAN

RandInit ==
  /\ randTip = 1 /\ commits = {} /\ pending = {}
  /\ proofs = [h \in 1..Horizon |-> 0]
  /\ step = "down" /\ start = 0 /\ crashes = 0 /\ late = FALSE

RandNewBlock ==
  /\ randTip < MaxTip
  /\ randTip' = randTip + 1
  /\ UNCHANGED <<commits, pending, proofs, step, start, crashes, late>>

LastStart == CHOOSE s \in commits : \A t \in commits : t <= s

GetLastCommittedHeight == IF commits = {} THEN 0 ELSE LastStart + NumPubRand - 1

\* Mutation: the loop is content once the randomness reaches the delayed tip.
ShouldCommitLate ==
  /\ step = "idle"
  /\ GetLastCommittedHeight < randTip + Delay
  /\ start' = Larger(randTip + Delay, FirstHeight)
  /\ step' = "commit"
  /\ UNCHANGED <<randTip, commits, pending, proofs, crashes, late>>

\* The loop decides whether to commit, and from where.
ShouldCommit ==
  /\ step = "idle"
  /\ LET last == GetLastCommittedHeight
     IN  \/ /\ last < randTip + Delay
            /\ start' = Larger(randTip + Delay, FirstHeight)
         \/ /\ last >= randTip + Delay /\ last < randTip + Delay + NumPubRand
            /\ start' = Larger(last + 1, FirstHeight)
  /\ step' = "commit"
  /\ UNCHANGED <<randTip, commits, pending, proofs, crashes, late>>

\* Mutation: proofs that are already there are kept.
KeepProofs ==
  /\ step = "commit"
  /\ proofs' = [h \in 1..Horizon |-> IF h \in CommitRange(start) /\ proofs[h] = 0 THEN start ELSE proofs[h]]
  /\ step' = "send"
  /\ UNCHANGED <<randTip, commits, pending, start, crashes, late>>

\* The proofs are stored, over any that are there, before the transaction is sent.
AddPubRandProofList ==
  /\ step = "commit"
  /\ proofs' = [h \in 1..Horizon |-> IF h \in CommitRange(start) THEN start ELSE proofs[h]]
  /\ step' = "send"
  /\ UNCHANGED <<randTip, commits, pending, start, crashes, late>>

SendCommit ==
  /\ step = "send"
  /\ pending' = pending \cup {start}
  /\ step' = "wait"
  /\ UNCHANGED <<randTip, commits, proofs, start, crashes, late>>

\* The chain accepts a commit that starts after the last committed height.
Accepts(s) ==
  /\ s < randTip + MaxOffset /\ s >= FirstHeight
  /\ s > GetLastCommittedHeight

\* A pending transaction is executed; if the loop waits for it, it gets the answer:
\* success, or an error that ends the process.
CommitPubRandList(s) ==
  /\ s \in pending
  /\ pending' = pending \ {s}
  /\ commits' = IF Accepts(s) THEN commits \cup {s} ELSE commits
  /\ IF step = "wait" /\ start = s
     THEN /\ step' = IF Accepts(s) THEN "idle" ELSE "down"
          /\ start' = 0
     ELSE UNCHANGED <<step, start>>
  /\ UNCHANGED <<randTip, proofs, crashes, late>>

\* The daemon crashes, or gets no answer and ends.  Its transaction is dropped from the
\* mempool, or stays there.
RandCrash(stays) ==
  /\ step # "down" /\ crashes < MaxCrashes
  /\ stays => start \in pending
  /\ step' = "down" /\ start' = 0 /\ crashes' = crashes + 1
  /\ pending' = IF stays THEN pending ELSE pending \ {start}
  /\ late' = (late \/ stays)
  /\ UNCHANGED <<randTip, commits, proofs>>

Restart ==
  /\ step = "down"
  /\ step' = "idle"
  /\ UNCHANGED <<randTip, commits, pending, proofs, start, crashes, late>>

Loop == ShouldCommit \/ AddPubRandProofList \/ SendCommit \/ Restart

RandNext ==
  \/ RandNewBlock \/ Loop
  \/ \E stays \in BOOLEAN : RandCrash(stays)
  \/ \E s \in pending : CommitPubRandList(s)

RandSpec == RandInit /\ [][RandNext]_randVars

\* The loop runs whenever the daemon does, the daemon is started again, and the chain
\* executes the transactions in its mempool.
RandFairSpec == RandSpec /\ WF_randVars(Loop) /\ WF_randVars(\E s \in pending : CommitPubRandList(s))

-----------------------------------------------------------------------------
(* Properties *)

\* For every committed height the proof in the database is for the committed tree.
ProofsOfCommits == \A s \in commits : \A h \in CommitRange(s) : proofs[h] = s

\* The same as long as no transaction outlives the daemon that sent it, although a
\* commit that never reached the chain has left its proofs behind.
ProofsMatchCommits == RandTypeOK /\ (~late => ProofsOfCommits)

\* The randomness reaches a whole commit beyond the delayed tip.
Ahead == GetLastCommittedHeight >= randTip + Delay + NumPubRand

\* The loop catches up, whatever crashes happened on the way.
EventuallyAhead == <>[]Ahead

=============================================================================
