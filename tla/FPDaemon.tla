----------------------------- MODULE FPDaemon -----------------------------
(***************************************************************************)
(* The finality provider daemon (fpd): the chain poller, the loop that      *)
(* signs and submits finality votes in batches, the unjail request, and     *)
(* what they keep on disk, against the part of the chain they talk to.      *)
(*                                                                         *)
(* A block is its height.  The EOTS manager is the one of EOTSManager: on   *)
(* one chain without forks it signs whatever heights it is given once.      *)
(* Public randomness is committed for every height; which height's          *)
(* randomness a vote carries is kept.  The process ends (Fatal) on a        *)
(* critical error and is started again.                                     *)
(***************************************************************************)
EXTENDS Naturals, Sequences, FiniteSets, SequencesExt

CONSTANTS
  MaxHeight,         \* bound: last block of the chain
  ActivationHeight,  \* first height that is voted for
  PollSize,          \* blocks fetched in one poll
  ChanSize,          \* capacity of the poller's block channel
  BatchSize,         \* BatchSubmissionSize
  MaxRetries,        \* MaxSubmissionRetries
  PowerGaps,         \* the finality provider may be out of the active set for some blocks
  MaxJails,          \* bound: times the chain jails the finality provider
  CanSlash,          \* the chain may slash the finality provider
  MaxFaults          \* bound: crashes, lost transactions or answers, full-channel timeouts

ASSUME FPDAssumption ==
  /\ MaxHeight \in Nat /\ ActivationHeight \in 1..MaxHeight
  /\ PollSize \in Nat \ {0} /\ ChanSize \in Nat \ {0} /\ BatchSize \in Nat \ {0}
  /\ MaxRetries \in Nat /\ MaxJails \in Nat /\ MaxFaults \in Nat
  /\ PowerGaps \in BOOLEAN /\ CanSlash \in BOOLEAN

VARIABLES
  tip, fin, power, fpStatus, voted,          \* chain: height, finalised height, heights with power,
                                             \* the provider's status and its votes
  dbLast, dbStatus,                          \* database of the daemon
  up, memLast, memStatus,                    \* process and its copy of the database
  next, sending, blockChan,                  \* poller: next height, blocks not yet sent, channel
  phase, batch, tries, result,               \* submission loop
  unjailing,                                 \* an unjail transaction went through, status not yet set
  jails, faults                              \* bounds used up

chainVars == <<tip, fin, power, fpStatus, voted>>
dbVars == <<dbLast, dbStatus>>
memVars == <<up, memLast, memStatus>>
pollVars == <<next, sending, blockChan>>
subVars == <<phase, batch, tries, result>>
vars == <<chainVars, dbVars, memVars, pollVars, subVars, unjailing, jails, faults>>

Heights == 1..MaxHeight
Status == {"REGISTERED", "INACTIVE", "ACTIVE", "JAILED", "SLASHED"}

FPDTypeOK ==
  /\ tip \in 1..MaxHeight /\ fin \in 0..tip
  /\ power \subseteq 1..tip /\ voted \subseteq power
  /\ fpStatus \in {"ok", "jailed", "slashed"}
  /\ dbLast \in 0..tip /\ memLast \in 0..tip
  /\ dbStatus \in Status /\ memStatus \in Status
  /\ up \in BOOLEAN /\ unjailing \in BOOLEAN
  /\ next \in 0..(MaxHeight + 1)
  /\ sending \in Seq(Heights) /\ Len(sending) <= PollSize
  /\ blockChan \in Seq(Heights) /\ Len(blockChan) <= ChanSize
  /\ batch \in Seq(Heights) /\ Len(batch) <= BatchSize
  /\ phase \in {"idle", "filter", "send", "result"}
  /\ tries \in 0..MaxRetries
  /\ result \in {"none", "ok", "empty", "invalid", "jailed", "slashed", "error"}
  /\ jails \in 0..MaxJails /\ faults \in 0..MaxFaults

MaxOf(a, b) == IF a >= b THEN a ELSE b

Init ==
  /\ tip = 1 /\ fin = 0 /\ power = {} /\ fpStatus = "ok" /\ voted = {}
  /\ dbLast = 0 /\ dbStatus = "REGISTERED"
  /\ up = FALSE /\ memLast = 0 /\ memStatus = "REGISTERED"
  /\ next = 0 /\ sending = <<>> /\ blockChan = <<>>
  /\ phase = "idle" /\ batch = <<>> /\ tries = 0 /\ result = "none"
  /\ unjailing = FALSE /\ jails = 0 /\ faults = 0

-----------------------------------------------------------------------------
(* The chain *)

\* A jailed or slashed provider has no power in new blocks.
NewBlock(hasPower) ==
  /\ tip < MaxHeight
  /\ hasPower => fpStatus = "ok"
  /\ ~hasPower => fpStatus # "ok" \/ PowerGaps
  /\ tip' = tip + 1
  /\ power' = IF hasPower THEN power \cup {tip + 1} ELSE power
  /\ UNCHANGED <<fin, fpStatus, voted, dbVars, memVars, pollVars, subVars, unjailing, jails, faults>>

\* Blocks are finalised in order, with or without this provider's vote.
Finalize ==
  /\ fin < tip
  /\ fin' = fin + 1
  /\ UNCHANGED <<tip, power, fpStatus, voted, dbVars, memVars, pollVars, subVars, unjailing, jails, faults>>

Jail ==
  /\ fpStatus = "ok" /\ jails < MaxJails
  /\ fpStatus' = "jailed" /\ jails' = jails + 1
  /\ UNCHANGED <<tip, fin, power, voted, dbVars, memVars, pollVars, subVars, unjailing, faults>>

Slash ==
  /\ fpStatus # "slashed" /\ CanSlash
  /\ fpStatus' = "slashed"
  /\ UNCHANGED <<tip, fin, power, voted, dbVars, memVars, pollVars, subVars, unjailing, jails, faults>>

-----------------------------------------------------------------------------
(* The process *)

\* What is in memory when no instance runs.
Down ==
  /\ up' = FALSE /\ memLast' = 0 /\ memStatus' = "REGISTERED"
  /\ next' = 0 /\ sending' = <<>> /\ blockChan' = <<>>
  /\ phase' = "idle" /\ batch' = <<>> /\ tries' = 0 /\ result' = "none"
  /\ unjailing' = FALSE

Crash ==
  /\ up /\ faults < MaxFaults
  /\ faults' = faults + 1
  /\ Down
  /\ UNCHANGED <<chainVars, dbVars, jails>>

\* The status the database is given before an instance is created.
SyncedStatus ==
  CASE tip \in power -> "ACTIVE"
    [] tip \notin power /\ fpStatus = "slashed" -> "SLASHED"
    [] tip \notin power /\ fpStatus = "jailed" -> "JAILED"
    [] OTHER -> "INACTIVE"

HighestVotedHeight == IF voted = {} THEN 0 ELSE CHOOSE h \in voted : \A g \in voted : g <= h

\* Automatic chain scanning.
DetermineStartHeight == MaxOf(MaxOf(MaxOf(dbLast, HighestVotedHeight), fin) + 1, ActivationHeight)

\* The daemon starts, synchronises its status and starts the instance, unless slashed.
Start ==
  /\ ~up
  /\ dbStatus' = SyncedStatus
  /\ IF SyncedStatus = "SLASHED"
     THEN dbStatus # "SLASHED" /\ UNCHANGED <<memVars, pollVars>>
     ELSE /\ up' = TRUE
          /\ memLast' = dbLast /\ memStatus' = SyncedStatus
          /\ next' = DetermineStartHeight
          /\ UNCHANGED <<sending, blockChan>>
  /\ UNCHANGED <<chainVars, dbLast, subVars, unjailing, jails, faults>>

-----------------------------------------------------------------------------
(* The poller *)

\* Mutation: the latest block is left for the next poll.
PollBelowTip ==
  /\ up /\ sending = <<>> /\ next < tip
  /\ sending' = [i \in 1..(IF tip - next < PollSize THEN tip - next ELSE PollSize) |-> next + i - 1]
  /\ UNCHANGED <<chainVars, dbVars, memVars, next, blockChan, subVars, unjailing, jails, faults>>

\* A cycle fetches at most PollSize blocks from the next height on.
tryPollChain ==
  /\ up /\ sending = <<>> /\ next <= tip
  /\ sending' = [i \in 1..(IF tip + 1 - next < PollSize THEN tip + 1 - next ELSE PollSize)
                    |-> next + i - 1]
  /\ UNCHANGED <<chainVars, dbVars, memVars, next, blockChan, subVars, unjailing, jails, faults>>

\* The blocks go into the channel one by one; the next height moves after the last one.
SendBlock ==
  /\ up /\ sending # <<>> /\ Len(blockChan) < ChanSize
  /\ blockChan' = Append(blockChan, Head(sending))
  /\ sending' = Tail(sending)
  /\ next' = IF Len(sending) = 1 THEN Head(sending) + 1 ELSE next
  /\ UNCHANGED <<chainVars, dbVars, memVars, subVars, unjailing, jails, faults>>

\* Mutation: the poller gives up on the blocks it could not send.
SkipUnsent ==
  /\ up /\ sending # <<>> /\ Len(blockChan) = ChanSize /\ faults < MaxFaults
  /\ sending' = <<>>
  /\ next' = Last(sending) + 1
  /\ faults' = faults + 1
  /\ UNCHANGED <<chainVars, dbVars, memVars, blockChan, subVars, unjailing, jails>>

\* The channel stays full for too long: the cycle fails, and the next one fetches all
\* of its blocks again, those already in the channel included.
ChannelFull ==
  /\ up /\ sending # <<>> /\ Len(blockChan) = ChanSize /\ faults < MaxFaults
  /\ sending' = <<>>
  /\ faults' = faults + 1
  /\ UNCHANGED <<chainVars, dbVars, memVars, next, blockChan, subVars, unjailing, jails>>

-----------------------------------------------------------------------------
(* The submission loop *)

TryNextBlock ==
  /\ up /\ phase = "idle" /\ blockChan # <<>> /\ Len(batch) < BatchSize
  /\ batch' = Append(batch, Head(blockChan))
  /\ blockChan' = Tail(blockChan)
  /\ UNCHANGED <<chainVars, dbVars, memVars, next, sending, phase, tries, result, unjailing, jails, faults>>

\* The batch is complete.  The status is read back from the database; a jailed
\* provider's blocks are discarded.
TakeBatch ==
  /\ up /\ phase = "idle" /\ batch # <<>>
  /\ blockChan = <<>> \/ Len(batch) = BatchSize
  /\ memStatus' = dbStatus
  /\ IF dbStatus = "JAILED"
     THEN batch' = <<>> /\ UNCHANGED phase
     ELSE phase' = "filter" /\ UNCHANGED batch
  /\ UNCHANGED <<chainVars, dbVars, up, memLast, pollVars, tries, result, unjailing, jails, faults>>

\* The local status after the power at the last queried height is known.
StatusFromPower(hasPower) ==
  CASE hasPower -> "ACTIVE"
    [] ~hasPower /\ memStatus = "ACTIVE" -> "INACTIVE"
    [] OTHER -> memStatus

\* Blocks at or below the last voted height are dropped without a query, blocks
\* without power after it; the last answer decides the local status.
FilterBlocksForVoting ==
  /\ up /\ phase = "filter"
  /\ LET queried == SelectSeq(batch, LAMBDA h : h > memLast)
         kept == SelectSeq(queried, LAMBDA h : h \in power)
         hasPower == queried # <<>> /\ Last(queried) \in power
         status == StatusFromPower(hasPower)
     IN  /\ memStatus' = status
         /\ dbStatus' = IF status # memStatus THEN status ELSE dbStatus
         /\ batch' = kept
         /\ phase' = IF kept = <<>> THEN "idle" ELSE "send"
  /\ tries' = 0
  /\ UNCHANGED <<chainVars, dbLast, up, memLast, pollVars, result, unjailing, jails, faults>>

\* The height whose randomness and proof the i-th vote of the batch carries: both
\* lists are taken for consecutive heights from the first block on.
RandHeight(i) == batch[1] + i - 1

\* What the chain makes of the batch, sent as one transaction from which messages with
\* an expected error are removed: heights up to "outdated" are no longer accepted (a
\* finalised block of a BTC-timestamped epoch), a vote is stored once.
Fresh(outdated) == {i \in DOMAIN batch : batch[i] > outdated /\ batch[i] \notin voted}

Outcome(outdated) ==
  CASE \E i, j \in DOMAIN batch : i # j /\ batch[i] = batch[j] -> "error"  \* refused by the EOTS manager
    [] OTHER ->
       CASE \A i \in DOMAIN batch : batch[i] <= outdated -> "empty"
         [] OTHER ->
            CASE fpStatus # "ok" -> fpStatus
              [] fpStatus = "ok" /\ Fresh(outdated) = {} -> "empty"
              [] fpStatus = "ok" /\ (\E i \in Fresh(outdated) : RandHeight(i) # batch[i]) -> "invalid"
              [] OTHER -> "ok"

\* One attempt: the answer arrives, or the transaction is lost, or it is executed and
\* only its answer is lost.
submitBatchFinalitySignaturesOnce(executed, answered) ==
  \E outdated \in {0, fin} :
    /\ up /\ phase = "send"
    /\ ~(executed /\ answered) => faults < MaxFaults
    /\ ~executed => ~answered
    /\ faults' = IF executed /\ answered THEN faults ELSE faults + 1
    /\ voted' = IF executed /\ Outcome(outdated) = "ok"
                THEN voted \cup {batch[i] : i \in Fresh(outdated)} ELSE voted
    /\ result' = IF answered THEN Outcome(outdated) ELSE "error"
    /\ phase' = "result"
    /\ UNCHANGED <<tip, fin, power, fpStatus, dbVars, memVars, pollVars, batch, tries, unjailing, jails>>

\* The height on disk only grows.
SetFpLastVotedHeight(h) == MaxOf(dbLast, h)

\* The loop is done with the batch.
Finish == phase' = "idle" /\ batch' = <<>> /\ tries' = 0 /\ result' = "none"

\* The last voted height moves to the last block of the batch.
Submitted ==
  /\ up /\ phase = "result" /\ result = "ok"
  /\ memLast' = Last(batch)
  /\ dbLast' = SetFpLastVotedHeight(Last(batch))
  /\ Finish
  /\ UNCHANGED <<chainVars, dbStatus, up, memStatus, pollVars, unjailing, jails, faults>>

\* Every message was filtered out: nothing is recorded.
NothingSent ==
  /\ up /\ phase = "result" /\ result = "empty"
  /\ Finish
  /\ UNCHANGED <<chainVars, dbVars, memVars, pollVars, unjailing, jails, faults>>

\* A recoverable error: another attempt, unless the last block has been finalised.
Retry ==
  /\ up /\ phase = "result" /\ result \in {"error", "jailed", "slashed"} /\ tries < MaxRetries
  /\ IF Last(batch) <= fin
     THEN Finish
     ELSE phase' = "send" /\ tries' = tries + 1 /\ result' = "none" /\ UNCHANGED batch
  /\ UNCHANGED <<chainVars, dbVars, memVars, pollVars, unjailing, jails, faults>>

\* The attempts are used up, or the error is unrecoverable: a jailed provider keeps
\* running with its status set, a slashed one is removed, anything else ends the process.
GiveUp ==
  /\ up /\ phase = "result"
  /\ result = "invalid" \/ (result \in {"error", "jailed", "slashed"} /\ tries = MaxRetries)
  /\ CASE result = "jailed" ->
            /\ memStatus' = "JAILED" /\ dbStatus' = "JAILED"
            /\ Finish
            /\ UNCHANGED <<up, memLast, pollVars, unjailing>>
       [] result = "slashed" -> dbStatus' = "SLASHED" /\ Down
       [] OTHER -> Down /\ UNCHANGED dbStatus
  /\ UNCHANGED <<chainVars, dbLast, jails, faults>>

-----------------------------------------------------------------------------
(* The unjail request: the transaction, then the status *)

UnjailFinalityProvider ==
  /\ up /\ ~unjailing /\ fpStatus = "jailed"
  /\ fpStatus' = "ok" /\ unjailing' = TRUE
  /\ UNCHANGED <<tip, fin, power, voted, dbVars, memVars, pollVars, subVars, jails, faults>>

UnjailDone ==
  /\ up /\ unjailing
  /\ dbStatus' = "INACTIVE" /\ unjailing' = FALSE
  /\ UNCHANGED <<chainVars, dbLast, memVars, pollVars, subVars, jails, faults>>

-----------------------------------------------------------------------------

Poller == tryPollChain \/ SendBlock
Submitter ==
  \/ TryNextBlock \/ TakeBatch \/ FilterBlocksForVoting
  \/ submitBatchFinalitySignaturesOnce(TRUE, TRUE)
  \/ Submitted \/ NothingSent \/ Retry \/ GiveUp
Faults ==
  \/ Crash \/ ChannelFull
  \/ submitBatchFinalitySignaturesOnce(TRUE, FALSE)
  \/ submitBatchFinalitySignaturesOnce(FALSE, FALSE)

Next ==
  \/ \E p \in BOOLEAN : NewBlock(p)
  \/ Finalize \/ Jail \/ Slash
  \/ Start \/ Poller \/ Submitter \/ Faults
  \/ UnjailFinalityProvider \/ UnjailDone

Spec == Init /\ [][Next]_vars

\* The loops run as long as the process does, it is started again after it ends, and
\* the handler of an unjail request finishes.
FairSpec == Spec /\ WF_vars(Start) /\ WF_vars(Poller) /\ WF_vars(Submitter) /\ WF_vars(UnjailDone)

-----------------------------------------------------------------------------
(* Properties *)

\* The last voted height on disk never claims more than the chain holds: up to it every
\* block with power is voted for or finalised, whatever was lost, retried or crashed,
\* until the provider is jailed; the copy in memory, which decides which blocks are
\* skipped, is the one on disk, although only the latter is kept from decreasing.
\* Nor does a provider vote past a block it has power for, unless that block is
\* finalised: batches are submitted in order, the start height after a crash is chosen
\* from the votes on the chain, and blocks that could not be sent are fetched again.
\* (The blocks discarded while it is jailed are lost.)
VotesWithoutGap ==
  /\ FPDTypeOK
  /\ up => memLast = dbLast
  /\ jails = 0 => \A g \in power : /\ ActivationHeight <= g
                                   /\ g <= dbLast \/ \E h \in voted : g < h
                                   => g \in voted \/ g <= fin

\* Every block with power is eventually voted for or finalised, or the provider loses
\* its good standing.  (There are finitely many blocks, so this may be said of all at once.)
EventuallyVoted ==
  []<>(fpStatus # "ok" \/ \A h \in power : ActivationHeight <= h => h \in voted \/ h <= fin)

\* The same of a provider that is in the active set of every block and never jailed,
\* whatever is lost, retried or crashes.  (Neither can be undone.)
AlwaysActiveVotes ==
  []<>(\/ jails > 0 \/ ~(2..tip \subseteq power) \/ fpStatus # "ok"
       \/ \A h \in power : ActivationHeight <= h => h \in voted \/ h <= fin)

=============================================================================
