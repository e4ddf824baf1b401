--------------------------- MODULE StakingWatcher ---------------------------
(***************************************************************************)
(* The staking event watcher of the vigilante's BTC staking tracker.  One  *)
(* routine learns of delegations, first by a scan of all of them, then     *)
(* from the events of each block of the chain; they are kept in two maps.  *)
(* For a tracked delegation whose staking transaction is on Bitcoin a      *)
(* goroutine sends the inclusion proof; for one whose staking output is    *)
(* spent a goroutine reports the spending transaction.  The chain and      *)
(* Bitcoin are modelled by what these routines can tell apart.             *)
(***************************************************************************)
EXTENDS Integers, FiniteSets

CONSTANTS
    Stakes,       \* delegations
    Expands,      \* Expands[d]: the delegation that d is an expansion of, or NoStake
    NoStake,
    StakeDepth,   \* BtcConfirmationDepth
    StartStatus,  \* functions from Stakes to the statuses they have when the watcher starts
    MaxBTCTip,    \* bound: height of Bitcoin
    MaxCalls      \* bound: calls that fail

ASSUME WatcherAssumption ==
    /\ NoStake \notin Stakes /\ Expands \in [Stakes -> Stakes \cup {NoStake}]
    /\ \A d, e \in Stakes : Expands[d] = Expands[e] => d = e \/ Expands[d] = NoStake
    /\ StartStatus \subseteq [Stakes -> {"PENDING", "VERIFIED", "ACTIVE"}]
    /\ StakeDepth \in Nat /\ MaxBTCTip \in Nat /\ MaxCalls \in Nat

VARIABLES
    delStatus,         \* status of each delegation on the chain
    newBlocks,         \* blocks from currentCometTipHeight on: [n |-> how many (2: or more),
                       \*   mods |-> the delegations that their events name]
    btcTip,            \* height of Bitcoin
    clientTip,         \* height of the chain's BTC light client
    includedAt,        \* height of the block with the staking transaction, 0 if none
    spending,          \* what spends the staking output: [how, at], at = 0 if nothing does
    retrieval,         \* fetchDelegations, then fetchCometBftBlockForever: [scan |-> it is the
                       \*   former, todo |-> delegations to read, took |-> those of the blocks
                       \*   being read, read |-> the one just read]
    unbondingTracker,  \* [start |-> status it was last seen with ("none": absent), inProgress]
    pendingTracker,    \* "none", "idle" or "inProgress"
    spends,            \* goroutines of checkSpend, two at most for a delegation
    activations,       \* goroutine of checkBtcForStakingTx
    calls,             \* calls that failed
    overlooked         \* history: delegations that a failed scan or a torn read missed

bitcoinSide == <<btcTip, includedAt, spending>>
watcherVars == <<delStatus, newBlocks, bitcoinSide, clientTip, retrieval,
                 unbondingTracker, pendingTracker, spends, activations, calls, overlooked>>

Watched == {"VERIFIED", "ACTIVE"}
NoRead == [d |-> NoStake, status |-> "none"]
NoSpend == [pc |-> "none", active |-> FALSE]

(* The scan begins at the block that currentCometTipHeight is set to.      *)
WatcherInit ==
    /\ delStatus \in StartStatus
    /\ newBlocks = [n |-> 1, mods |-> {}]
    /\ btcTip = 1 + StakeDepth /\ clientTip = btcTip
    /\ includedAt = [d \in Stakes |-> IF delStatus[d] = "ACTIVE" THEN 1 ELSE 0]
    /\ spending = [d \in Stakes |-> [how |-> "none", at |-> 0]]
    /\ retrieval = [scan |-> TRUE, todo |-> Stakes, took |-> {}, read |-> NoRead]
    /\ unbondingTracker = [d \in Stakes |-> [start |-> "none", inProgress |-> FALSE]]
    /\ pendingTracker = [d \in Stakes |-> "none"]
    /\ spends = [d \in Stakes |-> [i \in 1..2 |-> NoSpend]]
    /\ activations = [d \in Stakes |-> "none"]
    /\ calls = 0 /\ overlooked = {}

CallFails == calls < MaxCalls /\ calls' = calls + 1

-----------------------------------------------------------------------------
(* Bitcoin and its notifications *)

(* A block confirms staking transactions and transactions that spend a     *)
(* stake: to unbond it or to slash it, by its timelock once it has expired,*)
(* or as the staking transaction of an expansion.                          *)
CanSpend(d, how) ==
    /\ includedAt[d] > 0 /\ spending[d].at = 0
    /\ CASE how = "unbond" -> delStatus[d] \in Watched
         [] how = "expand" -> \E x \in Stakes : Expands[x] = d /\ delStatus[x] = "VERIFIED"
         [] how = "withdraw" -> delStatus[d] = "EXPIRED"

BTCBlock ==
    \E S \in SUBSET {d \in Stakes : includedAt[d] = 0 /\ Expands[d] = NoStake},
       C \in SUBSET {c \in Stakes \X {"unbond", "expand", "withdraw"} : CanSpend(c[1], c[2])} :
        /\ \A b, c \in C : b[1] = c[1] => b = c
        /\ btcTip < MaxBTCTip /\ btcTip' = btcTip + 1
        /\ spending' = [d \in Stakes |->
               IF \E c \in C : c[1] = d THEN [how |-> (CHOOSE c \in C : c[1] = d)[2], at |-> btcTip + 1]
               ELSE spending[d]]
        /\ includedAt' = [d \in Stakes |->
               IF d \in S \/ <<Expands[d], "expand">> \in C THEN btcTip + 1 ELSE includedAt[d]]
        /\ UNCHANGED <<delStatus, newBlocks, clientTip, retrieval,
                       unbondingTracker, pendingTracker, spends, activations, calls, overlooked>>

(* The reporter brings the next header to the chain. *)
InsertHeader ==
    /\ clientTip < btcTip /\ clientTip' = clientTip + 1
    /\ UNCHANGED <<delStatus, newBlocks, bitcoinSide, retrieval,
                   unbondingTracker, pendingTracker, spends, activations, calls, overlooked>>

-----------------------------------------------------------------------------
(* The chain *)

(* A block that changes the status of delegations, named in its events.    *)
ChainBlock(changed) ==
    /\ delStatus' = [d \in Stakes |-> IF d \in DOMAIN changed THEN changed[d] ELSE delStatus[d]]
    /\ newBlocks' = [n |-> IF newBlocks.n < 2 THEN newBlocks.n + 1 ELSE 2,
                     mods |-> newBlocks.mods \cup DOMAIN changed]

KDeep(h) == h > 0 /\ clientTip - h >= StakeDepth

(* Keeper.AddBTCDelegationInclusionProof *)
AcceptsProof(d) == delStatus[d] = "VERIFIED" /\ KDeep(includedAt[d])

(* msgServer.AddBTCDelegationInclusionProof *)
AcceptsActivation(d) == Expands[d] = NoStake /\ AcceptsProof(d)

(* BTCUndelegate: the header of the spending transaction must be known, an *)
(* expansion is activated in the same message.                             *)
ExpansionsBy(d) == {x \in Stakes : Expands[x] = d /\ spending[d].how = "expand"}
AcceptsUnbonding(d) ==
    /\ delStatus[d] \notin {"UNBONDED", "EXPIRED"}
    /\ spending[d].at \in 1..clientTip
    /\ \A x \in ExpansionsBy(d) : AcceptsProof(x)
BTCUndelegate(d) ==
    ChainBlock([x \in {d} \cup ExpansionsBy(d) |-> IF x = d THEN "UNBONDED" ELSE "ACTIVE"])

(* What others do on the chain: covenant members sign, a staker sends the  *)
(* inclusion proof, a stake nears the end of its timelock.                 *)
OthersChange(d) ==
    /\ \/ delStatus[d] = "PENDING" /\ ChainBlock([x \in {d} |-> "VERIFIED"])
       \/ AcceptsActivation(d) /\ ChainBlock([x \in {d} |-> "ACTIVE"])
       \/ delStatus[d] = "ACTIVE" /\ ChainBlock([x \in {d} |-> "EXPIRED"])
    /\ UNCHANGED <<bitcoinSide, clientTip, retrieval,
                   unbondingTracker, pendingTracker, spends, activations, calls, overlooked>>

OtherBlock ==
    /\ newBlocks.n < 2 /\ newBlocks' = [newBlocks EXCEPT !.n = @ + 1]
    /\ UNCHANGED <<delStatus, bitcoinSide, clientTip, retrieval,
                   unbondingTracker, pendingTracker, spends, activations, calls, overlooked>>

-----------------------------------------------------------------------------
(* Learning of delegations.  The scan and the reading of blocks exclude    *)
(* each other (delegationRetrievalInProgress).                             *)

chainSide == <<delStatus, newBlocks, bitcoinSide, clientTip>>
goroutines == <<spends, activations>>

(* BTCDelegation, or an element of a page of DelegationsByStatus *)
ReadDelegation(d) ==
    /\ retrieval.read = NoRead /\ d \in retrieval.todo
    /\ retrieval' = [retrieval EXCEPT !.todo = @ \ {d}, !.read = [d |-> d, status |-> delStatus[d]],
                                      !.took = IF retrieval.todo = {d} THEN {} ELSE @]
    /\ UNCHANGED <<chainSide, unbondingTracker, pendingTracker, goroutines, calls, overlooked>>

(* A delegation of the scan is never marked as an expansion. *)
addToPendingFunc(d) ==
    IF Expands[d] # NoStake /\ ~retrieval.scan THEN pendingTracker
    ELSE [pendingTracker EXCEPT ![d] = IF @ = "none" THEN "idle" ELSE @]

(* An update with another start height replaces the entry.                 *)
addToUnbondingFunc(d, status) ==
    IF unbondingTracker[d].start = status THEN unbondingTracker
    ELSE [unbondingTracker EXCEPT ![d] = [start |-> status, inProgress |-> FALSE]]

TrackDelegation ==
    LET d == retrieval.read.d
        status == retrieval.read.status
    IN  /\ retrieval.read # NoRead
        /\ retrieval' = [retrieval EXCEPT !.read = NoRead]
        /\ pendingTracker' = IF status = "VERIFIED" THEN addToPendingFunc(d) ELSE pendingTracker
        /\ unbondingTracker' = IF status \in Watched THEN addToUnbondingFunc(d, status)
                               ELSE unbondingTracker
        /\ UNCHANGED <<chainSide, goroutines, calls, overlooked>>

(* A failed page of the scan is logged and the scan is over. *)
ScanFails ==
    /\ retrieval.scan /\ retrieval.todo # {} /\ retrieval.read = NoRead /\ CallFails
    /\ retrieval' = [retrieval EXCEPT !.todo = {}]
    /\ overlooked' = overlooked \cup retrieval.todo
    /\ UNCHANGED <<chainSide, unbondingTracker, pendingTracker, goroutines>>

(* fetchCometBftBlockOnce: currentCometTipHeight is one above the last     *)
(* block read, and a single new block is not read yet.  A tick is skipped  *)
(* while the watcher's node is behind the light client (syncedWithAnon).   *)
FetchBlocks ==
    /\ retrieval.todo = {} /\ retrieval.read = NoRead /\ newBlocks.n = 2
    /\ retrieval' = [scan |-> FALSE, todo |-> newBlocks.mods, took |-> newBlocks.mods, read |-> NoRead]
    /\ newBlocks' = [n |-> 0, mods |-> {}]
    /\ UNCHANGED <<delStatus, bitcoinSide, clientTip,
                   unbondingTracker, pendingTracker, goroutines, calls, overlooked>>

(* Mutation: currentCometTipHeight moves on before the blocks are handled. *)
FetchFailsAfterMove ==
    /\ ~retrieval.scan /\ retrieval.todo # {} /\ retrieval.read = NoRead /\ CallFails
    /\ retrieval' = [retrieval EXCEPT !.todo = {}, !.took = {}]
    /\ UNCHANGED <<chainSide, unbondingTracker, pendingTracker, goroutines, overlooked>>

(* currentCometTipHeight is left as it was: the blocks are read again.     *)
FetchFails ==
    /\ ~retrieval.scan /\ retrieval.todo # {} /\ retrieval.read = NoRead /\ CallFails
    /\ retrieval' = [retrieval EXCEPT !.todo = {}, !.took = {}]
    /\ newBlocks' = [n |-> 2, mods |-> newBlocks.mods \cup retrieval.took]
    /\ UNCHANGED <<delStatus, bitcoinSide, clientTip,
                   unbondingTracker, pendingTracker, goroutines, overlooked>>

-----------------------------------------------------------------------------
(* Activation: checkBtcForStakingTx and activateBtcDelegation *)

beyondActivation == <<bitcoinSide, clientTip, retrieval, unbondingTracker, spends, overlooked>>

(* The goroutine first waits for the depth (waitForRequiredDepth), gives   *)
(* up after a number of attempts and is started again; it is taken up here *)
(* when it gets past that.                                                 *)
CheckBtcForStakingTx(d) ==
    /\ pendingTracker[d] = "idle" /\ activations[d] = "none" /\ KDeep(includedAt[d])
    /\ pendingTracker' = [pendingTracker EXCEPT ![d] = "inProgress"]
    /\ activations' = [activations EXCEPT ![d] = "ask"]
    /\ UNCHANGED <<delStatus, newBlocks, beyondActivation, calls>>

(* The deferred UpdateActivation, after the entry was kept or removed.     *)
ActivationEnds(d, entry) ==
    /\ pendingTracker' = [pendingTracker EXCEPT ![d] = entry]
    /\ activations' = [activations EXCEPT ![d] = "none"]

ActivationAsk(d) ==
    /\ activations[d] = "ask"
    /\ IF delStatus[d] # "VERIFIED" THEN ActivationEnds(d, "none")
       ELSE activations' = [activations EXCEPT ![d] = "send"] /\ UNCHANGED pendingTracker
    /\ UNCHANGED <<delStatus, newBlocks, beyondActivation, calls>>

(* A refused message, or one whose answer is lost, is tried again from the *)
(* question, until the attempts are used up.                               *)
ActivationSend(d) ==
    /\ activations[d] = "send"
    /\ IF AcceptsActivation(d) THEN ChainBlock([x \in {d} |-> "ACTIVE"])
       ELSE UNCHANGED <<delStatus, newBlocks>>
    /\ \/ /\ AcceptsActivation(d) /\ ActivationEnds(d, "none") /\ UNCHANGED calls
       \/ /\ IF AcceptsActivation(d) THEN CallFails ELSE UNCHANGED calls
          /\ \/ activations' = [activations EXCEPT ![d] = "ask"] /\ UNCHANGED pendingTracker
             \/ ActivationEnds(d, "idle")
    /\ UNCHANGED beyondActivation

-----------------------------------------------------------------------------
(* Spent stakes: checkSpend and the goroutines it starts.  A goroutine     *)
(* keeps working when an update replaces the entry, so that a second one   *)
(* may be started.                                                         *)

beyondSpend == <<bitcoinSide, clientTip, retrieval, pendingTracker, activations>>

(* handleSpend waits for an expansion to be deep enough (or gives up and   *)
(* is started again) and for any other transaction to be in a block; it is *)
(* taken up here when it gets past that.  A failed query of the chain      *)
(* makes an expansion look like another transaction, and one that spends   *)
(* by the timelock is not reported.                                        *)
CheckSpend(d, i) ==
    /\ unbondingTracker[d].start # "none" /\ ~unbondingTracker[d].inProgress
    /\ spending[d].at > 0 /\ spends[d][i] = NoSpend /\ (i = 2 => spends[d][1] # NoSpend)
    /\ IF spending[d].how = "expand" /\ ~KDeep(spending[d].at) THEN CallFails ELSE UNCHANGED calls
    /\ unbondingTracker' = [unbondingTracker EXCEPT ![d].inProgress = TRUE]
    /\ spends' = [spends EXCEPT ![d][i].pc = IF spending[d].how = "withdraw" THEN "remove" ELSE "isActive"]
    /\ UNCHANGED <<delStatus, newBlocks, beyondSpend, overlooked>>

SpendGoesOn(d, i, pc) ==
    spends' = [spends EXCEPT ![d][i] = [NoSpend EXCEPT !.pc = pc]] /\ UNCHANGED unbondingTracker

(* reportUnbondingToAnon: IsDelegationActive *)
IsDelegationActive(d, i) ==
    /\ spends[d][i].pc = "isActive"
    /\ spends' = [spends EXCEPT ![d][i] =
           [@ EXCEPT !.pc = "isVerified", !.active = delStatus[d] = "ACTIVE"]]
    /\ UNCHANGED <<delStatus, newBlocks, beyondSpend, unbondingTracker, calls, overlooked>>

(* IsDelegationVerified: the two questions see the chain at different      *)
(* times.                                                                  *)
IsDelegationVerified(d, i) ==
    LET stops == ~spends[d][i].active /\ delStatus[d] # "VERIFIED"
    IN  /\ spends[d][i].pc = "isVerified"
        /\ SpendGoesOn(d, i, IF stops THEN "remove" ELSE "report")
        /\ overlooked' = IF stops /\ delStatus[d] = "ACTIVE" THEN overlooked \cup {d} ELSE overlooked
        /\ UNCHANGED <<delStatus, newBlocks, beyondSpend, calls>>

(* A refused report, or one whose answer is lost, is tried again for ever. *)
ReportUnbonding(d, i) ==
    /\ spends[d][i].pc = "report"
    /\ \/ ~AcceptsUnbonding(d) /\ SpendGoesOn(d, i, "isActive") /\ UNCHANGED <<delStatus, newBlocks, calls>>
       \/ /\ AcceptsUnbonding(d) /\ BTCUndelegate(d)
          /\ \/ SpendGoesOn(d, i, "remove") /\ UNCHANGED calls
             \/ SpendGoesOn(d, i, "isActive") /\ CallFails
    /\ UNCHANGED <<beyondSpend, overlooked>>

(* handleUnbondedDelegations receives the removal. *)
RemoveDelegation(d, i) ==
    /\ spends[d][i].pc = "remove"
    /\ spends' = [spends EXCEPT ![d][i] = NoSpend]
    /\ unbondingTracker' = [unbondingTracker EXCEPT ![d] = [start |-> "none", inProgress |-> FALSE]]
    /\ UNCHANGED <<delStatus, newBlocks, beyondSpend, calls, overlooked>>

-----------------------------------------------------------------------------
Retrieve ==
    \/ \E d \in Stakes : ReadDelegation(d)
    \/ TrackDelegation \/ FetchBlocks

Activate(d) ==
    CheckBtcForStakingTx(d) \/ ActivationAsk(d) \/ ActivationSend(d)

Report(d, i) ==
    \/ IsDelegationActive(d, i) \/ IsDelegationVerified(d, i) \/ ReportUnbonding(d, i)
    \/ RemoveDelegation(d, i)

WatcherNext ==
    \/ BTCBlock \/ InsertHeader \/ OtherBlock
    \/ \E d \in Stakes : OthersChange(d)
    \/ Retrieve \/ ScanFails \/ FetchFails
    \/ \E d \in Stakes : Activate(d)
    \/ \E d \in Stakes, i \in 1..2 : CheckSpend(d, i) \/ Report(d, i)

(* The routines of the watcher run on tickers and notifications (a silent  *)
(* notifier is registered again and then tells the best block), the        *)
(* reporter brings headers, and the chain makes blocks.                    *)
WatcherFairness ==
    /\ WF_watcherVars(Retrieve)
    /\ WF_watcherVars(InsertHeader) /\ WF_watcherVars(OtherBlock)
    /\ \A d \in Stakes : WF_watcherVars(Activate(d))
    /\ \A d \in Stakes : WF_watcherVars(\E i \in 1..2 : CheckSpend(d, i))
    /\ \A d \in Stakes, i \in 1..2 : WF_watcherVars(Report(d, i))

WatcherSpec == WatcherInit /\ [][WatcherNext]_watcherVars /\ WatcherFairness

-----------------------------------------------------------------------------
(* Again and again nothing is left undone: no VERIFIED delegation has its  *)
(* staking transaction deep enough, and no delegation has its stake spent  *)
(* in a way that the chain would accept as unbonding.  Not covered: those  *)
(* that a failed scan or a status that changed between the two questions   *)
(* of a report made the watcher miss.                                      *)
StakesAreFollowed ==
    []<>\A d \in Stakes :
            \/ d \in overlooked
            \/ ~AcceptsActivation(d) /\ ~(delStatus[d] \in Watched /\ AcceptsUnbonding(d))
=============================================================================
