------------------------------- MODULE Reporter -------------------------------
(***************************************************************************)
(* The vigilante reporter.  It brings the headers of its Bitcoin node to   *)
(* the light client of the chain, and the two halves of a checkpoint as    *)
(* soon as it has seen both.  Bootstrapping compares the two chains at the *)
(* confirmation depth, sends what is missing and hands the last k + w      *)
(* blocks to a goroutine that reports their checkpoints; afterwards blocks *)
(* arrive as notifications, and one that does not fit bootstraps again.    *)
(* A block is [id, h, prev, segs]; a segment is <<epoch, part>>.  Heights  *)
(* start at 1, the base header, and all blocks have the same work.         *)
(***************************************************************************)
EXTENDS Integers, Sequences, FiniteSets

CONSTANTS
    ConfDepth, FinalTimeout,           \* btcConfirmationDepth, checkpointFinalizationTimeout
    CacheSize,      \* cfg.BTCCacheSize
    Segments,       \* the segments on their way to Bitcoin, in order
    StartLengths,   \* lengths that Bitcoin's chain may have at first; with
                    \* nothing above the base header a bootstrap panics
    MaxLength,      \* bound: length of Bitcoin's chain
    MaxReorg,       \* bound: blocks that a reorg replaces
    MaxReorgs,      \* bound: reorgs
    MaxRepFaults    \* bound: [fail, crash, other |-> ...]

ASSUME ReporterAssumption ==
    /\ {ConfDepth, FinalTimeout, CacheSize, MaxLength, MaxReorg, MaxReorgs} \subseteq Nat
    /\ ConfDepth > 0
    /\ StartLengths \subseteq 2..MaxLength
    /\ DOMAIN MaxRepFaults = {"fail", "crash", "other"}

VARIABLES
    btc,            \* best chain of the Bitcoin node
    minted,         \* [ids |-> blocks mined, reorgs |-> how many, deepest |-> blocks replaced]
    lc,             \* main chain of the light client
    accepted,       \* epochs whose checkpoint the chain has accepted
    ntfns,          \* blocks that the notifier has sent
    registered,     \* the notifier is running
    cache, maxEntries,  \* btcCache
    segs,           \* checkpointCache.Segments: <<segment, block>>, one per segment
    ckpts,          \* checkpointCache.Checkpoints: matched epochs
    task,           \* what each goroutine is doing
    repPanicked,
    repFaults       \* faults so far

bitcoin == <<btc, minted>>
btcCache == <<cache, maxEntries>>
checkpointCache == <<segs, ckpts>>
reporterVars == <<bitcoin, lc, accepted, ntfns, registered, btcCache, checkpointCache,
                  task, repPanicked, repFaults>>

Goroutine == {"main", "async"}
Free == [pc |-> "free", boot |-> FALSE, ibs |-> <<>>, ckpt |-> <<>>]

From(s, i) == SubSeq(s, i, Len(s))
BlocksOf(s) == {s[i] : i \in DOMAIN s}
TipOf(s) == s[Len(s)]
HasBlock(s, b) == b \in BlocksOf(s)

(* Bitcoin's first blocks carry no segment. *)
FirstBlocks(n) == [i \in 1..n |-> [id |-> i, h |-> i, prev |-> i - 1, segs |-> {}]]

ReporterInit ==
    /\ \E n \in StartLengths :
          /\ btc = FirstBlocks(n)
          /\ minted = [ids |-> n, reorgs |-> 0, deepest |-> 0]
          /\ \E m \in 1..n : lc = FirstBlocks(m)
    /\ accepted = {}
    /\ ntfns = <<>> /\ registered = FALSE
    /\ cache = <<>> /\ maxEntries = CacheSize
    /\ segs = {} /\ ckpts = {}
    /\ task = [g \in Goroutine |-> Free]
    /\ repPanicked = FALSE
    /\ repFaults = [fail |-> 0, crash |-> 0, other |-> 0]

-----------------------------------------------------------------------------
(* Bitcoin and the light client *)

Carried == UNION {b.segs : b \in BlocksOf(btc)}

(* The next blocks on a chain; the first one carries some of the segments  *)
(* that wait, in their order, the others none.                             *)
NextBlocks(s, n, carries) ==
    [i \in 1..n |-> [id |-> minted.ids + i, h |-> Len(s) + i,
                     prev |-> IF i = 1 THEN TipOf(s).id ELSE minted.ids + i - 1,
                     segs |-> IF i = 1 THEN carries ELSE {}]]

Carriable(s) ==
    LET there == UNION {b.segs : b \in BlocksOf(s)}
    IN  {{Segments[i] : i \in {j \in 1..n : Segments[j] \notin there}} : n \in 0..Len(Segments)}

Notified(new) == ntfns' = IF registered THEN ntfns \o new ELSE ntfns

MineBlock ==
    /\ Len(btc) < MaxLength
    /\ \E c \in Carriable(btc) :
          LET new == NextBlocks(btc, 1, c)
          IN  btc' = btc \o new /\ Notified(new)
    /\ minted' = [minted EXCEPT !.ids = @ + 1]
    /\ UNCHANGED <<lc, accepted, registered, btcCache, checkpointCache, task, repPanicked, repFaults>>

(* The last blocks are replaced by one more than they were. *)
ReorgBitcoin ==
    /\ minted.reorgs < MaxReorgs
    /\ \E d \in 1..MaxReorg :
          LET kept == SubSeq(btc, 1, Len(btc) - d)
          IN  /\ d < Len(btc) /\ Len(btc) < MaxLength
              /\ \E c \in Carriable(kept) :
                    LET new == NextBlocks(kept, d + 1, c)
                    IN  btc' = kept \o new /\ Notified(new)
              /\ minted' = [ids |-> minted.ids + d + 1, reorgs |-> minted.reorgs + 1,
                            deepest |-> IF d > minted.deepest THEN d ELSE minted.deepest]
    /\ UNCHANGED <<lc, accepted, registered, btcCache, checkpointCache, task, repPanicked, repFaults>>

(* MsgInsertHeaders: the light client extends its tip, or replaces it by a *)
(* longer fork that starts with an unknown header on a known one.          *)
InsertHeadersResult(hs) ==
    IF hs[1].prev = TipOf(lc).id THEN [code |-> "ok", lc |-> lc \o hs]
    ELSE IF HasBlock(lc, hs[1]) THEN [code |-> "known", lc |-> lc]
    ELSE IF /\ \E b \in BlocksOf(lc) : b.id = hs[1].prev
            /\ TipOf(hs).h > Len(lc)
         THEN [code |-> "ok", lc |-> SubSeq(lc, 1, hs[1].h - 1) \o hs]
         ELSE [code |-> "refused", lc |-> lc]

(* Another reporter brings the light client up to the Bitcoin chain. *)
OtherReporter ==
    /\ repFaults.other < MaxRepFaults.other
    /\ repFaults' = [repFaults EXCEPT !.other = @ + 1]
    /\ lc # btc /\ lc' = btc
    /\ UNCHANGED <<bitcoin, accepted, ntfns, registered, btcCache, checkpointCache, task, repPanicked>>

-----------------------------------------------------------------------------
(* Bootstrapping, in the main goroutine *)

Goto(t) == task' = [task EXCEPT !["main"] = t]
MainAt(pc) == [task["main"] EXCEPT !.pc = pc]
Bootstrap == [Free EXCEPT !.pc = "sync", !.boot = TRUE]
ReporterPanics == repPanicked' = TRUE /\ Goto(Free)

Fails == repFaults.fail < MaxRepFaults.fail /\ repFaults' = [repFaults EXCEPT !.fail = @ + 1]

(* Start, which bootstraps before it listens to the notifier. *)
StartReporter ==
    /\ ~registered /\ task["main"] = Free
    /\ Goto(Bootstrap)
    /\ UNCHANGED <<bitcoin, lc, accepted, ntfns, registered, btcCache, checkpointCache, repPanicked, repFaults>>

(* bootstrapWithRetries waits for the goroutine of the bootstrap before,   *)
(* waitUntilBTCSync for a Bitcoin node that is behind the light client.    *)
waitUntilBTCSync ==
    /\ task["main"].pc = "sync" /\ task["async"] = Free
    /\ Len(btc) >= Len(lc)
    /\ Goto(MainAt("init"))
    /\ UNCHANGED <<bitcoin, lc, accepted, ntfns, registered, btcCache, checkpointCache, repPanicked, repFaults>>

(* A call of bootstrap returns an error: it is retried from the start.     *)
BootstrapFails ==
    /\ task["main"].boot /\ task["main"].pc \in {"sync", "init", "check", "query", "send"}
    /\ Fails /\ Goto(Bootstrap)
    /\ UNCHANGED <<bitcoin, lc, accepted, ntfns, registered, btcCache, checkpointCache, repPanicked>>

baseHeight(t) == IF t > 1 + ConfDepth + FinalTimeout THEN t - ConfDepth - FinalTimeout + 1 ELSE 1

initBTCCache ==
    LET base == baseHeight(Len(lc))
        ibs == From(btc, base)
    IN  /\ task["main"].pc = "init"
        /\ IF base > Len(btc) \/ Len(ibs) > CacheSize
           THEN ReporterPanics /\ UNCHANGED btcCache
           ELSE /\ cache' = ibs /\ maxEntries' = CacheSize
                /\ Goto(MainAt("check")) /\ UNCHANGED repPanicked
        /\ UNCHANGED <<bitcoin, lc, accepted, ntfns, registered, checkpointCache, repFaults>>

(* checkConsistency: the block of the cache at the confirmation depth of   *)
(* the light client has to be there and in the light client.  Then         *)
(* GetLastBlocks takes the blocks above it.                                *)
checkConsistency ==
    LET at == IF Len(lc) >= 1 + ConfDepth THEN Len(lc) - ConfDepth ELSE 1
        i == at - cache[1].h + 1
    IN  /\ task["main"].pc = "check"
        /\ IF i \in DOMAIN cache /\ HasBlock(lc, cache[i]) /\ i + 1 \in DOMAIN cache
           THEN Goto([MainAt("query") EXCEPT !.ibs = From(cache, i + 1)]) /\ UNCHANGED repPanicked
           ELSE ReporterPanics
        /\ UNCHANGED <<bitcoin, lc, accepted, ntfns, registered, btcCache, checkpointCache, repFaults>>

-----------------------------------------------------------------------------
(* ProcessHeaders, of a bootstrap and of a new block *)

(* The headers are on the chain: a bootstrap trims the cache and starts    *)
(* the goroutine that reports checkpoints; a new block goes on to its own  *)
(* checkpoints.                                                            *)
HeadersDone ==
    IF task["main"].boot
    THEN /\ maxEntries' = ConfDepth + FinalTimeout
         /\ cache' = IF Len(cache) < maxEntries' THEN cache
                     ELSE From(cache, Len(cache) - maxEntries' + 1)
         /\ task' = [main |-> IF registered THEN Free ELSE [Free EXCEPT !.pc = "register"],
                     async |-> [Free EXCEPT !.pc = "extract", !.ibs = cache']]
    ELSE Goto(MainAt("extract")) /\ UNCHANGED btcCache

(* getHeaderMsgsToSubmit: from the first unknown header on.                *)
getHeaderMsgsToSubmit ==
    LET ibs == task["main"].ibs
        unknown == {i \in DOMAIN ibs : ~HasBlock(lc, ibs[i])}
        startPoint == CHOOSE i \in unknown : \A j \in unknown : i <= j
    IN  /\ task["main"].pc = "query"
        /\ IF unknown = {} THEN HeadersDone
           ELSE /\ Goto([MainAt("send") EXCEPT !.ibs = From(ibs, startPoint)])
                /\ UNCHANGED btcCache
        /\ UNCHANGED <<bitcoin, lc, accepted, registered, ntfns, checkpointCache, repPanicked, repFaults>>

(* FilterAlreadyProcessedBlocks: the blocks above the tip of the chain.    *)
FilterAlreadyProcessedBlocks(ibs) == SelectSeq(ibs, LAMBDA b : b.h > Len(lc))

(* submitHeaderMsgs; what another reporter has sent meanwhile is left out, *)
(* any other refusal bootstraps (again).                                   *)
submitHeaderMsgs ==
    LET ibs == task["main"].ibs
        res == InsertHeadersResult(ibs)
        rest == FilterAlreadyProcessedBlocks(ibs)
    IN  /\ task["main"].pc = "send"
        /\ lc' = res.lc
        /\ CASE res.code = "ok" \/ (res.code = "known" /\ rest = <<>>) -> HeadersDone
             [] res.code = "known" /\ rest # <<>> ->
                  Goto([MainAt("query") EXCEPT !.ibs = rest]) /\ UNCHANGED btcCache
             [] OTHER -> Goto(Bootstrap) /\ UNCHANGED btcCache
        /\ UNCHANGED <<bitcoin, accepted, registered, ntfns, checkpointCache, repPanicked, repFaults>>

(* After the first bootstrap, Start registers with the notifier, which     *)
(* begins with the current tip.                                            *)
RegisterBlockEpochNtfn ==
    /\ task["main"].pc = "register" /\ Goto(Free)
    /\ registered' = TRUE /\ ntfns' = <<TipOf(btc)>>
    /\ UNCHANGED <<bitcoin, lc, accepted, btcCache, checkpointCache, repPanicked, repFaults>>

-----------------------------------------------------------------------------
(* handleNewBlock *)

NextNotification ==
    /\ registered /\ task["main"] = Free /\ ntfns # <<>>
    /\ ntfns' = Tail(ntfns)
    /\ UNCHANGED <<bitcoin, lc, accepted, registered, checkpointCache, repPanicked>>

(* Mutation: the next block is taken for one that was seen already. *)
NextIsTooEarly(b) == TipOf(cache).h + 1 >= b.h

TooEarly(b) == TipOf(cache).h >= b.h

(* A block at or below the tip of the cache is skipped.                    *)
SkipBlock ==
    /\ NextNotification
    /\ cache # <<>> /\ TooEarly(Head(ntfns))
    /\ UNCHANGED <<btcCache, task, repFaults>>

Connects(b) == cache # <<>> /\ TipOf(cache).h + 1 = b.h /\ b.prev = TipOf(cache).id

(* An empty cache, a gap, a parent that is not the tip, or an error from   *)
(* the Bitcoin node.                                                       *)
BlockDoesNotFit ==
    LET b == Head(ntfns)
    IN  /\ NextNotification
        /\ cache # <<>> => ~TooEarly(b)
        /\ \/ /\ ~Connects(b)
              /\ cache' = IF cache # <<>> /\ TipOf(cache).h + 1 = b.h THEN <<>> ELSE cache
              /\ UNCHANGED <<maxEntries, repFaults>>
           \/ Connects(b) /\ Fails /\ UNCHANGED btcCache
        /\ Goto(Bootstrap)

(* GetBlockByHash, Add and ProcessHeaders.                                 *)
ConnectBlock ==
    LET b == Head(ntfns)
    IN  /\ NextNotification
        /\ Connects(b) /\ ~TooEarly(b)
        /\ cache' = Append(IF Len(cache) = maxEntries THEN Tail(cache) ELSE cache, b)
        /\ Goto([Free EXCEPT !.pc = "query", !.ibs = <<b>>])
        /\ UNCHANGED <<maxEntries, repFaults>>

-----------------------------------------------------------------------------
(* ProcessCheckpoints, in either goroutine *)

Put(g, t) == task' = [task EXCEPT ![g] = t]

(* Match: the two segments of a checkpoint leave the cache together.       *)
Matched(s) == {<<x[1][1], x[2], y[2]>> : <<x, y>> \in
                  {p \in s \X s : p[1][1][1] = p[2][1][1] /\ p[1][1][2] = 0 /\ p[2][1][2] = 1}}

(* extractCheckpoints for every block, in which a segment replaces an      *)
(* older one with the same data, and Match.                                *)
ExtractAndMatch(g) ==
    LET found == UNION {{<<s, b>> : s \in b.segs} : b \in BlocksOf(task[g].ibs)}
        all == {x \in segs : \A y \in found : y[1] # x[1]} \cup found
        new == Matched(all)
    IN  /\ task[g].pc = "extract"
        /\ segs' = {x \in all : \A c \in new : c[1] # x[1][1]}
        /\ ckpts' = ckpts \cup new
        /\ Put(g, [task[g] EXCEPT !.pc = "pop"])
        /\ UNCHANGED <<bitcoin, lc, accepted, ntfns, registered, btcCache, repPanicked, repFaults>>

(* PopEarliestCheckpoint of the sorted list. *)
PopEarliestCheckpoint(g) ==
    /\ task[g].pc = "pop"
    /\ IF ckpts = {} THEN Put(g, Free) /\ UNCHANGED ckpts
       ELSE \E c \in ckpts :
               /\ \A d \in ckpts : c[1] <= d[1]
               /\ ckpts' = ckpts \ {c}
               /\ Put(g, [task[g] EXCEPT !.pc = "report", !.ckpt = c])
    /\ UNCHANGED <<bitcoin, lc, accepted, ntfns, registered, btcCache, segs, repPanicked, repFaults>>

(* The chain has a submission of the epoch on the blocks of its headers.   *)
BothOnMainChain(c) == HasBlock(lc, c[2]) /\ HasBlock(lc, c[3])
EpochAccepted(e) == \E c \in accepted : c[1] = e /\ BothOnMainChain(c)

(* MsgInsertBTCSpvProof: accepted when both headers are known and the      *)
(* epoch before has been submitted; whatever the answer, the checkpoint    *)
(* has left the cache.                                                     *)
ReportCheckpoint(g) ==
    LET c == task[g].ckpt
    IN  /\ task[g].pc = "report"
        /\ accepted' = IF BothOnMainChain(c) /\ (c[1] = 1 \/ EpochAccepted(c[1] - 1))
                       THEN accepted \cup {c} ELSE accepted
        /\ Put(g, [task[g] EXCEPT !.pc = "pop", !.ckpt = <<>>])
        /\ UNCHANGED <<bitcoin, lc, ntfns, registered, btcCache, checkpointCache, repPanicked, repFaults>>

ProcessCheckpoints(g) == ExtractAndMatch(g) \/ PopEarliestCheckpoint(g) \/ ReportCheckpoint(g)

RestartReporter ==
    /\ repFaults.crash < MaxRepFaults.crash
    /\ repFaults' = [repFaults EXCEPT !.crash = @ + 1]
    /\ ntfns' = <<>> /\ registered' = FALSE
    /\ cache' = <<>> /\ maxEntries' = CacheSize
    /\ segs' = {} /\ ckpts' = {}
    /\ task' = [g \in Goroutine |-> Free]
    /\ UNCHANGED <<bitcoin, lc, accepted, repPanicked>>

-----------------------------------------------------------------------------

MainLoop ==
    \/ StartReporter \/ waitUntilBTCSync \/ BootstrapFails \/ initBTCCache \/ checkConsistency
    \/ getHeaderMsgsToSubmit \/ submitHeaderMsgs \/ RegisterBlockEpochNtfn
    \/ SkipBlock \/ BlockDoesNotFit \/ ConnectBlock
    \/ ProcessCheckpoints("main")

AsyncLoop == ProcessCheckpoints("async")

ReporterNext ==
    /\ ~repPanicked
    /\ \/ MainLoop \/ AsyncLoop \/ RestartReporter
       \/ OtherReporter \/ MineBlock \/ ReorgBitcoin

ReporterFairness ==
    WF_reporterVars(~repPanicked /\ MainLoop) /\ WF_reporterVars(~repPanicked /\ AsyncLoop)

ReporterSpec == ReporterInit /\ [][ReporterNext]_reporterVars /\ ReporterFairness

-----------------------------------------------------------------------------
(* Properties *)

(* Panics that the code intends: Bitcoin has replaced a block that was k   *)
(* deep, or another reporter brought the light client k blocks above a     *)
(* cache that was just filled.                                             *)
PanicsOnDeepFork ==
    repPanicked /\ (minted.deepest >= ConfDepth \/ Len(lc) >= TipOf(cache).h + ConfDepth)

(* The blocks among which a bootstrap looks for checkpoints. *)
Recent ==
    LET n == ConfDepth + FinalTimeout
    IN  BlocksOf(From(btc, IF Len(btc) > n THEN Len(btc) - n + 1 ELSE 1))

OnBitcoin(e) == {<<e, 0>>, <<e, 1>>} \subseteq UNION {b.segs : b \in Recent}

(* The light client follows the Bitcoin node: once Bitcoin rests, both     *)
(* have the same chain, whatever was notified, skipped or refused, and     *)
(* whatever Bitcoin, another reporter or a crash did between two reads of  *)
(* the reporter; only the fork that it cannot follow makes it panic.  And  *)
(* without a reorg the chain accepts the first checkpoint that Bitcoin     *)
(* carries in its last k + w blocks, although two goroutines share the     *)
(* cache of halves and drop what they have sent.                           *)
ReporterCatchesUp ==
    <>[](\/ PanicsOnDeepFork
         \/ /\ ~repPanicked
            /\ lc = btc
            /\ minted.reorgs = 0 /\ OnBitcoin(1) => EpochAccepted(1))
=============================================================================
