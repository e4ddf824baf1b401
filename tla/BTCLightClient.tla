--------------------------- MODULE BTCLightClient ---------------------------
(***************************************************************************)
(* The Bitcoin light client of x/btclightclient and the reorg guard that   *)
(* x/btcstaking hangs on it.  Bitcoin is a tree of blocks; a message       *)
(* carries a chain of headers that extends the tip or starts a heavier     *)
(* fork at a stored header.  The store keeps the main chain under its      *)
(* heights together with an index from hash to height, and the two are     *)
(* written and deleted separately.  Proof of work and difficulty rules     *)
(* (checkHeader) decide which blocks exist, so every block is valid.       *)
(***************************************************************************)
EXTENDS Integers, Sequences, FiniteSets

CONSTANTS
    Block,          \* Bitcoin blocks above and including the base header
    Base, NoBlock,
    Parent,         \* Parent[b], NoBlock for the base header
    HeightOf,       \* height of a block, from 1 at the base header
    TotalWork,      \* work accumulated from the base header to the block
    Depths,         \* values that params.BtcConfirmationDepth may take
    MaxHeaders      \* bound: headers per message

ASSUME LightClientAssumption ==
    /\ Base \in Block /\ NoBlock \notin Block
    /\ Parent \in [Block -> Block \cup {NoBlock}]
    /\ HeightOf \in [Block -> Nat \ {0}] /\ TotalWork \in [Block -> Nat]
    /\ Parent[Base] = NoBlock /\ HeightOf[Base] = 1
    /\ \A b \in Block \ {Base} :
          /\ Parent[b] \in Block
          /\ HeightOf[b] = HeightOf[Parent[b]] + 1
          /\ TotalWork[b] > TotalWork[Parent[b]]
    /\ Depths \subseteq Nat \ {0}
    /\ MaxHeaders \in Nat

VARIABLES
    headers,        \* headers[h]: the stored header, or NoBlock
    hashToHeight,   \* hashToHeight[b]: the stored height, or 0
    depth,          \* params.BtcConfirmationDepth of x/btccheckpoint
    largestReorg,   \* BlockDiff of LargestBtcReorg, 0 if none
    halted,         \* EndBlock of btcstaking panicked
    confirmed,      \* history: blocks once depth deep at the end of a block
    blockReorg,     \* history: largest reorg in the current block
    redefined,      \* history: depth was changed
    dipped          \* history: a heavier fork was shorter than the chain

store == <<headers, hashToHeight>>
history == <<confirmed, blockReorg, redefined, dipped>>
lightVars == <<store, depth, largestReorg, halted, history>>

Height == {HeightOf[b] : b \in Block}
Stored == {h \in Height : headers[h] # NoBlock}

LightTypeOK ==
    /\ headers \in [Height -> Block \cup {NoBlock}]
    /\ hashToHeight \in [Block -> Height \cup {0}]
    /\ depth \in Depths
    /\ largestReorg \in Nat
    /\ halted \in BOOLEAN
    /\ confirmed \subseteq Block /\ blockReorg \in Nat
    /\ redefined \in BOOLEAN /\ dipped \in BOOLEAN

LightInit ==
    /\ headers = [h \in Height |-> IF h = 1 THEN Base ELSE NoBlock]
    /\ hashToHeight = [b \in Block |-> IF b = Base THEN 1 ELSE 0]
    /\ depth \in Depths
    /\ largestReorg = 0 /\ halted = FALSE
    /\ confirmed = {} /\ blockReorg = 0 /\ redefined = FALSE /\ dipped = FALSE

-----------------------------------------------------------------------------
(* Reading the store *)

TipHeight == CHOOSE h \in Stored : \A g \in Stored : g <= h
GetTip == headers[TipHeight]

HeaderExists(b) == b \in Block /\ hashToHeight[b] # 0

(* The header found under the height that the index has for the hash. *)
GetHeaderByHash(b) == headers[hashToHeight[b]]

MainChainDepth(b) == TipHeight - HeightOf[GetHeaderByHash(b)]

-----------------------------------------------------------------------------
(* InsertHeaders *)

headersFormChain(s) == \A i \in 2..Len(s) : Parent[s[i]] = s[i - 1]

ExtendsTip(s) == Parent[s[1]] = GetTip

(* A fork has to start with an unknown header on a known parent and to     *)
(* carry strictly more work than the current chain.                        *)
IsBetterFork(s) ==
    /\ ~HeaderExists(s[1])
    /\ HeaderExists(Parent[s[1]])
    /\ TotalWork[s[Len(s)]] > TotalWork[GetTip]

(* rollBackHeadersUpTo deletes the headers above the height from both      *)
(* stores.                                                                 *)
rollBackHeadersUpTo(to) ==
    [h |-> [h \in Height |-> IF h > to THEN NoBlock ELSE headers[h]],
     i |-> [b \in Block |-> IF \E h \in Stored : h > to /\ headers[h] = b
                            THEN 0 ELSE hashToHeight[b]]]

(* insertHeader for every header of the message. *)
insertHeader(st, s) ==
    LET new == {s[i] : i \in 1..Len(s)}
    IN  /\ headers' = [h \in Height |->
                         IF \E b \in new : HeightOf[b] = h
                         THEN CHOOSE b \in new : HeightOf[b] = h ELSE st.h[h]]
        /\ hashToHeight' = [b \in Block |-> IF b \in new THEN HeightOf[b] ELSE st.i[b]]

(* Mutation: only the first reorg is remembered. *)
KeepsFirstReorg(diff) == IF largestReorg = 0 THEN diff ELSE largestReorg

SetLargestBtcReorg(diff) == IF largestReorg >= diff THEN largestReorg ELSE diff

InsertHeaders(s) ==
    /\ ~halted
    /\ headersFormChain(s)
    /\ \/ /\ ExtendsTip(s)
          /\ insertHeader([h |-> headers, i |-> hashToHeight], s)
          /\ UNCHANGED <<largestReorg, blockReorg>>
       \/ /\ ~ExtendsTip(s)
          /\ IsBetterFork(s)
          /\ LET to == HeightOf[GetHeaderByHash(Parent[s[1]])]
             IN  /\ insertHeader(rollBackHeadersUpTo(to), s)
                 /\ largestReorg' = SetLargestBtcReorg(TipHeight - to)
                 /\ blockReorg' = IF TipHeight - to > blockReorg THEN TipHeight - to ELSE blockReorg
    /\ dipped' = (dipped \/ HeightOf[s[Len(s)]] < TipHeight)
    /\ UNCHANGED <<depth, halted, confirmed, redefined>>

(* The messages a reporter may send: what headersFormChain refuses has no  *)
(* effect, so only chains are enumerated, from their last header down.     *)
Ancestor[n \in 0..MaxHeaders] ==
    IF n = 0 THEN [b \in Block |-> b]
    ELSE [b \in Block |-> IF Ancestor[n - 1][b] = NoBlock THEN NoBlock
                           ELSE Parent[Ancestor[n - 1][b]]]

Message ==
    {s \in {[i \in 1..k[1] |-> Ancestor[k[1] - i][k[2]]] : k \in (1..MaxHeaders) \X Block} :
        s \in Seq(Block)}

-----------------------------------------------------------------------------
(* Blocks *)

MainChain == {headers[h] : h \in Stored}

(* btccheckpoint's UpdateParams by governance. *)
UpdateDepth(d) ==
    /\ ~halted
    /\ d # depth
    /\ depth' = d
    /\ redefined' = TRUE
    /\ UNCHANGED <<store, largestReorg, halted, confirmed, blockReorg, dipped>>

(* HaltIfBtcReorgLargerThanConfirmationDepth. *)
LightEndBlock ==
    /\ ~halted
    /\ halted' = (largestReorg >= depth)
    /\ confirmed' = confirmed \cup {b \in MainChain : MainChainDepth(b) >= depth}
    /\ blockReorg' = 0
    /\ UNCHANGED <<store, depth, largestReorg, redefined, dipped>>

LightNext ==
    \/ \E s \in Message : InsertHeaders(s)
    \/ LightEndBlock
    \/ \E d \in Depths : UpdateDepth(d)

LightSpec == LightInit /\ [][LightNext]_lightVars

-----------------------------------------------------------------------------
(* Properties *)

(* "those should always be in sync": the index and the headers describe    *)
(* one linked chain from the base header to the tip, without holes, after  *)
(* any sequence of rollbacks; so GetHeaderByHash and MainChainDepth never  *)
(* panic and never return another block.                                   *)
StoreInSync ==
    /\ \A b \in Block, h \in Height : headers[h] = b <=> hashToHeight[b] = h
    /\ \A h \in Stored : h = HeightOf[headers[h]]
    /\ \A h \in Stored \ {1} : h - 1 \in Stored /\ Parent[headers[h]] = headers[h - 1]
    /\ headers[1] = Base

(* The reorg guard: as long as the chain is not halted, a block that was   *)
(* once confirmed at the end of a block is still in the main chain at the  *)
(* end of every later block; and the chain is halted for a reorg of its    *)
(* last block only: "safety mechanism to stop the chain in case there is   *)
(* an BTC reorg higher than the BtcConfirmationDepth".  Both unless the    *)
(* depth that confirms is changed, and the first unless the chain got      *)
(* shorter: of two reorgs in a row, each is measured from its own tip.     *)
ReorgGuard ==
    [][LightEndBlock /\ ~redefined =>
          IF halted' THEN blockReorg >= depth ELSE dipped \/ confirmed \subseteq MainChain]_lightVars

=============================================================================
