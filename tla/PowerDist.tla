----------------------------- MODULE PowerDist -----------------------------
(***************************************************************************)
(* BTC delegations of x/btcstaking and the voting power distribution of    *)
(* x/finality.  Messages change delegations and finality providers and     *)
(* leave power-distribution events under a BTC height; BeginBlock indexes  *)
(* the BTC tip, consumes the events between the last two indexed heights   *)
(* and computes the next distribution cache.                               *)
(* Bitcoin scripts and signatures are abstracted: a delegation is known by *)
(* its provider, amount and the delegation it expands; covenant signatures *)
(* are counted (a member signs a delegation once).  The event store of a   *)
(* BTC height is a bag of delegation events plus, per provider, the last   *)
(* jail/unjail event (later indices overwrite earlier ones when they are   *)
(* processed) and whether a slashed event is there.                        *)
(***************************************************************************)
EXTENDS Integers, FiniteSets, FiniteSetsExt, Bags

CONSTANTS
    FP,             \* finality providers: naturals, ordered like their keys
    Del,            \* delegations the stakers may create
    NoDel,
    FpOf, SatOf,    \* provider and amount of a delegation
    PrevOf,         \* the delegation it expands, or NoDel
    Members,        \* number of covenant members
    Quorum,         \* params.CovenantQuorum
    StakingTime, UnbondingTime,
    Depth,          \* BtcConfirmationDepth
    MaxActive,      \* params.MaxActiveFinalityProviders
    BaseTip, MaxTip,\* bound: BTC tip heights
    Faulty,         \* bound: providers that may be jailed or slashed
    Late,           \* bound: providers that may lack timestamped randomness
    Dips,           \* may a heavier fork be shorter than the chain it replaces?
    LateSigs        \* may covenant members sign once the stake has expired?

ASSUME PowerDistAssumption ==
    /\ FP \subseteq Nat /\ IsFiniteSet(FP) /\ IsFiniteSet(Del) /\ NoDel \notin Del
    /\ FpOf \in [Del -> FP] /\ SatOf \in [Del -> Nat \ {0}]
    /\ PrevOf \in [Del -> Del \cup {NoDel}]
    /\ \A d \in Del : PrevOf[d] # NoDel =>
          /\ FpOf[PrevOf[d]] = FpOf[d]
          /\ SatOf[PrevOf[d]] <= SatOf[d]
    /\ Members \in Nat /\ Quorum \in 1..Members
    /\ UnbondingTime \in Nat \ {0} /\ StakingTime \in Nat /\ StakingTime > UnbondingTime
    /\ Depth \in Nat /\ MaxActive \in Nat
    /\ BaseTip \in Nat \ {0} /\ MaxTip \in Nat /\ BaseTip <= MaxTip
    /\ Faulty \subseteq FP /\ Late \subseteq FP /\ Dips \in BOOLEAN /\ LateSigs \in BOOLEAN

VARIABLES
    tip,            \* height of the light client's tip
    indexed,        \* BTC height indexed for the current block
    del,            \* the stored delegations
    delEvents,      \* delEvents[b]: bag of <<delegation, new state>>
    fpEvents,       \* fpEvents[b][f]: last jail/unjail event, or "none"
    slashEvents,    \* slashEvents[b]: providers with a slashed event
    jailed, slashed,\* status of the providers in btcstaking
    cache,          \* cache[f]: bonded sats and jailed flag, 0 sats if absent
    timestamped,    \* cached providers with timestamped randomness
    active          \* the active set of the current block

events == <<delEvents, fpEvents, slashEvents>>
status == <<jailed, slashed>>
dist == <<cache, timestamped, active>>
vars == <<tip, indexed, del, events, status, dist>>

BtcHeights == 1..(MaxTip + StakingTime)
DelState == {"ACTIVE", "UNBONDED", "EXPIRED"}
NotCreated == [created |-> FALSE, start |-> 0, end |-> 0, sigs |-> 0,
               unbonded |-> FALSE, tipAt |-> 0]
Delegation == [created : BOOLEAN, start : 0..MaxTip, end : 0..(MaxTip + StakingTime),
               sigs : 0..Members, unbonded : BOOLEAN, tipAt : 0..MaxTip]
Absent == [sats |-> 0, jailed |-> FALSE]

(* Types; an entry without stake is never kept in the cache. *)
TypeOK ==
    /\ tip \in BaseTip..MaxTip /\ indexed \in BaseTip..MaxTip
    /\ del \in [Del -> Delegation]
    /\ \A b \in BtcHeights : IsABag(delEvents[b]) /\ DOMAIN delEvents[b] \subseteq Del \X DelState
    /\ fpEvents \in [BtcHeights -> [FP -> {"none", "jailed", "unjailed"}]]
    /\ slashEvents \in [BtcHeights -> SUBSET FP]
    /\ jailed \subseteq FP /\ slashed \subseteq FP
    /\ cache \in [FP -> [sats : Nat, jailed : BOOLEAN]]
    /\ \A f \in FP : cache[f].sats = 0 => cache[f] = Absent
    /\ timestamped \subseteq FP /\ active \subseteq timestamped

Init ==
    /\ tip = BaseTip /\ indexed = BaseTip
    /\ del = [d \in Del |-> NotCreated]
    /\ delEvents = [b \in BtcHeights |-> EmptyBag]
    /\ fpEvents = [b \in BtcHeights |-> [f \in FP |-> "none"]]
    /\ slashEvents = [b \in BtcHeights |-> {}]
    /\ jailed = {} /\ slashed = {}
    /\ cache = [f \in FP |-> Absent] /\ timestamped = {} /\ active = {}

-----------------------------------------------------------------------------
(* Delegations *)

IsStakeExpansion(d) == PrevOf[d] # NoDel
HasInclusionProof(d) == del[d].start > 0 /\ del[d].end > 0
HasCovenantQuorums(d) == del[d].sigs >= Quorum

GetStatus(d, btcHeight) ==
    CASE del[d].unbonded -> "UNBONDED"
      [] ~del[d].unbonded /\ ~HasCovenantQuorums(d) -> "PENDING"
      [] ~del[d].unbonded /\ HasCovenantQuorums(d) /\ ~HasInclusionProof(d) -> "VERIFIED"
      [] OTHER -> IF btcHeight < del[d].start THEN "UNBONDED"
                  ELSE IF btcHeight + UnbondingTime >= del[d].end THEN "EXPIRED" ELSE "ACTIVE"

Finished(d) == GetStatus(d, tip) \in {"UNBONDED", "EXPIRED"}

addPowerDistUpdateEvent(E, b, e) == [E EXCEPT ![b] = @ (+) SetToBag({e})]

ExpiryHeight(s) == s + StakingTime - UnbondingTime

(* The staking transaction is in the main chain at height s, deep enough,  *)
(* and its timelock outlasts the unbonding time.                           *)
VerifyInclusionProof(s) ==
    /\ s \in 1..tip
    /\ tip - s >= Depth
    /\ tip + UnbondingTime < s + StakingTime

(* CreateBTCDelegation with the staking transaction already on Bitcoin. *)
CreateIncluded(d) ==
    /\ ~del[d].created /\ ~IsStakeExpansion(d)
    /\ FpOf[d] \notin slashed
    /\ \E s \in 1..tip :
          /\ VerifyInclusionProof(s)
          /\ del' = [del EXCEPT ![d] = [NotCreated EXCEPT !.created = TRUE, !.start = s,
                                            !.end = s + StakingTime, !.tipAt = tip]]
          /\ delEvents' = addPowerDistUpdateEvent(delEvents, ExpiryHeight(s), <<d, "EXPIRED">>)
    /\ UNCHANGED <<tip, indexed, fpEvents, slashEvents, status, dist>>

(* CreateBTCDelegation before inclusion, and BtcStakeExpand of an active   *)
(* delegation.                                                             *)
CreatePreApproval(d) ==
    /\ ~del[d].created
    /\ IsStakeExpansion(d) => del[PrevOf[d]].created /\ GetStatus(PrevOf[d], tip) = "ACTIVE"
    /\ FpOf[d] \notin slashed
    /\ del' = [del EXCEPT ![d] = [NotCreated EXCEPT !.created = TRUE, !.tipAt = tip]]
    /\ UNCHANGED <<tip, indexed, events, status, dist>>

(* AddCovenantSigs; the event is recorded only when the quorum is first    *)
(* reached.  Covenant members sign in time unless LateSigs.                *)
InTime(d) == HasInclusionProof(d) => tip + UnbondingTime < del[d].end

(* Mutation: every signature past the quorum activates again. *)
CovenantSigsActivateAgain(d) ==
    /\ del[d].created /\ ~Finished(d)
    /\ del[d].sigs < Members
    /\ LateSigs \/ InTime(d)
    /\ del' = [del EXCEPT ![d].sigs = @ + 1]
    /\ delEvents' = IF del[d].sigs + 1 >= Quorum /\ HasInclusionProof(d)
                    THEN addPowerDistUpdateEvent(delEvents, tip, <<d, "ACTIVE">>)
                    ELSE delEvents
    /\ UNCHANGED <<tip, indexed, fpEvents, slashEvents, status, dist>>

AddCovenantSigs(d) ==
    /\ del[d].created /\ ~Finished(d)
    /\ del[d].sigs < Members
    /\ LateSigs \/ InTime(d)
    /\ del' = [del EXCEPT ![d].sigs = @ + 1]
    /\ delEvents' = IF del[d].sigs + 1 = Quorum /\ HasInclusionProof(d)
                    THEN addPowerDistUpdateEvent(delEvents, tip, <<d, "ACTIVE">>)
                    ELSE delEvents
    /\ UNCHANGED <<tip, indexed, fpEvents, slashEvents, status, dist>>

(* Keeper.AddBTCDelegationInclusionProof: what it requires and records. *)
CanInclude(d, s) ==
    /\ del[d].created /\ ~HasInclusionProof(d)
    /\ HasCovenantQuorums(d) /\ ~del[d].unbonded
    /\ VerifyInclusionProof(s)
    /\ s >= del[d].tipAt

Included(d, s) == [del[d] EXCEPT !.start = s, !.end = s + StakingTime]

InclusionEvents(d, s) ==
    addPowerDistUpdateEvent(addPowerDistUpdateEvent(delEvents, tip, <<d, "ACTIVE">>),
                            ExpiryHeight(s), <<d, "EXPIRED">>)

(* Mutation: the message takes a stake expansion as well. *)
InclusionProofOfAny(d) ==
    /\ \E s \in 1..tip :
          /\ CanInclude(d, s)
          /\ del' = [del EXCEPT ![d] = Included(d, s)]
          /\ delEvents' = InclusionEvents(d, s)
    /\ UNCHANGED <<tip, indexed, fpEvents, slashEvents, status, dist>>

(* MsgAddBTCDelegationInclusionProof: not for stake expansions. *)
AddBTCDelegationInclusionProof(d) ==
    /\ ~IsStakeExpansion(d)
    /\ \E s \in 1..tip :
          /\ CanInclude(d, s)
          /\ del' = [del EXCEPT ![d] = Included(d, s)]
          /\ delEvents' = InclusionEvents(d, s)
    /\ UNCHANGED <<tip, indexed, fpEvents, slashEvents, status, dist>>

(* btcUndelegate: the event is recorded only for an included delegation. *)
UnbondEvents(E, d) ==
    IF HasInclusionProof(d) THEN addPowerDistUpdateEvent(E, tip, <<d, "UNBONDED">>) ELSE E

(* BTCUndelegate with an unbonding or any other spending transaction. *)
BTCUndelegate(d) ==
    /\ del[d].created /\ ~Finished(d)
    /\ del' = [del EXCEPT ![d].unbonded = TRUE]
    /\ delEvents' = UnbondEvents(delEvents, d)
    /\ UNCHANGED <<tip, indexed, fpEvents, slashEvents, status, dist>>

(* BTCUndelegate with the staking transaction of expansion x: x becomes    *)
(* active and the delegation it expands is unbonded, in one message.       *)
BTCUndelegateByExpansion(d, x) ==
    /\ PrevOf[x] = d
    /\ del[d].created /\ ~Finished(d)
    /\ \E s \in 1..tip :
          /\ CanInclude(x, s)
          /\ del' = [del EXCEPT ![x] = Included(x, s), ![d].unbonded = TRUE]
          /\ delEvents' = UnbondEvents(InclusionEvents(x, s), d)
    /\ UNCHANGED <<tip, indexed, fpEvents, slashEvents, status, dist>>

-----------------------------------------------------------------------------
(* Finality providers *)

JailFinalityProvider(f) ==
    /\ f \in Faulty \ (slashed \cup jailed)
    /\ jailed' = jailed \cup {f}
    /\ fpEvents' = [fpEvents EXCEPT ![tip][f] = "jailed"]
    /\ UNCHANGED <<tip, indexed, del, delEvents, slashEvents, slashed, dist>>

UnjailFinalityProvider(f) ==
    /\ f \in jailed \ slashed
    /\ jailed' = jailed \ {f}
    /\ fpEvents' = [fpEvents EXCEPT ![tip][f] = "unjailed"]
    /\ UNCHANGED <<tip, indexed, del, delEvents, slashEvents, slashed, dist>>

SlashFinalityProvider(f) ==
    /\ f \in Faulty \ slashed
    /\ slashed' = slashed \cup {f}
    /\ slashEvents' = [slashEvents EXCEPT ![tip] = @ \cup {f}]
    /\ UNCHANGED <<tip, indexed, del, delEvents, fpEvents, jailed, dist>>

-----------------------------------------------------------------------------
(* The light client: headers extend the chain, or a heavier fork replaces  *)
(* its end.  A fork point Depth or more below the tip halts the chain at   *)
(* the end of the block.                                                   *)

InsertHeaders ==
    /\ tip' \in (IF Dips THEN tip - Depth + 2 ELSE tip + 1)..MaxTip
    /\ tip' >= BaseTip /\ tip' # tip
    /\ UNCHANGED <<indexed, del, events, status, dist>>

-----------------------------------------------------------------------------
(* BeginBlock: IndexBTCHeight and UpdatePowerDist *)

Window == indexed..tip

(* Mutation: an expired event is applied to unbonded delegations too. *)
EventDeltaExpiredTwice(d, s) ==
    CASE s = "ACTIVE" -> SatOf[d]
      [] s = "UNBONDED" -> IF HasCovenantQuorums(d) THEN -SatOf[d] ELSE 0
      [] s = "EXPIRED" -> IF HasCovenantQuorums(d) THEN -SatOf[d] ELSE 0

(* processBtcDelUpdate and processExpiredEvents: the change an event makes *)
(* to the provider's sats.                                                 *)
EventDelta(d, s) ==
    CASE s = "ACTIVE" -> SatOf[d]
      [] s = "UNBONDED" -> IF HasCovenantQuorums(d) THEN -SatOf[d] ELSE 0
      [] s = "EXPIRED" -> IF ~del[d].unbonded /\ HasCovenantQuorums(d) THEN -SatOf[d] ELSE 0

EventsOf(f) == {k \in Window \X Del \X DelState : FpOf[k[2]] = f}

DeltaSats(f) ==
    MapThenSumSet(LAMBDA k : CopiesIn(<<k[2], k[3]>>, delEvents[k[1]]) * EventDelta(k[2], k[3]),
                  EventsOf(f))

(* FPStatesByBtcPk: the jailed flag of the cached entry or of the stored   *)
(* provider, overridden by the last event at the highest BTC height.       *)
FpEventHeights(f) == {b \in Window : fpEvents[b][f] # "none"}

(* Mutation: the jailed flag of the cached entry is forgotten. *)
JailedForgotten(f) ==
    /\ FpEventHeights(f) # {}
    /\ fpEvents[Max(FpEventHeights(f))][f] = "jailed"

JailedAfter(f) ==
    IF FpEventHeights(f) # {} THEN fpEvents[Max(FpEventHeights(f))][f] = "jailed"
    ELSE IF cache[f].sats > 0 THEN cache[f].jailed ELSE f \in jailed

(* A slashed provider is not carried over and not added again. *)
Dropped(f) ==
    \/ \E b \in Window : f \in slashEvents[b]
    \/ cache[f].sats = 0 /\ f \in slashed

NewSats(f) == cache[f].sats + DeltaSats(f)

(* ChangeDeltaSats fails and ProcessAllPowerDistUpdateEvents panics. *)
BeginBlockPanics == \E f \in FP : ~Dropped(f) /\ NewSats(f) < 0

(* An entry is carried over or added only with stake. *)
ProcessAllPowerDistUpdateEvents ==
    [f \in FP |-> IF Dropped(f) \/ NewSats(f) = 0 THEN Absent
                  ELSE [sats |-> NewSats(f), jailed |-> JailedAfter(f)]]

(* SortFinalityProvidersWithZeroedVotingPower and the cut at n. *)
Outranks(dc, f, g) ==
    \/ dc[f].sats > dc[g].sats
    \/ dc[f].sats = dc[g].sats /\ f < g

ApplyActiveFinalityProviders(dc, ts, n) ==
    LET eligible == {f \in ts : dc[f].sats > 0 /\ ~dc[f].jailed}
    IN  {f \in eligible : Cardinality({g \in eligible : Outranks(dc, g, f)}) < n}

(* ClearPowerDistUpdateEvents over the window. *)
Cleared(E, none) == [b \in BtcHeights |-> IF b \in Window THEN none ELSE E[b]]

BeginBlock ==
    /\ ~BeginBlockPanics
    /\ \E without \in SUBSET Late :
          LET dc == ProcessAllPowerDistUpdateEvents
              inCache == {f \in FP \ without : dc[f].sats > 0}
          IN  /\ cache' = dc
              /\ timestamped' = inCache
              /\ active' = ApplyActiveFinalityProviders(dc, inCache, MaxActive)
    /\ indexed' = tip
    /\ delEvents' = Cleared(delEvents, EmptyBag)
    /\ fpEvents' = Cleared(fpEvents, [f \in FP |-> "none"])
    /\ slashEvents' = Cleared(slashEvents, {})
    /\ UNCHANGED <<tip, del, status>>

(* HandleResumeFinalityProposal, for the current height: the listed        *)
(* providers are jailed and the current cache is computed again with the   *)
(* number of active providers as the limit.                                *)
HandleResumeFinalityProposal(S) ==
    /\ jailed' = jailed \cup (S \ slashed)
    /\ fpEvents' = [fpEvents EXCEPT ![tip] =
                      [f \in FP |-> IF f \in S \ (slashed \cup jailed) THEN "jailed" ELSE @[f]]]
    /\ cache' = [f \in FP |-> IF f \in S /\ cache[f].sats > 0
                              THEN [cache[f] EXCEPT !.jailed = TRUE] ELSE cache[f]]
    /\ active' = ApplyActiveFinalityProviders(cache', timestamped, Cardinality(active))
    /\ UNCHANGED <<tip, indexed, del, delEvents, slashEvents, slashed, timestamped>>

-----------------------------------------------------------------------------
Next ==
    \/ \E d \in Del :
          \/ CreateIncluded(d)
          \/ CreatePreApproval(d)
          \/ AddCovenantSigs(d)
          \/ AddBTCDelegationInclusionProof(d)
          \/ BTCUndelegate(d)
          \/ \E x \in Del : BTCUndelegateByExpansion(d, x)
    \/ \E f \in FP :
          \/ JailFinalityProvider(f)
          \/ UnjailFinalityProvider(f)
          \/ SlashFinalityProvider(f)
    \/ \E S \in SUBSET Faulty \ {{}} : HandleResumeFinalityProposal(S)
    \/ InsertHeaders
    \/ BeginBlock

Spec == Init /\ [][Next]_vars

-----------------------------------------------------------------------------
(* Properties *)

(* Right after BeginBlock: every event up to the tip is consumed. *)
Fresh ==
    /\ indexed = tip
    /\ \A b \in BtcHeights : b <= tip =>
          /\ delEvents[b] = EmptyBag
          /\ slashEvents[b] = {}
          /\ \A f \in FP : fpEvents[b][f] = "none"

ActiveSats(f) ==
    MapThenSumSet(LAMBDA d : SatOf[d],
                  {d \in Del : del[d].created /\ FpOf[d] = f /\ GetStatus(d, tip) = "ACTIVE"})

(* Once BeginBlock has run, the stake cached for a provider that is not    *)
(* slashed is the sum of its active delegations: whatever the order of     *)
(* signatures, inclusion, unbonding and expiry, a delegation counts iff it *)
(* is active (the comment on BTCDelegation.VotingPower).                   *)
VotingPowerIffActive ==
    Fresh => \A f \in FP \ slashed : cache[f].sats = ActiveSats(f)

(* Removing the sats of unbonded and expired delegations never takes more  *)
(* than the provider has, so UpdatePowerDist does not panic.               *)
BeginBlockNeverPanics == ~BeginBlockPanics

(* Once BeginBlock has run, the cache and btcstaking agree on the          *)
(* providers: a slashed one is neither cached nor active, and stays so     *)
(* although its delegations keep changing; one with stake is jailed in the *)
(* cache iff it is in btcstaking, whichever jailings, unjailings and       *)
(* resume proposals came before and although it may have left the cache.   *)
ProvidersAgree ==
    /\ TypeOK
    /\ Fresh => /\ \A f \in slashed : cache[f] = Absent /\ f \notin active
                /\ \A f \in FP : cache[f].sats > 0 => (cache[f].jailed <=> f \in jailed)

(* A delegation and the one it expands are never active together: the same *)
(* coins are not counted twice.                                            *)
StakeCountedOnce ==
    \A x \in Del : del[x].created /\ IsStakeExpansion(x) =>
        ~(GetStatus(x, tip) = "ACTIVE" /\ GetStatus(PrevOf[x], tip) = "ACTIVE")

=============================================================================
