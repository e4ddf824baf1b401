----------------------------- MODULE FPLiveness -----------------------------
(***************************************************************************)
(* Liveness tracking of finality providers (x/finality): the sliding window *)
(* of missed blocks, jailing of sluggish providers, unjailing, and the      *)
(* governance proposal that jails the providers which halt finality.        *)
(*                                                                          *)
(* A block is one BeginBlock, any number of messages, at most one           *)
(* governance proposal (gov is the first EndBlocker of app.go) and one      *)
(* EndBlock.  Block time is the height.  Which providers are eligible (have *)
(* a timestamped public randomness commitment) is left open here; every     *)
(* provider keeps some stake, and Rank orders them by stake.                *)
(***************************************************************************)
EXTENDS Integers, FiniteSets

CONSTANTS
  FP,              \* finality providers
  Rank,            \* [FP -> Nat]: order by bonded satoshis, lower is larger
  MaxActive,       \* params.MaxActiveFinalityProviders
  Windows,         \* values that params.SignedBlocksWindow may take
  MinSignedPct,    \* params.MinSignedPerWindow, in percent
  SigTimeout,      \* params.FinalitySigTimeout, in blocks
  JailDuration,    \* params.JailDuration, in block times
  Faulty,          \* providers that may be slashed
  MaxProposals,    \* bound on the number of resume proposals
  MaxHeight        \* bound on the chain height

ASSUME LivenessAssumption ==
  /\ IsFiniteSet(FP)
  /\ Rank \in [FP -> Nat]
  /\ \A f, g \in FP : Rank[f] = Rank[g] => f = g
  /\ MaxActive \in Nat \ {0}
  /\ Windows \subseteq Nat \ {0}
  /\ MinSignedPct \in 0..100
  /\ SigTimeout \in Nat \ {0}
  /\ JailDuration \in Nat
  /\ Faulty \subseteq FP
  /\ MaxProposals \in Nat
  /\ MaxHeight \in Nat

VARIABLES
  height,      \* current block height
  phase,       \* where in the block we are: "begin", "txs" or "end"
  window,      \* params.SignedBlocksWindow
  entries,     \* [height -> providers with an entry in the voting power table]
  zeroed,      \* [height -> providers whose entry a proposal set to zero]
  voters,      \* [height -> providers with a finality signature]
  eligible,    \* [height -> providers of the distribution cache that may be active]
  cacheActive, \* [height -> active set of the distribution cache]
  jailed,      \* FinalityProvider.Jailed
  slashed,     \* FinalityProvider.IsSlashed()
  startHeight, \* signing info: StartHeight, 0 if there is no signing info
  missed,      \* signing info: MissedBlocksCounter
  jailedUntil, \* signing info: JailedUntil
  bitmap,      \* missed block bitmap: the indices whose bit is set
  proposals,   \* number of resume proposals executed
  absent,      \* history: [height -> providers counted as absent]
  jailedAt,    \* history: the height at which a provider was last jailed
  resized      \* history: has the window been changed?

blockVars == <<entries, zeroed, eligible, cacheActive>>
infoVars == <<startHeight, missed, jailedUntil, bitmap>>
historyVars == <<proposals, absent, jailedAt, resized>>
vars == <<height, phase, window, voters, jailed, slashed,
          blockVars, infoVars, historyVars>>

Heights == 1..MaxHeight

\* Indices of the bitmap under any window.
Indices == {i \in Nat : \E w \in Windows : i < w}

\* Half-even rounding of LegacyDec.RoundInt64.
MinSignedPerWindowInt(w) ==
  LET whole == (w * MinSignedPct) \div 100
      rest  == (w * MinSignedPct) % 100
  IN  IF rest < 50 \/ (rest = 50 /\ whole % 2 = 0) THEN whole ELSE whole + 1

MaxMissed(w) == w - MinSignedPerWindowInt(w)

TypeOK ==
  /\ height \in 0..MaxHeight
  /\ phase \in {"begin", "txs", "end"}
  /\ window \in Windows
  /\ entries \in [Heights -> SUBSET FP]
  /\ zeroed \in [Heights -> SUBSET FP]
  /\ voters \in [Heights -> SUBSET FP]
  /\ absent \in [Heights -> SUBSET FP]
  /\ proposals \in 0..MaxProposals
  /\ jailedAt \in [FP -> Nat]
  /\ resized \in BOOLEAN
  /\ eligible \in [Heights -> SUBSET FP]
  /\ cacheActive \in [Heights -> SUBSET FP]
  /\ jailed \in SUBSET FP
  /\ slashed \in SUBSET FP
  /\ startHeight \in [FP -> 0..MaxHeight]
  /\ missed \in [FP -> Int]
  /\ jailedUntil \in [FP -> Nat]
  /\ bitmap \in [FP -> SUBSET Indices]

Init ==
  /\ height = 0
  /\ phase = "begin"
  /\ window \in Windows
  /\ entries = [h \in Heights |-> {}]
  /\ zeroed = [h \in Heights |-> {}]
  /\ voters = [h \in Heights |-> {}]
  /\ absent = [h \in Heights |-> {}]
  /\ proposals = 0
  /\ jailedAt = [fp \in FP |-> 0]
  /\ resized = FALSE
  /\ eligible = [h \in Heights |-> {}]
  /\ cacheActive = [h \in Heights |-> {}]
  /\ jailed = {}
  /\ slashed = {}
  /\ startHeight = [fp \in FP |-> 0]
  /\ missed = [fp \in FP |-> 0]
  /\ jailedUntil = [fp \in FP |-> 0]
  /\ bitmap = [fp \in FP |-> {}]

-----------------------------------------------------------------------------
(* BeginBlock: a new voting power table; newly active providers get a fresh *)
(* StartHeight.  Counter and bitmap survive a period of inactivity.         *)

\* The first n providers of S in the order of their stake.
ApplyActiveFinalityProviders(S, n) ==
  {fp \in S : Cardinality({g \in S : Rank[g] < Rank[fp]}) < n}

PrevActive == IF height = 0 THEN {} ELSE cacheActive[height]

\* Mutation: a provider without signing info gets none.
ActivatedCreatesNothing(newlyActive, h) ==
  startHeight' = [fp \in FP |-> IF fp \in newlyActive /\ startHeight[fp] # 0
                               THEN h ELSE startHeight[fp]]

HandleActivatedFinalityProvider(newlyActive, h) ==
  startHeight' = [fp \in FP |-> IF fp \in newlyActive THEN h ELSE startHeight[fp]]

\* UpdatePowerDist, with the set of eligible providers as its input.
BeginBlock(candidates) ==
  /\ phase = "begin"
  /\ height < MaxHeight
  /\ candidates \cap (jailed \cup slashed) = {}
  /\ LET actives == ApplyActiveFinalityProviders(candidates, MaxActive)
         newlyActive == actives \ PrevActive
     IN  /\ entries' = [entries EXCEPT ![height + 1] = actives]
         /\ eligible' = [eligible EXCEPT ![height + 1] = candidates]
         /\ cacheActive' = [cacheActive EXCEPT ![height + 1] = actives]
         /\ HandleActivatedFinalityProvider(newlyActive, height + 1)
         /\ jailedUntil' = [fp \in FP |-> IF fp \in newlyActive THEN 0 ELSE jailedUntil[fp]]
  /\ height' = height + 1
  /\ phase' = "txs"
  /\ UNCHANGED <<window, zeroed, voters, jailed, slashed, missed, bitmap, historyVars>>

-----------------------------------------------------------------------------
(* Messages.                                                                *)

\* A block is indexed by its own EndBlock, so votes are for past heights.
AddFinalitySig(fp, h) ==
  /\ phase = "txs"
  /\ h < height
  /\ fp \notin slashed \cup jailed
  /\ fp \in entries[h] \ zeroed[h]
  /\ fp \notin voters[h]
  /\ voters' = [voters EXCEPT ![h] = @ \cup {fp}]
  /\ UNCHANGED <<height, phase, window, jailed, slashed, blockVars, infoVars, historyVars>>

UnjailFinalityProvider(fp) ==
  /\ phase = "txs"
  /\ fp \in jailed \ slashed
  /\ startHeight[fp] # 0
  /\ jailedUntil[fp] < height
  /\ jailed' = jailed \ {fp}
  /\ UNCHANGED <<height, phase, window, voters, slashed, blockVars, infoVars, historyVars>>

SlashFinalityProvider(fp) ==
  /\ phase = "txs"
  /\ fp \notin slashed
  /\ slashed' = slashed \cup {fp}
  /\ UNCHANGED <<height, phase, window, voters, jailed, blockVars, infoVars, historyVars>>

-----------------------------------------------------------------------------
(* Governance, the first EndBlocker.                                        *)

UpdateParams(w) ==
  /\ phase \in {"txs", "end"}
  /\ w # window
  /\ window' = w
  /\ phase' = "end"
  /\ resized' = TRUE
  /\ UNCHANGED <<height, voters, jailed, slashed, blockVars, infoVars,
                 proposals, absent, jailedAt>>

\* The active set of the cache of height h once the listed providers are
\* marked as jailed: freed slots go to the next providers in line.
ActiveWithout(listed, h) ==
  ApplyActiveFinalityProviders(eligible[h] \ listed, Cardinality(cacheActive[h]))

\* A listed provider gets a zero entry in the table of every height from the
\* halting height on, whether or not it had an entry.
HandleResumeFinalityProposal(halt, listed) ==
  /\ phase \in {"txs", "end"}
  /\ proposals < MaxProposals
  /\ proposals' = proposals + 1
  /\ halt <= height
  /\ listed \cap voters[halt] = {}
  /\ LET toJail   == listed \ (jailed \cup slashed)
         affected == halt..height
         promoted == UNION {ActiveWithout(listed, h) \ cacheActive[h] : h \in affected}
     IN  /\ \A fp \in toJail : startHeight[fp] # 0
         /\ jailed' = jailed \cup toJail
         /\ missed' = [fp \in FP |-> IF fp \in toJail THEN 0 ELSE missed[fp]]
         /\ bitmap' = [fp \in FP |-> IF fp \in toJail THEN {} ELSE bitmap[fp]]
         /\ jailedUntil' = [fp \in FP |-> IF fp \in promoted THEN 0
                                         ELSE IF fp \in toJail THEN height + JailDuration
                                         ELSE jailedUntil[fp]]
         /\ HandleActivatedFinalityProvider(promoted, height)
         /\ entries' = [h \in Heights |-> IF h \in affected THEN entries[h] \cup listed ELSE entries[h]]
         /\ zeroed' = [h \in Heights |-> IF h \in affected THEN zeroed[h] \cup listed ELSE zeroed[h]]
         /\ eligible' = [h \in Heights |-> IF h \in affected THEN eligible[h] \ listed ELSE eligible[h]]
         /\ cacheActive' = [h \in Heights |-> IF h \in affected THEN ActiveWithout(listed, h) ELSE cacheActive[h]]
         /\ jailedAt' = [fp \in FP |-> IF fp \in toJail THEN height ELSE jailedAt[fp]]
  /\ phase' = "end"
  /\ UNCHANGED <<height, window, voters, slashed, absent, resized>>

-----------------------------------------------------------------------------
(* EndBlock of x/finality: HandleLiveness of the height that timed out.     *)

Examined == height - SigTimeout

\* Providers whose liveness is handled; slashed and jailed ones are skipped.
Handled == IF Examined < 1 THEN {} ELSE entries[Examined] \ (jailed \cup slashed)

\* UpdateSigningInfo leaves a provider alone that became active later.
Counted == {fp \in Handled : startHeight[fp] <= Examined}

MissedIndex(fp) == (Examined - startHeight[fp]) % window

UpdatedBitmap(fp) ==
  IF fp \notin Counted THEN bitmap[fp]
  ELSE IF fp \in voters[Examined] THEN bitmap[fp] \ {MissedIndex(fp)}
  ELSE bitmap[fp] \cup {MissedIndex(fp)}

UpdatedMissed(fp) ==
  IF fp \notin Counted THEN missed[fp]
  ELSE LET previous == MissedIndex(fp) \in bitmap[fp]
           isMissed == fp \notin voters[Examined]
       IN  IF ~previous /\ isMissed THEN missed[fp] + 1
           ELSE IF previous /\ ~isMissed THEN missed[fp] - 1
           ELSE missed[fp]

\* Mutation: one more absence is tolerated.
SluggishTooLate ==
  {fp \in Handled : /\ Examined > startHeight[fp] + window
                    /\ UpdatedMissed(fp) > MaxMissed(window) + 1}

Sluggish ==
  {fp \in Handled : /\ Examined > startHeight[fp] + window
                    /\ UpdatedMissed(fp) > MaxMissed(window)}

\* Missing signing info makes HandleLiveness panic: the chain stops.
HandleLiveness ==
  /\ phase \in {"txs", "end"}
  /\ \A fp \in Handled : startHeight[fp] # 0
  /\ missed' = [fp \in FP |-> IF fp \in Sluggish THEN 0 ELSE UpdatedMissed(fp)]
  /\ bitmap' = [fp \in FP |-> IF fp \in Sluggish THEN {} ELSE UpdatedBitmap(fp)]
  /\ jailedUntil' = [fp \in FP |-> IF fp \in Sluggish THEN height + JailDuration ELSE jailedUntil[fp]]
  /\ jailed' = jailed \cup Sluggish
  /\ jailedAt' = [fp \in FP |-> IF fp \in Sluggish THEN height ELSE jailedAt[fp]]
  /\ absent' = [h \in Heights |-> IF h = Examined THEN Counted \ voters[h] ELSE absent[h]]
  /\ phase' = "begin"
  /\ UNCHANGED <<height, window, voters, slashed, blockVars, startHeight, proposals, resized>>

Next ==
  \/ \E candidates \in SUBSET FP : BeginBlock(candidates)
  \/ \E fp \in FP, h \in Heights : AddFinalitySig(fp, h)
  \/ \E fp \in FP : UnjailFinalityProvider(fp)
  \/ \E fp \in Faulty : SlashFinalityProvider(fp)
  \/ \E w \in Windows : UpdateParams(w)
  \/ \E halt \in Heights, listed \in SUBSET FP : HandleResumeFinalityProposal(halt, listed)
  \/ HandleLiveness

Spec == Init /\ [][Next]_vars

-----------------------------------------------------------------------------
(* Properties.                                                              *)

\* The counter of the signing info is the number of bits set in the bitmap:
\* UpdateSigningInfo flips a bit and moves the counter together, and every
\* reset clears both, across jailing, proposals and parameter changes.
CounterMatchesBitmap ==
  \A fp \in FP : IsFiniteSet(bitmap[fp]) /\ missed[fp] = Cardinality(bitmap[fp])

\* HandleLiveness never panics: whoever it handles has signing info, even when
\* a resume proposal has put providers into tables they were not in.
LivenessNeverPanics ==
  phase # "begin" => \A fp \in Handled : startHeight[fp] # 0

\* The heights of the window that ends at the examined height.
WindowHeights == (Examined - window + 1)..Examined

AbsencesInWindow(fp, abs) == Cardinality({h \in WindowHeights : fp \in abs[h]})

\* EndBlock jails a provider only if it had voting power at every height of
\* the window and was absent at more of them than the threshold allows: bits
\* left in the bitmap from an earlier active period never count.  A provider
\* unjailed right after a proposal gave it zero entries can be counted absent
\* at up to SigTimeout heights it could not vote for, so the threshold has to
\* be at least that (the defaults are 3 and 50).  A window that governance
\* has changed leaves bits of the old one behind, which do count.
\* Conversely, after EndBlock no provider is left unjailed that has been
\* active for more than the window and was absent more often than the
\* threshold allows, not counting the absences for which it was jailed before.
JailsTheSluggish ==
  /\ [][\A fp \in jailed' \ jailed :
          (phase' = "begin" /\ ~resized /\ SigTimeout <= MaxMissed(window)) =>
            /\ \A h \in WindowHeights : fp \in entries[h] \ zeroed[h]
            /\ AbsencesInWindow(fp, absent') > MaxMissed(window)]_vars
  /\ [](phase = "begin" /\ ~resized =>
          \A fp \in FP \ (jailed \cup slashed) :
            (/\ startHeight[fp] # 0
             /\ Examined > startHeight[fp] + window
             /\ \A h \in WindowHeights : fp \in entries[h])
              => Cardinality({h \in WindowHeights : /\ fp \in absent[h]
                                                    /\ h + SigTimeout > jailedAt[fp]})
                   <= MaxMissed(window))

=============================================================================
