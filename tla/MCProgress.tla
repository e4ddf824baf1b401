----------------------------- MODULE MCProgress -----------------------------
(* The parts that promise progress.  A behaviour exercises one part and    *)
(* leaves the others as they are initially: "tally": the chain counts the  *)
(* votes of two providers, finalises blocks and rewards them; "submit":    *)
(* the vigilante submitter writes the checkpoints of two epochs to         *)
(* Bitcoin; "report": the vigilante reporter brings Bitcoin's headers and  *)
(* the checkpoint of an epoch to the chain; "watch": the staking event     *)
(* watcher follows a delegation, and one that may be expanded; "sign": a   *)
(* covenant member signs PENDING delegations.                              *)
EXTENDS Tally, Submitter, Reporter, StakingWatcher, Covenant, TLC

CONSTANTS f1, f2, d1, x1, Parts

VARIABLE part

(* Together they are a quorum, f2 alone has exactly two thirds. *)
MCTables == {[f \in FP |-> 0], f1 :> 1 @@ f2 :> 2}

MCSegments == <<<<1, 0>>, <<1, 1>>>>
MCFaults == [fail |-> 1, crash |-> 1, other |-> 1]

(* x1 expands d1; both are new, or d1 is active and x1 has its signatures. *)
MCExpands == d1 :> NoStake @@ x1 :> d1
MCNew == d1 :> "PENDING" @@ x1 :> "PENDING"
MCStarts == {MCNew, d1 :> "ACTIVE" @@ x1 :> "VERIFIED"}

MCInit ==
    /\ part \in Parts /\ Init /\ SubmitterInit
    /\ ReporterInit /\ (part # "report" => Len(lc) = Len(btc))
    /\ WatcherInit /\ (part # "watch" => delStatus = MCNew)
    /\ CovenantInit

(* One mishap, or a lost transaction and a restart.                        *)
SubmitWithin ==
    /\ mishaps'.fault + mishaps'.restart + mishaps'.forgotten <= 1
    /\ mishaps'.fault + mishaps'.lost + mishaps'.forgotten <= 1
(* The expansion matters once d1 is active, the timelock before that.      *)
WatchWithin == IF includedAt[d1] = 1 THEN delStatus'[d1] # "EXPIRED"
               ELSE delStatus'[x1] = "PENDING"
(* What this member cannot sign comes first; it and what is not for this   *)
(* member only take up place.                                              *)
SignWithin ==
    /\ Unsignable \subseteq stored \/ stored' \subseteq Unsignable
    /\ Cardinality(unbonded') <= 1 /\ unbonded' \cap (Unsignable \cup NotMine) = {}
    /\ \A d \in Unsignable \cup NotMine : otherSigs'[d] = 0
    /\ \A d \in CovDels \ Foreign : otherSigs'[d] <= 1
ReportWithin == repFaults'.fail + repFaults'.crash + repFaults'.other <= 1

TallyPart ==
    /\ part = "tally" /\ Next
    /\ UNCHANGED <<submitterVars, reporterVars, watcherVars, covenantVars, part>>

SubmitPart ==
    /\ part = "submit" /\ SubmitterNext /\ SubmitWithin
    /\ UNCHANGED <<vars, reporterVars, watcherVars, covenantVars, part>>

ReportPart ==
    /\ part = "report" /\ ReporterNext /\ ReportWithin
    /\ UNCHANGED <<vars, submitterVars, watcherVars, covenantVars, part>>

WatchPart ==
    /\ part = "watch" /\ WatcherNext /\ WatchWithin
    /\ UNCHANGED <<vars, submitterVars, reporterVars, covenantVars, part>>

SignPart ==
    /\ part = "sign" /\ CovenantNext /\ SignWithin
    /\ UNCHANGED <<vars, submitterVars, reporterVars, watcherVars, part>>

(* The fairness of each component, in its part and within its bounds.      *)
MCSpec ==
    /\ MCInit
    /\ [][TallyPart \/ SubmitPart \/ ReportPart \/ WatchPart \/ SignPart]_<<
           vars, submitterVars, reporterVars, watcherVars, covenantVars, part>>
    /\ WF_vars(part = "tally" /\ ((\E t \in Tables : BeginBlock(t)) \/ BeginLaterBlock \/ EndBlock))
    /\ \A f \in Honest : SF_vars(part = "tally" /\ \E h \in Heights : AddFinalitySig(f, h))
    /\ WF_submitterVars(part = "submit" /\ PollerLoop)
    /\ WF_submitterVars(part = "submit" /\ ProcessLoop /\ SubmitWithin)
    /\ WF_submitterVars(part = "submit" /\ \E tx \in mempool : Mine(tx))
    /\ WF_submitterVars(part = "submit" /\ \E e \in CkptEpoch : SubmittedOnChain(e))
    /\ WF_reporterVars(part = "report" /\ ~repPanicked /\ MainLoop /\ ReportWithin)
    /\ WF_reporterVars(part = "report" /\ ~repPanicked /\ AsyncLoop)
    /\ WF_watcherVars(part = "watch" /\ Retrieve)
    /\ WF_watcherVars(part = "watch" /\ InsertHeader)
    /\ WF_watcherVars(part = "watch" /\ OtherBlock)
    /\ \A d \in Stakes : WF_watcherVars(part = "watch" /\ Activate(d))
    /\ \A d \in Stakes : WF_watcherVars(part = "watch" /\ \E i \in 1..2 : CheckSpend(d, i))
    /\ \A d \in Stakes, i \in 1..2 : WF_watcherVars(part = "watch" /\ Report(d, i))
    /\ WF_covenantVars(part = "sign" /\ CovenantLoop)
=============================================================================
