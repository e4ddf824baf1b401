----------------------------- MODULE MCProvider -----------------------------
(* The daemons of a finality provider and the vigilante's slashers, which  *)
(* act when it equivocates.  A behaviour exercises one part and leaves the *)
(* others as they are initially: "steady" and "shaky": the      *)
(* submission loop of a provider that is always active, or that may leave  *)
(* the active set, be jailed or slashed; "commit": the randomness loop;    *)
(* "sign": the requests to the EOTS manager for one key; "keys": the       *)
(* manager's keys; "evidence": the slashers with two offenders on the      *)
(* chain; "selective": with one that slashes a delegation by itself.       *)
EXTENDS FPDaemon, FPRandomness, EOTSManager, BTCSlasher, TLC

CONSTANTS Parts, p1, n1, m1, w1, o1, o2, d1, d2, e1

VARIABLE part

(* o1 has two delegations, o2 has one; one of the three has expired.       *)
MCFpOf == d1 :> o1 @@ d2 :> o1 @@ e1 :> o2

MCInit ==
    /\ Init /\ RandInit /\ EOTSInit /\ part \in Parts
    /\ SlasherInit
    /\ {d \in Secured : delState[d] = "EXPIRED"} = IF part = "evidence" THEN {d2} ELSE {e1}

Within ==
    /\ part = "steady" => jails' = 0 /\ fpStatus' = "ok" /\ power' = 2..tip'
    /\ part = "shaky" => /\ faults' <= 1
                         /\ jails' > 0 => faults' = 0 /\ fpStatus' # "slashed" /\ tip' <= 3

Signing == {w \in Worker : job'[w] # Idle}

OneKey ==
    /\ \A n \in KeyName : keyring'[n] # None => n = n1 /\ keyring'[n] = p1
    /\ \A w \in Signing : \A s \in job'[w].resp : s.key[1] = p1

OneSignature ==
    /\ Signing \subseteq {w1} /\ rolledBack' = {}
    /\ \A w \in Signing : \A s \in job'[w].resp : s.key[3] = 1 /\ s.msg = m1

Vote == part \in {"steady", "shaky"} /\ Next /\ Within /\ UNCHANGED <<randVars, eotsVars, slasherVars, part>>
Commit == part = "commit" /\ RandNext /\ UNCHANGED <<vars, eotsVars, slasherVars, part>>
Sign ==
    /\ part \in {"sign", "keys"} /\ EOTSNext /\ UNCHANGED <<vars, randVars, slasherVars, part>>
    /\ IF part = "sign" THEN OneKey ELSE OneSignature

(* One failed call or one restart.  With evidence only d1 unbonds; one     *)
(* that slashes selectively has no evidence, and d2 stays.                 *)
SlashWithin ==
    /\ failures' + kills' <= 1
    /\ IF part = "evidence" THEN /\ exposed' = {} /\ index' = {}
                                 /\ coin'[d1] # "gone" /\ delState'[d1] # "EXPIRED"
                                 /\ coin'[d2] = "staked" /\ coin'[e1] # "unbonding"
                                 /\ delState'[e1] = "ACTIVE"
       ELSE /\ evidence' = evidence /\ coin'[d2] # "gone" /\ delState'[d2] = "ACTIVE"
            /\ coin'[e1] = "staked"

Tracking == part \in {"evidence", "selective"}
Tracker ==
    /\ Tracking /\ SlasherNext /\ SlashWithin
    /\ UNCHANGED <<vars, randVars, eotsVars, part>>

MCSpec ==
    /\ MCInit /\ [][Vote \/ Commit \/ Sign \/ Tracker]_<<vars, randVars, eotsVars, slasherVars, part>>
    /\ WF_vars(Vote /\ Start) /\ WF_vars(Vote /\ Poller) /\ WF_vars(Vote /\ Submitter)
    /\ WF_randVars(Commit /\ Loop)
    /\ WF_randVars(Commit /\ \E s \in pending : CommitPubRandList(s))
    /\ WF_slasherVars(Tracking /\ EvidenceLoop) /\ WF_slasherVars(Tracking /\ Mined)
    /\ \A d \in Secured, i \in 1..2 : WF_slasherVars(Tracking /\ SlashJob(d, i))
    /\ WF_slasherVars(Tracking /\ \E d \in Secured : SelectiveSlashingReporter(d))
    /\ WF_slasherVars(Tracking /\ \E p \in Offenders : SlashingEnforcer(p))

(* FPRandomness: EventuallyAhead, in the part in which the loop runs.      *)
RandomnessCatchesUp == <>[](part = "commit" => Ahead)
=============================================================================
