---------------------------- MODULE MCFPLiveness ----------------------------
(* Two instances of FPLiveness for TLC.  In "compete" two providers are in  *)
(* line for one slot and the window stays; in "alone" there is one provider *)
(* and governance may change the window.                                    *)
EXTENDS FPLiveness, TLC

CONSTANTS f1, f2, LastHeight

VARIABLE part

MCRank == f1 :> 1 @@ f2 :> 2
MCLastHeight == [compete |-> 5, alone |-> 6]

MCInit == Init /\ part \in {"compete", "alone"}

Within ==
  /\ height' <= LastHeight[part]
  /\ part = "compete" => window' = window /\ slashed' = slashed
  /\ part = "alone" => \A h \in Heights : eligible'[h] \cup entries'[h] \subseteq {f1}

MCNext == Next /\ Within /\ UNCHANGED part

MCSpec == MCInit /\ [][MCNext]_<<vars, part>>
=============================================================================
