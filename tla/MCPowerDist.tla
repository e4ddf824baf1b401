---------------------------- MODULE MCPowerDist ----------------------------
(* Two instances of PowerDist for TLC.  In "expand" delegation d1 and its  *)
(* expansion x1 go through their whole lives; in "providers" two providers *)
(* with one delegation each are jailed, slashed and resumed.               *)
EXTENDS PowerDist

CONSTANTS d1, d2, x1

VARIABLE part

MCFp == [d \in Del |-> IF d = d2 THEN 2 ELSE 1]
MCSat == [d \in Del |-> IF d = d1 THEN 1 ELSE 2]
MCPrev == [d \in Del |-> IF d = x1 THEN d1 ELSE NoDel]

MCInit == Init /\ part \in {"expand", "providers"}

Within ==
    /\ part = "expand" =>
          /\ ~del'[d2].created /\ jailed' = {} /\ slashed' = {}
          /\ del'[x1].sigs <= Quorum
    /\ part = "providers" =>
          /\ ~del'[x1].created /\ tip' <= BaseTip + 1
          /\ \A d \in Del : del'[d].sigs <= Quorum

MCNext == Next /\ Within /\ UNCHANGED part

MCSpec == MCInit /\ [][MCNext]_<<vars, part>>
=============================================================================
