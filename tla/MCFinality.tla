----------------------------- MODULE MCFinality -----------------------------
(* What the chain does with votes.  A behaviour exercises one part and     *)
(* leaves the others as they are initially: "votes": the votes and the     *)
(* randomness of one provider, and its evidence; "btc": stakers of two     *)
(* providers come and go while blocks are rewarded late and rewards are    *)
(* withdrawn; "co": the stakers also delegate tokens, and the sets of      *)
(* providers and validators change; "ntk": validators are slashed between  *)
(* the messages of their delegators.                                       *)
EXTENDS FinalityVotes, Rewards

CONSTANTS MaxOps, Parts

VARIABLES part, ops

MCProviderOf == [d \in Stake |-> IF d = 3 THEN 2 ELSE 1]
MCStakerOf == [d \in Stake |-> IF d = 1 THEN "a" ELSE "b"]
MCSats == [d \in Stake |-> IF d = 2 THEN 2 ELSE 1]
MCCommission == [p \in Provider |-> 100 * p]
MCGenesisNtk == [k \in Staker \X Validator |-> IF k[2] = 1 THEN 2 ELSE 1]

MCNoNtk == [k \in Staker \X Validator |-> 0]

MCInit == Init /\ RewardsInit /\ part \in Parts /\ ops = 0

(* The changes of stake each part considers.                               *)
MCChanges ==
    /\ phase = "fees"
    /\ \E on \in SUBSET {d \in Stake : stake[d] = "new"} :
       \E off \in SUBSET (Active(stake) \union on), ban \in SUBSET ({1} \ banned) :
          LET E == Eligible(on, off, ban) IN
          /\ CASE part = "btc" -> TRUE
               [] part = "co" -> 3 \notin on /\ Cardinality(on \union off) <= 1 /\ ban = {}
               [] part = "ntk" -> on \union off \union ban = {}
          /\ \E A \in IF part = "btc" THEN {E} ELSE SUBSET E : BeginBlockPower(on, off, ban, A)

Within ==
    /\ ops' <= MaxOps
    /\ part = "btc" =>
          /\ phase' # "epoch" /\ ratio' = ratio
          /\ phase' = "fees" => (Last(fees').btc = 0) <=> (block' = 2)
    /\ part # "ntk" => \A v \in Validator : ~val'[v].cut
    /\ part = "ntk" =>
          /\ phase' = "fees" => Last(fees').btc = 0
          /\ ratio' = ratio
          /\ \A v \in Validator : share'[<<"b", v>>] = share[<<"b", v>>]
          /\ phase # "fees" => val'[2] = val[2]
    /\ part = "co" =>
          /\ nextReward' = 1
          /\ phase' = "epoch" => block' = 2
          /\ \A v \in Validator : share'[<<"b", v>>] = share[<<"b", v>>]
          /\ phase' = "fees" => (Last(fees').btc = 0) <=> (block' = 1)

Votes == Next /\ UNCHANGED <<rewardsVars, ops>>

Rewarding ==
    /\ MCChanges \/ Steps
    /\ ops' = IF phase' = phase /\ phase # "end" THEN ops + 1 ELSE ops
    /\ Within
    /\ UNCHANGED vars

MCNext ==
    \/ part = "votes" /\ Votes /\ UNCHANGED part
    \/ part # "votes" /\ Rewarding /\ UNCHANGED part

MCSpec == MCInit /\ [][MCNext]_<<vars, rewardsVars, part, ops>>
=============================================================================
