------------------------------ MODULE Covenant ------------------------------
(***************************************************************************)
(* The covenant emulator: the daemon of one covenant member.  Every tick   *)
(* it lists, page by page, the PENDING delegations that still want its     *)
(* signature, signs them in batches and sends each batch as one            *)
(* transaction, from which it takes out the messages that the chain        *)
(* refuses.  Delegations are numbered in the order of the store's keys.    *)
(* The checks of a delegation against the parameters, the signer and the   *)
(* construction of scripts are abstracted to whether they let a            *)
(* delegation through, and a call that fails is a fault.                   *)
(***************************************************************************)
EXTENDS Integers, Sequences, SequencesExt, FiniteSets

CONSTANTS
    NumDels,            \* number of delegations
    Unsignable,         \* those that a check or the signer turns down every time
    NotMine,            \* those whose committee does not have this member
    Foreign,            \* expansions of a delegation whose committee did not have it
    CovQuorum,          \* signatures that make a delegation VERIFIED
    OtherMembers,       \* number of other members of the committee
    DelegationLimit,    \* delegations of one round
    MaxPagination,      \* MaxPaginationLimit
    SigsBatchSize,
    BatchRetryLimit,    \* MaxRetiresBatchRemovingMsgs, 0 for none
    MaxCovFaults        \* bound: failed calls and restarts

ASSUME CovenantAssumption ==
    /\ NumDels \in Nat /\ Unsignable \cup NotMine \cup Foreign \subseteq 1..NumDels
    /\ CovQuorum \in Nat \ {0} /\ OtherMembers \in Nat /\ BatchRetryLimit \in Nat /\ MaxCovFaults \in Nat
    /\ DelegationLimit \in Nat /\ Cardinality(Unsignable) < DelegationLimit
    /\ MaxPagination \in Nat \ {0} /\ SigsBatchSize \in Nat \ {0}

VARIABLES
    stored,     \* delegations in the store
    unbonded,   \* those unbonded early
    mySigs,     \* those that have the signature of this member
    otherSigs,  \* signatures of other members that each has
    round,      \* what the submission loop is doing
    covFaults   \* number of faults so far

covenantVars == <<stored, unbonded, mySigs, otherSigs, round, covFaults>>

CovDels == 1..NumDels

-----------------------------------------------------------------------------
(* The chain *)

(* GetStatus: PENDING, with or without an inclusion proof.                 *)
PendingSigs(d) ==
    /\ d \in stored \ unbonded
    /\ otherSigs[d] + (IF d \in mySigs THEN 1 ELSE 0) < CovQuorum

CreateDelegation(d) ==
    /\ d \notin stored /\ stored' = stored \cup {d}
    /\ UNCHANGED <<unbonded, mySigs, otherSigs, round, covFaults>>

OtherMemberSigns(d) ==
    /\ d \in stored \ unbonded /\ otherSigs[d] < OtherMembers
    /\ otherSigs' = [otherSigs EXCEPT ![d] = @ + 1]
    /\ UNCHANGED <<stored, unbonded, mySigs, round, covFaults>>

UnbondEarly(d) ==
    /\ d \in stored \ unbonded /\ unbonded' = unbonded \cup {d}
    /\ UNCHANGED <<stored, mySigs, otherSigs, round, covFaults>>

(* AddCovenantSigs refuses a duplicate, also one within the transaction,   *)
(* and a signature for what is unbonded.                                   *)
Refuses(msgs, i) ==
    msgs[i] \in unbonded \/ msgs[i] \in mySigs \/ \E j \in 1..(i - 1) : msgs[j] = msgs[i]

-----------------------------------------------------------------------------
(* QueryPendingDelegations *)

LowestOf(n, m) == IF n < m THEN n ELSE m
PageLimit == LowestOf(MaxPagination, DelegationLimit)

(* BTCDelegations with FilteredPaginate.  The first page is followed by    *)
(* the next PENDING delegation, a later one by the next entry of the       *)
(* store; 0 stands for the empty key, which is also that of the first      *)
(* page.                                                                   *)
InOrder(D) == SelectSeq([d \in CovDels |-> d], LAMBDA d : d \in D)
PendingFrom(key) == InOrder({d \in CovDels : PendingSigs(d) /\ d >= key})
BTCDelegations(key) == SubSeq(PendingFrom(key), 1, LowestOf(PageLimit, Len(PendingFrom(key))))

NextKey(key) ==
    LET page == BTCDelegations(key)
        after == IF key = 0 THEN PendingFrom(page[Len(page)] + 1)
                 ELSE InOrder({d \in stored : d > page[Len(page)]})
    IN  IF after = <<>> THEN 0 ELSE after[1]

(* Mutation: what was signed already is listed as long as it is PENDING.   *)
NothingSigned(d) == FALSE

AlreadySigned(d) == d \in mySigs

AcceptDelegationToSign(d) == ~AlreadySigned(d) /\ d \notin NotMine

(* An expansion that this member cannot sign for is an error, not a no.    *)
FilterFails(d) == AcceptDelegationToSign(d) /\ d \in Foreign

(* The delegations of a page that queryDelegationsWithStatus looks at: it  *)
(* stops when it has found enough.                                         *)
Examined(found, page) ==
    LET before(i) == Len(found) + Len(SelectSeq(SubSeq(page, 1, i - 1), AcceptDelegationToSign))
    IN  SubSeq(page, 1, Cardinality({i \in 1..Len(page) : before(i) < DelegationLimit}))

-----------------------------------------------------------------------------
(* covenantSigSubmissionLoop *)

NextTick == [pc |-> "list", key |-> 0, dels |-> <<>>, msgs |-> <<>>, tries |-> 0]
NextBatch(dels) ==
    IF dels = <<>> THEN NextTick
    ELSE [pc |-> "batch", key |-> 0, dels |-> dels, msgs |-> <<>>, tries |-> 0]

CovFault == covFaults < MaxCovFaults /\ covFaults' = covFaults + 1

(* One page of queryDelegationsWithStatus.  An error ends the round.  A    *)
(* full page is followed by another one; after an empty next key that is   *)
(* the first page again.                                                   *)
ListPage ==
    LET page == BTCDelegations(round.key)
        examined == Examined(round.dels, page)
        found == round.dels \o SelectSeq(examined, AcceptDelegationToSign)
    IN  /\ round.pc = "list"
        /\ \/ CovFault /\ round' = NextTick
           \/ /\ \E i \in 1..Len(examined) : FilterFails(examined[i])
              /\ round' = NextTick /\ UNCHANGED covFaults
           \/ /\ \A i \in 1..Len(examined) : ~FilterFails(examined[i])
              /\ round' = IF Len(found) = DelegationLimit \/ Len(page) # PageLimit
                          THEN NextBatch(found)
                          ELSE [NextTick EXCEPT !.key = NextKey(round.key), !.dels = found]
              /\ UNCHANGED covFaults
        /\ UNCHANGED <<stored, unbonded, mySigs, otherSigs>>

BatchRetries(msgs) ==
    IF BatchRetryLimit = 0 THEN Len(msgs) ELSE LowestOf(BatchRetryLimit, Len(msgs))

(* AddCovenantSignatures up to the submission, for the next one of         *)
(* delegationsToBatches.  Parameters that cannot be read end the batch, a  *)
(* signer that fails leaves out a delegation.                              *)
AddCovenantSignatures ==
    LET n == LowestOf(SigsBatchSize, Len(round.dels))
        signed == SelectSeq(SubSeq(round.dels, 1, n), LAMBDA d : d \notin Unsignable)
        rest == SubSeq(round.dels, n + 1, Len(round.dels))
        Submit(msgs) == IF msgs = <<>> THEN NextBatch(rest)
                        ELSE [pc |-> "send", key |-> 0, dels |-> rest, msgs |-> msgs,
                              tries |-> BatchRetries(msgs)]
    IN  /\ round.pc = "batch"
        /\ \/ round' = Submit(signed) /\ UNCHANGED covFaults
           \/ CovFault /\ round' \in {NextBatch(rest)} \cup {Submit(RemoveAt(signed, i)) : i \in 1..Len(signed)}
        /\ UNCHANGED <<stored, unbonded, mySigs, otherSigs>>

(* One attempt of reliablySendMsgsResendingOnMsgErr.  The transaction is   *)
(* executed as a whole, or refused for its first message that fails, which *)
(* is then taken out.  After any other error the batch is given up, also   *)
(* when the transaction was included and only the answer was lost.         *)
SendBatch ==
    LET refused == {i \in 1..Len(round.msgs) : Refuses(round.msgs, i)}
        first == CHOOSE i \in refused : \A j \in refused : i <= j
        sent == mySigs \cup {round.msgs[i] : i \in 1..Len(round.msgs)}
    IN  /\ round.pc = "send"
        /\ \/ /\ refused = {} /\ mySigs' = sent
              /\ round' = NextBatch(round.dels) /\ UNCHANGED covFaults
           \/ /\ refused # {}
              /\ round' = IF round.tries = 1 THEN NextBatch(round.dels)
                          ELSE [round EXCEPT !.msgs = RemoveAt(@, first), !.tries = @ - 1]
              /\ UNCHANGED <<mySigs, covFaults>>
           \/ /\ CovFault /\ round' = NextBatch(round.dels)
              /\ mySigs' \in {mySigs} \cup (IF refused = {} THEN {sent} ELSE {})
        /\ UNCHANGED <<stored, unbonded, otherSigs>>

(* The daemon keeps nothing on disk.                                       *)
RestartCovenant ==
    /\ CovFault /\ round # NextTick /\ round' = NextTick
    /\ UNCHANGED <<stored, unbonded, mySigs, otherSigs>>

CovenantInit ==
    /\ stored = {} /\ unbonded = {} /\ mySigs = {}
    /\ otherSigs = [d \in CovDels |-> 0]
    /\ round = NextTick /\ covFaults = 0

CovenantLoop == ListPage \/ AddCovenantSignatures \/ SendBatch

CovenantNext ==
    \/ CovenantLoop \/ RestartCovenant
    \/ \E d \in CovDels : CreateDelegation(d) \/ OtherMemberSigns(d) \/ UnbondEarly(d)

-----------------------------------------------------------------------------
(* Property *)

(* "Get all pending delegations": every PENDING delegation that this       *)
(* member can sign gets its signature.  The ones it has signed and that    *)
(* wait for others, the ones it cannot sign (fewer than a round takes) and *)
(* the ones unbonded under way do not keep it from the rest, whatever the  *)
(* pages, batches and lost answers.  An expansion that it must not sign    *)
(* does, as long as it is PENDING.                                         *)
PendingGetSigned ==
    []<>(\/ \E d \in Foreign \ NotMine : PendingSigs(d)
         \/ \A d \in CovDels \ (Unsignable \cup NotMine) : PendingSigs(d) => d \in mySigs)
=============================================================================
