------------------------- MODULE EOTSManagerProofs -------------------------
(***************************************************************************)
(* The EOTS manager never double signs, for any set of keys, chains,       *)
(* heights and messages, any number of concurrent handlers and any         *)
(* schedule of crashes, restarts and key operations.  The inductive        *)
(* invariant adds the mutex discipline and what a request in progress      *)
(* knows about the records: the ones it is about to write do not exist     *)
(* yet, the ones it is about to return do.                                 *)
(***************************************************************************)
EXTENDS EOTSManager, TLAPS

Recorded(s) == records[s.key] = [msg |-> s.msg, by |-> s.by]

\* A request in progress holds the mutex of a running daemon.
MutexInv == \A w \in Worker : job[w] # Idle => eotsUp /\ mu = w

\* What a request in progress knows: new signatures are by the right key, at pairwise
\* different heights without a record; the others it will return are recorded.
JobInv ==
  \A w \in Worker :
    /\ \A s \in job[w].resp :
         \/ Recorded(s)
         \/ job[w].phase = "save" /\ s \in job[w].new
    /\ job[w].phase = "save" =>
         /\ \A s \in job[w].new : s.by = s.key[1] /\ records[s.key] = None
         /\ \A s, t \in job[w].new : s.key = t.key => s = t

\* Every record was made with the key it is stored under.
RecordInv == \A k \in Keys : records[k] # None => records[k].by = k[1]

IInv == EOTSTypeOK /\ MutexInv /\ JobInv /\ RecordInv /\ ReleasedIsRecorded /\ SignedByOwnKey

-----------------------------------------------------------------------------

\* What the lookup of a request yields: signatures of the right type; the new ones by
\* the requested key at different heights without a record, the found ones recorded.
LEMMA Lookup ==
  ASSUME EOTSTypeOK, NEW pk \in Pk, NEW c \in Chain,
         NEW H \in SUBSET Height, NEW req \in [H -> Msg],
         FreshSigs(pk, c, req) # {} => SigningKey(pk) # None
  PROVE  /\ FreshSigs(pk, c, req) \in SUBSET Signature
         /\ Found(pk, c, req) \in SUBSET Signature
         /\ \A s \in Found(pk, c, req) : Recorded(s)
         /\ \A s \in FreshSigs(pk, c, req) : s.by = s.key[1] /\ records[s.key] = None
         /\ \A s, t \in FreshSigs(pk, c, req) : s.key = t.key => s = t
<1>1. ASSUME NEW s \in FreshSigs(pk, c, req)
      PROVE  \E h \in H : /\ s = [key |-> <<pk, c, h>>, msg |-> req[h], by |-> pk]
                          /\ records[<<pk, c, h>>] = None
  <2>1. SigningKey(pk) = pk  BY <1>1 DEF SigningKey
  <2> QED  BY <1>1, <2>1 DEF FreshSigs
<1>2. \A h \in H : <<pk, c, h>> \in Keys /\ req[h] \in Msg
  BY DEF Keys
<1>3. ASSUME NEW s \in Found(pk, c, req)
      PROVE  s \in Signature /\ Recorded(s)
  <2>1. PICK h \in H : s = Stored(<<pk, c, h>>) /\ records[<<pk, c, h>>] # None
    BY <1>3 DEF Found
  <2>2. records[<<pk, c, h>>] \in Record
    BY <2>1, <1>2 DEF EOTSTypeOK
  <2> QED  BY <2>1, <2>2, <1>2 DEF Stored, Record, Signature, Recorded
<1>4. ASSUME NEW s \in FreshSigs(pk, c, req)
      PROVE  s \in Signature /\ s.by = s.key[1] /\ records[s.key] = None
  <2>1. PICK h \in H : /\ s = [key |-> <<pk, c, h>>, msg |-> req[h], by |-> pk]
                       /\ records[<<pk, c, h>>] = None
    BY <1>1
  <2>2. s.key = <<pk, c, h>> /\ s.by = pk /\ s \in Signature  BY <2>1, <1>2 DEF Signature
  <2> QED  BY <2>1, <2>2
<1>5. ASSUME NEW s \in FreshSigs(pk, c, req), NEW t \in FreshSigs(pk, c, req), s.key = t.key
      PROVE  s = t
  <2>1. PICK h \in H : s = [key |-> <<pk, c, h>>, msg |-> req[h], by |-> pk]  BY <1>1
  <2>2. PICK g \in H : t = [key |-> <<pk, c, g>>, msg |-> req[g], by |-> pk]  BY <1>1
  <2> QED  BY <2>1, <2>2, <1>5
<1> QED  BY <1>3, <1>4, <1>5

\* Starting a request after its lookup preserves the invariant.
LEMMA BeginInv ==
  ASSUME IInv, NEW w \in Worker, NEW new \in SUBSET Signature, NEW resp \in SUBSET Signature,
         eotsUp, mu = None, Begin(w, new, resp),
         \A s \in resp : Recorded(s) \/ s \in new,
         \A s \in new : s.by = s.key[1] /\ records[s.key] = None,
         \A s, t \in new : s.key = t.key => s = t
  PROVE  IInv'
<1> USE DEF Begin
<1>1. job'[w] = [phase |-> IF new = {} THEN "reply" ELSE "save", new |-> new, resp |-> resp]
  BY DEF IInv, EOTSTypeOK
<1>2. \A v \in Worker \ {w} : job'[v] = job[v] /\ job[v] = Idle
  BY EOTSAssumption DEF IInv, EOTSTypeOK, MutexInv
<1>3. EOTSTypeOK'
  <2>1. job'[w] \in Job  BY <1>1 DEF Job
  <2>2. job' \in [Worker -> Job]  BY <2>1 DEF IInv, EOTSTypeOK
  <2> QED  BY <2>2 DEF IInv, EOTSTypeOK
<1>4. MutexInv'  BY <1>2 DEF IInv, MutexInv
<1>5. JobInv'
  <2> SUFFICES ASSUME NEW v \in Worker
               PROVE  /\ \A s \in job'[v].resp :
                            \/ Recorded(s)
                            \/ job'[v].phase = "save" /\ s \in job'[v].new
                      /\ job'[v].phase = "save" =>
                            /\ \A s \in job'[v].new : s.by = s.key[1] /\ records[s.key] = None
                            /\ \A s, t \in job'[v].new : s.key = t.key => s = t
    BY DEF JobInv, Recorded
  <2>1. CASE v = w  BY <2>1, <1>1
  <2>2. CASE v # w  BY <2>2, <1>2 DEF Idle
  <2> QED  BY <2>1, <2>2
<1> QED  BY <1>3, <1>4, <1>5 DEF IInv, RecordInv, ReleasedIsRecorded, SignedByOwnKey

\* Writing the records of a request, in one transaction, preserves the invariant.
LEMMA SaveInv ==
  ASSUME IInv, NEW w \in Worker, SaveSignRecordsBatch(w)
  PROVE  IInv'
<1> DEFINE new == job[w].new
<1>1. /\ job[w] \in Job /\ job[w].phase = "save" /\ eotsUp
      /\ new \in SUBSET Signature
      /\ job[w] # Idle
  BY DEF IInv, EOTSTypeOK, SaveSignRecordsBatch, Job, Idle
<1>2. \A s \in new : s.by = s.key[1] /\ records[s.key] = None /\ s \in Signature
  BY <1>1 DEF IInv, JobInv
<1>3. \A s, t \in new : s.key = t.key => s = t
  BY <1>1 DEF IInv, JobInv
<1>4. \A v \in Worker \ {w} : job[v] = Idle
  BY <1>1 DEF IInv, MutexInv
<1> HIDE DEF new
<1>5. /\ job' = [job EXCEPT ![w].phase = "reply"]
      /\ records' = [k \in Keys |->
            IF \E s \in new : s.key = k
            THEN LET s == CHOOSE s \in new : s.key = k IN [msg |-> s.msg, by |-> s.by]
            ELSE records[k]]
      /\ UNCHANGED <<eotsUp, keyring, names, privateKeys, mu, released, rolledBack>>
  BY <1>2 DEF SaveSignRecordsBatch, new
<1>6. \A s \in new : s.key \in Keys /\ records'[s.key] = [msg |-> s.msg, by |-> s.by]
  <2> TAKE s \in new
  <2>1. s.key \in Keys  BY <1>2 DEF Signature
  <2>2. (CHOOSE t \in new : t.key = s.key) = s  BY <1>3
  <2> QED  BY <1>5, <2>1, <2>2
<1>7. \A k \in Keys : (\A s \in new : s.key # k) => records'[k] = records[k]
  BY <1>5
<1>8. \A k \in Keys : records[k] # None => records'[k] = records[k]
  BY <1>7, <1>2
<1>9. \A k \in Keys : records'[k] = records[k] \/ \E s \in new : s.key = k
  BY <1>7
<1>10. \A v \in Worker \ {w} : job'[v] = job[v]
  BY <1>5 DEF IInv, EOTSTypeOK
<1>11. /\ job'[w].phase = "reply"
       /\ job'[w].resp = job[w].resp
       /\ job'[w] \in Job
  BY <1>1, <1>5 DEF IInv, EOTSTypeOK, Job
<1>12. \A s \in Signature : Recorded(s) => Recorded(s)'
  <2> TAKE s \in Signature
  <2> HAVE Recorded(s)
  <2>1. s.key \in Keys  BY DEF Signature
  <2>2. records[s.key] # None
    <3>1. [msg |-> s.msg, by |-> s.by] \in [msg : Msg, by : Pk]  BY DEF Signature
    <3> QED  BY <3>1, EOTSAssumption DEF Recorded
  <2> QED  BY <1>8, <2>1, <2>2 DEF Recorded
<1>13. EOTSTypeOK'
  <2>1. \A k \in Keys : records'[k] \in Record \cup {None}
    <3> TAKE k \in Keys
    <3>1. CASE records'[k] = records[k]  BY <3>1 DEF IInv, EOTSTypeOK
    <3>2. CASE \E s \in new : s.key = k
      <4>1. PICK s \in new : s.key = k  BY <3>2
      <4>2. records'[k] = [msg |-> s.msg, by |-> s.by]  BY <4>1, <1>6
      <4>3. s \in Signature  BY <1>2
      <4> QED  BY <4>2, <4>3 DEF Record, Signature
    <3> QED  BY <3>1, <3>2, <1>9
  <2>2. records' \in [Keys -> Record \cup {None}]  BY <2>1, <1>5
  <2>3. job' \in [Worker -> Job]  BY <1>5, <1>10, <1>11 DEF IInv, EOTSTypeOK
  <2> QED  BY <2>2, <2>3, <1>5 DEF IInv, EOTSTypeOK
<1>14. MutexInv'
  BY <1>1, <1>4, <1>5, <1>10 DEF IInv, MutexInv
<1>15. JobInv'
  <2>1. \A s \in job[w].resp : Recorded(s)'
    <3> TAKE s \in job[w].resp
    <3>1. s \in Signature  BY <1>1 DEF Job
    <3>2. CASE Recorded(s)  BY <3>1, <3>2, <1>12
    <3>3. CASE s \in new  BY <3>3, <1>6 DEF Recorded
    <3> QED  BY <3>2, <3>3, <1>1 DEF IInv, JobInv, new
  <2>2. \A v \in Worker \ {w} : job'[v].resp = {} /\ job'[v].phase # "save"
    BY <1>4, <1>10 DEF Idle
  <2> QED  BY <2>1, <2>2, <1>11 DEF JobInv, Recorded
<1>16. RecordInv'
  <2> SUFFICES ASSUME NEW k \in Keys, records'[k] # None PROVE records'[k].by = k[1]
    BY DEF RecordInv
  <2>1. CASE records'[k] = records[k]  BY <2>1 DEF IInv, RecordInv
  <2>2. CASE \E s \in new : s.key = k
    <3>1. PICK s \in new : s.key = k  BY <2>2
    <3>2. records'[k] = [msg |-> s.msg, by |-> s.by] /\ s.by = s.key[1]  BY <3>1, <1>2, <1>6
    <3> QED  BY <3>1, <3>2
  <2> QED  BY <2>1, <2>2, <1>9
<1>17. ReleasedIsRecorded'
  <2> SUFFICES ASSUME NEW s \in released, s.key \notin rolledBack PROVE Recorded(s)'
    BY <1>5 DEF ReleasedIsRecorded, Recorded
  <2>1. s \in Signature  BY DEF IInv, EOTSTypeOK
  <2>2. Recorded(s)  BY DEF IInv, ReleasedIsRecorded, Recorded
  <2> QED  BY <2>1, <2>2, <1>12
<1>18. SignedByOwnKey'  BY <1>5 DEF IInv, SignedByOwnKey
<1> QED  BY <1>13, <1>14, <1>15, <1>16, <1>17, <1>18 DEF IInv

\* Returning to the caller preserves the invariant.
LEMMA ReplyInv ==
  ASSUME IInv, NEW w \in Worker, Reply(w)
  PROVE  IInv'
<1> USE DEF Reply
<1>1. /\ job[w] \in Job /\ job'[w] = Idle /\ job[w] # Idle
      /\ \A s \in job[w].resp : s \in Signature /\ Recorded(s)
  BY DEF IInv, EOTSTypeOK, Job, Idle, JobInv
<1>2. \A v \in Worker \ {w} : job'[v] = job[v] /\ job[v] = Idle
  BY <1>1 DEF IInv, EOTSTypeOK, MutexInv
<1>3. EOTSTypeOK'
  <2>1. Idle \in Job  BY DEF Idle, Job
  <2>2. job' \in [Worker -> Job]  BY <2>1 DEF IInv, EOTSTypeOK
  <2> QED  BY <2>2, <1>1 DEF IInv, EOTSTypeOK
<1>4. MutexInv' /\ JobInv'
  BY <1>1, <1>2 DEF MutexInv, JobInv, Idle
<1>5. RecordInv' /\ ReleasedIsRecorded'
  BY <1>1 DEF IInv, RecordInv, ReleasedIsRecorded, Recorded
<1>6. SignedByOwnKey'
  <2>1. \A s \in job[w].resp : s.by = s.key[1]
    <3> TAKE s \in job[w].resp
    <3>1. s.key \in Keys /\ records[s.key] = [msg |-> s.msg, by |-> s.by]
      BY <1>1 DEF Recorded, Signature
    <3>2. [msg |-> s.msg, by |-> s.by] \in [msg : Msg, by : Pk]  BY <1>1 DEF Signature
    <3> QED  BY <3>1, <3>2, EOTSAssumption DEF IInv, RecordInv
  <2> QED  BY <2>1 DEF IInv, SignedByOwnKey
<1> QED  BY <1>3, <1>4, <1>5, <1>6 DEF IInv

\* The rollback, which runs while no request is in progress, preserves the invariant.
LEMMA RollbackInv ==
  ASSUME IInv, NEW pk \in Pk, NEW c \in Chain, NEW from \in Height,
         DeleteSignRecordsFromHeight(pk, c, from)
  PROVE  IInv'
<1> USE DEF DeleteSignRecordsFromHeight
<1>1. \A w \in Worker : job'[w] = Idle
  BY DEF IInv, MutexInv
<1>2. \A k \in Keys : records'[k] = None \/ records'[k] = records[k]
  OBVIOUS
<1>3. \A k \in Keys \ rolledBack' : records'[k] = records[k]
  OBVIOUS
<1>4. EOTSTypeOK'
  <2>1. records' \in [Keys -> Record \cup {None}]  BY <1>2 DEF IInv, EOTSTypeOK
  <2> QED  BY <2>1 DEF IInv, EOTSTypeOK
<1>5. MutexInv' /\ JobInv'
  BY <1>1 DEF MutexInv, JobInv, Idle
<1>6. RecordInv'
  BY <1>2 DEF IInv, RecordInv
<1>7. ReleasedIsRecorded'
  <2> SUFFICES ASSUME NEW s \in released, s.key \notin rolledBack'
               PROVE  records'[s.key] = [msg |-> s.msg, by |-> s.by]
    BY DEF ReleasedIsRecorded
  <2>1. s.key \in Keys  BY DEF IInv, EOTSTypeOK, Signature
  <2> QED  BY <2>1, <1>3 DEF IInv, ReleasedIsRecorded
<1>8. SignedByOwnKey'  BY DEF IInv, SignedByOwnKey
<1> QED  BY <1>4, <1>5, <1>6, <1>7, <1>8 DEF IInv

-----------------------------------------------------------------------------

\* The inductive invariant holds in every reachable state of the manager.
THEOREM Inductive == EOTSSpec => []IInv
<1>1. EOTSInit => IInv
  <2> SUFFICES ASSUME EOTSInit PROVE IInv  OBVIOUS
  <2> USE DEF EOTSInit
  <2>1. EOTSTypeOK  BY DEF EOTSTypeOK, Idle, Job
  <2>2. MutexInv /\ JobInv  BY DEF MutexInv, JobInv, Idle
  <2>3. RecordInv /\ ReleasedIsRecorded /\ SignedByOwnKey
    BY DEF RecordInv, ReleasedIsRecorded, SignedByOwnKey
  <2> QED  BY <2>1, <2>2, <2>3 DEF IInv
<1>2. IInv /\ [EOTSNext]_eotsVars => IInv'
  <2> SUFFICES ASSUME IInv, [EOTSNext]_eotsVars PROVE IInv'  OBVIOUS
  <2> DEFINE Same == UNCHANGED <<records, mu, job, released, rolledBack>>
  <2>1. ASSUME EOTSTypeOK', Same, eotsUp' = eotsUp PROVE IInv'
    BY <2>1 DEF IInv, MutexInv, JobInv, RecordInv, ReleasedIsRecorded, SignedByOwnKey, Recorded
  <2>2. CASE EOTSStart
    <3>1. \A w \in Worker : job'[w] = Idle  BY <2>2 DEF EOTSStart, IInv, MutexInv
    <3>2. EOTSTypeOK'  BY <2>2 DEF EOTSStart, IInv, EOTSTypeOK
    <3> QED  BY <2>2, <3>1, <3>2 DEF EOTSStart, IInv, MutexInv, JobInv, RecordInv,
                ReleasedIsRecorded, SignedByOwnKey, Recorded
  <2>3. CASE EOTSCrash
    <3>1. \A w \in Worker : job'[w] = Idle  BY <2>3 DEF EOTSCrash
    <3>2. Idle \in Job  BY DEF Idle, Job
    <3>3. EOTSTypeOK'  BY <2>3, <3>2 DEF EOTSCrash, IInv, EOTSTypeOK
    <3>4. JobInv' /\ MutexInv'  BY <3>1 DEF JobInv, MutexInv, Idle
    <3> QED  BY <2>3, <3>3, <3>4 DEF EOTSCrash, IInv, RecordInv, ReleasedIsRecorded, SignedByOwnKey
  <2>4. ASSUME NEW n \in KeyName, NEW pk \in Pk, NewAccount(n, pk) PROVE IInv'
    BY <2>4, <2>1 DEF NewAccount, IInv, EOTSTypeOK
  <2>5. ASSUME NEW n \in KeyName, DeleteKey(n) PROVE IInv'
    BY <2>5, <2>1 DEF DeleteKey, IInv, EOTSTypeOK
  <2>6. ASSUME NEW n \in KeyName, SaveEOTSKeyName(n) PROVE IInv'
    BY <2>6, <2>1 DEF SaveEOTSKeyName, IInv, EOTSTypeOK
  <2>7. ASSUME NEW pk \in Pk, Unlock(pk) PROVE IInv'
    BY <2>7, <2>1 DEF Unlock, IInv, EOTSTypeOK
  <2>8. ASSUME NEW w \in Worker, NEW pk \in Pk, NEW c \in Chain, NEW h \in Height, NEW m \in Msg,
               SignEOTS(w, pk, c, h, m)
        PROVE  IInv'
    <3> DEFINE req == [g \in {h} |-> m]
    <3>1. /\ eotsUp /\ mu = None
          /\ FreshSigs(pk, c, req) # {} => SigningKey(pk) # None
          /\ Begin(w, FreshSigs(pk, c, req), FreshSigs(pk, c, req) \cup Found(pk, c, req))
      BY <2>8 DEF SignEOTS
    <3>2. {h} \in SUBSET Height /\ req \in [{h} -> Msg]  OBVIOUS
    <3>3. EOTSTypeOK  BY DEF IInv
    <3> HIDE DEF req
    <3> QED  BY <3>1, <3>2, <3>3, Lookup, BeginInv
  <2>9. ASSUME NEW w \in Worker, NEW pk \in Pk, NEW c \in Chain, NEW req \in Requests,
               SignBatchEOTS(w, pk, c, req)
        PROVE  IInv'
    <3>1. /\ eotsUp /\ mu = None /\ SigningKey(pk) # None
          /\ Begin(w, FreshSigs(pk, c, req), FreshSigs(pk, c, req) \cup Found(pk, c, req))
      BY <2>9 DEF SignBatchEOTS
    <3>2. PICK H \in SUBSET Height : req \in [H -> Msg]  BY DEF Requests
    <3>3. EOTSTypeOK  BY DEF IInv
    <3> QED  BY <3>1, <3>2, <3>3, Lookup, BeginInv
  <2>10. CASE UNCHANGED eotsVars
    BY <2>10, <2>1 DEF eotsVars, IInv, EOTSTypeOK
  <2> HIDE DEF Same
  <2> QED  BY <2>2, <2>3, <2>4, <2>5, <2>6, <2>7, <2>8, <2>9, <2>10, SaveInv, ReplyInv, RollbackInv
           DEF EOTSNext
<1> QED  BY <1>1, <1>2, PTL DEF EOTSSpec

\* Type correctness of the manager's state.
THEOREM TypeCorrect == EOTSSpec => []EOTSTypeOK
<1>1. IInv => EOTSTypeOK  BY DEF IInv
<1> QED  BY <1>1, Inductive, PTL

\* Every signature SignEOTS or SignBatchEOTS ever returned stays recorded, with its
\* message, unless the height was rolled back.
THEOREM ReleasedStaysRecorded == EOTSSpec => []ReleasedIsRecorded
<1>1. IInv => ReleasedIsRecorded  BY DEF IInv
<1> QED  BY <1>1, Inductive, PTL

\* SignEOTS and SignBatchEOTS never return signatures over two messages at one height.
THEOREM NeverDoubleSigns == EOTSSpec => []NoDoubleSign
<1>1. IInv => NoDoubleSign
  <2> SUFFICES ASSUME IInv, NEW s \in released, NEW t \in released,
                      s.key = t.key, s.key \notin rolledBack
               PROVE  s.msg = t.msg
    BY DEF NoDoubleSign
  <2>1. [msg |-> s.msg, by |-> s.by] = [msg |-> t.msg, by |-> t.by]
    BY DEF IInv, ReleasedIsRecorded
  <2> QED  BY <2>1
<1> QED  BY <1>1, Inductive, PTL

\* Every returned signature is by the private key of the requested public key.
THEOREM AlwaysOwnKey == EOTSSpec => []SignedByOwnKey
<1>1. IInv => SignedByOwnKey  BY DEF IInv
<1> QED  BY <1>1, Inductive, PTL

=============================================================================
