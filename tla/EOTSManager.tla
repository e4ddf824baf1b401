---------------------------- MODULE EOTSManager ----------------------------
(***************************************************************************)
(* The EOTS manager daemon (finality-provider/eotsmanager): it keeps the    *)
(* signing keys of finality providers and signs one-time (EOTS) messages.   *)
(* The randomness of a signature is derived from (key, chain, height), so   *)
(* two signatures over different messages at one height reveal the key.     *)
(* The protection is the sign record kept in the bbolt database: it is      *)
(* looked up under the manager's mutex, written before the signature leaves *)
(* the process, and survives a crash; unlocked keys do not.                 *)
(*                                                                         *)
(* A gRPC handler is a worker.  A signing request takes three steps: lock   *)
(* and look up, write the records in one transaction, unlock and reply.     *)
(* Signatures are abstracted to what was signed and with which key.         *)
(***************************************************************************)
EXTENDS Naturals, FiniteSets

CONSTANTS
  Pk,           \* EOTS key pairs, named by their public key
  KeyName,      \* names of keys in the keyring
  Chain,        \* chain identifiers
  Height,       \* heights for which signatures are requested
  Msg,          \* messages (block hashes to sign)
  Worker,       \* gRPC handlers of the daemon
  FileBackend,  \* keyring backend: TRUE for "file" (keys must be unlocked), FALSE for "test"
  None          \* absence of a value

ASSUME EOTSAssumption ==
  /\ Height \subseteq Nat
  /\ FileBackend \in BOOLEAN
  /\ None \notin Pk \cup KeyName \cup Worker
  /\ None \notin [msg : Msg, by : Pk]

VARIABLES
  eotsUp,       \* the daemon is running
  keyring,      \* key name -> key in the keyring files, or None
  names,        \* public key -> key name, the eots bucket of the database
  privateKeys,  \* key name -> key unlocked in memory
  records,      \* <<pk, chain, height>> -> the signed message and its signer, or None
  mu,           \* holder of the manager's mutex
  job,          \* worker -> the request it is serving
  released,     \* every EOTS signature ever returned to a caller
  rolledBack    \* record keys an operator has deleted with the rollback command

eotsVars == <<eotsUp, keyring, names, privateKeys, records, mu, job, released, rolledBack>>

Keys == Pk \X Chain \X Height
Record == [msg : Msg, by : Pk]
Signature == [key : Keys, msg : Msg, by : Pk]

\* A request: nothing, signatures still to be recorded, or signatures ready to be returned.
Idle == [phase |-> "idle", new |-> {}, resp |-> {}]
Job == [phase : {"idle", "save", "reply"}, new : SUBSET Signature, resp : SUBSET Signature]

EOTSTypeOK ==
  /\ eotsUp \in BOOLEAN
  /\ keyring \in [KeyName -> Pk \cup {None}]
  /\ names \in [Pk -> KeyName \cup {None}]
  /\ privateKeys \in [KeyName -> Pk \cup {None}]
  /\ records \in [Keys -> Record \cup {None}]
  /\ mu \in Worker \cup {None}
  /\ job \in [Worker -> Job]
  /\ released \in SUBSET Signature
  /\ rolledBack \in SUBSET Keys

EOTSInit ==
  /\ eotsUp = FALSE
  /\ keyring = [n \in KeyName |-> None]
  /\ names = [pk \in Pk |-> None]
  /\ privateKeys = [n \in KeyName |-> None]
  /\ records = [k \in Keys |-> None]
  /\ mu = None
  /\ job = [w \in Worker |-> Idle]
  /\ released = {}
  /\ rolledBack = {}

-----------------------------------------------------------------------------
(* Keys *)

\* The keyring half of creating or importing a key: neither the name nor the key is taken.
NewAccount(n, pk) ==
  /\ keyring[n] = None
  /\ \A m \in KeyName : keyring[m] # pk
  /\ keyring' = [keyring EXCEPT ![n] = pk]
  /\ UNCHANGED <<eotsUp, names, privateKeys, records, mu, job, released, rolledBack>>

\* The keys command deletes a key from the keyring only: its name in the database and
\* its unlocked copy stay.
DeleteKey(n) ==
  /\ keyring[n] # None
  /\ keyring' = [keyring EXCEPT ![n] = None]
  /\ UNCHANGED <<eotsUp, names, privateKeys, records, mu, job, released, rolledBack>>

\* The database half: the command saves the name under which it finds the key.  It
\* opens the database itself or calls the running daemon; a crash between the halves
\* leaves a key without a name.  A public key is never given a second name.
SaveEOTSKeyName(n) ==
  /\ keyring[n] # None
  /\ names[keyring[n]] = None
  /\ names' = [names EXCEPT ![keyring[n]] = n]
  /\ UNCHANGED <<eotsUp, keyring, privateKeys, records, mu, job, released, rolledBack>>

\* Unlocking loads the key found under the recorded name; an unlocked name stays as it is.
Unlock(pk) ==
  /\ eotsUp /\ mu = None
  /\ names[pk] # None
  /\ keyring[names[pk]] # None
  /\ privateKeys[names[pk]] = None
  /\ privateKeys' = [privateKeys EXCEPT ![names[pk]] = keyring[names[pk]]]
  /\ UNCHANGED <<eotsUp, keyring, names, records, mu, job, released, rolledBack>>

\* Mutation: the key found under the recorded name is used without comparing it.
AnySigningKey(pk) ==
  IF names[pk] = None THEN None
  ELSE IF FileBackend THEN privateKeys[names[pk]] ELSE keyring[names[pk]]

\* The private key used for pk, or None when there is none or it is not the key of pk.
SigningKey(pk) ==
  IF names[pk] = None THEN None
  ELSE LET found == IF FileBackend THEN privateKeys[names[pk]] ELSE keyring[names[pk]]
       IN  IF found = pk THEN found ELSE None

-----------------------------------------------------------------------------
(* Signing *)

\* The stored signature of a record.
Stored(k) == [key |-> k, msg |-> records[k].msg, by |-> records[k].by]

\* Mutation: a height that has a record is signed again, whatever the message.
SignedAgain(pk, c, req) ==
  {[key |-> <<pk, c, h>>, msg |-> req[h], by |-> pk] :
      h \in {g \in DOMAIN req : records[<<pk, c, g>>] # None}}

\* The signatures a request finds in the records: same height, same message.
Found(pk, c, req) ==
  {Stored(<<pk, c, h>>) :
      h \in {g \in DOMAIN req : /\ records[<<pk, c, g>>] # None
                                /\ records[<<pk, c, g>>].msg = req[g]}}

\* The signatures a request must make: heights without a record.
FreshSigs(pk, c, req) ==
  {[key |-> <<pk, c, h>>, msg |-> req[h], by |-> SigningKey(pk)] :
      h \in {g \in DOMAIN req : records[<<pk, c, g>>] = None}}

Begin(w, new, resp) ==
  /\ mu' = w
  /\ job' = [job EXCEPT ![w] = [phase |-> IF new = {} THEN "reply" ELSE "save",
                                new |-> new, resp |-> resp]]
  /\ UNCHANGED <<eotsUp, keyring, names, privateKeys, records, released, rolledBack>>

\* One height.  A recorded message is answered without a key, another message at
\* the height is refused.
SignEOTS(w, pk, c, h, m) ==
  LET req == [g \in {h} |-> m]
      fresh == FreshSigs(pk, c, req)
  IN  /\ eotsUp /\ mu = None /\ job[w] = Idle
      /\ fresh = {} => Found(pk, c, req) # {}
      /\ fresh # {} => SigningKey(pk) # None
      /\ Begin(w, fresh, fresh \cup Found(pk, c, req))

\* Several heights, each at most once.  The key is needed in any case; heights recorded
\* with another message are left out of the answer.
SignBatchEOTS(w, pk, c, req) ==
  /\ eotsUp /\ mu = None /\ job[w] = Idle
  /\ SigningKey(pk) # None
  /\ Begin(w, FreshSigs(pk, c, req), FreshSigs(pk, c, req) \cup Found(pk, c, req))

\* All new records are written in one transaction, which fails if one already exists.
SaveSignRecordsBatch(w) ==
  /\ eotsUp /\ job[w].phase = "save"
  /\ IF \E s \in job[w].new : records[s.key] # None
     THEN /\ job' = [job EXCEPT ![w] = Idle]
          /\ mu' = None
          /\ UNCHANGED records
     ELSE /\ records' = [k \in Keys |->
                IF \E s \in job[w].new : s.key = k
                THEN LET s == CHOOSE s \in job[w].new : s.key = k
                     IN  [msg |-> s.msg, by |-> s.by]
                ELSE records[k]]
          /\ job' = [job EXCEPT ![w].phase = "reply"]
          /\ UNCHANGED mu
  /\ UNCHANGED <<eotsUp, keyring, names, privateKeys, released, rolledBack>>

\* The handler returns and the deferred unlock runs.
Reply(w) ==
  /\ eotsUp /\ job[w].phase = "reply"
  /\ released' = released \cup job[w].resp
  /\ job' = [job EXCEPT ![w] = Idle]
  /\ mu' = None
  /\ UNCHANGED <<eotsUp, keyring, names, privateKeys, records, rolledBack>>

-----------------------------------------------------------------------------
(* The process and its operator *)

EOTSStart ==
  /\ ~eotsUp
  /\ eotsUp' = TRUE
  /\ UNCHANGED <<keyring, names, privateKeys, records, mu, job, released, rolledBack>>

\* A crash at any point: what is in memory is gone, what was committed stays.
EOTSCrash ==
  /\ eotsUp
  /\ eotsUp' = FALSE
  /\ privateKeys' = [n \in KeyName |-> None]
  /\ mu' = None
  /\ job' = [w \in Worker |-> Idle]
  /\ UNCHANGED <<keyring, names, records, released, rolledBack>>

\* eotsd rollback, on a stopped daemon (the database file is locked by a running one).
DeleteSignRecordsFromHeight(pk, c, from) ==
  /\ ~eotsUp /\ from > 0
  /\ records' = [k \in Keys |-> IF k[1] = pk /\ k[2] = c /\ k[3] >= from THEN None ELSE records[k]]
  /\ rolledBack' = rolledBack \cup {k \in Keys : k[1] = pk /\ k[2] = c /\ k[3] >= from}
  /\ UNCHANGED <<eotsUp, keyring, names, privateKeys, mu, job, released>>

Requests == UNION {[H -> Msg] : H \in (SUBSET Height) \ {{}}}

EOTSNext ==
  \/ EOTSStart
  \/ EOTSCrash
  \/ \E n \in KeyName, pk \in Pk : NewAccount(n, pk)
  \/ \E n \in KeyName : DeleteKey(n) \/ SaveEOTSKeyName(n)
  \/ \E pk \in Pk : Unlock(pk)
  \/ \E w \in Worker, pk \in Pk, c \in Chain :
       \/ \E h \in Height, m \in Msg : SignEOTS(w, pk, c, h, m)
       \/ \E req \in Requests : SignBatchEOTS(w, pk, c, req)
  \/ \E w \in Worker : SaveSignRecordsBatch(w) \/ Reply(w)
  \/ \E pk \in Pk, c \in Chain, from \in Height : DeleteSignRecordsFromHeight(pk, c, from)

EOTSSpec == EOTSInit /\ [][EOTSNext]_eotsVars

-----------------------------------------------------------------------------
(* Properties *)

\* No two signatures over different messages at one height of one chain are ever
\* returned for a key, across crashes, retries and batches, unless an operator rolled
\* that height back: SignEOTS and SignBatchEOTS look the record up under the mutex and
\* write it before they return.
NoDoubleSign ==
  \A s, t \in released : s.key = t.key /\ s.key \notin rolledBack => s.msg = t.msg

\* A returned signature was made with the private key of the public key asked for,
\* although names are bound to keys in two stores that can disagree after a key was
\* deleted and another one imported under its name.
SignedByOwnKey == \A s \in released : s.by = s.key[1]

\* A record that was returned to a caller is still there, with the message it was
\* returned for: only the rollback command deletes records.
ReleasedIsRecorded ==
  \A s \in released : s.key \in rolledBack \/ records[s.key] = [msg |-> s.msg, by |-> s.by]

=============================================================================
