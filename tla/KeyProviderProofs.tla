-------------------------- MODULE KeyProviderProofs --------------------------
(* Safety of the key providers, LocalKeyProvider and KmsKeyProvider, for     *)
(* every set of signers and every bound.                                     *)
EXTENDS LocalKeyProvider, KmsKeyProvider, SequenceTheorems, TLAPS

(* Every key has one role.                                                   *)
Roles(s) ==
  /\ s.active \notin s.retained \cup s.pending
  /\ s.retained \cap s.pending = {}

Known == 1..(nextKey - 1)

(* What the disk may show is well formed and not ahead of <path>.            *)
KeptInv ==
  /\ file \in fileKept /\ bak \in bakKept
  /\ \A s \in fileKept : Roles(s) /\ StoredKeys(s) \subseteq Known /\ s.gen <= file.gen
  /\ \A o \in Operations : acked[o] \subseteq Known

(* The flag covers an activation from its start until its mutation settles,  *)
(* and no signature is in flight once the mutation is queued.                *)
ChainInv ==
  /\ ~up => /\ mutations = <<>> /\ ~activating /\ draining = 0
            /\ \A s \in Signers : signing[s] = 0
  /\ mutations = <<>> => step = "queued"
  /\ draining # 0 => activating
  /\ \A i \in DOMAIN mutations : mutations[i].op = "activate" =>
       /\ activating /\ draining = 0
       /\ \A s \in Signers : signing[s] = 0
  /\ \A i, j \in DOMAIN mutations :
       mutations[i].op = "activate" /\ mutations[j].op = "activate" => i = j

(* What the running mutation will have achieved once next is durable.        *)
SubjectOK ==
  /\ Subject \in Known
  /\ Running.op = "generate" => Subject \in StoredKeys(next)
  /\ Running.op = "activate" => Subject \notin next.pending
  /\ Running.op = "supersede" => Subject \notin StoredKeys(next)

(* next is a successor of the store in memory until it replaces it.          *)
WriteInv ==
  /\ step # "queued" => SubjectOK
  /\ step \in {"bak", "bakSync", "main"} =>
       /\ next.gen = mem.gen + 1
       /\ Roles(next) /\ StoredKeys(next) \subseteq Known
       /\ acked["activate"] \cap next.pending = {}
       /\ acked["supersede"] \cap StoredKeys(next) = {}
       /\ Running.op # "activate" =>
            {mem.active} \cup mem.pending \subseteq {next.active} \cup next.pending
  /\ step = "bakSync" => bak = mem
  /\ step = "main" => fileKept = {file} /\ bakKept = {mem}
  /\ step = "mainSync" => next = file

IInv ==
  /\ KeyStoreTypeOK /\ KeptInv /\ ChainInv /\ WriteInv
  /\ SigningKeyIsLive /\ MemoryFollowsFile /\ AckedDurable /\ BackupIsRecent
-----------------------------------------------------------------------------
LEMMA InitIInv == ASSUME KeyProviderAssumption, KeyStoreInit PROVE IInv
  <1> USE DEF KeyProviderAssumption
  <1>1. InitialStore \in KeyStore /\ Roles(InitialStore) /\ StoredKeys(InitialStore) = {1}
    BY DEF InitialStore, Store, KeyStore, Roles, StoredKeys, StoreKids
  <1>2. KeyStoreTypeOK
    <2>1. signing \in [Signers -> StoreKids \cup {0}] /\ acked \in [Operations -> SUBSET StoreKids]
      BY DEF KeyStoreInit
    <2>2. mutations \in Seq(Mutation) /\ nextKey \in 2..(MaxStoreKeys + 1)
      BY DEF KeyStoreInit
    <2> QED BY <1>1, <2>1, <2>2, Zenon DEF KeyStoreInit, KeyStoreTypeOK, MutationSteps
  <1>3. KeptInv /\ SigningKeyIsLive /\ MemoryFollowsFile
    BY <1>1 DEF KeyStoreInit, KeptInv, Known, SigningKeyIsLive, MemoryFollowsFile, InitialStore, Store
  <1>4. ChainInv /\ WriteInv
    BY DEF KeyStoreInit, ChainInv, WriteInv
  <1>5. AckedDurable /\ BackupIsRecent
    BY <1>1 DEF KeyStoreInit, AckedDurable, BackupIsRecent, InitialStore, NoFile, Store, Operations
  <1> QED BY <1>2, <1>3, <1>4, <1>5 DEF IInv

(* A step that leaves stores, disk and the running mutation alone disturbs   *)
(* only the bookkeeping of calls.                                            *)
LEMMA CallFrame ==
  ASSUME IInv, KeyStoreTypeOK', ChainInv', SigningKeyIsLive',
         UNCHANGED <<up, mem, disk, step, next, nextKey, acked>>,
         mutations # <<>> => mutations' # <<>> /\ Head(mutations') = Head(mutations)
  PROVE  IInv'
  <1>1. KeptInv' /\ MemoryFollowsFile' /\ AckedDurable' /\ BackupIsRecent'
    BY DEF IInv, KeptInv, Known, MemoryFollowsFile, AckedDurable, BackupIsRecent, disk
  <1>2. CASE step = "queued"
    <2>1. WriteInv'
      BY <1>2 DEF WriteInv, MutationSteps
    <2> QED BY <1>1, <2>1 DEF IInv
  <1>3. CASE step # "queued"
    <2>1. mutations # <<>> /\ Running' = Running
      BY <1>3 DEF IInv, ChainInv, Running
    <2>2. Subject' = Subject /\ Known' = Known
      BY <2>1 DEF Subject, Known
    <2>3. SubjectOK'
      BY <1>3, <2>1, <2>2 DEF IInv, WriteInv, SubjectOK
    <2>4. WriteInv'
      BY <2>1, <2>2, <2>3 DEF IInv, WriteInv, disk
    <2> QED BY <1>1, <2>4 DEF IInv
  <1> QED BY <1>2, <1>3

LEMMA SignSteps ==
  ASSUME KeyProviderAssumption, IInv, NEW s \in Signers, SignKey(s) \/ SignDone(s)
  PROVE  IInv'
  <1>1. /\ UNCHANGED <<up, mem, disk, mutations, step, next, activating, draining,
                       nextKey, acked>>
        /\ up
    BY DEF SignKey, SignDone
  <1>2. CASE SignKey(s)
    <2>1. PICK kid \in {mem.active} \cup mem.pending :
                 signing' = [signing EXCEPT ![s] = kid]
      BY <1>2, Zenon DEF SignKey
    <2>2. kid \in StoreKids /\ ~activating
      BY <1>2 DEF SignKey, IInv, KeyStoreTypeOK, KeyStore
    <2>3. KeyStoreTypeOK'
      BY <1>1, <2>1, <2>2 DEF IInv, KeyStoreTypeOK, disk
    <2>4. ChainInv'
      BY <1>1, <2>2 DEF IInv, ChainInv
    <2>5. SigningKeyIsLive'
      BY <1>1, <2>1 DEF IInv, KeyStoreTypeOK, SigningKeyIsLive
    <2> QED BY <1>1, <2>3, <2>4, <2>5, CallFrame
  <1>3. CASE SignDone(s)
    <2>1. signing' = [signing EXCEPT ![s] = 0]
      BY <1>3 DEF SignDone
    <2>2. KeyStoreTypeOK' /\ SigningKeyIsLive'
      BY <1>1, <2>1 DEF IInv, KeyStoreTypeOK, disk, SigningKeyIsLive
    <2>3. ChainInv'
      BY <1>1, <2>1 DEF IInv, KeyStoreTypeOK, ChainInv
    <2> QED BY <1>1, <2>2, <2>3, CallFrame
  <1> QED BY <1>2, <1>3

LEMMA EnqueueFacts ==
  ASSUME mutations \in Seq(Mutation), NEW m \in Mutation,
         mutations' = Append(mutations, m)
  PROVE  /\ mutations' \in Seq(Mutation) /\ mutations' # <<>>
         /\ mutations # <<>> => Head(mutations') = Head(mutations)
         /\ DOMAIN mutations' = DOMAIN mutations \cup {Len(mutations) + 1}
         /\ \A i \in DOMAIN mutations : mutations'[i] = mutations[i]
         /\ mutations'[Len(mutations) + 1] = m
         /\ Len(mutations) + 1 \notin DOMAIN mutations
  OBVIOUS

LEMMA EnqueueSteps ==
  ASSUME KeyProviderAssumption, IInv,
         \/ GenerateKey \/ Drained
         \/ \E kid \in StoreKids : Supersede(kid) \/ ActivateStored(kid)
  PROVE  IInv'
  <1>0. mutations \in Seq(Mutation) /\ draining \in StoreKids \cup {0} /\ StoreKids \subseteq Nat
    BY DEF IInv, KeyStoreTypeOK, StoreKids
  <1>1. ASSUME NEW op \in {"generate", "supersede"}, NEW kid \in Nat,
               Enqueue(op, kid), up,
               UNCHANGED <<up, mem, disk, step, next, signing, activating, draining,
                           nextKey, acked>>
        PROVE  IInv'
    <2> DEFINE m == [op |-> op, kid |-> kid]
    <2>1. m \in Mutation /\ mutations' = Append(mutations, m) /\ m.op # "activate"
      BY <1>1 DEF Mutation, Operations, Enqueue
    <2> HIDE DEF m
    <2>2. KeyStoreTypeOK'
      BY <1>0, <1>1, <2>1, EnqueueFacts DEF IInv, KeyStoreTypeOK, disk
    <2>3. ChainInv'
      BY <1>0, <1>1, <2>1, EnqueueFacts DEF IInv, ChainInv
    <2>4. SigningKeyIsLive'
      BY <1>1 DEF IInv, SigningKeyIsLive
    <2> QED BY <1>0, <1>1, <2>1, <2>2, <2>3, <2>4, EnqueueFacts, CallFrame
  <1>2. CASE GenerateKey
    BY <1>1, <1>2 DEF GenerateKey
  <1>3. ASSUME NEW kid \in StoreKids, Supersede(kid) PROVE IInv'
    BY <1>0, <1>1, <1>3 DEF Supersede
  <1>4. ASSUME NEW kid \in StoreKids, ActivateStored(kid) PROVE IInv'
    <2>1. /\ UNCHANGED <<up, mem, disk, mutations, step, next, signing, nextKey, acked>>
          /\ activating' = TRUE /\ draining' = kid /\ ~activating /\ up
      BY <1>4 DEF ActivateStored
    <2>2. KeyStoreTypeOK' /\ SigningKeyIsLive'
      BY <2>1 DEF IInv, KeyStoreTypeOK, SigningKeyIsLive, disk
    <2>3. ChainInv'
      BY <2>1 DEF IInv, ChainInv
    <2> QED BY <2>1, <2>2, <2>3, CallFrame
  <1>5. CASE Drained
    <2> DEFINE m == [op |-> "activate", kid |-> draining]
    <2>1. /\ UNCHANGED <<up, mem, disk, step, next, signing, activating, nextKey, acked>>
          /\ up /\ draining # 0 /\ draining' = 0
          /\ \A s \in Signers : signing[s] = 0
          /\ m \in Mutation /\ mutations' = Append(mutations, m) /\ m.op = "activate"
      BY <1>0, <1>5 DEF Drained, Enqueue, Mutation, Operations
    <2> HIDE DEF m
    <2>2. KeyStoreTypeOK'
      BY <1>0, <2>1, EnqueueFacts DEF IInv, KeyStoreTypeOK, disk
    <2>3. ChainInv'
      <3>1. activating /\ \A i \in DOMAIN mutations : mutations[i].op # "activate"
        BY <2>1 DEF IInv, ChainInv
      <3> QED BY <1>0, <2>1, <3>1, EnqueueFacts DEF IInv, ChainInv
    <2>4. SigningKeyIsLive'
      BY <2>1 DEF IInv, SigningKeyIsLive
    <2> QED BY <1>0, <2>1, <2>2, <2>3, <2>4, EnqueueFacts, CallFrame
  <1> QED BY <1>2, <1>3, <1>4, <1>5
-----------------------------------------------------------------------------
LEMMA TailFacts ==
  ASSUME mutations \in Seq(Mutation), mutations # <<>>, mutations' = Tail(mutations)
  PROVE  /\ mutations' \in Seq(Mutation)
         /\ 1 \in DOMAIN mutations /\ Running = mutations[1] /\ Running \in Mutation
         /\ \A i \in DOMAIN mutations' :
              /\ i + 1 \in DOMAIN mutations /\ i + 1 # 1
              /\ mutations'[i] = mutations[i + 1]
         /\ \A i, j \in DOMAIN mutations' : i + 1 = j + 1 => i = j
  BY DEF Running

(* The running mutation settles: the next one, if any, has not begun.        *)
LEMMA SettleStep ==
  ASSUME IInv, up, mutations # <<>>, NEW ok \in BOOLEAN, SettleMutation(ok),
         UNCHANGED <<up, draining, signing>>
  PROVE  ChainInv' /\ WriteInv' /\ mutations' \in Seq(Mutation)
         /\ activating' \in BOOLEAN /\ step' = "queued"
  <1>1. /\ mutations \in Seq(Mutation) /\ mutations' = Tail(mutations)
        /\ step' = "queued" /\ activating \in BOOLEAN
        /\ activating' = (activating /\ Running.op # "activate")
    BY DEF IInv, KeyStoreTypeOK, SettleMutation
  <1>2. /\ mutations' \in Seq(Mutation)
        /\ 1 \in DOMAIN mutations /\ Running = mutations[1]
        /\ \A i \in DOMAIN mutations' : /\ i + 1 \in DOMAIN mutations /\ i + 1 # 1
                                        /\ mutations'[i] = mutations[i + 1]
        /\ \A i, j \in DOMAIN mutations' : i + 1 = j + 1 => i = j
    BY <1>1, TailFacts
  <1>3. WriteInv'
    BY <1>1 DEF WriteInv
  <1>4. CASE Running.op = "activate"
    <2>1. /\ \A i \in DOMAIN mutations' : mutations'[i].op # "activate"
          /\ draining = 0
      BY <1>2, <1>4 DEF IInv, ChainInv
    <2> QED BY <1>1, <1>2, <1>3, <2>1 DEF ChainInv
  <1>5. CASE Running.op # "activate"
    <2>1. activating' = activating
      BY <1>1, <1>5
    <2>2. \A i \in DOMAIN mutations' : mutations'[i].op = "activate" =>
            activating /\ draining = 0 /\ \A s \in Signers : signing[s] = 0
      BY <1>2 DEF IInv, ChainInv
    <2>3. \A i, j \in DOMAIN mutations' :
            mutations'[i].op = "activate" /\ mutations'[j].op = "activate" => i = j
      BY <1>2 DEF IInv, ChainInv
    <2> QED BY <1>1, <1>2, <1>3, <2>1, <2>2, <2>3 DEF IInv, ChainInv
  <1> QED BY <1>4, <1>5

LEMMA RejectStep ==
  ASSUME KeyProviderAssumption, IInv, up, mutations # <<>>, Reject,
         UNCHANGED <<up, mem, file, bak, next, signing, draining, nextKey>>,
         DirectorySynced \/ UNCHANGED <<fileKept, bakKept>>
  PROVE  IInv'
  <1>1. /\ ChainInv' /\ WriteInv' /\ mutations' \in Seq(Mutation)
        /\ activating' \in BOOLEAN /\ step' = "queued" /\ acked' = acked
    BY SettleStep, Zenon DEF Reject
  <1>2. /\ fileKept' \subseteq fileKept /\ file \in fileKept'
        /\ bakKept' \subseteq bakKept /\ bak \in bakKept'
    BY DEF DirectorySynced, IInv, KeptInv
  <1>3. KeyStoreTypeOK'
    BY <1>1, <1>2 DEF IInv, KeyStoreTypeOK, MutationSteps
  <1>4. KeptInv' /\ AckedDurable' /\ BackupIsRecent'
    BY <1>1, <1>2 DEF IInv, KeptInv, Known, AckedDurable, BackupIsRecent
  <1>5. SigningKeyIsLive' /\ MemoryFollowsFile'
    BY DEF IInv, SigningKeyIsLive, MemoryFollowsFile
  <1> QED BY <1>1, <1>3, <1>4, <1>5 DEF IInv

(* A step inside the running mutation leaves calls and their chain alone.    *)
LEMMA ChainFrame ==
  ASSUME IInv, up, mutations # <<>>, UNCHANGED <<up, mutations, signing, activating, draining>>
  PROVE  /\ ChainInv'
         /\ Running' = Running /\ Running = mutations[1] /\ Running \in Mutation
         /\ Running.op = "activate" => \A s \in Signers : signing[s] = 0
  <1>1. mutations \in Seq(Mutation)
    BY DEF IInv, KeyStoreTypeOK
  <1>2. Running = mutations[1] /\ 1 \in DOMAIN mutations /\ Running \in Mutation
    BY <1>1 DEF Running
  <1>3. Running' = Running
    BY DEF Running
  <1>4. ChainInv'
    BY DEF IInv, ChainInv
  <1> QED BY <1>2, <1>3, <1>4 DEF IInv, ChainInv

LEMMA BeginStep ==
  ASSUME KeyProviderAssumption, IInv, Begin
  PROVE  IInv'
  <1>1. /\ up /\ mutations # <<>> /\ step = "queued" /\ step' = "bak"
        /\ UNCHANGED <<up, mem, disk, mutations, signing, activating, draining, acked>>
        /\ mem = file /\ mem \in KeyStore /\ Roles(mem) /\ StoredKeys(mem) \subseteq Known
        /\ nextKey \in 2..(MaxStoreKeys + 1)
        /\ nextKey' = IF Running.op = "generate" THEN nextKey + 1 ELSE nextKey
        /\ Running.op = "generate" => nextKey <= MaxStoreKeys
    BY DEF Begin, RunningAt, IInv, MemoryFollowsFile, KeptInv, KeyStoreTypeOK
  <1>2. PICK s \in Change(mem, Running) : next' = s
    BY DEF Begin
  <1>3. /\ ChainInv' /\ Running' = Running /\ Running \in Mutation
    BY <1>1, ChainFrame
  <1>4. Known \subseteq Known' /\ nextKey' \in 2..(MaxStoreKeys + 1) /\ Known' \subseteq StoreKids
    BY <1>1, SMTT(20) DEF Known, KeyProviderAssumption, StoreKids
  <1>5. /\ next' \in KeyStore /\ next'.gen = mem.gen + 1
        /\ Roles(next') /\ StoredKeys(next') \subseteq Known'
        /\ (acked["activate"] \cap next'.pending = {})
        /\ (acked["supersede"] \cap StoredKeys(next') = {})
        /\ Running.op # "activate" =>
             {mem.active} \cup mem.pending \subseteq {next'.active} \cup next'.pending
        /\ SubjectOK'
    <2>0. /\ acked["activate"] \cap mem.pending = {}
          /\ acked["supersede"] \cap StoredKeys(mem) = {}
          /\ acked["activate"] \subseteq Known /\ acked["supersede"] \subseteq Known
      BY <1>1 DEF IInv, AckedDurable, KeptInv, Operations
    <2>1. CASE Running.op = "generate"
      <3>1. next' = Store(mem.gen + 1, mem.active, mem.retained, mem.pending \cup {nextKey})
        BY <1>2, <2>1 DEF Change
      <3>2. /\ next'.gen = mem.gen + 1 /\ next'.active = mem.active
            /\ next'.retained = mem.retained /\ next'.pending = mem.pending \cup {nextKey}
            /\ nextKey \in StoreKids
        BY <1>1, <2>1, <3>1 DEF Store, StoreKids
      <3>3. nextKey \notin Known /\ nextKey \in Known'
        BY <1>1, <2>1 DEF Known
      <3>4. next' \in KeyStore
        BY <1>1, <3>1, <3>2 DEF KeyStore, Store
      <3>5. Roles(next') /\ StoredKeys(next') \subseteq Known'
        BY <1>1, <1>4, <3>2, <3>3, Zenon DEF Roles, StoredKeys
      <3>6. /\ (acked["activate"] \cap next'.pending = {})
            /\ (acked["supersede"] \cap StoredKeys(next') = {})
        BY <2>0, <3>2, <3>3 DEF StoredKeys
      <3>7. SubjectOK'
        <4>1. Subject' = nextKey
          BY <1>1, <1>3, <2>1, SMTT(20) DEF Subject
        <4> QED BY <1>3, <2>1, <3>2, <3>3, <4>1 DEF SubjectOK, StoredKeys
      <3> QED BY <3>2, <3>4, <3>5, <3>6, <3>7
    <2>2. CASE Running.op = "activate"
      <3>1. /\ Running.kid \in mem.pending
            /\ next' = Store(mem.gen + 1, Running.kid, mem.retained \cup {mem.active},
                             mem.pending \ {Running.kid})
        BY <1>2, <2>2 DEF Change
      <3>2. /\ next'.gen = mem.gen + 1 /\ next'.active = Running.kid
            /\ next'.retained = mem.retained \cup {mem.active}
            /\ next'.pending = mem.pending \ {Running.kid}
        BY <3>1 DEF Store
      <3>3. next' \in KeyStore
        BY <1>1, <3>1 DEF KeyStore, Store
      <3>a. /\ mem.active \notin mem.retained /\ mem.active \notin mem.pending
            /\ mem.retained \cap mem.pending = {}
        BY <1>1 DEF Roles
      <3>b. Roles(next')
        <4>1. Running.kid \notin mem.retained /\ Running.kid # mem.active
          BY <3>a, <3>1
        <4>2. next'.active \notin next'.retained \cup next'.pending
          BY <3>2, <4>1
        <4>3. next'.retained \cap next'.pending = {}
          BY <3>a, <3>2
        <4> QED BY <4>2, <4>3 DEF Roles
      <3>c. StoredKeys(next') = StoredKeys(mem)
        BY <3>1, <3>2, Zenon DEF StoredKeys
      <3>4. Roles(next') /\ StoredKeys(next') = StoredKeys(mem)
        BY <3>b, <3>c
      <3>5. SubjectOK'
        <4>1. Subject' = Running.kid /\ Running.kid \in Known'
          BY <1>1, <1>3, <1>4, <2>2, <3>1 DEF Subject, StoredKeys
        <4> QED BY <1>3, <2>2, <3>2, <4>1 DEF SubjectOK
      <3> QED BY <1>1, <1>4, <2>0, <2>2, <3>2, <3>3, <3>4, <3>5
    <2>3. CASE Running.op = "supersede"
      <3>1. /\ Running.kid # mem.active /\ Running.kid \in mem.retained
            /\ next' = Store(mem.gen + 1, mem.active, mem.retained \ {Running.kid},
                             mem.pending)
        BY <1>2, <2>3 DEF Change
      <3>2. /\ next'.gen = mem.gen + 1 /\ next'.active = mem.active
            /\ next'.retained = mem.retained \ {Running.kid}
            /\ next'.pending = mem.pending
        BY <3>1 DEF Store
      <3>a. next' \in KeyStore
        BY <1>1, <3>1 DEF KeyStore, Store
      <3>3. Roles(next') /\ StoredKeys(next') \subseteq StoredKeys(mem) /\ Running.kid \notin StoredKeys(next')
        BY <1>1, <3>1, <3>2, Zenon DEF Roles, StoredKeys
      <3>4. SubjectOK'
        <4>1. Subject' = Running.kid /\ Running.kid \in Known'
          BY <1>1, <1>3, <1>4, <2>3, <3>1 DEF Subject, StoredKeys
        <4> QED BY <1>3, <2>3, <3>3, <4>1 DEF SubjectOK
      <3> QED BY <1>1, <1>4, <2>0, <3>2, <3>a, <3>3, <3>4
    <2> QED BY <1>3, <2>1, <2>2, <2>3 DEF Mutation, Operations
  <1>6. KeyStoreTypeOK'
    BY <1>1, <1>4, <1>5, Zenon DEF IInv, KeyStoreTypeOK, disk, MutationSteps
  <1>7. KeptInv' /\ AckedDurable' /\ BackupIsRecent'
    BY <1>1, <1>4 DEF IInv, KeptInv, AckedDurable, BackupIsRecent, disk
  <1>8. WriteInv'
    BY <1>1, <1>3, <1>5 DEF WriteInv
  <1>9. SigningKeyIsLive' /\ MemoryFollowsFile'
    BY <1>1 DEF IInv, SigningKeyIsLive, MemoryFollowsFile, disk
  <1> QED BY <1>3, <1>6, <1>7, <1>8, <1>9 DEF IInv

LEMMA RenameBakStep ==
  ASSUME KeyProviderAssumption, IInv, RenameBak
  PROVE  IInv'
  <1>1. /\ up /\ mutations # <<>> /\ step = "bak" /\ step' = "bakSync"
        /\ bak' = mem /\ bakKept' = bakKept \cup {mem} /\ mem = file /\ mem \in KeyStore
        /\ UNCHANGED <<up, mem, file, fileKept, mutations, next, signing, activating,
                       draining, nextKey, acked>>
    BY DEF RenameBak, RunningAt, IInv, KeyStoreTypeOK, MemoryFollowsFile
  <1>2. ChainInv' /\ Running' = Running /\ Subject' = Subject /\ Known' = Known
    BY <1>1, ChainFrame DEF Subject, Known
  <1>3. KeyStoreTypeOK'
    BY <1>1 DEF IInv, KeyStoreTypeOK, MutationSteps
  <1>4. KeptInv' /\ AckedDurable'
    BY <1>1, <1>2 DEF IInv, KeptInv, AckedDurable
  <1>5. BackupIsRecent'
    <2>1. \A s \in fileKept : s.gen <= mem.gen /\ s.gen \in Nat /\ mem.gen \in Nat
      BY <1>1 DEF IInv, KeptInv, KeyStoreTypeOK, KeyStore
    <2>2. \A s \in fileKept : mem.gen >= s.gen - 1
      BY <2>1
    <2> QED BY <1>1, <2>2 DEF IInv, BackupIsRecent
  <1>6. WriteInv'
    BY <1>1, <1>2, Zenon DEF IInv, WriteInv, SubjectOK
  <1>7. SigningKeyIsLive' /\ MemoryFollowsFile'
    BY <1>1 DEF IInv, SigningKeyIsLive, MemoryFollowsFile
  <1> QED BY <1>2, <1>3, <1>4, <1>5, <1>6, <1>7 DEF IInv

LEMMA SyncBakStep ==
  ASSUME KeyProviderAssumption, IInv, SyncBak
  PROVE  IInv'
  <1>1. /\ up /\ mutations # <<>> /\ step = "bakSync" /\ step' = "main"
        /\ fileKept' = {file} /\ bakKept' = {bak} /\ bak = mem
        /\ UNCHANGED <<up, mem, file, bak, mutations, next, signing, activating,
                       draining, nextKey, acked>>
    BY DEF SyncBak, RunningAt, DirectorySynced, IInv, WriteInv
  <1>2. ChainInv' /\ Running' = Running /\ Subject' = Subject /\ Known' = Known
    BY <1>1, ChainFrame DEF Subject, Known
  <1>3. KeyStoreTypeOK'
    BY <1>1 DEF IInv, KeyStoreTypeOK, MutationSteps, KeptInv
  <1>4. KeptInv' /\ AckedDurable' /\ BackupIsRecent'
    BY <1>1, <1>2 DEF IInv, KeptInv, AckedDurable, BackupIsRecent
  <1>5. WriteInv'
    BY <1>1, <1>2, Zenon DEF IInv, WriteInv, SubjectOK
  <1>6. SigningKeyIsLive' /\ MemoryFollowsFile'
    BY <1>1 DEF IInv, SigningKeyIsLive, MemoryFollowsFile
  <1> QED BY <1>2, <1>3, <1>4, <1>5, <1>6 DEF IInv

LEMMA RenameMainStep ==
  ASSUME KeyProviderAssumption, IInv, RenameMain
  PROVE  IInv'
  <1>1. /\ up /\ mutations # <<>> /\ step = "main" /\ step' = "mainSync"
        /\ file' = next /\ mem' = next /\ fileKept' = fileKept \cup {next}
        /\ acked' = [acked EXCEPT !["generate"] = @ \cap StoredKeys(next)]
        /\ UNCHANGED <<up, bak, bakKept, mutations, next, signing, activating, draining,
                       nextKey>>
        /\ mem = file /\ fileKept = {mem} /\ bakKept = {mem}
    BY DEF RenameMain, RunningAt, IInv, WriteInv, MemoryFollowsFile
  <1>2. /\ ChainInv' /\ Running' = Running /\ Subject' = Subject /\ Known' = Known
        /\ Running.op = "activate" => \A s \in Signers : signing[s] = 0
    BY <1>1, ChainFrame DEF Subject, Known
  <1>3. /\ next.gen = mem.gen + 1 /\ mem.gen \in Nat /\ next \in KeyStore
        /\ Roles(next) /\ StoredKeys(next) \subseteq Known
        /\ acked["activate"] \cap next.pending = {}
        /\ acked["supersede"] \cap StoredKeys(next) = {}
        /\ Running.op # "activate" =>
             {mem.active} \cup mem.pending \subseteq {next.active} \cup next.pending
        /\ SubjectOK
    BY <1>1 DEF IInv, KeyStoreTypeOK, WriteInv, KeyStore
  <1>4. /\ acked' \in [Operations -> SUBSET StoreKids]
        /\ acked'["generate"] = acked["generate"] \cap StoredKeys(next)
        /\ acked'["activate"] = acked["activate"]
        /\ acked'["supersede"] = acked["supersede"]
    BY <1>1 DEF IInv, KeyStoreTypeOK, Operations
  <1>5. KeyStoreTypeOK'
    BY <1>1, <1>3, <1>4, Zenon DEF IInv, KeyStoreTypeOK, MutationSteps
  <1>6. KeptInv'
    BY <1>1, <1>2, <1>3, <1>4, SMTT(20) DEF IInv, KeptInv, Operations
  <1>7. AckedDurable'
    BY <1>1, <1>3, <1>4 DEF IInv, AckedDurable
  <1>8. BackupIsRecent'
    BY <1>1, <1>3 DEF BackupIsRecent
  <1>9. WriteInv'
    BY <1>1, <1>2, <1>3, Zenon DEF WriteInv, SubjectOK
  <1>10. SigningKeyIsLive'
    BY <1>1, <1>2, <1>3 DEF IInv, SigningKeyIsLive
  <1>11. MemoryFollowsFile'
    BY <1>1 DEF MemoryFollowsFile
  <1> QED BY <1>2, <1>5, <1>6, <1>7, <1>8, <1>9, <1>10, <1>11 DEF IInv

LEMMA SyncMainStep ==
  ASSUME KeyProviderAssumption, IInv, SyncMain
  PROVE  IInv'
  <1>1. /\ up /\ mutations # <<>> /\ step = "mainSync" /\ next = file
        /\ fileKept' = {file} /\ bakKept' = {bak} /\ SubjectOK
        /\ UNCHANGED <<up, mem, file, bak, next, signing, draining, nextKey>>
        /\ SettleMutation(TRUE)
        /\ acked' = [acked EXCEPT ![Running.op] = @ \cup {Subject}]
    BY Zenon DEF SyncMain, Resolve, RunningAt, DirectorySynced, IInv, WriteInv
  <1>2. /\ ChainInv' /\ WriteInv' /\ mutations' \in Seq(Mutation)
        /\ activating' \in BOOLEAN /\ step' = "queued"
    BY <1>1, SettleStep, Zenon
  <1>3. Running.op \in Operations
    <2>1. mutations \in Seq(Mutation)
      BY DEF IInv, KeyStoreTypeOK
    <2>2. Running \in Mutation
      BY <1>1, <2>1, HeadTailProperties, Zenon DEF Running
    <2> QED BY <2>2 DEF Mutation
  <1>4. Subject \in Known /\ Known \subseteq StoreKids /\ Known' = Known
    BY <1>1 DEF SubjectOK, Known, StoreKids, IInv, KeyStoreTypeOK, KeyProviderAssumption
  <1>5. /\ acked' \in [Operations -> SUBSET StoreKids]
        /\ \A o \in Operations : acked'[o] = IF o = Running.op THEN acked[o] \cup {Subject}
                                             ELSE acked[o]
    BY <1>1, <1>3, <1>4, Zenon DEF IInv, KeyStoreTypeOK
  <1>6. KeyStoreTypeOK'
    BY <1>1, <1>2, <1>5 DEF IInv, KeyStoreTypeOK, MutationSteps
  <1>7. KeptInv'
    BY <1>1, <1>4, <1>5 DEF IInv, KeptInv
  <1>8. AckedDurable'
    <2>1. /\ acked["generate"] \subseteq StoredKeys(file)
          /\ acked["activate"] \cap file.pending = {}
          /\ acked["supersede"] \cap StoredKeys(file) = {}
      BY Zenon DEF IInv, AckedDurable, KeptInv
    <2>2. acked'["generate"] \subseteq StoredKeys(file)
      BY <1>1, <1>5, <2>1, Zenon DEF SubjectOK, Operations
    <2>3. acked'["activate"] \cap file.pending = {}
      BY <1>1, <1>5, <2>1, Zenon DEF SubjectOK, Operations
    <2>4. acked'["supersede"] \cap StoredKeys(file) = {}
      BY <1>1, <1>5, <2>1 DEF SubjectOK, Operations
    <2> QED BY <1>1, <2>2, <2>3, <2>4, Zenon DEF AckedDurable
  <1>9. BackupIsRecent'
    BY <1>1 DEF IInv, KeptInv, BackupIsRecent
  <1>10. SigningKeyIsLive' /\ MemoryFollowsFile'
    BY <1>1 DEF IInv, SigningKeyIsLive, MemoryFollowsFile
  <1> QED BY <1>2, <1>6, <1>7, <1>8, <1>9, <1>10 DEF IInv
-----------------------------------------------------------------------------
LEMMA CrashSteps ==
  ASSUME KeyProviderAssumption, IInv, ProcessDies \/ PowerLoss \/ LoadStore
  PROVE  IInv'
  <1>1. ASSUME Down, file' \in fileKept', fileKept' \subseteq fileKept,
               bak' \in bakKept', bakKept' \subseteq bakKept,
               \A s \in fileKept' : s.gen <= file'.gen
        PROVE  IInv'
    <2>1. /\ up' = FALSE /\ mutations' = <<>> /\ step' = "queued"
          /\ signing' = [s \in Signers |-> 0] /\ activating' = FALSE /\ draining' = 0
          /\ UNCHANGED <<mem, next, nextKey, acked>>
      BY <1>1 DEF Down
    <2>2. KeyStoreTypeOK'
      <3>1. /\ file' \in KeyStore /\ fileKept' \subseteq KeyStore
            /\ bak' \in KeyStore \cup {NoFile} /\ bakKept' \subseteq KeyStore \cup {NoFile}
        BY <1>1 DEF IInv, KeyStoreTypeOK
      <3>2. mutations' \in Seq(Mutation) /\ signing' \in [Signers -> StoreKids \cup {0}]
        BY <2>1
      <3> QED BY <2>1, <3>1, <3>2, Zenon DEF IInv, KeyStoreTypeOK, MutationSteps
    <2>3. KeptInv' /\ AckedDurable' /\ BackupIsRecent'
      BY <1>1, <2>1, Zenon DEF IInv, KeptInv, Known, AckedDurable, BackupIsRecent
    <2>4. ChainInv' /\ WriteInv' /\ SigningKeyIsLive' /\ MemoryFollowsFile'
      BY <2>1 DEF ChainInv, WriteInv, SigningKeyIsLive, MemoryFollowsFile
    <2> QED BY <2>2, <2>3, <2>4 DEF IInv
  <1>2. CASE ProcessDies
    <2>1. Down /\ UNCHANGED <<file, bak, fileKept, bakKept>>
      BY <1>2 DEF ProcessDies, disk
    <2> QED BY <1>1, <2>1 DEF IInv, KeptInv
  <1>3. CASE PowerLoss
    <2>1. /\ Down /\ file' \in fileKept /\ bak' \in bakKept
          /\ fileKept' = {file'} /\ bakKept' = {bak'}
      BY <1>3 DEF PowerLoss
    <2>2. file'.gen <= file'.gen
      BY <2>1 DEF IInv, KeyStoreTypeOK, KeyStore
    <2> QED BY <1>1, <2>1, <2>2
  <1>4. CASE LoadStore
    <2>1. /\ ~up /\ up' = TRUE /\ mem' = file /\ step = "queued" /\ mutations = <<>>
          /\ UNCHANGED <<disk, mutations, step, next, signing, activating, draining,
                         nextKey, acked>>
          /\ \A s \in Signers : signing[s] = 0
      BY <1>4, Zenon DEF LoadStore, IInv, ChainInv
    <2>2. KeyStoreTypeOK'
      BY <2>1 DEF IInv, KeyStoreTypeOK, disk
    <2>3. KeptInv' /\ AckedDurable' /\ BackupIsRecent'
      BY <2>1, Zenon DEF IInv, KeptInv, Known, AckedDurable, BackupIsRecent, disk
    <2>4. ChainInv' /\ WriteInv'
      BY <2>1 DEF IInv, ChainInv, WriteInv
    <2>5. SigningKeyIsLive' /\ MemoryFollowsFile'
      BY <2>1 DEF SigningKeyIsLive, MemoryFollowsFile, disk
    <2> QED BY <2>2, <2>3, <2>4, <2>5 DEF IInv
  <1> QED BY <1>2, <1>3, <1>4

LEMMA StutterStep == ASSUME IInv, UNCHANGED keyStoreVars PROVE IInv'
  <1>1. KeyStoreTypeOK' /\ ChainInv' /\ SigningKeyIsLive'
    BY DEF keyStoreVars, disk, IInv, KeyStoreTypeOK, ChainInv, SigningKeyIsLive
  <1> QED BY <1>1, CallFrame, Zenon DEF keyStoreVars

LEMMA NextIInv ==
  ASSUME KeyProviderAssumption, IInv, [KeyStoreNext]_keyStoreVars
  PROVE  IInv'
  <1>1. ASSUME Throw \/ WriteFails \/ SyncFails PROVE IInv'
    BY <1>1, RejectStep DEF Throw, WriteFails, SyncFails, RunningAt, disk
  <1>2. CASE KeyStoreNext
    BY <1>1, <1>2, SignSteps, EnqueueSteps, BeginStep, RenameBakStep, SyncBakStep,
       RenameMainStep, SyncMainStep, CrashSteps
    DEF KeyStoreNext, RunMutation
  <1> QED BY <1>2, StutterStep
-----------------------------------------------------------------------------
(* The inductive invariant holds in every reachable state.                   *)
THEOREM Invariance == KeyStoreSpec => []IInv
  <1>1. KeyStoreInit => IInv
    BY KeyProviderAssumption, InitIInv
  <1>2. IInv /\ [KeyStoreNext]_keyStoreVars => IInv'
    BY KeyProviderAssumption, NextIInv
  <1> QED BY <1>1, <1>2, PTL DEF KeyStoreSpec

(* Types, for every set of signers and every bound on keys.                  *)
THEOREM TypeCorrect == KeyStoreSpec => []KeyStoreTypeOK
  <1>1. IInv => KeyStoreTypeOK
    BY DEF IInv
  <1> QED BY <1>1, Invariance, PTL

(* activate promotes a key only when no signature is in flight with a key    *)
(* that loses its role.                                                      *)
THEOREM SigningIsDrained == KeyStoreSpec => []SigningKeyIsLive
  <1>1. IInv => SigningKeyIsLive
    BY DEF IInv
  <1> QED BY <1>1, Invariance, PTL

(* Memory and the visible file agree whatever fails in writeStore.           *)
THEOREM MemoryIsVisible == KeyStoreSpec => []MemoryFollowsFile
  <1>1. IInv => MemoryFollowsFile
    BY DEF IInv
  <1> QED BY <1>1, Invariance, PTL

(* What generateKey, activate and supersede acknowledge survives every crash.*)
THEOREM AcknowledgedIsDurable == KeyStoreSpec => []AckedDurable
  <1>1. IInv => AckedDurable
    BY DEF IInv
  <1> QED BY <1>1, Invariance, PTL

(* The backup file is never more than one generation behind.                 *)
THEOREM BackupStaysRecent == KeyStoreSpec => []BackupIsRecent
  <1>1. IInv => BackupIsRecent
    BY DEF IInv
  <1> QED BY <1>1, Invariance, PTL

(* Signatures, memory, file and backup after any sequence of mutations,      *)
(* failures and crashes.                                                     *)
THEOREM StoreStaysSafe == KeyStoreSpec => []KeyStoreIsSafe
  BY SigningIsDrained, MemoryIsVisible, AcknowledgedIsDurable, BackupStaysRecent, PTL
     DEF KeyStoreIsSafe
-----------------------------------------------------------------------------
(* An activation that has drained the signatures keeps them out: no signature*)
(* begins until it ends.                                                     *)
DrainInv ==
  /\ signatures = [s \in KmsSigners |-> signatures[s]]
  /\ drained => Activating /\ \A s \in KmsSigners : signatures[s] = 0

(* Every key is in at most one place: loading, pending, active, retained or  *)
(* purged.                                                                   *)
Places ==
  /\ vendor \in {"aws", "gcp"}
  /\ active \in Nat /\ (Aws => active # 0)
  /\ pending \subseteq Nat \ {0} /\ created \subseteq Nat \ {0} /\ purged \subseteq Nat \ {0}
  /\ active \notin pending /\ active \notin created /\ active \notin purged
  /\ pending \cap created = {} /\ pending \cap purged = {} /\ created \cap purged = {}
  /\ superseded \cap created = {}

(* The retained keys are distinct, and in no other place.                    *)
RetainedInv ==
  /\ retained \in Seq(Nat) /\ (Gcp => retained = <<>>)
  /\ \A i, j \in DOMAIN retained : retained[i] = retained[j] => i = j
  /\ \A i \in DOMAIN retained :
       /\ retained[i] # 0 /\ retained[i] # active
       /\ retained[i] \notin pending /\ retained[i] \notin created /\ retained[i] \notin purged

(* A supersede call that waits for the service holds the place of its key,   *)
(* which no other call moves as long as it is the only one.                  *)
PurgeInv ==
  /\ purging \in [Purgers -> [kid : Nat, idx : Nat]]
  /\ \A p \in Purgers : purging[p] # KmsIdle =>
       /\ Aws /\ schedules
       /\ purging[p].idx \in DOMAIN retained /\ retained[purging[p].idx] = purging[p].kid

(* Supersede calls wait for the service one at a time.                       *)
SerialPurges ==
  \A p, q \in Purgers : purging[p] # KmsIdle /\ purging[q] # KmsIdle => p = q

KmsInv == Places /\ RetainedInv /\ PurgeInv
-----------------------------------------------------------------------------
(* Array.prototype.splice(i, 1) moves the entries after i one place down.    *)
LEMMA SpliceRemoves ==
  ASSUME NEW S, NEW s \in Seq(S), NEW i \in 1 .. Len(s)
  PROVE  /\ Splice(s, i) \in Seq(S) /\ DOMAIN Splice(s, i) = 1 .. (Len(s) - 1)
         /\ \A j \in 1 .. (Len(s) - 1) : Splice(s, i)[j] = s[IF j < i THEN j ELSE j + 1]
<1> DEFINE a == SubSeq(s, 1, i - 1)
           b == SubSeq(s, i + 1, Len(s))
<1>0. Len(s) \in Nat
  OBVIOUS
<1>1. a \in Seq(S) /\ Len(a) = i - 1 /\ \A j \in 1 .. (i - 1) : a[j] = s[j]
  OBVIOUS
<1>2. b \in Seq(S) /\ Len(b) = Len(s) - i /\ \A j \in 1 .. (Len(s) - i) : b[j] = s[i + j]
  OBVIOUS
<1>3. Splice(s, i) = a \o b
  BY Zenon DEF Splice
<1> HIDE DEF a, b
<1>4. a \o b \in Seq(S) /\ Len(a \o b) = Len(s) - 1
  <2>1. a \o b \in Seq(S) /\ Len(a \o b) = Len(a) + Len(b)
    BY <1>1, <1>2, ConcatProperties, Zenon
  <2> QED  BY <1>0, <1>1, <1>2, <2>1
<1>5. ASSUME NEW j \in 1 .. (Len(s) - 1) PROVE (a \o b)[j] = s[IF j < i THEN j ELSE j + 1]
  <2>1. CASE j < i
    BY <1>0, <1>1, <1>2, <2>1
  <2>2. CASE ~(j < i)
    <3>1. j - (i - 1) \in 1 .. (Len(s) - i) /\ i + (j - (i - 1)) = j + 1
      BY <1>0, <2>2
    <3>2. (a \o b)[j] = b[j - (i - 1)]
      BY <1>0, <1>1, <1>2, <2>2
    <3> QED  BY <1>2, <2>2, <3>1, <3>2
  <2> QED  BY <2>1, <2>2, Zenon
<1> QED  BY <1>0, <1>3, <1>4, <1>5

(* A key leaves the retained keys for the purged ones.                       *)
LEMMA RetainedShrinks ==
  ASSUME RetainedInv, Aws, NEW i \in DOMAIN retained,
         retained' = Splice(retained, i), purged' = purged \cup {retained[i]},
         UNCHANGED <<config, active, pending, created>>
  PROVE  RetainedInv'
<1>0. retained \in Seq(Nat) /\ Len(retained) \in Nat /\ DOMAIN retained = 1 .. Len(retained)
  BY DEF RetainedInv
<1> DEFINE from(j) == IF j < i THEN j ELSE j + 1
<1>1. /\ retained' \in Seq(Nat) /\ DOMAIN retained' = 1 .. (Len(retained) - 1)
      /\ \A j \in 1 .. (Len(retained) - 1) : retained'[j] = retained[from(j)]
  <2>1. i \in 1 .. Len(retained)
    BY <1>0
  <2> DEFINE after == Splice(retained, i)
  <2>2. /\ after \in Seq(Nat) /\ DOMAIN after = 1 .. (Len(retained) - 1)
        /\ \A j \in 1 .. (Len(retained) - 1) : after[j] = retained[from(j)]
    BY <1>0, <2>1, SpliceRemoves, Zenon
  <2> HIDE DEF after, from
  <2> QED  BY <2>2 DEF after
<1>2. /\ \A j \in DOMAIN retained' : from(j) \in DOMAIN retained /\ from(j) # i
      /\ \A j, k \in DOMAIN retained' : from(j) = from(k) => j = k
  <2>1. i \in 1 .. Len(retained)
    BY <1>0
  <2>2. ASSUME NEW j \in DOMAIN retained'
        PROVE  j \in Nat /\ 1 <= j /\ j + 1 <= Len(retained)
    BY <1>0, <1>1
  <2>3. ASSUME NEW j \in DOMAIN retained' PROVE from(j) \in DOMAIN retained /\ from(j) # i
    BY <1>0, <2>1, <2>2
  <2>4. ASSUME NEW j \in DOMAIN retained', NEW k \in DOMAIN retained', from(j) = from(k)
        PROVE  j = k
    BY <2>1, <2>2, <2>4
  <2> QED  BY <2>3, <2>4
<1>3. \A j \in DOMAIN retained' : retained'[j] = retained[from(j)]
  BY <1>1, Zenon
<1> HIDE DEF from
<1>4. \A j, k \in DOMAIN retained' : retained'[j] = retained'[k] => j = k
  BY <1>2, <1>3 DEF RetainedInv
<1>5. ASSUME NEW j \in DOMAIN retained'
      PROVE  /\ retained'[j] # 0 /\ retained'[j] # active /\ retained'[j] \notin pending
             /\ retained'[j] \notin created /\ retained'[j] \notin purged'
  BY <1>2, <1>3 DEF RetainedInv
<1>6. ~Gcp'
  BY DEF Aws, Gcp, config
<1> QED  BY <1>1, <1>4, <1>5, <1>6 DEF RetainedInv

(* The initial state.                                                        *)
LEMMA InitKmsInv == ASSUME KmsAssumption, KmsInit PROVE KmsInv /\ DrainInv
<1>1. Places
  BY DEF KmsAssumption, KmsInit, Places
<1>2. RetainedInv
  BY DEF KmsInit, RetainedInv
<1>3. PurgeInv
  BY DEF KmsInit, PurgeInv, KmsIdle
<1>4. DrainInv
  BY Zenon DEF KmsInit, DrainInv
<1> QED  BY <1>1, <1>2, <1>3, <1>4 DEF KmsInv

(* Signing, and what generateKey and activate do up to the promotion.        *)
LEMMA KmsQuietSteps ==
  ASSUME KmsInv,
         \/ \E s \in KmsSigners : KmsSignKey(s) \/ KmsSigned(s)
         \/ \E kid \in KmsKids : KmsActivate(kid)
         \/ KmsDrained \/ PromoteFails \/ UNCHANGED kmsVars
  PROVE  KmsInv'
<1>1. UNCHANGED <<config, active, pending, retained, superseded, purging, created, purged>>
  BY DEF KmsSignKey, KmsSigned, KmsActivate, KmsDrained, PromoteFails, kmsVars
<1> QED  BY <1>1, Zenon DEF KmsInv, Places, RetainedInv, PurgeInv, Aws, Gcp, config

LEMMA CreateKeyStep == ASSUME KmsAssumption, KmsInv, CreateKey PROVE KmsInv'
<1>1. PICK kid \in KmsKids :
        /\ kid \notin {active} \cup pending \cup superseded \cup Range(retained) \cup created \cup purged
        /\ created' = created \cup {kid}
  BY DEF CreateKey
<1>2. kid \in Nat \ {0}
  BY DEF KmsKids, KmsAssumption
<1>3. \A i \in DOMAIN retained : retained[i] # kid
  BY <1>1 DEF Range
<1>4. UNCHANGED <<config, active, pending, retained, superseded, purging, purged>>
  BY DEF CreateKey
<1>5. Places'
  BY <1>1, <1>2, <1>4 DEF KmsInv, Places, Aws, Gcp, config
<1>6. RetainedInv'
  BY <1>1, <1>3, <1>4 DEF KmsInv, RetainedInv, Gcp, config
<1> QED  BY <1>4, <1>5, <1>6 DEF KmsInv, PurgeInv, Aws, Gcp, config

LEMMA ListPendingStep == ASSUME KmsInv, NEW kid \in KmsKids, ListPending(kid) PROVE KmsInv'
<1>1. /\ kid \in created /\ created' = created \ {kid} /\ pending' = pending \cup {kid}
      /\ UNCHANGED <<config, active, retained, superseded, purging, purged>>
  BY DEF ListPending
<1>2. Places'
  BY <1>1 DEF KmsInv, Places, Aws, Gcp, config
<1>3. RetainedInv'
  BY <1>1 DEF KmsInv, RetainedInv, Gcp, config
<1> QED  BY <1>1, <1>2, <1>3 DEF KmsInv, PurgeInv, Aws, Gcp, config

(* Promotion: the key that was active goes to the end of the retained keys.  *)
LEMMA PromoteStep == ASSUME KmsInv, Promote PROVE KmsInv'
<1>1. /\ promoting \in pending /\ pending' = pending \ {promoting} /\ active' = promoting
      /\ superseded' \in {superseded, superseded \cup {active}}
      /\ UNCHANGED <<config, purging, created, purged>>
  BY DEF Promote
<1>2. Places'
  BY <1>1 DEF KmsInv, Places, Aws, Gcp, config
<1>3. CASE Aws
  <2>1. retained' = Append(retained, active) /\ retained \in Seq(Nat) /\ active \in Nat
    BY <1>3 DEF Promote, KmsInv, Places, RetainedInv
  <2> DEFINE n == Len(retained)
  <2>2. /\ n \in Nat /\ DOMAIN retained = 1 .. n /\ DOMAIN retained' = 1 .. (n + 1)
        /\ retained' \in Seq(Nat) /\ retained'[n + 1] = active
        /\ \A i \in DOMAIN retained : retained'[i] = retained[i]
    BY <2>1
  <2> HIDE DEF n
  <2>3. \A i \in DOMAIN retained' : i \in DOMAIN retained \/ i = n + 1
    BY <2>2
  <2>4. \A i, j \in DOMAIN retained' : retained'[i] = retained'[j] => i = j
    BY <2>2, <2>3, Zenon DEF KmsInv, RetainedInv
  <2>5. ASSUME NEW i \in DOMAIN retained'
        PROVE  /\ retained'[i] # 0 /\ retained'[i] # active' /\ retained'[i] \notin pending'
               /\ retained'[i] \notin created /\ retained'[i] \notin purged
    BY <1>1, <1>3, <2>2, <2>3, Zenon DEF KmsInv, RetainedInv, Places
  <2>6. RetainedInv'
    BY <1>1, <1>3, <2>2, <2>4, <2>5 DEF RetainedInv, Aws, Gcp, config
  <2>7. \A i \in DOMAIN retained : i \in DOMAIN retained' /\ retained'[i] = retained[i]
    BY <2>2
  <2>8. PurgeInv'
    BY <1>1, <2>7 DEF KmsInv, PurgeInv, Aws, Gcp, config
  <2> QED  BY <1>2, <2>6, <2>8 DEF KmsInv
<1>4. CASE ~Aws
  <2>1. retained' = retained
    BY <1>4 DEF Promote
  <2>2. RetainedInv'
    BY <1>1, <2>1 DEF KmsInv, RetainedInv, Gcp, config
  <2> QED  BY <1>1, <1>2, <2>1, <2>2 DEF KmsInv, PurgeInv, Aws, Gcp, config
<1> QED  BY <1>3, <1>4

(* supersede of the aws provider, up to its await.                           *)
LEMMA AwsSupersedeStep ==
  ASSUME KmsInv, NEW p \in Purgers, NEW kid \in KmsKids, AwsSupersede(p, kid)
  PROVE  KmsInv'
<1>1. PICK i \in DOMAIN retained :
        retained[i] = kid /\ purging' = [purging EXCEPT ![p] = [kid |-> kid, idx |-> i]]
  BY Zenon DEF AwsSupersede, FoundAt
<1>2. Aws /\ schedules /\ UNCHANGED <<config, active, pending, retained, superseded, created, purged>>
  BY Zenon DEF AwsSupersede
<1>3. [kid |-> kid, idx |-> i] \in [kid : Nat, idx : Nat]
  <2>1. retained \in Seq(Nat)
    BY DEF KmsInv, RetainedInv
  <2>2. i \in Nat /\ kid \in Nat
    BY <1>1, <2>1, SMTT(20)
  <2> QED  BY <2>2
<1>4. PurgeInv'
  BY <1>1, <1>2, <1>3, Zenon DEF KmsInv, PurgeInv, Aws, Gcp, config
<1> QED  BY <1>2, <1>4 DEF KmsInv, Places, RetainedInv, Aws, Gcp, config

(* The service answers; the entry at the index that was found is the key's,  *)
(* since no other call has moved it.                                         *)
LEMMA AwsDeletionStep ==
  ASSUME KmsInv, SerialPurges, NEW p \in Purgers, AwsDeletionScheduled(p) \/ AwsDeletionFails(p)
  PROVE  KmsInv'
<1>1. purging[p] # KmsIdle /\ \A q \in Purgers : q # p => purging[q] = KmsIdle
  BY DEF SerialPurges, AwsDeletionScheduled, AwsDeletionFails
<1>2. /\ Aws /\ purging[p].idx \in DOMAIN retained /\ retained[purging[p].idx] = purging[p].kid
      /\ purging[p].kid \in Nat
  BY <1>1 DEF KmsInv, PurgeInv
<1>3. UNCHANGED <<config, active, pending, superseded, created>> /\ purging' = [purging EXCEPT ![p] = KmsIdle]
  BY DEF AwsDeletionScheduled, AwsDeletionFails
<1>4. purging' \in [Purgers -> [kid : Nat, idx : Nat]] /\ \A q \in Purgers : purging'[q] = KmsIdle
  BY <1>1, <1>3 DEF KmsInv, PurgeInv, KmsIdle
<1>5. PurgeInv'
  BY <1>4 DEF PurgeInv, KmsIdle
<1>6. CASE AwsDeletionScheduled(p)
  <2>1. /\ retained' = Splice(retained, purging[p].idx)
        /\ purged' = purged \cup {retained[purging[p].idx]}
    BY <1>2, <1>6, Zenon DEF AwsDeletionScheduled
  <2>2. RetainedInv'
    BY <1>2, <1>3, <2>1, RetainedShrinks, Zenon DEF KmsInv
  <2>3. Places'
    BY <1>2, <1>3, <2>1, Zenon DEF KmsInv, Places, RetainedInv, Aws, Gcp, config
  <2> QED  BY <1>5, <2>2, <2>3, Zenon DEF KmsInv
<1>7. CASE AwsDeletionFails(p)
  <2>1. UNCHANGED <<retained, purged>>
    BY <1>7 DEF AwsDeletionFails
  <2> QED  BY <1>3, <1>5, <2>1 DEF KmsInv, Places, RetainedInv, Aws, Gcp, config
<1> QED  BY <1>6, <1>7

LEMMA AwsSupersedeAtOnceStep ==
  ASSUME KmsInv, NEW kid \in KmsKids, AwsSupersedeAtOnce(kid)
  PROVE  KmsInv'
<1>1. PICK i \in DOMAIN retained : retained[i] = kid /\ retained' = Splice(retained, i)
  BY DEF AwsSupersedeAtOnce, FoundAt
<1>2. /\ Aws /\ ~schedules /\ purged' = purged \cup {retained[i]}
      /\ UNCHANGED <<config, active, pending, superseded, purging, created>>
  BY <1>1 DEF AwsSupersedeAtOnce
<1>3. RetainedInv'
  BY <1>2, <1>1, RetainedShrinks DEF KmsInv
<1>4. Places'
  <2>1. /\ retained[i] \in Nat \ {0} /\ retained[i] # active
        /\ retained[i] \notin pending /\ retained[i] \notin created
    BY DEF KmsInv, RetainedInv
  <2> QED  BY <1>2, <2>1, Zenon DEF KmsInv, Places, Aws, config
<1>5. PurgeInv'
  BY <1>2, Zenon DEF KmsInv, PurgeInv
<1> QED  BY <1>3, <1>4, <1>5 DEF KmsInv

LEMMA GcpSupersedeStep ==
  ASSUME KmsAssumption, KmsInv, NEW kid \in KmsKids, GcpSupersede(kid)
  PROVE  KmsInv'
<1>1. /\ Gcp /\ kid \in {active} \cup pending \cup superseded
      /\ pending' = pending \ {kid} /\ active' = (IF active = kid THEN 0 ELSE active)
      /\ superseded' = superseded \cup {kid}
      /\ purged' = purged \cup {kid} /\ UNCHANGED <<config, retained, purging, created>>
  BY DEF GcpSupersede
<1>2. kid \in Nat \ {0} /\ kid \notin created
  BY <1>1 DEF KmsKids, KmsAssumption, KmsInv, Places
<1>3. Places'
  BY <1>1, <1>2 DEF KmsInv, Places, Aws, Gcp, config
<1>4. RetainedInv'
  BY <1>1 DEF KmsInv, RetainedInv, Gcp, config
<1> QED  BY <1>1, <1>3, <1>4 DEF KmsInv, PurgeInv, Aws, config

LEMMA KmsStep == ASSUME KmsAssumption, KmsInv, SerialPurges, [KmsNext]_kmsVars PROVE KmsInv'
  BY KmsQuietSteps, CreateKeyStep, ListPendingStep, PromoteStep, AwsSupersedeStep, AwsDeletionStep,
     AwsSupersedeAtOnceStep, GcpSupersedeStep DEF KmsNext

(* As long as supersede calls wait for the service one at a time, a key      *)
(* whose supersede resolved is published no more and never signs again,      *)
(* whatever activations run beside the calls: for both providers, with and   *)
(* without scheduleKeyDeletionOnPurge.                                       *)
THEOREM SupersededStaysGone == KmsSpec /\ []SerialPurges => []SupersededIsGone
<1>1. KmsInit => KmsInv
  BY KmsAssumption, InitKmsInv
<1>2. KmsInv /\ SerialPurges /\ [KmsNext]_kmsVars => KmsInv'
  BY KmsAssumption, KmsStep
<1>3. KmsInv => SupersededIsGone
  BY DEF KmsInv, Places, RetainedInv, SupersededIsGone, Published, Range
<1> QED  BY <1>1, <1>2, <1>3, PTL DEF KmsSpec

(* The gcp provider's supersede never waits for the service, nor does the    *)
(* aws provider's without scheduleKeyDeletionOnPurge: of these, any number   *)
(* may run at once.                                                          *)
THEOREM UnscheduledStaysGone == KmsSpec /\ (Gcp \/ ~schedules) => []SupersededIsGone
<1> DEFINE Inv == (Gcp \/ ~schedules) /\ purging = [p \in Purgers |-> KmsIdle]
<1>1. KmsInit /\ (Gcp \/ ~schedules) => Inv
  BY DEF KmsInit
<1>2. Inv /\ [KmsNext]_kmsVars => Inv'
  <2> SUFFICES ASSUME Inv, [KmsNext]_kmsVars PROVE UNCHANGED <<vendor, schedules, purging>>
    BY DEF Gcp
  <2>1. ASSUME NEW p \in Purgers
        PROVE  /\ \A kid : ~AwsSupersede(p, kid)
               /\ ~AwsDeletionScheduled(p) /\ ~AwsDeletionFails(p)
    BY Zenon DEF AwsSupersede, AwsDeletionScheduled, AwsDeletionFails, Aws, Gcp
  <2>2. CASE UNCHANGED kmsVars
    BY <2>2 DEF kmsVars, config
  <2>3. CASE \E s \in KmsSigners : KmsSignKey(s) \/ KmsSigned(s)
    BY <2>3 DEF KmsSignKey, KmsSigned, config
  <2>4. CASE \E kid \in KmsKids : ListPending(kid) \/ KmsActivate(kid)
    BY <2>4 DEF ListPending, KmsActivate, config
  <2>5. CASE \E kid \in KmsKids : GcpSupersede(kid) \/ AwsSupersedeAtOnce(kid)
    BY <2>5 DEF GcpSupersede, AwsSupersedeAtOnce, config
  <2>6. CASE CreateKey \/ KmsDrained \/ Promote \/ PromoteFails
    BY <2>6, Zenon DEF CreateKey, KmsDrained, Promote, PromoteFails, config
  <2> QED  BY <2>1, <2>2, <2>3, <2>4, <2>5, <2>6 DEF KmsNext
<1>3. Inv => SerialPurges
  BY DEF SerialPurges
<1> QED  BY <1>1, <1>2, <1>3, SupersededStaysGone, PTL DEF KmsSpec

(* No signature of the key that a promotion replaces completes after it: the *)
(* promotion follows Promise.allSettled, and nothing signs in between.       *)
THEOREM PromotionsDrain == KmsSpec => PromotionDrains
<1>1. KmsInit => DrainInv
  BY KmsAssumption, InitKmsInv
<1>2. DrainInv /\ [KmsNext]_kmsVars => DrainInv'
  <2> SUFFICES ASSUME DrainInv, [KmsNext]_kmsVars PROVE DrainInv'
    OBVIOUS
  <2>1. ASSUME NEW s \in KmsSigners, KmsSignKey(s) \/ KmsSigned(s) PROVE DrainInv'
    BY <2>1 DEF DrainInv, KmsSignKey, KmsSigned, Activating
  <2>2. CASE \E kid \in KmsKids : KmsActivate(kid)
    BY <2>2 DEF DrainInv, KmsActivate, Activating
  <2>3. CASE KmsDrained
    BY <2>3 DEF DrainInv, KmsDrained, Activating
  <2>4. CASE Promote \/ PromoteFails
    BY <2>4 DEF DrainInv, Promote, PromoteFails
  <2>5. CASE UNCHANGED <<signatures, promoting, drained>>
    BY <2>5 DEF DrainInv, Activating
  <2>6. \/ \E s \in KmsSigners : KmsSignKey(s) \/ KmsSigned(s)
        \/ \E kid \in KmsKids : KmsActivate(kid)
        \/ KmsDrained \/ Promote \/ PromoteFails
        \/ UNCHANGED <<signatures, promoting, drained>>
    BY Zenon DEF KmsNext, kmsVars, CreateKey, ListPending, GcpSupersede, AwsSupersedeAtOnce,
           AwsSupersede, AwsDeletionScheduled, AwsDeletionFails
  <2> QED  BY <2>1, <2>2, <2>3, <2>4, <2>5, <2>6
<1>3. DrainInv /\ [KmsNext]_kmsVars =>
        [active' # active /\ active' # 0 =>
           \A s \in KmsSigners : signatures[s] = 0 /\ signatures'[s] = 0]_kmsVars
  <2> SUFFICES ASSUME DrainInv, [KmsNext]_kmsVars, active' # active, active' # 0,
                      NEW s \in KmsSigners
               PROVE  signatures[s] = 0 /\ signatures'[s] = 0
    OBVIOUS
  <2>1. Promote
    BY Zenon DEF KmsNext, kmsVars, KmsSignKey, KmsSigned, CreateKey, ListPending, KmsActivate,
           GcpSupersede, AwsSupersedeAtOnce, KmsDrained, PromoteFails, AwsSupersede,
           AwsDeletionScheduled, AwsDeletionFails
  <2> QED  BY <2>1 DEF Promote, DrainInv
<1> QED  BY <1>1, <1>2, <1>3, PTL DEF KmsSpec, PromotionDrains
=============================================================================
