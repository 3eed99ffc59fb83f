--------------------------- MODULE LocalKeyProvider ---------------------------
(***************************************************************************)
(* The file-backed key provider (packages/sdk/src/local-key-provider.ts).  *)
(*                                                                         *)
(* One provider holds the key store in memory and in one file.  Mutations  *)
(* run one at a time from a promise chain; each writes the old store to    *)
(* <path>.bak and then the new one to <path>, every file by flush, rename  *)
(* and directory fsync.  Signatures run beside them, except while a key is *)
(* being activated.  Any file operation may fail, the process may die      *)
(* between two awaits, and a power loss forgets renames whose directory    *)
(* was not synced.                                                         *)
(***************************************************************************)
EXTENDS Integers, Sequences

CONSTANTS
  Signers,     \* concurrent signKey calls
  MaxStoreKeys,     \* bound: key pairs generated in a behaviour
  MaxQueue     \* bound: mutations under way when another generateKey or supersede begins

ASSUME KeyProviderAssumption ==
  /\ MaxStoreKeys \in Nat \ {0}
  /\ MaxQueue \in Nat

VARIABLES
  up,          \* a process has the store loaded
  mem,         \* this.store
  file, bak,   \* what <path> and <path>.bak show
  fileKept, bakKept,   \* the contents a power loss may leave in them
  mutations,   \* the chain of mutations; the head is the one running
  step,        \* where the running mutation stands
  next,        \* the changed copy of the store it is about to write
  signing,     \* signer -> kid of its signature in flight, 0 when none
  activating,  \* this.activating
  draining,    \* the kid whose activation waits for signatures, 0 when none
  nextKey,     \* kids are fresh
  acked        \* history: kids whose generateKey, activate, supersede resolved

disk == <<file, bak, fileKept, bakKept>>
keyStoreVars == <<up, mem, disk, mutations, step, next, signing, activating, draining,
          nextKey, acked>>
-----------------------------------------------------------------------------
StoreKids == 1..MaxStoreKeys

(* A KeyStore.  The lists are looked up by kid only, so they are sets; gen   *)
(* counts the mutations behind a store.  gen 0 is the store load created.    *)
KeyStore == [gen : Nat, active : StoreKids, retained : SUBSET StoreKids, pending : SUBSET StoreKids]
Store(gen, active, retained, pending) ==
  [gen |-> gen, active |-> active, retained |-> retained, pending |-> pending]

InitialStore == Store(0, 1, {}, {})

(* <path>.bak before the first mutation.                                     *)
NoFile == Store(-1, 1, {}, {})

StoredKeys(s) == {s.active} \cup s.retained \cup s.pending

Operations == {"generate", "activate", "supersede"}
Mutation == [op : Operations, kid : Nat]
MutationSteps == {"queued", "bak", "bakSync", "main", "mainSync"}

KeyStoreInit ==
  /\ up = TRUE
  /\ mem = InitialStore
  /\ file = InitialStore /\ fileKept = {InitialStore}
  /\ bak = NoFile /\ bakKept = {NoFile}
  /\ mutations = <<>> /\ step = "queued" /\ next = InitialStore
  /\ signing = [s \in Signers |-> 0]
  /\ activating = FALSE /\ draining = 0
  /\ nextKey = 2
  /\ acked = [o \in Operations |-> {}]
-----------------------------------------------------------------------------
(* sign and signKey: refused while a key is being activated; only the active *)
(* and the pending keys sign.                                                *)
SignKey(s) ==
  /\ up
  /\ signing[s] = 0
  /\ ~activating
  /\ \E kid \in {mem.active} \cup mem.pending :
       signing' = [signing EXCEPT ![s] = kid]
  /\ UNCHANGED <<up, mem, disk, mutations, step, next, activating, draining,
                 nextKey, acked>>

(* The signature resolves or rejects.                                        *)
SignDone(s) ==
  /\ up
  /\ signing[s] # 0
  /\ signing' = [signing EXCEPT ![s] = 0]
  /\ UNCHANGED <<up, mem, disk, mutations, step, next, activating, draining,
                 nextKey, acked>>

(* mutate: the operation joins the chain.                                    *)
Enqueue(op, kid) == mutations' = Append(mutations, [op |-> op, kid |-> kid])

GenerateKey ==
  /\ up
  /\ Len(mutations) < MaxQueue
  /\ Enqueue("generate", 0)
  /\ UNCHANGED <<up, mem, disk, step, next, signing, activating, draining,
                 nextKey, acked>>

Supersede(kid) ==
  /\ up
  /\ Len(mutations) < MaxQueue
  /\ Enqueue("supersede", kid)
  /\ UNCHANGED <<up, mem, disk, step, next, signing, activating, draining,
                 nextKey, acked>>

(* activate: from here on signKey refuses.                                   *)
ActivateStored(kid) ==
  /\ up
  /\ ~activating
  /\ activating' = TRUE
  /\ draining' = kid
  /\ UNCHANGED <<up, mem, disk, mutations, step, next, signing, nextKey, acked>>

(* Faulty variant: the mutation is queued without waiting for signatures.    *)
QueueUndrained ==
  /\ up
  /\ draining # 0
  /\ Enqueue("activate", draining)
  /\ draining' = 0
  /\ UNCHANGED <<up, mem, disk, step, next, signing, activating, nextKey, acked>>

(* Promise.allSettled(this.signing) resolves, and the activation is queued.  *)
Drained ==
  /\ up
  /\ draining # 0
  /\ \A s \in Signers : signing[s] = 0
  /\ Enqueue("activate", draining)
  /\ draining' = 0
  /\ UNCHANGED <<up, mem, disk, step, next, signing, activating, nextKey, acked>>
-----------------------------------------------------------------------------
Running == Head(mutations)
RunningAt(s) == up /\ mutations # <<>> /\ step = s

(* Faulty variant: only a successful activation lets signing go on.          *)
SettleActivatingKept(ok) ==
  /\ mutations' = Tail(mutations)
  /\ step' = "queued"
  /\ activating' = IF Running.op = "activate" /\ ok THEN FALSE ELSE activating

(* The running mutation resolves or rejects; the chain goes on either way,   *)
(* and activate's finally clears the flag.                                   *)
SettleMutation(ok) ==
  /\ mutations' = Tail(mutations)
  /\ step' = "queued"
  /\ activating' = (activating /\ Running.op # "activate")

Reject == SettleMutation(FALSE) /\ UNCHANGED acked

(* The stores a mutation may turn s into; none when it throws.               *)
Change(s, m) ==
  CASE m.op = "generate" ->
         {Store(s.gen + 1, s.active, s.retained, s.pending \cup {nextKey})}
    [] m.op = "activate" ->
         IF m.kid \in s.pending
         THEN {Store(s.gen + 1, m.kid, s.retained \cup {s.active},
                     s.pending \ {m.kid})}
         ELSE {}
    [] m.op = "supersede" ->
         IF m.kid # s.active /\ m.kid \in s.retained
         THEN {Store(s.gen + 1, s.active, s.retained \ {m.kid}, s.pending)}
         ELSE {}

(* The change is made on a copy of the store in memory.                      *)
Begin ==
  /\ RunningAt("queued")
  /\ Running.op = "generate" => nextKey <= MaxStoreKeys
  /\ \E s \in Change(mem, Running) : next' = s
  /\ nextKey' = IF Running.op = "generate" THEN nextKey + 1 ELSE nextKey
  /\ step' = "bak"
  /\ UNCHANGED <<up, mem, disk, mutations, signing, activating, draining, acked>>

(* The change throws: no such key, or key generation fails.                  *)
Throw ==
  /\ RunningAt("queued")
  /\ Running.op = "generate" \/ Change(mem, Running) = {}
  /\ Reject
  /\ UNCHANGED <<up, mem, disk, next, signing, draining, nextKey>>

(* writeStore fails before its rename: the sibling file is removed.          *)
WriteFails ==
  /\ RunningAt("bak") \/ RunningAt("main")
  /\ Reject
  /\ UNCHANGED <<up, mem, disk, next, signing, draining, nextKey>>

(* The store being replaced becomes visible as <path>.bak.                   *)
RenameBak ==
  /\ RunningAt("bak")
  /\ bak' = mem
  /\ bakKept' = bakKept \cup {mem}
  /\ step' = "bakSync"
  /\ UNCHANGED <<up, mem, file, fileKept, mutations, next, signing, activating,
                 draining, nextKey, acked>>

DirectorySynced == fileKept' = {file} /\ bakKept' = {bak}

(* Faulty variant: the directory is synced once, after the second rename.    *)
SyncBakSkipped ==
  /\ RunningAt("bakSync")
  /\ step' = "main"
  /\ UNCHANGED <<up, mem, disk, mutations, next, signing, activating, draining,
                 nextKey, acked>>

SyncBak ==
  /\ RunningAt("bakSync")
  /\ DirectorySynced
  /\ step' = "main"
  /\ UNCHANGED <<up, mem, file, bak, mutations, next, signing, activating,
                 draining, nextKey, acked>>

(* Faulty variant: memory is not updated until the whole write is over.      *)
RenameMainOnly ==
  /\ RunningAt("main")
  /\ file' = next
  /\ fileKept' = fileKept \cup {next}
  /\ step' = "mainSync"
  /\ acked' = [acked EXCEPT !["generate"] = @ \cap StoredKeys(next)]
  /\ UNCHANGED <<up, mem, bak, bakKept, mutations, next, signing, activating,
                 draining, nextKey>>

(* The new store becomes visible, and memory follows at once.  A superseded  *)
(* key is not owed to its generateKey caller any more.                       *)
RenameMain ==
  /\ RunningAt("main")
  /\ file' = next
  /\ fileKept' = fileKept \cup {next}
  /\ mem' = next
  /\ step' = "mainSync"
  /\ acked' = [acked EXCEPT !["generate"] = @ \cap StoredKeys(next)]
  /\ UNCHANGED <<up, bak, bakKept, mutations, next, signing, activating, draining,
                 nextKey>>

(* The kid the running mutation is about.                                    *)
Subject == IF Running.op = "generate" THEN nextKey - 1 ELSE Running.kid

Resolve ==
  /\ SettleMutation(TRUE)
  /\ acked' = [acked EXCEPT ![Running.op] = @ \cup {Subject}]

(* Faulty variant: the caller is answered before the directory is synced.    *)
ResolveUnsynced ==
  /\ RunningAt("mainSync")
  /\ Resolve
  /\ UNCHANGED <<up, mem, disk, next, signing, draining, nextKey>>

SyncMain ==
  /\ RunningAt("mainSync")
  /\ DirectorySynced
  /\ Resolve
  /\ UNCHANGED <<up, mem, file, bak, next, signing, draining, nextKey>>

(* The directory fsync fails, or succeeds and removing the sibling fails.    *)
SyncFails ==
  /\ RunningAt("bakSync") \/ RunningAt("mainSync")
  /\ DirectorySynced \/ UNCHANGED <<fileKept, bakKept>>
  /\ Reject
  /\ UNCHANGED <<up, mem, file, bak, next, signing, draining, nextKey>>
-----------------------------------------------------------------------------
Down ==
  /\ up' = FALSE
  /\ mutations' = <<>> /\ step' = "queued"
  /\ signing' = [s \in Signers |-> 0]
  /\ activating' = FALSE /\ draining' = 0
  /\ UNCHANGED <<mem, next, nextKey, acked>>

(* The process dies: what was visible stays visible.                         *)
ProcessDies == up /\ Down /\ UNCHANGED disk

(* The machine dies: each name shows one of the contents it may keep.        *)
PowerLoss ==
  /\ Down
  /\ file' \in fileKept
  /\ bak' \in bakKept
  /\ fileKept' = {file'} /\ bakKept' = {bak'}

(* load: read the existing store.                                            *)
LoadStore ==
  /\ ~up
  /\ up' = TRUE
  /\ mem' = file
  /\ UNCHANGED <<disk, mutations, step, next, signing, activating, draining,
                 nextKey, acked>>
-----------------------------------------------------------------------------
RunMutation ==
  \/ Begin \/ Throw \/ WriteFails \/ RenameBak \/ SyncBak \/ RenameMain
  \/ SyncMain \/ SyncFails

KeyStoreNext ==
  \/ \E s \in Signers : SignKey(s) \/ SignDone(s)
  \/ GenerateKey
  \/ \E kid \in StoreKids : Supersede(kid) \/ ActivateStored(kid)
  \/ Drained
  \/ RunMutation
  \/ ProcessDies \/ PowerLoss \/ LoadStore

KeyStoreSpec == KeyStoreInit /\ [][KeyStoreNext]_keyStoreVars
-----------------------------------------------------------------------------
(* The type invariant; only <path>.bak may be missing.                       *)
KeyStoreTypeOK ==
  /\ up \in BOOLEAN
  /\ mem \in KeyStore /\ file \in KeyStore /\ next \in KeyStore
  /\ fileKept \subseteq KeyStore
  /\ bak \in KeyStore \cup {NoFile}
  /\ bakKept \subseteq KeyStore \cup {NoFile}
  /\ mutations \in Seq(Mutation)
  /\ step \in MutationSteps
  /\ signing \in [Signers -> StoreKids \cup {0}]
  /\ activating \in BOOLEAN
  /\ draining \in StoreKids \cup {0}
  /\ nextKey \in 2..(MaxStoreKeys + 1)
  /\ acked \in [Operations -> SUBSET StoreKids]

(* No signature is in flight with a key that has left the active and pending *)
(* roles: activate blocks new signing and drains signatures before it moves  *)
(* the active key to the retained ones ("Blocks new signing and drains       *)
(* in-flight signatures before promoting a pending key").                    *)
SigningKeyIsLive ==
  \A s \in Signers : signing[s] # 0 => signing[s] \in {mem.active} \cup mem.pending

(* Memory follows the visible file, whichever write, rename or fsync failed  *)
(* (writeStore's committed callback).                                        *)
MemoryFollowsFile == up => mem = file

(* An acknowledged mutation survives any crash: in every content a power     *)
(* loss may leave in <path>, a generated key is still there (until it is     *)
(* superseded), an activated key is not pending, a superseded key is gone.   *)
AckedDurable ==
  \A s \in fileKept :
    /\ acked["generate"] \subseteq StoredKeys(s)
    /\ acked["activate"] \cap s.pending = {}
    /\ acked["supersede"] \cap StoredKeys(s) = {}

(* <path>.bak is a usable previous generation: whatever a power loss leaves, *)
(* it is at most one generation behind <path>.                               *)
BackupIsRecent ==
  \A s \in fileKept, b \in bakKept : b.gen >= s.gen - 1

(* The promise of the key file: nothing signs with a key that has left it;   *)
(* and whatever fails or crashes, memory and file agree, the file has every  *)
(* acknowledged mutation, and the backup is one generation old at most.      *)
KeyStoreIsSafe ==
  SigningKeyIsLive /\ MemoryFollowsFile /\ AckedDurable /\ BackupIsRecent

(* Signatures settle, and the mutation chain keeps moving.                   *)
KeyStoreFairness ==
  /\ \A s \in Signers : WF_keyStoreVars(SignDone(s))
  /\ WF_keyStoreVars(Drained)
  /\ WF_keyStoreVars(RunMutation)

KeyStoreFairSpec == KeyStoreSpec /\ KeyStoreFairness

(* Signing is blocked only for a while: every activation ends, whether it    *)
(* succeeds, throws or fails to persist (activate's finally).                *)
ActivationEnds == activating ~> ~activating
=============================================================================
