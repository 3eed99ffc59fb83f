---------------------------- MODULE KmsKeyProvider ----------------------------
(***************************************************************************)
(* The cloud key providers: AwsKmsKeyProvider (packages/key-aws) and       *)
(* GcpCloudKmsKeyProvider (packages/key-gcp).                              *)
(*                                                                         *)
(* The service owns the private keys; the provider owns which key is       *)
(* active, pending and retained, and nothing orders its mutations: a       *)
(* generateKey, an activate and any number of supersede calls run at once, *)
(* each suspended at its calls to the service, and every such call may     *)
(* fail.  The public keys the providers cache are left out: whether the    *)
(* service must be asked for one is the only thing the cache decides.      *)
(***************************************************************************)
EXTENDS Integers, Sequences, Functions

CONSTANTS
  Vendors,          \* the providers considered, a subset of {"aws", "gcp"}
  KmsSigners,       \* concurrent signKey calls
  Purgers,          \* concurrent supersede calls
  MaxKmsKeys        \* bound: keys the service creates in a behaviour

ASSUME KmsAssumption == Vendors \subseteq {"aws", "gcp"} /\ MaxKmsKeys \in Nat

VARIABLES
  vendor,           \* which provider this is
  schedules,        \* scheduleKeyDeletionOnPurge (aws only)
  active,           \* activeKeyId, activeKid; 0 when there is none
  pending,          \* the kids that generateKey listed
  retained,         \* retainedKeyIds (aws only)
  superseded,       \* the keys in state superseded (gcp only)
  signatures,       \* signer -> kid of its signature in flight, 0 when none
  promoting,        \* the kid being activated, 0 when none: this.activating
  drained,          \* the activation has waited for the signatures in flight
  purging,          \* supersede call -> what it found before its await
  created,          \* keys the service created whose public key is not loaded
  deleting,         \* keys the service was asked to delete
  purged            \* history: kids whose supersede resolved

config == <<vendor, schedules>>
kmsVars == <<config, active, pending, retained, superseded, signatures, promoting,
             drained, purging, created, deleting, purged>>
-----------------------------------------------------------------------------
KmsKids == 1..MaxKmsKeys
Aws == vendor = "aws"
Gcp == vendor = "gcp"
Activating == promoting # 0

(* A supersede call that waits for scheduleKeyDeletion holds the kid and the *)
(* index it found the kid at.                                                *)
KmsIdle == [kid |-> 0, idx |-> 0]

(* listKeyIds.                                                               *)
Published == ({active} \ {0}) \cup (IF Aws THEN Range(retained) ELSE {})

KmsInit ==
  /\ vendor \in Vendors
  /\ schedules \in (IF vendor = "aws" THEN BOOLEAN ELSE {FALSE})
  /\ active = 1
  /\ pending = {} /\ superseded = {}
  /\ retained = <<>>
  /\ signatures = [s \in KmsSigners |-> 0]
  /\ promoting = 0 /\ drained = FALSE
  /\ purging = [p \in Purgers |-> KmsIdle]
  /\ created = {} /\ deleting = {} /\ purged = {}
-----------------------------------------------------------------------------
(* Faulty variant: signing goes on during an activation.                     *)
KmsSignKeyUnblocked(s) ==
  /\ signatures[s] = 0
  /\ \E kid \in ({active} \ {0}) \cup pending :
       signatures' = [signatures EXCEPT ![s] = kid]
  /\ UNCHANGED <<config, active, pending, retained, superseded, promoting, drained,
                 purging, created, deleting, purged>>

(* sign and signKey: refused during an activation; only the active and the   *)
(* pending keys sign.                                                        *)
KmsSignKey(s) ==
  /\ ~Activating
  /\ signatures[s] = 0
  /\ \E kid \in ({active} \ {0}) \cup pending :
       signatures' = [signatures EXCEPT ![s] = kid]
  /\ UNCHANGED <<config, active, pending, retained, superseded, promoting, drained,
                 purging, created, deleting, purged>>

(* The service's answer is checked against the key, the algorithm and the    *)
(* checksums; either way the signature leaves this.signing.                  *)
KmsSigned(s) ==
  /\ signatures[s] # 0
  /\ signatures' = [signatures EXCEPT ![s] = 0]
  /\ UNCHANGED <<config, active, pending, retained, superseded, promoting, drained,
                 purging, created, deleting, purged>>

(* generateKey: the service creates a key; a failure creates nothing.        *)
CreateKey ==
  /\ LET known == {active} \cup pending \cup superseded \cup Range(retained)
                    \cup created \cup purged
     IN \E kid \in KmsKids \ known :
          /\ \A k \in KmsKids \ known : kid <= k
          /\ created' = created \cup {kid}
  /\ UNCHANGED <<config, active, pending, retained, superseded, signatures, promoting,
                 drained, purging, deleting, purged>>

(* The public key is loaded and the key listed as pending.  When the load    *)
(* fails the created key stays with the service, unlisted, for good.         *)
ListPending(kid) ==
  /\ kid \in created
  /\ created' = created \ {kid}
  /\ pending' = pending \cup {kid}
  /\ UNCHANGED <<config, active, retained, superseded, signatures, promoting, drained,
                 purging, deleting, purged>>

(* activate sets the flag.  The gcp provider looks the pending key up first, *)
(* the aws provider only after its two awaits.                               *)
KmsActivate(kid) ==
  /\ ~Activating
  /\ Gcp => kid \in pending
  /\ promoting' = kid
  /\ UNCHANGED <<config, active, pending, retained, superseded, signatures, drained,
                 purging, created, deleting, purged>>

(* Promise.allSettled(this.signing).                                         *)
KmsDrained ==
  /\ Activating /\ ~drained
  /\ \A s \in KmsSigners : signatures[s] = 0
  /\ drained' = TRUE
  /\ UNCHANGED <<config, active, pending, retained, superseded, signatures, promoting,
                 purging, created, deleting, purged>>

(* The key is promoted and the flag cleared.  The key that was active goes   *)
(* to the end of the retained keys, or becomes superseded.                   *)
Promote ==
  /\ Activating /\ drained
  /\ promoting \in pending
  /\ pending' = pending \ {promoting}
  /\ active' = promoting
  /\ retained' = IF Aws THEN Append(retained, active) ELSE retained
  /\ superseded' = IF Gcp /\ active # 0 THEN superseded \cup {active} ELSE superseded
  /\ promoting' = 0 /\ drained' = FALSE
  /\ UNCHANGED <<config, signatures, purging, created, deleting, purged>>

(* The aws provider: the key is not pending, or its public key cannot be     *)
(* loaded; the flag is cleared by finally.                                   *)
PromoteFails ==
  /\ Aws /\ Activating /\ drained
  /\ promoting' = 0 /\ drained' = FALSE
  /\ UNCHANGED <<config, active, pending, retained, superseded, signatures, purging,
                 created, deleting, purged>>
-----------------------------------------------------------------------------
(* Array.prototype.splice(i, 1).                                             *)
Splice(list, i) == IF i \in 1..Len(list) THEN SubSeq(list, 1, i - 1) \o SubSeq(list, i + 1, Len(list)) ELSE list

(* Array.prototype.indexOf finds the kid at i.                               *)
FoundAt(kid, i) == retained[i] = kid /\ \A j \in 1..(i - 1) : retained[j] # kid

(* The aws provider's supersede, up to the deletion it asks the service for. *)
AwsSupersede(p, kid) ==
  /\ Aws /\ schedules
  /\ purging[p] = KmsIdle
  /\ kid # active
  /\ \E i \in DOMAIN retained :
       /\ FoundAt(kid, i)
       /\ purging' = [purging EXCEPT ![p] = [kid |-> kid, idx |-> i]]
  /\ UNCHANGED <<config, active, pending, retained, superseded, signatures, promoting,
                 drained, created, deleting, purged>>

(* Faulty variant: the key leaves the cache but not the retained keys.       *)
AwsDeletionKept(p) ==
  /\ purging[p] # KmsIdle
  /\ deleting' = deleting \cup {purging[p].kid}
  /\ purged' = purged \cup {purging[p].kid}
  /\ purging' = [purging EXCEPT ![p] = KmsIdle]
  /\ UNCHANGED <<config, active, pending, retained, superseded, signatures, promoting,
                 drained, created>>

(* The service schedules the deletion, and the entry at the index found      *)
(* before the await leaves the retained keys.                                *)
AwsDeletionScheduled(p) ==
  /\ purging[p] # KmsIdle
  /\ deleting' = deleting \cup {purging[p].kid}
  /\ retained' = Splice(retained, purging[p].idx)
  /\ purged' = purged \cup {purging[p].kid}
  /\ purging' = [purging EXCEPT ![p] = KmsIdle]
  /\ UNCHANGED <<config, active, pending, superseded, signatures, promoting, drained,
                 created>>

(* scheduleKeyDeletion rejects, before or after it took effect.              *)
AwsDeletionFails(p) ==
  /\ purging[p] # KmsIdle
  /\ deleting' \in {deleting, deleting \cup {purging[p].kid}}
  /\ purging' = [purging EXCEPT ![p] = KmsIdle]
  /\ UNCHANGED <<config, active, pending, retained, superseded, signatures, promoting,
                 drained, created, purged>>

(* Without scheduleKeyDeletionOnPurge the aws provider's supersede has no    *)
(* await.                                                                    *)
AwsSupersedeAtOnce(kid) ==
  /\ Aws /\ ~schedules
  /\ kid # active
  /\ \E i \in DOMAIN retained : FoundAt(kid, i) /\ retained' = Splice(retained, i)
  /\ purged' = purged \cup {kid}
  /\ UNCHANGED <<config, active, pending, superseded, signatures, promoting, drained,
                 purging, created, deleting>>

(* The gcp provider's supersede: at once, for any key it knows, unless a key *)
(* is being activated.                                                       *)
GcpSupersede(kid) ==
  /\ Gcp
  /\ ~Activating
  /\ kid \in ({active} \ {0}) \cup pending \cup superseded
  /\ superseded' = superseded \cup {kid}
  /\ pending' = pending \ {kid}
  /\ active' = IF active = kid THEN 0 ELSE active
  /\ purged' = purged \cup {kid}
  /\ UNCHANGED <<config, retained, signatures, promoting, drained, purging, created,
                 deleting>>
-----------------------------------------------------------------------------
KmsNext ==
  \/ \E s \in KmsSigners : KmsSignKey(s) \/ KmsSigned(s)
  \/ CreateKey
  \/ \E kid \in KmsKids :
       \/ ListPending(kid) \/ KmsActivate(kid)
       \/ GcpSupersede(kid) \/ AwsSupersedeAtOnce(kid)
  \/ KmsDrained \/ Promote \/ PromoteFails
  \/ \E p \in Purgers :
       \/ \E kid \in KmsKids : AwsSupersede(p, kid)
       \/ AwsDeletionScheduled(p) \/ AwsDeletionFails(p)

KmsSpec == KmsInit /\ [][KmsNext]_kmsVars
-----------------------------------------------------------------------------
(* A key whose supersede call resolved is out of the published key set and   *)
(* never signs again, whatever activations ran beside the call ("Supersedes  *)
(* and removes a retained key from this provider's published key set").      *)
SupersededIsGone ==
  /\ purged \cap Published = {}
  /\ purged \cap ({active} \cup pending) = {}

(* A key becomes the active one only when no signature is in flight, so no   *)
(* signature of the key it replaces completes after the promotion ("Blocks   *)
(* new signing and drains in-flight signatures before promoting a pending    *)
(* key").                                                                    *)
PromotionDrains ==
  [][active' # active /\ active' # 0 =>
       \A s \in KmsSigners : signatures[s] = 0 /\ signatures'[s] = 0]_kmsVars
=============================================================================
