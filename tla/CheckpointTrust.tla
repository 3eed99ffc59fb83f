--------------------------- MODULE CheckpointTrust ---------------------------
(***************************************************************************)
(* Advancing the trusted checkpoint of one log origin                      *)
(* (packages/log-c2sp-tlog/src/checkpoint-trust.ts).                       *)
(*                                                                         *)
(* Concurrent verifications each load the stored checkpoint, check that    *)
(* their candidate extends it, and compare-and-swap; a lost race starts    *)
(* over.  The store is shared with other processes that run the same code. *)
(* A root stands for the sequence of entries it commits to, so Prefix is   *)
(* what sound consistency evidence establishes.                            *)
(***************************************************************************)
EXTENDS Integers

CONSTANTS
  Calls,       \* concurrent advanceTrustedC2spCheckpoint calls
  Roots,       \* tree roots
  Size,        \* [Roots -> Nat]: how many entries a root commits to
  Prefix,      \* <<r, s>> when the tree of r is a prefix of the tree of s
  Checkpoint,  \* checkpoints of the origin: a root and a witnessed time
  Evidences,   \* consistency evidence an attempt may obtain
  NoRoot

Evidence == {"sound", "scanMismatch", "unavailable", "none"}

(* Tree prefixes: a partial order by size in which the empty tree is least   *)
(* and the prefixes of one tree form a chain.                                *)
ASSUME TreeAssumption ==
  /\ Size \in [Roots -> Nat]
  /\ Prefix \subseteq Roots \X Roots
  /\ \A r \in Roots : <<r, r>> \in Prefix
  /\ \A r, s, t \in Roots : <<r, s>> \in Prefix /\ <<s, t>> \in Prefix => <<r, t>> \in Prefix
  /\ \A r, s \in Roots : Size[r] = 0 => <<r, s>> \in Prefix
  /\ \A r, s, t \in Roots : <<r, t>> \in Prefix /\ <<s, t>> \in Prefix =>
       <<r, s>> \in Prefix \/ <<s, r>> \in Prefix
  /\ Checkpoint \subseteq [root : Roots, time : Int]
  /\ NoRoot \notin Roots
  /\ Evidences \subseteq Evidence

VARIABLES
  stored,      \* the store's checkpoint for the origin, or None
  call,        \* the state of each call
  aborted,     \* calls whose signal has aborted
  accepted     \* history: roots of the checkpoints returned to callers

trustVars == <<stored, call, aborted, accepted>>
-----------------------------------------------------------------------------
None == [root |-> NoRoot, time |-> 0]

(* cas: the compare-and-swap is on its way to the store; published and lost: *)
(* the store has decided; backoff: the zero-delay timer after a lost race.   *)
Phases == {"idle", "load", "verify", "cas", "published", "lost", "backoff"}

CallState ==
  [phase : Phases, cand : Checkpoint \cup {None}, prev : Checkpoint \cup {None}]

Idle == [phase |-> "idle", cand |-> None, prev |-> None]

TrustInit ==
  /\ stored = None
  /\ call = [p \in Calls |-> Idle]
  /\ aborted = {}
  /\ accepted = {}
-----------------------------------------------------------------------------
(* A scan, a proof or the hash tiles show that cand extends prev.            *)
Consistent(prev, cand, evidence) ==
  evidence = "sound" /\ <<prev.root, cand.root>> \in Prefix

(* Faulty variant: an equal-size root is not compared.                       *)
SafeSuccessorEqualSize(prev, cand, evidence) ==
  /\ evidence # "scanMismatch"
  /\ prev # None =>
       \/ Size[cand.root] = Size[prev.root]
       \/ Size[cand.root] > Size[prev.root] /\ Size[prev.root] = 0
       \/ Size[cand.root] > Size[prev.root] /\ Consistent(prev, cand, evidence)

(* verifyCheckpointAdvance accepts: a scan must match the candidate; then    *)
(* first contact, an equal size with an equal root, growth from the empty    *)
(* tree, or proved growth.                                                   *)
SafeSuccessor(prev, cand, evidence) ==
  /\ evidence # "scanMismatch"
  /\ prev # None =>
       \/ Size[cand.root] = Size[prev.root] /\ cand.root = prev.root
       \/ Size[cand.root] > Size[prev.root] /\ Size[prev.root] = 0
       \/ Size[cand.root] > Size[prev.root] /\ Consistent(prev, cand, evidence)

Goto(p, phase) == call' = [call EXCEPT ![p].phase = phase]

(* advanceTrustedC2spCheckpoint is called with a valid candidate.            *)
Advance(p) ==
  /\ call[p].phase = "idle"
  /\ \E cand \in Checkpoint :
       call' = [call EXCEPT ![p] = [phase |-> "load", cand |-> cand, prev |-> None]]
  /\ UNCHANGED <<stored, aborted, accepted>>

(* store.load.                                                               *)
Load(p) ==
  /\ call[p].phase = "load"
  /\ p \notin aborted
  /\ call' = [call EXCEPT ![p] = [phase |-> "verify", cand |-> @.cand, prev |-> stored]]
  /\ UNCHANGED <<stored, aborted, accepted>>

(* The call ends without an answer; its signal goes with it.                 *)
End(p) ==
  /\ call' = [call EXCEPT ![p] = Idle]
  /\ aborted' = aborted \ {p}

(* The candidate is checked against the checkpoint loaded earlier, with the  *)
(* evidence this attempt obtains.                                            *)
Verify(p) ==
  /\ call[p].phase = "verify"
  /\ p \notin aborted
  /\ \E evidence \in Evidences : SafeSuccessor(call[p].prev, call[p].cand, evidence)
  /\ Goto(p, "cas")
  /\ UNCHANGED <<stored, aborted, accepted>>

Refuse(p) ==
  /\ call[p].phase = "verify"
  /\ \E evidence \in Evidences : ~SafeSuccessor(call[p].prev, call[p].cand, evidence)
  /\ End(p)
  /\ UNCHANGED <<stored, accepted>>

(* Faulty variant: the swap does not compare.                                *)
SwapBlindly(p) ==
  /\ call[p].phase = "cas"
  /\ p \notin aborted
  /\ stored' = call[p].cand
  /\ Goto(p, "published")
  /\ UNCHANGED <<aborted, accepted>>

(* compareAndSwap at its commit boundary: the signal is checked, all fields  *)
(* are compared, and the candidate is published.                             *)
Swap(p) ==
  /\ call[p].phase = "cas"
  /\ p \notin aborted
  /\ stored = call[p].prev
  /\ stored' = call[p].cand
  /\ Goto(p, "published")
  /\ UNCHANGED <<aborted, accepted>>

Lose(p) ==
  /\ call[p].phase = "cas"
  /\ p \notin aborted
  /\ stored # call[p].prev
  /\ Goto(p, "lost")
  /\ UNCHANGED <<stored, aborted, accepted>>

(* Faulty variant: a lost race reloads in the same turn of the event loop.   *)
RetryAtOnce(p) ==
  /\ call[p].phase = "lost"
  /\ p \notin aborted
  /\ Goto(p, "load")
  /\ UNCHANGED <<stored, aborted, accepted>>

(* A lost race waits for a zero-delay timer ("Immediately resolved CAS       *)
(* conflicts must not starve the deadline timer") ...                        *)
Retry(p) ==
  /\ call[p].phase = "lost"
  /\ p \notin aborted
  /\ Goto(p, "backoff")
  /\ UNCHANGED <<stored, aborted, accepted>>

(* ... and then loads again.                                                 *)
Reload(p) ==
  /\ call[p].phase = "backoff"
  /\ p \notin aborted
  /\ Goto(p, "load")
  /\ UNCHANGED <<stored, aborted, accepted>>

(* The caller is told to rely on the candidate.                              *)
Return(p) ==
  /\ call[p].phase = "published"
  /\ p \notin aborted
  /\ accepted' = accepted \cup {call[p].cand.root}
  /\ End(p)
  /\ UNCHANGED stored

(* load or compareAndSwap rejects; a compareAndSwap may have published.      *)
StoreFails(p) ==
  /\ call[p].phase \in {"load", "cas", "published"}
  /\ End(p)
  /\ UNCHANGED <<stored, accepted>>

(* The call's signal aborts: its caller cancels or its deadline passes.      *)
Abort(p) ==
  /\ call[p].phase # "idle"
  /\ p \notin aborted
  /\ aborted' = aborted \cup {p}
  /\ UNCHANGED <<stored, call, accepted>>

(* waitForVerification rejects an aborted call, also one that has published. *)
Canceled(p) ==
  /\ p \in aborted
  /\ End(p)
  /\ UNCHANGED <<stored, accepted>>

(* Another process advances the shared store with the same code.             *)
OtherProcess ==
  \E cand \in Checkpoint :
    /\ SafeSuccessor(stored, cand, "sound")
    /\ stored' = cand
    /\ UNCHANGED <<call, aborted, accepted>>
-----------------------------------------------------------------------------
Proceed(p) ==
  \/ Load(p) \/ Verify(p) \/ Refuse(p) \/ Swap(p) \/ Lose(p) \/ Retry(p)
  \/ Reload(p) \/ Return(p) \/ Canceled(p)

TrustNext ==
  \/ \E p \in Calls : Advance(p) \/ Proceed(p) \/ StoreFails(p) \/ Abort(p)
  \/ OtherProcess

TrustSpec == TrustInit /\ [][TrustNext]_trustVars
-----------------------------------------------------------------------------
(* The type invariant; a call in progress has a candidate.                   *)
TrustTypeOK ==
  /\ stored \in Checkpoint \cup {None}
  /\ call \in [Calls -> CallState]
  /\ \A p \in Calls : call[p].phase # "idle" => call[p].cand \in Checkpoint
  /\ aborted \subseteq Calls
  /\ accepted \subseteq Roots

(* No split view: all checkpoints that verifications of this origin accepted *)
(* lie on one line of growth, and the stored one is their common successor,  *)
(* whatever order concurrent loads, checks and swaps happen in.              *)
OneHistory ==
  /\ \A r \in accepted : stored # None /\ <<r, stored.root>> \in Prefix
  /\ \A r, s \in accepted : <<r, s>> \in Prefix \/ <<s, r>> \in Prefix

(* The trusted checkpoint is a TrustedLog.                                   *)
Abstract == INSTANCE TrustedLog WITH tree <- stored.root

Refinement == Abstract!Spec

(* Cancellation is honored at the commit boundary: no call publishes once    *)
(* its signal has aborted ("prevent pending writes after cancellation",      *)
(* docs/reference/dnsid-log-c2sp-tlog.md).                                   *)
CanceledNeverPublishes ==
  [][\A p \in aborted : call'[p].phase = "published" => call[p].phase = "published"]_trustVars

(* The deadline timer fires while the call waits for its own timer.  A store *)
(* may answer without leaving the turn of the event loop, so this gap is all *)
(* the deadline can count on.                                                *)
DeadlinePasses(p) == Abort(p) /\ call[p].phase = "backoff"

(* Within a turn everything runs; timers fire in the order they are due, so a *)
(* call cannot wait for its own timer forever without its deadline firing.   *)
TrustFairness ==
  \A p \in Calls : WF_trustVars(Proceed(p)) /\ SF_trustVars(DeadlinePasses(p))

TrustFairSpec == TrustSpec /\ TrustFairness

(* Every call ends, also when other writers make each of its swaps fail at   *)
(* once: the deadline timer is never starved.                                *)
CallsEnd == \A p \in Calls : call[p].phase # "idle" ~> call[p].phase = "idle"
=============================================================================
