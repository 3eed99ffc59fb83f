--------------------------- MODULE LifecycleStream ---------------------------
(***************************************************************************)
(* The lifecycle of one identity in a public log                           *)
(* (packages/log-c2sp-tlog/src/stream-verifier.ts, writer.ts).             *)
(*                                                                         *)
(* Anyone may append to the log.  The identity's controllers sign events   *)
(* that continue the verified stream and submit them; a submission may be  *)
(* lost, delayed, repeated or signed again, several controllers may race,  *)
(* and copies with missing signatures and foreign entries lie in between.  *)
(* The verifier scans the log in order and decides which entries are the   *)
(* lifecycle.  An event is a signed payload, known by its event ID; its    *)
(* state and prev fields stand for the hashes they commit to.              *)
(***************************************************************************)
EXTENDS Integers, Sequences, FiniteSets

CONSTANTS
  Events,       \* payloads that name the stream
  Payload,      \* [Events -> Fields]
  NoEvent,
  OwnKeys,      \* keys of the identity
  OtherKeys,    \* keys of everyone else
  NoKey,
  EntityKey,    \* the trusted entity key (signerKey)
  Writers       \* bound: submissions that are under way at a time

Types == {"ISSUANCE", "KEY_ROTATION", "REVOCATION", "RETIREMENT", "MIGRATION", "DELEGATION"}
Keys == OwnKeys \cup OtherKeys

(* The hashed state of a stream (issuanceState, activeState, nextState).     *)
States == [status : {"none", "ACTIVE", "REVOKED", "RETIRED"}, op : Keys \cup {NoKey}]
NoState == [status |-> "none", op |-> NoKey]

(* key: ku of an ISSUANCE, new_ku of a KEY_ROTATION, and for a MIGRATION the *)
(* active key its verified prior log gives (NoKey: it cannot be verified).   *)
Fields ==
  [type : Types, seq : Nat, prev : Events \cup {NoEvent}, state : States,
   ek : Keys \cup {NoKey}, prevKey : Keys \cup {NoKey}, key : Keys \cup {NoKey}, time : Nat]

ASSUME StreamAssumption ==
  /\ Payload \in [Events -> Fields]
  /\ NoEvent \notin Events
  /\ OwnKeys \cap OtherKeys = {}
  /\ NoKey \notin Keys
  /\ EntityKey \in OwnKeys
  /\ Writers \in Nat

VARIABLES
  selected,     \* the verifier's lifecycle, in log order
  after,        \* the state after each selected event (appliedEntries)
  verdict,      \* open, or why verification throws
  signed,       \* events the controllers have signed for submission
  logged        \* signed events the log holds with all their signatures

vars == <<selected, after, verdict, signed, logged>>
-----------------------------------------------------------------------------
Applied == {e \in Events : after[e] # NoState}
LastEvent == IF selected = <<>> THEN NoEvent ELSE selected[Len(selected)]

(* The stream's state, and the state an event is authorized under: that of   *)
(* its predecessor if it names one of the stream, else the current one.      *)
Current == IF selected = <<>> THEN NoState ELSE after[LastEvent]
Authority(e) == IF Payload[e].prev \in Applied THEN after[Payload[e].prev] ELSE Current

(* The keys that sign an event (requiredC2spSignatureNames, keyForRole).     *)
Signers(e, op) ==
  CASE Payload[e].type = "ISSUANCE" -> {EntityKey, Payload[e].key}
    [] Payload[e].type = "KEY_ROTATION" -> {op, Payload[e].key}
    [] OTHER -> {EntityKey}

(* nextState.                                                                *)
NextState(e, state) ==
  CASE Payload[e].type = "KEY_ROTATION" -> [status |-> "ACTIVE", op |-> Payload[e].key]
    [] Payload[e].type = "REVOCATION" -> [status |-> "REVOKED", op |-> state.op]
    [] Payload[e].type = "RETIREMENT" -> [status |-> "RETIRED", op |-> state.op]
    [] Payload[e].type = "DELEGATION" -> state
    [] OTHER -> [status |-> "ACTIVE", op |-> Payload[e].key]

Init ==
  /\ selected = <<>>
  /\ after = [e \in Events |-> NoState]
  /\ verdict = "open"
  /\ signed = {}
  /\ logged = {}
-----------------------------------------------------------------------------
(* verifyLifecycle, genesis: ISSUANCE for the trusted entity key with two    *)
(* distinct keys, or MIGRATION from a verified prior log.                    *)
GenesisFields(e) ==
  /\ Payload[e].seq = 0
  /\ Payload[e].prev = NoEvent
  /\ Payload[e].state = NoState

IsGenesis(e) ==
  /\ GenesisFields(e)
  /\ \/ Payload[e].type = "ISSUANCE" /\ Payload[e].ek = EntityKey
     \/ Payload[e].type = "MIGRATION"
  /\ Payload[e].key \notin {NoKey, EntityKey}

(* verifyLifecycle: e continues a stream that ends with prev in this state.  *)
Continues(e, prev, state) ==
  /\ state.status = "ACTIVE"
  /\ Payload[e].type \notin {"ISSUANCE", "MIGRATION"}
  /\ Payload[e].seq = Payload[prev].seq + 1
  /\ Payload[e].prev = prev
  /\ Payload[e].state = state
  /\ Payload[e].type = "KEY_ROTATION" =>
       /\ Payload[e].prevKey = state.op
       /\ Payload[e].key \notin {NoKey, state.op, EntityKey}

(* The chain fields a prepared event may have (prepareChain,                 *)
(* assertPreparedEnvelope, assertPublicChainShape).                          *)
Prepared(e) ==
  /\ Payload[e].seq = 0 <=> Payload[e].type \in {"ISSUANCE", "MIGRATION"}
  /\ Payload[e].seq = 0 <=> Payload[e].prev = NoEvent
  /\ Payload[e].seq = 0 <=> Payload[e].state = NoState

(* A controller signs an event that continues the stream it has verified     *)
(* (validateChain); it holds the keys the event names.                       *)
Sign(e) ==
  /\ verdict = "open"
  /\ e \notin signed \cup Applied
  /\ Cardinality(signed \ Applied) < Writers
  /\ Prepared(e)
  /\ IF selected = <<>> THEN IsGenesis(e) ELSE Continues(e, LastEvent, Current)
  /\ Payload[e].key \in OwnKeys \cup {NoKey}
  /\ signed' = signed \cup {e}
  /\ UNCHANGED <<selected, after, verdict, logged>>

(* The submission is refused for good: its bytes never reach the log.        *)
Reject(e) ==
  /\ e \in signed \ (logged \cup Applied)
  /\ signed' = signed \ {e}
  /\ UNCHANGED <<selected, after, verdict, logged>>

(* Signatures that can be under an entry: anyone's own and, for a submitted  *)
(* event, copies of those its controllers made.                              *)
Made(e) == IF e \in signed THEN Signers(e, Authority(e).op) ELSE {}

Select(e, state) ==
  /\ selected' = Append(selected, e)
  /\ after' = [after EXCEPT ![e] = state]
  /\ UNCHANGED verdict

Skip == UNCHANGED <<selected, after, verdict>>

Throw(error) == verdict' = error /\ UNCHANGED <<selected, after>>

(* Faulty variant: the primary signature is enough.                          *)
PrimaryRoleSignature(e, sigs) ==
  IF Payload[e].type = "KEY_ROTATION" THEN Payload[e].key \in sigs ELSE EntityKey \in sigs

(* hasAllRoleSignatures under the authority of the event's predecessor.      *)
HasAllRoleSignatures(e, sigs) == Signers(e, Authority(e).op) \subseteq sigs

(* A migration whose prior log cannot be verified: verifyMigration throws.   *)
Unverifiable(e) ==
  Payload[e].type = "MIGRATION" /\ GenesisFields(e) /\ Payload[e].key = NoKey

(* The first candidate: an invalid one is passed over, except a migration    *)
(* whose prior log cannot be verified.  That log is asked before the         *)
(* signature is checked, so that the entry may be anyone's.                  *)
ScanGenesis(e, sigs) ==
  IF IsGenesis(e) /\ Signers(e, NoKey) \subseteq sigs
    THEN Select(e, NextState(e, NoState))
  ELSE IF Unverifiable(e) THEN Throw("INVALID_MIGRATION")
  ELSE Skip

(* Faulty variant: an unverifiable migration is fatal after the genesis too. *)
ScanMigrationFirst(e, sigs) ==
  IF e \in Applied THEN Skip
  ELSE IF selected = <<>> \/ Unverifiable(e) THEN ScanGenesis(e, sigs)
  ELSE IF ~HasAllRoleSignatures(e, sigs) THEN Skip
  ELSE IF Continues(e, LastEvent, Current) THEN Select(e, NextState(e, Current))
  ELSE Throw("CHAIN")

(* Faulty variant: copies of a selected payload are not recognized.          *)
ScanCopies(e, sigs) ==
  IF selected = <<>> THEN ScanGenesis(e, sigs)
  ELSE IF ~HasAllRoleSignatures(e, sigs) THEN Skip
  ELSE IF Continues(e, LastEvent, Current) THEN Select(e, NextState(e, Current))
  ELSE Throw("CHAIN")

(* Faulty variant: a candidate that only a superseded key authenticates is   *)
(* passed over.                                                              *)
ScanSuperseded(e, sigs) ==
  IF e \in Applied THEN Skip
  ELSE IF selected = <<>> THEN ScanGenesis(e, sigs)
  ELSE IF ~HasAllRoleSignatures(e, sigs) \/ Authority(e).op # Current.op THEN Skip
  ELSE IF Continues(e, LastEvent, Current) THEN Select(e, NextState(e, Current))
  ELSE Throw("CHAIN")

(* The loop body of verifyStreamWithinBudget: copies of a selected payload   *)
(* and unauthenticated entries are passed over; an authenticated one must    *)
(* continue the stream.                                                      *)
Scan(e, sigs) ==
  IF e \in Applied THEN Skip
  ELSE IF selected = <<>> THEN ScanGenesis(e, sigs)
  ELSE IF ~HasAllRoleSignatures(e, sigs) THEN Skip
  ELSE IF Continues(e, LastEvent, Current) THEN Select(e, NextState(e, Current))
  ELSE Throw("CHAIN")

(* The log integrates one more entry and the verifier's scan covers it.      *)
Integrate(e) ==
  /\ verdict = "open"
  /\ \E sigs \in SUBSET (OtherKeys \cup Made(e)) :
       /\ Scan(e, sigs)
       /\ logged' = IF e \in signed /\ Made(e) \subseteq sigs THEN logged \cup {e} ELSE logged
  /\ UNCHANGED signed

Next == \E e \in Events : Sign(e) \/ Reject(e) \/ Integrate(e)

Spec == Init /\ [][Next]_vars
-----------------------------------------------------------------------------
(* The type invariant.                                                       *)
TypeOK ==
  /\ selected \in Seq(Events)
  /\ after \in [Events -> States]
  /\ verdict \in {"open", "CHAIN", "INVALID_MIGRATION"}
  /\ signed \subseteq Events
  /\ logged \subseteq signed

(* Two signed events continue the same event.                                *)
Forked == \E e, f \in signed : e # f /\ Payload[e].prev = Payload[f].prev

(* "signed forks ... fail closed" (docs/reference/dnsid-log-c2sp-tlog.md),   *)
(* and once the controllers have published an event nothing else does:       *)
(* retries, re-signed and stripped copies, and foreign entries in any order  *)
(* never make the stream unverifiable.  Before that, and only then, a        *)
(* MIGRATION entry of whomever refuses it whose prior log cannot be          *)
(* verified.                                                                 *)
RefusedOnlyForFork ==
  verdict # "open" =>
    \/ Forked
    \/ verdict = "INVALID_MIGRATION" /\ selected = <<>> /\ logged = {}

(* While a stream verifies, no event the controllers published, such as a    *)
(* revocation, has been passed over, whatever order the log has them in.     *)
PublishedIsApplied == verdict = "open" => logged \subseteq Applied

(* The lifecycle consists of events the identity's controllers signed, each  *)
(* continuing the one before it, and none follows a terminal event.          *)
OneAuthorizedChain ==
  /\ \A i \in DOMAIN selected : selected[i] \in signed
  /\ \A i \in DOMAIN selected : i > 1 =>
       /\ Payload[selected[i]].prev = selected[i - 1]
       /\ after[selected[i - 1]].status = "ACTIVE"
       /\ after[selected[i]] = NextState(selected[i], after[selected[i - 1]])

(* What a verified stream is worth: from its first published event on it is  *)
(* refused only for a fork, it leaves out nothing that was published, and is *)
(* one chain that the controllers authorized.                                *)
StreamIsSound == RefusedOnlyForFork /\ PublishedIsApplied /\ OneAuthorizedChain
=============================================================================
