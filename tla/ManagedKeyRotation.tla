-------------------------- MODULE ManagedKeyRotation --------------------------
(***************************************************************************)
(* Registry-managed rotation of an operational key and its recovery        *)
(* (packages/sdk/src/managed-key-rotation.ts).                             *)
(*                                                                         *)
(* One rotation runs at a time.  It is a chain of awaits, each of which    *)
(* changes something outside the process: the host's durable rotation      *)
(* record, its signing gate and signer, a key provider, or the registry.   *)
(* Any of them may fail, having taken effect or not, and the process may   *)
(* crash between two of them; the host then resumes from its record.       *)
(***************************************************************************)
EXTENDS Integers

CONSTANTS
  CrossProvider,  \* the new key lives in another provider
  Retains,        \* activate keeps the old key as retained (local, AWS), or retires it (GCP)
  MaxKeys,        \* bound: keys generated in a behaviour
  MaxFaults       \* bound: failed awaits and crashes

ASSUME RotationAssumption ==
  /\ CrossProvider \in BOOLEAN
  /\ Retains \in BOOLEAN
  /\ MaxKeys \in Nat \ {0}
  /\ MaxFaults \in Nat
  \* only a provider that can retire its active key supports a transfer,
  \* and the provider it goes to has an active key of its own
  /\ CrossProvider => ~Retains /\ MaxKeys > 1

VARIABLES
  pc,          \* what the running operation awaits
  rot,         \* its rotation state
  carried,     \* the rotation state the last result or error handed to the host
  saved,       \* the rotation state the host has persisted
  paused,      \* application signing is paused
  signer,      \* the application's key, 0 before it is restored
  provider,    \* the key providers
  event,       \* the registry's view of the prepared event of each new key
  published,   \* the operational key in the live JWKS
  nextKid,     \* kids are fresh
  faults       \* failures so far

host == <<carried, saved, paused, signer>>
registry == <<event, published>>
vars == <<pc, rot, host, provider, registry, nextKid, faults>>
-----------------------------------------------------------------------------
Kids == 1..MaxKeys

(* The answer to the last submission.  A mismatched one is about an entry,   *)
(* a log or a key other than the rotation's.                                 *)
Submissions == {"none", "pending", "accepted", "rejected", "mismatched"}

(* A ManagedKeyRotationResult.  The bytes to submit are those that bind prev *)
(* to new, so the new kid stands for them.                                   *)
Rotation == [prev : Kids, new : Kids, sub : Submissions, activated : BOOLEAN, paused : BOOLEAN]
Rot(prev, new, sub, activated, pause) ==
  [prev |-> prev, new |-> new, sub |-> sub, activated |-> activated, paused |-> pause]
NoRotation == [prev |-> 0, new |-> 0, sub |-> "none", activated |-> FALSE, paused |-> FALSE]

WithSubmission(r, sub) == Rot(r.prev, r.new, sub, r.activated, r.paused)
WithFlags(r, activated, pause) == Rot(r.prev, r.new, r.sub, activated, pause)

Terminal(r) == r.activated /\ ~r.paused

(* The state the host goes on from: what the last result or error handed it; *)
(* its record after a restart, or when recovery refuses the handed one.      *)
Current == IF carried = NoRotation \/ carried.sub = "mismatched" THEN saved ELSE carried

Provider == [active : Kids \cup {0}, retained : SUBSET Kids, pending : SUBSET Kids]
Keys(active, retained, pending) ==
  [active |-> active, retained |-> retained, pending |-> pending]

Target == IF CrossProvider THEN "target" ELSE "source"
Source == provider["source"]

(* listKeyIds.                                                               *)
Listed(p) == ({p.active} \cup p.retained) \ {0}

Init ==
  /\ pc = "idle" /\ rot = NoRotation
  /\ carried = NoRotation /\ saved = NoRotation
  /\ paused = FALSE /\ signer = 1
  /\ provider = [p \in {"source", "target"} |->
                   Keys(IF p = "source" THEN 1 ELSE IF CrossProvider THEN 2 ELSE 0, {}, {})]
  /\ event = [k \in Kids |-> "none"]
  /\ published = 1
  /\ nextKid = IF CrossProvider THEN 3 ELSE 2
  /\ faults = 0
-----------------------------------------------------------------------------
Continue(step) == pc' = step /\ UNCHANGED <<carried, faults>>

(* The operation ends and hands r to the host.                               *)
Done(r) == pc' = "idle" /\ carried' = r /\ UNCHANGED faults

(* An await rejects: the operation ends with an error that carries r.        *)
Raise(r) ==
  /\ faults < MaxFaults
  /\ faults' = faults + 1
  /\ pc' = "idle"
  /\ carried' = r

(* rotateManagedOperationalKey: read the active key, generate its successor. *)
(* The host calls it when no rotation is left to resume.                     *)
Rotate ==
  /\ pc = "idle"
  /\ Current = NoRotation \/ Terminal(Current) \/ Current.sub = "rejected"
  /\ Source.active # 0
  /\ nextKid <= MaxKeys
  /\ provider' = [provider EXCEPT ![Target] =
                    Keys(@.active, @.retained, @.pending \cup {nextKid})]
  /\ nextKid' = nextKid + 1
  /\ rot' = Rot(Source.active, nextKid, "none", FALSE, TRUE)
  /\ carried' = NoRotation
  /\ \/ pc' = "prepare" /\ UNCHANGED faults
     \/ pc' = "idle" /\ faults < MaxFaults /\ faults' = faults + 1
  /\ UNCHANGED <<saved, paused, signer, registry>>

(* The registry prepares the event, which is checked and signed by both keys.*)
Prepare ==
  /\ pc = "prepare"
  /\ Continue("persist") \/ Raise(NoRotation)
  /\ UNCHANGED <<rot, saved, paused, signer, provider, registry, nextKid>>

(* Faulty variant: the bytes are submitted before they are saved.            *)
PersistSkipped ==
  /\ pc = "persist"
  /\ Continue("pause")
  /\ UNCHANGED <<rot, saved, paused, signer, provider, registry, nextKid>>

(* persistRotation resolves or rejects; a rejected write may have happened.  *)
PersistRotation ==
  /\ pc = "persist"
  /\ \/ saved' = rot /\ Continue("pause")
     \/ saved' \in {saved, rot} /\ Raise(rot)
  /\ UNCHANGED <<rot, paused, signer, provider, registry, nextKid>>

(* Faulty variant: signing goes on while the event is with the registry.     *)
PauseSkipped ==
  /\ pc = "pause"
  /\ Continue("submit")
  /\ UNCHANGED <<rot, saved, paused, signer, provider, registry, nextKid>>

Pause ==
  /\ pc = "pause"
  /\ \/ paused' = TRUE /\ Continue("submit")
     \/ paused' \in {paused, TRUE} /\ Raise(rot)
  /\ UNCHANGED <<rot, saved, signer, provider, registry, nextKid>>

(* submitPreparedEvent sends the saved bytes; the request may be lost.  An   *)
(* error that rules out a retry of the same bytes carries the same state as  *)
(* one that asks for it; the host resumes from it in either case.            *)
Submit ==
  /\ pc = "submit"
  /\ LET received == [event EXCEPT ![rot.new] = IF @ = "none" THEN "sent" ELSE @] IN
       \/ event' = received /\ Continue("reply")
       \/ event' \in {event, received} /\ Raise(rot)
  /\ UNCHANGED <<rot, saved, paused, signer, provider, published, nextKid>>

(* What the registry answers for an event; any other state is refused.       *)
Reply(e) == IF e \in {"accepted", "rejected"} THEN e ELSE "pending"

(* assertSubmissionMatchesRotation: an answer that is not for the rotation's *)
(* bytes and key is not saved, but the error hands it to the host.           *)
Mismatched(r) == WithSubmission(r, "mismatched")

SubmissionResult ==
  /\ pc = "reply"
  /\ \/ /\ event[rot.new] \notin {"none", "sent"}
        /\ rot' = WithSubmission(rot, Reply(event[rot.new]))
        /\ Continue("bind")
     \/ Raise(rot) /\ UNCHANGED rot
     \/ Raise(Mismatched(rot)) /\ UNCHANGED rot
  /\ UNCHANGED <<saved, paused, signer, provider, registry, nextKid>>

(* Faulty variant: an accepted submission is acted upon but not saved.       *)
BindUnsaved ==
  /\ pc = "bind"
  /\ \/ rot.sub = "accepted" /\ Continue("verify") /\ UNCHANGED saved
     \/ rot.sub # "accepted" /\ Done(rot) /\ saved' = rot
  /\ UNCHANGED <<rot, paused, signer, provider, registry, nextKid>>

(* The submission is saved.  Only an accepted one goes on; a pending one is  *)
(* the result, a rejected one an error.                                      *)
BindSubmission ==
  /\ pc = "bind"
  /\ \/ saved' = rot /\ rot.sub = "accepted" /\ Continue("verify")
     \/ saved' = rot /\ rot.sub # "accepted" /\ Done(rot)
     \/ saved' \in {saved, rot} /\ Raise(rot)
  /\ UNCHANGED <<rot, paused, signer, provider, registry, nextKid>>

(* verifyAcceptedPublication: fresh evidence shows the new key and the       *)
(* accepted event.                                                           *)
VerifyAcceptedPublication ==
  /\ pc = "verify"
  /\ \/ published = rot.new /\ event[rot.new] = "accepted" /\ Continue("activate")
     \/ Raise(rot)
  /\ UNCHANGED <<rot, saved, paused, signer, provider, registry, nextKid>>
-----------------------------------------------------------------------------
(* KeyProvider.activate(kid).                                                *)
Promoted(p, kid) ==
  Keys(kid, IF Retains /\ p.active # 0 THEN p.retained \cup {p.active} ELSE p.retained,
       p.pending \ {kid})

(* KeyProvider.supersede(kid).                                               *)
Superseded(p, kid) ==
  Keys(IF p.active = kid THEN 0 ELSE p.active, p.retained \ {kid}, p.pending \ {kid})

SetProvider(name, p) == provider' = [provider EXCEPT ![name] = p]

(* Faulty variant: the new key is activated also when it is active already.  *)
ActivateKeyAgain ==
  /\ pc = "activate"
  /\ LET t == provider[Target] IN
       \/ /\ rot.new \in t.pending
          /\ SetProvider(Target, Promoted(t, rot.new))
          /\ Continue("supersede") \/ Raise(rot)
       \/ UNCHANGED provider /\ Raise(rot)
  /\ UNCHANGED <<rot, saved, paused, signer, registry, nextKid>>

(* reconcileAcceptedRotation: the new key becomes active, unless it is.  A   *)
(* target without an active key is an error, as target.signingKey() throws.  *)
ActivateKey ==
  /\ pc = "activate"
  /\ LET t == provider[Target] IN
       \/ t.active = rot.new /\ UNCHANGED provider /\ Continue("supersede")
       \/ /\ t.active \notin {0, rot.new} /\ rot.new \in t.pending
          /\ CrossProvider \/ t.active = rot.prev
          /\ SetProvider(Target, Promoted(t, rot.new))
          /\ Continue("supersede") \/ Raise(rot)
       \/ UNCHANGED provider /\ Raise(rot)
  /\ UNCHANGED <<rot, saved, paused, signer, registry, nextKid>>

(* ... and the old key leaves its provider, unless it has.                   *)
SupersedeKey ==
  /\ pc = "supersede"
  /\ \/ rot.prev \notin Listed(Source) /\ UNCHANGED provider /\ Continue("activated")
     \/ /\ rot.prev \in Listed(Source)
        /\ Retains => rot.prev # Source.active
        /\ SetProvider("source", Superseded(Source, rot.prev))
        /\ Continue("activated") \/ Raise(rot)
     \/ UNCHANGED provider /\ Raise(rot)
  /\ UNCHANGED <<rot, saved, paused, signer, registry, nextKid>>

(* The transfer left no active key behind.                                   *)
SourceRetired == CrossProvider => Source.active = 0

PersistActivated ==
  /\ pc = "activated"
  /\ LET activated == WithFlags(rot, TRUE, TRUE) IN
       \/ SourceRetired /\ rot' = activated /\ saved' = activated /\ Continue("signer")
       \/ SourceRetired /\ saved' = activated /\ Raise(rot) /\ UNCHANGED rot
       \/ Raise(rot) /\ UNCHANGED <<rot, saved>>
  /\ UNCHANGED <<paused, signer, provider, registry, nextKid>>

(* setApplicationSigner, also in recovery of an activated rotation; a        *)
(* terminal one needs no more.                                               *)
SetApplicationSigner ==
  /\ pc = "signer"
  /\ \/ /\ SourceRetired /\ provider[Target].active = rot.new
        /\ signer' = rot.new
        /\ \/ rot.paused /\ Continue("unpause")
           \/ ~rot.paused /\ Done(rot)
           \/ Raise(rot)
     \/ UNCHANGED signer /\ Raise(rot)
  /\ UNCHANGED <<rot, saved, paused, provider, registry, nextKid>>

Unpause ==
  /\ pc = "unpause"
  /\ \/ paused' = FALSE /\ Continue("complete")
     \/ paused' \in {paused, FALSE} /\ Raise(rot)
  /\ UNCHANGED <<rot, saved, signer, provider, registry, nextKid>>

PersistCompleted ==
  /\ pc = "complete"
  /\ LET completed == WithFlags(rot, TRUE, FALSE) IN
       \/ saved' = completed /\ Done(completed)
       \/ saved' \in {saved, completed} /\ Raise(rot)
  /\ UNCHANGED <<rot, paused, signer, provider, registry, nextKid>>
-----------------------------------------------------------------------------
(* Faulty variant: a source whose new key is already active is refused.      *)
ValidBeforeActivation(r) ==
  LET t == provider[Target] IN
  /\ IF r.prev \in Listed(Source)
     THEN Source.active # 0 => Source.active = r.prev
     ELSE r.sub = "accepted" /\ t.active = r.new /\ SourceRetired
  /\ r.new \in {t.active} \cup t.retained \cup t.pending

(* validateSavedRotation: the key states that saved state r allows.          *)
ValidateSavedRotation(r) ==
  LET t == provider[Target]
      targetIsActive == ~CrossProvider /\ r.sub = "accepted" /\ Source.active = r.new IN
  /\ r.sub # "mismatched"
  /\ IF r.prev \in Listed(Source)
     THEN Source.active # 0 =>
            Source.active = IF targetIsActive THEN r.new ELSE r.prev
     ELSE r.sub = "accepted" /\ t.active = r.new /\ SourceRetired
  /\ r.new \in {t.active} \cup t.retained \cup t.pending

(* resumeManagedOperationalKeyRotation with state r.                         *)
ResumeWith(r) ==
  /\ pc = "idle"
  /\ r # NoRotation
  /\ ValidateSavedRotation(r)
  /\ \/ r.activated /\ r.sub = "accepted" /\ pc' = "signer" /\ rot' = r
     \/ /\ ~r.activated /\ r.sub # "rejected"
        /\ pc' = "repause"
        /\ rot' = WithFlags(r, FALSE, TRUE)
  /\ UNCHANGED <<host, provider, registry, nextKid, faults>>

Resume == ResumeWith(Current)

Repause ==
  /\ pc = "repause"
  /\ \/ paused' = TRUE /\ Continue("repersist")
     \/ paused' \in {paused, TRUE} /\ Raise(rot)
  /\ UNCHANGED <<rot, saved, signer, provider, registry, nextKid>>

Repersist ==
  /\ pc = "repersist"
  /\ \/ saved' = rot /\ Continue(IF rot.sub = "accepted" THEN "verify" ELSE "submit")
     \/ saved' \in {saved, rot} /\ Raise(rot)
  /\ UNCHANGED <<rot, paused, signer, provider, registry, nextKid>>
-----------------------------------------------------------------------------
(* The registry receives an event, publishes only the new key, and then      *)
(* appends the event; or it refuses it.                                      *)
RegistryStep(k) ==
  /\ \/ event[k] = "sent" /\ event' = [event EXCEPT ![k] = "pending"] /\ UNCHANGED published
     \/ event[k] = "pending" /\ event' = [event EXCEPT ![k] = "published"] /\ published' = k
     \/ event[k] = "published" /\ event' = [event EXCEPT ![k] = "accepted"] /\ UNCHANGED published
     \/ event[k] = "pending" /\ event' = [event EXCEPT ![k] = "rejected"] /\ UNCHANGED published
  /\ UNCHANGED <<pc, rot, host, provider, nextKid, faults>>

(* The process crashes and restarts.  The host keeps signing paused if its   *)
(* record says so, and with a record leaves the signer to the recovery.      *)
Crash ==
  /\ faults < MaxFaults
  /\ faults' = faults + 1
  /\ pc' = "idle" /\ rot' = NoRotation
  /\ carried' = NoRotation
  /\ paused' = saved.paused
  /\ signer' = IF saved = NoRotation THEN Source.active ELSE 0
  /\ UNCHANGED <<saved, provider, registry, nextKid>>
-----------------------------------------------------------------------------
RunRotation ==
  \/ Prepare \/ PersistRotation \/ Pause \/ Submit \/ SubmissionResult \/ BindSubmission
  \/ VerifyAcceptedPublication \/ ActivateKey \/ SupersedeKey \/ PersistActivated
  \/ SetApplicationSigner \/ Unpause \/ PersistCompleted \/ Repause \/ Repersist

Next ==
  \/ Rotate \/ RunRotation \/ Resume \/ Crash
  \/ \E k \in Kids : RegistryStep(k)

Spec == Init /\ [][Next]_vars
-----------------------------------------------------------------------------
(* The type invariant.                                                       *)
TypeOK ==
  /\ pc \in {"idle", "prepare", "persist", "pause", "submit", "reply", "bind", "verify",
             "activate", "supersede", "activated", "signer", "unpause", "complete",
             "repause", "repersist"}
  /\ rot \in Rotation \cup {NoRotation}
  /\ carried \in Rotation \cup {NoRotation}
  /\ saved \in Rotation \cup {NoRotation}
  /\ pc # "idle" => rot \in Rotation
  /\ paused \in BOOLEAN
  /\ signer \in Kids \cup {0}
  /\ provider \in [{"source", "target"} -> Provider]
  /\ event \in [Kids -> {"none", "sent", "pending", "published", "accepted", "rejected"}]
  /\ published \in Kids
  /\ nextKid \in 2..(MaxKeys + 1)
  /\ faults \in 0..MaxFaults

(* The application signs only with the key the live JWKS shows: the gate is  *)
(* closed before the event can reach the registry and opens only with the    *)
(* new key in place, whatever fails and whenever the process restarts.       *)
SigningMatchesPublication == ~paused /\ signer # 0 => signer = published

(* The published key is never lost: a provider holds it, and unless it is    *)
(* active the host's record names it for recovery.                           *)
PublishedKeyIsRecoverable ==
  \/ \E p \in {"source", "target"} : provider[p].active = published
  \/ published \in provider[Target].pending /\ saved.new = published

(* "Local activation happens only after an accepted result for the exact,    *)
(* durably persisted bytes while application signing is paused."             *)
ActivationIsAuthorized ==
  [][\A p \in {"source", "target"} : provider'[p].active \notin {provider[p].active, 0} =>
       /\ paused
       /\ saved.new = provider'[p].active /\ saved.sub = "accepted"
       /\ event[saved.new] = "accepted"]_vars

(* Recovery accepts the record in every state that failures and crashes can  *)
(* leave behind.                                                             *)
RecordIsResumable == pc = "idle" /\ saved # NoRotation => ValidateSavedRotation(saved)

(* Whichever await fails and whenever the process restarts, the application  *)
(* signs with the published key only, some provider still holds that key,    *)
(* and the durable record is one that recovery accepts.                      *)
RotationIsSafe == SigningMatchesPublication /\ PublishedKeyIsRecoverable /\ RecordIsResumable

(* Awaits settle, the registry decides, and the host resumes a record that   *)
(* is not terminal; failures are bounded.                                    *)
Fairness ==
  /\ WF_vars(RunRotation)
  /\ WF_vars(~Terminal(Current) /\ Resume)
  /\ WF_vars(signer = 0 /\ Resume)
  /\ \A k \in Kids : WF_vars(RegistryStep(k))

FairSpec == Spec /\ Fairness

(* A rotation the registry accepted completes: the record becomes terminal   *)
(* and signing goes on with the new key, until the host rotates again.       *)
RotationCompletes ==
  \A k \in Kids : saved.new = k /\ event[k] = "accepted" ~>
    \/ Terminal(saved) /\ saved.new = k /\ ~paused /\ signer = k
    \/ saved.new # k
=============================================================================
