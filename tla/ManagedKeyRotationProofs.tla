----------------------- MODULE ManagedKeyRotationProofs -----------------------
(* Managed rotation for every number of keys and failures, within one        *)
(* provider and across two.                                                  *)
EXTENDS ManagedKeyRotation, TLAPS

T == provider[Target]

(* What a rotation state says of the registry.                               *)
Sound(r) ==
  /\ r.sub # "mismatched"
  /\ r.sub \in {"accepted", "rejected"} => event[r.new] = r.sub
  /\ r.activated => r.sub = "accepted"
  /\ ~r.activated => r.paused

(* No event of the record is left that could change the publication.         *)
Closed == saved.new = 0 \/ Terminal(saved) \/ event[saved.new] = "rejected"

(* A rotation that is not in the record yet: nothing was submitted.          *)
Unsaved(r) ==
  /\ r.new \notin {0, saved.new} /\ r.new < nextKid
  /\ event[r.new] = "none"
  /\ r.sub = "none" /\ ~r.activated /\ r.paused
  /\ r.prev = Source.active /\ r.prev \in Kids /\ r.prev # r.new
  /\ r.new \in T.pending /\ T.active # r.new
  /\ Closed

(* The rotation of the record, at most as far as the record.                 *)
Recorded(r) ==
  /\ r.new # 0 /\ r.new = saved.new /\ r.prev = saved.prev
  /\ Sound(r)
  /\ saved.sub = "accepted" => r.sub = "accepted"
  /\ r.activated => saved.activated
  /\ ~r.paused => saved = r

PcInv ==
  /\ pc = "idle" =>
       carried.new = 0 \/ carried.sub = "mismatched" \/ Unsaved(carried) \/ Recorded(carried)
  /\ pc \in {"prepare", "persist"} => Unsaved(rot)
  /\ pc \in {"repause", "repersist"} =>
       (Unsaved(rot) \/ Recorded(rot)) /\ ~rot.activated /\ rot.sub # "rejected"
  /\ pc \notin {"idle", "prepare", "persist", "repause", "repersist"} => Recorded(rot)
  /\ pc = "pause" => event[rot.new] = "none"
  /\ pc \in {"repersist", "submit", "reply", "bind", "verify", "activate", "supersede", "activated"} =>
       paused
  /\ pc \in {"pause", "submit", "reply", "bind", "verify", "activate", "supersede", "activated"} =>
       ~rot.activated /\ ~saved.activated
  /\ pc \in {"verify", "activate", "supersede", "activated"} =>
       rot.sub = "accepted" /\ saved.sub = "accepted"
  /\ pc \in {"supersede", "activated"} => T.active = rot.new
  /\ pc = "activated" => rot.prev \notin Listed(Source)
  /\ pc \in {"signer", "unpause", "complete"} => rot.activated
  /\ pc \in {"unpause", "complete"} => signer = rot.new /\ rot.paused

(* Events: only that of the record is under way, and then signing is paused. *)
EventInv ==
  /\ \A k \in Kids : event[k] \in {"sent", "pending", "published"} => k = saved.new
  /\ \A k \in Kids : event[k] # "none" => k < nextKid
  /\ saved.new # 0 => Sound(saved)
  /\ saved.new # 0 /\ ~saved.activated /\ event[saved.new] \notin {"none", "rejected"} => paused

(* Which key is published.                                                   *)
PublicationInv ==
  published = IF saved.new # 0 /\ event[saved.new] \in {"published", "accepted"}
              THEN saved.new ELSE Source.active

(* The old key is active until the new one is, which needs an acceptance in  *)
(* the record.                                                               *)
KeysInv ==
  /\ saved.new # 0 =>
       /\ saved.prev # saved.new
       /\ \/ /\ Source.active = saved.prev /\ ~saved.activated
             /\ saved.new \in T.pending /\ T.active # saved.new
          \/ /\ T.active = saved.new /\ saved.sub = "accepted"
             /\ CrossProvider => Source.active \in {saved.prev, 0}
       /\ saved.activated => T.active = saved.new /\ saved.prev \notin Listed(Source)
  /\ \A p \in {"source", "target"} :
       /\ provider[p].active < nextKid
       /\ \A k \in provider[p].pending : k < nextKid

IInv ==
  /\ TypeOK
  /\ PcInv
  /\ EventInv
  /\ PublicationInv
  /\ KeysInv
  /\ SigningMatchesPublication
-----------------------------------------------------------------------------
RotationField == Rotation \cup {NoRotation}

LEMMA Fields ==
  ASSUME RotationAssumption, NEW r \in RotationField
  PROVE  /\ r.prev \in Kids \cup {0} /\ r.new \in Kids \cup {0} /\ r.sub \in Submissions
         /\ r.activated \in BOOLEAN /\ r.paused \in BOOLEAN
         /\ (r = NoRotation) <=> (r.new = 0)
         /\ r # NoRotation => r \in Rotation
         /\ r.new # 0 => r.prev \in Kids
  <1>1. 0 \notin Kids
    BY DEF RotationAssumption, Kids
  <1>2. CASE r = NoRotation
    BY <1>1, <1>2 DEF NoRotation, Submissions
  <1>3. CASE r \in Rotation
    <2>1. r # NoRotation /\ r.new # 0
      BY <1>1, <1>3 DEF NoRotation, Rotation
    <2> QED BY <1>3, <2>1 DEF Rotation
  <1> QED BY <1>2, <1>3 DEF RotationField

LEMMA Constructed ==
  ASSUME NEW r \in Rotation, NEW sub \in Submissions
  PROVE  /\ WithSubmission(r, sub) \in Rotation
         /\ WithSubmission(r, sub).prev = r.prev /\ WithSubmission(r, sub).new = r.new
         /\ WithSubmission(r, sub).sub = sub /\ WithSubmission(r, sub).activated = r.activated
         /\ WithSubmission(r, sub).paused = r.paused
  BY DEF WithSubmission, Rot, Rotation

LEMMA ConstructedFlags ==
  ASSUME NEW r \in Rotation, NEW a \in BOOLEAN, NEW b \in BOOLEAN
  PROVE  /\ WithFlags(r, a, b) \in Rotation
         /\ WithFlags(r, a, b).prev = r.prev /\ WithFlags(r, a, b).new = r.new
         /\ WithFlags(r, a, b).sub = r.sub /\ WithFlags(r, a, b).activated = a
         /\ WithFlags(r, a, b).paused = b
  BY DEF WithFlags, Rot, Rotation

LEMMA Types ==
  ASSUME RotationAssumption, TypeOK
  PROVE  /\ rot \in RotationField /\ carried \in RotationField /\ saved \in RotationField
         /\ Source \in Provider /\ T \in Provider
         /\ Source.active \in Kids \cup {0} /\ T.active \in Kids \cup {0}
         /\ Target \in {"source", "target"} /\ CrossProvider \in BOOLEAN
         /\ ~CrossProvider => T = Source
         /\ pc # "idle" => rot \in Rotation
         /\ nextKid \in Nat /\ paused \in BOOLEAN /\ Kids \subseteq Nat /\ 0 \notin Kids
  BY DEF RotationAssumption, TypeOK, RotationField, T, Source, Target, Provider, Kids

LEMMA InitIInv == ASSUME RotationAssumption, Init PROVE IInv
  <1>1. /\ NoRotation.new = 0 /\ saved = NoRotation /\ carried = NoRotation /\ rot = NoRotation
        /\ Source = Keys(1, {}, {})
        /\ provider["target"] = Keys(IF CrossProvider THEN 2 ELSE 0, {}, {})
    BY DEF Init, NoRotation, Source
  <1>2. /\ 1 \in Kids /\ nextKid = IF CrossProvider THEN 3 ELSE 2
        /\ CrossProvider => 2 \in Kids
    BY DEF RotationAssumption, Kids, Init
  <1>3. TypeOK
    <2>1. \A p \in {"source", "target"} : provider[p] \in Provider
      BY <1>1, <1>2 DEF Source, Keys, Provider
    <2>2. provider \in [{"source", "target"} -> Provider]
      BY <2>1 DEF Init
    <2>3. nextKid \in 2..(MaxKeys + 1) /\ faults \in 0..MaxFaults
      BY <1>2 DEF RotationAssumption, Init
    <2>4. event \in [Kids -> {"none", "sent", "pending", "published", "accepted", "rejected"}]
      BY DEF Init
    <2> QED BY <1>1, <1>2, <2>2, <2>3, <2>4, Zenon DEF Init, TypeOK
  <1>4. PcInv
    BY <1>1 DEF Init, PcInv
  <1>5. EventInv
    BY <1>1 DEF Init, EventInv
  <1>6. PublicationInv /\ SigningMatchesPublication
    BY <1>1 DEF Init, PublicationInv, SigningMatchesPublication, Keys
  <1>7. KeysInv
    <2>1. \A p \in {"source", "target"} : provider[p].active < nextKid /\ provider[p].pending = {}
      BY <1>1, <1>2 DEF Source, Keys
    <2> QED BY <1>1, <2>1 DEF KeysInv
  <1> QED BY <1>3, <1>4, <1>5, <1>6, <1>7 DEF IInv
-----------------------------------------------------------------------------
(* A step that leaves the record, the providers and the registry alone.      *)
Quiet == UNCHANGED <<saved, provider, registry, nextKid>>

LEMMA QuietFrame ==
  ASSUME IInv, Quiet
  PROVE  /\ KeysInv' /\ PublicationInv'
         /\ \A r : Unsaved(r) => (Unsaved(r))'
         /\ \A r : Recorded(r) => (Recorded(r))'
         /\ T' = T /\ Source' = Source
  BY DEF IInv, KeysInv, PublicationInv, Unsaved, Recorded, Closed, Sound, Quiet, T, Source,
         Listed, registry

(* The record takes up a rotation it did not hold.                           *)
LEMMA SaveUnsaved ==
  ASSUME RotationAssumption, IInv, NEW r \in Rotation, Unsaved(r),
         saved' = r, UNCHANGED <<provider, registry, nextKid>>
  PROVE  KeysInv' /\ PublicationInv' /\ EventInv' /\ (Recorded(r))'
  <1> USE DEF registry
  <1>1. T' = T /\ Source' = Source
    BY DEF T, Source
  <1>2. /\ r.new # 0 /\ r.prev # r.new /\ r.prev = Source.active /\ r.new \in T.pending
        /\ T.active # r.new /\ event[r.new] = "none" /\ r.sub = "none" /\ ~r.activated
        /\ r.paused /\ Closed /\ r.prev \in Kids /\ r.prev # 0
    BY Types DEF Unsaved, IInv
  <1>3. KeysInv'
    BY <1>1, <1>2 DEF IInv, KeysInv
  <1>4. published = Source.active
    <2>1. CASE saved.new = 0 \/ event[saved.new] = "rejected"
      BY <2>1 DEF IInv, PublicationInv
    <2>2. CASE Terminal(saved) /\ saved.new # 0
      <3>1. saved.activated /\ T.active = saved.new /\ saved.prev \notin Listed(Source)
        BY <2>2 DEF IInv, KeysInv, Terminal
      <3>2. ~CrossProvider
        BY <1>2, <2>2, <3>1, Types DEF IInv, KeysInv, Listed
      <3>3. T = Source
        BY <3>2, Types DEF IInv
      <3>4. event[saved.new] = "accepted"
        BY <2>2, <3>1 DEF IInv, EventInv, Sound
      <3> QED BY <2>2, <3>1, <3>3, <3>4 DEF IInv, PublicationInv
    <2> QED BY <1>2, <2>1, <2>2 DEF Closed
  <1>5. PublicationInv'
    BY <1>1, <1>2, <1>4 DEF PublicationInv
  <1>6. EventInv'
    <2>1. \A k \in Kids : event[k] \notin {"sent", "pending", "published"}
      <3>1. saved.new # 0 => saved.new \in Kids /\ event[saved.new] \in {"accepted", "rejected"}
        BY <1>2, Types, Fields DEF IInv, EventInv, Closed, Terminal, Sound
      <3>2. \A k \in Kids : event[k] \in {"sent", "pending", "published"} => k = saved.new /\ k # 0
        BY Types DEF IInv, EventInv
      <3> QED BY <3>1, <3>2
    <2> QED BY <1>2, <2>1 DEF IInv, EventInv, Sound
  <1>7. (Recorded(r))'
    BY <1>2 DEF Recorded, Sound
  <1> QED BY <1>3, <1>5, <1>6, <1>7

(* The record of a rotation is brought up to date.                           *)
LEMMA SaveRecorded ==
  ASSUME RotationAssumption, IInv, NEW q \in Rotation,
         q.new = saved.new, q.prev = saved.prev, Sound(q),
         saved.sub = "accepted" => q.sub = "accepted",
         q.activated => T.active = q.new /\ q.prev \notin Listed(Source),
         ~q.activated /\ event[q.new] \notin {"none", "rejected"} => paused',
         saved' = q, UNCHANGED <<provider, registry, nextKid>>
  PROVE  KeysInv' /\ PublicationInv' /\ EventInv'
  <1> USE DEF registry
  <1>1. T' = T /\ Source' = Source /\ (Listed(Source))' = Listed(Source)
    BY DEF T, Source, Listed
  <1>2. KeysInv'
    BY <1>1 DEF IInv, KeysInv
  <1>3. PublicationInv'
    BY <1>1 DEF IInv, PublicationInv
  <1>4. EventInv'
    BY DEF IInv, EventInv, Sound
  <1> QED BY <1>2, <1>3, <1>4
-----------------------------------------------------------------------------
(* How an operation goes on or ends.                                         *)
LEMMA Outcomes ==
  ASSUME RotationAssumption, TypeOK
  PROVE  /\ \A step : Continue(step) => pc' = step /\ carried' = carried /\ faults' = faults
         /\ \A r : Done(r) => pc' = "idle" /\ carried' = r /\ faults' = faults
         /\ \A r : Raise(r) => pc' = "idle" /\ carried' = r /\ faults' \in 0..MaxFaults
  BY DEF Continue, Done, Raise, TypeOK, RotationAssumption

LEMMA Counters ==
  ASSUME RotationAssumption, TypeOK
  PROVE  /\ nextKid \in 2..(MaxKeys + 1) /\ faults \in 0..MaxFaults
         /\ nextKid <= MaxKeys => nextKid \in Kids /\ nextKid + 1 \in 2..(MaxKeys + 1)
         /\ faults < MaxFaults => faults + 1 \in 0..MaxFaults
         /\ NoRotation.new = 0
  <1>1. nextKid \in 2..(MaxKeys + 1) /\ faults \in 0..MaxFaults
    BY DEF TypeOK
  <1>2. NoRotation.new = 0
    BY DEF NoRotation
  <1> QED BY <1>1, <1>2 DEF RotationAssumption, Kids

LEMMA ProviderTypes ==
  ASSUME RotationAssumption, TypeOK, NEW p \in Provider, NEW kid \in Kids
  PROVE  /\ Promoted(p, kid) \in Provider /\ Superseded(p, kid) \in Provider
         /\ Keys(p.active, p.retained, p.pending \cup {kid}) \in Provider
         /\ \A name \in {"source", "target"} : \A q \in Provider :
              SetProvider(name, q) =>
                /\ provider' \in [{"source", "target"} -> Provider]
                /\ provider'[name] = q
                /\ \A other \in {"source", "target"} : other # name => provider'[other] = provider[other]
  <1>1. /\ p.active \in Kids \cup {0} /\ p.retained \in SUBSET Kids /\ p.pending \in SUBSET Kids
    BY DEF Provider
  <1>2. \A a \in Kids \cup {0}, b \in SUBSET Kids, c \in SUBSET Kids : Keys(a, b, c) \in Provider
    BY DEF Keys, Provider
  <1>3. Promoted(p, kid) \in Provider
    <2>1. (IF Retains /\ p.active # 0 THEN p.retained \cup {p.active} ELSE p.retained) \in SUBSET Kids
      BY <1>1
    <2> QED BY <1>1, <1>2, <2>1 DEF Promoted
  <1>4. Superseded(p, kid) \in Provider
    <2>1. (IF p.active = kid THEN 0 ELSE p.active) \in Kids \cup {0}
      BY <1>1
    <2> QED BY <1>1, <1>2, <2>1 DEF Superseded
  <1>5. Keys(p.active, p.retained, p.pending \cup {kid}) \in Provider
    BY <1>1, <1>2
  <1>6. ASSUME NEW name \in {"source", "target"}, NEW q \in Provider, SetProvider(name, q)
        PROVE  /\ provider' \in [{"source", "target"} -> Provider]
               /\ provider'[name] = q
               /\ \A other \in {"source", "target"} : other # name => provider'[other] = provider[other]
    BY <1>6 DEF SetProvider, TypeOK
  <1> QED BY <1>3, <1>4, <1>5, <1>6

(* The awaits before an event is submitted.                                  *)
LEMMA PrepareSteps ==
  ASSUME RotationAssumption, IInv, Prepare \/ PersistRotation \/ Pause
  PROVE  IInv'
  <1> USE DEF registry
  <1>1. TypeOK /\ rot \in Rotation /\ NoRotation.new = 0 /\ UNCHANGED <<rot, signer, provider, registry, nextKid>>
    BY Types, Zenon DEF IInv, Prepare, PersistRotation, Pause, NoRotation
  <1>2. CASE Prepare
    <2>1. Unsaved(rot) /\ Quiet /\ UNCHANGED paused
      BY <1>2 DEF IInv, PcInv, Prepare, Quiet
    <2>2. \/ pc' = "persist" /\ carried' = carried /\ faults' = faults
          \/ pc' = "idle" /\ carried' = NoRotation /\ faults' \in 0..MaxFaults
      BY <1>1, <1>2, Outcomes DEF Prepare
    <2>3. TypeOK'
      BY <1>1, <1>2, <2>2 DEF TypeOK, Prepare
    <2>4. (Unsaved(rot))'
      BY <1>1, <2>1 DEF Unsaved, Closed, Quiet, T, Source
    <2>5. PcInv'
      BY <1>1, <2>2, <2>4 DEF PcInv
    <2>6. EventInv' /\ SigningMatchesPublication'
      BY <1>2, <2>1 DEF IInv, EventInv, Sound, Quiet, SigningMatchesPublication, Prepare
    <2> QED BY <2>1, <2>3, <2>5, <2>6, QuietFrame DEF IInv
  <1>3. CASE PersistRotation
    <2>1. Unsaved(rot) /\ UNCHANGED paused
      BY <1>3 DEF IInv, PcInv, PersistRotation
    <2>2. \/ saved' = rot /\ pc' = "pause" /\ carried' = carried /\ faults' = faults
          \/ saved' \in {saved, rot} /\ pc' = "idle" /\ carried' = rot /\ faults' \in 0..MaxFaults
      BY <1>1, <1>3, Outcomes DEF PersistRotation
    <2>3. TypeOK'
      BY <1>1, <2>1, <2>2 DEF TypeOK
    <2>4. SigningMatchesPublication'
      BY <1>1, <2>1 DEF IInv, SigningMatchesPublication
    <2>5. CASE saved' = rot
      <3>1. KeysInv' /\ PublicationInv' /\ EventInv'
        BY <1>1, <2>1, <2>5, SaveUnsaved
      <3>2. Recorded(rot)' /\ event'[rot'.new] = "none" /\ ~rot'.activated /\ ~saved'.activated
        BY <1>1, <2>1, <2>5 DEF Recorded, Unsaved, Sound
      <3>3. PcInv'
        <4>1. CASE pc' = "pause"
          BY <3>2, <4>1 DEF PcInv
        <4>2. CASE pc' = "idle" /\ carried' = rot
          BY <1>1, <3>2, <4>2 DEF PcInv, Recorded, Sound
        <4> QED BY <2>2, <4>1, <4>2
      <3> QED BY <2>3, <2>4, <3>1, <3>3 DEF IInv
    <2>6. CASE saved' = saved /\ pc' = "idle" /\ carried' = rot
      <3>1. Quiet
        BY <1>1, <2>6 DEF Quiet
      <3>2. (Unsaved(carried))'
        BY <1>1, <2>1, <2>6 DEF Unsaved, Closed, T, Source
      <3>3. PcInv'
        BY <2>6, <3>2 DEF PcInv
      <3>4. EventInv'
        BY <1>1, <2>1, <2>6 DEF IInv, EventInv, Sound
      <3> QED BY <2>3, <2>4, <3>1, <3>3, <3>4, QuietFrame DEF IInv
    <2> QED BY <2>2, <2>5, <2>6
  <1>4. CASE Pause
    <2>1. /\ Recorded(rot) /\ Quiet /\ paused' \in BOOLEAN /\ (paused => paused')
          /\ event[rot.new] = "none" /\ ~rot.activated /\ ~saved.activated
      BY <1>4, Types, Zenon DEF IInv, PcInv, Pause, Quiet
    <2>2. \/ paused' /\ pc' = "submit" /\ carried' = carried /\ faults' = faults
          \/ pc' = "idle" /\ carried' = rot /\ faults' \in 0..MaxFaults
      BY <1>1, <1>4, Outcomes, Zenon DEF Pause
    <2>3. TypeOK'
      BY <1>1, <1>4, <2>1, <2>2 DEF TypeOK, Pause
    <2>4. (Recorded(rot))' /\ (carried' = rot => (Recorded(carried))')
      BY <1>1, <2>1 DEF Recorded, Quiet, Sound
    <2>5. PcInv'
      BY <1>1, <2>1, <2>2, <2>4 DEF PcInv, Quiet
    <2>6. EventInv' /\ SigningMatchesPublication'
      BY <1>1, <2>1 DEF IInv, EventInv, Sound, Quiet, SigningMatchesPublication
    <2> QED BY <2>1, <2>3, <2>5, <2>6, QuietFrame DEF IInv
  <1> QED BY <1>2, <1>3, <1>4

LEMMA RecordedFacts ==
  ASSUME RotationAssumption, IInv, NEW r, Recorded(r)
  PROVE  saved.new \in Kids /\ saved.new < nextKid /\ saved.new # 0 /\ saved \in Rotation
  BY Types, Fields DEF IInv, Recorded, KeysInv, T, Target

LEMMA SubmitStep ==
  ASSUME RotationAssumption, IInv, Submit
  PROVE  IInv'
  <1>1. /\ pc = "submit" /\ UNCHANGED <<rot, saved, paused, signer, provider, published, nextKid>>
        /\ TypeOK /\ Recorded(rot) /\ paused /\ ~rot.activated /\ ~saved.activated
    BY DEF IInv, Submit, PcInv
  <1>2. /\ saved.new \in Kids /\ saved.new < nextKid /\ saved.new # 0
        /\ rot.new = saved.new /\ Sound(rot) /\ Sound(saved)
    BY <1>1, RecordedFacts DEF IInv, EventInv, Recorded
  <1>3. /\ event' = event \/ event' = [event EXCEPT ![rot.new] = IF @ = "none" THEN "sent" ELSE @]
        /\ \/ pc' = "reply" /\ carried' = carried /\ faults' = faults
           \/ pc' = "idle" /\ carried' = rot /\ faults' \in 0..MaxFaults
    BY <1>1, Outcomes DEF Submit
  <1>4. /\ event' \in [Kids -> {"none", "sent", "pending", "published", "accepted", "rejected"}]
        /\ \A k \in Kids : event'[k] = event[k] \/ (k = saved.new /\ event[k] = "none" /\ event'[k] = "sent")
    <2>1. event \in [Kids -> {"none", "sent", "pending", "published", "accepted", "rejected"}]
      BY <1>1 DEF TypeOK
    <2>2. CASE event' = event
      <3>1. \A k \in Kids : event'[k] = event[k]
        BY <2>2
      <3> QED BY <2>1, <2>2, <3>1
    <2>3. CASE event' = [event EXCEPT ![saved.new] = IF @ = "none" THEN "sent" ELSE @]
      <3>1. \A k \in Kids : event'[k] = IF k = saved.new /\ event[k] = "none" THEN "sent" ELSE event[k]
        BY <1>2, <2>1, <2>3
      <3>2. event' \in [Kids -> {"none", "sent", "pending", "published", "accepted", "rejected"}]
        BY <2>1, <2>3, <3>1, Zenon
      <3>3. \A k \in Kids : event'[k] = event[k] \/ (k = saved.new /\ event[k] = "none" /\ event'[k] = "sent")
        BY <3>1
      <3> QED BY <3>2, <3>3
    <2> QED BY <1>2, <1>3, <2>2, <2>3
  <1>5. TypeOK'
    BY <1>1, <1>3, <1>4 DEF TypeOK
  <1>6. (Sound(rot))' /\ (Sound(saved))'
    BY <1>1, <1>2, <1>4 DEF Sound
  <1>7. (Recorded(rot))' /\ (carried' = rot => (Recorded(carried))')
    BY <1>1, <1>2, <1>6 DEF Recorded, Sound
  <1>8. PcInv'
    BY <1>1, <1>3, <1>7 DEF PcInv
  <1>9. EventInv'
    BY <1>1, <1>2, <1>4, <1>6 DEF IInv, EventInv
  <1>10. PublicationInv' /\ SigningMatchesPublication'
    BY <1>1, <1>2, <1>4 DEF IInv, PublicationInv, SigningMatchesPublication, Source
  <1>11. KeysInv'
    BY <1>1 DEF IInv, KeysInv, Source, T, Listed
  <1> QED BY <1>5, <1>8, <1>9, <1>10, <1>11 DEF IInv

LEMMA ReplySteps ==
  ASSUME RotationAssumption, IInv, SubmissionResult \/ VerifyAcceptedPublication
  PROVE  IInv'
  <1> USE DEF registry
  <1>1. /\ pc \in {"reply", "verify"} /\ UNCHANGED <<saved, paused, signer, provider, registry, nextKid>>
        /\ TypeOK /\ Recorded(rot) /\ paused /\ ~rot.activated /\ ~saved.activated /\ rot \in Rotation
        /\ Quiet
    BY Types DEF IInv, SubmissionResult, VerifyAcceptedPublication, PcInv, Quiet
  <1>2. EventInv' /\ SigningMatchesPublication'
    BY <1>1 DEF IInv, EventInv, Sound, SigningMatchesPublication
  <1>3. CASE VerifyAcceptedPublication
    <2>1. /\ UNCHANGED rot /\ rot.sub = "accepted" /\ saved.sub = "accepted"
          /\ \/ pc' = "activate" /\ carried' = carried /\ faults' = faults
             \/ pc' = "idle" /\ carried' = rot /\ faults' \in 0..MaxFaults
      BY <1>1, <1>3, Outcomes DEF VerifyAcceptedPublication, IInv, PcInv
    <2>2. TypeOK'
      BY <1>1, <2>1 DEF TypeOK
    <2>3. (Recorded(rot))' /\ (carried' = rot => (Recorded(carried))')
      BY <1>1, <2>1 DEF Recorded, Sound
    <2>4. PcInv'
      BY <1>1, <2>1, <2>3 DEF PcInv
    <2> QED BY <1>1, <1>2, <2>2, <2>4, QuietFrame DEF IInv
  <1>4. CASE SubmissionResult
    <2>1. CASE rot' = rot /\ pc' = "idle" /\ carried' = rot /\ faults' \in 0..MaxFaults
      <3>1. TypeOK'
        BY <1>1, <2>1 DEF TypeOK
      <3>2. (Recorded(carried))'
        BY <1>1, <2>1 DEF Recorded, Sound
      <3>3. PcInv'
        BY <2>1, <3>2 DEF PcInv
      <3> QED BY <1>1, <1>2, <3>1, <3>3, QuietFrame DEF IInv
    <2>2. CASE /\ rot' = WithSubmission(rot, Reply(event[rot.new]))
               /\ pc' = "bind" /\ carried' = carried /\ faults' = faults
      <3>1. Reply(event[rot.new]) \in Submissions
        BY DEF Reply, Submissions
      <3>2. /\ rot' \in Rotation /\ rot'.new = rot.new /\ rot'.prev = rot.prev
            /\ rot'.activated = rot.activated /\ rot'.paused = rot.paused
            /\ rot'.sub = Reply(event[rot.new])
        BY <1>1, <2>2, <3>1, Constructed
      <3>3. TypeOK'
        BY <1>1, <2>2, <3>2 DEF TypeOK
      <3>4. (Recorded(rot))'
        <4>1. saved.sub = "accepted" => event[rot.new] = "accepted"
          BY <1>1 DEF Recorded, IInv, EventInv, Sound
        <4>2. rot.paused
          BY <1>1 DEF Recorded, Sound
        <4> QED BY <1>1, <3>2, <4>1, <4>2 DEF Recorded, Sound, Reply
      <3>5. PcInv'
        BY <1>1, <2>2, <3>2, <3>4 DEF PcInv
      <3> QED BY <1>1, <1>2, <3>3, <3>5, QuietFrame DEF IInv
    <2>3. CASE /\ rot' = rot /\ pc' = "idle" /\ carried' = Mismatched(rot)
               /\ faults' \in 0..MaxFaults
      <3>1. carried' \in Rotation /\ carried'.sub = "mismatched"
        BY <1>1, <2>3, Constructed DEF Mismatched, Submissions
      <3>2. TypeOK'
        BY <1>1, <2>3, <3>1 DEF TypeOK
      <3>3. PcInv'
        BY <2>3, <3>1 DEF PcInv
      <3> QED BY <1>1, <1>2, <3>2, <3>3, QuietFrame DEF IInv
    <2> QED BY <1>1, <1>4, <2>1, <2>2, <2>3, Outcomes DEF SubmissionResult
  <1> QED BY <1>3, <1>4

LEMMA BindStep ==
  ASSUME RotationAssumption, IInv, BindSubmission
  PROVE  IInv'
  <1> USE DEF registry
  <1>1. /\ pc = "bind" /\ UNCHANGED <<rot, paused, signer, provider, registry, nextKid>>
        /\ TypeOK /\ Recorded(rot) /\ paused /\ ~rot.activated /\ ~saved.activated /\ rot \in Rotation
    BY Types DEF IInv, BindSubmission, PcInv
  <1>2. \/ saved' = rot /\ rot.sub = "accepted" /\ pc' = "verify" /\ carried' = carried /\ faults' = faults
        \/ saved' \in {saved, rot} /\ pc' = "idle" /\ carried' = rot /\ faults' \in 0..MaxFaults
    BY <1>1, Outcomes DEF BindSubmission, TypeOK
  <1>3. TypeOK'
    BY <1>1, <1>2 DEF TypeOK
  <1>4. SigningMatchesPublication'
    BY <1>1 DEF IInv, SigningMatchesPublication
  <1>5. (Recorded(rot))' /\ (carried' = rot => (Recorded(carried))') /\ ~saved'.activated
    <2>1. CASE saved' = rot
      BY <1>1, <2>1 DEF Recorded, Sound
    <2>2. CASE saved' = saved
      BY <1>1, <2>2 DEF Recorded, Sound
    <2> QED BY <1>2, <2>1, <2>2
  <1>6. PcInv'
    BY <1>1, <1>2, <1>5 DEF PcInv
  <1>7. KeysInv' /\ PublicationInv' /\ EventInv'
    <2>1. CASE saved' = rot
      BY <1>1, <2>1, SaveRecorded DEF Recorded
    <2>2. CASE saved' = saved
      <3>1. EventInv'
        BY <1>1, <2>2 DEF IInv, EventInv, Sound
      <3> QED BY <1>1, <2>2, <3>1, QuietFrame DEF Quiet
    <2> QED BY <1>2, <2>1, <2>2
  <1> QED BY <1>3, <1>4, <1>6, <1>7 DEF IInv
-----------------------------------------------------------------------------
(* The new key becomes active and the old one leaves.                        *)
LEMMA KeySteps ==
  ASSUME RotationAssumption, IInv, ActivateKey \/ SupersedeKey
  PROVE  IInv'
  <1> USE DEF registry
  <1>1. /\ pc \in {"activate", "supersede"} /\ UNCHANGED <<rot, saved, paused, signer, registry, nextKid>>
        /\ TypeOK /\ Recorded(rot) /\ paused /\ ~rot.activated /\ ~saved.activated /\ rot \in Rotation
        /\ rot.sub = "accepted" /\ saved.sub = "accepted"
    BY Types DEF IInv, ActivateKey, SupersedeKey, PcInv
  <1>2. /\ saved.new \in Kids /\ saved.new < nextKid /\ saved.new # 0 /\ saved.prev \in Kids
        /\ rot.new = saved.new /\ rot.prev = saved.prev /\ saved.prev # saved.new
        /\ event[saved.new] = "accepted"
    BY <1>1, RecordedFacts, Types, Fields DEF IInv, EventInv, Recorded, Sound, KeysInv
  <1>3. /\ Source \in Provider /\ T \in Provider /\ Kids \subseteq Nat /\ 0 \notin Kids
        /\ nextKid \in Nat /\ CrossProvider \in BOOLEAN /\ (~CrossProvider => T = Source)
        /\ (\A q \in Provider : /\ q.active \in Kids \cup {0}
                                /\ q.retained \in SUBSET Kids /\ q.pending \in SUBSET Kids)
    BY Types DEF IInv, Provider
  <1>4. (Recorded(rot))' /\ (carried' = rot => (Recorded(carried))')
    BY <1>1 DEF Recorded, Sound
  <1>5. EventInv' /\ SigningMatchesPublication' /\ PublicationInv'
    BY <1>1, <1>2 DEF IInv, EventInv, Sound, SigningMatchesPublication, PublicationInv
  <1>6. SUFFICES TypeOK' /\ PcInv' /\ KeysInv'
    BY <1>5 DEF IInv
  <1>7. \A p \in {"source", "target"} :
          provider[p].active < nextKid /\ \A k \in provider[p].pending : k < nextKid
    BY DEF IInv, KeysInv
  <1>8. CASE ActivateKey
    <2>1. pc = "activate"
      BY <1>8 DEF ActivateKey
    <2>2. CASE UNCHANGED provider
      <3>1. \/ T.active = rot.new /\ pc' = "supersede" /\ carried' = carried /\ faults' = faults
            \/ pc' = "idle" /\ carried' = rot /\ faults' \in 0..MaxFaults
        <4>1. CASE provider[Target].active = rot.new /\ UNCHANGED provider /\ Continue("supersede")
          BY <1>1, <4>1, Outcomes DEF T
        <4>2. CASE Raise(rot)
          BY <1>1, <4>2, Outcomes
        <4>3. CASE /\ provider[Target].active # rot.new
                   /\ SetProvider(Target, Promoted(provider[Target], rot.new))
          <5>1. provider'[Target] = Promoted(T, rot.new)
            BY <1>1, <1>2, <1>3, <4>3, ProviderTypes, Types, Zenon DEF T
          <5>2. Promoted(T, rot.new).active = rot.new
            BY DEF Promoted, Keys
          <5> QED BY <2>2, <4>3, <5>1, <5>2
        <4> QED BY <1>8, <4>1, <4>2, <4>3 DEF ActivateKey
      <3>2. TypeOK'
        BY <1>1, <2>2, <3>1 DEF TypeOK
      <3>3. T' = T /\ Source' = Source
        BY <2>2 DEF T, Source
      <3>4. PcInv'
        BY <1>1, <1>4, <3>1, <3>3 DEF PcInv
      <3>5. KeysInv'
        BY <1>1, <2>2, <3>3 DEF IInv, KeysInv, Listed
      <3> QED BY <3>2, <3>4, <3>5
    <2>3. CASE provider' # provider
      <3>1. /\ T.active # rot.new /\ rot.new \in T.pending
            /\ CrossProvider \/ T.active = rot.prev
            /\ SetProvider(Target, Promoted(T, rot.new))
            /\ \/ pc' = "supersede" /\ carried' = carried /\ faults' = faults
               \/ pc' = "idle" /\ carried' = rot /\ faults' \in 0..MaxFaults
        BY <1>1, <1>8, <2>3, Outcomes DEF ActivateKey, T
      <3>2. /\ provider' \in [{"source", "target"} -> Provider]
            /\ T' = Promoted(T, rot.new)
            /\ \A other \in {"source", "target"} : other # Target => provider'[other] = provider[other]
        BY <1>1, <1>2, <1>3, <3>1, ProviderTypes, Types, Zenon DEF T
      <3>3. T'.active = saved.new /\ T'.pending \subseteq T.pending
        BY <1>2, <3>2 DEF Promoted, Keys
      <3>4. TypeOK'
        BY <1>1, <3>1, <3>2 DEF TypeOK
      <3>5. PcInv'
        BY <1>1, <1>2, <1>4, <3>1, <3>3 DEF PcInv
      <3>6. CrossProvider => Source' = Source /\ Source.active = saved.prev
        <4>1. CrossProvider => Source' = Source
          BY <3>2 DEF Source, Target
        <4>2. Source.active = saved.prev
          BY <1>2, <3>1 DEF IInv, KeysInv
        <4> QED BY <4>1, <4>2
      <3>7. \A p \in {"source", "target"} :
              provider'[p].active < nextKid' /\ \A k \in provider'[p].pending : k < nextKid'
        BY <1>1, <1>2, <1>7, <3>2, <3>3 DEF T
      <3>8. KeysInv'
        BY <1>1, <1>2, <3>3, <3>6, <3>7 DEF KeysInv
      <3> QED BY <3>4, <3>5, <3>8
    <2> QED BY <2>2, <2>3
  <1>9. CASE SupersedeKey
    <2>1. T.active = saved.new /\ (CrossProvider => Source.active \in {saved.prev, 0})
      BY <1>2, <1>9 DEF SupersedeKey, IInv, PcInv, KeysInv
    <2>2. CASE UNCHANGED provider
      <3>1. T' = T /\ Source' = Source
        BY <2>2, Zenon DEF T, Source
      <3>2. \/ /\ rot.prev \notin Listed(Source)
               /\ pc' = "activated" /\ carried' = carried /\ faults' = faults
            \/ pc' = "idle" /\ carried' = rot /\ faults' \in 0..MaxFaults
        <4>1. CASE rot.prev \notin Listed(Source) /\ Continue("activated")
          BY <1>1, <4>1, Outcomes
        <4>2. CASE Raise(rot)
          BY <1>1, <4>2, Outcomes
        <4>3. CASE rot.prev \in Listed(Source) /\ SetProvider("source", Superseded(Source, rot.prev))
          <5>1. Source' = Superseded(Source, rot.prev)
            BY <1>1, <1>2, <1>3, <4>3, ProviderTypes, Zenon DEF Source
          <5>2. rot.prev \notin Listed(Source')
            BY <1>2, <1>3, <5>1 DEF Superseded, Keys, Listed
          <5> QED BY <3>1, <4>3, <5>2
        <4> QED BY <1>9, <4>1, <4>2, <4>3 DEF SupersedeKey
      <3>3. TypeOK'
        BY <1>1, <2>2, <3>2 DEF TypeOK
      <3>4. (Listed(Source))' = Listed(Source)
        BY <3>1 DEF Listed
      <3>5. PcInv'
        BY <1>1, <1>2, <1>4, <2>1, <3>1, <3>2, <3>4 DEF PcInv
      <3>6. KeysInv'
        BY <1>1, <2>2, <3>1, <3>4 DEF IInv, KeysInv
      <3> QED BY <3>3, <3>5, <3>6
    <2>3. CASE provider' # provider
      <3>1. /\ SetProvider("source", Superseded(Source, rot.prev))
            /\ \/ pc' = "activated" /\ carried' = carried /\ faults' = faults
               \/ pc' = "idle" /\ carried' = rot /\ faults' \in 0..MaxFaults
        BY <1>1, <1>9, <2>3, Outcomes DEF SupersedeKey
      <3>2. /\ provider' \in [{"source", "target"} -> Provider]
            /\ Source' = Superseded(Source, rot.prev)
            /\ provider'["target"] = provider["target"]
        BY <1>1, <1>2, <1>3, <3>1, ProviderTypes, Zenon DEF Source
      <3>3. /\ saved.prev \notin (Listed(Source))'
            /\ Source'.active = IF Source.active = saved.prev THEN 0 ELSE Source.active
            /\ Source'.pending \subseteq Source.pending
        BY <1>2, <1>3, <3>2 DEF Superseded, Keys, Listed
      <3>4. T'.active = saved.new
        <4>1. CASE CrossProvider
          BY <2>1, <3>2, <4>1 DEF T, Target
        <4>2. CASE ~CrossProvider
          <5>1. T' = Source' /\ T = Source
            BY <4>2 DEF T, Target, Source
          <5> QED BY <1>2, <2>1, <3>3, <5>1
        <4> QED BY <1>3, <4>1, <4>2
      <3>5. TypeOK'
        BY <1>1, <3>1, <3>2, Zenon DEF TypeOK
      <3>6. PcInv'
        BY <1>1, <1>2, <1>4, <3>1, <3>3, <3>4 DEF PcInv
      <3>7. \A p \in {"source", "target"} :
              provider'[p].active < nextKid' /\ \A k \in provider'[p].pending : k < nextKid'
        <4>1. Source.active < nextKid /\ 0 < nextKid
          <5>1. 0 < nextKid
            BY <1>1 DEF TypeOK
          <5> QED BY <1>7, <5>1 DEF Source
        <4>2. Source'.active < nextKid
          BY <3>3, <4>1
        <4> QED BY <1>1, <1>7, <3>2, <3>3, <4>2 DEF Source
      <3>8. KeysInv'
        BY <1>1, <1>2, <2>1, <3>3, <3>4, <3>7 DEF KeysInv
      <3> QED BY <3>5, <3>6, <3>8
    <2> QED BY <2>2, <2>3
  <1> QED BY <1>8, <1>9

(* An activated rotation: the registry shows the new key.                    *)
LEMMA ActivatedFacts ==
  ASSUME RotationAssumption, IInv, Recorded(rot), rot.activated
  PROVE  /\ saved.activated /\ saved.sub = "accepted" /\ saved.new = rot.new /\ saved.new \in Kids
         /\ published = rot.new /\ T.active = rot.new /\ rot.prev \notin Listed(Source)
         /\ rot.sub = "accepted" /\ event[rot.new] = "accepted" /\ rot.prev = saved.prev
  <1>1. /\ saved.activated /\ saved.new = rot.new /\ rot.prev = saved.prev /\ saved.new # 0
        /\ saved.new \in Kids /\ rot.sub = "accepted" /\ event[rot.new] = "accepted"
    BY RecordedFacts DEF Recorded, Sound
  <1>2. saved.sub = "accepted"
    BY <1>1 DEF IInv, EventInv, Sound
  <1>3. published = rot.new /\ T.active = rot.new /\ rot.prev \notin Listed(Source)
    BY <1>1 DEF IInv, PublicationInv, KeysInv
  <1> QED BY <1>1, <1>2, <1>3

LEMMA PersistActivatedStep ==
  ASSUME RotationAssumption, IInv, PersistActivated
  PROVE  IInv'
  <1> USE DEF registry
  <1> DEFINE q == WithFlags(rot, TRUE, TRUE)
  <1>1. /\ pc = "activated" /\ UNCHANGED <<paused, signer, provider, registry, nextKid>>
        /\ TypeOK /\ Recorded(rot) /\ paused /\ ~rot.activated /\ ~saved.activated /\ rot \in Rotation
        /\ rot.sub = "accepted" /\ saved.sub = "accepted"
        /\ T.active = rot.new /\ rot.prev \notin Listed(Source)
    BY Types DEF IInv, PersistActivated, PcInv
  <1>2. /\ q \in Rotation /\ q.new = rot.new /\ q.prev = rot.prev /\ q.sub = rot.sub
        /\ q.activated /\ q.paused
    BY <1>1, ConstructedFlags, Zenon
  <1>3. \/ rot' = q /\ saved' = q /\ pc' = "signer" /\ carried' = carried /\ faults' = faults
        \/ rot' = rot /\ saved' \in {saved, q} /\ pc' = "idle" /\ carried' = rot /\ faults' \in 0..MaxFaults
    BY <1>1, Outcomes, Zenon DEF PersistActivated
  <1> HIDE DEF q
  <1>4. Sound(q) /\ q.new = saved.new /\ q.prev = saved.prev
    BY <1>1, <1>2 DEF Recorded, Sound
  <1>5. TypeOK'
    BY <1>1, <1>2, <1>3 DEF TypeOK
  <1>6. SigningMatchesPublication'
    BY <1>1 DEF IInv, SigningMatchesPublication
  <1>7. CASE saved' = q
    <2>1. KeysInv' /\ PublicationInv' /\ EventInv'
      BY <1>1, <1>2, <1>4, <1>7, SaveRecorded
    <2>2. (rot' = q => (Recorded(rot))') /\ (carried' = rot => (Recorded(carried))')
      BY <1>1, <1>2, <1>4, <1>7 DEF Recorded, Sound
    <2>3. PcInv'
      BY <1>2, <1>3, <2>2 DEF PcInv
    <2> QED BY <1>5, <1>6, <2>1, <2>3 DEF IInv
  <1>8. CASE saved' = saved /\ pc' = "idle" /\ carried' = rot
    <2>1. (Recorded(carried))'
      BY <1>1, <1>8 DEF Recorded, Sound
    <2>2. PcInv'
      BY <1>8, <2>1 DEF PcInv
    <2>3. EventInv'
      BY <1>1, <1>8 DEF IInv, EventInv, Sound
    <2> QED BY <1>1, <1>5, <1>6, <1>8, <2>2, <2>3, QuietFrame DEF IInv, Quiet
  <1> QED BY <1>3, <1>7, <1>8

LEMMA CompletionSteps ==
  ASSUME RotationAssumption, IInv, SetApplicationSigner \/ Unpause
  PROVE  IInv'
  <1> USE DEF registry
  <1>1. /\ pc \in {"signer", "unpause"} /\ UNCHANGED <<rot, saved, provider, registry, nextKid>>
        /\ TypeOK /\ Recorded(rot) /\ rot.activated /\ rot \in Rotation /\ Quiet
    BY Types, Zenon DEF IInv, SetApplicationSigner, Unpause, PcInv, Quiet
  <1>2. saved.activated /\ published = rot.new /\ rot.new \in Kids
    BY <1>1, ActivatedFacts
  <1>3. (Recorded(rot))' /\ (carried' = rot => (Recorded(carried))')
    BY <1>1 DEF Recorded, Sound
  <1>4. EventInv'
    BY <1>1, <1>2 DEF IInv, EventInv, Sound
  <1>5. CASE SetApplicationSigner
    <2>1. /\ UNCHANGED paused /\ signer' \in {signer, rot.new}
          /\ \/ pc' = "unpause" /\ rot.paused /\ signer' = rot.new /\ carried' = carried /\ faults' = faults
             \/ pc' = "idle" /\ carried' = rot /\ faults' \in 0..MaxFaults
      BY <1>1, <1>5, Outcomes DEF SetApplicationSigner, TypeOK
    <2>2. TypeOK'
      BY <1>1, <1>2, <2>1 DEF TypeOK
    <2>3. PcInv'
      BY <1>1, <1>3, <2>1 DEF PcInv
    <2>4. SigningMatchesPublication'
      BY <1>1, <1>2, <2>1 DEF IInv, SigningMatchesPublication
    <2> QED BY <1>1, <1>4, <2>2, <2>3, <2>4, QuietFrame DEF IInv
  <1>6. CASE Unpause
    <2>1. /\ UNCHANGED signer /\ paused' \in BOOLEAN /\ signer = rot.new /\ rot.paused
          /\ \/ pc' = "complete" /\ carried' = carried /\ faults' = faults
             \/ pc' = "idle" /\ carried' = rot /\ faults' \in 0..MaxFaults
      BY <1>1, <1>6, Outcomes, Types, Zenon DEF Unpause, IInv, PcInv
    <2>2. TypeOK'
      BY <1>1, <2>1 DEF TypeOK
    <2>3. PcInv'
      BY <1>1, <1>3, <2>1 DEF PcInv
    <2>4. SigningMatchesPublication'
      BY <1>1, <1>2, <2>1 DEF SigningMatchesPublication
    <2> QED BY <1>1, <1>4, <2>2, <2>3, <2>4, QuietFrame DEF IInv
  <1> QED BY <1>5, <1>6

LEMMA PersistCompletedStep ==
  ASSUME RotationAssumption, IInv, PersistCompleted
  PROVE  IInv'
  <1> USE DEF registry
  <1> DEFINE q == WithFlags(rot, TRUE, FALSE)
  <1>1. /\ pc = "complete" /\ UNCHANGED <<rot, paused, signer, provider, registry, nextKid>>
        /\ TypeOK /\ Recorded(rot) /\ rot.activated /\ rot.paused /\ rot \in Rotation
    BY Types DEF IInv, PersistCompleted, PcInv
  <1>2. /\ q \in Rotation /\ q.new = rot.new /\ q.prev = rot.prev /\ q.sub = rot.sub
        /\ q.activated /\ ~q.paused
    BY <1>1, ConstructedFlags, Zenon
  <1>3. \/ saved' = q /\ pc' = "idle" /\ carried' = q /\ faults' = faults
        \/ saved' \in {saved, q} /\ pc' = "idle" /\ carried' = rot /\ faults' \in 0..MaxFaults
    BY <1>1, Outcomes, Zenon DEF PersistCompleted
  <1> HIDE DEF q
  <1>4. /\ Sound(q) /\ q.new = saved.new /\ q.prev = saved.prev /\ q.sub = "accepted" /\ q.new # 0
        /\ T.active = q.new /\ q.prev \notin Listed(Source)
    BY <1>1, <1>2, ActivatedFacts DEF Recorded, Sound
  <1>5. TypeOK'
    BY <1>1, <1>2, <1>3 DEF TypeOK
  <1>6. SigningMatchesPublication'
    BY <1>1 DEF IInv, SigningMatchesPublication
  <1>7. CASE saved' = q
    <2>1. KeysInv' /\ PublicationInv' /\ EventInv'
      BY <1>1, <1>2, <1>4, <1>7, SaveRecorded
    <2>2. (carried' = q => (Recorded(carried))') /\ (carried' = rot => (Recorded(carried))')
      BY <1>1, <1>2, <1>4, <1>7, Zenon DEF Recorded, Sound
    <2>3. PcInv'
      BY <1>3, <2>2 DEF PcInv
    <2> QED BY <1>5, <1>6, <2>1, <2>3 DEF IInv
  <1>8. CASE saved' = saved /\ pc' = "idle" /\ carried' = rot
    <2>1. (Recorded(carried))'
      BY <1>1, <1>8 DEF Recorded, Sound
    <2>2. PcInv'
      BY <1>8, <2>1 DEF PcInv
    <2>3. EventInv'
      BY <1>1, <1>8 DEF IInv, EventInv, Sound
    <2> QED BY <1>1, <1>5, <1>6, <1>8, <2>2, <2>3, QuietFrame DEF IInv, Quiet
  <1> QED BY <1>3, <1>7, <1>8
-----------------------------------------------------------------------------
(* The state the host goes on from, between two operations.                  *)
LEMMA CurrentFacts ==
  ASSUME RotationAssumption, IInv, pc = "idle", Current # NoRotation
  PROVE  Current \in Rotation /\ (Unsaved(Current) \/ Recorded(Current))
  <1>1. CASE carried = NoRotation \/ carried.sub = "mismatched"
    <2>1. saved \in Rotation /\ saved.new # 0 /\ Current = saved
      BY <1>1, Types, Fields DEF IInv, Current
    <2>2. Recorded(saved)
      BY <2>1 DEF IInv, EventInv, Recorded
    <2> QED BY <2>1, <2>2
  <1>2. CASE carried # NoRotation /\ carried.sub # "mismatched"
    <2>1. carried \in Rotation /\ carried.new # 0 /\ Current = carried
      BY <1>2, Types, Fields DEF IInv, Current
    <2> QED BY <1>2, <2>1 DEF IInv, PcInv
  <1> QED BY <1>1, <1>2

LEMMA RotateStep ==
  ASSUME RotationAssumption, IInv, Rotate
  PROVE  IInv'
  <1> USE DEF registry
  <1>1. /\ pc = "idle" /\ TypeOK /\ Source.active # 0 /\ nextKid <= MaxKeys /\ nextKid' = nextKid + 1
        /\ provider' = [provider EXCEPT ![Target] =
                          Keys(provider[Target].active, provider[Target].retained,
                               provider[Target].pending \cup {nextKid})]
        /\ rot' = Rot(Source.active, nextKid, "none", FALSE, TRUE)
        /\ carried' = NoRotation /\ NoRotation.new = 0
        /\ pc' \in {"prepare", "idle"} /\ faults' \in 0..MaxFaults
        /\ UNCHANGED <<saved, paused, signer, registry>>
    <2>1. TypeOK
      BY DEF IInv
    <2> QED BY <2>1, Counters DEF Rotate
  <1>2. Closed
    <2>1. CASE Current = NoRotation
      <3>1. saved = NoRotation
        BY <2>1 DEF Current
      <3> QED BY <1>1, <3>1 DEF Closed
    <2>2. CASE Current # NoRotation /\ (Terminal(Current) \/ Current.sub = "rejected")
      <3>1. Current \in Rotation /\ (Unsaved(Current) \/ Recorded(Current))
        BY <1>1, <2>2, CurrentFacts
      <3>2. Recorded(Current)
        BY <2>2, <3>1 DEF Unsaved, Terminal
      <3>3. CASE Terminal(Current)
        <4>1. saved = Current
          BY <3>2, <3>3 DEF Recorded, Terminal
        <4> QED BY <3>3, <4>1 DEF Closed
      <3>4. CASE Current.sub = "rejected"
        BY <3>2, <3>4 DEF Recorded, Sound, Closed
      <3> QED BY <2>2, <3>3, <3>4
    <2> QED BY <2>1, <2>2 DEF Rotate
  <1>3. /\ nextKid \in Kids /\ Source.active \in Kids /\ Kids \subseteq Nat /\ nextKid # 0
        /\ Target \in {"source", "target"} /\ T \in Provider /\ (~CrossProvider => T = Source)
        /\ CrossProvider \in BOOLEAN
    <2>1. nextKid \in Kids
      BY <1>1, Counters, Zenon
    <2> QED BY <1>1, <2>1, Types
  <1>4. /\ rot' \in Rotation /\ rot'.prev = Source.active /\ rot'.new = nextKid /\ rot'.sub = "none"
        /\ ~rot'.activated /\ rot'.paused
    BY <1>1, <1>3 DEF Rot, Rotation, Submissions
  <1>5. /\ SetProvider(Target, Keys(T.active, T.retained, T.pending \cup {nextKid}))
        /\ Keys(T.active, T.retained, T.pending \cup {nextKid}) \in Provider
    BY <1>1, <1>3, ProviderTypes, Zenon DEF SetProvider, T
  <1>6. /\ provider' \in [{"source", "target"} -> Provider]
        /\ T' = Keys(T.active, T.retained, T.pending \cup {nextKid})
        /\ \A other \in {"source", "target"} : other # Target => provider'[other] = provider[other]
    BY <1>1, <1>3, <1>5, ProviderTypes, Zenon DEF T
  <1>7. /\ T'.active = T.active /\ T'.retained = T.retained /\ T'.pending = T.pending \cup {nextKid}
    BY <1>6 DEF Keys
  <1>8. Source'.active = Source.active /\ Source'.retained = Source.retained
    <2>1. CASE CrossProvider
      BY <1>6, <2>1 DEF Target, Source
    <2>2. CASE ~CrossProvider
      <3>1. Source' = T' /\ T = Source
        BY <2>2 DEF Source, T, Target
      <3> QED BY <1>7, <3>1
    <2> QED BY <1>3, <2>1, <2>2
  <1>9. /\ \A p \in {"source", "target"} : /\ provider[p].active < nextKid
                                           /\ \A k \in provider[p].pending : k < nextKid
        /\ Source.active < nextKid /\ T.active < nextKid
        /\ saved.new # 0 => saved.new < nextKid
    <2>1. \A p \in {"source", "target"} : /\ provider[p].active < nextKid
                                          /\ \A k \in provider[p].pending : k < nextKid
      BY DEF IInv, KeysInv
    <2>2. Source.active < nextKid /\ T.active < nextKid /\ \A k \in T.pending : k < nextKid
      BY <1>3, <2>1 DEF Source, T
    <2> QED BY <2>1, <2>2 DEF IInv, KeysInv
  <1>10. TypeOK'
    <2>1. nextKid' \in 2..(MaxKeys + 1)
      BY <1>1, Counters
    <2>2. pc' \in {"idle", "prepare", "persist", "pause", "submit", "reply", "bind", "verify",
                   "activate", "supersede", "activated", "signer", "unpause", "complete",
                   "repause", "repersist"}
      BY <1>1
    <2> QED BY <1>1, <1>4, <1>6, <2>1, <2>2, Zenon DEF TypeOK
  <1>11. (Unsaved(rot))'
    <2>1. nextKid \notin {0, saved.new} /\ nextKid < nextKid' /\ nextKid # Source.active /\ T.active # nextKid
      <3>1. nextKid \in Nat /\ nextKid # 0 /\ nextKid' = nextKid + 1
        BY <1>1, <1>3
      <3>2. /\ Source.active < nextKid /\ T.active < nextKid
            /\ saved.new # 0 => saved.new < nextKid
        BY <1>9
      <3> QED BY <3>1, <3>2
    <2>2. event[nextKid] = "none"
      BY <1>3 DEF IInv, EventInv
    <2>3. Closed'
      BY <1>1, <1>2 DEF Closed
    <2> QED BY <1>1, <1>3, <1>4, <1>7, <1>8, <2>1, <2>2, <2>3, Zenon DEF Unsaved
  <1>12. PcInv'
    BY <1>1, <1>11, Zenon DEF PcInv
  <1>13. EventInv'
    <2>1. \A k \in Kids : k < nextKid => k < nextKid'
      BY <1>1, <1>3
    <2> QED BY <1>1, <2>1 DEF IInv, EventInv, Sound
  <1>14. PublicationInv' /\ SigningMatchesPublication'
    BY <1>1, <1>8 DEF IInv, PublicationInv, SigningMatchesPublication
  <1>15. KeysInv'
    <2>1. (Listed(Source))' = Listed(Source)
      BY <1>8 DEF Listed
    <2>2. ASSUME NEW p \in {"source", "target"}
          PROVE  provider'[p].active < nextKid' /\ \A k \in provider'[p].pending : k < nextKid'
      <3>1. /\ provider[p] \in Provider /\ provider[p].active \in Nat /\ provider[p].pending \subseteq Nat
            /\ provider'[p].active = provider[p].active
            /\ provider'[p].pending \subseteq provider[p].pending \cup {nextKid}
        <4>1. provider[p] \in Provider
          BY <1>1 DEF TypeOK
        <4>2. provider[p].active \in Nat /\ provider[p].pending \subseteq Nat
          <5>1. provider[p].active \in Kids \cup {0} /\ provider[p].pending \in SUBSET Kids
            BY <4>1 DEF Provider
          <5>2. \A k \in Kids \cup {0} : k \in Nat
            BY DEF Kids, RotationAssumption
          <5> QED BY <5>1, <5>2
        <4>3. CASE p = Target
          BY <1>7, <4>1, <4>2, <4>3 DEF T
        <4>4. CASE p # Target
          BY <1>6, <4>1, <4>2, <4>4
        <4> QED BY <4>3, <4>4
      <3>2. nextKid \in Nat
        BY <1>3
      <3>3. provider'[p].active < nextKid'
        <4>1. provider[p].active < nextKid /\ nextKid' = nextKid + 1
          BY <1>1, <1>9
        <4> QED BY <3>1, <3>2, <4>1
      <3>4. ASSUME NEW k \in provider'[p].pending PROVE k < nextKid'
        <4>1. k \in Nat /\ (k < nextKid \/ k = nextKid)
          BY <1>9, <3>1, <3>2
        <4> QED BY <1>1, <3>2, <4>1
      <3> QED BY <3>3, <3>4
    <2>3. saved.new \in T.pending => saved.new \in T'.pending
      BY <1>7
    <2> QED BY <1>1, <1>7, <1>8, <2>1, <2>2, <2>3, Zenon DEF IInv, KeysInv
  <1> QED BY <1>10, <1>12, <1>13, <1>14, <1>15 DEF IInv

LEMMA ResumeStep ==
  ASSUME RotationAssumption, IInv, Resume
  PROVE  IInv'
  <1> USE DEF registry, host
  <1> DEFINE r == Current
  <1>1. /\ pc = "idle" /\ r # NoRotation /\ TypeOK
        /\ \/ r.activated /\ r.sub = "accepted" /\ pc' = "signer" /\ rot' = r
           \/ ~r.activated /\ r.sub # "rejected" /\ pc' = "repause" /\ rot' = WithFlags(r, FALSE, TRUE)
        /\ UNCHANGED <<carried, saved, paused, signer, provider, registry, nextKid, faults>>
    BY Zenon DEF IInv, Resume, ResumeWith
  <1>2. r \in Rotation /\ (Unsaved(r) \/ Recorded(r))
    BY <1>1, CurrentFacts, Zenon
  <1> HIDE DEF r
  <1>3. EventInv' /\ SigningMatchesPublication' /\ KeysInv' /\ PublicationInv'
    BY <1>1, QuietFrame DEF IInv, EventInv, Sound, SigningMatchesPublication, Quiet
  <1>4. CASE r.activated /\ pc' = "signer" /\ rot' = r
    <2>1. Recorded(r)
      BY <1>2, <1>4 DEF Unsaved
    <2>2. (Recorded(rot))'
      BY <1>1, <1>4, <2>1 DEF Recorded, Sound
    <2>3. TypeOK'
      BY <1>1, <1>2, <1>4 DEF TypeOK
    <2>4. PcInv'
      BY <1>4, <2>2 DEF PcInv
    <2> QED BY <1>3, <2>3, <2>4 DEF IInv
  <1>5. CASE ~r.activated /\ r.sub # "rejected" /\ pc' = "repause" /\ rot' = WithFlags(r, FALSE, TRUE)
    <2>1. /\ rot' \in Rotation /\ rot'.new = r.new /\ rot'.prev = r.prev /\ rot'.sub = r.sub
          /\ ~rot'.activated /\ rot'.paused
      BY <1>2, <1>5, ConstructedFlags, Zenon
    <2>2. Unsaved(r) => (Unsaved(rot))'
      BY <1>1, <2>1, Zenon DEF Unsaved, Closed, T, Source
    <2>3. Recorded(r) => (Recorded(rot))'
      BY <1>1, <1>5, <2>1, Zenon DEF Recorded, Sound
    <2>4. TypeOK'
      BY <1>1, <1>5, <2>1, Zenon DEF TypeOK
    <2>5. PcInv'
      BY <1>2, <1>5, <2>1, <2>2, <2>3, Zenon DEF PcInv
    <2> QED BY <1>3, <2>4, <2>5 DEF IInv
  <1> QED BY <1>1, <1>4, <1>5, Zenon

LEMMA RepauseStep ==
  ASSUME RotationAssumption, IInv, Repause
  PROVE  IInv'
  <1> USE DEF registry
  <1>1. /\ pc = "repause" /\ UNCHANGED <<rot, saved, signer, provider, registry, nextKid>> /\ Quiet
        /\ TypeOK /\ rot \in Rotation /\ (Unsaved(rot) \/ Recorded(rot))
        /\ ~rot.activated /\ rot.sub # "rejected" /\ paused' \in BOOLEAN /\ (paused => paused')
    BY Types, Zenon DEF IInv, Repause, PcInv, Quiet
  <1>2. \/ paused' /\ pc' = "repersist" /\ carried' = carried /\ faults' = faults
        \/ pc' = "idle" /\ carried' = rot /\ faults' \in 0..MaxFaults
    BY <1>1, Outcomes, Zenon DEF Repause
  <1>3. TypeOK'
    BY <1>1, <1>2, Zenon DEF TypeOK
  <1>4. Unsaved(rot) => (Unsaved(rot))' /\ (carried' = rot => (Unsaved(carried))')
    BY <1>1 DEF Unsaved, Closed, T, Source
  <1>5. Recorded(rot) => (Recorded(rot))' /\ (carried' = rot => (Recorded(carried))')
    BY <1>1 DEF Recorded, Sound
  <1>6. PcInv'
    BY <1>1, <1>2, <1>4, <1>5 DEF PcInv
  <1>7. EventInv' /\ SigningMatchesPublication'
    BY <1>1 DEF IInv, EventInv, Sound, SigningMatchesPublication
  <1> QED BY <1>1, <1>3, <1>6, <1>7, QuietFrame DEF IInv

LEMMA RepersistStep ==
  ASSUME RotationAssumption, IInv, Repersist
  PROVE  IInv'
  <1> USE DEF registry
  <1>1. /\ pc = "repersist" /\ UNCHANGED <<rot, paused, signer, provider, registry, nextKid>>
        /\ TypeOK /\ rot \in Rotation /\ (Unsaved(rot) \/ Recorded(rot))
        /\ ~rot.activated /\ rot.sub # "rejected" /\ paused
    BY Types DEF IInv, Repersist, PcInv
  <1>2. \/ /\ saved' = rot /\ carried' = carried /\ faults' = faults
           /\ pc' = IF rot.sub = "accepted" THEN "verify" ELSE "submit"
        \/ saved' \in {saved, rot} /\ pc' = "idle" /\ carried' = rot /\ faults' \in 0..MaxFaults
    BY <1>1, Outcomes DEF Repersist
  <1>3. TypeOK'
    BY <1>1, <1>2 DEF TypeOK
  <1>4. SigningMatchesPublication'
    BY <1>1 DEF IInv, SigningMatchesPublication
  <1>5. CASE saved' = rot
    <2>1. KeysInv' /\ PublicationInv' /\ EventInv' /\ (Recorded(rot))'
      <3>1. CASE Unsaved(rot)
        <4>1. KeysInv' /\ PublicationInv' /\ EventInv'
          BY <1>1, <1>5, <3>1, SaveUnsaved, Zenon
        <4>2. (Recorded(rot))'
          BY <1>1, <1>5, <3>1 DEF Unsaved, Recorded, Sound
        <4> QED BY <4>1, <4>2
      <3>2. CASE Recorded(rot)
        <4>1. KeysInv' /\ PublicationInv' /\ EventInv'
          BY <1>1, <1>5, <3>2, SaveRecorded DEF Recorded
        <4>2. (Recorded(rot))'
          BY <1>1, <1>5, <3>2 DEF Recorded, Sound
        <4> QED BY <4>1, <4>2
      <3> QED BY <1>1, <3>1, <3>2
    <2>2. carried' = rot => (Recorded(carried))'
      BY <1>1, <2>1 DEF Recorded, Sound
    <2>3. PcInv'
      BY <1>1, <1>2, <1>5, <2>1, <2>2 DEF PcInv
    <2> QED BY <1>3, <1>4, <2>1, <2>3 DEF IInv
  <1>6. CASE saved' = saved /\ pc' = "idle" /\ carried' = rot
    <2>1. Unsaved(rot) => (Unsaved(carried))'
      BY <1>1, <1>6 DEF Unsaved, Closed, T, Source
    <2>2. Recorded(rot) => (Recorded(carried))'
      BY <1>1, <1>6 DEF Recorded, Sound
    <2>3. PcInv'
      BY <1>1, <1>6, <2>1, <2>2 DEF PcInv
    <2>4. EventInv'
      BY <1>1, <1>6 DEF IInv, EventInv, Sound
    <2> QED BY <1>1, <1>3, <1>4, <1>6, <2>3, <2>4, QuietFrame, ZenonT(30) DEF IInv, Quiet
  <1> QED BY <1>2, <1>5, <1>6
-----------------------------------------------------------------------------
(* The registry moves only the event of the record, while signing is paused. *)
LEMMA RegistryStepInv ==
  ASSUME RotationAssumption, IInv, NEW k \in Kids, RegistryStep(k)
  PROVE  IInv'
  <1> USE DEF host
  <1>1. /\ event[k] \in {"sent", "pending", "published"}
        /\ UNCHANGED <<pc, rot, carried, saved, paused, signer, provider, nextKid, faults>>
        /\ TypeOK /\ 0 \notin Kids
    BY Types DEF IInv, RegistryStep
  <1>2. \E e \in {"pending", "published", "accepted", "rejected"} :
          /\ event' = [event EXCEPT ![k] = e]
          /\ (event[k] = "published") => (e = "accepted")
          /\ published' = IF e = "published" THEN k ELSE published
          /\ (e = "accepted") => (event[k] = "published")
    BY DEF RegistryStep
  <1>3. PICK e \in {"pending", "published", "accepted", "rejected"} :
          /\ event' = [event EXCEPT ![k] = e]
          /\ (event[k] = "published") => (e = "accepted")
          /\ published' = IF e = "published" THEN k ELSE published
          /\ (e = "accepted") => (event[k] = "published")
    BY <1>2, Zenon
  <1>4. event' \in [Kids -> {"none", "sent", "pending", "published", "accepted", "rejected"}]
    BY <1>1, <1>3 DEF TypeOK
  <1>5. \A j \in Kids : event'[j] = IF j = k THEN e ELSE event[j]
    BY <1>1, <1>3 DEF TypeOK
  <1>6. k = saved.new /\ k # 0 /\ ~saved.activated /\ paused /\ Sound(saved) /\ k < nextKid
    BY <1>1, Types DEF IInv, EventInv, Sound
  <1>7. ~Closed
    BY <1>1, <1>6 DEF Closed, Terminal
  <1>8. \A r : ~Unsaved(r)
    BY <1>7 DEF Unsaved
  <1>9. \A r : Recorded(r) => r.new = k /\ r.sub \notin {"accepted", "rejected"} /\ ~r.activated /\ r.paused
    BY <1>1, <1>6, Zenon DEF Recorded, Sound
  <1>10. (Recorded(rot) => (Recorded(rot))') /\ (Recorded(carried) => (Recorded(carried))')
    BY <1>1, <1>6, <1>9 DEF Recorded, Sound
  <1>11. TypeOK'
    BY <1>1, <1>3, <1>4 DEF TypeOK
  <1>12. PcInv'
    <2>1. pc \notin {"prepare", "persist", "verify", "activate", "supersede", "activated", "signer",
                     "unpause", "complete", "pause"}
      BY <1>1, <1>8, <1>9, Zenon DEF IInv, PcInv
    <2>2. CASE pc = "idle"
      BY <1>1, <1>8, <1>10, <2>2, Zenon DEF IInv, PcInv
    <2>3. CASE pc # "idle"
      <3>1. Recorded(rot)
        BY <1>8, <2>1, <2>3 DEF IInv, PcInv
      <3> QED BY <1>1, <1>10, <2>1, <2>3, <3>1 DEF IInv, PcInv
    <2> QED BY <2>2, <2>3
  <1>13. EventInv'
    <2>1. (Sound(saved))'
      BY <1>1, <1>6, <1>9 DEF Sound
    <2> QED BY <1>1, <1>5, <1>6, <2>1 DEF IInv, EventInv
  <1>14. PublicationInv'
    <2>1. Source' = Source
      BY <1>1 DEF Source
    <2>2. event'[saved.new] = e
      BY <1>5, <1>6
    <2>3. published = IF event[k] = "published" THEN k ELSE Source.active
      BY <1>1, <1>6, Zenon DEF IInv, PublicationInv
    <2> QED BY <1>1, <1>3, <1>6, <2>1, <2>2, <2>3 DEF PublicationInv
  <1>15. KeysInv' /\ SigningMatchesPublication'
    BY <1>1, <1>6 DEF IInv, KeysInv, Source, T, Listed, SigningMatchesPublication
  <1> QED BY <1>11, <1>12, <1>13, <1>14, <1>15 DEF IInv

LEMMA CrashStep ==
  ASSUME RotationAssumption, IInv, Crash
  PROVE  IInv'
  <1> USE DEF registry
  <1>1. /\ pc' = "idle" /\ rot' = NoRotation /\ carried' = NoRotation /\ NoRotation.new = 0
        /\ paused' = saved.paused /\ UNCHANGED <<saved, provider, registry, nextKid>> /\ Quiet
        /\ signer' = IF saved = NoRotation THEN Source.active ELSE 0
        /\ TypeOK /\ faults' \in 0..MaxFaults
    <2>1. TypeOK
      BY DEF IInv
    <2> QED BY <2>1, Counters DEF Crash, Quiet
  <1>2. /\ saved.paused \in BOOLEAN /\ Source.active \in Kids \cup {0}
        /\ (saved = NoRotation) <=> (saved.new = 0)
    BY Types, Fields DEF IInv
  <1>3. TypeOK'
    BY <1>1, <1>2 DEF TypeOK
  <1>4. PcInv'
    BY <1>1 DEF PcInv
  <1>5. EventInv'
    BY <1>1 DEF IInv, EventInv, Sound
  <1>6. SigningMatchesPublication'
    BY <1>1, <1>2 DEF IInv, PublicationInv, SigningMatchesPublication
  <1> QED BY <1>1, <1>3, <1>4, <1>5, <1>6, QuietFrame DEF IInv

LEMMA NextIInv == ASSUME RotationAssumption, IInv, [Next]_vars PROVE IInv'
  <1>1. CASE UNCHANGED vars
    <2>1. UNCHANGED <<pc, rot, carried, saved, paused, signer, provider, event, published, nextKid, faults>>
      BY <1>1 DEF vars, host, registry
    <2>2. TypeOK'
      BY <2>1, Zenon DEF IInv, TypeOK
    <2>3. PcInv'
      <3>1. T' = T /\ Source' = Source /\ (Listed(Source))' = Listed(Source)
        BY <2>1, Zenon DEF T, Source, Listed
      <3>2. (Unsaved(rot))' = Unsaved(rot) /\ (Unsaved(carried))' = Unsaved(carried)
        BY <2>1, <3>1 DEF Unsaved, Closed
      <3>3. (Recorded(rot))' = Recorded(rot) /\ (Recorded(carried))' = Recorded(carried)
        BY <2>1 DEF Recorded, Sound
      <3> QED BY <2>1, <3>1, <3>2, <3>3 DEF IInv, PcInv
    <2>4. EventInv' /\ SigningMatchesPublication'
      BY <2>1 DEF IInv, EventInv, Sound, SigningMatchesPublication
    <2> QED BY <2>1, <2>2, <2>3, <2>4, QuietFrame DEF IInv, Quiet, registry
  <1>2. CASE RunRotation
    BY <1>2, PrepareSteps, SubmitStep, ReplySteps, BindStep, KeySteps, PersistActivatedStep,
       CompletionSteps, PersistCompletedStep, RepauseStep, RepersistStep DEF RunRotation
  <1>3. CASE Rotate \/ Resume \/ Crash
    BY <1>3, RotateStep, ResumeStep, CrashStep
  <1>4. CASE \E k \in Kids : RegistryStep(k)
    BY <1>4, RegistryStepInv
  <1> QED BY <1>1, <1>2, <1>3, <1>4 DEF Next
-----------------------------------------------------------------------------
LEMMA Recoverable == ASSUME RotationAssumption, IInv PROVE PublishedKeyIsRecoverable
  <1>1. CASE saved.new # 0 /\ event[saved.new] \in {"published", "accepted"}
    <2>1. published = saved.new /\ (T.active = saved.new \/ saved.new \in T.pending)
      BY <1>1 DEF IInv, PublicationInv, KeysInv
    <2> QED BY <2>1, Types DEF PublishedKeyIsRecoverable, T, IInv
  <1>2. CASE ~(saved.new # 0 /\ event[saved.new] \in {"published", "accepted"})
    BY <1>2, Zenon DEF IInv, PublicationInv, PublishedKeyIsRecoverable, Source
  <1> QED BY <1>1, <1>2

LEMMA Resumable == ASSUME RotationAssumption, IInv PROVE RecordIsResumable
  <1> SUFFICES ASSUME saved # NoRotation
               PROVE  ValidateSavedRotation(saved)
    BY Zenon DEF RecordIsResumable
  <1>1. /\ saved.new # 0 /\ saved.prev \in Kids /\ saved.prev # 0 /\ saved.prev # saved.new
        /\ CrossProvider \in BOOLEAN /\ (~CrossProvider => T = Source) /\ saved.sub # "mismatched"
    BY Types, Fields DEF IInv, KeysInv, EventInv, Sound
  <1>2. CASE /\ Source.active = saved.prev /\ saved.new \in T.pending
    BY <1>1, <1>2 DEF ValidateSavedRotation, T, Listed
  <1>3. CASE /\ T.active = saved.new /\ saved.sub = "accepted"
             /\ CrossProvider => Source.active \in {saved.prev, 0}
    BY <1>1, <1>3 DEF ValidateSavedRotation, T, Listed, SourceRetired
  <1> QED BY <1>1, <1>2, <1>3 DEF IInv, KeysInv

(* What ActivationIsAuthorized says of one step.                             *)
Authorized ==
  \A p \in {"source", "target"} : provider'[p].active \notin {provider[p].active, 0} =>
    /\ paused
    /\ saved.new = provider'[p].active /\ saved.sub = "accepted"
    /\ event[saved.new] = "accepted"

LEMMA StepIsAuthorized == ASSUME RotationAssumption, IInv, [Next]_vars PROVE Authorized
  <1>1. CASE UNCHANGED provider
    BY <1>1 DEF Authorized
  <1>2. CASE ActivateKey /\ provider' # provider
    <2>1. /\ TypeOK /\ Recorded(rot) /\ paused /\ rot \in Rotation
          /\ rot.sub = "accepted" /\ saved.sub = "accepted"
          /\ SetProvider(Target, Promoted(T, rot.new))
      BY <1>2, Types, Zenon DEF IInv, PcInv, ActivateKey, T
    <2>2. rot.new = saved.new /\ saved.new \in Kids /\ event[saved.new] = "accepted"
      BY <2>1, RecordedFacts DEF Recorded, Sound
    <2>3. /\ provider'[Target] = Promoted(T, rot.new)
          /\ \A other \in {"source", "target"} : other # Target => provider'[other] = provider[other]
      BY <2>1, <2>2, Types, ProviderTypes, Zenon
    <2>4. Promoted(T, rot.new).active = rot.new
      BY DEF Promoted, Keys
    <2> QED BY <2>1, <2>2, <2>3, <2>4, Zenon DEF Authorized
  <1>3. CASE SupersedeKey /\ provider' # provider
    <2>1. /\ TypeOK /\ Recorded(rot) /\ rot \in Rotation
          /\ SetProvider("source", Superseded(Source, rot.prev))
      BY <1>3, Types DEF IInv, PcInv, SupersedeKey
    <2>2. Source \in Provider /\ rot.prev \in Kids
      BY <2>1, Types DEF Rotation
    <2>3. /\ provider'["source"] = Superseded(Source, rot.prev)
          /\ provider'["target"] = provider["target"]
      BY <2>1, <2>2, ProviderTypes, Zenon
    <2>4. Superseded(Source, rot.prev).active \in {Source.active, 0}
      BY Zenon DEF Superseded, Keys
    <2> QED BY <2>3, <2>4, Zenon DEF Authorized, Source
  <1>4. CASE Rotate
    <2>1. /\ TypeOK /\ nextKid \in Kids
          /\ SetProvider(Target, Keys(T.active, T.retained, T.pending \cup {nextKid}))
      <3>1. TypeOK
        BY DEF IInv
      <3> QED BY <1>4, <3>1, Counters DEF Rotate, SetProvider, T
    <2>2. /\ provider'[Target] = Keys(T.active, T.retained, T.pending \cup {nextKid})
          /\ \A other \in {"source", "target"} : other # Target => provider'[other] = provider[other]
      BY <2>1, Types, ProviderTypes, Zenon
    <2>3. Keys(T.active, T.retained, T.pending \cup {nextKid}).active = T.active
      BY DEF Keys
    <2> QED BY <2>2, <2>3, ZenonT(30) DEF Authorized, T
  <1> QED
    BY <1>1, <1>2, <1>3, <1>4, Zenon
    DEF Next, RunRotation, Prepare, PersistRotation, Pause, Submit, SubmissionResult, BindSubmission,
        VerifyAcceptedPublication, PersistActivated, SetApplicationSigner, Unpause, PersistCompleted,
        Repause, Repersist, Resume, ResumeWith, RegistryStep, Crash, vars
-----------------------------------------------------------------------------
(* The inductive invariant holds in every reachable state.                   *)
THEOREM Invariance == Spec => []IInv
  BY InitIInv, NextIInv, RotationAssumption, PTL DEF Spec

(* Type correctness of the rotation, its host, the providers and registry.   *)
THEOREM TypeCorrect == Spec => []TypeOK
  <1>1. IInv => TypeOK
    BY DEF IInv
  <1> QED BY <1>1, Invariance, PTL

(* The application never signs with a key that is not the published one,     *)
(* whichever await of the rotation fails and whenever the process restarts.  *)
THEOREM SigningIsPublished == Spec => []SigningMatchesPublication
  <1>1. IInv => SigningMatchesPublication
    BY DEF IInv
  <1> QED BY <1>1, Invariance, PTL

(* The published key is always held by a provider, active or named by the    *)
(* record that recovery starts from.                                         *)
THEOREM PublishedKeyIsHeld == Spec => []PublishedKeyIsRecoverable
  BY Invariance, Recoverable, RotationAssumption, PTL

(* validateSavedRotation accepts the record in every reachable state.        *)
THEOREM RecoveryAcceptsRecord == Spec => []RecordIsResumable
  BY Invariance, Resumable, RotationAssumption, PTL

(* A key becomes active only with signing paused and the acceptance of its   *)
(* event in the record.                                                      *)
THEOREM OnlyAuthorizedActivation == Spec => ActivationIsAuthorized
  <1>1. IInv /\ [Next]_vars => [Authorized]_vars
    BY StepIsAuthorized, RotationAssumption
  <1> QED BY <1>1, Invariance, PTL DEF Spec, ActivationIsAuthorized, Authorized

(* A rotation is safe in every reachable state.                              *)
THEOREM RotationStaysSafe == Spec => []RotationIsSafe
  BY SigningIsPublished, PublishedKeyIsHeld, RecoveryAcceptsRecord, PTL DEF RotationIsSafe
=============================================================================
