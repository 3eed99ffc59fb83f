------------------------- MODULE AcquisitionProofs --------------------------
(***************************************************************************)
(* The acquisition of an identity beside the rotation of its keys, for any *)
(* keys and rotations, and the Web Bot Auth verifier, which works with     *)
(* acquired identities, for any domains, lifetimes and limits.             *)
(*                                                                         *)
(* The acquisition: the log and the sets of served keys only grow, a       *)
(* rotation activates what it has logged, and each branch of the fan-out   *)
(* is at a point that the evidence gathered so far allows.                 *)
(*                                                                         *)
(* The verifier: what each verification holds was sent and is bound to one *)
(* nonce, cached identities were published, and the refreshes of a window  *)
(* are counted by its cooldowns.                                           *)
(***************************************************************************)
EXTENDS IdentityAcquisition, WebBotAuth, FiniteSetTheorems, TLAPS

-----------------------------------------------------------------------------
(* The acquisition of an identity.                                           *)

KeyOrNone == OperationalKeys \cup {None}
EventType ==
  [type : {"ISSUANCE", "KEY_ROTATION", "REVOCATION"}, previous : KeyOrNone, new : KeyOrNone]
RotationType ==
  [at : {"idle", "publish", "write", "activate", "supersede", "done", "failed", "torn"},
   previous : KeyOrNone, new : KeyOrNone, alone : BOOLEAN]

(* A rotation activates a key only after it has logged it.                   *)
Logged(k) == \E i \in DOMAIN agentLog : agentLog[i].new = k
PublisherInv ==
  /\ active \in KeyOrNone /\ inactive \in BOOLEAN /\ gone \in BOOLEAN
  /\ served \in Seq(SUBSET KeyOrNone) /\ served # <<>>
  /\ agentLog \in Seq(EventType) /\ agentLog # <<>>
  /\ rotation \in [Rotations -> RotationType]
  /\ Logged(active)
  /\ \A r \in Rotations : rotation[r].at = "activate" => Logged(rotation[r].new)

(* How a branch ends by itself: softly, when the other may go on, or hard.   *)
HardIdentity == {"TLSError", "RecordInvalid", "LogError", "KeyAgeExceeded"}
HardStatus == {"StatusUnavailable", "StatusNotActive"}
Unfinished == {"ku", "binding", "continuity", "age"}
AcquisitionType ==
  [at : {"idle", "dns", "ek", "fanout", "done"}, revalidate : BOOLEAN,
   identity : {None, "ok", "HTTPError", "Canceled"} \cup Unfinished \cup HardIdentity,
   status : {None, "su", "ok", "Canceled"} \cup HardStatus,
   key : KeyOrNone, fanoutAborted : BOOLEAN, aborted : BOOLEAN,
   outcome : {None, "accepted", "DNSResolution", "DNSSECFailed", "RecordNotFound", "RecordInvalid",
              "Canceled", "HTTPError", "TLSError", "SignatureInvalid", "StatusUnavailable",
              "StatusNotActive", "LogError", "KeyAgeExceeded"},
   from : Nat, wasInactive : BOOLEAN]

(* The key was the log's active key once; since the acquisition began, if it *)
(* revalidates.                                                              *)
WasActive(a) ==
  \E n \in (IF a.revalidate THEN a.from ELSE 1) .. Len(agentLog) :
    ActiveKey(SubSeq(agentLog, 1, n)) = a.key

(* What the branches have found so far, and who aborted them.                *)
Evidence(a) ==
  /\ a.from <= Len(agentLog)
  /\ a.wasInactive => inactive
  /\ a.identity \in {"binding", "continuity", "age", "ok"} => a.at = "done" \/ a.key \notin ekKeySet
  /\ a.identity \in {"continuity", "age", "ok"} => a.at = "done" \/ WasActive(a)
  /\ a.status = "ok" /\ a.revalidate => ~a.wasInactive
  /\ a.at \in {"idle", "dns", "ek"} => a.identity = None /\ a.status = None /\ ~a.fanoutAborted
  /\ a.at = "fanout" => a.identity # None /\ a.status # None /\ (a.aborted => a.fanoutAborted)
  /\ ~a.aborted /\ a.fanoutAborted => a.identity \in HardIdentity \/ a.status \in HardStatus
  /\ ~a.aborted /\ a.status = "Canceled" => a.identity \in HardIdentity
  /\ ~a.aborted /\ a.identity = "Canceled" => a.status \in HardStatus

(* An acquisition that is over ended for its cause.                          *)
Cause(a) ==
  /\ a.outcome = "Canceled" => a.aborted
  /\ a.outcome = "accepted" <=> a.identity = "ok" /\ a.status = "ok" /\ ~a.aborted
  /\ a.identity = "HTTPError" /\ a.outcome = "HTTPError" => a.status \in {"ok", "StatusUnavailable"}
  /\ a.status = "StatusNotActive" /\ ~a.aborted =>
       a.outcome = "StatusNotActive" \/ a.identity \notin {"HTTPError", "Canceled"}
  /\ a.outcome = "accepted" => WasActive(a) /\ a.key \notin ekKeySet

AcqInv ==
  /\ acq \in AcquisitionType
  /\ Evidence(acq)
  /\ acq.at = "done" => Cause(acq)
  /\ acq.at # "done" => acq.outcome = None

AcquisitionInv == PublisherInv /\ AcqInv
-----------------------------------------------------------------------------
(* What a log held it still holds when it has grown.                         *)
LEMMA PrefixStays ==
  ASSUME NEW S, NEW s \in Seq(S), NEW e \in S, NEW n \in 0 .. Len(s)
  PROVE  SubSeq(Append(s, e), 1, n) = SubSeq(s, 1, n)
<1>1. Append(s, e) \in Seq(S) /\ Len(Append(s, e)) = Len(s) + 1
  OBVIOUS
<1>2. \A i \in 1 .. Len(s) : Append(s, e)[i] = s[i]
  OBVIOUS
<1> DEFINE a == SubSeq(Append(s, e), 1, n)
           b == SubSeq(s, 1, n)
<1>3. a \in Seq(S) /\ Len(a) = n /\ \A i \in 1 .. n : a[i] = Append(s, e)[i]
  BY <1>1
<1>4. b \in Seq(S) /\ Len(b) = n /\ \A i \in 1 .. n : b[i] = s[i]
  OBVIOUS
<1> HIDE DEF a, b
<1>5. \A i \in 1 .. n : a[i] = b[i]
  BY <1>2, <1>3, <1>4
<1>6. a = b
  BY <1>3, <1>4, <1>5
<1> QED  BY <1>6 DEF a, b

(* The log only grows, and an identity that is not ACTIVE stays so.          *)
Grows ==
  /\ agentLog' = agentLog \/ \E e \in EventType : agentLog' = Append(agentLog, e)
  /\ inactive => inactive'

LEMMA GrownLog ==
  ASSUME agentLog \in Seq(EventType), agentLog # <<>>, Grows
  PROVE  /\ agentLog' \in Seq(EventType) /\ agentLog' # <<>> /\ Len(agentLog) <= Len(agentLog')
         /\ \A i \in DOMAIN agentLog : i \in DOMAIN agentLog' /\ agentLog'[i] = agentLog[i]
         /\ \A n \in 0 .. Len(agentLog) : SubSeq(agentLog', 1, n) = SubSeq(agentLog, 1, n)
<1>1. CASE agentLog' = agentLog
  BY <1>1
<1>2. ASSUME NEW e \in EventType, agentLog' = Append(agentLog, e)
      PROVE  /\ agentLog' \in Seq(EventType) /\ agentLog' # <<>> /\ Len(agentLog) <= Len(agentLog')
             /\ \A i \in DOMAIN agentLog : i \in DOMAIN agentLog' /\ agentLog'[i] = agentLog[i]
             /\ \A n \in 0 .. Len(agentLog) : SubSeq(agentLog', 1, n) = SubSeq(agentLog, 1, n)
  <2> HIDE DEF EventType
  <2>1. agentLog' \in Seq(EventType) /\ Len(agentLog') = Len(agentLog) + 1
    BY <1>2
  <2>2. \A i \in DOMAIN agentLog : i \in DOMAIN agentLog' /\ agentLog'[i] = agentLog[i]
    BY <1>2
  <2>3. \A n \in 0 .. Len(agentLog) : SubSeq(agentLog', 1, n) = SubSeq(agentLog, 1, n)
    BY <1>2, PrefixStays
  <2>4. agentLog' # <<>> /\ Len(agentLog) <= Len(agentLog')
    BY <2>1
  <2> QED  BY <2>1, <2>2, <2>3, <2>4
<1> QED  BY <1>1, <1>2 DEF Grows

LEMMA LoggedStays ==
  ASSUME agentLog \in Seq(EventType), agentLog # <<>>, Grows, NEW k, Logged(k)
  PROVE  Logged(k)'
  BY GrownLog DEF Logged

LEMMA WasActiveStays ==
  ASSUME agentLog \in Seq(EventType), agentLog # <<>>, Grows, NEW a \in AcquisitionType, WasActive(a)
  PROVE  WasActive(a)'
<1>1. PICK n \in (IF a.revalidate THEN a.from ELSE 1) .. Len(agentLog) :
        ActiveKey(SubSeq(agentLog, 1, n)) = a.key
  BY DEF WasActive
<1>2. n \in 0 .. Len(agentLog) /\ Len(agentLog) \in Nat /\ a.from \in Nat
  BY <1>1 DEF AcquisitionType
<1>3. Len(agentLog') \in Nat /\ Len(agentLog) <= Len(agentLog')
  BY GrownLog
<1>4. SubSeq(agentLog', 1, n) = SubSeq(agentLog, 1, n)
  BY <1>2, GrownLog
<1>5. n \in (IF a.revalidate THEN a.from ELSE 1) .. Len(agentLog')
  BY <1>1, <1>2, <1>3
<1> QED  BY <1>1, <1>4, <1>5, Zenon DEF WasActive

(* What the acquisition has found stays true while the publisher goes on.    *)
LEMMA AcqKept ==
  ASSUME PublisherInv, AcqInv, Grows, UNCHANGED <<acq, ekKeySet>>
  PROVE  AcqInv'
<1>0. agentLog \in Seq(EventType) /\ agentLog # <<>>
  BY DEF PublisherInv
<1>1. PICK a \in AcquisitionType : a = acq /\ a = acq'
  BY DEF AcqInv
<1>2. Evidence(a) /\ (a.at = "done" => Cause(a)) /\ (a.at # "done" => a.outcome = None)
  BY <1>1 DEF AcqInv
<1>3. WasActive(a) => WasActive(a)'
  BY <1>0, WasActiveStays
<1>4. (a.from <= Len(agentLog))' /\ (a.wasInactive => inactive')
  <2>1. Len(agentLog) \in Nat /\ Len(agentLog') \in Nat /\ Len(agentLog) <= Len(agentLog') /\ a.from \in Nat
    BY <1>0, GrownLog DEF AcquisitionType
  <2> QED  BY <1>2, <2>1 DEF Evidence, Grows
<1>5. Evidence(a)'
  BY <1>2, <1>3, <1>4 DEF Evidence
<1>6. (a.at = "done" => Cause(a))'
  BY <1>2, <1>3 DEF Cause
<1> QED  BY <1>1, <1>2, <1>5, <1>6 DEF AcqInv
-----------------------------------------------------------------------------
(* A rotation moves on.                                                      *)
LEMMA RotationMoves ==
  ASSUME PublisherInv, Grows, NEW r \in Rotations, NEW k, k = rotation[r].new,
         NEW at \in {"write", "activate", "supersede", "done", "failed", "torn"},
         rotation' = [rotation EXCEPT ![r].at = at], at = "activate" => Logged(k)',
         active' \in KeyOrNone, active' = active \/ Logged(active)',
         served' \in Seq(SUBSET KeyOrNone), served' # <<>>, inactive' \in BOOLEAN, gone' \in BOOLEAN
  PROVE  PublisherInv'
<1>0. agentLog \in Seq(EventType) /\ agentLog # <<>> /\ rotation \in [Rotations -> RotationType]
  BY DEF PublisherInv
<1>1. /\ rotation' \in [Rotations -> RotationType] /\ rotation'[r].at = at /\ rotation'[r].new = k
      /\ \A q \in Rotations : q # r => rotation'[q] = rotation[q]
  BY <1>0 DEF RotationType
<1>2. \A x : Logged(x) => Logged(x)'
  BY <1>0, LoggedStays
<1>3. ASSUME NEW q \in Rotations, rotation'[q].at = "activate" PROVE Logged(rotation[q].new)'
  <2>1. CASE q = r
    BY <1>1, <1>3, <2>1
  <2>2. CASE q # r
    <3>1. PICK x : x = rotation[q].new /\ x = rotation'[q].new
      BY <1>1, <2>2
    <3>2. Logged(x)
      BY <1>1, <1>3, <2>2, <3>1 DEF PublisherInv
    <3> QED  BY <1>2, <3>1, <3>2
  <2> QED  BY <2>1, <2>2
<1>4. Logged(active)'
  <2>1. PICK x : x = active
    OBVIOUS
  <2>2. Logged(x)'
    BY <1>2, <2>1 DEF PublisherInv
  <2> QED  BY <2>1, <2>2
<1>5. agentLog' \in Seq(EventType) /\ agentLog' # <<>>
  BY <1>0, GrownLog
<1> QED  BY <1>1, <1>3, <1>4, <1>5 DEF PublisherInv

LEMMA PublisherSteps ==
  ASSUME AcquisitionAssumption, PublisherInv,
         \/ CreateTxtRecord \/ Revoke
         \/ \E r \in Rotations :
              \/ BeginRotation(r) \/ PublishKeySet(r) \/ SignAndWriteEvent(r)
              \/ Activate(r) \/ Supersede(r) \/ RotationFails(r)
  PROVE  PublisherInv' /\ Grows /\ UNCHANGED <<acq, ekKeySet>>
<1> USE DEF PublisherInv
<1>0. /\ agentLog \in Seq(EventType) /\ agentLog # <<>> /\ rotation \in [Rotations -> RotationType]
      /\ active \in KeyOrNone
  OBVIOUS
<1>1. CASE CreateTxtRecord
  <2>1. UNCHANGED <<active, served, gone, agentLog, inactive, rotation, acq, ekKeySet>>
    BY <1>1 DEF CreateTxtRecord
  <2> QED  BY <2>1 DEF Grows, Logged
<1>2. CASE Revoke
  <2>1. UNCHANGED <<active, served, rotation, acq, ekKeySet>>
    BY <1>2 DEF Revoke
  <2>2. gone' \in BOOLEAN /\ inactive' \in BOOLEAN /\ (inactive => inactive')
    BY <1>2, Zenon DEF Revoke
  <2>3. Revoked \in EventType
    BY DEF Revoked, EventType, KeyOrNone
  <2>4. Grows
    BY <1>2, <2>2, <2>3 DEF Revoke, Grows
  <2>5. agentLog' \in Seq(EventType) /\ agentLog' # <<>>
    BY <1>0, <2>4, GrownLog
  <2>6. \A k : Logged(k) => Logged(k)'
    BY <1>0, <2>4, LoggedStays
  <2> QED  BY <2>1, <2>2, <2>4, <2>5, <2>6
<1>3. ASSUME NEW r \in Rotations, BeginRotation(r)
      PROVE  PublisherInv' /\ Grows /\ UNCHANGED <<acq, ekKeySet>>
  <2>1. UNCHANGED <<active, served, gone, agentLog, inactive, acq, ekKeySet>>
    BY <1>3 DEF BeginRotation
  <2>2. PICK k \in OperationalKeys : rotation' = [q \in Rotations |->
            IF q = r THEN [at |-> "publish", previous |-> active, new |-> k, alone |-> ~Overlaps(r)]
            ELSE [rotation[q] EXCEPT !.alone = @ /\ rotation[q].at \in Over \cup {"idle"}]]
    BY <1>3 DEF BeginRotation
  <2>3. ASSUME NEW q \in Rotations
        PROVE  rotation'[q] \in RotationType /\ (rotation'[q].at = "activate" => Logged(rotation'[q].new))
    <3>1. CASE q = r
      <4>1. rotation'[q] = [at |-> "publish", previous |-> active, new |-> k, alone |-> ~Overlaps(r)]
        BY <2>2, <3>1
      <4>2. (~Overlaps(r)) \in BOOLEAN
        BY DEF Overlaps
      <4> QED  BY <1>0, <4>1, <4>2 DEF RotationType, KeyOrNone
    <3>2. CASE q # r
      <4>1. PICK b \in BOOLEAN : b = (rotation[q].alone /\ rotation[q].at \in Over \cup {"idle"})
        BY <1>0, Zenon DEF RotationType
      <4>2. rotation'[q] = [rotation[q] EXCEPT !.alone = b]
        BY <1>0, <2>2, <3>2, <4>1 DEF RotationType
      <4>3. rotation'[q] \in RotationType /\ rotation'[q].at = rotation[q].at /\ rotation'[q].new = rotation[q].new
        BY <1>0, <4>2 DEF RotationType
      <4> QED  BY <4>3
    <3> QED  BY <3>1, <3>2
  <2>4. rotation' \in [Rotations -> RotationType]
    <3>1. rotation' = [q \in Rotations |-> rotation'[q]]
      BY <2>2
    <3> QED  BY <2>3, <3>1
  <2>5. Grows /\ \A x : Logged(x) => Logged(x)'
    BY <2>1 DEF Grows, Logged
  <2> QED  BY <2>1, <2>3, <2>4, <2>5
<1>4. ASSUME NEW r \in Rotations, PublishKeySet(r)
      PROVE  PublisherInv' /\ Grows /\ UNCHANGED <<acq, ekKeySet>>
  <2>1. PICK k \in KeyOrNone : k = rotation[r].new
    BY <1>0 DEF RotationType
  <2>2. /\ served' = Append(served, {k}) /\ rotation' = [rotation EXCEPT ![r].at = "write"]
        /\ UNCHANGED <<active, gone, agentLog, inactive, acq, ekKeySet>>
    BY <1>4, <2>1 DEF PublishKeySet
  <2>3. served' \in Seq(SUBSET KeyOrNone) /\ served' # <<>>
    BY <2>1, <2>2
  <2>4. Grows
    BY <2>2 DEF Grows
  <2> QED  BY <2>1, <2>2, <2>3, <2>4, RotationMoves, Zenon
<1>5. ASSUME NEW r \in Rotations, SignAndWriteEvent(r)
      PROVE  PublisherInv' /\ Grows /\ UNCHANGED <<acq, ekKeySet>>
  <2>1. PICK p \in KeyOrNone, k \in KeyOrNone : p = rotation[r].previous /\ k = rotation[r].new
    BY <1>0 DEF RotationType
  <2>2. /\ agentLog' = Append(agentLog, Rotated(p, k))
        /\ rotation' = [rotation EXCEPT ![r].at = "activate"]
        /\ UNCHANGED <<active, served, gone, inactive, acq, ekKeySet>>
    BY <1>5, <2>1 DEF SignAndWriteEvent
  <2>3. Rotated(p, k) \in EventType /\ Rotated(p, k).new = k
    BY <2>1 DEF Rotated, EventType
  <2>4. Grows
    BY <2>2, <2>3 DEF Grows
  <2>5. Logged(k)'
    <3> HIDE DEF EventType
    <3>1. agentLog'[Len(agentLog) + 1] = Rotated(p, k) /\ Len(agentLog) + 1 \in DOMAIN agentLog'
      BY <1>0, <2>2, <2>3
    <3> QED  BY <2>3, <3>1 DEF Logged
  <2> QED  BY <2>1, <2>2, <2>4, <2>5, RotationMoves, Zenon
<1>6. ASSUME NEW r \in Rotations, Activate(r)
      PROVE  PublisherInv' /\ Grows /\ UNCHANGED <<acq, ekKeySet>>
  <2>1. PICK k \in KeyOrNone : k = rotation[r].new
    BY <1>0 DEF RotationType
  <2>2. /\ active' = k /\ rotation[r].at = "activate"
        /\ rotation' = [rotation EXCEPT ![r].at = "supersede"]
        /\ UNCHANGED <<served, gone, agentLog, inactive, acq, ekKeySet>>
    BY <1>6, <2>1 DEF Activate
  <2>3. Grows /\ Logged(k)'
    BY <2>1, <2>2 DEF Grows, Logged
  <2>4. Logged(active)'
    BY <2>2, <2>3
  <2> QED  BY <2>1, <2>2, <2>3, <2>4, RotationMoves, Zenon
<1>7. ASSUME NEW r \in Rotations, Supersede(r) \/ RotationFails(r)
      PROVE  PublisherInv' /\ Grows /\ UNCHANGED <<acq, ekKeySet>>
  <2>1. PICK k \in KeyOrNone : k = rotation[r].new
    BY <1>0 DEF RotationType
  <2>2. /\ \E at \in {"done", "failed", "torn"} : rotation' = [rotation EXCEPT ![r].at = at]
        /\ UNCHANGED <<active, served, gone, agentLog, inactive, acq, ekKeySet>>
    BY <1>7 DEF Supersede, RotationFails
  <2>3. Grows /\ Logged(active)'
    BY <2>2 DEF Grows, Logged
  <2> QED  BY <2>1, <2>2, <2>3, RotationMoves, Zenon
<1> QED  BY <1>1, <1>2, <1>3, <1>4, <1>5, <1>6, <1>7
-----------------------------------------------------------------------------
(* The acquisition moves on.                                                 *)
LEMMA AcqMoves ==
  ASSUME NEW x \in AcquisitionType, Evidence(x), x.at = "done" => Cause(x),
         x.at # "done" => x.outcome = None, acq' = x, UNCHANGED publisherVars
  PROVE  AcqInv'
<1>1. UNCHANGED <<agentLog, inactive, ekKeySet>>
  BY DEF publisherVars
<1>2. (WasActive(x) => WasActive(x)') /\ (WasActive(x)' => WasActive(x))
  BY <1>1 DEF WasActive
<1>3. Evidence(x)' /\ (x.at = "done" => Cause(x)')
  BY <1>1, <1>2 DEF Evidence, Cause
<1> QED  BY <1>3 DEF AcqInv

(* It ends before its branches begin.                                        *)
LEMMA EndsEarly ==
  ASSUME AcqInv, acq.at \in {"dns", "ek"},
         NEW code \in {"DNSResolution", "DNSSECFailed", "RecordNotFound", "RecordInvalid",
                       "Canceled", "HTTPError", "TLSError", "SignatureInvalid"},
         code = "Canceled" => acq.aborted, Ends(code), UNCHANGED publisherVars
  PROVE  AcqInv'
<1>1. PICK a \in AcquisitionType : a = acq
  BY DEF AcqInv
<1> DEFINE x == [a EXCEPT !.at = "done", !.outcome = code, !.key = None]
<1>2. acq' = x
  BY <1>1, Zenon DEF Ends
<1>3. None \in KeyOrNone
  BY DEF KeyOrNone
<1>4. /\ x \in AcquisitionType /\ x.at = "done" /\ x.outcome = code /\ x.identity = a.identity
      /\ x.status = a.status /\ x.aborted = a.aborted /\ x.fanoutAborted = a.fanoutAborted
      /\ x.from = a.from /\ x.wasInactive = a.wasInactive /\ x.revalidate = a.revalidate
  BY <1>1, <1>3, Zenon DEF AcquisitionType
<1>5. Evidence(a) /\ a.identity = None /\ a.status = None /\ ~a.fanoutAborted
  BY <1>1 DEF AcqInv, Evidence
<1> HIDE DEF x
<1>6. Evidence(x)
  BY <1>4, <1>5 DEF Evidence, None
<1>7. Cause(x)
  BY <1>1, <1>4, <1>5 DEF Cause, None
<1> QED  BY <1>2, <1>4, <1>6, <1>7, AcqMoves

LEMMA BeginAcquisitionStep == ASSUME PublisherInv, AcqInv, BeginAcquisition PROVE AcqInv'
<1>1. PICK a \in AcquisitionType : a = acq
  BY DEF AcqInv
<1>2. PICK n \in Nat, w \in BOOLEAN : n = Len(agentLog) /\ w = inactive
  BY DEF PublisherInv
<1>3. PICK v \in BOOLEAN :
        acq' = [a EXCEPT !.at = "dns", !.revalidate = v, !.from = n, !.wasInactive = w]
  BY <1>1, <1>2, Zenon DEF BeginAcquisition
<1> DEFINE x == [a EXCEPT !.at = "dns", !.revalidate = v, !.from = n, !.wasInactive = w]
<1>4. /\ x \in AcquisitionType /\ x.at = "dns" /\ x.identity = a.identity /\ x.status = a.status
      /\ x.fanoutAborted = a.fanoutAborted /\ x.outcome = a.outcome /\ x.from = n
      /\ x.wasInactive = w
  BY <1>1, <1>2, <1>3, Zenon DEF AcquisitionType
<1>5. /\ a.at = "idle" /\ a.identity = None /\ a.status = None /\ ~a.fanoutAborted
      /\ a.outcome = None
  BY <1>1 DEF BeginAcquisition, AcqInv, Evidence
<1>6. acq' = x /\ UNCHANGED publisherVars
  BY <1>3 DEF BeginAcquisition
<1> HIDE DEF x
<1>7. Evidence(x)
  BY <1>2, <1>4, <1>5 DEF Evidence, None
<1> QED  BY <1>4, <1>5, <1>6, <1>7, AcqMoves

LEMMA LookupStep == ASSUME AcqInv, Lookup PROVE AcqInv'
<1>0. acq.at = "dns" /\ UNCHANGED publisherVars
  BY DEF Lookup
<1>1. \/ \E code \in {"DNSResolution", "DNSSECFailed", "RecordNotFound", "RecordInvalid"} : Ends(code)
      \/ acq' = [acq EXCEPT !.at = "ek"]
  BY DEF Lookup
<1>2. CASE acq' = [acq EXCEPT !.at = "ek"]
  <2>1. PICK a \in AcquisitionType : a = acq
    BY DEF AcqInv
  <2> DEFINE x == [a EXCEPT !.at = "ek"]
  <2>2. /\ x \in AcquisitionType /\ x.at = "ek" /\ x.identity = a.identity /\ x.status = a.status
        /\ x.fanoutAborted = a.fanoutAborted /\ x.outcome = a.outcome /\ x.from = a.from
        /\ x.wasInactive = a.wasInactive
    BY <2>1 DEF AcquisitionType
  <2>3. acq' = x
    BY <1>2, <2>1
  <2>4. /\ Evidence(a) /\ a.identity = None /\ a.status = None /\ ~a.fanoutAborted
        /\ a.outcome = None
    BY <1>0, <2>1 DEF AcqInv, Evidence
  <2> HIDE DEF x
  <2>5. Evidence(x)
    BY <2>2, <2>4 DEF Evidence, None
  <2> QED  BY <1>0, <2>2, <2>3, <2>4, <2>5, AcqMoves
<1> QED  BY <1>0, <1>1, <1>2, EndsEarly

LEMMA FetchEntityKeysStep == ASSUME AcqInv, FetchEntityKeys PROVE AcqInv'
<1>0. acq.at = "ek" /\ UNCHANGED publisherVars
  BY DEF FetchEntityKeys
<1>1. \/ \E code \in {"HTTPError", "TLSError", "RecordInvalid", "SignatureInvalid"} : Ends(code)
      \/ acq.aborted /\ Ends("Canceled")
      \/ ~acq.aborted /\ acq' = [acq EXCEPT !.at = "fanout", !.identity = "ku", !.status = "su"]
  BY DEF FetchEntityKeys
<1>2. CASE ~acq.aborted /\ acq' = [acq EXCEPT !.at = "fanout", !.identity = "ku", !.status = "su"]
  <2>1. PICK a \in AcquisitionType : a = acq
    BY DEF AcqInv
  <2> DEFINE x == [a EXCEPT !.at = "fanout", !.identity = "ku", !.status = "su"]
  <2>2. /\ x \in AcquisitionType /\ x.at = "fanout" /\ x.identity = "ku" /\ x.status = "su"
        /\ x.fanoutAborted = a.fanoutAborted /\ x.outcome = a.outcome /\ x.from = a.from
        /\ x.wasInactive = a.wasInactive /\ x.aborted = a.aborted
    BY <2>1, Zenon DEF AcquisitionType, Unfinished
  <2>3. acq' = x /\ ~a.aborted
    BY <1>2, <2>1
  <2>4. Evidence(a) /\ ~a.fanoutAborted /\ a.outcome = None
    BY <1>0, <2>1 DEF AcqInv, Evidence
  <2> HIDE DEF x
  <2>5. Evidence(x)
    BY <2>2, <2>3, <2>4 DEF Evidence, None
  <2> QED  BY <1>0, <2>2, <2>3, <2>4, <2>5, AcqMoves
<1> QED  BY <1>0, <1>1, <1>2, EndsEarly

(* The identity branch ends in a failure.                                    *)
LEMMA IdentityEnds ==
  ASSUME AcqInv, acq.at = "fanout", acq.identity \in Unfinished,
         NEW code \in {"HTTPError", "Canceled"} \cup HardIdentity,
         code = "Canceled" => acq.fanoutAborted, IdentityFails(code), UNCHANGED publisherVars
  PROVE  AcqInv'
<1>1. PICK a \in AcquisitionType : a = acq
  BY DEF AcqInv
<1>2. PICK f \in BOOLEAN : f <=> a.fanoutAborted \/ code # "HTTPError"
  BY Zenon
<1> DEFINE x == [a EXCEPT !.identity = code, !.fanoutAborted = f]
<1>3. a.fanoutAborted \in BOOLEAN
  BY <1>1 DEF AcquisitionType
<1>4. f = (a.fanoutAborted \/ code # "HTTPError")
  BY <1>2, <1>3
<1>5. acq' = x
  BY <1>1, <1>4 DEF IdentityFails, AcquisitionType
<1>6. /\ x \in AcquisitionType /\ x.at = "fanout" /\ x.identity = code /\ x.status = a.status
      /\ x.fanoutAborted = f /\ x.outcome = a.outcome /\ x.from = a.from
      /\ x.wasInactive = a.wasInactive /\ x.aborted = a.aborted /\ x.revalidate = a.revalidate
  BY <1>1, Zenon DEF AcquisitionType
<1>7. /\ Evidence(a) /\ a.at = "fanout" /\ a.identity \in Unfinished /\ a.outcome = None
      /\ code = "Canceled" => a.fanoutAborted
  BY <1>1 DEF AcqInv
<1> HIDE DEF x
<1>8. Evidence(x)
  BY <1>2, <1>6, <1>7 DEF Evidence, None, Unfinished, HardIdentity, HardStatus
<1> QED  BY <1>5, <1>6, <1>7, <1>8, AcqMoves

(* It takes its next step.                                                   *)
LEMMA IdentityGoesOn ==
  ASSUME AcqInv, acq.at = "fanout", acq.identity \in Unfinished, ~acq.fanoutAborted,
         NEW next \in {"binding", "continuity", "age", "ok"}, NEW k \in KeyOrNone, k \notin ekKeySet,
         next # "binding" => \E n \in (IF acq.revalidate THEN acq.from ELSE 1) .. Len(agentLog) :
                               ActiveKey(SubSeq(agentLog, 1, n)) = k,
         acq' = [acq EXCEPT !.identity = next, !.key = k], UNCHANGED publisherVars
  PROVE  AcqInv'
<1>1. PICK a \in AcquisitionType : a = acq
  BY DEF AcqInv
<1> DEFINE x == [a EXCEPT !.identity = next, !.key = k]
<1>2. acq' = x
  BY <1>1
<1>3. /\ x \in AcquisitionType /\ x.at = "fanout" /\ x.identity = next /\ x.status = a.status
      /\ x.fanoutAborted = a.fanoutAborted /\ x.outcome = a.outcome /\ x.from = a.from /\ x.key = k
      /\ x.wasInactive = a.wasInactive /\ x.aborted = a.aborted /\ x.revalidate = a.revalidate
  BY <1>1, Zenon DEF AcquisitionType, Unfinished
<1>4. /\ Evidence(a) /\ a.at = "fanout" /\ a.identity \in Unfinished /\ a.outcome = None
      /\ ~a.fanoutAborted
  BY <1>1 DEF AcqInv
<1> HIDE DEF x
<1>5. next # "binding" => WasActive(x)
  BY <1>1, <1>3 DEF WasActive
<1>6. Evidence(x)
  BY <1>3, <1>4, <1>5 DEF Evidence, None, Unfinished, HardIdentity, HardStatus
<1> QED  BY <1>2, <1>3, <1>4, <1>6, AcqMoves

LEMMA FetchRuntimeKeysStep == ASSUME PublisherInv, AcqInv, FetchRuntimeKeys PROVE AcqInv'
<1>0. acq.at = "fanout" /\ acq.identity \in Unfinished /\ UNCHANGED publisherVars
  BY Zenon DEF FetchRuntimeKeys, Unfinished
<1>1. CASE acq.fanoutAborted /\ IdentityFails("Canceled")
  BY <1>0, <1>1, IdentityEnds
<1>2. CASE \E code \in {"HTTPError", "TLSError", "RecordInvalid"} : IdentityFails(code)
  BY <1>0, <1>2, IdentityEnds DEF HardIdentity
<1>3. CASE /\ ~acq.fanoutAborted
           /\ \E i \in Served(Len(served)) : \E k \in served[i] \ ekKeySet :
                acq' = [acq EXCEPT !.identity = "binding", !.key = k]
  <2>0. PICK i \in Served(Len(served)) : \E k \in served[i] \ ekKeySet :
          acq' = [acq EXCEPT !.identity = "binding", !.key = k]
    BY <1>3, Zenon
  <2>1. PICK k \in served[i] :
          k \notin ekKeySet /\ acq' = [acq EXCEPT !.identity = "binding", !.key = k]
    BY <2>0, Zenon
  <2>2. i \in 1 .. Len(served)
    BY <2>1 DEF Served, PublisherInv
  <2>3. served[i] \in SUBSET KeyOrNone
    BY <2>2 DEF PublisherInv
  <2>4. k \in KeyOrNone
    BY <2>3
  <2> QED  BY <1>0, <1>3, <2>1, <2>4, IdentityGoesOn, Zenon
<1> QED  BY <1>1, <1>2, <1>3, Zenon DEF FetchRuntimeKeys

LEMMA ReadLogStep == ASSUME PublisherInv, AcqInv, ReadLog PROVE AcqInv'
<1>0. /\ acq.at = "fanout" /\ acq.identity \in {"binding", "continuity", "age"}
      /\ acq.identity \in Unfinished /\ UNCHANGED publisherVars
  BY DEF ReadLog, Unfinished
<1>1. CASE acq.fanoutAborted /\ IdentityFails("Canceled")
  BY <1>0, <1>1, IdentityEnds
<1>2. CASE IdentityFails("LogError") \/ IdentityFails("KeyAgeExceeded")
  BY <1>0, <1>2, IdentityEnds DEF HardIdentity
<1>3. CASE /\ ~acq.fanoutAborted
           /\ acq.identity = "age" \/ \E n \in Served(Len(agentLog)) : LoggedKey(n)
           /\ \E next \in {"continuity", "age", "ok"} : acq' = [acq EXCEPT !.identity = next]
  <2>1. PICK next \in {"continuity", "age", "ok"} : acq' = [acq EXCEPT !.identity = next]
    BY <1>3
  <2>2. PICK a \in AcquisitionType : a = acq
    BY DEF AcqInv
  <2>3. PICK k \in KeyOrNone : k = a.key
    BY <2>2 DEF AcquisitionType
  <2>4. acq' = [acq EXCEPT !.identity = next, !.key = k]
    BY <2>1, <2>2, <2>3, Zenon DEF AcquisitionType
  <2>5. k \notin ekKeySet
    BY <1>0, <2>2, <2>3 DEF AcqInv, Evidence
  <2>6. \E n \in (IF acq.revalidate THEN acq.from ELSE 1) .. Len(agentLog) :
          ActiveKey(SubSeq(agentLog, 1, n)) = k
    <3>1. CASE acq.identity = "age"
      BY <1>0, <2>2, <2>3, <3>1 DEF AcqInv, Evidence, WasActive
    <3>2. CASE \E n \in Served(Len(agentLog)) : LoggedKey(n)
      <4>1. PICK n \in Served(Len(agentLog)) : ActiveKey(SubSeq(agentLog, 1, n)) = k
        BY <2>2, <2>3, <3>2 DEF LoggedKey
      <4>2. Len(agentLog) \in Nat /\ acq.from \in Nat /\ acq.from <= Len(agentLog)
        BY <2>2 DEF PublisherInv, AcqInv, Evidence, AcquisitionType
      <4>3. n \in (IF acq.revalidate THEN acq.from ELSE 1) .. Len(agentLog)
        BY <4>1, <4>2 DEF Served
      <4> QED  BY <4>1, <4>3
    <3> QED  BY <1>3, <3>1, <3>2
  <2> QED  BY <1>0, <1>3, <2>4, <2>5, <2>6, IdentityGoesOn, Zenon
<1> QED  BY <1>0, <1>1, <1>2, <1>3 DEF ReadLog

(* The status branch.                                                        *)
LEMMA StatusEnds ==
  ASSUME AcqInv, acq.at = "fanout", acq.status = "su", NEW code \in {"Canceled"} \cup HardStatus,
         code = "Canceled" => acq.fanoutAborted, StatusFails(code), UNCHANGED publisherVars
  PROVE  AcqInv'
<1>1. PICK a \in AcquisitionType : a = acq
  BY DEF AcqInv
<1> DEFINE x == [a EXCEPT !.status = code, !.fanoutAborted = TRUE]
<1>2. acq' = x
  BY <1>1 DEF StatusFails
<1>3. /\ x \in AcquisitionType /\ x.at = "fanout" /\ x.identity = a.identity /\ x.status = code
      /\ x.fanoutAborted /\ x.outcome = a.outcome /\ x.from = a.from /\ x.key = a.key
      /\ x.wasInactive = a.wasInactive /\ x.aborted = a.aborted /\ x.revalidate = a.revalidate
  BY <1>1, Zenon DEF AcquisitionType
<1>4. /\ Evidence(a) /\ a.at = "fanout" /\ a.status = "su" /\ a.outcome = None
      /\ code = "Canceled" => a.fanoutAborted
  BY <1>1 DEF AcqInv
<1> HIDE DEF x
<1>5. WasActive(a) => WasActive(x)
  BY <1>3 DEF WasActive
<1>6. Evidence(x)
  BY <1>3, <1>4, <1>5 DEF Evidence, None, HardIdentity, HardStatus
<1> QED  BY <1>2, <1>3, <1>4, <1>6, AcqMoves

LEMMA FetchActiveStatusStep == ASSUME AcqInv, FetchActiveStatus PROVE AcqInv'
<1>0. acq.at = "fanout" /\ acq.status = "su" /\ UNCHANGED publisherVars
  BY DEF FetchActiveStatus
<1>1. CASE acq.fanoutAborted /\ StatusFails("Canceled")
  BY <1>0, <1>1, StatusEnds
<1>2. CASE StatusFails("StatusUnavailable") \/ StatusFails("StatusNotActive")
  BY <1>0, <1>2, StatusEnds DEF HardStatus
<1>3. CASE /\ ~acq.fanoutAborted /\ (inactive => ~acq.revalidate)
           /\ acq' = [acq EXCEPT !.status = "ok"]
  <2>1. PICK a \in AcquisitionType : a = acq
    BY DEF AcqInv
  <2> DEFINE x == [a EXCEPT !.status = "ok"]
  <2>2. acq' = x
    BY <1>3, <2>1
  <2>3. /\ x \in AcquisitionType /\ x.at = "fanout" /\ x.identity = a.identity /\ x.status = "ok"
        /\ x.fanoutAborted = a.fanoutAborted /\ x.outcome = a.outcome /\ x.from = a.from
        /\ x.key = a.key /\ x.wasInactive = a.wasInactive /\ x.aborted = a.aborted
        /\ x.revalidate = a.revalidate
    BY <1>0, <2>1 DEF AcquisitionType
  <2>4. /\ Evidence(a) /\ a.at = "fanout" /\ a.status = "su" /\ a.outcome = None
        /\ ~a.fanoutAborted /\ (inactive => ~a.revalidate)
    BY <1>0, <1>3, <2>1 DEF AcqInv
  <2> HIDE DEF x
  <2>5. WasActive(a) => WasActive(x)
    BY <2>3 DEF WasActive
  <2>6. Evidence(x)
    BY <2>3, <2>4, <2>5 DEF Evidence, None, HardIdentity, HardStatus
  <2> QED  BY <1>0, <2>2, <2>3, <2>4, <2>6, AcqMoves
<1> QED  BY <1>1, <1>2, <1>3 DEF FetchActiveStatus

LEMMA CallerAbortsStep == ASSUME AcqInv, CallerAborts PROVE AcqInv'
<1>1. PICK a \in AcquisitionType : a = acq
  BY DEF AcqInv
<1>2. PICK f \in BOOLEAN : f = (a.at = "fanout")
  BY Zenon
<1> DEFINE x == [a EXCEPT !.aborted = TRUE, !.fanoutAborted = f]
<1>3. acq' = x /\ UNCHANGED publisherVars
  BY <1>1, <1>2 DEF CallerAborts
<1>4. /\ x \in AcquisitionType /\ x.at = a.at /\ x.identity = a.identity /\ x.status = a.status
      /\ x.fanoutAborted = f /\ x.outcome = a.outcome /\ x.from = a.from
      /\ x.key = a.key /\ x.wasInactive = a.wasInactive /\ x.aborted
      /\ x.revalidate = a.revalidate
  BY <1>1, <1>2, Zenon DEF AcquisitionType
<1>5. Evidence(a) /\ a.at \in {"dns", "ek", "fanout"} /\ a.outcome = None
  BY <1>1 DEF AcqInv, CallerAborts
<1> HIDE DEF x
<1>6. WasActive(a) => WasActive(x)
  BY <1>4 DEF WasActive
<1>7. Evidence(x)
  BY <1>2, <1>4, <1>5, <1>6, Zenon DEF Evidence, None, HardIdentity, HardStatus
<1> QED  BY <1>3, <1>4, <1>5, <1>7, AcqMoves

(* The two branches are in.                                                  *)
LEMMA SettleStep == ASSUME AcqInv, Settle PROVE AcqInv'
<1>1. PICK a \in AcquisitionType : a = acq
  BY DEF AcqInv
<1>2. /\ Evidence(a) /\ a.at = "fanout" /\ a.identity \notin Unfinished /\ a.status # "su"
      /\ a.outcome = None /\ a.identity # None /\ a.status # None
  BY <1>1 DEF AcqInv, Settle, Evidence, Unfinished
<1>3. /\ a.identity \in {"ok", "HTTPError", "Canceled"} \cup HardIdentity
      /\ a.status \in {"ok", "Canceled"} \cup HardStatus
  BY <1>1, <1>2 DEF AcquisitionType
<1>4. PICK v : v = Verdict(a.identity, a.status)
  OBVIOUS
<1>5. /\ a.aborted => v = "Canceled"
      /\ ~a.aborted /\ a.identity = "HTTPError" /\ a.status = "StatusNotActive" => v = a.status
      /\ ~a.aborted /\ ~(a.identity = "HTTPError" /\ a.status = "StatusNotActive") =>
           v = IF a.identity \notin {"ok", "Canceled"} THEN a.identity
               ELSE IF a.status \notin {"ok", "Canceled"} THEN a.status
               ELSE IF a.identity = "Canceled" \/ a.status = "Canceled" THEN "Canceled"
               ELSE "accepted"
  BY <1>1, <1>4 DEF Verdict
<1>6. v \in {"Canceled", "accepted", "HTTPError"} \cup HardIdentity \cup HardStatus
  BY <1>3, <1>5 DEF HardStatus
<1>7. PICK k \in KeyOrNone : k = IF v = "accepted" THEN a.key ELSE None
  BY <1>1 DEF AcquisitionType, KeyOrNone
<1> DEFINE x == [a EXCEPT !.at = "done", !.outcome = v, !.key = k]
<1>8. acq' = x /\ UNCHANGED publisherVars
  BY <1>1, <1>4, <1>7 DEF Settle, Ends, AcquisitionType
<1>9. /\ x \in AcquisitionType /\ x.at = "done" /\ x.identity = a.identity /\ x.status = a.status
      /\ x.fanoutAborted = a.fanoutAborted /\ x.outcome = v /\ x.from = a.from
      /\ x.key = k /\ x.wasInactive = a.wasInactive /\ x.aborted = a.aborted
      /\ x.revalidate = a.revalidate
  BY <1>6, Zenon DEF AcquisitionType, HardIdentity, HardStatus
<1> HIDE DEF x
<1>10. Evidence(x)
  BY <1>2, <1>9 DEF Evidence, HardIdentity, HardStatus
<1>11. Cause(x)
  <2>1. v = "Canceled" => a.aborted
    BY <1>2, <1>3, <1>5 DEF Evidence, HardIdentity, HardStatus
  <2>2. v = "accepted" <=> a.identity = "ok" /\ a.status = "ok" /\ ~a.aborted
    BY <1>3, <1>5 DEF HardIdentity, HardStatus
  <2>3. a.identity = "HTTPError" /\ v = "HTTPError" => a.status \in {"ok", "StatusUnavailable"}
    BY <1>2, <1>3, <1>5 DEF Evidence, HardIdentity, HardStatus
  <2>4. a.status = "StatusNotActive" /\ ~a.aborted =>
          v = "StatusNotActive" \/ a.identity \notin {"HTTPError", "Canceled"}
    BY <1>2, <1>3, <1>5 DEF Evidence, HardIdentity, HardStatus
  <2>5. v = "accepted" => WasActive(x) /\ k \notin ekKeySet
    <3>1. v = "accepted" => k = a.key /\ a.key \notin ekKeySet /\ WasActive(a)
      BY <1>2, <1>7, <2>2 DEF Evidence
    <3> QED  BY <1>9, <3>1 DEF WasActive
  <2> QED  BY <1>9, <2>1, <2>2, <2>3, <2>4, <2>5 DEF Cause
<1> QED  BY <1>8, <1>9, <1>10, <1>11, AcqMoves

-----------------------------------------------------------------------------
LEMMA AcquisitionStarts == ASSUME AcquisitionAssumption, AcquisitionInit PROVE AcquisitionInv
<1>1. FirstKey \in KeyOrNone /\ None \in KeyOrNone /\ FirstEvent \in EventType
  BY DEF AcquisitionAssumption, KeyOrNone, FirstEvent, EventType
<1>2. PICK e \in EventType : e = FirstEvent
  BY <1>1
<1>3. e.new = FirstKey
  BY <1>2 DEF FirstEvent
<1>4. agentLog \in Seq(EventType) /\ agentLog # <<>> /\ Len(agentLog) = 1 /\ agentLog[1] = e
  <2> HIDE DEF EventType
  <2> QED  BY <1>2 DEF AcquisitionInit
<1>5. PICK k \in SUBSET KeyOrNone : k = {FirstKey}
  BY <1>1, Zenon
<1>6. served \in Seq(SUBSET KeyOrNone) /\ served # <<>>
  BY <1>5 DEF AcquisitionInit
<1>7. Logged(active)
  BY <1>3, <1>4 DEF Logged, AcquisitionInit
<1>8. NoRotation \in RotationType
  BY <1>1 DEF NoRotation, RotationType
<1>9. /\ rotation \in [Rotations -> RotationType]
      /\ \A r \in Rotations : rotation[r].at # "activate"
  BY <1>8 DEF AcquisitionInit, NoRotation
<1>10. PublisherInv
  BY <1>1, <1>4, <1>6, <1>7, <1>9, Zenon DEF PublisherInv, AcquisitionInit
<1>11. acq \in AcquisitionType
  BY <1>1 DEF AcquisitionInit, NoAcquisition, AcquisitionType
<1>12. Evidence(acq) /\ acq.at = "idle" /\ acq.outcome = None
  BY <1>4 DEF AcquisitionInit, NoAcquisition, Evidence, None
<1> QED  BY <1>10, <1>11, <1>12 DEF AcquisitionInv, AcqInv

(* The publisher has logged what it signs with, and an acquisition has       *)
(* evidence for what its branches have passed and a cause for how it ended,  *)
(* after every step of rotateOperationalKey, of revocation and of            *)
(* acquireIdentity.                                                          *)
THEOREM AcquisitionInvariant == AcquisitionSpec => []AcquisitionInv
<1>1. AcquisitionInit => AcquisitionInv
  BY AcquisitionAssumption, AcquisitionStarts
<1>2. AcquisitionInv /\ [AcquisitionNext]_acquisitionVars => AcquisitionInv'
  <2> SUFFICES ASSUME PublisherInv, AcqInv, [AcquisitionNext]_acquisitionVars PROVE AcquisitionInv'
    BY DEF AcquisitionInv
  <2>1. CASE \/ CreateTxtRecord \/ Revoke
             \/ \E r \in Rotations :
                  \/ BeginRotation(r) \/ PublishKeySet(r) \/ SignAndWriteEvent(r)
                  \/ Activate(r) \/ Supersede(r) \/ RotationFails(r)
    <3>1. PublisherInv' /\ Grows /\ UNCHANGED <<acq, ekKeySet>>
      BY <2>1, AcquisitionAssumption, PublisherSteps
    <3>2. AcqInv'
      BY <3>1, AcqKept
    <3> QED  BY <3>1, <3>2 DEF AcquisitionInv
  <2>2. CASE UNCHANGED publisherVars
    <3>1. UNCHANGED <<active, inactive, gone, served, agentLog, rotation, ekKeySet>>
      BY <2>2 DEF publisherVars
    <3>2. PublisherInv'
      BY <3>1 DEF PublisherInv, Logged
    <3>3. CASE UNCHANGED acq
      <4>1. Grows
        BY <3>1 DEF Grows
      <4> QED  BY <3>1, <3>2, <3>3, <4>1, AcqKept DEF AcquisitionInv
    <3>4. CASE \/ BeginAcquisition \/ Lookup \/ FetchEntityKeys \/ FetchRuntimeKeys \/ ReadLog
               \/ FetchActiveStatus \/ CallerAborts \/ Settle
      BY <3>2, <3>4, BeginAcquisitionStep, LookupStep, FetchEntityKeysStep, FetchRuntimeKeysStep,
         ReadLogStep, FetchActiveStatusStep, CallerAbortsStep, SettleStep DEF AcquisitionInv
    <3>5. CASE \/ CreateTxtRecord \/ Revoke
               \/ \E r \in Rotations :
                    \/ BeginRotation(r) \/ PublishKeySet(r) \/ SignAndWriteEvent(r)
                    \/ Activate(r) \/ Supersede(r) \/ RotationFails(r)
      BY <2>1, <3>5
    <3> QED  BY <3>3, <3>4, <3>5 DEF AcquisitionNext, acquisitionVars
  <2>3. CASE \/ BeginAcquisition \/ Lookup \/ FetchEntityKeys \/ FetchRuntimeKeys \/ ReadLog
             \/ FetchActiveStatus \/ CallerAborts \/ Settle
    <3>1. UNCHANGED publisherVars
      BY <2>3, Zenon DEF BeginAcquisition, Lookup, FetchEntityKeys, FetchRuntimeKeys, ReadLog,
                  FetchActiveStatus, CallerAborts, Settle
    <3> QED  BY <2>2, <3>1
  <2>4. CASE UNCHANGED acquisitionVars
    BY <2>2, <2>4 DEF acquisitionVars
  <2> QED  BY <2>1, <2>3, <2>4 DEF AcquisitionNext
<1> QED  BY <1>1, <1>2, PTL DEF AcquisitionSpec

(* An accepted key was the log's active key, at or after the start of an     *)
(* acquisition that revalidates, and signs no records; an identity that was  *)
(* no longer ACTIVE by then is not accepted.                                 *)
THEOREM AcquiredKeysAreCurrent == AcquisitionSpec => []AcquiredIsCurrent
<1>1. AcquisitionInv => AcquiredIsCurrent
  <2> SUFFICES ASSUME AcqInv, Accepted PROVE AcquiredIsCurrent
    BY DEF AcquisitionInv, AcquiredIsCurrent
  <2>1. acq.at = "done" /\ acq.outcome = "accepted"
    BY DEF AcqInv, Accepted, None
  <2>2. WasActive(acq) /\ acq.key \notin ekKeySet /\ acq.status = "ok"
    BY <2>1 DEF AcqInv, Cause
  <2>3. acq.revalidate => ~acq.wasInactive
    BY <2>2 DEF AcqInv, Evidence
  <2> QED  BY <2>2, <2>3 DEF AcquiredIsCurrent, WasActive
<1> QED  BY <1>1, AcquisitionInvariant, PTL

(* A caller sees a cancellation only if it aborted, an acceptance only if    *)
(* both branches succeeded, and never an HTTP refusal of ku in place of the  *)
(* status that explains it.                                                  *)
THEOREM CausesAreReported == AcquisitionSpec => []CauseIsReported
<1>1. AcquisitionInv => CauseIsReported
  BY DEF AcquisitionInv, AcqInv, Cause, CauseIsReported, Accepted
<1> QED  BY <1>1, AcquisitionInvariant, PTL

(* However rotations fail and overlap, the provider signs with a key that    *)
(* the log records: rotateOperationalKey activates a key after its log write.*)
THEOREM SigningKeysAreLogged == AcquisitionSpec => []SigningKeyIsLogged
<1>1. AcquisitionInv => SigningKeyIsLogged
  BY DEF AcquisitionInv, PublisherInv, Logged, SigningKeyIsLogged
<1> QED  BY <1>1, AcquisitionInvariant, PTL

-----------------------------------------------------------------------------
(* Web Bot Auth.                                                             *)

Identity == [key : Nat, until : Nat]
VerificationState ==
  [at : {"waiting", "fetching", "serving", "resolving", "refreshing", "consuming", "consumed",
         "accepted", "rejected"},
   nonce : Nat, directory : [key : Nat, created : Int, served : Nat, started : Nat],
   identity : Identity, acceptedAt : Nat]

(* Until when the store retains a nonce: the request is not valid later.     *)
Deadline(n) == sent[n].created + SignatureTTL + ClockSkew

(* A request's nonce is in the store, or the request is no longer valid.     *)
Held(n) == n \in DOMAIN nonces \/ Deadline(n) < clock

(* An identity that was read earlier ends an identity's freshness after its  *)
(* key was replaced, at the latest.                                          *)
GoodIdentity(id, d) ==
  /\ id.until <= clock + IdentityTTL
  /\ id.key = published[d].key \/ id.until <= published[d].since + IdentityTTL

Spent(x) == x.at \in {"consumed", "accepted"}

GoodRequest(x) ==
  /\ x \in VerificationState
  /\ x.at \notin {"waiting", "rejected"} => x.nonce \in DOMAIN sent
  /\ Spent(x) => Held(x.nonce)
  /\ x.at \in {"consuming", "consumed", "accepted"} =>
       GoodIdentity(x.identity, sent[x.nonce].domain) /\ x.identity.key = sent[x.nonce].key
  /\ x.at = "accepted" => x.acceptedAt <= Deadline(x.nonce) /\ x.acceptedAt < x.identity.until

(* Of two verifications that got past the store with one request, at most    *)
(* one is accepted, and the request is not valid any more.                   *)
Apart(x, y) ==
  Spent(x) /\ Spent(y) /\ x.nonce = y.nonce =>
    Deadline(x.nonce) < clock /\ ~(x.at = "accepted" /\ y.at = "accepted")

VerificationInv ==
  /\ clock \in Nat
  /\ operational \in [Domains -> Nat]
  /\ published \in [Domains -> [key : Nat, since : Nat]]
  /\ sent \in Seq([domain : Domains, key : Nat, created : Nat])
  /\ verification \in [Verifications -> VerificationState]
  /\ nonces \in [DOMAIN nonces -> Nat]
  /\ \A n \in DOMAIN nonces : n \in DOMAIN sent /\ nonces[n] = Deadline(n)
  /\ \A v \in Verifications : GoodRequest(verification[v])
  /\ \A v, w \in Verifications : v # w => Apart(verification[v], verification[w])

CacheInv == cached \in [Domains -> Identity] /\ \A d \in Domains : GoodIdentity(cached[d], d)

(* The domains that were refreshed in the cooldown that begins at t.         *)
Window(t) == {d \in Domains : \E s \in refreshes[d] : t <= s /\ s < t + Cooldown}

(* A refresh less than a cooldown ago holds a slot.                          *)
RationInv ==
  /\ refreshes \in [Domains -> SUBSET Nat]
  /\ cooldowns \in [DOMAIN cooldowns -> Nat] /\ DOMAIN cooldowns \subseteq Domains
  /\ IsFiniteSet(DOMAIN cooldowns)
  /\ \A d \in Domains : \A s \in refreshes[d] :
       /\ s <= clock
       /\ s + Cooldown <= clock \/ (d \in DOMAIN cooldowns /\ s + Cooldown <= cooldowns[d])
  /\ \A d \in Domains : \A s, t \in refreshes[d] : s < t => t - s >= Cooldown
  /\ \A t \in 0 .. MaxClock :
       IsFiniteSet(Window(t)) /\ Cardinality(Window(t)) <= CooldownSlots

WbaInv == VerificationInv /\ CacheInv /\ RationInv
-----------------------------------------------------------------------------
LEMMA WbaConstants ==
  /\ NoIdentity \in Identity /\ Waiting \in VerificationState /\ Rejected \in VerificationState
  /\ Waiting.at = "waiting" /\ Rejected.at = "rejected"
<1>1. NoIdentity \in Identity
  BY DEF NoIdentity, Identity
<1>2. NoDirectory \in [key : Nat, created : Int, served : Nat, started : Nat]
  BY DEF NoDirectory
<1>3. Waiting \in VerificationState /\ Waiting.at = "waiting"
  BY <1>1, <1>2 DEF Waiting, VerificationState
<1>4. Rejected \in VerificationState /\ Rejected.at = "rejected"
  BY <1>3 DEF Rejected, VerificationState
<1> QED  BY <1>1, <1>3, <1>4

LEMMA RejectedIsGood == GoodRequest(Waiting) /\ GoodRequest(Rejected)
  BY WbaConstants DEF GoodRequest, Spent

LEMMA InitWbaInv == ASSUME WbaAssumption, WbaInit PROVE WbaInv
<1>1. VerificationInv
  <2>1. sent \in Seq([domain : Domains, key : Nat, created : Nat]) /\ nonces \in [DOMAIN nonces -> Nat]
        /\ DOMAIN nonces = {}
    BY DEF WbaInit
  <2>2. \A v \in Verifications : verification[v] = Waiting
    BY DEF WbaInit
  <2>3. verification \in [Verifications -> VerificationState]
    BY WbaConstants DEF WbaInit
  <2>4. clock \in Nat /\ operational \in [Domains -> Nat]
        /\ published \in [Domains -> [key : Nat, since : Nat]]
    BY Zenon DEF WbaInit
  <2>5. \A v, w \in Verifications : Apart(verification[v], verification[w])
    BY <2>2, WbaConstants DEF Apart, Spent
  <2> QED  BY <2>1, <2>2, <2>3, <2>4, <2>5, RejectedIsGood DEF VerificationInv
<1>2. CacheInv
  BY WbaConstants DEF WbaInit, CacheInv, GoodIdentity, NoIdentity, WbaAssumption
<1>3. RationInv
  <2>1. refreshes = [d \in Domains |-> {}] /\ cooldowns = [d \in {} |-> 0]
    BY DEF WbaInit
  <2>2. DOMAIN cooldowns = {} /\ cooldowns \in [DOMAIN cooldowns -> Nat]
    BY <2>1
  <2>3. ASSUME NEW t \in 0 .. MaxClock
        PROVE  IsFiniteSet(Window(t)) /\ Cardinality(Window(t)) <= CooldownSlots
    <3>1. Window(t) = {}
      BY <2>1 DEF Window
    <3> QED  BY <3>1, FS_EmptySet DEF WbaAssumption
  <2> QED  BY <2>1, <2>2, <2>3, FS_EmptySet, Zenon DEF RationInv
<1> QED  BY <1>1, <1>2, <1>3 DEF WbaInv

LEMMA ApartIsMutual == ASSUME NEW x, NEW y, Apart(x, y) PROVE Apart(y, x)
  BY DEF Apart

(* A step of one verification that leaves the nonces alone.                  *)
LEMMA VerificationMoves ==
  ASSUME VerificationInv, NEW v \in Verifications, NEW x, GoodRequest(x),
         \A w \in Verifications : w # v => Apart(x, verification[w]),
         verification' = [verification EXCEPT ![v] = x],
         UNCHANGED <<clock, operational, published, sent, nonces>>
  PROVE  VerificationInv'
<1>1. x \in VerificationState
  BY Zenon DEF GoodRequest
<1>2. verification' \in [Verifications -> VerificationState] /\ verification'[v] = x
      /\ \A w \in Verifications : w # v => verification'[w] = verification[w]
  BY <1>1 DEF VerificationInv
<1>4. \A w \in Verifications : GoodRequest(verification[w])'
  BY <1>2, Zenon DEF VerificationInv, GoodRequest, Held, Deadline, GoodIdentity, Spent
<1>5. \A u, w \in Verifications : u # w => Apart(verification'[u], verification'[w])
  BY <1>2, ApartIsMutual DEF VerificationInv
<1>6. \A u, w \in Verifications : u # w => Apart(verification[u], verification[w])'
  BY <1>5 DEF Apart, Deadline, Spent
<1>7. \A n \in DOMAIN nonces' : n \in DOMAIN sent' /\ nonces'[n] = Deadline(n)'
  BY DEF VerificationInv, Deadline
<1> QED  BY <1>2, <1>4, <1>6, <1>7 DEF VerificationInv

LEMMA UnspentMoves ==
  ASSUME VerificationInv, NEW v \in Verifications, NEW x, GoodRequest(x), ~Spent(x),
         verification' = [verification EXCEPT ![v] = x],
         UNCHANGED <<clock, operational, published, sent, nonces>>
  PROVE  VerificationInv'
<1>1. \A w \in Verifications : Apart(x, verification[w])
  BY DEF Apart
<1> QED  BY <1>1, VerificationMoves, Zenon

LEMMA RejectedMovesOn ==
  ASSUME VerificationInv, NEW v \in Verifications,
         verification' = [verification EXCEPT ![v] = Rejected],
         UNCHANGED <<clock, operational, published, sent, nonces>>
  PROVE  VerificationInv'
<1>1. ~Spent(Rejected)
  BY WbaConstants DEF Spent
<1> QED  BY <1>1, RejectedIsGood, UnspentMoves, Zenon

LEMMA ElementIsTyped ==
  ASSUME NEW S, NEW q \in Seq(S), NEW n \in DOMAIN q
  PROVE  n \in Nat /\ q[n] \in S
<1>1. DOMAIN q = 1 .. Len(q) /\ Len(q) \in Nat /\ q \in [1 .. Len(q) -> S]
  OBVIOUS
<1> QED  BY <1>1

LEMMA AppendKeeps ==
  ASSUME NEW S, NEW q \in Seq(S), NEW e \in S
  PROVE  Append(q, e) \in Seq(S) /\ \A n \in DOMAIN q : n \in DOMAIN Append(q, e) /\ Append(q, e)[n] = q[n]
  OBVIOUS

LEMMA RequestIsTyped ==
  ASSUME VerificationInv, NEW n \in DOMAIN sent
  PROVE  n \in Nat /\ sent[n].domain \in Domains /\ sent[n].key \in Nat /\ sent[n].created \in Nat
<1>1. sent \in Seq([domain : Domains, key : Nat, created : Nat])
  BY DEF VerificationInv
<1>2. n \in Nat /\ sent[n] \in [domain : Domains, key : Nat, created : Nat]
  BY <1>1, ElementIsTyped, Zenon
<1> QED  BY <1>2

(* The steps before the identity is resolved.                                *)
LEMMA EarlySteps ==
  ASSUME WbaAssumption, VerificationInv, NEW v \in Verifications,
         \/ \E n \in DOMAIN sent : VerifyBegins(v, n)
         \/ ServeBegins(v) \/ ReceiveDirectory(v) \/ VerifyFails(v)
  PROVE  VerificationInv'
<1>0. /\ UNCHANGED <<clock, operational, published, sent, nonces>> /\ clock \in Nat
      /\ verification[v] \in VerificationState /\ GoodRequest(verification[v])
      /\ verification \in [Verifications -> VerificationState]
  BY Zenon DEF VerifyBegins, ServeBegins, ReceiveDirectory, VerifyFails, VerificationInv
<1>1. CASE verification' = [verification EXCEPT ![v] = Rejected]
  BY <1>0, <1>1, RejectedMovesOn, Zenon
<1>2. ASSUME NEW n \in DOMAIN sent,
             verification' = [verification EXCEPT ![v] =
               [Waiting EXCEPT !.at = "fetching", !.nonce = n, !.directory.started = clock]]
      PROVE  VerificationInv'
  <2> DEFINE x == [Waiting EXCEPT !.at = "fetching", !.nonce = n, !.directory.started = clock]
  <2>1. n \in Nat
    BY RequestIsTyped, Zenon
  <2>2. x \in VerificationState /\ x.at = "fetching" /\ x.nonce = n
    BY <1>0, <2>1, WbaConstants, Zenon DEF VerificationState
  <2>3. verification' = [verification EXCEPT ![v] = x]
    BY <1>2, Zenon
  <2> HIDE DEF x
  <2>4. GoodRequest(x) /\ ~Spent(x)
    BY <2>2 DEF GoodRequest, Spent
  <2> QED  BY <1>0, <2>3, <2>4, UnspentMoves, Zenon
<1>3. CASE ServeBegins(v)
  <2> DEFINE k == operational[Request(v).domain]
             x == [verification[v] EXCEPT !.at = "serving", !.directory.key = k,
                     !.directory.created = clock - Backdating, !.directory.served = clock]
  <2>1. verification[v].at = "fetching" /\ verification[v].nonce \in DOMAIN sent
    BY <1>0, <1>3 DEF ServeBegins, VerificationAt, GoodRequest
  <2>2. k \in Nat
    <3>1. Request(v).domain \in Domains
      BY <2>1, RequestIsTyped, Zenon DEF Request
    <3> QED  BY <3>1 DEF VerificationInv
  <2>3. clock - Backdating \in Int
    BY <1>0 DEF Backdating, WbaAssumption
  <2>4. verification' = [verification EXCEPT ![v] = x]
    BY <1>0, <1>3, Zenon DEF ServeBegins
  <2> HIDE DEF k
  <2>5. x \in VerificationState /\ x.at = "serving" /\ x.nonce = verification[v].nonce
    BY <1>0, <2>2, <2>3, Zenon DEF VerificationState
  <2> HIDE DEF x
  <2>6. GoodRequest(x) /\ ~Spent(x)
    BY <2>1, <2>5, Zenon DEF GoodRequest, Spent
  <2> QED  BY <1>0, <2>4, <2>6, UnspentMoves, Zenon
<1>4. CASE ReceiveDirectory(v)
  <2> DEFINE x == [verification[v] EXCEPT !.at = "resolving"]
  <2>1. verification[v].at = "serving" /\ verification[v].nonce \in DOMAIN sent
    BY <1>0, <1>4 DEF ReceiveDirectory, VerificationAt, GoodRequest
  <2>2. x \in VerificationState /\ x.at = "resolving" /\ x.nonce = verification[v].nonce
    BY <1>0 DEF VerificationState
  <2>3. \/ verification' = [verification EXCEPT ![v] = x]
        \/ verification' = [verification EXCEPT ![v] = Rejected]
    BY <1>0, <1>4, Zenon DEF ReceiveDirectory
  <2> HIDE DEF x
  <2>4. GoodRequest(x) /\ ~Spent(x)
    BY <2>1, <2>2, Zenon DEF GoodRequest, Spent
  <2> QED  BY <1>0, <1>1, <2>3, <2>4, UnspentMoves, Zenon
<1>5. CASE VerifyFails(v)
  BY <1>1, <1>5 DEF VerifyFails
<1>6. ASSUME NEW n \in DOMAIN sent, VerifyBegins(v, n) PROVE VerificationInv'
  BY <1>1, <1>2, <1>6, Zenon DEF VerifyBegins
<1> QED  BY <1>3, <1>4, <1>5, <1>6

(* The request's identity: what the domain publishes now is good, and so is  *)
(* what the resolver has cached of it.                                       *)
LEMMA ResolvedIsGood ==
  ASSUME WbaAssumption, VerificationInv, CacheInv, NEW d \in Domains
  PROVE  /\ Published(d) \in Identity /\ GoodIdentity(Published(d), d)
         /\ Resolved(d) \in Identity /\ GoodIdentity(Resolved(d), d)
<1>1. clock \in Nat /\ IdentityTTL \in Nat /\ published[d].key \in Nat
  BY DEF VerificationInv, WbaAssumption
<1>2. Published(d) \in Identity /\ GoodIdentity(Published(d), d)
  BY <1>1 DEF Published, Identity, GoodIdentity
<1>3. cached[d] \in Identity /\ GoodIdentity(cached[d], d)
  BY DEF CacheInv
<1> QED  BY <1>2, <1>3 DEF Resolved

LEMMA CacheMoves ==
  ASSUME CacheInv, NEW d \in Domains, NEW id \in Identity, GoodIdentity(id, d),
         cached' = [cached EXCEPT ![d] = id], UNCHANGED <<clock, published>>
  PROVE  CacheInv'
  BY DEF CacheInv, GoodIdentity

(* A verification goes on to the store with an identity that states the      *)
(* request's key, or to refresh the identity.                                *)
LEMMA ConsumingMoves ==
  ASSUME VerificationInv, NEW v \in Verifications, NEW id \in Identity,
         verification[v].nonce \in DOMAIN sent, NEW at \in {"consuming", "refreshing"},
         at = "consuming" =>
           /\ GoodIdentity(id, sent[verification[v].nonce].domain)
           /\ id.key = sent[verification[v].nonce].key,
         verification' = [verification EXCEPT ![v] =
           [verification[v] EXCEPT !.identity = id, !.at = at]],
         UNCHANGED <<clock, operational, published, sent, nonces>>
  PROVE  VerificationInv'
<1> DEFINE x == [verification[v] EXCEPT !.identity = id, !.at = at]
<1>1. verification[v] \in VerificationState
  BY DEF VerificationInv
<1>2. x \in VerificationState /\ x.at = at /\ x.nonce = verification[v].nonce /\ x.identity = id
  BY <1>1, Zenon DEF VerificationState
<1>3. verification' = [verification EXCEPT ![v] = x]
  OBVIOUS
<1> HIDE DEF x
<1>4. GoodRequest(x) /\ ~Spent(x)
  BY <1>2 DEF GoodRequest, Spent
<1> QED  BY <1>3, <1>4, UnspentMoves, Zenon

(* Progress of the request and the cache when the identity is resolved.      *)
LEMMA ResolveMoves ==
  ASSUME WbaAssumption, VerificationInv, CacheInv, NEW v \in Verifications, ResolveIdentity(v)
  PROVE  VerificationInv' /\ CacheInv'
<1> DEFINE d == Request(v).domain
           id == Resolved(d)
<1>0. UNCHANGED <<clock, operational, published, sent, nonces>>
  BY DEF ResolveIdentity
<1>1. verification[v].nonce \in DOMAIN sent
  BY Zenon DEF ResolveIdentity, VerificationAt, VerificationInv, GoodRequest
<1>2. d \in Domains
  BY <1>1, RequestIsTyped DEF Request
<1>3. id \in Identity /\ GoodIdentity(id, d)
  BY <1>2, ResolvedIsGood
<1>4. cached' = [cached EXCEPT ![d] = id]
  BY DEF ResolveIdentity
<1>5. \/ verification' = [verification EXCEPT ![v] = Rejected]
      \/ /\ id.key = Request(v).key
         /\ verification' = [verification EXCEPT ![v] =
              [verification[v] EXCEPT !.identity = id, !.at = "consuming"]]
      \/ verification' = [verification EXCEPT ![v] =
           [verification[v] EXCEPT !.identity = id, !.at = "refreshing"]]
  BY DEF ResolveIdentity, Bound
<1>6. d = sent[verification[v].nonce].domain /\ Request(v).key = sent[verification[v].nonce].key
  BY DEF Request
<1> HIDE DEF d, id
<1>7. CacheInv'
  BY <1>0, <1>2, <1>3, <1>4, CacheMoves, Zenon
<1>8. CASE verification' = [verification EXCEPT ![v] = Rejected]
  BY <1>0, <1>7, <1>8, RejectedMovesOn, Zenon
<1>9. ASSUME NEW at \in {"consuming", "refreshing"}, at = "consuming" => id.key = Request(v).key,
             verification' = [verification EXCEPT ![v] =
               [verification[v] EXCEPT !.identity = id, !.at = at]]
      PROVE  VerificationInv'
  <2>1. PICK i \in Identity : i = id
    BY <1>3
  <2> QED  BY <1>0, <1>1, <1>3, <1>6, <1>9, <2>1, ConsumingMoves, Zenon
<1> QED  BY <1>5, <1>7, <1>8, <1>9

LEMMA RefreshMoves ==
  ASSUME WbaAssumption, VerificationInv, CacheInv, NEW v \in Verifications, RefreshIdentity(v)
  PROVE  VerificationInv' /\ CacheInv'
<1> DEFINE d == Request(v).domain
           id == Published(d)
<1>0. UNCHANGED <<clock, operational, published, sent, nonces>>
      /\ verification \in [Verifications -> VerificationState]
  BY DEF RefreshIdentity, VerificationInv
<1>1. verification[v].nonce \in DOMAIN sent
  BY Zenon DEF RefreshIdentity, VerificationAt, VerificationInv, GoodRequest
<1>2. d \in Domains
  BY <1>1, RequestIsTyped, Zenon DEF Request
<1>3. id \in Identity /\ GoodIdentity(id, d)
  BY <1>2, ResolvedIsGood
<1>4. cached' = [cached EXCEPT ![d] = id]
  BY DEF RefreshIdentity
<1>5. \/ verification' = [verification EXCEPT ![v] = Rejected]
      \/ /\ id.key = Request(v).key
         /\ verification' = [verification EXCEPT ![v] =
              [verification[v] EXCEPT !.identity = id, !.at = "consuming"]]
  <2>1. verification[v] \in VerificationState
    BY <1>0
  <2>2. [verification[v] EXCEPT !.at = "consuming", !.identity = id]
          = [verification[v] EXCEPT !.identity = id, !.at = "consuming"]
    BY <2>1, Zenon DEF VerificationState
  <2>3. CASE Fresh(v, id) /\ Bound(v, id)
    <3>1. verification' = [verification EXCEPT ![v] =
            [verification[v] EXCEPT !.at = "consuming", !.identity = id]]
      BY <1>0, <2>3 DEF RefreshIdentity
    <3> QED  BY <2>2, <2>3, <3>1, Zenon DEF Bound
  <2>4. CASE ~(Fresh(v, id) /\ Bound(v, id))
    BY <1>0, <2>4, Zenon DEF RefreshIdentity
  <2> QED  BY <2>3, <2>4
<1>6. d = sent[verification[v].nonce].domain /\ Request(v).key = sent[verification[v].nonce].key
  BY DEF Request
<1> HIDE DEF d, id
<1>7. CacheInv'
  BY <1>0, <1>2, <1>3, <1>4, CacheMoves, Zenon
<1>8. CASE verification' = [verification EXCEPT ![v] = Rejected]
  BY <1>0, <1>7, <1>8, RejectedMovesOn, Zenon
<1>9. CASE /\ id.key = Request(v).key
           /\ verification' = [verification EXCEPT ![v] =
                [verification[v] EXCEPT !.identity = id, !.at = "consuming"]]
  <2>1. PICK i \in Identity : i = id
    BY <1>3
  <2>2. PICK at \in {"consuming", "refreshing"} : at = "consuming"
    OBVIOUS
  <2> QED  BY <1>0, <1>1, <1>3, <1>6, <1>7, <1>9, <2>1, <2>2, ConsumingMoves, Zenon
<1> QED  BY <1>5, <1>8, <1>9

(* The store has answered: another verification that got past it with the    *)
(* same request would mean that the request is not valid any more.           *)
LEMMA AcceptMoves ==
  ASSUME WbaAssumption, VerificationInv, NEW v \in Verifications, Accept(v)
  PROVE  VerificationInv'
<1> DEFINE y == verification[v]
           x == [y EXCEPT !.at = "accepted", !.acceptedAt = clock, !.directory = NoDirectory]
<1>0. /\ UNCHANGED <<clock, operational, published, sent, nonces>> /\ clock \in Nat
      /\ verification \in [Verifications -> VerificationState]
      /\ y \in VerificationState /\ y.at = "consumed" /\ GoodRequest(y)
  BY DEF Accept, VerificationAt, VerificationInv
<1>1. CASE ~Fresh(v, y.identity)
  BY <1>0, <1>1, RejectedMovesOn, Zenon DEF Accept
<1>2. CASE Fresh(v, y.identity)
  <2>1. verification' = [verification EXCEPT ![v] = x]
    BY <1>0, <1>2 DEF Accept
  <2>2. NoDirectory \in [key : Nat, created : Int, served : Nat, started : Nat]
    BY DEF NoDirectory
  <2>3. /\ x \in VerificationState /\ x.at = "accepted" /\ x.nonce = y.nonce
        /\ x.identity = y.identity /\ x.acceptedAt = clock
    BY <1>0, <2>2, Zenon DEF VerificationState
  <2>4. clock <= Deadline(y.nonce) /\ clock < y.identity.until
    BY <1>2 DEF Fresh, RequestValid, Request, Deadline
  <2>5. y.nonce \in DOMAIN sent /\ Held(y.nonce)
    BY <1>0, Zenon DEF GoodRequest, Spent
  <2>6. Deadline(y.nonce) \in Nat
    BY <2>5, RequestIsTyped DEF Deadline, WbaAssumption
  <2> HIDE DEF x
  <2>7. GoodRequest(x)
    BY <1>0, <2>3, <2>4, Zenon DEF GoodRequest, Spent
  <2>8. ASSUME NEW w \in Verifications, w # v PROVE Apart(x, verification[w])
    <3>1. Apart(y, verification[w])
      BY <2>8 DEF VerificationInv
    <3>2. ~(Deadline(y.nonce) < clock)
      BY <1>0, <2>4, <2>6, SMTT(20)
    <3>3. ~(Spent(verification[w]) /\ y.nonce = verification[w].nonce)
      BY <1>0, <3>1, <3>2, Zenon DEF Apart, Spent
    <3> QED  BY <2>3, <3>3, Zenon DEF Apart
  <2> HIDE DEF y
  <2> QED  BY <1>0, <2>1, <2>7, <2>8, VerificationMoves, Zenon
<1> QED  BY <1>1, <1>2

(* What steps of the other actors leave of an identity and of a request:     *)
(* requests are not changed, the clock advances, a key that is published     *)
(* replaces one from now on, and a nonce is forgotten after its deadline.    *)
Surroundings ==
  /\ clock' \in Nat /\ clock <= clock'
  /\ \A n \in DOMAIN sent : n \in DOMAIN sent' /\ sent'[n] = sent[n]
  /\ \A n \in DOMAIN nonces : n \in DOMAIN nonces' \/ Deadline(n) < clock
  /\ \A d \in Domains : published'[d] = published[d] \/ published'[d].since = clock

LEMMA IdentityKept ==
  ASSUME WbaAssumption, VerificationInv, Surroundings, NEW d \in Domains, NEW id \in Identity,
         GoodIdentity(id, d)
  PROVE  GoodIdentity(id, d)'
<1>1. clock \in Nat /\ clock' \in Nat /\ clock <= clock' /\ IdentityTTL \in Nat /\ id.until \in Nat
  BY DEF VerificationInv, Surroundings, WbaAssumption, Identity
<1>2. id.until <= clock + IdentityTTL
  BY DEF GoodIdentity
<1>3. id.until <= clock' + IdentityTTL
  BY <1>1, <1>2
<1>4. CASE published'[d] = published[d]
  BY <1>3, <1>4 DEF GoodIdentity
<1>5. CASE published'[d].since = clock
  BY <1>2, <1>3, <1>5 DEF GoodIdentity
<1> QED  BY <1>4, <1>5 DEF Surroundings

LEMMA DeadlineKept ==
  ASSUME WbaAssumption, VerificationInv, Surroundings, NEW n \in DOMAIN sent
  PROVE  /\ Deadline(n)' = Deadline(n) /\ Deadline(n) \in Nat
         /\ Held(n) => Held(n)'
         /\ Deadline(n) < clock => Deadline(n)' < clock'
<1>1. Deadline(n)' = Deadline(n)
  BY DEF Deadline, Surroundings
<1>2. Deadline(n) \in Nat /\ clock \in Nat /\ clock' \in Nat /\ clock <= clock'
  <2>1. sent[n].created \in Nat /\ SignatureTTL \in Nat /\ ClockSkew \in Nat
    BY RequestIsTyped DEF WbaAssumption
  <2>2. Deadline(n) \in Nat
    BY <2>1 DEF Deadline
  <2> QED  BY <2>2 DEF VerificationInv, Surroundings
<1>3. Deadline(n) < clock => Deadline(n)' < clock'
  BY <1>1, <1>2
<1>4. Held(n) => Held(n)'
  BY <1>3 DEF Held, Surroundings
<1> QED  BY <1>1, <1>2, <1>3, <1>4

LEMMA RequestKept ==
  ASSUME WbaAssumption, VerificationInv, Surroundings, NEW x, GoodRequest(x)
  PROVE  GoodRequest(x)'
<1>1. x \in VerificationState /\ x.identity \in Identity
  BY DEF GoodRequest, VerificationState
<1>2. CASE x.at \in {"waiting", "rejected"}
  BY <1>1, <1>2, Zenon DEF GoodRequest, Spent
<1>3. CASE x.at \notin {"waiting", "rejected"}
  <2> DEFINE n == x.nonce
  <2>1. n \in DOMAIN sent /\ n \in DOMAIN sent' /\ sent'[n] = sent[n] /\ sent[n].domain \in Domains
    BY <1>3, RequestIsTyped, Zenon DEF GoodRequest, Surroundings
  <2>2. Deadline(n)' = Deadline(n) /\ (Held(n) => Held(n)')
    BY <2>1, DeadlineKept, Zenon
  <2>3. GoodIdentity(x.identity, sent[n].domain) => GoodIdentity(x.identity, sent[n].domain)'
    <3>1. PICK d \in Domains : d = sent[n].domain
      BY <2>1
    <3>2. GoodIdentity(x.identity, d) => GoodIdentity(x.identity, d)'
      BY <1>1, IdentityKept
    <3> QED  BY <2>1, <3>1, <3>2 DEF GoodIdentity
  <2> QED  BY <1>1, <2>1, <2>2, <2>3, Zenon DEF GoodRequest, Spent, GoodIdentity
<1> QED  BY <1>2, <1>3, Zenon

LEMMA ApartKept ==
  ASSUME WbaAssumption, VerificationInv, Surroundings, NEW x, NEW y, GoodRequest(x), Apart(x, y)
  PROVE  Apart(x, y)'
<1>1. ASSUME Spent(x) PROVE x.nonce \in DOMAIN sent
  BY <1>1, Zenon DEF GoodRequest, Spent
<1> QED  BY <1>1, DeadlineKept, Zenon DEF Apart, Spent

LEMMA SurroundingsMove ==
  ASSUME WbaAssumption, VerificationInv, Surroundings, UNCHANGED verification,
         operational' \in [Domains -> Nat],
         published' \in [Domains -> [key : Nat, since : Nat]],
         sent' \in Seq([domain : Domains, key : Nat, created : Nat]),
         nonces' \in [DOMAIN nonces' -> Nat],
         \A n \in DOMAIN nonces' : n \in DOMAIN nonces /\ nonces'[n] = nonces[n]
  PROVE  VerificationInv'
<1>1. ASSUME NEW v \in Verifications PROVE GoodRequest(verification[v])'
  <2>1. PICK x : x = verification[v] /\ x = verification'[v]
    OBVIOUS
  <2>2. GoodRequest(x)'
    BY <2>1, RequestKept DEF VerificationInv
  <2> QED  BY <2>1, <2>2
<1>2. ASSUME NEW v \in Verifications, NEW w \in Verifications, v # w
      PROVE  Apart(verification[v], verification[w])'
  <2>1. PICK x, y : x = verification[v] /\ x = verification'[v] /\ y = verification[w] /\ y = verification'[w]
    OBVIOUS
  <2>2. Apart(x, y)'
    BY <1>2, <2>1, ApartKept, Zenon DEF VerificationInv
  <2> QED  BY <2>1, <2>2
<1>3. \A n \in DOMAIN nonces' : n \in DOMAIN sent' /\ nonces'[n] = Deadline(n)'
  BY DeadlineKept, Zenon DEF VerificationInv, Surroundings
<1>4. clock' \in Nat /\ verification' \in [Verifications -> VerificationState]
  BY DEF VerificationInv, Surroundings
<1> QED  BY <1>1, <1>2, <1>3, <1>4 DEF VerificationInv

(* The store takes a nonce that it does not hold: whoever got past it with   *)
(* the same request did so before the request's deadline passed.             *)
LEMMA ConsumeMoves ==
  ASSUME WbaAssumption, VerificationInv, NEW v \in Verifications, ConsumeNonce(v)
  PROVE  VerificationInv'
<1> PICK y : y = verification[v]
  OBVIOUS
<1> PICK n : n = y.nonce
  OBVIOUS
<1> PICK x : x = [y EXCEPT !.at = "consumed"]
  BY Zenon
<1>0. /\ UNCHANGED <<clock, operational, published, sent>> /\ clock \in Nat
      /\ verification \in [Verifications -> VerificationState]
      /\ y \in VerificationState /\ y.at = "consuming" /\ GoodRequest(y)
  BY DEF ConsumeNonce, VerificationAt, VerificationInv
<1>1. CASE n \in DOMAIN nonces
  BY <1>0, <1>1, RejectedMovesOn DEF ConsumeNonce
<1>2. CASE n \notin DOMAIN nonces
  <2>1. n \in DOMAIN sent
    BY <1>0 DEF GoodRequest
  <2>2. /\ nonces' = [k \in DOMAIN nonces \cup {n} |-> IF k = n THEN Deadline(n) ELSE nonces[k]]
        /\ verification' = [verification EXCEPT ![v] = x]
    BY <1>0, <1>2 DEF ConsumeNonce, Deadline
  <2>3. /\ DOMAIN nonces' = DOMAIN nonces \cup {n} /\ nonces'[n] = Deadline(n)
        /\ \A k \in DOMAIN nonces : nonces'[k] = nonces[k]
    BY <1>2, <2>2
  <2>4. Surroundings
    BY <1>0, <2>3 DEF Surroundings
  <2>5. Deadline(n) \in Nat
    BY <2>1, <2>4, DeadlineKept
  <2>6. nonces' \in [DOMAIN nonces' -> Nat]
    BY <2>2, <2>3, <2>5 DEF VerificationInv
  <2>7. \A k \in DOMAIN nonces' : k \in DOMAIN sent' /\ nonces'[k] = Deadline(k)'
    BY <1>0, <2>1, <2>3, Zenon DEF VerificationInv, Deadline
  <2>8. /\ x \in VerificationState /\ x.at = "consumed" /\ x.nonce = n /\ x.identity = y.identity
    BY <1>0 DEF VerificationState
  <2>9. GoodRequest(x)'
    <3>1. Held(n)'
      BY <2>3 DEF Held
    <3>2. GoodIdentity(y.identity, sent[n].domain)' /\ y.identity.key = sent[n].key
      BY <1>0 DEF GoodRequest, GoodIdentity
    <3> QED  BY <1>0, <2>1, <2>8, <3>1, <3>2 DEF GoodRequest, Spent, GoodIdentity
  <2>10. \A w \in Verifications : w # v => verification'[w] = verification[w]
    BY <1>0, <2>2
  <2>11. verification'[v] = x /\ verification' \in [Verifications -> VerificationState]
    BY <1>0, <2>2, <2>8
  <2>12. ASSUME NEW w \in Verifications PROVE GoodRequest(verification[w])'
    <3>1. PICK z : z = verification'[w]
      OBVIOUS
    <3>2. CASE w = v
      BY <2>9, <2>11, <3>2
    <3>3. CASE w # v
      <4>1. GoodRequest(z)'
        BY <2>4, <2>10, <3>1, <3>3, RequestKept, Zenon DEF VerificationInv
      <4> QED  BY <3>1, <4>1
    <3> QED  BY <3>2, <3>3
  <2>13. ASSUME NEW w \in Verifications, w # v PROVE Apart(x, verification[w])'
    <3>1. PICK z : z = verification[w] /\ z = verification'[w]
      BY <2>10, <2>13
    <3>2. ASSUME Spent(z), z.nonce = n PROVE Deadline(n) < clock
      <4>1. GoodRequest(z)
        BY <3>1, Zenon DEF VerificationInv
      <4> QED  BY <1>2, <3>2, <4>1 DEF GoodRequest, Held
    <3> QED  BY <1>0, <2>8, <3>1, <3>2 DEF Apart, Spent, Deadline
  <2>14. ASSUME NEW u \in Verifications, NEW w \in Verifications, u # w
         PROVE  Apart(verification[u], verification[w])'
    <3>1. CASE u = v
      BY <2>11, <2>13, <2>14, <3>1, Zenon DEF Apart, Deadline, Spent
    <3>2. CASE w = v
      BY <2>11, <2>13, <2>14, <3>2, Zenon DEF Apart, Deadline, Spent
    <3>3. CASE u # v /\ w # v
      BY <1>0, <2>10, <2>14, <3>3, Zenon DEF VerificationInv, Apart, Deadline, Spent
    <3> QED  BY <3>1, <3>2, <3>3
  <2> QED  BY <1>0, <2>6, <2>7, <2>11, <2>12, <2>14, Zenon DEF VerificationInv
<1> QED  BY <1>1, <1>2

(* The steps of the agents, of the store and of the clock.                   *)
LEMMA OthersMove ==
  ASSUME WbaAssumption, VerificationInv, CacheInv,
         \/ \E d \in Domains : SignRequest(d) \/ RotateKey(d) \/ PublishKey(d)
         \/ \E n \in DOMAIN nonces : ForgetNonce(n)
         \/ ClockTicks \/ UNCHANGED wbaVars
  PROVE  /\ VerificationInv' /\ CacheInv' /\ clock' \in Nat /\ clock <= clock'
         /\ UNCHANGED <<cooldowns, refreshes>>
<1> DEFINE Request0 == [domain : Domains, key : Nat, created : Nat]
<1>0. /\ clock \in Nat /\ operational \in [Domains -> Nat]
      /\ published \in [Domains -> [key : Nat, since : Nat]]
      /\ sent \in Seq(Request0) /\ nonces \in [DOMAIN nonces -> Nat]
  BY Zenon DEF VerificationInv
<1>1. UNCHANGED <<verification, cached, cooldowns, refreshes>>
  BY Zenon DEF SignRequest, RotateKey, PublishKey, ForgetNonce, ClockTicks, wbaVars
<1>2. clock' \in Nat /\ clock <= clock'
  <2>1. clock' \in {clock, clock + 1}
    BY Zenon DEF SignRequest, RotateKey, PublishKey, ForgetNonce, ClockTicks, wbaVars
  <2> QED  BY <1>0, <2>1
<1>3. ASSUME Surroundings PROVE CacheInv'
  <2>1. ASSUME NEW d \in Domains PROVE GoodIdentity(cached[d], d)'
    <3>1. PICK id \in Identity : id = cached[d] /\ id = cached'[d]
      BY <1>1 DEF CacheInv
    <3>2. GoodIdentity(id, d)'
      BY <1>3, <3>1, IdentityKept, Zenon DEF CacheInv
    <3> QED  BY <3>1, <3>2
  <2> QED  BY <1>1, <2>1, Zenon DEF CacheInv
<1>4. ASSUME NEW d \in Domains, SignRequest(d) PROVE VerificationInv' /\ CacheInv'
  <2> DEFINE q == [domain |-> d, key |-> operational[d], created |-> clock]
  <2>1. q \in Request0
    BY <1>0
  <2>2. sent' = Append(sent, q) /\ UNCHANGED <<clock, operational, published, nonces>>
    BY <1>4 DEF SignRequest
  <2> HIDE DEF q, Request0
  <2>3. sent' \in Seq(Request0) /\ \A n \in DOMAIN sent : n \in DOMAIN sent' /\ sent'[n] = sent[n]
    BY <1>0, <2>1, <2>2, AppendKeeps, SMTT(20)
  <2>4. Surroundings
    BY <1>0, <2>2, <2>3, SMTT(20) DEF Surroundings
  <2> USE DEF Request0
  <2> QED  BY <1>0, <1>1, <1>3, <2>2, <2>3, <2>4, SurroundingsMove, Zenon
<1>5. ASSUME NEW d \in Domains, RotateKey(d) PROVE VerificationInv' /\ CacheInv'
  <2>1. operational' \in [Domains -> Nat] /\ UNCHANGED <<clock, published, sent, nonces>>
    BY <1>0, <1>5 DEF RotateKey
  <2>2. Surroundings
    BY <1>0, <2>1, SMTT(20) DEF Surroundings
  <2> QED  BY <1>0, <1>1, <1>3, <2>1, <2>2, SurroundingsMove, Zenon
<1>6. ASSUME NEW d \in Domains, PublishKey(d) PROVE VerificationInv' /\ CacheInv'
  <2> DEFINE p == [key |-> operational[d], since |-> clock]
  <2>1. p \in [key : Nat, since : Nat] /\ p.since = clock
    BY <1>0, Zenon
  <2>2. published' = [published EXCEPT ![d] = p] /\ UNCHANGED <<clock, operational, sent, nonces>>
    BY <1>6 DEF PublishKey
  <2> HIDE DEF p
  <2>3. /\ published' \in [Domains -> [key : Nat, since : Nat]]
        /\ \A e \in Domains : published'[e] = published[e] \/ published'[e].since = clock
    BY <1>0, <2>1, <2>2
  <2>4. Surroundings
    BY <1>0, <2>2, <2>3, SMTT(20) DEF Surroundings
  <2> QED  BY <1>0, <1>1, <1>3, <2>2, <2>3, <2>4, SurroundingsMove, Zenon
<1>7. ASSUME NEW n \in DOMAIN nonces, ForgetNonce(n) PROVE VerificationInv' /\ CacheInv'
  <2>1. /\ nonces' = [k \in DOMAIN nonces \ {n} |-> nonces[k]] /\ nonces[n] < clock
        /\ UNCHANGED <<clock, operational, published, sent>>
    BY <1>7, Zenon DEF ForgetNonce
  <2>2. /\ DOMAIN nonces' = DOMAIN nonces \ {n} /\ nonces' \in [DOMAIN nonces' -> Nat]
        /\ \A k \in DOMAIN nonces' : k \in DOMAIN nonces /\ nonces'[k] = nonces[k]
    BY <1>0, <2>1
  <2>3. Deadline(n) < clock
    BY <2>1 DEF VerificationInv
  <2>4. Surroundings
    BY <1>0, <2>1, <2>2, <2>3 DEF Surroundings
  <2> QED  BY <1>0, <1>1, <1>3, <2>1, <2>2, <2>4, SurroundingsMove
<1>8. CASE ClockTicks \/ UNCHANGED wbaVars
  <2>1. UNCHANGED <<operational, published, sent, nonces>>
    BY <1>8, Zenon DEF ClockTicks, wbaVars
  <2>2. Surroundings
    BY <1>0, <1>2, <2>1 DEF Surroundings
  <2> QED  BY <1>0, <1>1, <1>2, <1>3, <2>1, <2>2, SurroundingsMove, Zenon
<1> QED  BY <1>1, <1>2, <1>4, <1>5, <1>6, <1>7, <1>8, Zenon
-----------------------------------------------------------------------------
(* Time passes: a slot is not given up before its cooldown ends.             *)
LEMMA RationKept ==
  ASSUME WbaAssumption, RationInv, clock \in Nat, clock' \in Nat, clock <= clock',
         UNCHANGED <<cooldowns, refreshes>>
  PROVE  RationInv'
<1>1. ASSUME NEW d \in Domains, NEW s \in refreshes[d]
      PROVE  /\ s <= clock'
             /\ s + Cooldown <= clock' \/ (d \in DOMAIN cooldowns /\ s + Cooldown <= cooldowns[d])
  <2>1. s \in Nat /\ Cooldown \in Nat
    BY DEF RationInv, WbaAssumption
  <2> QED  BY <2>1 DEF RationInv
<1>2. \A t : Window(t)' = Window(t)
  BY DEF Window
<1> QED  BY <1>1, <1>2 DEF RationInv

(* The cooldowns that have passed are dropped.                               *)
LEMMA LiveCooldownsKept ==
  ASSUME WbaAssumption, RationInv, clock \in Nat
  PROVE  /\ LiveCooldowns \in [DOMAIN LiveCooldowns -> Nat]
         /\ DOMAIN LiveCooldowns \subseteq DOMAIN cooldowns
         /\ IsFiniteSet(DOMAIN LiveCooldowns)
         /\ \A d \in Domains : \A s \in refreshes[d] :
              s + Cooldown <= clock
              \/ (d \in DOMAIN LiveCooldowns /\ s + Cooldown <= LiveCooldowns[d])
<1> DEFINE live == {d \in DOMAIN cooldowns : cooldowns[d] > clock}
<1>1. LiveCooldowns = [d \in live |-> cooldowns[d]]
  BY DEF LiveCooldowns
<1>2. DOMAIN LiveCooldowns = live /\ \A d \in live : LiveCooldowns[d] = cooldowns[d]
  BY <1>1
<1>3. LiveCooldowns \in [DOMAIN LiveCooldowns -> Nat]
  BY <1>1, <1>2 DEF RationInv
<1>4. IsFiniteSet(live)
  BY FS_Subset DEF RationInv
<1>5. ASSUME NEW d \in Domains, NEW s \in refreshes[d], ~(s + Cooldown <= clock)
      PROVE  d \in live /\ s + Cooldown <= cooldowns[d]
  <2>1. s \in Nat /\ Cooldown \in Nat
    BY DEF RationInv, WbaAssumption
  <2>2. d \in DOMAIN cooldowns /\ s + Cooldown <= cooldowns[d] /\ cooldowns[d] \in Nat
    BY <1>5 DEF RationInv
  <2> QED  BY <1>5, <2>1, <2>2
<1> QED  BY <1>2, <1>3, <1>4, <1>5

(* A refresh takes a slot that is free: the domains that were refreshed less *)
(* than a cooldown ago hold theirs.                                          *)
LEMMA RefreshTakesSlot ==
  ASSUME WbaAssumption, RationInv, clock \in Nat, UNCHANGED clock, NEW d \in Domains,
         ~Suppressed(d),
         cooldowns' = [e \in DOMAIN LiveCooldowns \cup {d} |->
                         IF e = d THEN clock + Cooldown ELSE cooldowns[e]],
         refreshes' = [refreshes EXCEPT ![d] = @ \cup {clock}]
  PROVE  RationInv'
<1> DEFINE L == DOMAIN LiveCooldowns
<1>1. d \notin L /\ ~(Cardinality(L) >= CooldownSlots)
  BY Zenon DEF Suppressed
<1>2. /\ L \subseteq DOMAIN cooldowns /\ L \subseteq Domains /\ IsFiniteSet(L)
      /\ \A e \in Domains : \A s \in refreshes[e] :
           s + Cooldown <= clock \/ (e \in L /\ s + Cooldown <= cooldowns[e])
  <2>1. \A e \in L : LiveCooldowns[e] = cooldowns[e]
    BY Zenon DEF LiveCooldowns
  <2> QED  BY <2>1, LiveCooldownsKept DEF RationInv
<1>3. Cooldown \in Nat /\ CooldownSlots \in Nat /\ Cardinality(L) \in Nat
  BY <1>2, FS_CardinalityType, Zenon DEF WbaAssumption
<1> HIDE DEF L
<1>4. /\ DOMAIN cooldowns' = L \cup {d} /\ cooldowns'[d] = clock + Cooldown
      /\ \A e \in L : cooldowns'[e] = cooldowns[e]
  BY <1>1 DEF L
<1>5. IsFiniteSet(L \cup {d}) /\ Cardinality(L \cup {d}) <= CooldownSlots
  <2>1. IsFiniteSet(L \cup {d}) /\ Cardinality(L \cup {d}) = Cardinality(L) + 1
    BY <1>1, <1>2, FS_AddElement, Zenon
  <2>2. Cardinality(L) + 1 <= CooldownSlots
    BY <1>1, <1>3, SMTT(20)
  <2> QED  BY <2>1, <2>2, Zenon
<1>6. /\ refreshes \in [Domains -> SUBSET Nat] /\ refreshes' \in [Domains -> SUBSET Nat]
      /\ refreshes'[d] = refreshes[d] \cup {clock}
      /\ \A e \in Domains : e # d => refreshes'[e] = refreshes[e]
  BY DEF RationInv
<1>7. cooldowns' \in [DOMAIN cooldowns' -> Nat] /\ DOMAIN cooldowns' \subseteq Domains
  <2>1. \A e \in L : cooldowns[e] \in Nat
    BY <1>2, Zenon DEF RationInv
  <2>2. \A e \in L \cup {d} : cooldowns'[e] \in Nat
    BY <1>3, <1>4, <2>1, SMTT(20)
  <2>3. cooldowns' = [e \in L \cup {d} |-> cooldowns'[e]]
    BY DEF L
  <2> QED  BY <1>2, <1>4, <2>2, <2>3, Zenon
<1>8. ASSUME NEW e \in Domains, NEW s \in refreshes'[e]
      PROVE  /\ s <= clock
             /\ s + Cooldown <= clock \/ (e \in DOMAIN cooldowns' /\ s + Cooldown <= cooldowns'[e])
  <2>1. CASE s \in refreshes[e] /\ e # d
    BY <1>2, <1>4, <2>1, Zenon DEF RationInv
  <2>2. CASE s \in refreshes[e] /\ e = d
    BY <1>1, <1>2, <2>2, Zenon DEF RationInv
  <2>3. CASE e = d /\ s = clock
    BY <1>3, <1>4, <2>3, SMTT(20)
  <2> QED  BY <1>6, <1>8, <2>1, <2>2, <2>3, Zenon
<1>9. ASSUME NEW e \in Domains, NEW s \in refreshes'[e], NEW t \in refreshes'[e], s < t
      PROVE  t - s >= Cooldown
  <2>0. s \in Nat /\ t \in Nat
    BY <1>6
  <2>1. CASE s \in refreshes[e] /\ t \in refreshes[e]
    BY <1>9, <2>1 DEF RationInv
  <2>2. CASE e = d /\ t = clock /\ s \in refreshes[d]
    <3>1. s + Cooldown <= clock
      BY <1>1, <1>2, <2>2, Zenon
    <3> QED  BY <1>3, <2>0, <2>2, <3>1, SMTT(20)
  <2>3. CASE e = d /\ s = clock
    <3>1. t <= clock
      BY <1>8, <2>3, Zenon
    <3> QED  BY <1>9, <2>0, <2>3, <3>1
  <2> QED  BY <1>6, <1>9, <2>1, <2>2, <2>3, Zenon
<1>10. ASSUME NEW t \in 0 .. MaxClock
       PROVE  IsFiniteSet(Window(t)') /\ Cardinality(Window(t)') <= CooldownSlots
  <2>0. t \in Nat
    BY SMTT(20) DEF WbaAssumption
  <2>1. CASE t <= clock /\ clock < t + Cooldown
    <3>1. Window(t)' \subseteq L \cup {d}
      <4> SUFFICES ASSUME NEW e \in Domains, NEW s \in refreshes'[e], t <= s, e # d PROVE e \in L
        BY DEF Window
      <4>1. s \in refreshes[e] /\ s \in Nat
        BY <1>6
      <4>2. ~(s + Cooldown <= clock)
        BY <1>3, <2>0, <2>1, <4>1
      <4> QED  BY <1>2, <4>1, <4>2, Zenon
    <3>2. IsFiniteSet(Window(t)') /\ Cardinality(Window(t)') <= Cardinality(L \cup {d})
      BY <1>5, <3>1, FS_Subset, Zenon
    <3>3. Cardinality(Window(t)') \in Nat /\ Cardinality(L \cup {d}) \in Nat
      BY <1>5, <3>2, FS_CardinalityType, Zenon
    <3> QED  BY <1>3, <1>5, <3>2, <3>3, SMTT(20)
  <2>2. CASE ~(t <= clock /\ clock < t + Cooldown)
    <3>1. Window(t)' = Window(t)
      BY <1>6, <2>2 DEF Window
    <3> QED  BY <3>1 DEF RationInv
  <2> QED  BY <2>1, <2>2
<1> QED  BY <1>4, <1>5, <1>6, <1>7, <1>8, <1>9, <1>10, Zenon DEF RationInv

(* The refreshes stay rationed whatever the identity of a request's domain.  *)
LEMMA ResolveIsRationed ==
  ASSUME WbaAssumption, VerificationInv, RationInv, NEW v \in Verifications, ResolveIdentity(v)
  PROVE  RationInv'
<1> PICK d : d = Request(v).domain
  OBVIOUS
<1>1. d \in Domains
  <2>1. verification[v].nonce \in DOMAIN sent
    BY Zenon DEF VerificationInv, GoodRequest, ResolveIdentity, VerificationAt
  <2> QED  BY <2>1, RequestIsTyped DEF Request
<1>2. clock \in Nat /\ clock' = clock
  BY DEF VerificationInv, ResolveIdentity
<1>3. \/ UNCHANGED <<cooldowns, refreshes>>
      \/ cooldowns' = LiveCooldowns /\ UNCHANGED refreshes
      \/ /\ ~Suppressed(d)
         /\ cooldowns' = [e \in DOMAIN LiveCooldowns \cup {d} |->
                            IF e = d THEN clock + Cooldown ELSE cooldowns[e]]
         /\ refreshes' = [refreshes EXCEPT ![d] = @ \cup {clock}]
  BY DEF ResolveIdentity
<1>4. CASE UNCHANGED <<cooldowns, refreshes>>
  BY <1>2, <1>4, RationKept, SMTT(20)
<1>5. CASE cooldowns' = LiveCooldowns /\ UNCHANGED refreshes
  <2>1. \A t : Window(t)' = Window(t)
    BY <1>5 DEF Window
  <2>2. /\ cooldowns' \in [DOMAIN cooldowns' -> Nat] /\ DOMAIN cooldowns' \subseteq DOMAIN cooldowns
        /\ IsFiniteSet(DOMAIN cooldowns')
        /\ \A e \in Domains : \A s \in refreshes[e] :
             s + Cooldown <= clock \/ (e \in DOMAIN cooldowns' /\ s + Cooldown <= cooldowns'[e])
    BY <1>2, <1>5, LiveCooldownsKept
  <2> QED  BY <1>2, <1>5, <2>1, <2>2 DEF RationInv
<1> QED  BY <1>1, <1>2, <1>3, <1>4, <1>5, RefreshTakesSlot, Zenon

(* A verification's step.                                                    *)
LEMMA VerifyStep ==
  ASSUME WbaAssumption, WbaInv, NEW v \in Verifications, Verify(v)
  PROVE  WbaInv'
<1> USE DEF WbaInv
<1>1. CASE ResolveIdentity(v)
  BY <1>1, ResolveMoves, ResolveIsRationed
<1>2. ASSUME ~ResolveIdentity(v) PROVE RationInv'
  <2>1. UNCHANGED <<clock, cooldowns, refreshes>>
    BY <1>2, Zenon DEF Verify, VerifyBegins, ServeBegins, ReceiveDirectory, RefreshIdentity, ConsumeNonce,
               Accept, VerifyFails
  <2>2. clock \in Nat /\ clock <= clock
    BY DEF VerificationInv
  <2> QED  BY <2>1, <2>2, RationKept
<1>3. ASSUME ~ResolveIdentity(v), ~RefreshIdentity(v) PROVE CacheInv'
  <2>1. UNCHANGED <<clock, published, cached>>
    BY <1>3, Zenon DEF Verify, VerifyBegins, ServeBegins, ReceiveDirectory, ConsumeNonce, Accept, VerifyFails
  <2> QED  BY <2>1 DEF CacheInv, GoodIdentity
<1>4. CASE RefreshIdentity(v) /\ ~ResolveIdentity(v)
  BY <1>2, <1>4, RefreshMoves, Zenon
<1>5. CASE ~RefreshIdentity(v) /\ ~ResolveIdentity(v)
  <2>1. VerificationInv'
    BY <1>5, EarlySteps, ConsumeMoves, AcceptMoves, Zenon DEF Verify
  <2> QED  BY <1>2, <1>3, <1>5, <2>1
<1> QED  BY <1>1, <1>4, <1>5, Zenon

(* The inductive invariant of Web Bot Auth holds.                            *)
THEOREM WbaInvariant == WbaSpec => []WbaInv
<1>1. WbaInit => WbaInv
  BY WbaAssumption, InitWbaInv
<1>2. WbaInv /\ [WbaNext]_wbaVars => WbaInv'
  <2> SUFFICES ASSUME WbaInv, [WbaNext]_wbaVars PROVE WbaInv'
    OBVIOUS
  <2>1. CASE \E v \in Verifications : Verify(v)
    BY <2>1, WbaAssumption, VerifyStep
  <2>2. CASE \/ \E d \in Domains : SignRequest(d) \/ RotateKey(d) \/ PublishKey(d)
             \/ \E n \in DOMAIN nonces : ForgetNonce(n)
             \/ ClockTicks \/ UNCHANGED wbaVars
    <3>1. clock \in Nat
      BY DEF WbaInv, VerificationInv
    <3> QED  BY <2>2, <3>1, WbaAssumption, OthersMove, RationKept, Zenon DEF WbaInv
  <2> QED  BY <2>1, <2>2 DEF WbaNext
<1> QED  BY <1>1, <1>2, PTL DEF WbaSpec

(* However many verifications are given one signed request, at most one      *)
(* accepts it: consumeNonce retains the nonce while the request is valid,    *)
(* and everything is checked again after the store has answered.             *)
THEOREM RequestsAreAcceptedOnce == WbaSpec => []AcceptedOnce
<1>1. WbaInv => AcceptedOnce
  BY DEF WbaInv, VerificationInv, Apart, Spent, AcceptedOnce, VerificationAt
<1> QED  BY <1>1, WbaInvariant, PTL

(* An accepted request was in its lifetime, and its key was the one that its *)
(* domain publishes, or published less than an identity's freshness ago,     *)
(* whatever the resolver's cache held.                                       *)
THEOREM AcceptedRequestsAreBound == WbaSpec => []AcceptedIsBound
<1>1. WbaInv => AcceptedIsBound
  <2> SUFFICES ASSUME VerificationInv, NEW v \in Verifications, verification[v].at = "accepted"
               PROVE  LET q == Request(v)
                          t == verification[v].acceptedAt
                          p == published[q.domain] IN
                      /\ t <= q.created + SignatureTTL + ClockSkew
                      /\ p.key = q.key \/ t < p.since + IdentityTTL
    BY Zenon DEF WbaInv, AcceptedIsBound, VerificationAt
  <2> PICK x : x = verification[v]
    OBVIOUS
  <2>1. GoodRequest(x) /\ x.at = "accepted"
    BY DEF VerificationInv
  <2>2. /\ x.nonce \in DOMAIN sent /\ x.acceptedAt \in Nat /\ x.identity.until \in Nat
        /\ x.acceptedAt <= Deadline(x.nonce) /\ x.acceptedAt < x.identity.until
        /\ GoodIdentity(x.identity, sent[x.nonce].domain) /\ x.identity.key = sent[x.nonce].key
    BY <2>1, Zenon DEF GoodRequest, VerificationState, Identity
  <2>3. sent[x.nonce].domain \in Domains
    BY <2>2, RequestIsTyped
  <2>4. published[sent[x.nonce].domain].since \in Nat /\ IdentityTTL \in Nat
    BY <2>3, WbaAssumption, Zenon DEF VerificationInv, WbaAssumption
  <2> QED  BY <2>2, <2>4 DEF Deadline, GoodIdentity, Request
<1> QED  BY <1>1, WbaInvariant, PTL

(* Requests whose keys do not match cannot make the verifier refresh a       *)
(* domain twice in a cooldown, nor more domains in one than there are slots. *)
THEOREM RefreshesAreRationed == WbaSpec => []RefreshIsRationed
<1>1. WbaInv => RefreshIsRationed
  BY Zenon DEF WbaInv, RationInv, Window, RefreshIsRationed
<1> QED  BY <1>1, WbaInvariant, PTL
=============================================================================
