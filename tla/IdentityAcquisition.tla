------------------------- MODULE IdentityAcquisition -------------------------
(***************************************************************************)
(* One acquisition of identity evidence (verifyDomainUncached in           *)
(* protocol/src/identity-manager.ts) beside the publisher it reads from.   *)
(*                                                                         *)
(* The verifier looks up the TXT record, fetches the entity key set ek and *)
(* checks the record's signature.  Then two branches run concurrently: the *)
(* identity branch fetches the runtime key set ku and reads the lifecycle  *)
(* log, the status branch fetches su.  A branch that fails may abort its   *)
(* sibling, and the caller may abort both.                                 *)
(*                                                                         *)
(* The publisher runs rotateOperationalKey, whose calls may fail at any    *)
(* await and may overlap, and createTxtRecord; its registry revokes the    *)
(* identity in three places that change one after another.  Caches on the  *)
(* way may answer a request that does not revalidate with what was served  *)
(* earlier.                                                                *)
(*                                                                         *)
(* IdentityManager models what becomes of the evidence, HistoryReader how  *)
(* the log is read.  Key and record encodings are left out: a key set is a *)
(* set of keys and a signature is the key that made it.                    *)
(***************************************************************************)
EXTENDS Naturals, Sequences, FiniteSets

CONSTANTS
  OperationalKeys,  \* keys generateKey may return, and FirstKey
  FirstKey,         \* the operational key of the ISSUANCE
  EntityKeys,       \* keys of the accountable entity, FirstKey among them in error
  Rotations         \* calls of rotateOperationalKey

ASSUME AcquisitionAssumption ==
  /\ FirstKey \in OperationalKeys
  /\ "none" \notin OperationalKeys

VARIABLES
  entity,    \* the entity's signing key
  held,      \* keys of the operational KeyProvider
  active,    \* its signing key
  used,      \* keys ever generated
  record,    \* the TXT record published for the identity
  ekKeySet,  \* the key set served at ek
  served,    \* the key sets served at ku so far, newest last
  gone,      \* ku is a tombstone
  agentLog,  \* the lifecycle events
  inactive,  \* the status document is no longer ACTIVE
  rotation,  \* the calls of rotateOperationalKey
  acq        \* the acquisition

publisherVars == <<entity, held, active, used, record, ekKeySet, served, gone, agentLog, inactive, rotation>>
acquisitionVars == <<publisherVars, acq>>

None == "none"

(* DNSSEC states and modes; outcomes of an acquisition are its error codes.  *)
DnssecStates == {"VALID", "UNSIGNED", "UNKNOWN", "FAILED"}
DnssecModes == {"auto", "validated", "required"}

NoRotation == [at |-> "idle", previous |-> None, new |-> None, alone |-> TRUE]
NoAcquisition ==
  [at |-> "idle", revalidate |-> FALSE, identity |-> None, status |-> None, key |-> None,
   fanoutAborted |-> FALSE, aborted |-> FALSE, outcome |-> None, from |-> 0, wasInactive |-> FALSE]

FirstEvent == [type |-> "ISSUANCE", previous |-> None, new |-> FirstKey]
Rotated(p, n) == [type |-> "KEY_ROTATION", previous |-> p, new |-> n]
Revoked == [type |-> "REVOCATION", previous |-> None, new |-> None]

AcquisitionInit ==
  /\ entity \in EntityKeys
  /\ held = {FirstKey} /\ active = FirstKey /\ used = {FirstKey}
  /\ record = None
  /\ ekKeySet \in (SUBSET EntityKeys) \ {{}}
  /\ served = <<{FirstKey}>>
  /\ gone = FALSE
  /\ agentLog = <<FirstEvent>>
  /\ inactive = FALSE
  /\ rotation = [r \in Rotations |-> NoRotation]
  /\ acq = NoAcquisition

-----------------------------------------------------------------------------
(* The publisher.                                                            *)

(* createTxtRecord: the record names its signer, which must not be the       *)
(* operational key.                                                          *)
CreateTxtRecord ==
  /\ record = None
  /\ entity # active
  /\ record' = entity
  /\ UNCHANGED <<entity, held, active, used, ekKeySet, served, gone, agentLog, inactive, rotation, acq>>

Over == {"done", "failed", "torn"}
Overlaps(r) == \E q \in Rotations \ {r} : rotation[q].at \notin Over \cup {"idle"}

(* signingKey and generateKey of rotateOperationalKey.                       *)
BeginRotation(r) ==
  /\ rotation[r].at = "idle"
  /\ \E k \in OperationalKeys \ used :
       /\ used' = used \cup {k} /\ held' = held \cup {k}
       /\ rotation' = [q \in Rotations |->
            IF q = r THEN [at |-> "publish", previous |-> active, new |-> k, alone |-> ~Overlaps(r)]
            ELSE [rotation[q] EXCEPT !.alone = @ /\ rotation[q].at \in Over \cup {"idle"}]]
  /\ UNCHANGED <<entity, active, record, ekKeySet, served, gone, agentLog, inactive, acq>>

PublishKeySet(r) ==
  /\ rotation[r].at = "publish" /\ ~gone
  /\ served' = Append(served, {rotation[r].new})
  /\ rotation' = [rotation EXCEPT ![r].at = "write"]
  /\ UNCHANGED <<entity, held, active, used, record, ekKeySet, gone, agentLog, inactive, acq>>

(* signAndWriteEvent: the previous key authorizes and the new key proves     *)
(* possession, so the provider must still hold both.                         *)
SignAndWriteEvent(r) ==
  /\ rotation[r].at = "write" /\ {rotation[r].previous, rotation[r].new} \subseteq held
  /\ agentLog' = Append(agentLog, Rotated(rotation[r].previous, rotation[r].new))
  /\ rotation' = [rotation EXCEPT ![r].at = "activate"]
  /\ UNCHANGED <<entity, held, active, used, record, ekKeySet, served, gone, inactive, acq>>

ActivateEarly(r) ==
  /\ rotation[r].at \in {"write", "activate"} /\ rotation[r].new \in held
  /\ active' = rotation[r].new
  /\ rotation' = [rotation EXCEPT ![r].at = IF @ = "write" THEN "write" ELSE "supersede"]
  /\ UNCHANGED <<entity, held, used, record, ekKeySet, served, gone, agentLog, inactive, acq>>

Activate(r) ==
  /\ rotation[r].at = "activate" /\ rotation[r].new \in held
  /\ active' = rotation[r].new
  /\ rotation' = [rotation EXCEPT ![r].at = "supersede"]
  /\ UNCHANGED <<entity, held, used, record, ekKeySet, served, gone, agentLog, inactive, acq>>

Supersede(r) ==
  /\ rotation[r].at = "supersede" /\ rotation[r].previous # active
  /\ held' = held \ {rotation[r].previous}
  /\ rotation' = [rotation EXCEPT ![r].at = "done"]
  /\ UNCHANGED <<entity, active, used, record, ekKeySet, served, gone, agentLog, inactive, acq>>

(* Any await of the call may reject; the key it generated stays behind.  If  *)
(* the event was written and the key not activated, the call is torn.        *)
RotationFails(r) ==
  /\ rotation[r].at \notin Over \cup {"idle"}
  /\ rotation' = [rotation EXCEPT ![r].at = IF @ = "activate" THEN "torn" ELSE "failed"]
  /\ UNCHANGED <<entity, held, active, used, record, ekKeySet, served, gone, agentLog, inactive, acq>>

(* The registry revokes the identity: its status, its log, its key set.      *)
Revoke ==
  /\ \/ ~inactive /\ inactive' = TRUE /\ UNCHANGED <<agentLog, gone>>
     \/ /\ \A i \in DOMAIN agentLog : agentLog[i] # Revoked
        /\ agentLog' = Append(agentLog, Revoked)
        /\ UNCHANGED <<inactive, gone>>
     \/ ~gone /\ gone' = TRUE /\ UNCHANGED <<inactive, agentLog>>
  /\ UNCHANGED <<entity, held, active, used, record, ekKeySet, served, rotation, acq>>

-----------------------------------------------------------------------------
(* The verifier.                                                             *)

BeginAcquisition ==
  /\ acq.at = "idle"
  /\ \E revalidate \in BOOLEAN :
       acq' = [acq EXCEPT !.at = "dns", !.revalidate = revalidate, !.from = Len(agentLog), !.wasInactive = inactive]
  /\ UNCHANGED publisherVars

Ends(code) ==
  acq' = [acq EXCEPT !.at = "done", !.outcome = code, !.key = IF code = "accepted" THEN @ ELSE None]

DnssecRefused(mode, state) ==
  \/ state = "FAILED"
  \/ mode = "validated" /\ state = "UNKNOWN"
  \/ mode = "required" /\ state # "VALID"

(* A lookup that fails or is aborted is a DNSResolution error; NXDOMAIN and  *)
(* an empty answer find no record, and two records are one too many.         *)
Lookup ==
  /\ acq.at = "dns"
  /\ \/ Ends("DNSResolution")
     \/ /\ ~acq.aborted
        /\ \E mode \in DnssecModes, state \in DnssecStates, n \in 0..2 :
             /\ n = 0 <=> record = None
             /\ IF DnssecRefused(mode, state) THEN Ends("DNSSECFailed")
                ELSE IF n = 0 THEN Ends("RecordNotFound")
                ELSE IF n = 2 THEN Ends("RecordInvalid")
                ELSE acq' = [acq EXCEPT !.at = "ek"]
  /\ UNCHANGED publisherVars

(* validateRecordSigningKeyset, validateOperational: exactly one key.        *)
CurrentSigningKey(keys) == Cardinality(keys) = 1

(* The ek key set and the record signature; then the two branches start.     *)
FetchEntityKeys ==
  /\ acq.at = "ek"
  /\ \/ acq.aborted /\ Ends("Canceled")
     \/ ~acq.aborted /\ \E code \in {"HTTPError", "TLSError"} : Ends(code)
     \/ /\ ~acq.aborted
        /\ IF ~CurrentSigningKey(ekKeySet) THEN Ends("RecordInvalid")
           ELSE IF record \notin ekKeySet THEN Ends("SignatureInvalid")
           ELSE acq' = [acq EXCEPT !.at = "fanout", !.identity = "ku", !.status = "su"]
  /\ UNCHANGED publisherVars

(* What may answer a request: what is there, or an earlier copy of it.       *)
Served(n) == IF acq.revalidate THEN {n} ELSE 1..n

IdentityFailsAborting(code) ==
  acq' = [acq EXCEPT !.identity = code, !.fanoutAborted = TRUE]

(* An HTTP refusal of ku may be a tombstone: su may finish.                  *)
IdentityFails(code) ==
  acq' = [acq EXCEPT !.identity = code, !.fanoutAborted = @ \/ code # "HTTPError"]

FetchRuntimeKeys ==
  /\ acq.at = "fanout" /\ acq.identity = "ku"
  /\ \/ acq.fanoutAborted /\ IdentityFails("Canceled")
     \/ ~acq.fanoutAborted /\ \E code \in {"HTTPError", "TLSError"} : IdentityFails(code)
     \/ /\ ~acq.fanoutAborted /\ (gone => ~acq.revalidate)
        /\ \E i \in Served(Len(served)) : \E k \in served[i] :
             IF ~CurrentSigningKey(served[i]) \/ k \in ekKeySet THEN IdentityFails("RecordInvalid")
             ELSE acq' = [acq EXCEPT !.identity = "binding", !.key = k]
  /\ UNCHANGED publisherVars

(* The key that a history of authorized events leaves active, if any.        *)
ActiveKey(events) ==
  LET after[i \in 0 .. Len(events)] ==
        IF i > 0 /\ (events[i].type = "ISSUANCE" \/ events[i].previous = after[i - 1])
        THEN events[i].new
        ELSE None
  IN  after[Len(events)]

RecordedKey(n) == acq.key \in {agentLog[i].new : i \in 1..n}
LoggedKey(n) == ActiveKey(SubSeq(agentLog, 1, n)) = acq.key

(* verifyBilateralBinding, then verifyOperationalContinuity; then, for a     *)
(* record that limits the key's age, keyTimestamp.  A log method that nobody *)
(* can read is a LogError as well.                                           *)
ReadLog ==
  /\ acq.at = "fanout" /\ acq.identity \in {"binding", "continuity", "age"}
  /\ \/ acq.fanoutAborted /\ IdentityFails("Canceled")
     \/ ~acq.fanoutAborted /\ IdentityFails("LogError")
     \/ ~acq.fanoutAborted /\ acq.identity = "age" /\ IdentityFails("KeyAgeExceeded")
     \/ /\ ~acq.fanoutAborted
        /\ acq.identity = "age" \/ \E n \in Served(Len(agentLog)) : LoggedKey(n)
        /\ \E next \in (CASE acq.identity = "binding" -> {"continuity"}
                          [] acq.identity = "continuity" -> {"age", "ok"}
                          [] acq.identity = "age" -> {"ok"}) :
             acq' = [acq EXCEPT !.identity = next]
  /\ UNCHANGED publisherVars

(* Other failures of su than "not ACTIVE" are one.                           *)
StatusFails(code) == acq' = [acq EXCEPT !.status = code, !.fanoutAborted = TRUE]

FetchActiveStatus ==
  /\ acq.at = "fanout" /\ acq.status = "su"
  /\ \/ acq.fanoutAborted /\ StatusFails("Canceled")
     \/ ~acq.fanoutAborted /\ StatusFails("StatusUnavailable")
     \/ ~acq.fanoutAborted /\ inactive /\ StatusFails("StatusNotActive")
     \/ /\ ~acq.fanoutAborted
        /\ inactive => ~acq.revalidate
        /\ acq' = [acq EXCEPT !.status = "ok"]
  /\ UNCHANGED publisherVars

CallerAborts ==
  /\ acq.at \in {"dns", "ek", "fanout"} /\ ~acq.aborted
  /\ acq' = [acq EXCEPT !.aborted = TRUE, !.fanoutAborted = acq.at = "fanout"]
  /\ UNCHANGED publisherVars

(* Which of the two settled branches decides.                                *)
Verdict(i, s) ==
  CASE acq.aborted -> "Canceled"
    [] ~acq.aborted /\ i = "HTTPError" /\ s = "StatusNotActive" -> s
    [] OTHER -> IF i \notin {"ok", "Canceled"} THEN i
                ELSE IF s \notin {"ok", "Canceled"} THEN s
                ELSE IF i = "Canceled" \/ s = "Canceled" THEN "Canceled"
                ELSE "accepted"

Settle ==
  /\ acq.at = "fanout"
  /\ acq.identity \notin {"ku", "binding", "continuity", "age"} /\ acq.status # "su"
  /\ Ends(Verdict(acq.identity, acq.status))
  /\ UNCHANGED publisherVars

AcquisitionNext ==
  \/ CreateTxtRecord \/ Revoke
  \/ \E r \in Rotations :
       \/ BeginRotation(r) \/ PublishKeySet(r) \/ SignAndWriteEvent(r)
       \/ Activate(r) \/ Supersede(r) \/ RotationFails(r)
  \/ BeginAcquisition \/ Lookup \/ FetchEntityKeys \/ FetchRuntimeKeys \/ ReadLog
  \/ FetchActiveStatus \/ CallerAborts \/ Settle

AcquisitionSpec == AcquisitionInit /\ [][AcquisitionNext]_acquisitionVars

-----------------------------------------------------------------------------
Accepted == acq.outcome = "accepted"

(* Evidence that revalidated its sources is no older than the acquisition:   *)
(* the identity was ACTIVE and not revoked in its log when it began, and the *)
(* accepted key was the log's active key at or after that moment, whatever   *)
(* rotations, revocations and cached copies interleave.  Evidence taken from *)
(* caches still names a key that was the log's active key once, and never a  *)
(* key that signs records.                                                   *)
AcquiredIsCurrent ==
  Accepted =>
    /\ acq.key \notin ekKeySet
    /\ \E n \in (IF acq.revalidate THEN acq.from ELSE 1) .. Len(agentLog) :
         ActiveKey(SubSeq(agentLog, 1, n)) = acq.key
    /\ acq.revalidate => ~acq.wasInactive

(* The fan-out reports what went wrong and not what it canceled: a caller    *)
(* sees a cancellation only if it aborted, an acquisition is accepted only   *)
(* if both branches succeeded, and an HTTP refusal of ku is reported only if *)
(* the status fetch came to an end of its own that was not "not ACTIVE".     *)
CauseIsReported ==
  acq.at = "done" =>
    /\ acq.outcome = "Canceled" => acq.aborted
    /\ Accepted <=> acq.identity = "ok" /\ acq.status = "ok" /\ ~acq.aborted
    /\ acq.identity = "HTTPError" /\ acq.outcome = "HTTPError" =>
         acq.status \in {"ok", "StatusUnavailable"}
    /\ acq.status = "StatusNotActive" /\ ~acq.aborted =>
         acq.outcome = "StatusNotActive" \/ acq.identity \notin {"HTTPError", "Canceled"}

(* The provider never signs with a key that the log does not record, even if *)
(* rotations fail or overlap.                                                *)
SigningKeyIsLogged == active \in {agentLog[i].new : i \in DOMAIN agentLog}

(* Moreover, if no rotation overlapped another and none failed between its   *)
(* log write and its activation, the log is one chain that ends in the       *)
(* signing key whenever no rotation is at that point, and a completed        *)
(* rotation that nobody followed up leaves exactly that key published.       *)
RotationIsWhole ==
  /\ SigningKeyIsLogged
  /\ (\A r \in Rotations : rotation[r].alone /\ rotation[r].at # "torn") =>
       LET keyEvents == SelectSeq(agentLog, LAMBDA e : e # Revoked) IN
       /\ (\A r \in Rotations : rotation[r].at # "activate") => ActiveKey(keyEvents) = active
       /\ \A r \in Rotations :
            rotation[r].at = "done" /\ (\A q \in Rotations : rotation[q].previous # rotation[r].new) =>
              served[Len(served)] = {active} /\ rotation[r].new = active /\ rotation[r].previous \notin held

=============================================================================
