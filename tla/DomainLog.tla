------------------------------ MODULE DomainLog ------------------------------
(***************************************************************************)
(* DomainLog.snapshotAt (packages/protocol/src/verified-domain.ts), the    *)
(* state of an identity at a point in time, over the lifecycle that the    *)
(* stream verifier selects, stitched to the prior history of a migrated    *)
(* stream (stitchVerifiedMigrationHistory).                                *)
(***************************************************************************)
EXTENDS LifecycleStream

CONSTANT
  Prior         \* [Events -> Seq(Events)]: the verified history a MIGRATION imports

(* The materialization so far; past: an event after the snapshot time was    *)
(* left out; boundAt: when the active key was bound.                         *)
Blank ==
  [ok |-> TRUE, past |-> FALSE, status |-> "none", op |-> NoKey, boundAt |-> 0, count |-> 0]

Invalid(snap) == [snap EXCEPT !.ok = FALSE]

(* Faulty variant: a rotation does not restart the age of the key.           *)
MaterializeAged(snap, p) ==
  LET next == [snap EXCEPT !.count = @ + 1]
  IN  CASE snap.status = "none" ->
             IF p.type = "ISSUANCE" /\ p.ek # p.key
               THEN [next EXCEPT !.status = "ACTIVE", !.op = p.key, !.boundAt = p.time]
               ELSE Invalid(snap)
        [] snap.status \in {"REVOKED", "RETIRED"} -> Invalid(snap)
        [] OTHER ->
             CASE p.type = "ISSUANCE" -> Invalid(snap)
               [] p.type = "KEY_ROTATION" ->
                    IF p.prevKey = snap.op /\ p.key # snap.op
                      THEN [next EXCEPT !.op = p.key]
                      ELSE Invalid(snap)
               [] p.type = "REVOCATION" -> [next EXCEPT !.status = "REVOKED"]
               [] p.type = "RETIREMENT" -> [next EXCEPT !.status = "RETIRED"]
               [] OTHER -> next

(* The switch over event types.                                              *)
Materialize(snap, p) ==
  LET next == [snap EXCEPT !.count = @ + 1]
  IN  CASE snap.status = "none" ->
             IF p.type = "ISSUANCE" /\ p.ek # p.key
               THEN [next EXCEPT !.status = "ACTIVE", !.op = p.key, !.boundAt = p.time]
               ELSE Invalid(snap)
        [] snap.status \in {"REVOKED", "RETIRED"} -> Invalid(snap)
        [] OTHER ->
             CASE p.type = "ISSUANCE" -> Invalid(snap)
               [] p.type = "KEY_ROTATION" ->
                    IF p.prevKey = snap.op /\ p.key # snap.op
                      THEN [next EXCEPT !.op = p.key, !.boundAt = p.time]
                      ELSE Invalid(snap)
               [] p.type = "REVOCATION" -> [next EXCEPT !.status = "REVOKED"]
               [] p.type = "RETIREMENT" -> [next EXCEPT !.status = "RETIRED"]
               [] OTHER -> next

(* Faulty variant: an event after the boundary does not end the prefix.      *)
SnapshotGaps(events, at) ==
  LET Upto[n \in 0..Len(events)] ==
        IF n = 0 THEN Blank
        ELSE IF ~Upto[n - 1].ok \/ Payload[events[n]].time > at THEN Upto[n - 1]
        ELSE Materialize(Upto[n - 1], Payload[events[n]])
      snap == Upto[Len(events)]
  IN  IF snap.status = "none" THEN Invalid(snap) ELSE snap

(* snapshotAt: the events up to the time must be a prefix of the history.    *)
SnapshotAt(events, at) ==
  LET Upto[n \in 0..Len(events)] ==
        LET snap == IF n = 0 THEN Blank ELSE Upto[n - 1]
        IN  IF n = 0 \/ ~snap.ok THEN snap
            ELSE IF Payload[events[n]].time > at THEN [snap EXCEPT !.past = TRUE]
            ELSE IF snap.past THEN Invalid(snap)
            ELSE Materialize(snap, Payload[events[n]])
      snap == Upto[Len(events)]
  IN  IF snap.status = "none" THEN Invalid(snap) ELSE snap

Latest(events) ==
  CHOOSE t \in {Payload[events[i]].time : i \in DOMAIN events} :
    \A i \in DOMAIN events : Payload[events[i]].time <= t

(* migrationResult: what the reader of the prior log exports is what its     *)
(* history materializes to.                                                  *)
ASSUME PriorAssumption ==
  /\ Prior \in [Events -> Seq(Events)]
  /\ \A e \in Events : Payload[e].type = "MIGRATION" /\ Payload[e].key # NoKey =>
       LET snap == SnapshotAt(Prior[e], Latest(Prior[e]))
       IN  snap.ok /\ snap.status = "ACTIVE" /\ snap.op = Payload[e].key

(* Faulty variant: a migrated stream forgets its prior history.              *)
HistoryUnstitched == selected

(* stitchVerifiedMigrationHistory.                                           *)
History ==
  IF selected # <<>> /\ Payload[selected[1]].type = "MIGRATION"
    THEN Prior[selected[1]] \o selected
    ELSE selected

(* What the stream verifier and snapshotAt make of the same events agrees:   *)
(* the latest snapshot is the verified state.                                *)
SnapshotIsVerifiedState ==
  verdict = "open" /\ selected # <<>> =>
    LET snap == SnapshotAt(History, Latest(History))
    IN  snap.ok /\ [status |-> snap.status, op |-> snap.op] = Current

(* A snapshot at an earlier time is the verified state after some prefix of  *)
(* the lifecycle, also when the events' times are not in log order: it never *)
(* mixes a later event with the absence of an earlier one.                   *)
SnapshotIsPrefix ==
  verdict = "open" /\ selected # <<>> =>
    \A at \in {Payload[e].time : e \in Events} :
      LET snap == SnapshotAt(History, at)
          n    == snap.count - (Len(History) - Len(selected))
      IN  snap.ok /\ n > 0 =>
            /\ \A i \in 1..Len(selected) : Payload[selected[i]].time <= at <=> i <= n
            /\ [status |-> snap.status, op |-> snap.op] = after[selected[n]]

(* keyTimestamp: when the first event that binds the key did so.             *)
Binding(key) ==
  {i \in DOMAIN History : /\ Payload[History[i]].type \in {"ISSUANCE", "KEY_ROTATION"}
                           /\ Payload[History[i]].key = key}

KeyTimestamp(key) ==
  LET first == CHOOSE i \in Binding(key) : \A j \in Binding(key) : i <= j
  IN  Payload[History[first]].time

(* The key age that identity verification takes from keyTimestamp is that of *)
(* the snapshot, across migrations too, unless a rotation came back to an    *)
(* earlier key: then the key keeps the age of its first binding.             *)
KeyAgeAgrees ==
  verdict = "open" /\ selected # <<>> =>
    LET snap == SnapshotAt(History, Latest(History))
    IN  /\ Binding(snap.op) # {}
        /\ (\A i, j \in Binding(snap.op) : i = j) => KeyTimestamp(snap.op) = snap.boundAt

(* The latest snapshot is the verified state, an earlier one the state after *)
(* a prefix of the lifecycle, and the key has the age that identity          *)
(* verification takes it to have.                                            *)
SnapshotAgrees == SnapshotIsVerifiedState /\ SnapshotIsPrefix /\ KeyAgeAgrees
=============================================================================
