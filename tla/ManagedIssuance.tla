--------------------------- MODULE ManagedIssuance ---------------------------
(***************************************************************************)
(* Durable setup of a registry-managed identity                            *)
(* (packages/sdk/src/managed-issuance.ts).                                 *)
(*                                                                         *)
(* A process prepares the ISSUANCE event, countersigns it, persists the    *)
(* exact bytes, submits them under one idempotency key, persists what the  *)
(* registry answers, and activates the identity once the log has accepted  *)
(* the entry.  It may crash between any two steps and is then resumed from *)
(* the durable record.  Every countersignature gives other bytes (ECDSA),  *)
(* so an entry is numbered by the signature that completed it.             *)
(***************************************************************************)
EXTENDS Integers

CONSTANTS
  Procs,        \* processes that run the setup over one durable record
  MaxSigned,    \* bound: countersignatures made
  MaxInterruptions     \* bound: crashes, lost messages and failed calls

ASSUME BoundsAssumption == MaxSigned \in Nat /\ MaxInterruptions \in Nat

VARIABLES
  record,       \* the durable ManagedIssuanceState
  proc,         \* the call each process is in
  requests,     \* entries whose submission was sent (they may arrive late)
  registryEntry,     \* what the registry made of the idempotency key
  publishedEntries,    \* entries activateAcceptedIssuance published
  signed,       \* countersignatures made
  interruptions

issuanceVars == <<record, proc, requests, registryEntry, publishedEntries, signed, interruptions>>
-----------------------------------------------------------------------------
NoEntry == 0
OtherEntry == -1        \* the hash of an entry this setup did not make
Entries == 1..MaxSigned

IssuanceSubmissions == {"absent", "none", "pending", "indeterminate", "rejected", "accepted"}

Record ==
  [bytes : Entries \cup {NoEntry}, sub : IssuanceSubmissions, hash : Entries \cup {NoEntry, OtherEntry},
   terminal : BOOLEAN, activated : BOOLEAN]

Intent ==
  [bytes |-> NoEntry, sub |-> "none", hash |-> NoEntry, terminal |-> FALSE, activated |-> FALSE]
NoRecord == [Intent EXCEPT !.sub = "absent"]

WithIssuanceSubmission(r, state, hash, terminal) ==
  [bytes |-> r.bytes, sub |-> state, hash |-> hash, terminal |-> terminal, activated |-> r.activated]

(* save: persistIssuance(rec) is pending and the call goes on at next.       *)
Steps == {"idle", "create", "prepare", "save", "submit", "wait", "activate"}
At(pc, rec) == [pc |-> pc, rec |-> rec, next |-> "idle"]
Save(rec, next) == [pc |-> "save", rec |-> rec, next |-> next]
Idle == At("idle", NoRecord)

Become(p, state) == proc' = [proc EXCEPT ![p] = state]

IssuanceInit ==
  /\ record = NoRecord
  /\ proc = [p \in Procs |-> Idle]
  /\ requests = {}
  /\ registryEntry = [bytes |-> NoEntry, state |-> "none"]
  /\ publishedEntries = {}
  /\ signed = 0
  /\ interruptions = 0

Fault == interruptions < MaxInterruptions /\ interruptions' = interruptions + 1
-----------------------------------------------------------------------------
(* Faulty variant: the hash of an accepted entry is not compared.            *)
AnyHashBinds(rec, state, hash) == rec.hash # NoEntry => hash = rec.hash

(* assertAcceptedBinding.                                                    *)
Binds(rec, state, hash) ==
  /\ rec.hash # NoEntry => hash = rec.hash
  /\ state = "accepted" => hash = rec.bytes

(* Faulty variants: an uncertain submission is prepared anew; an accepted    *)
(* entry counts as done.                                                     *)
ResumePrepares(rec) ==
  IF rec.activated \/ rec.terminal \/ rec.sub = "rejected" THEN Idle
  ELSE At(IF rec.sub = "accepted" THEN "activate" ELSE "prepare", rec)

ResumeForgets(rec) ==
  IF rec.activated \/ rec.terminal \/ rec.sub \in {"rejected", "accepted"} THEN Idle
  ELSE At(IF rec.bytes = NoEntry THEN "prepare" ELSE "submit", rec)

(* resumeManagedIssuanceState: where the durable record is taken up again.   *)
ResumeIssuance(rec) ==
  IF rec.activated \/ rec.terminal \/ rec.sub = "rejected" THEN Idle
  ELSE IF rec.sub = "accepted"
    THEN IF Binds(rec, rec.sub, rec.hash) THEN At("activate", rec) ELSE Idle
  ELSE At(IF rec.bytes = NoEntry THEN "prepare" ELSE "submit", rec)

(* issueManagedIdentity or resumeManagedIssuance loads the record.           *)
Load(p) ==
  /\ proc[p].pc = "idle"
  /\ Become(p, IF record = NoRecord THEN At("create", Intent) ELSE ResumeIssuance(record))
  /\ UNCHANGED <<record, requests, registryEntry, publishedEntries, signed, interruptions>>

(* createIssuance: atomic; the loser of a race resumes the winner's record.  *)
Create(p) ==
  /\ proc[p].pc = "create"
  /\ IF record = NoRecord
       THEN record' = Intent /\ Become(p, At("prepare", Intent))
       ELSE Become(p, ResumeIssuance(record)) /\ UNCHANGED record
  /\ UNCHANGED <<requests, registryEntry, publishedEntries, signed, interruptions>>

(* Faulty variant: the completed entry is submitted without being persisted. *)
PrepareUnsaved(p) ==
  /\ proc[p].pc = "prepare"
  /\ signed < MaxSigned
  /\ signed' = signed + 1
  /\ Become(p, At("submit", [proc[p].rec EXCEPT !.bytes = signed + 1]))
  /\ UNCHANGED <<record, requests, registryEntry, publishedEntries, interruptions>>

(* The registry's preparation is validated and countersigned, and the        *)
(* completed entry is to be persisted before it is submitted.                *)
PrepareIssuance(p) ==
  /\ proc[p].pc = "prepare"
  /\ signed < MaxSigned
  /\ signed' = signed + 1
  /\ Become(p, Save([proc[p].rec EXCEPT !.bytes = signed + 1], "submit"))
  /\ UNCHANGED <<record, requests, registryEntry, publishedEntries, interruptions>>

(* The preparation is refused for good or fails trusted validation.          *)
PrepareRefused(p) ==
  /\ proc[p].pc = "prepare"
  /\ Become(p, Save([proc[p].rec EXCEPT !.terminal = TRUE], "idle"))
  /\ UNCHANGED <<record, requests, registryEntry, publishedEntries, signed, interruptions>>

(* persistIssuance: the last write wins.                                     *)
Write(p) ==
  /\ proc[p].pc = "save"
  /\ record' = proc[p].rec
  /\ Become(p, IF proc[p].next = "idle" THEN Idle ELSE At(proc[p].next, proc[p].rec))
  /\ UNCHANGED <<requests, registryEntry, publishedEntries, signed, interruptions>>

(* submit sends the persisted entry.                                         *)
SubmitIssuance(p) ==
  /\ proc[p].pc = "submit"
  /\ requests' = requests \cup {proc[p].rec.bytes}
  /\ Become(p, At("wait", proc[p].rec))
  /\ UNCHANGED <<record, registryEntry, publishedEntries, signed, interruptions>>

(* The registry takes the first entry that arrives under the key ...         *)
Receive ==
  /\ registryEntry.bytes = NoEntry
  /\ \E b \in requests, state \in {"pending", "accepted", "rejected"} :
       registryEntry' = [bytes |-> b, state |-> state]
  /\ UNCHANGED <<record, proc, requests, publishedEntries, signed, interruptions>>

(* ... and settles a pending one.                                            *)
Settle ==
  /\ registryEntry.state = "pending"
  /\ \E state \in {"accepted", "rejected"} :
       registryEntry' = [bytes |-> registryEntry.bytes, state |-> state]
  /\ UNCHANGED <<record, proc, requests, publishedEntries, signed, interruptions>>

(* Faulty variant: the identity is activated before the answer is persisted. *)
ReconcileLate(rec, state, hash) ==
  IF state = "accepted"
    THEN At("activate", WithIssuanceSubmission(rec, state, hash, rec.terminal))
    ELSE Save(WithIssuanceSubmission(rec, state, hash, rec.terminal), "idle")

(* What the call does with an answer that is bound to its entry.             *)
Reconcile(rec, state, hash) ==
  Save(WithIssuanceSubmission(rec, state, hash, rec.terminal),
       IF state = "accepted" THEN "activate" ELSE "idle")

(* The registry answers for the entry it holds under the key.                *)
Answer(p) ==
  /\ proc[p].pc = "wait"
  /\ registryEntry.bytes # NoEntry
  /\ Become(p, IF Binds(proc[p].rec, registryEntry.state, registryEntry.bytes)
                 THEN Reconcile(proc[p].rec, registryEntry.state, registryEntry.bytes)
                 ELSE Idle)
  /\ UNCHANGED <<record, requests, registryEntry, publishedEntries, signed, interruptions>>

(* The registry answers for another entry than the one submitted.            *)
Misanswer(p) ==
  /\ proc[p].pc = "wait"
  /\ Fault
  /\ \E state \in {"pending", "accepted", "rejected"} :
       Become(p, IF Binds(proc[p].rec, state, OtherEntry)
                   THEN Reconcile(proc[p].rec, state, OtherEntry)
                   ELSE Idle)
  /\ UNCHANGED <<record, requests, registryEntry, publishedEntries, signed>>

(* The submission fails and may be retried with the same bytes: the request  *)
(* or its answer was lost, or the registry is busy.                          *)
Uncertain(p) ==
  /\ proc[p].pc = "wait"
  /\ Fault
  /\ LET rec == proc[p].rec
     IN  Become(p, Save(WithIssuanceSubmission(rec, "indeterminate", rec.bytes, rec.terminal), "idle"))
  /\ UNCHANGED <<record, requests, registryEntry, publishedEntries, signed>>

(* The submission fails for good.                                            *)
Refused(p) ==
  /\ proc[p].pc = "wait"
  /\ Become(p, Save(WithIssuanceSubmission(proc[p].rec, "rejected", proc[p].rec.bytes, TRUE), "idle"))
  /\ UNCHANGED <<record, requests, registryEntry, publishedEntries, signed, interruptions>>

(* activateAcceptedIssuance succeeds; activated is to be persisted.          *)
Activate(p) ==
  /\ proc[p].pc = "activate"
  /\ publishedEntries' = publishedEntries \cup {proc[p].rec.bytes}
  /\ Become(p, Save([proc[p].rec EXCEPT !.activated = TRUE], "idle"))
  /\ UNCHANGED <<record, requests, registryEntry, signed, interruptions>>

(* Any call of the step fails, or the process crashes: the record stays.     *)
Fail(p) ==
  /\ proc[p].pc # "idle"
  /\ Fault
  /\ Become(p, Idle)
  /\ UNCHANGED <<record, requests, registryEntry, publishedEntries, signed>>
-----------------------------------------------------------------------------
Proceed(p) ==
  \/ Load(p) \/ Create(p) \/ PrepareIssuance(p) \/ Write(p) \/ SubmitIssuance(p) \/ Answer(p) \/ Activate(p)

IssuanceNext ==
  \/ \E p \in Procs :
       \/ Proceed(p) \/ PrepareRefused(p) \/ Misanswer(p) \/ Uncertain(p) \/ Refused(p) \/ Fail(p)
  \/ Receive \/ Settle

IssuanceSpec == IssuanceInit /\ [][IssuanceNext]_issuanceVars

(* The setup is resumed until it is over, and the registry works.            *)
IssuanceFairness ==
  /\ \A p \in Procs : WF_issuanceVars(Proceed(p))
  /\ WF_issuanceVars(Receive)
  /\ WF_issuanceVars(Settle)

IssuanceFairSpec == IssuanceSpec /\ IssuanceFairness
-----------------------------------------------------------------------------
(* The type invariant; a call that waits or saves carries a record.          *)
IssuanceTypeOK ==
  /\ record \in Record
  /\ proc \in [Procs -> [pc : Steps, rec : Record, next : Steps]]
  /\ requests \subseteq Entries
  /\ registryEntry \in [bytes : Entries \cup {NoEntry},
                   state : {"none", "pending", "accepted", "rejected"}]
  /\ publishedEntries \subseteq Entries
  /\ signed \in 0..MaxSigned
  /\ interruptions \in 0..MaxInterruptions

(* Only an entry the log accepted is ever published, whatever the registry   *)
(* answers and however many processes run the setup.                         *)
PublishedWasAccepted ==
  \A b \in publishedEntries : registryEntry = [bytes |-> b, state |-> "accepted"]

(* The registry only ever sees the bytes the durable record holds: a lost    *)
(* answer or a crash never leads to a second, different entry.               *)
OnlyDurableBytesAreSent == requests \subseteq {record.bytes}

(* "Publishes/converges status only after exact-byte log acceptance is       *)
(* durably bound": a published entry is the one the record holds as accepted.*)
PublishedIsRecorded ==
  \A b \in publishedEntries : record.bytes = b /\ record.sub = "accepted"

(* Through every lost answer and restart, what is published is the entry     *)
(* that the log accepted and the record holds, and no other was ever sent.   *)
SetupIsSafe == PublishedWasAccepted /\ OnlyDurableBytesAreSent /\ PublishedIsRecorded

(* The record never takes back what it recorded: the exact bytes, an         *)
(* acceptance, an activation or a terminal failure.                          *)
RecordNeverRegresses ==
  [][/\ record.bytes # NoEntry => record'.bytes = record.bytes
     /\ record.sub = "accepted" => record'.sub = "accepted"
     /\ record.activated => record'.activated
     /\ record.terminal => record'.terminal]_issuanceVars

(* A setup whose intent was created and that is resumed after every failure  *)
(* comes to an end: activated, rejected or terminally failed.  Only an       *)
(* answer the registry gave for another entry, once recorded, blocks it      *)
(* (assertAcceptedBinding).                                                  *)
SetupEnds ==
  record # NoRecord ~>
    (\/ record.activated \/ record.terminal \/ record.sub = "rejected"
     \/ record.hash = OtherEntry)
=============================================================================
