--------------------------- MODULE RegistryProofs ---------------------------
(***************************************************************************)
(* Managed issuance for any number of processes and faults: what is        *)
(* published was accepted.  For a single process at a time, moreover, the  *)
(* durable record and the registry never disagree.  Then the registry's    *)
(* client, for any number of callers, attempts and lost messages.          *)
(***************************************************************************)
EXTENDS ManagedIssuance, RegistryClient, TLAPS

(* An accepted submission is the registry's word on the exact bytes.         *)
Truthful(r) ==
  r.sub = "accepted" =>
    r.bytes \in Entries /\ registryEntry = [bytes |-> r.bytes, state |-> "accepted"]

CallState == [pc : Steps, rec : Record, next : Steps]

(* What a call carries when it is about to activate or to submit.            *)
GoodCall(c) ==
  /\ c \in CallState
  /\ Truthful(c.rec)
  /\ c.pc = "activate" => c.rec.sub = "accepted"
  /\ c.pc = "save" /\ c.next = "activate" => c.rec.sub = "accepted"
  /\ c.pc = "save" => c.next \in {"idle", "submit", "activate"}
  /\ c.pc = "prepare" => c.rec.sub # "accepted"
  /\ c.pc \in {"submit", "wait"} => c.rec.bytes \in Entries
  /\ c.pc = "save" /\ c.next = "submit" => c.rec.bytes \in Entries

AcceptanceInv ==
  /\ IssuanceTypeOK
  /\ Truthful(record)
  /\ \A p \in Procs : GoodCall(proc[p])
  /\ registryEntry.bytes = NoEntry <=> registryEntry.state = "none"
  /\ PublishedWasAccepted
-----------------------------------------------------------------------------
(* The constructors of records and calls.                                    *)
LEMMA Constructed ==
  ASSUME BoundsAssumption, NEW r \in Record, NEW state \in IssuanceSubmissions,
         NEW hash \in Entries \cup {NoEntry, OtherEntry}, NEW terminal \in BOOLEAN
  PROVE  /\ WithIssuanceSubmission(r, state, hash, terminal) \in Record
         /\ WithIssuanceSubmission(r, state, hash, terminal).sub = state
         /\ WithIssuanceSubmission(r, state, hash, terminal).bytes = r.bytes
  BY DEF WithIssuanceSubmission, Record

LEMMA ConstructedStates ==
  ASSUME NEW pc \in Steps, NEW rec \in Record, NEW next \in Steps
  PROVE  /\ At(pc, rec) \in CallState
         /\ At(pc, rec).pc = pc /\ At(pc, rec).rec = rec /\ At(pc, rec).next = "idle"
  BY DEF At, Steps, CallState

LEMMA SavedStates ==
  ASSUME NEW rec \in Record, NEW next \in Steps
  PROVE  /\ Save(rec, next) \in CallState
         /\ Save(rec, next).pc = "save" /\ Save(rec, next).rec = rec /\ Save(rec, next).next = next
  BY DEF Save, Steps, CallState

LEMMA Intents ==
  ASSUME BoundsAssumption
  PROVE  /\ Intent \in Record /\ NoRecord \in Record
         /\ Intent.sub = "none" /\ NoRecord.sub = "absent"
         /\ Intent.bytes = NoEntry /\ NoRecord.bytes = NoEntry
         /\ NoEntry \notin Entries
<1>1. NoEntry \notin Entries
  BY DEF BoundsAssumption, NoEntry, Entries
<1>2. Intent \in Record /\ Intent.sub = "none" /\ Intent.bytes = NoEntry
  BY DEF Intent, Record, IssuanceSubmissions
<1>3. NoRecord \in Record /\ NoRecord.sub = "absent" /\ NoRecord.bytes = NoEntry
  BY Zenon DEF Intent, NoRecord, Record, IssuanceSubmissions
<1> QED  BY <1>1, <1>2, <1>3

LEMMA IntentFlags ==
  /\ Intent.terminal = FALSE /\ Intent.activated = FALSE
  /\ NoRecord.terminal = FALSE /\ NoRecord.activated = FALSE
  BY DEF Intent, NoRecord

(* States a call may move to.                                                *)
LEMMA IdleIsGood ==
  ASSUME BoundsAssumption
  PROVE  GoodCall(Idle)
  BY Intents, ConstructedStates DEF Idle, GoodCall, Truthful, Steps

LEMMA ResumeIsGood ==
  ASSUME BoundsAssumption, NEW rec \in Record, Truthful(rec)
  PROVE  GoodCall(ResumeIssuance(rec))
<1>1. rec.bytes \in Entries \cup {NoEntry}
  BY DEF Record
<1>2. CASE ResumeIssuance(rec) = Idle
  BY <1>2, IdleIsGood
<1>3. CASE ResumeIssuance(rec) = At("activate", rec) /\ rec.sub = "accepted"
  BY <1>3, ConstructedStates DEF GoodCall, Steps
<1>4. CASE ResumeIssuance(rec) = At("prepare", rec) /\ rec.sub # "accepted"
  BY <1>4, ConstructedStates DEF GoodCall, Steps
<1>5. CASE ResumeIssuance(rec) = At("submit", rec) /\ rec.bytes # NoEntry
  BY <1>1, <1>5, ConstructedStates DEF GoodCall, Steps
<1> QED
  BY <1>2, <1>3, <1>4, <1>5 DEF ResumeIssuance

LEMMA ReconcileIsGood ==
  ASSUME BoundsAssumption, NEW rec \in Record, rec.bytes \in Entries,
         NEW state \in {"pending", "accepted", "rejected"},
         NEW hash \in Entries \cup {NoEntry, OtherEntry},
         Binds(rec, state, hash),
         state = "accepted" => registryEntry = [bytes |-> hash, state |-> "accepted"]
  PROVE  GoodCall(Reconcile(rec, state, hash))
<1> DEFINE r == WithIssuanceSubmission(rec, state, hash, rec.terminal)
           next == IF state = "accepted" THEN "activate" ELSE "idle"
<1>1. rec.terminal \in BOOLEAN /\ state \in IssuanceSubmissions
  BY DEF Record, IssuanceSubmissions
<1>2. r \in Record /\ r.sub = state /\ r.bytes = rec.bytes
  BY <1>1, Constructed
<1>3. next \in Steps /\ next \in {"idle", "activate"} /\ (next = "activate" => state = "accepted")
  BY DEF Steps
<1>4. Reconcile(rec, state, hash) = Save(r, next)
  BY DEF Reconcile
<1>5. state = "accepted" => hash = rec.bytes
  BY DEF Binds
<1> HIDE DEF r, next
<1>6. Truthful(r)
  BY <1>2, <1>5 DEF Truthful
<1> QED
  BY <1>2, <1>3, <1>4, <1>6, SavedStates DEF GoodCall

(* One call moves to a good state and the registry stands still.             *)
LEMMA CallMoves ==
  ASSUME AcceptanceInv, NEW p \in Procs, NEW s, GoodCall(s), Become(p, s), registryEntry' = registryEntry
  PROVE  /\ proc' \in [Procs -> CallState]
         /\ \A q \in Procs : GoodCall(proc[q])'
<1>1. proc \in [Procs -> CallState] /\ s \in CallState
  BY DEF AcceptanceInv, IssuanceTypeOK, CallState, GoodCall
<1>2. proc' = [proc EXCEPT ![p] = s]
  BY DEF Become
<1>3. proc' \in [Procs -> CallState]
  BY <1>1, <1>2
<1>4. ASSUME NEW q \in Procs PROVE GoodCall(proc[q])'
  <2>1. GoodCall(proc'[q])
    <3>1. CASE q = p
      BY <1>1, <1>2, <3>1
    <3>2. CASE q # p
      BY <1>1, <1>2, <3>2 DEF AcceptanceInv
    <3> QED  BY <3>1, <3>2
  <2> QED
    BY <2>1 DEF GoodCall, Truthful
<1> QED  BY <1>3, <1>4

LEMMA AcceptanceInit == IssuanceInit => AcceptanceInv
<1> USE BoundsAssumption
<1>1. IssuanceInit => AcceptanceInv
  <2> SUFFICES ASSUME IssuanceInit PROVE AcceptanceInv
    OBVIOUS
  <2>1. \A p \in Procs : GoodCall(proc[p])
    BY IdleIsGood, Zenon DEF IssuanceInit
  <2>2. proc \in [Procs -> CallState]
    BY <2>1, IdleIsGood DEF IssuanceInit, GoodCall
  <2>3. record \in Record /\ Truthful(record)
    BY Intents DEF IssuanceInit, Truthful
  <2>4. /\ requests \subseteq Entries /\ publishedEntries = {}
        /\ registryEntry \in [bytes : Entries \cup {NoEntry},
                         state : {"none", "pending", "accepted", "rejected"}]
        /\ registryEntry.bytes = NoEntry /\ registryEntry.state = "none"
        /\ signed \in 0..MaxSigned /\ interruptions \in 0..MaxInterruptions
    BY DEF IssuanceInit, BoundsAssumption
  <2> QED
    BY <2>1, <2>2, <2>3, <2>4 DEF AcceptanceInv, IssuanceTypeOK, CallState, PublishedWasAccepted
<1> QED  BY <1>1

THEOREM Acceptance == IssuanceSpec => []AcceptanceInv
<1> USE BoundsAssumption
<1>1. IssuanceInit => AcceptanceInv
  BY AcceptanceInit
<1>2. AcceptanceInv /\ [IssuanceNext]_issuanceVars => AcceptanceInv'
  <2> SUFFICES ASSUME AcceptanceInv, [IssuanceNext]_issuanceVars PROVE AcceptanceInv'
    OBVIOUS
  <2>a. /\ IssuanceTypeOK /\ Truthful(record) /\ PublishedWasAccepted
        /\ \A p \in Procs : GoodCall(proc[p])
        /\ record \in Record /\ signed \in 0..MaxSigned /\ interruptions \in 0..MaxInterruptions
        /\ proc \in [Procs -> CallState]
        /\ registryEntry.bytes = NoEntry <=> registryEntry.state = "none"
    BY DEF AcceptanceInv, IssuanceTypeOK, CallState
  <2>b. ASSUME NEW p \in Procs
        PROVE  /\ proc[p].rec \in Record /\ proc[p].pc \in Steps /\ proc[p].next \in Steps
               /\ proc[p].rec.bytes \in Entries \cup {NoEntry}
               /\ Truthful(proc[p].rec)
    BY <2>a DEF CallState, GoodCall, Record
  <2>f. Fault => interruptions' \in 0..MaxInterruptions
    BY <2>a DEF Fault, BoundsAssumption
  (* A step of one call that leaves the registry, the record and what is     *)
  (* published alone.                                                        *)
  <2>c. ASSUME NEW p \in Procs, NEW s, GoodCall(s), Become(p, s),
               record' \in Record, Truthful(record)',
               UNCHANGED registryEntry, requests' \subseteq Entries,
               publishedEntries' \subseteq Entries, PublishedWasAccepted',
               signed' \in 0..MaxSigned, interruptions' \in 0..MaxInterruptions
        PROVE  AcceptanceInv'
    BY <2>a, <2>c, CallMoves DEF AcceptanceInv, IssuanceTypeOK, CallState
  <2>d. ASSUME UNCHANGED <<registryEntry, publishedEntries>> PROVE PublishedWasAccepted'
    BY <2>a, <2>d DEF PublishedWasAccepted
  <2>e. ASSUME UNCHANGED <<registryEntry, record>> PROVE Truthful(record)' /\ record' \in Record
    BY <2>a, <2>e DEF Truthful
  <2>r. requests \subseteq Entries /\ publishedEntries \subseteq Entries
    BY <2>a DEF IssuanceTypeOK
  <2>1. ASSUME NEW p \in Procs, Load(p) PROVE AcceptanceInv'
    <3>1. GoodCall(At("create", Intent))
      BY Intents, ConstructedStates DEF GoodCall, Truthful, Steps
    <3>2. GoodCall(IF record = NoRecord THEN At("create", Intent) ELSE ResumeIssuance(record))
      BY <2>a, <3>1, ResumeIsGood
    <3> QED
      BY <2>1, <2>a, <2>c, <2>d, <2>e, <2>r, <3>2 DEF Load
  <2>2. ASSUME NEW p \in Procs, Create(p) PROVE AcceptanceInv'
    <3>1. CASE record = NoRecord
      <4>1. GoodCall(At("prepare", Intent))
        BY Intents, ConstructedStates DEF GoodCall, Truthful, Steps
      <4>2. record' \in Record /\ Truthful(record)'
        BY <2>2, <3>1, Intents DEF Create, Truthful
      <4> QED
        BY <2>2, <2>a, <2>c, <2>d, <2>r, <3>1, <4>1, <4>2 DEF Create
    <3>2. CASE record # NoRecord
      BY <2>2, <2>a, <2>c, <2>d, <2>e, <2>r, <3>2, ResumeIsGood DEF Create
    <3> QED  BY <3>1, <3>2
  <2>3. ASSUME NEW p \in Procs, PrepareIssuance(p) PROVE AcceptanceInv'
    <3> DEFINE r == [proc[p].rec EXCEPT !.bytes = signed + 1]
    <3>1. signed + 1 \in Entries /\ signed' \in 0..MaxSigned
      BY <2>3, <2>a DEF PrepareIssuance, Entries, BoundsAssumption
    <3>2. r \in Record /\ r.bytes = signed + 1 /\ r.sub = proc[p].rec.sub
      BY <2>b, <3>1 DEF Record
    <3>3. r.sub # "accepted"
      BY <2>3, <2>a, <3>2 DEF PrepareIssuance, GoodCall
    <3>4. Become(p, Save(r, "submit"))
      BY <2>3 DEF PrepareIssuance
    <3> HIDE DEF r
    <3>5. GoodCall(Save(r, "submit"))
      BY <3>1, <3>2, <3>3, SavedStates DEF GoodCall, Truthful, Steps
    <3> QED
      BY <2>3, <2>a, <2>c, <2>d, <2>e, <2>r, <3>1, <3>4, <3>5 DEF PrepareIssuance
  <2>4. ASSUME NEW p \in Procs, PrepareRefused(p) PROVE AcceptanceInv'
    <3> DEFINE r == [proc[p].rec EXCEPT !.terminal = TRUE]
    <3>1. r \in Record /\ r.sub = proc[p].rec.sub
      BY <2>b, Zenon DEF Record
    <3>2. r.sub # "accepted"
      BY <2>4, <2>a, <3>1 DEF PrepareRefused, GoodCall
    <3>3. Become(p, Save(r, "idle"))
      BY <2>4 DEF PrepareRefused
    <3> HIDE DEF r
    <3>4. GoodCall(Save(r, "idle"))
      BY <3>1, <3>2, SavedStates DEF GoodCall, Truthful, Steps
    <3> QED
      BY <2>4, <2>a, <2>c, <2>d, <2>e, <2>r, <3>3, <3>4 DEF PrepareRefused
  <2>5. ASSUME NEW p \in Procs, Write(p) PROVE AcceptanceInv'
    <3> DEFINE s == IF proc[p].next = "idle" THEN Idle ELSE At(proc[p].next, proc[p].rec)
    <3>1. record' \in Record /\ Truthful(record)'
      BY <2>5, <2>b DEF Write, Truthful
    <3>2. GoodCall(s)
      <4>1. CASE proc[p].next = "idle"
        BY <4>1, IdleIsGood
      <4>2. CASE proc[p].next # "idle"
        <5>1. s = At(proc[p].next, proc[p].rec)
          BY <4>2
        <5>2. proc[p].pc = "save" /\ GoodCall(proc[p])
          BY <2>5, <2>a DEF Write
        <5>3. s \in CallState /\ s.pc = proc[p].next /\ s.rec = proc[p].rec
          BY <2>b, <5>1, ConstructedStates
        <5>4. proc[p].next \in {"submit", "activate"}
          BY <4>2, <5>2 DEF GoodCall
        <5> HIDE DEF s
        <5> QED  BY <5>2, <5>3, <5>4 DEF GoodCall
      <4> QED  BY <4>1, <4>2
    <3>3. Become(p, s)
      BY <2>5 DEF Write
    <3> HIDE DEF s
    <3> QED
      BY <2>5, <2>a, <2>c, <2>d, <2>r, <3>1, <3>2, <3>3 DEF Write
  <2>6. ASSUME NEW p \in Procs, SubmitIssuance(p) PROVE AcceptanceInv'
    <3>1. proc[p].rec.bytes \in Entries
      BY <2>6, <2>a DEF SubmitIssuance, GoodCall
    <3>2. GoodCall(At("wait", proc[p].rec))
      BY <2>b, <3>1, ConstructedStates DEF GoodCall, Steps
    <3>3. requests' \subseteq Entries
      BY <2>6, <2>r, <3>1 DEF SubmitIssuance
    <3> QED
      BY <2>6, <2>a, <2>c, <2>d, <2>e, <2>r, <3>2, <3>3 DEF SubmitIssuance
  <2>7. ASSUME NEW p \in Procs, Answer(p) PROVE AcceptanceInv'
    <3> DEFINE rec == proc[p].rec
               s == IF Binds(rec, registryEntry.state, registryEntry.bytes)
                      THEN Reconcile(rec, registryEntry.state, registryEntry.bytes) ELSE Idle
    <3>1. rec \in Record /\ rec.bytes \in Entries
      BY <2>7, <2>a, <2>b DEF Answer, GoodCall
    <3>2. /\ registryEntry.state \in {"pending", "accepted", "rejected"}
          /\ registryEntry.bytes \in Entries \cup {NoEntry, OtherEntry}
          /\ registryEntry.state = "accepted" => registryEntry = [bytes |-> registryEntry.bytes, state |-> "accepted"]
      BY <2>7, <2>a DEF Answer, IssuanceTypeOK
    <3>3. Become(p, s)
      BY <2>7 DEF Answer
    <3>4. GoodCall(s)
      <4>1. CASE Binds(rec, registryEntry.state, registryEntry.bytes)
        <5> HIDE DEF rec
        <5> QED  BY <3>1, <3>2, <4>1, ReconcileIsGood
      <4>2. CASE ~Binds(rec, registryEntry.state, registryEntry.bytes)
        BY <4>2, IdleIsGood
      <4> QED  BY <4>1, <4>2
    <3> HIDE DEF s
    <3> QED
      BY <2>7, <2>a, <2>c, <2>d, <2>e, <2>r, <3>3, <3>4 DEF Answer
  <2>8. ASSUME NEW p \in Procs, Misanswer(p) PROVE AcceptanceInv'
    <3> DEFINE rec == proc[p].rec
               s(state) == IF Binds(rec, state, OtherEntry)
                             THEN Reconcile(rec, state, OtherEntry) ELSE Idle
    <3>1. rec \in Record /\ rec.bytes \in Entries
      BY <2>8, <2>a, <2>b DEF Misanswer, GoodCall
    <3>2. rec.bytes # OtherEntry
      BY <3>1 DEF Entries, OtherEntry, BoundsAssumption
    <3>3. PICK state \in {"pending", "accepted", "rejected"} : Become(p, s(state))
      BY <2>8 DEF Misanswer
    <3>4. GoodCall(s(state))
      <4>1. CASE Binds(rec, state, OtherEntry)
        <5>1. state # "accepted"
          BY <3>2, <4>1 DEF Binds
        <5>2. s(state) = Reconcile(rec, state, OtherEntry)
          BY <4>1
        <5> HIDE DEF rec, s
        <5> QED  BY <3>1, <4>1, <5>1, <5>2, ReconcileIsGood
      <4>2. CASE ~Binds(rec, state, OtherEntry)
        BY <4>2, IdleIsGood
      <4> QED  BY <4>1, <4>2
    <3> HIDE DEF s
    <3> QED
      BY <2>8, <2>a, <2>c, <2>d, <2>e, <2>f, <2>r, <3>3, <3>4 DEF Misanswer
  <2>9. ASSUME NEW p \in Procs, Uncertain(p) PROVE AcceptanceInv'
    <3> DEFINE r == WithIssuanceSubmission(proc[p].rec, "indeterminate", proc[p].rec.bytes, proc[p].rec.terminal)
    <3>1. proc[p].rec.terminal \in BOOLEAN /\ proc[p].rec.bytes \in Entries \cup {NoEntry, OtherEntry}
      BY <2>b DEF Record
    <3>2. r \in Record /\ r.sub = "indeterminate"
      <4>1. "indeterminate" \in IssuanceSubmissions
        BY DEF IssuanceSubmissions
      <4> QED  BY <2>b, <3>1, <4>1, Constructed, Zenon
    <3>3. Become(p, Save(r, "idle"))
      BY <2>9 DEF Uncertain
    <3> HIDE DEF r
    <3>4. GoodCall(Save(r, "idle"))
      BY <3>2, SavedStates DEF GoodCall, Truthful, Steps
    <3> QED
      BY <2>9, <2>a, <2>c, <2>d, <2>e, <2>f, <2>r, <3>3, <3>4 DEF Uncertain
  <2>10. ASSUME NEW p \in Procs, Refused(p) PROVE AcceptanceInv'
    <3> DEFINE r == WithIssuanceSubmission(proc[p].rec, "rejected", proc[p].rec.bytes, TRUE)
    <3>1. r \in Record /\ r.sub = "rejected"
      BY <2>b, Constructed, Zenon DEF IssuanceSubmissions
    <3>2. Become(p, Save(r, "idle"))
      BY <2>10, Zenon DEF Refused
    <3> HIDE DEF r
    <3>3. GoodCall(Save(r, "idle"))
      BY <3>1, SavedStates DEF GoodCall, Truthful, Steps
    <3> QED
      BY <2>10, <2>a, <2>c, <2>d, <2>e, <2>r, <3>2, <3>3 DEF Refused
  <2>11. ASSUME NEW p \in Procs, Activate(p) PROVE AcceptanceInv'
    <3> DEFINE r == [proc[p].rec EXCEPT !.activated = TRUE]
    <3>1. r \in Record /\ r.sub = proc[p].rec.sub /\ r.bytes = proc[p].rec.bytes
      BY <2>b, Zenon DEF Record
    <3>2. proc[p].rec.sub = "accepted"
      BY <2>11, <2>a DEF Activate, GoodCall
    <3>3. /\ proc[p].rec.bytes \in Entries
          /\ registryEntry = [bytes |-> proc[p].rec.bytes, state |-> "accepted"]
      BY <2>b, <3>2 DEF Truthful
    <3>4. Become(p, Save(r, "idle"))
      BY <2>11 DEF Activate
    <3> HIDE DEF r
    <3>5. GoodCall(Save(r, "idle"))
      BY <3>1, <3>3, SavedStates DEF GoodCall, Truthful, Steps
    <3>6. publishedEntries' \subseteq Entries /\ PublishedWasAccepted'
      BY <2>11, <2>a, <2>r, <3>3 DEF Activate, PublishedWasAccepted
    <3> QED
      BY <2>11, <2>a, <2>c, <2>e, <2>r, <3>4, <3>5, <3>6 DEF Activate
  <2>12. ASSUME NEW p \in Procs, Fail(p) PROVE AcceptanceInv'
    BY <2>12, <2>a, <2>c, <2>d, <2>e, <2>f, <2>r, IdleIsGood DEF Fail
  (* The registry binds an entry or settles one: none was accepted before.   *)
  <2>13. ASSUME registryEntry' \in [bytes : Entries, state : {"pending", "accepted", "rejected"}],
                registryEntry.state # "accepted",
                UNCHANGED <<record, proc, requests, publishedEntries, signed, interruptions>>
         PROVE  AcceptanceInv'
    <3>1. ASSUME NEW r, Truthful(r) PROVE r.sub # "accepted"
      BY <2>13, <3>1 DEF Truthful
    <3>2. publishedEntries = {}
      BY <2>13, <2>a DEF PublishedWasAccepted
    <3>3. Truthful(record)'
      BY <2>13, <2>a, <3>1 DEF Truthful
    <3>4. ASSUME NEW q \in Procs PROVE GoodCall(proc[q])'
      BY <2>13, <2>a, <2>b, <3>1 DEF GoodCall, Truthful
    <3>5. IssuanceTypeOK'
      BY <2>13, <2>a DEF IssuanceTypeOK
    <3> QED
      BY <2>13, <3>2, <3>3, <3>4, <3>5, Intents DEF AcceptanceInv, PublishedWasAccepted
  <2>14. CASE Receive
    <3>1. registryEntry.state # "accepted"
      BY <2>14, <2>a DEF Receive, IssuanceTypeOK
    <3> QED
      BY <2>13, <2>14, <2>r, <3>1 DEF Receive
  <2>15. CASE Settle
    BY <2>13, <2>15, <2>a, SMTT(20) DEF Settle, IssuanceTypeOK
  <2>16. CASE UNCHANGED issuanceVars
    BY <2>16, <2>a DEF issuanceVars, AcceptanceInv, IssuanceTypeOK, Truthful, GoodCall, PublishedWasAccepted, CallState
  <2> QED
    BY <2>1, <2>2, <2>3, <2>4, <2>5, <2>6, <2>7, <2>8, <2>9, <2>10, <2>11, <2>12, <2>14, <2>15, <2>16
       DEF IssuanceNext, Proceed
<1> QED  BY <1>1, <1>2, PTL DEF IssuanceSpec

(* The record, the calls and the registry keep their types.                  *)
THEOREM TypeCorrect == IssuanceSpec => []IssuanceTypeOK
<1>1. AcceptanceInv => IssuanceTypeOK
  BY DEF AcceptanceInv
<1> QED  BY <1>1, Acceptance, PTL

(* activateAcceptedIssuance is called only for an entry the log accepted,    *)
(* for any number of processes that run the setup at once.                   *)
THEOREM OnlyAcceptedIsPublished == IssuanceSpec => []PublishedWasAccepted
<1>1. AcceptanceInv => PublishedWasAccepted
  BY DEF AcceptanceInv
<1> QED  BY <1>1, Acceptance, PTL
-----------------------------------------------------------------------------
(* One process at a time runs the setup (it may crash and start again).      *)
SoleProcess == \A p, q \in Procs : p = q

(* How a call in progress relates to the durable record.                     *)
Holds(c, r) ==
  /\ c.pc = "create" => r = NoRecord /\ c.rec = Intent
  /\ c.pc \in {"prepare", "submit", "wait", "activate"} =>
       c.rec = r /\ r.terminal = FALSE /\ r.activated = FALSE
  /\ c.pc = "prepare" => r.bytes = NoEntry
  /\ c.pc \in {"submit", "wait"} => r.sub # "accepted"
  /\ c.pc = "save" =>
       /\ r.terminal = FALSE /\ r.activated = FALSE
       /\ r.bytes # NoEntry => c.rec.bytes = r.bytes
       /\ r.sub = "accepted" => c.rec.sub = "accepted"
       /\ c.next # "idle" => c.rec.terminal = FALSE /\ c.rec.activated = FALSE
       /\ c.next = "submit" => c.rec.sub # "accepted"

DurableInv ==
  /\ AcceptanceInv
  /\ requests \subseteq {record.bytes}
  /\ PublishedIsRecorded
  /\ \A p \in Procs : Holds(proc[p], record)

(* The sole process moves.                                                   *)
LEMMA SoleMoves ==
  ASSUME SoleProcess, AcceptanceInv, NEW p \in Procs, NEW s, Become(p, s), Holds(s, record')
  PROVE  \A q \in Procs : Holds(proc'[q], record')
<1>1. \A q \in Procs : q = p
  BY DEF SoleProcess
<1>2. proc'[p] = s
  BY DEF AcceptanceInv, IssuanceTypeOK, Become
<1> QED  BY <1>1, <1>2

LEMMA IdleHolds == \A r : Holds(Idle, r)
  BY DEF Holds, Idle, At

LEMMA ResumeHolds ==
  ASSUME BoundsAssumption, record \in Record
  PROVE  Holds(ResumeIssuance(record), record)
<1>1. record.terminal \in BOOLEAN /\ record.activated \in BOOLEAN
  BY DEF Record
<1>2. \A pc, r : At(pc, r).pc = pc /\ At(pc, r).rec = r
  BY DEF At
<1>3. CASE record.activated \/ record.terminal \/ record.sub = "rejected"
  BY <1>3, IdleHolds DEF ResumeIssuance
<1>4. CASE ~(record.activated \/ record.terminal \/ record.sub = "rejected")
  <2>1. record.terminal = FALSE /\ record.activated = FALSE
    BY <1>1, <1>4
  <2>2. CASE record.sub = "accepted"
    <3>1. ResumeIssuance(record) = Idle \/ ResumeIssuance(record) = At("activate", record)
      BY <1>4, <2>2 DEF ResumeIssuance
    <3> QED  BY <1>2, <2>1, <3>1, IdleHolds DEF Holds
  <2>3. CASE record.sub # "accepted"
    <3>1. CASE record.bytes = NoEntry
      <4>1. ResumeIssuance(record) = At("prepare", record)
        BY <1>4, <2>3, <3>1 DEF ResumeIssuance
      <4> QED  BY <1>2, <2>1, <3>1, <4>1 DEF Holds
    <3>2. CASE record.bytes # NoEntry
      <4>1. ResumeIssuance(record) = At("submit", record)
        BY <1>4, <2>3, <3>2 DEF ResumeIssuance
      <4> QED  BY <1>2, <2>1, <2>3, <4>1 DEF Holds
    <3> QED  BY <3>1, <3>2
  <2> QED  BY <2>2, <2>3
<1> QED  BY <1>3, <1>4

LEMMA SaveHolds ==
  ASSUME NEW r, NEW rec, NEW next \in {"idle", "submit", "activate"},
         r.terminal = FALSE, r.activated = FALSE,
         r.bytes # NoEntry => rec.bytes = r.bytes,
         r.sub = "accepted" => rec.sub = "accepted",
         next # "idle" => rec.terminal = FALSE /\ rec.activated = FALSE,
         next = "submit" => rec.sub # "accepted"
  PROVE  Holds(Save(rec, next), r)
<1>1. Save(rec, next).pc = "save" /\ Save(rec, next).rec = rec /\ Save(rec, next).next = next
  BY DEF Save
<1> QED  BY <1>1 DEF Holds

(* The fields of a record with a new submission.                             *)
LEMMA SubmissionFields ==
  ASSUME NEW r, NEW state, NEW hash, NEW terminal
  PROVE  /\ WithIssuanceSubmission(r, state, hash, terminal).sub = state
         /\ WithIssuanceSubmission(r, state, hash, terminal).bytes = r.bytes
         /\ WithIssuanceSubmission(r, state, hash, terminal).terminal = terminal
         /\ WithIssuanceSubmission(r, state, hash, terminal).activated = r.activated
  BY DEF WithIssuanceSubmission

LEMMA ReconcileHolds ==
  ASSUME NEW r, NEW state, NEW hash, r.terminal = FALSE, r.activated = FALSE, r.sub # "accepted"
  PROVE  Holds(Reconcile(r, state, hash), r)
<1> DEFINE w == WithIssuanceSubmission(r, state, hash, r.terminal)
<1>1. w.bytes = r.bytes /\ w.terminal = FALSE /\ w.activated = FALSE
  BY SubmissionFields
<1>2. Reconcile(r, state, hash) = Save(w, IF state = "accepted" THEN "activate" ELSE "idle")
  BY DEF Reconcile
<1> HIDE DEF w
<1>3. CASE state = "accepted"
  BY <1>1, <1>2, <1>3, SaveHolds, Zenon
<1>4. CASE state # "accepted"
  BY <1>1, <1>2, <1>4, SaveHolds, Zenon
<1> QED  BY <1>3, <1>4

NoRegress ==
  /\ record.bytes # NoEntry => record'.bytes = record.bytes
  /\ record.sub = "accepted" => record'.sub = "accepted"
  /\ record.activated => record'.activated
  /\ record.terminal => record'.terminal

LEMMA DurableStep ==
  ASSUME SoleProcess, DurableInv, [IssuanceNext]_issuanceVars, AcceptanceInv'
  PROVE  DurableInv' /\ NoRegress
<1> USE BoundsAssumption
<1>a. /\ AcceptanceInv /\ requests \subseteq {record.bytes} /\ PublishedIsRecorded
      /\ \A p \in Procs : Holds(proc[p], record)
      /\ record \in Record
  BY DEF DurableInv, AcceptanceInv, IssuanceTypeOK
<1>b. ASSUME UNCHANGED record PROVE NoRegress
  BY <1>b DEF NoRegress
<1>c. ASSUME UNCHANGED <<record, publishedEntries>> PROVE PublishedIsRecorded'
  BY <1>a, <1>c DEF PublishedIsRecorded
(* A step that leaves the record and what is published alone.                *)
<1>d. ASSUME NEW p \in Procs, NEW s, Become(p, s), Holds(s, record),
             UNCHANGED <<record, publishedEntries>>, requests' \subseteq {record.bytes}
      PROVE  DurableInv' /\ NoRegress
  <2>1. \A q \in Procs : Holds(proc'[q], record')
    BY <1>a, <1>d, SoleMoves
  <2> QED
    BY <1>b, <1>c, <1>d, <2>1 DEF DurableInv
<1>1. ASSUME NEW p \in Procs, Load(p) PROVE DurableInv' /\ NoRegress
  <2>1. CASE record = NoRecord
    <3>1. Holds(At("create", Intent), record)
      BY <2>1 DEF Holds, At
    <3> QED  BY <1>1, <1>a, <1>d, <2>1, <3>1 DEF Load
  <2>2. CASE record # NoRecord
    BY <1>1, <1>a, <1>d, <2>2, ResumeHolds DEF Load
  <2> QED  BY <2>1, <2>2
<1>2. ASSUME NEW p \in Procs, Create(p) PROVE DurableInv' /\ NoRegress
  <2>1. record = NoRecord /\ record' = Intent /\ Become(p, At("prepare", Intent))
    BY <1>2, <1>a DEF Create, Holds
  <2>2. Holds(At("prepare", Intent), record')
    BY <2>1, Intents, IntentFlags DEF Holds, At
  <2>3. \A q \in Procs : Holds(proc'[q], record')
    BY <1>a, <2>1, <2>2, SoleMoves, Zenon
  <2>4. requests' \subseteq {record'.bytes}
    BY <1>2, <1>a, <2>1, Intents DEF Create
  <2>5. publishedEntries = {}
    BY <1>a, <2>1, Intents DEF PublishedIsRecorded
  <2>6. NoRegress
    BY <2>1, Intents, IntentFlags DEF NoRegress
  <2> QED
    BY <1>2, <2>3, <2>4, <2>5, <2>6 DEF Create, DurableInv, PublishedIsRecorded
<1>3. ASSUME NEW p \in Procs, PrepareIssuance(p) PROVE DurableInv' /\ NoRegress
  <2> DEFINE r == [record EXCEPT !.bytes = signed + 1]
  <2>1. /\ proc[p].rec = record /\ record.terminal = FALSE /\ record.activated = FALSE
        /\ record.bytes = NoEntry
    BY <1>3, <1>a DEF PrepareIssuance, Holds
  <2>2. record.sub # "accepted"
    BY <1>3, <1>a, <2>1 DEF PrepareIssuance, AcceptanceInv, GoodCall
  <2>3. r.terminal = FALSE /\ r.activated = FALSE /\ r.sub = record.sub
    BY <1>a, <2>1 DEF Record
  <2>4. Become(p, Save(r, "submit"))
    BY <1>3, <2>1 DEF PrepareIssuance
  <2> HIDE DEF r
  <2>5. Holds(Save(r, "submit"), record)
    BY <2>1, <2>2, <2>3, SaveHolds, Zenon
  <2> QED  BY <1>3, <1>a, <1>d, <2>4, <2>5 DEF PrepareIssuance
<1>4. ASSUME NEW p \in Procs, PrepareRefused(p) PROVE DurableInv' /\ NoRegress
  <2> DEFINE r == [record EXCEPT !.terminal = TRUE]
  <2>1. proc[p].rec = record /\ record.terminal = FALSE /\ record.activated = FALSE
    BY <1>4, <1>a DEF PrepareRefused, Holds
  <2>2. r.bytes = record.bytes /\ r.sub = record.sub
    BY <1>a DEF Record
  <2>3. Become(p, Save(r, "idle"))
    BY <1>4, <2>1 DEF PrepareRefused
  <2> HIDE DEF r
  <2>4. Holds(Save(r, "idle"), record)
    BY <2>1, <2>2, SaveHolds, Zenon
  <2> QED  BY <1>4, <1>a, <1>d, <2>3, <2>4 DEF PrepareRefused
<1>5. ASSUME NEW p \in Procs, Write(p) PROVE DurableInv' /\ NoRegress
  <2> DEFINE rec == proc[p].rec
             s == IF proc[p].next = "idle" THEN Idle ELSE At(proc[p].next, rec)
  <2>1. /\ record.terminal = FALSE /\ record.activated = FALSE
        /\ record.bytes # NoEntry => rec.bytes = record.bytes
        /\ record.sub = "accepted" => rec.sub = "accepted"
        /\ proc[p].next # "idle" => rec.terminal = FALSE /\ rec.activated = FALSE
        /\ proc[p].next = "submit" => rec.sub # "accepted"
        /\ proc[p].next \in {"idle", "submit", "activate"}
    BY <1>5, <1>a, Zenon DEF Write, Holds, AcceptanceInv, GoodCall
  <2>2. record' = rec /\ Become(p, s)
    BY <1>5 DEF Write
  <2>3. Holds(s, record')
    <3>1. CASE proc[p].next = "idle"
      BY <3>1, IdleHolds
    <3>2. CASE proc[p].next # "idle"
      <4>1. s.pc = proc[p].next /\ s.rec = record'
        BY <2>2, <3>2 DEF At
      <4> HIDE DEF s, rec
      <4> QED  BY <2>1, <2>2, <3>2, <4>1 DEF Holds
    <3> QED  BY <3>1, <3>2
  <2> HIDE DEF s
  <2>4. \A q \in Procs : Holds(proc'[q], record')
    BY <1>a, <2>2, <2>3, SoleMoves
  <2>5. requests' \subseteq {record'.bytes}
    <3>1. requests \subseteq Entries
      BY <1>a DEF AcceptanceInv, IssuanceTypeOK
    <3> QED  BY <1>5, <1>a, <2>1, <2>2, <3>1, Intents DEF Write
  <2>6. PublishedIsRecorded'
    <3>1. publishedEntries \subseteq Entries
      BY <1>a DEF AcceptanceInv, IssuanceTypeOK
    <3> QED  BY <1>5, <1>a, <2>1, <2>2, <3>1, Intents DEF Write, PublishedIsRecorded
  <2>7. NoRegress
    BY <2>1, <2>2 DEF NoRegress
  <2> QED  BY <2>4, <2>5, <2>6, <2>7 DEF DurableInv
<1>6. ASSUME NEW p \in Procs, SubmitIssuance(p) PROVE DurableInv' /\ NoRegress
  <2>1. /\ proc[p].rec = record /\ record.terminal = FALSE /\ record.activated = FALSE
        /\ record.sub # "accepted"
    BY <1>6, <1>a DEF SubmitIssuance, Holds
  <2>2. Holds(At("wait", proc[p].rec), record)
    BY <2>1 DEF Holds, At
  <2> QED  BY <1>6, <1>a, <1>d, <2>1, <2>2 DEF SubmitIssuance
(* What a call that waits for the registry holds.                            *)
<1>w. ASSUME NEW p \in Procs, proc[p].pc = "wait"
      PROVE  /\ proc[p].rec = record /\ record.terminal = FALSE /\ record.activated = FALSE
             /\ record.sub # "accepted"
  BY <1>w, <1>a, Zenon DEF Holds
<1>7. ASSUME NEW p \in Procs, Answer(p) PROVE DurableInv' /\ NoRegress
  <2>1. Holds(Reconcile(proc[p].rec, registryEntry.state, registryEntry.bytes), record)
    BY <1>7, <1>w, ReconcileHolds, Zenon DEF Answer
  <2> QED  BY <1>7, <1>a, <1>d, <2>1, IdleHolds DEF Answer
<1>8. ASSUME NEW p \in Procs, Misanswer(p) PROVE DurableInv' /\ NoRegress
  <2>1. \A state : Holds(Reconcile(proc[p].rec, state, OtherEntry), record)
    BY <1>8, <1>w, ReconcileHolds, Zenon DEF Misanswer
  <2>2. PICK state \in {"pending", "accepted", "rejected"} :
          Become(p, IF Binds(proc[p].rec, state, OtherEntry)
                      THEN Reconcile(proc[p].rec, state, OtherEntry) ELSE Idle)
    BY <1>8 DEF Misanswer
  <2> QED  BY <1>8, <1>a, <1>d, <2>1, <2>2, IdleHolds DEF Misanswer
<1>9. ASSUME NEW p \in Procs, Uncertain(p) PROVE DurableInv' /\ NoRegress
  <2> DEFINE r == WithIssuanceSubmission(proc[p].rec, "indeterminate", proc[p].rec.bytes, proc[p].rec.terminal)
  <2>1. proc[p].rec = record /\ record.terminal = FALSE /\ record.activated = FALSE /\ record.sub # "accepted"
    BY <1>9, <1>w, Zenon DEF Uncertain
  <2>2. r.bytes = record.bytes
    BY <2>1, SubmissionFields
  <2>3. Become(p, Save(r, "idle"))
    BY <1>9 DEF Uncertain
  <2> HIDE DEF r
  <2>4. Holds(Save(r, "idle"), record)
    BY <2>1, <2>2, SaveHolds, Zenon
  <2> QED  BY <1>9, <1>a, <1>d, <2>3, <2>4 DEF Uncertain
<1>10. ASSUME NEW p \in Procs, Refused(p) PROVE DurableInv' /\ NoRegress
  <2> DEFINE r == WithIssuanceSubmission(proc[p].rec, "rejected", proc[p].rec.bytes, TRUE)
  <2>1. proc[p].rec = record /\ record.terminal = FALSE /\ record.activated = FALSE /\ record.sub # "accepted"
    BY <1>10, <1>w, Zenon DEF Refused
  <2>2. r.bytes = record.bytes
    BY <2>1 DEF WithIssuanceSubmission
  <2>3. Become(p, Save(r, "idle"))
    BY <1>10, Zenon DEF Refused
  <2> HIDE DEF r
  <2>4. Holds(Save(r, "idle"), record)
    BY <2>1, <2>2, SaveHolds, Zenon
  <2> QED  BY <1>10, <1>a, <1>d, <2>3, <2>4 DEF Refused
<1>11. ASSUME NEW p \in Procs, Activate(p) PROVE DurableInv' /\ NoRegress
  <2> DEFINE r == [record EXCEPT !.activated = TRUE]
  <2>1. proc[p].rec = record /\ record.terminal = FALSE /\ record.activated = FALSE
    BY <1>11, <1>a DEF Activate, Holds
  <2>2. record.sub = "accepted"
    BY <1>11, <1>a, <2>1 DEF Activate, AcceptanceInv, GoodCall
  <2>3. r.bytes = record.bytes /\ r.sub = record.sub
    BY <1>a DEF Record
  <2>4. Become(p, Save(r, "idle"))
    BY <1>11, <2>1 DEF Activate
  <2> HIDE DEF r
  <2>5. Holds(Save(r, "idle"), record)
    BY <2>1, <2>3, SaveHolds, Zenon
  <2>6. \A q \in Procs : Holds(proc'[q], record')
    BY <1>11, <1>a, <2>4, <2>5, SoleMoves DEF Activate
  <2>7. PublishedIsRecorded'
    BY <1>11, <1>a, <2>1, <2>2 DEF Activate, PublishedIsRecorded
  <2> QED  BY <1>11, <1>a, <1>b, <2>6, <2>7 DEF Activate, DurableInv
<1>12. ASSUME NEW p \in Procs, Fail(p) PROVE DurableInv' /\ NoRegress
  BY <1>12, <1>a, <1>d, IdleHolds DEF Fail
<1>13. CASE UNCHANGED <<record, proc, requests, publishedEntries>>
  <2>1. \A q \in Procs : Holds(proc'[q], record')
    BY <1>13, <1>a
  <2> QED  BY <1>13, <1>a, <1>b, <1>c, <2>1 DEF DurableInv
<1>14. CASE Receive \/ Settle \/ UNCHANGED issuanceVars
  BY <1>13, <1>14 DEF Receive, Settle, issuanceVars
<1> QED
  BY <1>1, <1>2, <1>3, <1>4, <1>5, <1>6, <1>7, <1>8, <1>9, <1>10, <1>11, <1>12, <1>14
     DEF IssuanceNext, Proceed

THEOREM Durability == ASSUME SoleProcess PROVE IssuanceSpec => []DurableInv
<1>1. IssuanceInit => DurableInv
  BY IdleHolds, AcceptanceInit DEF IssuanceInit, DurableInv, PublishedIsRecorded
<1>2. DurableInv /\ [IssuanceNext]_issuanceVars /\ AcceptanceInv' => DurableInv'
  BY SoleProcess, DurableStep
<1> QED  BY <1>1, <1>2, Acceptance, PTL DEF IssuanceSpec

(* Without concurrent setups, the registry only ever sees the exact bytes    *)
(* the record holds, through any crashes, losses and retries.                *)
THEOREM OnlyDurableSent == ASSUME SoleProcess PROVE IssuanceSpec => []OnlyDurableBytesAreSent
<1>1. DurableInv => OnlyDurableBytesAreSent
  BY DEF DurableInv, OnlyDurableBytesAreSent
<1> QED  BY <1>1, Durability, PTL

(* Without concurrent setups, a published entry is durably bound.            *)
THEOREM PublicationIsRecorded == ASSUME SoleProcess PROVE IssuanceSpec => []PublishedIsRecorded
<1>1. DurableInv => PublishedIsRecorded
  BY DEF DurableInv
<1> QED  BY <1>1, Durability, PTL

(* Without concurrent setups, the record never takes anything back.          *)
THEOREM RecordProgresses == ASSUME SoleProcess PROVE IssuanceSpec => RecordNeverRegresses
<1>1. DurableInv /\ AcceptanceInv' /\ [IssuanceNext]_issuanceVars => [NoRegress]_issuanceVars
  BY SoleProcess, DurableStep
<1> QED  BY <1>1, Durability, Acceptance, PTL DEF IssuanceSpec, RecordNeverRegresses, NoRegress

(* Without concurrent setups, a setup is safe in every reachable state.      *)
THEOREM SetupStaysSafe == ASSUME SoleProcess PROVE IssuanceSpec => []SetupIsSafe
<1>1. IssuanceSpec => []OnlyDurableBytesAreSent
  BY OnlyDurableSent
<1>2. IssuanceSpec => []PublishedIsRecorded
  BY PublicationIsRecorded
<1> QED  BY <1>1, <1>2, OnlyAcceptedIsPublished, PTL DEF SetupIsSafe
-----------------------------------------------------------------------------
(* The key is bound once, and every reply under it names that registration.  *)
RegistrationType ==
  [id : Nat, authority : {"none", "client", "registry"},
   status : {"none", "pending", "ready", "error"}, dnsPublished : BOOLEAN]
CallType ==
  [at : {"idle", "posted", "reading", "returned", "failed"}, reply : Nat, facts : Nat, attempts : Nat]
GoodCaller(x) ==
  /\ x \in CallType
  /\ x.reply # 0 => x.reply = claim
  /\ x.at \in {"reading", "returned"} => x.reply # 0
  /\ x.at = "returned" => x.facts = claim

ClaimInv ==
  /\ ids \in Nat /\ claim \in Nat /\ registered \in RegistrationType
  /\ caller \in [Callers -> CallType]
  /\ \A c \in Callers : GoodCaller(caller[c])

(* A wait is for the registration of the key, and what it has read is of it. *)
WaitType ==
  [at : {"idle", "observing", "observed", "sleeping", "verifying", "confirmed", "failed"},
   expected : Nat, seen : RegistrationType, clock : Nat]
WaitInv ==
  /\ wait \in WaitType
  /\ wait.at # "idle" => wait.expected = claim /\ claim # 0
  /\ wait.at \in {"observed", "verifying", "confirmed"} =>
       wait.seen.id = wait.expected /\ wait.seen.authority = "registry"
  /\ wait.at \in {"verifying", "confirmed"} => wait.seen.status = "ready" /\ wait.seen.dnsPublished

(* A reply that settles a submission is true of the log.                     *)
SubmissionType ==
  [at : {"idle", "posted", "replied", "settled"}, buffer : PreparedEntries,
   sent : SUBSET PreparedEntries, reply : {"none", "accepted", "5xx", "lost", "pending", "busy", "4xx"},
   hash : SUBSET PreparedEntries,
   outcome : {"none", "accepted", "invalid", "pending", "rejected", "indeterminate"},
   attempts : Nat]
SubmissionInv ==
  /\ submission \in SubmissionType /\ log \subseteq PreparedEntries
  /\ submission.at = "replied" =>
       /\ submission.reply = "accepted" => submission.hash = log
       /\ submission.reply = "4xx" => submission.sent # log
  /\ OutcomeIsTrue

(* Only a record with the configured known tags is signed.                   *)
PublicationType ==
  [at : {"idle", "authorized", "keyed", "offered", "signed", "published", "failed"}, kid : Nat,
   offered : SUBSET Records, signer : Nat]
AsConfigured(rs) == \A r \in rs : r.known = Configured
RecordInv ==
  /\ publication \in PublicationType /\ entityKey \in Nat
  /\ publication.at = "signed" => AsConfigured(publication.offered)
  /\ AsConfigured(dnsRecord)

(* A challenge that the client holds is bound to what it posted.             *)
Challenge == [agent : Nat, key : Nat, answers : BOOLEAN, fqdn : Nat]
LiveType ==
  [at : {"idle", "posted", "accepted", "challenged", "proved", "failed"},
   call : {"none", "register", "reissue"}, jwk : Nat, posted : Nat, agent : Nat, domain : Nat,
   challenge : Challenge, proved : Challenge]
BoundChallenge(c) == c.key = live.posted /\ c.agent = live.agent /\ c.fqdn = live.domain
LiveInv ==
  /\ live \in LiveType
  /\ live.at \in {"idle", "posted", "challenged"} => live.proved = NoChallenge
  /\ live.at = "challenged" => BoundChallenge(live.challenge)
  /\ live.proved # NoChallenge => BoundChallenge(live.proved)

RegistryInv == ClaimInv /\ WaitInv /\ SubmissionInv /\ RecordInv /\ LiveInv
-----------------------------------------------------------------------------
LEMMA InitRegistryInv == ASSUME RegistryAssumption, RegistryInit PROVE RegistryInv
<1>1. Call \in CallType /\ Call.at = "idle" /\ Call.reply = 0
  BY DEF Call, CallType
<1>2. NoRegistration \in RegistrationType
  BY DEF NoRegistration, RegistrationType
<1>3. ClaimInv
  BY <1>1, <1>2 DEF RegistryInit, ClaimInv, GoodCaller
<1>4. WaitInv
  <2>1. Wait \in WaitType /\ Wait.at = "idle"
    BY <1>2 DEF Wait, WaitType
  <2> QED  BY <2>1 DEF RegistryInit, WaitInv
<1>5. SubmissionInv
  <2>1. Submission \in SubmissionType /\ Submission.at = "idle"
    BY DEF Submission, SubmissionType, RegistryAssumption
  <2> QED  BY <2>1 DEF RegistryInit, SubmissionInv, OutcomeIsTrue
<1>6. RecordInv
  <2>1. Publication \in PublicationType /\ Publication.at = "idle"
    BY DEF Publication, PublicationType
  <2> QED  BY <2>1 DEF RegistryInit, RecordInv, AsConfigured
<1>7. LiveInv
  <2>1. NoChallenge \in Challenge
    BY DEF NoChallenge, Challenge
  <2>2. Live \in LiveType /\ Live.at = "idle" /\ Live.proved = NoChallenge
    BY <2>1 DEF Live, LiveType
  <2> QED  BY <2>2 DEF RegistryInit, LiveInv
<1> QED  BY <1>3, <1>4, <1>5, <1>6, <1>7 DEF RegistryInv

(* A caller moves on.                                                        *)
LEMMA CallerMoves ==
  ASSUME ClaimInv, NEW c \in Callers, NEW x, GoodCaller(x),
         caller' = [caller EXCEPT ![c] = x], UNCHANGED <<ids, claim, registered>>
  PROVE  ClaimInv'
  BY DEF ClaimInv, GoodCaller

LEMMA CallerSteps ==
  ASSUME ClaimInv, NEW c \in Callers,
         \/ RegisterAgent(c) \/ ReadCreation(c) \/ RegistrationFails(c)
         \/ RetryRegistration(c) \/ ReadRegistration(c)
  PROVE  ClaimInv'
<1> PICK y : y = caller[c]
  OBVIOUS
<1>0. GoodCaller(y) /\ y \in CallType /\ registered.id \in Nat /\ caller \in [Callers -> CallType]
  BY DEF ClaimInv, RegistrationType
<1>1. UNCHANGED <<ids, claim, registered>>
  BY DEF RegisterAgent, ReadCreation, RegistrationFails, RetryRegistration, ReadRegistration
<1>2. CASE RegisterAgent(c)
  <2> DEFINE x == [y EXCEPT !.at = "posted", !.attempts = @ + 1]
  <2>1. caller' = [caller EXCEPT ![c] = x]
    BY <1>0, <1>2, Zenon DEF RegisterAgent
  <2>2. GoodCaller(x)
    <3>1. PICK n \in Nat : n = y.attempts + 1
      BY <1>0 DEF CallType
    <3>2. x = [y EXCEPT !.at = "posted", !.attempts = n]
      BY <1>0, <3>1 DEF CallType
    <3>3. x \in CallType /\ x.at = "posted" /\ x.reply = y.reply
      BY <1>0, <3>2, Zenon DEF CallType
    <3> QED  BY <1>0, <3>3 DEF GoodCaller
  <2> HIDE DEF x
  <2> QED  BY <1>1, <2>1, <2>2, CallerMoves, Zenon
<1>3. CASE ReadCreation(c)
  <2> DEFINE x == [y EXCEPT !.at = "reading"]
  <2>1. caller' = [caller EXCEPT ![c] = x] /\ y.reply # 0
    BY <1>0, <1>3 DEF ReadCreation
  <2>2. GoodCaller(x)
    BY <1>0, <2>1 DEF GoodCaller, CallType
  <2> HIDE DEF x
  <2> QED  BY <1>1, <2>1, <2>2, CallerMoves, Zenon
<1>4. ASSUME caller' = [caller EXCEPT ![c].at = "failed"] PROVE ClaimInv'
  <2> DEFINE x == [y EXCEPT !.at = "failed"]
  <2>1. caller' = [caller EXCEPT ![c] = x]
    BY <1>0, <1>4
  <2>2. GoodCaller(x)
    BY <1>0 DEF GoodCaller, CallType
  <2> HIDE DEF x
  <2> QED  BY <1>1, <2>1, <2>2, CallerMoves, Zenon
<1>5. CASE RegistrationFails(c)
  BY <1>4, <1>5 DEF RegistrationFails
<1>6. CASE RetryRegistration(c)
  <2> DEFINE x == [y EXCEPT !.at = "idle", !.reply = 0]
  <2>1. caller' = [caller EXCEPT ![c] = x]
    BY <1>0, <1>6, Zenon DEF RetryRegistration
  <2>2. GoodCaller(x)
    BY <1>0, Zenon DEF GoodCaller, CallType
  <2> HIDE DEF x
  <2> QED  BY <1>1, <2>1, <2>2, CallerMoves, Zenon
<1>7. CASE ReadRegistration(c)
  <2>1. CASE registered.id = y.reply
    <3> PICK id \in Nat : id = registered.id
      BY <1>0
    <3> DEFINE x == [y EXCEPT !.at = "returned", !.facts = id]
    <3>1. caller' = [caller EXCEPT ![c] = x] /\ y.at = "reading"
      BY <1>0, <1>7, <2>1, Zenon DEF ReadRegistration
    <3>2. id = claim /\ y.reply # 0
      BY <1>0, <2>1, <3>1 DEF GoodCaller
    <3>3. GoodCaller(x)
      BY <1>0, <3>2, Zenon DEF GoodCaller, CallType
    <3> HIDE DEF x
    <3> QED  BY <1>1, <3>1, <3>3, CallerMoves, Zenon
  <2>2. CASE registered.id # y.reply
    BY <1>4, <1>7, <2>2 DEF ReadRegistration
  <2> QED  BY <2>1, <2>2
<1> QED  BY <1>2, <1>3, <1>5, <1>6, <1>7

(* The registry executes a request: the key is bound, or already was.        *)
LEMMA RegistryCreatesStep ==
  ASSUME ClaimInv, NEW c \in Callers, RegistryCreates(c)
  PROVE  ClaimInv' /\ (claim # 0 => claim' = claim)
<1>0. /\ ids \in Nat /\ claim \in Nat /\ caller \in [Callers -> CallType]
      /\ \A b \in Callers : GoodCaller(caller[b])
  BY DEF ClaimInv
<1>1. /\ ids' \in Nat /\ claim' \in Nat /\ claim' # 0 /\ registered' \in RegistrationType
      /\ (claim # 0 => claim' = claim)
  <2>1. CASE claim = 0 /\ registered = NoRegistration
    <3>1. ids' = ids + 1 /\ claim' = ids + 1 /\ \E a \in Authorities : registered' = Pending(ids + 1, a)
      BY <2>1 DEF RegistryCreates
    <3> QED  BY <1>0, <2>1, <3>1 DEF Pending, RegistrationType, Authorities
  <2>2. CASE ~(claim = 0 /\ registered = NoRegistration)
    BY <1>0, <2>2 DEF RegistryCreates, ClaimInv
  <2> QED  BY <2>1, <2>2
<1>2. PICK n \in Nat : n = claim'
  BY <1>1
<1>3. /\ caller' = [caller EXCEPT ![c] = [caller[c] EXCEPT !.reply = n]]
      /\ caller[c].at \in {"posted", "failed"}
  BY <1>0, <1>2 DEF RegistryCreates
<1>4. PICK y \in CallType : y = caller[c]
  BY <1>0
<1> DEFINE x == [y EXCEPT !.reply = n]
<1>5. x \in CallType /\ x.reply = n /\ x.at \in {"posted", "failed"}
  BY <1>3, <1>4 DEF CallType
<1>6. caller' = [caller EXCEPT ![c] = x]
  BY <1>3, <1>4
<1> HIDE DEF x
<1>7. caller' \in [Callers -> CallType] /\ caller'[c] = x /\ \A b \in Callers : b # c => caller'[b] = caller[b]
  BY <1>0, <1>5, <1>6
<1>8. GoodCaller(x)'
  BY <1>2, <1>5 DEF GoodCaller
<1>9. ASSUME NEW b \in Callers, b # c PROVE GoodCaller(caller[b])'
  <2>1. PICK z \in CallType : z = caller[b] /\ z = caller'[b]
    BY <1>0, <1>7, <1>9
  <2>2. GoodCaller(z)
    BY <1>0, <2>1, Zenon
  <2>3. GoodCaller(z)'
    <3>1. CASE z.reply # 0
      <4>1. z.reply = claim /\ claim' = claim
        BY <1>1, <2>2, <3>1 DEF GoodCaller
      <4> QED  BY <2>2, <4>1 DEF GoodCaller
    <3>2. CASE z.reply = 0
      BY <2>2, <3>2 DEF GoodCaller
    <3> QED  BY <3>1, <3>2
  <2> QED  BY <2>1, <2>3
<1>10. \A b \in Callers : GoodCaller(caller[b])'
  BY <1>7, <1>8, <1>9
<1> QED  BY <1>1, <1>7, <1>10 DEF ClaimInv

(* The registration changes by itself, or in other hands.                    *)
LEMMA RegistrationChanges ==
  ASSUME ClaimInv, RegistryProceeds \/ Unregister \/ OtherRegisters
  PROVE  ClaimInv'
<1>0. ids \in Nat /\ registered \in RegistrationType
  BY DEF ClaimInv
<1>1. UNCHANGED <<claim, caller>>
  BY DEF RegistryProceeds, Unregister, OtherRegisters
<1>2. registered' \in RegistrationType /\ ids' \in Nat
  <2>1. CASE RegistryProceeds
    BY <1>0, <2>1, ZenonT(30) DEF RegistryProceeds, RegistrationType
  <2>2. CASE Unregister
    BY <1>0, <2>2 DEF Unregister, RegistrationType, NoRegistration
  <2>3. CASE OtherRegisters
    BY <1>0, <2>3 DEF OtherRegisters, RegistrationType, Pending, Authorities
  <2> QED  BY <2>1, <2>2, <2>3
<1> QED  BY <1>1, <1>2 DEF ClaimInv, GoodCaller
-----------------------------------------------------------------------------
(* The wait is for the key's registration, which stays the same.             *)
LEMMA WaitKept ==
  ASSUME WaitInv, wait' = wait, claim # 0 => claim' = claim
  PROVE  WaitInv'
  BY DEF WaitInv

LEMMA WaitBeginsStep ==
  ASSUME ClaimInv, WaitInv, NEW c \in Callers, WaitBegins(c)
  PROVE  WaitInv'
<1>1. PICK n \in Nat : n = caller[c].facts /\ n = claim /\ claim # 0
  <2>1. GoodCaller(caller[c]) /\ caller[c].at = "returned"
    BY DEF ClaimInv, WaitBegins
  <2> QED  BY <2>1 DEF GoodCaller, CallType
<1>2. wait' = [wait EXCEPT !.at = "observing", !.expected = n] /\ claim' = claim
  BY <1>1 DEF WaitBegins
<1> QED  BY <1>1, <1>2, Zenon DEF WaitInv, WaitType

LEMMA WaitSteps ==
  ASSUME RegistryAssumption, ClaimInv, WaitInv, AwaitingPublication
  PROVE  WaitInv'
<1>0. wait \in WaitType /\ claim' = claim /\ registered \in RegistrationType
  BY DEF ClaimInv, WaitInv, AwaitingPublication, Observe, WaitDecides, Wake, Confirm, WaitAborted
<1>1. CASE Observe
  <2> PICK r \in RegistrationType : r = registered
    BY <1>0
  <2>1. CASE r.id = wait.expected /\ r.authority = "registry"
    <3>1. wait' = [wait EXCEPT !.at = "observed", !.seen = r] /\ wait.at = "observing"
      BY <1>1, <2>1 DEF Observe
    <3> QED  BY <1>0, <2>1, <3>1, Zenon DEF WaitInv, WaitType
  <2>2. CASE ~(r.id = wait.expected /\ r.authority = "registry")
    <3>1. wait' = [wait EXCEPT !.at = "failed"] /\ wait.at = "observing"
      BY <1>1, <2>2 DEF Observe
    <3> QED  BY <1>0, <3>1 DEF WaitInv, WaitType
  <2> QED  BY <2>1, <2>2
<1>2. CASE WaitDecides
  <2> DEFINE ready == wait.seen.status = "ready" /\ wait.seen.dnsPublished
  <2>1. PICK at : /\ at \in {"verifying", "failed", "sleeping"} /\ (at = "verifying" => ready)
                  /\ wait' = [wait EXCEPT !.at = at] /\ wait.at = "observed"
    BY <1>2 DEF WaitDecides
  <2> QED  BY <1>0, <2>1 DEF WaitInv, WaitType
<1>3. CASE Wake
  <2>1. PICK n \in Nat : n = IF wait.clock < Timeout THEN wait.clock + 1 ELSE wait.clock
    BY <1>0 DEF WaitType
  <2>2. wait' = [wait EXCEPT !.at = "observing", !.clock = n] /\ wait.at = "sleeping"
    BY <1>0, <1>3, <2>1 DEF Wake, WaitType
  <2> QED  BY <1>0, <2>2, Zenon DEF WaitInv, WaitType
<1>4. CASE Confirm \/ WaitAborted
  <2>1. PICK at : /\ at \in {"confirmed", "failed"} /\ (at = "confirmed" => wait.at = "verifying")
                  /\ wait' = [wait EXCEPT !.at = at] /\ wait.at # "idle"
    BY <1>4 DEF Confirm, WaitAborted
  <2> QED  BY <1>0, <2>1 DEF WaitInv, WaitType
<1> QED  BY <1>1, <1>2, <1>3, <1>4 DEF AwaitingPublication
-----------------------------------------------------------------------------
(* The call begins, and its caller overwrites the array it gave.             *)
LEMMA SubmitSteps ==
  ASSUME SubmissionInv, NEW e \in PreparedEntries, SubmitPreparedEvent(e) \/ OverwriteBuffer(e)
  PROVE  SubmissionInv'
<1>0. submission \in SubmissionType /\ log' = log
  BY DEF SubmissionInv, SubmitPreparedEvent, OverwriteBuffer
<1>1. CASE SubmitPreparedEvent(e)
  <2>1. PICK n \in Nat : n = submission.attempts + 1
    BY <1>0 DEF SubmissionType
  <2>2. submission' = [submission EXCEPT !.at = "posted", !.buffer = e, !.sent = {e},
                                         !.outcome = "none", !.attempts = n]
    BY <1>0, <1>1, <2>1 DEF SubmitPreparedEvent, SubmissionType
  <2>3. submission' \in SubmissionType /\ submission'.at = "posted"
    BY <1>0, <2>2, Zenon DEF SubmissionType
  <2> QED  BY <1>0, <2>3 DEF SubmissionInv, OutcomeIsTrue
<1>2. CASE OverwriteBuffer(e)
  <2>1. submission' = [submission EXCEPT !.buffer = e]
    BY <1>2 DEF OverwriteBuffer
  <2>2. submission' \in SubmissionType
    BY <1>0, <2>1 DEF SubmissionType
  <2>3. /\ submission'.at = submission.at /\ submission'.reply = submission.reply
        /\ submission'.hash = submission.hash /\ submission'.sent = submission.sent
        /\ submission'.outcome = submission.outcome
    BY <1>0, <2>1 DEF SubmissionType
  <2> QED  BY <1>0, <2>2, <2>3 DEF SubmissionInv, OutcomeIsTrue
<1> QED  BY <1>1, <1>2

(* The registry's answer is true of the log as it is then.                   *)
LEMMA AnswerStep == ASSUME SubmissionInv, RegistryAnswers PROVE SubmissionInv'
<1>0. submission \in SubmissionType /\ log \subseteq PreparedEntries
  BY DEF SubmissionInv
<1>1. log' \subseteq PreparedEntries
  BY <1>0 DEF RegistryAnswers, SubmissionType
<1>2. PICK r \in {"accepted", "5xx", "lost", "pending", "busy", "4xx"}, h \in {log', {}} :
        /\ Replies(r, h)
        /\ r = "accepted" => h = log'
        /\ r = "4xx" => log' = log /\ log # submission.sent
  BY DEF RegistryAnswers
<1>3. submission' = [submission EXCEPT !.at = "replied", !.reply = r, !.hash = h]
  BY <1>2 DEF Replies
<1>4. submission' \in SubmissionType
  BY <1>0, <1>1, <1>2, <1>3, Zenon DEF SubmissionType
<1>5. /\ submission'.at = "replied" /\ submission'.reply = r /\ submission'.hash = h
      /\ submission'.sent = submission.sent
  BY <1>0, <1>3 DEF SubmissionType
<1> QED  BY <1>1, <1>2, <1>4, <1>5 DEF SubmissionInv, OutcomeIsTrue

LEMMA SettlesStep == ASSUME SubmissionInv, SubmissionSettles PROVE SubmissionInv'
<1>0. /\ submission \in SubmissionType /\ log' = log /\ submission.at = "replied"
      /\ submission.reply = "accepted" => submission.hash = log
      /\ submission.reply = "4xx" => submission.sent # log
  BY DEF SubmissionInv, SubmissionSettles
<1>1. PICK o : o = Outcome(submission)
  OBVIOUS
<1>2. /\ o \in {"accepted", "invalid", "pending", "rejected", "indeterminate"}
      /\ o = "accepted" => submission.reply = "accepted" /\ submission.hash = submission.sent
      /\ o = "rejected" => submission.reply = "4xx"
  BY <1>0, <1>1 DEF Outcome, SubmissionType
<1>3. PICK at \in {"idle", "settled"} : submission' = [submission EXCEPT !.outcome = o, !.at = at]
  BY <1>1, Zenon DEF SubmissionSettles
<1>4. submission' \in SubmissionType
  BY <1>0, <1>2, <1>3, Zenon DEF SubmissionType
<1>5. submission'.at = at /\ submission'.outcome = o /\ submission'.sent = submission.sent
  BY <1>0, <1>3 DEF SubmissionType
<1> QED  BY <1>0, <1>2, <1>3, <1>4, <1>5 DEF SubmissionInv, OutcomeIsTrue
-----------------------------------------------------------------------------
(* Whatever record the registry offers, a signed one has the configured tags.*)
LEMMA RecordSteps == ASSUME RegistryAssumption, RecordInv, Publishing PROVE RecordInv'
<1>0. publication \in PublicationType /\ entityKey \in Nat /\ AsConfigured(dnsRecord)
  BY DEF RecordInv
<1>1. CASE PublishRecord \/ ReadEntityKey \/ PublicationFails \/ RetryRecord
  <2>1. Publication \in PublicationType /\ Publication.at = "idle"
    BY DEF Publication, PublicationType
  <2>2. publication' \in PublicationType /\ publication'.at # "signed"
    <3>1. CASE PublishRecord \/ PublicationFails
      BY <1>0, <3>1 DEF PublishRecord, PublicationFails, PublicationType
    <3>2. CASE ReadEntityKey
      BY <1>0, <3>2, Zenon DEF ReadEntityKey, PublicationType
    <3>3. CASE RetryRecord
      BY <2>1, <3>3 DEF RetryRecord
    <3> QED  BY <1>1, <3>1, <3>2, <3>3
  <2>3. UNCHANGED <<entityKey, dnsRecord>>
    BY <1>1, Zenon DEF PublishRecord, ReadEntityKey, PublicationFails, RetryRecord
  <2> QED  BY <1>0, <2>2, <2>3 DEF RecordInv, AsConfigured
<1>2. CASE \E r \in Records, kid \in 1 .. MaxEntityKeys : OfferRecord(r, kid)
  <2>1. PICK r \in Records, kid \in 1 .. MaxEntityKeys : OfferRecord(r, kid)
    BY <1>2
  <2>2. UNCHANGED <<entityKey, dnsRecord>>
    BY <2>1 DEF OfferRecord
  <2> PICK o \in SUBSET Records : o = {r}
    BY Zenon
  <2>3. \/ publication' = [publication EXCEPT !.at = "offered", !.offered = o]
        \/ publication' = [publication EXCEPT !.at = "failed"]
    BY <2>1 DEF OfferRecord
  <2>4. publication' \in PublicationType /\ publication'.at # "signed"
    BY <1>0, <2>3, Zenon DEF PublicationType
  <2> QED  BY <1>0, <2>2, <2>4 DEF RecordInv, AsConfigured
<1>3. CASE SignOffered
  <2>1. UNCHANGED <<entityKey, dnsRecord>>
    BY <1>3 DEF SignOffered
  <2>2. CASE AsConfigured(publication.offered)
    <3>1. publication' = [publication EXCEPT !.at = "signed", !.signer = entityKey]
      BY <1>3, <2>2, Zenon DEF SignOffered, KnownTagsMatch, AsConfigured
    <3>2. publication' \in PublicationType /\ publication'.offered = publication.offered
      BY <1>0, <3>1, Zenon DEF PublicationType
    <3> QED  BY <1>0, <2>1, <2>2, <3>2 DEF RecordInv, AsConfigured
  <2>3. CASE ~AsConfigured(publication.offered)
    <3>1. publication' = [publication EXCEPT !.at = "failed"]
      BY <1>3, <2>3, Zenon DEF SignOffered, KnownTagsMatch, AsConfigured
    <3>2. publication' \in PublicationType /\ publication'.at = "failed"
      BY <1>0, <3>1 DEF PublicationType
    <3> QED  BY <1>0, <2>1, <3>2 DEF RecordInv, AsConfigured
  <2> QED  BY <2>2, <2>3
<1>4. CASE SubmitSignature
  <2>1. /\ publication' \in PublicationType /\ publication'.at # "signed" /\ UNCHANGED entityKey
        /\ dnsRecord' \in {dnsRecord, publication.offered} /\ publication.at = "signed"
    BY <1>0, <1>4 DEF SubmitSignature, PublicationType
  <2> QED  BY <1>0, <2>1 DEF RecordInv, AsConfigured
<1>5. CASE EntityKeyRotates
  <2>1. entityKey' = entityKey + 1 /\ UNCHANGED <<publication, dnsRecord>>
    BY <1>5 DEF EntityKeyRotates
  <2> QED  BY <1>0, <2>1 DEF RecordInv, AsConfigured
<1> QED  BY <1>1, <1>2, <1>3, <1>4, <1>5 DEF Publishing
-----------------------------------------------------------------------------
LEMMA NoChallengeIsTyped == NoChallenge \in Challenge
  BY DEF NoChallenge, Challenge

(* The calls that post, and the caller's JWK changing meanwhile.             *)
LEMMA LivePosts ==
  ASSUME RegistryAssumption, LiveInv,
         \/ \E key \in 1 .. MaxEntityKeys : RegisterLiveAgent(key) \/ OverwriteJwk(key)
         \/ ReissueLiveProof
  PROVE  LiveInv'
<1>0. live \in LiveType
  BY DEF LiveInv
<1>1. ASSUME NEW key \in 1 .. MaxEntityKeys, RegisterLiveAgent(key) PROVE LiveInv'
  <2>0. key \in Nat
    BY DEF RegistryAssumption
  <2>1. /\ live' = [live EXCEPT !.at = "posted", !.call = "register", !.jwk = key, !.posted = key]
        /\ live.at = "idle"
    BY <1>1, Zenon DEF RegisterLiveAgent
  <2>2. live' \in LiveType /\ live'.at = "posted" /\ live'.proved = live.proved
    BY <1>0, <2>0, <2>1, Zenon DEF LiveType
  <2> QED  BY <2>1, <2>2 DEF LiveInv
<1>2. ASSUME NEW key \in 1 .. MaxEntityKeys, OverwriteJwk(key) PROVE LiveInv'
  <2>1. live' = [live EXCEPT !.jwk = key] /\ live.at = "posted" /\ key \in Nat
    BY <1>2 DEF OverwriteJwk, RegistryAssumption
  <2>2. live' \in LiveType /\ live'.at = "posted" /\ live'.proved = live.proved
    BY <1>0, <2>1 DEF LiveType
  <2> QED  BY <2>1, <2>2 DEF LiveInv
<1>3. CASE ReissueLiveProof
  <2>1. live' = [live EXCEPT !.at = "posted", !.call = "reissue", !.jwk = live.posted,
                             !.challenge = NoChallenge, !.proved = NoChallenge]
    BY <1>3 DEF ReissueLiveProof
  <2>2. live' \in LiveType /\ live'.at = "posted" /\ live'.proved = NoChallenge
    BY <1>0, <2>1, NoChallengeIsTyped, Zenon DEF LiveType
  <2> QED  BY <2>2 DEF LiveInv
<1> QED  BY <1>1, <1>2, <1>3

(* A challenge that the client keeps is bound to its request.                *)
LEMMA LiveReplyStep ==
  ASSUME LiveInv, NEW ours \in BOOLEAN, NEW agent \in Nat, NEW pending \in BOOLEAN,
         NEW c \in Challenge, ReadLiveReply(ours, agent, pending, c)
  PROVE  LiveInv'
<1>0. live \in LiveType /\ live.at = "posted" /\ live.proved = NoChallenge
  BY DEF LiveInv, ReadLiveReply
<1>1. \/ \E at \in {"failed", "accepted"} : live' = [live EXCEPT !.at = at]
      \/ /\ ChallengeBinds(c, agent)
         /\ live' = [live EXCEPT !.at = "challenged", !.agent = agent, !.challenge = c,
                                 !.domain = c.fqdn]
  BY DEF ReadLiveReply
<1>2. ASSUME NEW at \in {"failed", "accepted"}, live' = [live EXCEPT !.at = at] PROVE LiveInv'
  <2>1. live' \in LiveType /\ live'.at = at /\ live'.proved = NoChallenge
    BY <1>0, <1>2 DEF LiveType
  <2> QED  BY <2>1 DEF LiveInv
<1>3. CASE /\ ChallengeBinds(c, agent)
           /\ live' = [live EXCEPT !.at = "challenged", !.agent = agent, !.challenge = c,
                                   !.domain = c.fqdn]
  <2>1. /\ live' \in LiveType /\ live'.at = "challenged" /\ live'.proved = NoChallenge
        /\ live'.challenge = c /\ live'.agent = agent /\ live'.domain = c.fqdn
        /\ live'.posted = live.posted
    BY <1>0, <1>3, Zenon DEF LiveType, Challenge
  <2>2. c.key = live.posted /\ c.agent = agent
    BY <1>3 DEF ChallengeBinds
  <2> QED  BY <2>1, <2>2 DEF LiveInv, BoundChallenge
<1> QED  BY <1>1, <1>2, <1>3

LEMMA ProofStep == ASSUME LiveInv, SubmitLiveProof PROVE LiveInv'
<1>0. live \in LiveType /\ live.at = "challenged" /\ BoundChallenge(live.challenge)
  BY DEF LiveInv, SubmitLiveProof
<1>1. PICK at \in {"proved", "failed"} : live' = [live EXCEPT !.at = at, !.proved = live.challenge]
  BY Zenon DEF SubmitLiveProof
<1>2. /\ live' \in LiveType /\ live'.at = at /\ live'.proved = live.challenge
      /\ live'.posted = live.posted /\ live'.agent = live.agent /\ live'.domain = live.domain
  BY <1>0, <1>1, Zenon DEF LiveType
<1> QED  BY <1>0, <1>1, <1>2 DEF LiveInv, BoundChallenge

LEMMA ProvisioningStep == ASSUME RegistryAssumption, LiveInv, Provisioning PROVE LiveInv'
<1>1. CASE \E ours, pending, answers \in BOOLEAN, agent, named \in 1 .. MaxIds,
              key \in 1 .. MaxEntityKeys, fqdn \in 1 .. 2 :
             ReadLiveReply(ours, agent, pending,
                           [agent |-> named, key |-> key, answers |-> answers, fqdn |-> fqdn])
  <2>1. PICK ours \in BOOLEAN, pending \in BOOLEAN, answers \in BOOLEAN, agent \in 1 .. MaxIds,
             named \in 1 .. MaxIds, key \in 1 .. MaxEntityKeys, fqdn \in 1 .. 2 :
               ReadLiveReply(ours, agent, pending,
                             [agent |-> named, key |-> key, answers |-> answers, fqdn |-> fqdn])
    BY <1>1, Zenon
  <2>2. agent \in Nat /\ named \in Nat /\ key \in Nat /\ fqdn \in Nat
    BY SMTT(20) DEF RegistryAssumption
  <2>3. [agent |-> named, key |-> key, answers |-> answers, fqdn |-> fqdn] \in Challenge
    BY <2>2 DEF Challenge
  <2> QED  BY <2>1, <2>2, <2>3, LiveReplyStep, Zenon
<1> QED  BY <1>1, LivePosts, ProofStep, Zenon DEF Provisioning
-----------------------------------------------------------------------------
(* What each group of steps leaves alone.                                    *)
LEMMA RegistryFrames ==
  /\ Registering => UNCHANGED <<submission, log, publication, entityKey, dnsRecord, live>>
  /\ AwaitingPublication =>
       UNCHANGED <<registered, ids, claim, caller, submission, log, publication, entityKey,
                   dnsRecord, live>>
  /\ Submitting =>
       UNCHANGED <<registered, ids, claim, caller, wait, publication, entityKey, dnsRecord, live>>
  /\ Publishing => UNCHANGED <<registered, ids, claim, caller, wait, submission, log, live>>
  /\ Provisioning =>
       UNCHANGED <<registered, ids, claim, caller, wait, submission, log, publication, entityKey,
                   dnsRecord>>
<1>1. Registering => UNCHANGED <<submission, log, publication, entityKey, dnsRecord, live>>
  BY Zenon DEF Registering, RegisterAgent, RegistryCreates, ReadCreation, RegistrationFails,
         RetryRegistration, ReadRegistration, WaitBegins, RegistryProceeds, Unregister,
         OtherRegisters
<1>2. AwaitingPublication =>
        UNCHANGED <<registered, ids, claim, caller, submission, log, publication, entityKey,
                    dnsRecord, live>>
  BY DEF AwaitingPublication, Observe, WaitDecides, Wake, Confirm, WaitAborted
<1>3. Submitting =>
        UNCHANGED <<registered, ids, claim, caller, wait, publication, entityKey, dnsRecord, live>>
  BY Zenon DEF Submitting, SubmitPreparedEvent, OverwriteBuffer, RegistryAnswers, SubmissionSettles
<1>4. Publishing => UNCHANGED <<registered, ids, claim, caller, wait, submission, log, live>>
  BY Zenon DEF Publishing, PublishRecord, ReadEntityKey, PublicationFails, SignOffered, SubmitSignature,
         RetryRecord, EntityKeyRotates, OfferRecord
<1>5. Provisioning =>
        UNCHANGED <<registered, ids, claim, caller, wait, submission, log, publication, entityKey,
                    dnsRecord>>
  BY ZenonT(30) DEF Provisioning, RegisterLiveAgent, OverwriteJwk, ReadLiveReply, ReissueLiveProof,
         SubmitLiveProof, LiveUnchanged
<1> QED  BY <1>1, <1>2, <1>3, <1>4, <1>5

LEMMA RegisteringStep ==
  ASSUME ClaimInv, WaitInv, Registering
  PROVE  ClaimInv' /\ WaitInv'
<1>1. ASSUME NEW c \in Callers, WaitBegins(c) PROVE ClaimInv' /\ WaitInv'
  <2>1. UNCHANGED <<ids, claim, registered, caller>>
    BY <1>1 DEF WaitBegins
  <2> QED  BY <1>1, <2>1, WaitBeginsStep DEF ClaimInv, GoodCaller
<1>2. ASSUME NEW c \in Callers, RegistryCreates(c) PROVE ClaimInv' /\ WaitInv'
  <2>1. wait' = wait
    BY <1>2 DEF RegistryCreates
  <2> QED  BY <1>2, <2>1, RegistryCreatesStep, WaitKept
<1>3. ASSUME NEW c \in Callers,
             \/ RegisterAgent(c) \/ ReadCreation(c) \/ RegistrationFails(c)
             \/ RetryRegistration(c) \/ ReadRegistration(c)
      PROVE  ClaimInv' /\ WaitInv'
  <2>1. wait' = wait /\ claim' = claim
    BY <1>3 DEF RegisterAgent, ReadCreation, RegistrationFails, RetryRegistration, ReadRegistration
  <2> QED  BY <1>3, <2>1, CallerSteps, WaitKept
<1>4. CASE RegistryProceeds \/ Unregister \/ OtherRegisters
  <2>1. wait' = wait /\ claim' = claim
    BY <1>4 DEF RegistryProceeds, Unregister, OtherRegisters
  <2> QED  BY <1>4, <2>1, RegistrationChanges, WaitKept
<1> QED  BY <1>1, <1>2, <1>3, <1>4 DEF Registering

(* The inductive invariant of the registry's client holds.                   *)
THEOREM RegistryInvariant == RegistrySpec => []RegistryInv
<1>1. RegistryInit => RegistryInv
  BY RegistryAssumption, InitRegistryInv
<1>2. RegistryInv /\ [RegistryNext]_registryVars => RegistryInv'
  <2> SUFFICES ASSUME RegistryInv, [RegistryNext]_registryVars PROVE RegistryInv'
    OBVIOUS
  <2>0. ClaimInv /\ WaitInv /\ SubmissionInv /\ RecordInv /\ LiveInv
    BY DEF RegistryInv
  <2>1. ASSUME UNCHANGED <<registered, ids, claim, caller>> PROVE ClaimInv'
    BY <2>0, <2>1 DEF ClaimInv, GoodCaller
  <2>2. ASSUME UNCHANGED <<submission, log>> PROVE SubmissionInv'
    BY <2>0, <2>2 DEF SubmissionInv, OutcomeIsTrue
  <2>3. ASSUME UNCHANGED <<publication, entityKey, dnsRecord>> PROVE RecordInv'
    BY <2>0, <2>3 DEF RecordInv, AsConfigured
  <2>4. ASSUME live' = live PROVE LiveInv'
    BY <2>0, <2>4 DEF LiveInv, BoundChallenge
  <2>5. ASSUME UNCHANGED <<claim, wait>> PROVE WaitInv'
    BY <2>0, <2>5, WaitKept
  <2>6. CASE Registering
    BY <2>0, <2>2, <2>3, <2>4, <2>6, RegisteringStep, RegistryFrames, Zenon DEF RegistryInv
  <2>7. CASE AwaitingPublication
    BY <2>0, <2>1, <2>2, <2>3, <2>4, <2>7, RegistryAssumption, WaitSteps, RegistryFrames
       DEF RegistryInv
  <2>8. CASE Submitting
    <3>1. SubmissionInv'
      BY <2>0, <2>8, SubmitSteps, AnswerStep, SettlesStep DEF Submitting
    <3> QED  BY <2>1, <2>3, <2>4, <2>5, <2>8, <3>1, RegistryFrames DEF RegistryInv
  <2>9. CASE Publishing
    BY <2>0, <2>1, <2>2, <2>4, <2>5, <2>9, RegistryAssumption, RecordSteps, RegistryFrames, Zenon
       DEF RegistryInv
  <2>10. CASE Provisioning
    BY <2>0, <2>1, <2>2, <2>3, <2>5, <2>10, RegistryAssumption, ProvisioningStep, RegistryFrames
       DEF RegistryInv
  <2>11. CASE UNCHANGED registryVars
    BY <2>1, <2>2, <2>3, <2>4, <2>5, <2>11 DEF RegistryInv, registryVars
  <2> QED  BY <2>6, <2>7, <2>8, <2>9, <2>10, <2>11 DEF RegistryNext
<1> QED  BY <1>1, <1>2, PTL DEF RegistrySpec

(* For any number of callers and attempts, registerAgent returns and         *)
(* awaitRegistryManagedPublication confirms the registration of the key; a   *)
(* record published under the client's signature has the configured value in *)
(* every tag that the client knows; a proved challenge is bound.             *)
THEOREM RegistrationsAreOurs == RegistrySpec => []RegistrationIsOurs
<1>1. RegistryInv => RegistrationIsOurs
  BY DEF RegistryInv, ClaimInv, GoodCaller, WaitInv, RecordInv, AsConfigured, LiveInv, BoundChallenge,
         RegistrationIsOurs
<1> QED  BY <1>1, RegistryInvariant, PTL

(* Whatever answers are lost or fail, and for any number of attempts, what   *)
(* submitPreparedEvent reports of its bytes is true of the log.              *)
THEOREM OutcomesAreTrue == RegistrySpec => []OutcomeIsTrue
<1>1. RegistryInv => OutcomeIsTrue
  BY DEF RegistryInv, SubmissionInv
<1> QED  BY <1>1, RegistryInvariant, PTL
=============================================================================
