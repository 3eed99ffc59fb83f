----------------------------- MODULE LogProofs ------------------------------
(***************************************************************************)
(* The trust in a log and what is read from it, for every set of calls,    *)
(* trees, witnessed times, events, keys and controllers.                   *)
(*                                                                         *)
(* Checkpoints: a verified candidate extends the checkpoint it was verified*)
(* against, and a published one stays in the stored tree.                  *)
(*                                                                         *)
(* The lifecycle stream: the selected events form one chain, every event   *)
(* the controllers have signed either begins a stream or continues a       *)
(* selected event with the right fields, and a published event was selected*)
(* unless the scan found a fork.                                           *)
(***************************************************************************)
EXTENDS CheckpointTrust, LifecycleStream, SequenceTheorems, TLAPS

-----------------------------------------------------------------------------
(* Checkpoints.                                                              *)

(* A verified candidate extends the checkpoint it was verified against, and  *)
(* a published one is part of the stored tree from then on.                  *)
CallInv ==
  \A p \in Calls :
    /\ call[p].phase = "cas" /\ call[p].prev # None =>
         <<call[p].prev.root, call[p].cand.root>> \in Prefix
    /\ call[p].phase = "published" =>
         stored # None /\ <<call[p].cand.root, stored.root>> \in Prefix

IInv == TrustTypeOK /\ CallInv /\ OneHistory

(* How a step may change the stored checkpoint.                              *)
Extends ==
  /\ stored' \in Checkpoint
  /\ stored # None => <<stored.root, stored'.root>> \in Prefix

LEMMA NoneFacts ==
  ASSUME TreeAssumption
  PROVE  /\ None \notin Checkpoint
         /\ \A c \in Checkpoint : c # None /\ c.root \in Roots /\ c.root # NoRoot
         /\ None.root = NoRoot
  BY DEF TreeAssumption, None

(* verifyCheckpointAdvance accepts only extensions.                          *)
LEMMA SuccessorExtends ==
  ASSUME TreeAssumption, NEW prev \in Checkpoint \cup {None}, NEW cand \in Checkpoint,
         NEW evidence, SafeSuccessor(prev, cand, evidence), prev # None
  PROVE  <<prev.root, cand.root>> \in Prefix
  <1>1. prev.root \in Roots /\ cand.root \in Roots
    BY NoneFacts, Zenon
  <1>2. /\ <<cand.root, cand.root>> \in Prefix
        /\ Size[prev.root] = 0 => <<prev.root, cand.root>> \in Prefix
    BY <1>1 DEF TreeAssumption
  <1> QED BY <1>2 DEF SafeSuccessor, Consistent

LEMMA InitIInv == ASSUME TreeAssumption, TrustInit PROVE IInv
  <1>1. TrustTypeOK
    BY DEF TrustInit, TrustTypeOK, Idle, CallState, Phases
  <1>2. CallInv /\ OneHistory
    BY DEF TrustInit, CallInv, OneHistory, Idle
  <1> QED BY <1>1, <1>2 DEF IInv

(* Accepted and published trees stay part of a stored tree that grows.       *)
LEMMA GrowthKeeps ==
  ASSUME TreeAssumption, IInv, Extends
  PROVE  /\ \A r \in Roots : stored # None /\ <<r, stored.root>> \in Prefix =>
                stored' # None /\ <<r, stored'.root>> \in Prefix
         /\ \A r \in accepted : stored' # None /\ <<r, stored'.root>> \in Prefix
         /\ \A p \in Calls : call[p].phase = "published" =>
                stored' # None /\ <<call[p].cand.root, stored'.root>> \in Prefix
  <1>1. stored' # None /\ stored'.root \in Roots
    BY NoneFacts, Zenon DEF Extends
  <1>2. stored # None => stored.root \in Roots
    BY NoneFacts DEF IInv, TrustTypeOK
  <1>3. \A r \in Roots : stored # None /\ <<r, stored.root>> \in Prefix =>
                <<r, stored'.root>> \in Prefix
    BY <1>1, <1>2 DEF TreeAssumption, Extends
  <1>4. accepted \subseteq Roots /\ \A p \in Calls : call[p].phase = "published" => call[p].cand.root \in Roots
    BY NoneFacts DEF IInv, TrustTypeOK
  <1> QED BY <1>1, <1>3, <1>4, Zenon DEF IInv, OneHistory, CallInv

(* A step of one call that leaves the store and the answers alone.           *)
LEMMA CallStep ==
  ASSUME TreeAssumption, IInv, NEW p \in Calls, NEW c \in CallState,
         call' = [call EXCEPT ![p] = c],
         c.phase # "idle" => c.cand \in Checkpoint,
         c.phase = "cas" /\ c.prev # None => <<c.prev.root, c.cand.root>> \in Prefix,
         c.phase # "published",
         aborted' \subseteq Calls, UNCHANGED <<stored, accepted>>
  PROVE  IInv'
  <1>1. /\ call' \in [Calls -> CallState] /\ call'[p] = c
        /\ \A q \in Calls : q # p => call'[q] = call[q]
    BY DEF IInv, TrustTypeOK
  <1>2. TrustTypeOK'
    BY <1>1 DEF IInv, TrustTypeOK
  <1>3. CallInv'
    BY <1>1 DEF IInv, CallInv
  <1>4. OneHistory'
    BY DEF IInv, OneHistory
  <1> QED BY <1>2, <1>3, <1>4 DEF IInv

LEMMA PhaseChange ==
  ASSUME IInv, NEW p \in Calls, NEW phase \in Phases
  PROVE  [call EXCEPT ![p].phase = phase] =
           [call EXCEPT ![p] = [phase |-> phase, cand |-> call[p].cand, prev |-> call[p].prev]]
  <1>1. call[p] \in CallState /\ call \in [Calls -> CallState]
    BY DEF IInv, TrustTypeOK
  <1>2. [call[p] EXCEPT !.phase = phase] =
           [phase |-> phase, cand |-> call[p].cand, prev |-> call[p].prev]
    BY <1>1 DEF CallState
  <1> QED BY <1>1, <1>2, Zenon
-----------------------------------------------------------------------------
LEMMA QuietSteps ==
  ASSUME TreeAssumption, IInv, NEW p \in Calls,
         \/ Advance(p) \/ Load(p) \/ Verify(p) \/ Refuse(p) \/ Lose(p) \/ Retry(p)
         \/ Reload(p) \/ Canceled(p) \/ StoreFails(p) \/ Abort(p)
  PROVE  IInv'
  <1>1. /\ call[p] \in CallState /\ aborted \subseteq Calls
        /\ stored \in Checkpoint \cup {None}
        /\ call[p].phase # "idle" => call[p].cand \in Checkpoint
        /\ call[p].prev \in Checkpoint \cup {None}
        /\ call[p].cand \in Checkpoint \cup {None}
    BY DEF IInv, TrustTypeOK, CallState
  <1>2. Idle \in CallState /\ Idle.phase = "idle"
    BY DEF Idle, CallState, Phases
  <1>3. CASE Advance(p)
    <2>1. PICK cand \in Checkpoint :
            call' = [call EXCEPT ![p] = [phase |-> "load", cand |-> cand, prev |-> None]]
      BY <1>3, Zenon DEF Advance
    <2> DEFINE c == [phase |-> "load", cand |-> cand, prev |-> None]
    <2>2. c \in CallState /\ c.phase = "load" /\ c.cand = cand
      BY DEF CallState, Phases
    <2>3. call' = [call EXCEPT ![p] = c] /\ UNCHANGED <<stored, aborted, accepted>>
      BY <1>3, <2>1, Zenon DEF Advance
    <2> HIDE DEF c
    <2> QED BY <1>1, <2>2, <2>3, CallStep, Zenon
  <1>4. CASE Load(p)
    <2> DEFINE c == [phase |-> "verify", cand |-> call[p].cand, prev |-> stored]
    <2>1. /\ call[p].phase = "load" /\ UNCHANGED <<stored, aborted, accepted>>
          /\ call' = [call EXCEPT ![p] = [phase |-> "verify", cand |-> @.cand, prev |-> stored]]
      BY <1>4 DEF Load
    <2>2. c \in CallState /\ c.phase = "verify" /\ c.cand = call[p].cand
      BY <1>1 DEF CallState, Phases
    <2>3. call' = [call EXCEPT ![p] = c]
      BY <2>1 DEF IInv, TrustTypeOK
    <2> HIDE DEF c
    <2> QED BY <1>1, <2>1, <2>2, <2>3, CallStep, Zenon
  <1>5. ASSUME NEW phase \in {"cas", "lost", "backoff", "load"},
               call[p].phase # "idle", Goto(p, phase),
               phase = "cas" /\ call[p].prev # None =>
                 <<call[p].prev.root, call[p].cand.root>> \in Prefix,
               UNCHANGED <<stored, aborted, accepted>>
        PROVE  IInv'
    <2> DEFINE c == [phase |-> phase, cand |-> call[p].cand, prev |-> call[p].prev]
    <2>1. c \in CallState /\ c.phase = phase /\ c.cand = call[p].cand /\ c.prev = call[p].prev
      BY <1>1 DEF CallState, Phases
    <2>2. call' = [call EXCEPT ![p] = c]
      BY <1>5, PhaseChange, Zenon DEF Goto, Phases
    <2> HIDE DEF c
    <2> QED BY <1>1, <1>5, <2>1, <2>2, CallStep, Zenon
  <1>6. CASE Verify(p)
    <2>1. PICK evidence \in Evidences : SafeSuccessor(call[p].prev, call[p].cand, evidence)
      BY <1>6 DEF Verify
    <2>2. call[p].prev # None => <<call[p].prev.root, call[p].cand.root>> \in Prefix
      BY <1>1, <1>6, <2>1, SuccessorExtends DEF Verify
    <2> QED BY <1>5, <1>6, <2>2 DEF Verify
  <1>7. CASE Lose(p) \/ Retry(p) \/ Reload(p)
    BY <1>5, <1>7 DEF Lose, Retry, Reload
  <1>8. CASE Refuse(p) \/ Canceled(p) \/ StoreFails(p)
    <2>1. /\ call' = [call EXCEPT ![p] = Idle] /\ aborted' \subseteq Calls
          /\ UNCHANGED <<stored, accepted>>
      BY <1>1, <1>8 DEF Refuse, Canceled, StoreFails, End
    <2> QED BY <1>2, <2>1, CallStep, Zenon
  <1>9. CASE Abort(p)
    <2>1. aborted' \subseteq Calls /\ UNCHANGED <<stored, call, accepted>>
      BY <1>1, <1>9 DEF Abort
    <2> QED BY <2>1 DEF IInv, TrustTypeOK, CallInv, OneHistory
  <1> QED BY <1>3, <1>4, <1>6, <1>7, <1>8, <1>9

LEMMA SwapStep ==
  ASSUME TreeAssumption, IInv, NEW p \in Calls, Swap(p)
  PROVE  IInv' /\ Extends
  <1> DEFINE c == [phase |-> "published", cand |-> call[p].cand, prev |-> call[p].prev]
  <1>1. /\ call[p].phase = "cas" /\ stored = call[p].prev /\ stored' = call[p].cand
        /\ Goto(p, "published") /\ UNCHANGED <<aborted, accepted>>
    BY DEF Swap
  <1>2. /\ call[p] \in CallState /\ call[p].cand \in Checkpoint
        /\ call[p].prev # None => <<call[p].prev.root, call[p].cand.root>> \in Prefix
        /\ call \in [Calls -> CallState]
    BY <1>1, Zenon DEF IInv, TrustTypeOK, CallInv
  <1>3. Extends
    BY <1>1, <1>2 DEF Extends
  <1>4. /\ c \in CallState /\ c.phase = "published" /\ c.cand = call[p].cand
        /\ call' = [call EXCEPT ![p] = c]
    BY <1>1, <1>2, PhaseChange, Zenon DEF CallState, Phases, Goto
  <1> HIDE DEF c
  <1>5. /\ call' \in [Calls -> CallState] /\ call'[p] = c
        /\ \A q \in Calls : q # p => call'[q] = call[q]
    BY <1>2, <1>4
  <1>6. TrustTypeOK'
    BY <1>1, <1>2, <1>4, <1>5 DEF IInv, TrustTypeOK
  <1>7. <<stored'.root, stored'.root>> \in Prefix /\ stored' # None
    BY <1>1, <1>2, NoneFacts DEF TreeAssumption
  <1>8. CallInv'
    BY <1>1, <1>3, <1>4, <1>5, <1>7, GrowthKeeps, Zenon DEF IInv, CallInv
  <1>9. OneHistory'
    BY <1>1, <1>3, GrowthKeeps, Zenon DEF IInv, OneHistory
  <1> QED BY <1>3, <1>6, <1>8, <1>9 DEF IInv

LEMMA OtherProcessStep ==
  ASSUME TreeAssumption, IInv, OtherProcess
  PROVE  IInv' /\ Extends
  <1>1. PICK cand \in Checkpoint :
          /\ SafeSuccessor(stored, cand, "sound") /\ stored' = cand
          /\ UNCHANGED <<call, aborted, accepted>>
    BY DEF OtherProcess
  <1>2. Extends
    BY <1>1, SuccessorExtends DEF Extends, IInv, TrustTypeOK
  <1>3. TrustTypeOK'
    BY <1>1 DEF IInv, TrustTypeOK
  <1>4. CallInv' /\ OneHistory'
    BY <1>1, <1>2, GrowthKeeps, Zenon DEF IInv, CallInv, OneHistory
  <1> QED BY <1>2, <1>3, <1>4 DEF IInv

LEMMA ReturnStep ==
  ASSUME TreeAssumption, IInv, NEW p \in Calls, Return(p)
  PROVE  /\ IInv'
         /\ call[p].cand.root \in Roots /\ stored # None
         /\ <<call[p].cand.root, stored.root>> \in Prefix
         /\ accepted' = accepted \cup {call[p].cand.root} /\ stored' = stored
  <1>1. /\ call[p].phase = "published" /\ stored' = stored
        /\ accepted' = accepted \cup {call[p].cand.root}
        /\ call' = [call EXCEPT ![p] = Idle] /\ aborted' = aborted \ {p}
    BY DEF Return, End
  <1>2. /\ stored # None /\ <<call[p].cand.root, stored.root>> \in Prefix
        /\ call[p].cand.root \in Roots /\ stored.root \in Roots
    BY <1>1, NoneFacts, Zenon DEF IInv, TrustTypeOK, CallInv
  <1>3. Idle \in CallState /\ Idle.phase = "idle"
    BY DEF Idle, CallState, Phases
  <1>4. /\ call' \in [Calls -> CallState] /\ call'[p].phase = "idle"
        /\ \A q \in Calls : q # p => call'[q] = call[q]
    BY <1>1, <1>3 DEF IInv, TrustTypeOK
  <1>5. TrustTypeOK'
    BY <1>1, <1>2, <1>4 DEF IInv, TrustTypeOK
  <1>6. CallInv'
    BY <1>1, <1>4 DEF IInv, CallInv
  <1>7. OneHistory'
    <2>1. \A r \in accepted' : r \in Roots /\ <<r, stored.root>> \in Prefix
      BY <1>1, <1>2 DEF IInv, TrustTypeOK, OneHistory
    <2>2. \A r, s \in accepted' : <<r, s>> \in Prefix \/ <<s, r>> \in Prefix
      BY <1>2, <2>1, Zenon DEF TreeAssumption
    <2> QED BY <1>1, <1>2, <2>1, <2>2 DEF OneHistory
  <1> QED BY <1>1, <1>2, <1>5, <1>6, <1>7 DEF IInv

LEMMA NextIInv ==
  ASSUME TreeAssumption, IInv, [TrustNext]_trustVars
  PROVE  IInv'
  <1>1. CASE TrustNext
    BY <1>1, QuietSteps, SwapStep, OtherProcessStep, ReturnStep, Zenon DEF TrustNext, Proceed
  <1>2. CASE UNCHANGED trustVars
    BY <1>2 DEF trustVars, IInv, TrustTypeOK, CallInv, OneHistory
  <1> QED BY <1>1, <1>2
-----------------------------------------------------------------------------
(* The inductive invariant holds in every reachable state.                   *)
THEOREM Invariance == TrustSpec => []IInv
  <1>1. TrustInit => IInv
    BY TreeAssumption, InitIInv
  <1>2. IInv /\ [TrustNext]_trustVars => IInv'
    BY TreeAssumption, NextIInv
  <1> QED BY <1>1, <1>2, PTL DEF TrustSpec

(* Types, for all trees, times and calls.                                    *)
THEOREM TrustTypeCorrect == TrustSpec => []TrustTypeOK
  <1>1. IInv => TrustTypeOK
    BY DEF IInv
  <1> QED BY <1>1, Invariance, PTL

(* No two verifications accept forked views of the log.                      *)
THEOREM NoSplitView == TrustSpec => []OneHistory
  <1>1. IInv => OneHistory
    BY DEF IInv
  <1> QED BY <1>1, Invariance, PTL

(* compareAndSwap never publishes for a call whose signal has aborted.       *)
THEOREM CancellationPreventsPublication == TrustSpec => CanceledNeverPublishes
  <1> DEFINE A == \A p \in aborted : call'[p].phase = "published" => call[p].phase = "published"
  <1>1. ASSUME IInv, [TrustNext]_trustVars PROVE [A]_trustVars
    <2> SUFFICES ASSUME TrustNext, NEW p \in aborted, call'[p].phase = "published"
                 PROVE  call[p].phase = "published"
      BY <1>1
    <2>1. p \in Calls /\ call \in [Calls -> CallState]
      BY <1>1 DEF IInv, TrustTypeOK
    <2>2. CASE OtherProcess
      BY <2>2 DEF OtherProcess
    <2>3. ASSUME NEW q \in Calls, Advance(q) \/ Proceed(q) \/ StoreFails(q) \/ Abort(q)
          PROVE  call[p].phase = "published"
      <3>1. CASE p # q
        BY <2>1, <2>3, <3>1
        DEF Proceed, Advance, Load, Verify, Refuse, Swap, Lose, Retry, Reload, Return,
            Canceled, StoreFails, Abort, End, Goto
      <3>2. CASE p = q
        BY <2>1, <2>3, <3>2
        DEF Proceed, Advance, Load, Verify, Refuse, Swap, Lose, Retry, Reload, Return,
            Canceled, StoreFails, Abort, End, Goto, Idle
      <3> QED BY <3>1, <3>2
    <2> QED BY <2>2, <2>3 DEF TrustNext
  <1> QED BY <1>1, Invariance, PTL DEF TrustSpec, CanceledNeverPublishes

(* Concurrent advancement implements a trusted log that only grows.          *)
THEOREM ImplementsTrustedLog == TrustSpec => Refinement
  <1>1. TrustInit => Abstract!Init
    BY DEF TrustInit, Abstract!Init, None
  <1>2. ASSUME IInv, [TrustNext]_trustVars
        PROVE  [Abstract!Next]_<<stored.root, accepted>>
    <2>1. ASSUME Extends, accepted' = accepted PROVE Abstract!Next
      <3>1. stored'.root \in Roots /\ (stored.root # NoRoot => stored # None)
        BY <2>1, TreeAssumption, NoneFacts DEF Extends
      <3> QED BY <2>1, <3>1 DEF Abstract!Next, Abstract!Grow, Extends
    <2>2. ASSUME NEW p \in Calls, Swap(p) PROVE Abstract!Next
      BY <1>2, <2>1, <2>2, TreeAssumption, SwapStep DEF Swap
    <2>3. CASE OtherProcess
      BY <1>2, <2>1, <2>3, TreeAssumption, OtherProcessStep DEF OtherProcess
    <2>4. ASSUME NEW p \in Calls, Return(p) PROVE Abstract!Next
      <3>1. /\ call[p].cand.root \in Roots /\ stored # None
            /\ <<call[p].cand.root, stored.root>> \in Prefix
            /\ accepted' = accepted \cup {call[p].cand.root} /\ stored' = stored
        BY <1>2, <2>4, TreeAssumption, ReturnStep
      <3>2. stored.root # NoRoot
        BY <1>2, <3>1, TreeAssumption, NoneFacts DEF IInv, TrustTypeOK
      <3> QED BY <3>1, <3>2 DEF Abstract!Next, Abstract!Accept
    <2>5. ASSUME NEW p \in Calls,
                 \/ Advance(p) \/ Load(p) \/ Verify(p) \/ Refuse(p) \/ Lose(p) \/ Retry(p)
                 \/ Reload(p) \/ Canceled(p) \/ StoreFails(p) \/ Abort(p)
          PROVE  UNCHANGED <<stored.root, accepted>>
      BY <2>5 DEF Advance, Load, Verify, Refuse, Lose, Retry, Reload, Canceled,
                  StoreFails, Abort
    <2>6. CASE UNCHANGED trustVars
      BY <2>6 DEF trustVars
    <2> QED BY <1>2, <2>2, <2>3, <2>4, <2>5, <2>6 DEF TrustNext, Proceed
  <1> QED BY <1>1, <1>2, Invariance, PTL DEF TrustSpec, Refinement, Abstract!Spec

-----------------------------------------------------------------------------
(* The lifecycle stream.                                                     *)

Chain ==
  /\ \A i \in 1..Len(selected) : selected[i] \in signed /\ after[selected[i]] # NoState
  /\ \A e \in Events : after[e] # NoState => \E i \in 1..Len(selected) : selected[i] = e
  /\ \A i \in 1..Len(selected) : i = 1 => Payload[selected[i]].prev = NoEvent
  /\ \A i \in 1..Len(selected) : i > 1 =>
       /\ Payload[selected[i]].prev = selected[i - 1]
       /\ after[selected[i - 1]].status = "ACTIVE"
       /\ after[selected[i]] = NextState(selected[i], after[selected[i - 1]])

OwnOps == \A e \in Events : after[e] # NoState => after[e].op \in OwnKeys

GoodEvent(e, a) ==
  /\ Payload[e].key \in OwnKeys \cup {NoKey}
  /\ \/ IsGenesis(e)
     \/ /\ Payload[e].prev \in Events
        /\ a[Payload[e].prev] # NoState
        /\ Continues(e, Payload[e].prev, a[Payload[e].prev])

Good == \A e \in signed : GoodEvent(e, after)

Published == verdict = "open" => \A e \in logged : after[e] # NoState

Conflict ==
  /\ verdict = "CHAIN" =>
       \E e \in logged, f \in Events :
         e # f /\ after[f] # NoState /\ Payload[e].prev = Payload[f].prev
  /\ verdict = "INVALID_MIGRATION" => selected = <<>> /\ logged = {}

Inv == TypeOK /\ Chain /\ OwnOps /\ Good /\ Published /\ Conflict

(* The next state of an event the controllers signed names one of their keys.*)
LEMMA NextStateOwn ==
  ASSUME NEW e \in Events, NEW s \in States,
         Payload[e].key \in OwnKeys \cup {NoKey},
         \/ IsGenesis(e)
         \/ \E p \in Events : Continues(e, p, s) /\ s.op \in OwnKeys
  PROVE  /\ NextState(e, s) \in States
         /\ NextState(e, s).op \in OwnKeys
         /\ NextState(e, s) # NoState
<1>1. Payload[e] \in Fields
  BY StreamAssumption
<1>2. CASE IsGenesis(e)
  <2>1. Payload[e].type \in {"ISSUANCE", "MIGRATION"} /\ Payload[e].key \in OwnKeys
    BY <1>2 DEF IsGenesis
  <2> QED
    BY <1>1, <2>1, StreamAssumption DEF NextState, NoState, States, Keys, Fields
<1>3. CASE \E p \in Events : Continues(e, p, s) /\ s.op \in OwnKeys
  <2>1. /\ s.status = "ACTIVE" /\ s.op \in OwnKeys
        /\ Payload[e].type \notin {"ISSUANCE", "MIGRATION"}
        /\ Payload[e].type = "KEY_ROTATION" => Payload[e].key \in OwnKeys
    BY <1>3 DEF Continues
  <2>2. Payload[e].type \in {"KEY_ROTATION", "REVOCATION", "RETIREMENT", "DELEGATION"}
    BY <1>1, <2>1 DEF Fields, Types
  <2>3. CASE Payload[e].type = "KEY_ROTATION"
    BY <2>1, <2>3, StreamAssumption DEF NextState, NoState, States, Keys
  <2>4. CASE Payload[e].type = "REVOCATION"
    BY <2>1, <2>4, StreamAssumption DEF NextState, NoState, States, Keys
  <2>5. CASE Payload[e].type = "RETIREMENT"
    BY <2>1, <2>5, StreamAssumption DEF NextState, NoState, States, Keys
  <2>6. CASE Payload[e].type = "DELEGATION"
    BY <2>1, <2>6, StreamAssumption DEF NextState, NoState, States, Keys
  <2> QED
    BY <2>2, <2>3, <2>4, <2>5, <2>6
<1> QED
  BY <1>2, <1>3

(* The last selected event and its state.                                    *)
LEMMA LastFacts ==
  ASSUME Inv, selected # <<>>
  PROVE  /\ Len(selected) \in Nat \ {0}
         /\ LastEvent \in Events /\ LastEvent = selected[Len(selected)]
         /\ Current = after[LastEvent] /\ Current \in States /\ Current # NoState
         /\ Current.op \in OwnKeys
<1>1. Len(selected) \in Nat \ {0}
  BY EmptySeq, LenProperties DEF Inv, TypeOK
<1>2. LastEvent = selected[Len(selected)] /\ LastEvent \in Events
  BY <1>1, ElementOfSeq DEF Inv, TypeOK, LastEvent
<1>3. after[LastEvent] # NoState
  BY <1>1, <1>2 DEF Inv, Chain
<1> QED
  BY <1>1, <1>2, <1>3 DEF Inv, TypeOK, OwnOps, Current

(* An entry with all role signatures was signed by the controllers.          *)
LEMMA Authentic ==
  ASSUME Inv, selected # <<>>, NEW e \in Events,
         NEW sigs \in SUBSET (OtherKeys \cup Made(e)),
         HasAllRoleSignatures(e, sigs)
  PROVE  e \in signed /\ Made(e) \subseteq sigs
<1>1. Authority(e).op \in OwnKeys
  BY LastFacts DEF Authority, Applied, Inv, OwnOps
<1>2. \E k \in OwnKeys : k \in Signers(e, Authority(e).op)
  BY <1>1, StreamAssumption DEF Signers
<1>3. e \in signed
  BY <1>2, StreamAssumption DEF HasAllRoleSignatures, Made
<1> QED
  BY <1>3 DEF Made, HasAllRoleSignatures

(* A signed event that does not continue the stream conflicts with it.       *)
LEMMA SignedConflicts ==
  ASSUME Inv, selected # <<>>, NEW e \in signed, after[e] = NoState,
         ~Continues(e, LastEvent, Current)
  PROVE  \E f \in Events : f # e /\ after[f] # NoState /\ Payload[e].prev = Payload[f].prev
<1>0. e \in Events
  BY DEF Inv, TypeOK
<1>1. CASE IsGenesis(e)
  <2>1. selected[1] \in Events /\ Payload[selected[1]].prev = NoEvent /\ after[selected[1]] # NoState
    BY LastFacts, ElementOfSeq DEF Inv, TypeOK, Chain
  <2> QED
    BY <1>1, <2>1 DEF IsGenesis, GenesisFields
<1>2. CASE /\ Payload[e].prev \in Events
           /\ after[Payload[e].prev] # NoState
           /\ Continues(e, Payload[e].prev, after[Payload[e].prev])
  <2>1. PICK i \in 1..Len(selected) : selected[i] = Payload[e].prev
    BY <1>2 DEF Inv, Chain
  <2>2. i # Len(selected)
    BY <1>2, <2>1, LastFacts
  <2>3. i + 1 \in 1..Len(selected) /\ i + 1 > 1 /\ (i + 1) - 1 = i
    BY <2>1, <2>2, LastFacts
  <2>4. Payload[selected[i + 1]].prev = selected[i] /\ after[selected[i + 1]] # NoState
    BY <2>3 DEF Inv, Chain
  <2>5. selected[i + 1] \in Events
    BY <2>3, ElementOfSeq DEF Inv, TypeOK
  <2> QED
    BY <2>1, <2>4, <2>5
<1> QED
  BY <1>1, <1>2 DEF Inv, Good, GoodEvent

(* Selecting a signed event extends the chain.                               *)
LEMMA SelectPreserves ==
  ASSUME Inv, verdict = "open", NEW e \in signed, after[e] = NoState,
         NEW s \in States, s # NoState, s.op \in OwnKeys, Select(e, s),
         signed' = signed, logged' = logged \/ logged' = logged \cup {e},
         \/ selected = <<>> /\ IsGenesis(e)
         \/ selected # <<>> /\ Continues(e, LastEvent, Current) /\ s = NextState(e, Current)
  PROVE  Inv'
<1> DEFINE n == Len(selected)
<1>1. e \in Events /\ n \in Nat
  BY LenProperties DEF Inv, TypeOK
<1>2. /\ selected' \in Seq(Events) /\ Len(selected') = n + 1
      /\ selected'[n + 1] = e
      /\ \A i \in 1..n : selected'[i] = selected[i]
  BY <1>1, AppendProperties DEF Inv, TypeOK, Select
<1>3. after' \in [Events -> States] /\ after'[e] = s
  BY <1>1 DEF Inv, TypeOK, Select
<1>4. \A f \in Events : f # e => after'[f] = after[f]
  BY <1>1 DEF Inv, TypeOK, Select
<1>5. \A f \in Events : after[f] # NoState => after'[f] = after[f] /\ after'[f] # NoState
  BY <1>4
<1>6. \A i \in 1..n : /\ selected[i] \in Events
                      /\ after[selected[i]] # NoState
                      /\ after'[selected[i]] = after[selected[i]]
  BY <1>1, <1>5, ElementOfSeq DEF Inv, TypeOK, Chain
<1>7. selected # <<>> => n > 0 /\ LastEvent = selected[n] /\ Current = after[selected[n]]
  BY LastFacts
<1>8. selected = <<>> => n = 0
  BY DEF Inv, TypeOK
<1>9. verdict' = "open"
  BY DEF Select
<1> HIDE DEF n
<1>10. TypeOK'
  BY <1>2, <1>3, <1>9 DEF Inv, TypeOK
<1>11. Chain'
  <2>1. \A i \in 1..(n + 1) : selected'[i] \in signed' /\ after'[selected'[i]] # NoState
    <3>1. \A i \in 1..n : selected[i] \in signed
      BY DEF Inv, Chain, n
    <3> QED
      BY <1>1, <1>2, <1>3, <1>6, <3>1
  <2>2. \A f \in Events : after'[f] # NoState => \E i \in 1..(n + 1) : selected'[i] = f
    <3>1. \A f \in Events : after[f] # NoState => \E i \in 1..n : selected[i] = f
      BY DEF Inv, Chain, n
    <3> TAKE f \in Events
    <3>2. CASE f = e
      BY <1>1, <1>2, <3>2
    <3>3. CASE f # e
      BY <1>1, <1>2, <1>4, <3>1, <3>3
    <3> QED
      BY <3>2, <3>3
  <2>3. \A i \in 1..(n + 1) : i = 1 => Payload[selected'[i]].prev = NoEvent
    <3>1. CASE n = 0
      BY <1>2, <1>7, <3>1, SMTT(20) DEF IsGenesis, GenesisFields
    <3>2. CASE n > 0
      BY <1>1, <1>2, <3>2, SMTT(20) DEF Inv, Chain, n
    <3> QED
      BY <1>1, <3>1, <3>2
  <2>4. ASSUME NEW i \in 1..(n + 1), i > 1
        PROVE  /\ Payload[selected'[i]].prev = selected'[i - 1]
               /\ after'[selected'[i - 1]].status = "ACTIVE"
               /\ after'[selected'[i]] = NextState(selected'[i], after'[selected'[i - 1]])
    <3>1. CASE i = n + 1
      <4>1. n > 0 /\ n \in 1..n /\ i - 1 = n
        BY <1>1, <2>4, <3>1
      <4>2. selected # <<>> /\ Continues(e, LastEvent, Current) /\ s = NextState(e, Current)
        BY <4>1, <1>8
      <4>3. selected'[i - 1] = LastEvent /\ after'[LastEvent] = Current
        BY <1>2, <1>6, <1>7, <4>1, <4>2
      <4> QED
        BY <1>2, <1>3, <3>1, <4>2, <4>3 DEF Continues
    <3>2. CASE i # n + 1
      <4>1. i \in 1..n /\ i - 1 \in 1..n
        BY <1>1, <2>4, <3>2
      <4>2. /\ Payload[selected[i]].prev = selected[i - 1]
            /\ after[selected[i - 1]].status = "ACTIVE"
            /\ after[selected[i]] = NextState(selected[i], after[selected[i - 1]])
        BY <2>4, <4>1 DEF Inv, Chain, n
      <4> QED
        BY <1>2, <1>6, <4>1, <4>2
    <3> QED
      BY <3>1, <3>2
  <2> QED
    BY <1>2, <2>1, <2>2, <2>3, <2>4, Zenon DEF Chain
<1>12. OwnOps'
  BY <1>3, <1>4 DEF Inv, OwnOps
<1>13. Good'
  <2> SUFFICES ASSUME NEW f \in signed PROVE GoodEvent(f, after')
    BY DEF Good
  <2>1. GoodEvent(f, after)
    BY DEF Inv, Good
  <2> QED
    BY <2>1, <1>5 DEF GoodEvent
<1>14. Published'
  <2>1. \A f \in logged : f \in Events /\ after[f] # NoState
    BY DEF Inv, Published, TypeOK
  <2> QED
    BY <1>1, <1>3, <1>5, <2>1 DEF Published
<1>15. Conflict'
  BY <1>9 DEF Conflict
<1> QED
  BY <1>10, <1>11, <1>12, <1>13, <1>14, <1>15 DEF Inv

(* Passing over an entry changes nothing but, perhaps, what was logged.      *)
LEMMA SkipPreserves ==
  ASSUME Inv, verdict = "open", NEW e \in Events, Skip, signed' = signed,
         logged' = logged \/ (logged' = logged \cup {e} /\ after[e] # NoState /\ e \in signed)
  PROVE  Inv'
<1>1. TypeOK'
  BY DEF Inv, TypeOK, Skip
<1>2. Chain' /\ OwnOps'
  BY Zenon DEF Inv, Chain, OwnOps, Skip, NextState
<1>3. Good'
  BY DEF Inv, Good, Skip, GoodEvent, Continues, IsGenesis, GenesisFields
<1>4. Published' /\ Conflict'
  BY DEF Inv, Published, Conflict, Skip
<1> QED
  BY <1>1, <1>2, <1>3, <1>4 DEF Inv

(* Verification throws at a conflict or an unverifiable migration.           *)
LEMMA ThrowPreserves ==
  ASSUME Inv, NEW e \in Events, NEW error \in {"CHAIN", "INVALID_MIGRATION"}, Throw(error),
         signed' = signed, logged' = logged \/ logged' = logged \cup {e}, logged' \subseteq signed,
         error = "CHAIN" =>
           /\ e \in logged'
           /\ \E f \in Events : f # e /\ after[f] # NoState /\ Payload[e].prev = Payload[f].prev,
         error = "INVALID_MIGRATION" => selected = <<>> /\ logged' = {}
  PROVE  Inv'
<1>1. TypeOK'
  BY DEF Inv, TypeOK, Throw
<1>2. Chain' /\ OwnOps'
  BY SMTT(20) DEF Inv, Chain, OwnOps, Throw, NextState
<1>3. Good'
  BY Zenon DEF Inv, Good, Throw, GoodEvent, Continues, IsGenesis, GenesisFields
<1>4. Published' /\ Conflict'
  BY DEF Inv, Published, Conflict, Throw
<1> QED
  BY <1>1, <1>2, <1>3, <1>4 DEF Inv

(* A controller's signature is for an event that fits.                       *)
LEMMA SignPreserves ==
  ASSUME Inv, NEW e \in Events, Sign(e)
  PROVE  Inv'
<1>1. TypeOK' /\ Published' /\ Conflict' /\ OwnOps'
  BY DEF Inv, TypeOK, Published, Conflict, OwnOps, Sign
<1>2. Chain'
  BY DEF Inv, Chain, Sign, NextState
<1>3. GoodEvent(e, after)
  <2>1. CASE selected = <<>>
    BY <2>1 DEF Sign, GoodEvent
  <2>2. CASE selected # <<>>
    <3>1. Continues(e, LastEvent, Current) /\ Payload[e].prev = LastEvent
      BY <2>2 DEF Sign, Continues
    <3> QED
      BY <2>2, <3>1, LastFacts DEF Sign, GoodEvent
  <2> QED
    BY <2>1, <2>2
<1>4. Good'
  <2>1. signed' = signed \cup {e} /\ after' = after
    BY DEF Sign
  <2>2. \A f \in signed' : GoodEvent(f, after)
    BY <1>3, <2>1 DEF Inv, Good
  <2> QED
    BY <2>1, <2>2 DEF Good
<1> QED
  BY <1>1, <1>2, <1>4 DEF Inv

(* A rejected event is neither logged nor selected.                          *)
LEMMA RejectPreserves ==
  ASSUME Inv, NEW e \in Events, Reject(e)
  PROVE  Inv'
<1>1. TypeOK' /\ Published' /\ Conflict' /\ OwnOps'
  BY DEF Inv, TypeOK, Published, Conflict, OwnOps, Reject
<1>2. Chain'
  <2>1. after[e] = NoState
    BY DEF Reject, Applied
  <2>2. \A i \in 1..Len(selected) : selected[i] \in signed'
    BY <2>1 DEF Inv, Chain, Reject
  <2> QED
    BY <2>2 DEF Inv, Chain, Reject, NextState
<1>3. Good'
  <2>1. signed' \subseteq signed /\ after' = after
    BY DEF Reject
  <2>2. \A f \in signed' : GoodEvent(f, after)
    BY <2>1 DEF Inv, Good
  <2> QED
    BY <2>1, <2>2 DEF Good
<1> QED
  BY <1>1, <1>2, <1>3 DEF Inv

(* One more entry of the log: skipped, selected or a reason to throw.        *)
LEMMA IntegratePreserves ==
  ASSUME Inv, NEW e \in Events, Integrate(e)
  PROVE  Inv'
<1>1. PICK sigs \in SUBSET (OtherKeys \cup Made(e)) :
        /\ Scan(e, sigs)
        /\ logged' = IF e \in signed /\ Made(e) \subseteq sigs THEN logged \cup {e} ELSE logged
  BY DEF Integrate
<1>2. verdict = "open" /\ signed' = signed
  BY DEF Integrate
<1>3. logged' = logged \/ (logged' = logged \cup {e} /\ e \in signed)
  BY <1>1
<1>4. logged' \subseteq signed
  BY <1>3 DEF Inv, TypeOK
<1>5. CASE after[e] # NoState
  <2>1. Skip
    BY <1>1, <1>5 DEF Scan, Applied
  <2> QED
    BY <1>2, <1>3, <1>5, <2>1, SkipPreserves
<1>6. CASE after[e] = NoState /\ selected = <<>>
  <2>1. ScanGenesis(e, sigs)
    BY <1>1, <1>6 DEF Scan, Applied
  <2>2. CASE IsGenesis(e) /\ Signers(e, NoKey) \subseteq sigs
    <3>1. EntityKey \in sigs
      BY <2>2 DEF IsGenesis, Signers
    <3>2. e \in signed
      BY <3>1, StreamAssumption DEF Made
    <3>3. NoState \in States
      BY Zenon DEF NoState, States
    <3>4. /\ NextState(e, NoState) \in States
          /\ NextState(e, NoState).op \in OwnKeys
          /\ NextState(e, NoState) # NoState
      <4>1. Payload[e].key \in OwnKeys \cup {NoKey}
        BY <3>2 DEF Inv, Good, GoodEvent
      <4> QED
        BY <2>2, <3>3, <4>1, NextStateOwn
    <3>5. Select(e, NextState(e, NoState))
      BY <2>1, <2>2 DEF ScanGenesis
    <3> QED
      BY <1>2, <1>3, <1>6, <2>2, <3>2, <3>4, <3>5, SelectPreserves
  <2>0. \A p \in Events : after[p] = NoState
    BY <1>6 DEF Inv, Chain
  <2>3. CASE ~(IsGenesis(e) /\ Signers(e, NoKey) \subseteq sigs) /\ Unverifiable(e)
    <3>1. Throw("INVALID_MIGRATION")
      BY <2>1, <2>3, Zenon DEF ScanGenesis
    <3>2. e \notin signed
      BY <2>0, <2>3 DEF Inv, Good, GoodEvent, IsGenesis, Unverifiable
    <3>3. logged = {}
      BY <1>2, <2>0 DEF Inv, Published, TypeOK
    <3>4. logged' = {}
      BY <1>3, <3>2, <3>3
    <3> QED
      BY <1>2, <1>3, <1>4, <1>6, <3>1, <3>4, ThrowPreserves
  <2>4. CASE /\ ~(IsGenesis(e) /\ Signers(e, NoKey) \subseteq sigs)
             /\ ~Unverifiable(e)
    <3>1. Skip
      BY <2>1, <2>4 DEF ScanGenesis
    <3>2. ~(e \in signed /\ Made(e) \subseteq sigs)
      <4> SUFFICES ASSUME e \in signed, Made(e) \subseteq sigs PROVE FALSE
        OBVIOUS
      <4>1. IsGenesis(e)
        BY <2>0 DEF Inv, Good, GoodEvent
      <4>2. Made(e) = Signers(e, NoKey)
        BY <4>1 DEF Made, Signers, IsGenesis
      <4> QED
        BY <2>4, <4>1, <4>2
    <3>3. logged' = logged
      BY <1>1, <3>2
    <3> QED
      BY <1>2, <3>1, <3>3, SkipPreserves
  <2> QED
    BY <2>2, <2>3, <2>4
<1>7. CASE after[e] = NoState /\ selected # <<>>
  <2>1. CASE ~HasAllRoleSignatures(e, sigs)
    <3>1. Skip
      BY <1>1, <1>7, <2>1 DEF Scan, Applied
    <3>2. logged' = logged
      BY <1>1, <2>1 DEF HasAllRoleSignatures, Made
    <3> QED
      BY <1>2, <3>1, <3>2, SkipPreserves
  <2>2. CASE HasAllRoleSignatures(e, sigs)
    <3>1. e \in signed /\ Made(e) \subseteq sigs
      BY <1>7, <2>2, Authentic
    <3>2. logged' = logged \cup {e}
      BY <1>1, <3>1
    <3>3. CASE Continues(e, LastEvent, Current)
      <4>1. Select(e, NextState(e, Current))
        BY <1>1, <1>7, <2>2, <3>3 DEF Scan, Applied
      <4>2. LastEvent \in Events /\ Current \in States /\ Current.op \in OwnKeys
        BY <1>7, LastFacts
      <4>3. Payload[e].key \in OwnKeys \cup {NoKey}
        BY <3>1 DEF Inv, Good, GoodEvent
      <4>4. /\ NextState(e, Current) \in States
            /\ NextState(e, Current).op \in OwnKeys
            /\ NextState(e, Current) # NoState
        BY <3>3, <4>2, <4>3, NextStateOwn
      <4> QED
        BY <1>2, <1>7, <3>1, <3>2, <3>3, <4>1, <4>4, SelectPreserves
    <3>4. CASE ~Continues(e, LastEvent, Current)
      <4>1. Throw("CHAIN")
        BY <1>1, <1>7, <2>2, <3>4 DEF Scan, Applied
      <4>2. \E f \in Events : f # e /\ after[f] # NoState /\ Payload[e].prev = Payload[f].prev
        BY <1>7, <3>1, <3>4, SignedConflicts
      <4> QED
        BY <1>2, <1>4, <3>2, <4>1, <4>2, ThrowPreserves
    <3> QED
      BY <3>3, <3>4
  <2> QED
    BY <2>1, <2>2
<1> QED
  BY <1>5, <1>6, <1>7

(* The inductive invariant of the verified stream and its controllers.       *)
THEOREM StreamInvariant == Spec => []Inv
<1>1. Init => Inv
  BY EmptySeq DEF Init, Inv, TypeOK, Chain, OwnOps, Good, Published, Conflict, NoState, States
<1>2. Inv /\ [Next]_vars => Inv'
  <2> SUFFICES ASSUME Inv, [Next]_vars PROVE Inv'
    OBVIOUS
  <2>1. ASSUME NEW e \in Events, Sign(e) PROVE Inv'
    BY <2>1, SignPreserves
  <2>2. ASSUME NEW e \in Events, Reject(e) PROVE Inv'
    BY <2>2, RejectPreserves
  <2>3. ASSUME NEW e \in Events, Integrate(e) PROVE Inv'
    BY <2>3, IntegratePreserves
  <2>4. CASE UNCHANGED vars
    <3>1. /\ selected' = selected /\ after' = after /\ verdict' = verdict
          /\ signed' = signed /\ logged' = logged
      BY <2>4 DEF vars
    <3>2. TypeOK' /\ OwnOps' /\ Published' /\ Conflict'
      BY <3>1 DEF Inv, TypeOK, OwnOps, Published, Conflict
    <3>3. Chain'
      BY <3>1, Zenon DEF Inv, Chain, NextState
    <3>4. Good'
      BY <3>1 DEF Inv, Good, GoodEvent, Continues, IsGenesis, GenesisFields
    <3> QED
      BY <3>2, <3>3, <3>4 DEF Inv
  <2> QED
    BY <2>1, <2>2, <2>3, <2>4 DEF Next
<1> QED
  BY <1>1, <1>2, PTL DEF Spec

(* Type correctness of the stream.                                           *)
THEOREM TypeCorrect == Spec => []TypeOK
<1>1. Inv => TypeOK
  BY DEF Inv
<1> QED
  BY <1>1, StreamInvariant, PTL

(* Verification throws over the chain only when the controllers forked it,   *)
(* and over a migration only while they have published nothing.              *)
THEOREM RefusalMeansFork == Spec => []RefusedOnlyForFork
<1>1. Inv => RefusedOnlyForFork
  <2> SUFFICES ASSUME Inv, verdict = "CHAIN" PROVE Forked
    BY DEF RefusedOnlyForFork, Inv, TypeOK, Conflict
  <2>1. PICK e \in logged, f \in Events :
          e # f /\ after[f] # NoState /\ Payload[e].prev = Payload[f].prev
    BY DEF Inv, Conflict
  <2>2. e \in signed /\ f \in signed
    BY <2>1 DEF Inv, TypeOK, Chain
  <2> QED
    BY <2>1, <2>2 DEF Forked
<1> QED
  BY <1>1, StreamInvariant, PTL

(* While a stream verifies, every published event is part of it.             *)
THEOREM NothingPublishedIsSkipped == Spec => []PublishedIsApplied
<1>1. Inv => PublishedIsApplied
  BY DEF Inv, TypeOK, Published, PublishedIsApplied, Applied
<1> QED
  BY <1>1, StreamInvariant, PTL

(* The selected events are one chain signed by the controllers.              *)
THEOREM LifecycleIsOneChain == Spec => []OneAuthorizedChain
<1>1. Inv => OneAuthorizedChain
  <2> SUFFICES ASSUME Inv PROVE OneAuthorizedChain
    OBVIOUS
  <2>1. DOMAIN selected = 1..Len(selected)
    BY LenProperties DEF Inv, TypeOK
  <2> QED
    BY <2>1 DEF Inv, Chain, OneAuthorizedChain
<1> QED
  BY <1>1, StreamInvariant, PTL

(* The verified stream is sound in every reachable state.                    *)
THEOREM StreamStaysSound == Spec => []StreamIsSound
  BY RefusalMeansFork, NothingPublishedIsSkipped, LifecycleIsOneChain, PTL DEF StreamIsSound
=============================================================================
