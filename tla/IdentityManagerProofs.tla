------------------------ MODULE IdentityManagerProofs ------------------------
(* Proofs, for every value of the constants, of the safety properties of     *)
(* IdentityManager.                                                          *)
EXTENDS IdentityManager, TLAPS

(* Every waiting call refers to an acquisition that knows it, was unfinished *)
(* when the call began, and has the kind the call asked for.                 *)
CallRefs ==
  \A c \in Callers : call[c].phase # "idle" =>
    /\ call[c].w \in Started
    /\ c \in work[call[c].w].callers
    /\ call[c].w \notin call[c].settled
    /\ call[c].settled \subseteq 1..(nextId - 1)
    /\ call[c].phase = "wait" => work[call[c].w].kind = call[c].kind
    /\ call[c].phase = "own" => /\ work[call[c].w].kind = "own"
                                /\ work[call[c].w].callers = {c}
                                /\ call[c].w \in call[c].mine

(* A registered acquisition is of its map's kind and has not finished.       *)
MapRefs ==
  \A k \in Kinds : inflight[k] # 0 =>
    /\ work[inflight[k]].kind = k
    /\ work[inflight[k]].phase # "finished"

(* What a successful acquisition built.                                      *)
EvidenceOrigin ==
  \A w \in Started :
    /\ work[w].kind = "status" => work[w].base.ttl > 0
    /\ work[w].code = "ok" =>
         /\ work[w].ev.by = w
         /\ work[w].kind # "status" => work[w].ev.src = w
         /\ work[w].kind = "status" => /\ work[w].ev.src = work[w].base.src
                                       /\ work[w].ev.ttl = work[w].base.ttl

(* Nothing that could still be published predates the floor.                 *)
FloorBounds ==
  /\ floor <= nextId
  /\ cache # NoEvidence => cache.src >= floor /\ cache.ttl > 0
  /\ inflight["verify"] # 0 => inflight["verify"] >= floor
  /\ inflight["refresh"] # 0 => inflight["refresh"] >= floor
  /\ inflight["status"] # 0 => work[inflight["status"]].base.src >= floor

IInv ==
  /\ TypeOK
  /\ CallRefs
  /\ MapRefs
  /\ EvidenceOrigin
  /\ FloorBounds
  /\ NoOrphanWork
  /\ ZeroTTLPrivate
  /\ FreshPerCall
-----------------------------------------------------------------------------
LEMMA NoEvidenceType == NoEvidence \in Evidence
BY DEF NoEvidence, Evidence

LEMMA CacheTypes ==
  ASSUME now \in Nat, cache \in Evidence, NEW ev \in Evidence
  PROVE  /\ CacheGet \in {cache, NoEvidence}
         /\ CachePut(ev) \in {ev, NoEvidence}
         /\ EvictIfSame(ev) \in {cache, NoEvidence}
BY DEF CacheGet, CachePut, EvictIfSame

(* Garbage collection keeps every acquisition that has not finished or is    *)
(* still awaited, and changes none.                                          *)
LEMMA CollectedFacts ==
  ASSUME NEW f
  PROVE  /\ DOMAIN Collected(f) \subseteq DOMAIN f
         /\ \A i \in DOMAIN f : f[i].phase # "finished" \/ f[i].callers # {}
                                  => i \in DOMAIN Collected(f)
         /\ \A i \in DOMAIN Collected(f) : Collected(f)[i] = f[i]
BY DEF Collected

LEMMA CollectedType ==
  ASSUME NEW f, NEW S, NEW T, f \in [S -> T]
  PROVE  Collected(f) \in [DOMAIN Collected(f) -> T]
BY DEF Collected

LEMMA InitIInv == ConstantsAssumption /\ Init => IInv
  <1> SUFFICES ASSUME ConstantsAssumption, Init PROVE IInv
    OBVIOUS
  <1>1. Started = {}
    BY DEF Init, Started
  <1>2. TypeOK
    <2>1. work \in [Started -> Acquisition]
      BY <1>1 DEF Init, Started
    <2>2. cache \in Evidence /\ NoAnswer \in Answer /\ Idle \in Invocation
      BY NoEvidenceType DEF Init, NoAnswer, Answer, Idle, Invocation, Codes, Kinds, Peers
    <2> QED BY <1>1, <2>1, <2>2 DEF Init, TypeOK, Never
  <1>3. CallRefs /\ MapRefs /\ EvidenceOrigin /\ NoOrphanWork
    BY <1>1 DEF Init, CallRefs, MapRefs, EvidenceOrigin, NoOrphanWork, Idle
  <1>4. FloorBounds /\ ZeroTTLPrivate /\ FreshPerCall
    BY DEF Init, FloorBounds, ZeroTTLPrivate, FreshPerCall, NoAnswer, Kinds
  <1> QED BY <1>2, <1>3, <1>4 DEF IInv
-----------------------------------------------------------------------------
(* A step that answers nobody keeps the properties of answers.               *)
LEMMA SilentAnswer ==
  ASSUME answer' = NoAnswer
  PROVE  /\ answer' \in Answer
         /\ FreshPerCall'
         /\ (cache # NoEvidence => cache.ttl > 0)' => ZeroTTLPrivate'
BY NoEvidenceType DEF NoAnswer, Answer, FreshPerCall, ZeroTTLPrivate, Codes, Kinds

(* Steps of one acquisition before its finally runs: only its own phase and  *)
(* result change.                                                            *)
LEMMA WorkerFrame ==
  ASSUME IInv, NEW w \in Started,
         work' \in [Started -> Acquisition],
         \A i \in Started : i # w => work'[i] = work[i],
         work'[w].kind = work[w].kind,
         work'[w].callers = work[w].callers,
         work'[w].base = work[w].base,
         work'[w].aborted = work[w].aborted,
         work'[w].phase # "finished",
         work'[w].phase \in Running => work[w].phase \in Running,
         work'[w].code = "ok" =>
           /\ work'[w].ev.by = w
           /\ work[w].kind # "status" => work'[w].ev.src = w
           /\ work[w].kind = "status" => /\ work'[w].ev.src = work[w].base.src
                                         /\ work'[w].ev.ttl = work[w].base.ttl,
         answer' = NoAnswer,
         UNCHANGED <<now, revokedAt, nextId, call>>
  PROVE  /\ Started' = Started
         /\ CallRefs' /\ EvidenceOrigin' /\ NoOrphanWork' /\ FreshPerCall'
         /\ UNCHANGED <<inflight, floor>> /\ cache' \in {cache, NoEvidence} => IInv'
  <1> USE DEF Started
  <1>1. DOMAIN work' = DOMAIN work
    OBVIOUS
  <1>2. CallRefs'
    BY <1>1 DEF IInv, CallRefs
  <1>3. EvidenceOrigin'
    BY <1>1 DEF IInv, EvidenceOrigin
  <1>4. NoOrphanWork'
    BY <1>1 DEF IInv, NoOrphanWork
  <1>5. FreshPerCall'
    BY SilentAnswer
  <1>6. ASSUME UNCHANGED <<inflight, floor>>, cache' \in {cache, NoEvidence}
        PROVE  IInv'
    <2>1. TypeOK'
      BY <1>1, <1>6, SilentAnswer, NoEvidenceType DEF IInv, TypeOK
    <2>2. MapRefs'
      BY <1>1, <1>6 DEF IInv, MapRefs, TypeOK
    <2>3. FloorBounds'
      BY <1>1, <1>6 DEF IInv, FloorBounds, TypeOK, Kinds
    <2>4. ZeroTTLPrivate'
      BY <1>6, SilentAnswer DEF IInv, ZeroTTLPrivate
    <2> QED BY <1>2, <1>3, <1>4, <1>5, <2>1, <2>2, <2>3, <2>4 DEF IInv
  <1> QED BY <1>1, <1>2, <1>3, <1>4, <1>5, <1>6

LEMMA WorkerSteps ==
  ASSUME ConstantsAssumption, IInv, NEW w \in Started,
         ReadStatus(w) \/ Complete(w) \/ Fail(w) \/ Cancelled(w)
  PROVE  IInv'
  <1> USE DEF Started
  <1>1. w \in DOMAIN work /\ work[w].phase \in Running
    BY Zenon DEF ReadStatus, Complete, Fail, Cancelled, Live
  <1>2. work[w] \in Acquisition /\ work \in [DOMAIN work -> Acquisition]
    BY <1>1 DEF IInv, TypeOK
  <1>3. CASE ReadStatus(w)
    <2>1. CASE revokedAt = Never
      BY <1>1, <1>2, <1>3, <2>1, WorkerFrame DEF ReadStatus, Acquisition, Running, IInv, EvidenceOrigin
    <2>2. CASE revokedAt # Never
      BY <1>1, <1>2, <1>3, <2>2, WorkerFrame DEF ReadStatus, Acquisition, Running, Codes
    <2> QED BY <2>1, <2>2
  <1>4. CASE Complete(w)
    <2>0. PICK ttl \in TTLs :
          LET ev == Built(w, ttl)
              code == IF Expired(ev) THEN "stale"
                      ELSE IF now >= Deadline(w) THEN "cancelled" ELSE "ok"
          IN /\ work' = [work EXCEPT ![w].phase = "done", ![w].code = code,
                           ![w].ev = IF code = "ok" THEN ev ELSE NoEvidence]
             /\ cache' = IF code = "stale" /\ work[w].kind = "status"
                         THEN EvictIfSame(work[w].base) ELSE cache
      BY <1>4, Zenon DEF Complete
    <2> DEFINE ev == Built(w, ttl)
               code == IF Expired(ev) THEN "stale"
                       ELSE IF now >= Deadline(w) THEN "cancelled" ELSE "ok"
               built == IF code = "ok" THEN ev ELSE NoEvidence
    <2>1. /\ ev \in Evidence /\ ev.by = w
          /\ work[w].kind # "status" => ev.src = w
          /\ work[w].kind = "status" => ev.src = work[w].base.src /\ ev.ttl = work[w].base.ttl
      <3>1. now \in Nat /\ w \in Nat /\ ttl \in Nat /\ work[w].started \in Nat
            /\ work[w].base \in Evidence
        BY <1>2 DEF Acquisition, ConstantsAssumption, IInv, TypeOK
      <3>2. CASE work[w].kind = "status"
        <4>1. ev = [work[w].base EXCEPT !.by = w, !.checkedAt = now]
          BY <3>2 DEF Built
        <4> HIDE DEF ev
        <4> QED BY <3>1, <3>2, <4>1, Zenon DEF Evidence
      <3>3. CASE work[w].kind # "status"
        BY <3>1, <3>3 DEF Built, Evidence
      <3> QED BY <3>2, <3>3
    <2>2. built \in Evidence /\ code \in Codes /\ (code = "ok" => built = ev)
      BY <2>1, NoEvidenceType DEF Codes
    <2>3. cache' \in {cache, NoEvidence}
      BY <1>2, <2>0, CacheTypes DEF IInv, TypeOK, Acquisition
    <2>4. work' = [work EXCEPT ![w].phase = "done", ![w].code = code, ![w].ev = built]
      BY <2>0
    <2> HIDE DEF ev, code, built
    <2>5. /\ work' \in [DOMAIN work -> Acquisition]
          /\ \A i \in DOMAIN work : i # w => work'[i] = work[i]
          /\ work'[w].kind = work[w].kind /\ work'[w].callers = work[w].callers
          /\ work'[w].base = work[w].base /\ work'[w].aborted = work[w].aborted
          /\ work'[w].phase = "done" /\ work'[w].code = code /\ work'[w].ev = built
      BY <1>1, <1>2, <2>2, <2>4, Zenon DEF Acquisition
    <2>6. answer' = NoAnswer /\ UNCHANGED <<now, revokedAt, nextId, inflight, call, floor>>
      BY <1>4, Zenon DEF Complete
    <2> QED
      BY <1>1, <2>1, <2>2, <2>3, <2>5, <2>6, WorkerFrame DEF Running
  <1>5. CASE Fail(w)
    BY <1>1, <1>2, <1>5, WorkerFrame DEF Fail, Acquisition, Running, Codes
  <1>6. CASE Cancelled(w)
    BY <1>1, <1>2, <1>6, WorkerFrame DEF Cancelled, Acquisition, Running, Codes
  <1> QED BY <1>3, <1>4, <1>5, <1>6

LEMMA ApplyStep ==
  ASSUME ConstantsAssumption, IInv, NEW w \in Started, Apply(w)
  PROVE  IInv'
  <1> USE DEF Started
  <1>1. /\ w \in DOMAIN work /\ work[w].phase = "done" /\ work[w].kind \in Kinds
        /\ work[w] \in Acquisition /\ work \in [DOMAIN work -> Acquisition]
        /\ w \in Nat
    BY DEF Apply, IInv, TypeOK
  <1>2. /\ work' \in [DOMAIN work -> Acquisition]
        /\ \A i \in DOMAIN work : i # w => work'[i] = work[i]
        /\ work'[w].kind = work[w].kind /\ work'[w].callers = work[w].callers
        /\ work'[w].base = work[w].base /\ work'[w].aborted = work[w].aborted
        /\ work'[w].phase = "applied" /\ work'[w].code = work[w].code
        /\ work'[w].ev = work[w].ev
    BY <1>1 DEF Apply, Acquisition
  <1>3. answer' = NoAnswer /\ UNCHANGED <<now, revokedAt, nextId, call>>
    BY DEF Apply
  <1>4. /\ Started' = Started
        /\ CallRefs' /\ EvidenceOrigin' /\ NoOrphanWork' /\ FreshPerCall'
        /\ UNCHANGED <<inflight, floor>> /\ cache' \in {cache, NoEvidence} => IInv'
    BY <1>1, <1>2, <1>3, WorkerFrame DEF Running, IInv, EvidenceOrigin
  <1>5. CASE ~Publishes(w)
    BY <1>4, <1>5 DEF Apply
  <1>6. CASE Publishes(w)
    <2>1. /\ inflight[work[w].kind] = w /\ work[w].code = "ok"
          /\ cache' = CachePut(work[w].ev)
      BY <1>6 DEF Apply, Publishes
    <2>2. cache' \in {work[w].ev, NoEvidence} /\ (cache' # NoEvidence => cache'.ttl > 0)
          /\ work[w].ev \in Evidence /\ cache' \in Evidence
      BY <1>1, <2>1, NoEvidenceType DEF CachePut, Acquisition
    <2>3. work[w].kind # "status" => work[w].ev.src = w
      BY <1>1, <2>1 DEF IInv, EvidenceOrigin
    <2>4. work[w].kind = "status" => work[w].ev.src = work[w].base.src
      BY <1>1, <2>1 DEF IInv, EvidenceOrigin
    <2>5. ZeroTTLPrivate'
      BY <1>3, <2>2, SilentAnswer
    <2>6. CASE work[w].kind = "refresh"
      <3>1. /\ inflight' = [j \in Kinds |-> IF j = "refresh" THEN w ELSE 0]
            /\ floor' = w
        BY <1>6, <2>6 DEF Apply, Registered
      <3>2. TypeOK'
        BY <1>1, <1>2, <1>3, <1>4, <2>2, <3>1, SilentAnswer DEF IInv, TypeOK, Kinds
      <3>3. MapRefs'
        BY <1>2, <2>6, <3>1 DEF MapRefs, Kinds
      <3>4. FloorBounds'
        <4>1. w < nextId /\ nextId \in Nat
          BY <1>1 DEF IInv, TypeOK
        <4> QED BY <1>1, <1>3, <2>2, <2>3, <2>6, <3>1, <4>1 DEF FloorBounds, Kinds
      <3> QED BY <1>4, <2>5, <3>2, <3>3, <3>4 DEF IInv
    <2>7. CASE work[w].kind # "refresh"
      <3>1. UNCHANGED <<inflight, floor>>
        BY <1>6, <2>7 DEF Apply
      <3>2. TypeOK'
        BY <1>2, <1>3, <1>4, <2>2, <3>1, SilentAnswer DEF IInv, TypeOK
      <3>3. MapRefs'
        BY <1>1, <1>2, <3>1 DEF IInv, MapRefs, TypeOK
      <3>4. FloorBounds'
        <4>1. work[w].ev.src >= floor
          <5>1. /\ inflight["verify"] # 0 => inflight["verify"] >= floor
                /\ inflight["status"] # 0 => work[inflight["status"]].base.src >= floor
            BY Zenon DEF IInv, FloorBounds
          <5>2. w # 0 /\ work[w].kind \in {"verify", "status"}
            BY <1>1, <2>7 DEF IInv, TypeOK, Kinds
          <5> QED BY <2>1, <2>3, <2>4, <5>1, <5>2
        <4>2. work'[inflight["status"]].base = work[inflight["status"]].base \/ inflight["status"] = 0
          BY <1>2 DEF IInv, TypeOK, Kinds
        <4> QED BY <1>3, <2>2, <3>1, <4>1, <4>2 DEF IInv, FloorBounds
      <3> QED BY <1>4, <2>5, <3>2, <3>3, <3>4 DEF IInv
    <2> QED BY <2>6, <2>7
  <1> QED BY <1>5, <1>6

LEMMA FinishStep ==
  ASSUME ConstantsAssumption, IInv, NEW w \in Started, Finish(w)
  PROVE  IInv'
  <1> USE DEF Started
  <1> DEFINE f == [work EXCEPT ![w].phase = "finished"]
  <1>1. /\ w \in DOMAIN work /\ work[w].phase = "applied"
        /\ work[w] \in Acquisition /\ work \in [DOMAIN work -> Acquisition]
    BY DEF Finish, IInv, TypeOK
  <1>2. /\ f \in [DOMAIN work -> Acquisition] /\ DOMAIN f = DOMAIN work
        /\ \A i \in DOMAIN work : i # w => f[i] = work[i]
        /\ f[w].kind = work[w].kind /\ f[w].callers = work[w].callers
        /\ f[w].base = work[w].base /\ f[w].phase = "finished"
        /\ f[w].code = work[w].code /\ f[w].ev = work[w].ev
    BY <1>1 DEF Acquisition
  <1>3. /\ work' = Collected(f)
        /\ inflight' = [k \in Kinds |-> IF inflight[k] = w THEN 0 ELSE inflight[k]]
        /\ answer' = NoAnswer
        /\ UNCHANGED <<now, revokedAt, nextId, cache, call, floor>>
    BY DEF Finish
  <1> HIDE DEF f
  <1>4. /\ DOMAIN work' \subseteq DOMAIN work
        /\ \A i \in DOMAIN work : f[i].phase # "finished" \/ f[i].callers # {} => i \in DOMAIN work'
        /\ \A i \in DOMAIN work' : work'[i] = f[i]
        /\ work' \in [DOMAIN work' -> Acquisition]
    BY <1>2, <1>3, CollectedFacts, CollectedType
  <1>5. \A k \in Kinds : inflight'[k] # 0 =>
          /\ inflight'[k] = inflight[k] /\ inflight[k] # w
          /\ inflight[k] \in DOMAIN work' /\ work'[inflight[k]] = work[inflight[k]]
    BY <1>2, <1>3, <1>4 DEF IInv, TypeOK, MapRefs
  <1>6. TypeOK'
    BY <1>3, <1>4, <1>5, SilentAnswer DEF IInv, TypeOK
  <1>7. CallRefs'
    <2> SUFFICES ASSUME NEW c \in Callers, call[c].phase # "idle"
                 PROVE  /\ call[c].w \in DOMAIN work'
                        /\ work'[call[c].w].callers = work[call[c].w].callers
                        /\ work'[call[c].w].kind = work[call[c].w].kind
      BY <1>3 DEF IInv, CallRefs
    <2>1. call[c].w \in DOMAIN work /\ work[call[c].w].callers # {}
      BY DEF IInv, CallRefs
    <2> QED BY <1>2, <1>4, <2>1
  <1>8. MapRefs'
    BY <1>5 DEF IInv, MapRefs
  <1>9. EvidenceOrigin'
    BY <1>2, <1>4 DEF IInv, EvidenceOrigin
  <1>10. FloorBounds'
    BY <1>3, <1>5 DEF IInv, FloorBounds, Kinds
  <1>11. NoOrphanWork'
    BY <1>2, <1>4 DEF IInv, NoOrphanWork, Running
  <1>12. ZeroTTLPrivate' /\ FreshPerCall'
    BY <1>3, SilentAnswer DEF IInv, ZeroTTLPrivate
  <1> QED BY <1>6, <1>7, <1>8, <1>9, <1>10, <1>11, <1>12 DEF IInv
-----------------------------------------------------------------------------
LEMMA NewCallType ==
  ASSUME TypeOK, NEW k \in Kinds, NEW w \in Nat, NEW mine \in SUBSET Nat, NEW peer \in Peers,
         NEW timeout \in Nat
  PROVE  /\ NewCall(k, w, mine, peer, timeout) \in Invocation
         /\ NewCall(k, w, mine, peer, timeout).phase = "wait"
         /\ NewCall(k, w, mine, peer, timeout).kind = k
         /\ NewCall(k, w, mine, peer, timeout).w = w
         /\ NewCall(k, w, mine, peer, timeout).settled = FinishedIds
         /\ NewCall(k, w, mine, peer, timeout).until = now + timeout
         /\ NewCall(k, w, mine, peer, timeout).timeout = timeout
         /\ FinishedIds \subseteq 1..(nextId - 1)
         /\ \A i \in Started : work[i].phase # "finished" => i \notin FinishedIds
  <1>1. FinishedIds \subseteq 1..(nextId - 1)
    BY DEF FinishedIds
  <1>2. FinishedIds \in SUBSET Nat
    BY <1>1 DEF TypeOK
  <1>3. \A i \in Started : work[i].phase # "finished" => i \notin FinishedIds
    BY DEF FinishedIds
  <1>4. now + timeout \in Nat
    BY DEF TypeOK
  <1> HIDE DEF FinishedIds
  <1> QED BY <1>1, <1>2, <1>3, <1>4 DEF NewCall, Invocation

LEMMA JoinStep ==
  ASSUME ConstantsAssumption, IInv, NEW c \in Callers, NEW k \in Kinds, NEW peer \in Peers, NEW timeout \in Nat,
         call[c].phase = "idle", Join(c, k, peer, timeout),
         cache' \in {cache, NoEvidence}, answer' = NoAnswer,
         UNCHANGED <<now, revokedAt, floor>>
  PROVE  IInv'
  <1> USE DEF Started
  <1> DEFINE w == inflight[k]
             n == NewCall(k, w, {}, peer, timeout)
  <1>1. /\ w \in DOMAIN work /\ w # 0 /\ w \in Nat
        /\ work[w] \in Acquisition /\ work \in [DOMAIN work -> Acquisition]
        /\ work[w].kind = k /\ work[w].phase # "finished"
    BY DEF Join, IInv, TypeOK, MapRefs
  <1>2. /\ work' = [work EXCEPT ![w].callers = @ \cup {c}]
        /\ call' = [call EXCEPT ![c] = n]
        /\ UNCHANGED <<nextId, inflight>>
    BY DEF Join
  <1>3. /\ n \in Invocation /\ n.phase = "wait" /\ n.kind = k /\ n.w = w
        /\ n.settled \subseteq 1..(nextId - 1) /\ w \notin n.settled
    BY <1>1, NewCallType DEF IInv
  <1> HIDE DEF n, w
  <1>4. /\ work' \in [DOMAIN work -> Acquisition]
        /\ \A i \in DOMAIN work : i # w => work'[i] = work[i]
        /\ work'[w].kind = work[w].kind
        /\ work'[w].callers = work[w].callers \cup {c}
        /\ work'[w].base = work[w].base /\ work'[w].phase = work[w].phase
        /\ work'[w].code = work[w].code /\ work'[w].ev = work[w].ev
        /\ work'[w].aborted = work[w].aborted
    BY <1>1, <1>2 DEF Acquisition
  <1>5. /\ call' \in [Callers -> Invocation] /\ call'[c] = n
        /\ \A d \in Callers : d # c => call'[d] = call[d]
    BY <1>2, <1>3 DEF IInv, TypeOK
  <1>6. TypeOK'
    BY <1>2, <1>4, <1>5, SilentAnswer, NoEvidenceType DEF IInv, TypeOK
  <1>7. CallRefs'
    <2>1. \A d \in Callers : d # c /\ call[d].phase = "own" => call[d].w # w
      BY <1>1 DEF IInv, CallRefs, Kinds
    <2> QED BY <1>1, <1>2, <1>3, <1>4, <1>5, <2>1 DEF IInv, CallRefs
  <1>8. MapRefs'
    BY <1>2, <1>4 DEF IInv, TypeOK, MapRefs
  <1>9. EvidenceOrigin'
    BY <1>4 DEF IInv, EvidenceOrigin
  <1>10. FloorBounds'
    BY <1>2, <1>4 DEF IInv, TypeOK, FloorBounds, Kinds
  <1>11. NoOrphanWork'
    BY <1>4 DEF IInv, NoOrphanWork
  <1>12. ZeroTTLPrivate' /\ FreshPerCall'
    BY SilentAnswer DEF IInv, ZeroTTLPrivate
  <1> QED BY <1>6, <1>7, <1>8, <1>9, <1>10, <1>11, <1>12 DEF IInv

LEMMA StartStep ==
  ASSUME ConstantsAssumption, IInv, NEW c \in Callers, NEW k \in Kinds, NEW peer \in Peers, NEW timeout \in Nat,
         NEW base \in Evidence,
         k = "status" => base.ttl > 0 /\ base.src >= floor,
         call[c].phase = "idle", Start(c, k, base, peer, timeout),
         cache' \in {cache, NoEvidence}, answer' = NoAnswer,
         UNCHANGED <<now, revokedAt, floor>>
  PROVE  IInv'
  <1> USE DEF Started
  <1> DEFINE r == NewWork(k, base, {c}, Budget, now + Budget)
             n == NewCall(k, nextId, {nextId}, peer, timeout)
  <1>1. /\ nextId \in Nat \ {0} /\ nextId' = nextId + 1
        /\ work' = WithWork(nextId, r)
        /\ inflight' = Registered(k, nextId)
        /\ call' = [call EXCEPT ![c] = n]
        /\ DOMAIN work \subseteq 1..(nextId - 1)
        /\ work \in [DOMAIN work -> Acquisition]
    BY DEF Start, IInv, TypeOK
  <1>2. /\ n \in Invocation /\ n.phase = "wait" /\ n.kind = k /\ n.w = nextId
        /\ n.settled \subseteq 1..(nextId - 1)
    BY <1>1, NewCallType DEF IInv
  <1>3. /\ r \in Acquisition /\ r.kind = k /\ r.phase = "run" /\ r.callers = {c}
        /\ r.base = base /\ r.code = "none"
    <2>1. now + Budget \in Nat /\ now \in Nat /\ Budget \in Nat
      BY DEF ConstantsAssumption, IInv, TypeOK
    <2> QED BY <2>1, NoEvidenceType DEF NewWork, Acquisition, Running, Codes
  <1> HIDE DEF r, n
  <1>4. /\ DOMAIN work' = DOMAIN work \cup {nextId}
        /\ work'[nextId] = r
        /\ \A i \in DOMAIN work : i # nextId /\ work'[i] = work[i]
        /\ work' \in [DOMAIN work' -> Acquisition]
    BY <1>1, <1>3 DEF WithWork
  <1>5. /\ call' \in [Callers -> Invocation] /\ call'[c] = n
        /\ \A d \in Callers : d # c => call'[d] = call[d]
    BY <1>1, <1>2 DEF IInv, TypeOK
  <1>6. /\ inflight' \in [Kinds -> DOMAIN work' \cup {0}]
        /\ inflight'[k] = nextId
        /\ \A j \in Kinds : j # k => inflight'[j] \in {0, inflight[j]}
    BY <1>1, <1>4 DEF Registered, IInv, TypeOK, Kinds
  <1>7. TypeOK'
    BY <1>1, <1>4, <1>5, <1>6, SilentAnswer, NoEvidenceType DEF IInv, TypeOK
  <1>8. CallRefs'
    <2> SUFFICES ASSUME NEW d \in Callers, call'[d].phase # "idle"
                 PROVE  /\ call'[d].w \in DOMAIN work'
                        /\ d \in work'[call'[d].w].callers
                        /\ call'[d].w \notin call'[d].settled
                        /\ call'[d].settled \subseteq 1..(nextId' - 1)
                        /\ call'[d].phase = "wait" => work'[call'[d].w].kind = call'[d].kind
                        /\ call'[d].phase = "own" => /\ work'[call'[d].w].kind = "own"
                                                     /\ work'[call'[d].w].callers = {d}
                                                     /\ call'[d].w \in call'[d].mine
      BY DEF CallRefs
    <2>1. CASE d = c
      BY <1>1, <1>2, <1>3, <1>4, <1>5, <2>1
    <2>2. CASE d # c
      <3>1. call'[d] = call[d] /\ call[d].w \in DOMAIN work
            /\ call[d].settled \subseteq 1..(nextId - 1)
        BY <1>5, <2>2 DEF IInv, CallRefs
      <3>2. call[d].settled \subseteq 1..(nextId' - 1)
        BY <1>1, <3>1
      <3> QED BY <1>4, <2>2, <3>1, <3>2 DEF IInv, CallRefs
    <2> QED BY <2>1, <2>2
  <1>9. MapRefs'
    BY <1>3, <1>4, <1>6 DEF IInv, TypeOK, MapRefs
  <1>10. EvidenceOrigin'
    BY <1>3, <1>4 DEF IInv, EvidenceOrigin
  <1>11. FloorBounds'
    <2>1. nextId >= floor /\ floor \in Nat
      BY DEF IInv, FloorBounds, TypeOK
    <2>2. \A j \in Kinds : inflight[j] # 0 => work'[inflight[j]] = work[inflight[j]]
      BY <1>4 DEF IInv, TypeOK
    <2>3. floor' = floor /\ floor' <= nextId'
      BY <1>1, <2>1
    <2>4. cache' # NoEvidence => cache'.src >= floor' /\ cache'.ttl > 0
      BY DEF IInv, FloorBounds
    <2>5. inflight'["verify"] # 0 => inflight'["verify"] >= floor'
      BY <1>6, <2>1 DEF IInv, FloorBounds, Kinds
    <2>6. inflight'["refresh"] # 0 => inflight'["refresh"] >= floor'
      BY <1>6, <2>1 DEF IInv, FloorBounds, Kinds
    <2>7. inflight'["status"] # 0 => work'[inflight'["status"]].base.src >= floor'
      BY <1>3, <1>4, <1>6, <2>2 DEF IInv, FloorBounds, Kinds
    <2> QED BY <2>3, <2>4, <2>5, <2>6, <2>7 DEF FloorBounds
  <1>12. NoOrphanWork'
    BY <1>3, <1>4 DEF IInv, NoOrphanWork
  <1>13. ZeroTTLPrivate' /\ FreshPerCall'
    BY SilentAnswer DEF IInv, ZeroTTLPrivate
  <1> QED BY <1>7, <1>8, <1>9, <1>10, <1>11, <1>12, <1>13 DEF IInv

LEMMA CallSteps ==
  ASSUME ConstantsAssumption, IInv, NEW c \in Callers,
         VerifyCached(c) \/ VerifyCold(c) \/ Refresh(c)
  PROVE  IInv'
  <1>1. now \in Nat /\ cache \in Evidence
    BY DEF IInv, TypeOK
  <1>2. CASE VerifyCached(c)
    <2>1. PICK peer \in PeerChoices \ {"mtls"}, timeout \in Timeouts :
            Join(c, "status", peer, timeout) \/ Start(c, "status", CacheGet, peer, timeout)
      BY <1>2 DEF VerifyCached
    <2>2. CacheGet = cache /\ cache # NoEvidence
      BY <1>2 DEF VerifyCached, CacheGet
    <2>3. cache.ttl > 0 /\ cache.src >= floor
      BY <2>2 DEF IInv, FloorBounds
    <2> QED
      BY <1>1, <1>2, <2>1, <2>2, <2>3, JoinStep, StartStep
      DEF VerifyCached, ConstantsAssumption, Kinds
  <1>3. CASE VerifyCold(c)
    <2>1. PICK peer \in PeerChoices, timeout \in Timeouts :
            Join(c, "verify", peer, timeout) \/ Start(c, "verify", NoEvidence, peer, timeout)
      BY <1>3 DEF VerifyCold
    <2> QED
      BY <1>3, <2>1, JoinStep, StartStep, NoEvidenceType
      DEF VerifyCold, ConstantsAssumption, Kinds
  <1>4. CASE Refresh(c)
    <2>1. PICK peer \in PeerChoices, timeout \in Timeouts :
            Join(c, "refresh", peer, timeout) \/ Start(c, "refresh", NoEvidence, peer, timeout)
      BY <1>4 DEF Refresh
    <2> QED
      BY <1>4, <2>1, JoinStep, StartStep, NoEvidenceType
      DEF Refresh, ConstantsAssumption, Kinds
  <1> QED BY <1>2, <1>3, <1>4
-----------------------------------------------------------------------------
(* A call ends: it leaves the acquisition it awaited, which is collected     *)
(* when it was the last waiter of finished work.                             *)
LEMMA LeaveFrame ==
  ASSUME IInv, NEW c \in Callers, NEW w \in Started, w = call[c].w,
         call[c].phase # "idle",
         NEW f \in [Started -> Acquisition],
         work' = Collected(f),
         \A i \in Started : i # w => f[i] = work[i],
         f[w].kind = work[w].kind, f[w].base = work[w].base,
         f[w].code = work[w].code, f[w].ev = work[w].ev,
         f[w].callers = work[w].callers \ {c},
         f[w].phase = work[w].phase \/ (f[w].phase = "finished" /\ work[w].kind = "own"),
         f[w].phase \in Running /\ f[w].callers = {} => f[w].aborted,
         call' = [call EXCEPT ![c] = Idle],
         cache' \in {cache, NoEvidence}, answer' \in Answer,
         UNCHANGED <<now, revokedAt, nextId, inflight, floor>>
  PROVE  /\ TypeOK' /\ CallRefs' /\ MapRefs' /\ EvidenceOrigin'
         /\ FloorBounds' /\ NoOrphanWork'
  <1> USE DEF Started
  <1>1. /\ DOMAIN f = DOMAIN work
        /\ DOMAIN work' \subseteq DOMAIN work
        /\ \A i \in DOMAIN work : f[i].phase # "finished" \/ f[i].callers # {} => i \in DOMAIN work'
        /\ \A i \in DOMAIN work' : work'[i] = f[i]
        /\ work' \in [DOMAIN work' -> Acquisition]
    BY SMTT(20), CollectedFacts, CollectedType
  <1>2. \A k \in Kinds : inflight[k] # 0 =>
          /\ inflight[k] \in DOMAIN work'
          /\ work'[inflight[k]].kind = k
          /\ work'[inflight[k]].phase # "finished"
          /\ work'[inflight[k]].base = work[inflight[k]].base
    <2> SUFFICES ASSUME NEW k \in Kinds, inflight[k] # 0
                 PROVE  /\ inflight[k] \in DOMAIN work'
                        /\ work'[inflight[k]].kind = k
                        /\ work'[inflight[k]].phase # "finished"
                        /\ work'[inflight[k]].base = work[inflight[k]].base
      OBVIOUS
    <2>1. /\ inflight[k] \in DOMAIN work /\ work[inflight[k]].kind = k
          /\ work[inflight[k]].phase # "finished"
      BY SMTT(20) DEF IInv, TypeOK, MapRefs
    <2>2. f[inflight[k]].phase # "finished"
      BY SMTT(20), <2>1 DEF Kinds
    <2> QED BY <1>1, <2>1, <2>2
  <1>3. /\ call' \in [Callers -> Invocation] /\ call'[c] = Idle
        /\ \A d \in Callers : d # c => call'[d] = call[d]
    <2>1. Idle \in Invocation
      BY DEF Idle, Invocation, Kinds, Peers
    <2> QED BY <2>1 DEF IInv, TypeOK
  <1>4. TypeOK'
    BY <1>1, <1>2, <1>3, NoEvidenceType DEF IInv, TypeOK
  <1>5. CallRefs'
    <2> SUFFICES ASSUME NEW d \in Callers, call'[d].phase # "idle"
                 PROVE  /\ call'[d].w \in DOMAIN work'
                        /\ d \in work'[call'[d].w].callers
                        /\ call'[d].w \notin call'[d].settled
                        /\ call'[d].settled \subseteq 1..(nextId' - 1)
                        /\ call'[d].phase = "wait" =>
                             work'[call'[d].w].kind = call'[d].kind
                        /\ call'[d].phase = "own" =>
                             /\ work'[call'[d].w].kind = "own"
                             /\ work'[call'[d].w].callers = {d}
                             /\ call'[d].w \in call'[d].mine
      BY Zenon DEF CallRefs
    <2>0. d # c /\ call'[d] = call[d] /\ call[d].phase # "idle" /\ nextId' = nextId
      BY <1>3, Zenon DEF Idle
    <2>1. /\ call[d].w \in DOMAIN work /\ d \in work[call[d].w].callers
          /\ call[d].w \notin call[d].settled
          /\ call[d].settled \subseteq 1..(nextId - 1)
          /\ call[d].phase = "wait" => work[call[d].w].kind = call[d].kind
          /\ call[d].phase = "own" => /\ work[call[d].w].kind = "own"
                                      /\ work[call[d].w].callers = {d}
                                      /\ call[d].w \in call[d].mine
      BY <2>0 DEF IInv, CallRefs
    <2>2. /\ d \in f[call[d].w].callers
          /\ f[call[d].w].kind = work[call[d].w].kind
          /\ f[call[d].w].callers \subseteq work[call[d].w].callers
      BY <2>0, <2>1
    <2>3. call[d].w \in DOMAIN work' /\ work'[call[d].w] = f[call[d].w]
      BY <1>1, <2>1, <2>2, Zenon
    <2>4. work[call[d].w].callers = {d} => f[call[d].w].callers = {d}
      BY <2>2, SMTT(20)
    <2>5. call[d].phase = "wait" \/ call[d].phase = "own" =>
            work'[call[d].w].kind = work[call[d].w].kind
      BY <2>2, <2>3, Zenon
    <2>6. call[d].phase = "own" => work'[call[d].w].callers = {d}
      BY <2>1, <2>3, <2>4, Zenon
    <2>7. call'[d].w \in DOMAIN work' /\ d \in work'[call'[d].w].callers
      BY <2>0, <2>2, <2>3, Zenon
    <2>8. call'[d].phase = "wait" => work'[call'[d].w].kind = call'[d].kind
      BY <2>0, <2>1, <2>5, SMTT(20)
    <2>9. call'[d].phase = "own" => /\ work'[call'[d].w].kind = "own"
                                   /\ work'[call'[d].w].callers = {d}
                                   /\ call'[d].w \in call'[d].mine
      BY <2>0, <2>1, <2>5, <2>6
    <2>10. /\ call'[d].w \notin call'[d].settled
           /\ call'[d].settled \subseteq 1..(nextId' - 1)
      BY <2>0, <2>1
    <2> QED BY <2>7, <2>8, <2>9, <2>10
  <1>6. MapRefs'
    BY <1>2 DEF MapRefs
  <1>7. EvidenceOrigin'
    BY SMTT(20), <1>1 DEF IInv, EvidenceOrigin
  <1>8. FloorBounds'
    BY <1>2 DEF IInv, FloorBounds, Kinds
  <1>9. NoOrphanWork'
    BY <1>1 DEF IInv, NoOrphanWork, Running
  <1> QED BY <1>4, <1>5, <1>6, <1>7, <1>8, <1>9

(* What Return hands to the caller satisfies the properties of answers.      *)
LEMMA ReturnFacts ==
  ASSUME IInv, NEW c \in Callers, call[c].phase # "idle",
         Return(c, work[call[c].w]),
         call[c].phase = "wait" => ~NeedsOwn(c),
         UNCHANGED <<now, revokedAt>>
  PROVE  /\ call' = [call EXCEPT ![c] = Idle]
         /\ cache' \in {cache, NoEvidence} /\ answer' \in Answer
         /\ ZeroTTLPrivate' /\ FreshPerCall'
  <1> USE DEF Started
  <1> DEFINE w == call[c].w
             code == IF work[w].code = "ok" THEN ReturnCode(c, work[w].ev) ELSE work[w].code
  <1>1. /\ w \in DOMAIN work /\ work[w] \in Acquisition /\ w \notin call[c].settled
        /\ call[c] \in Invocation
    BY DEF IInv, TypeOK, CallRefs
  <1>2. /\ call' = [call EXCEPT ![c] = Idle]
        /\ answer' = Answered(c, code, work[w].ev, FALSE)
        /\ cache' = IF work[w].code = "ok" /\ code = "stale" THEN EvictIfSame(work[w].ev) ELSE cache
    BY DEF Return
  <1>3. code \in Codes /\ work[w].ev \in Evidence /\ (code = "ok" => work[w].code = "ok")
    BY <1>1 DEF ReturnCode, Codes, Acquisition
  <1>4. cache' \in {cache, NoEvidence}
    BY <1>2, <1>3, CacheTypes DEF IInv, TypeOK
  <1> HIDE DEF code
  <1>5. /\ answer' \in Answer /\ answer'.code = code /\ answer'.ev = work[w].ev
        /\ answer'.mine = call[c].mine /\ answer'.settled = call[c].settled
    <2>1. work[w].budget \in Nat
      BY <1>1 DEF Acquisition
    <2> QED BY <1>1, <1>2, <1>3, <2>1 DEF Answered, Answer, Invocation
  <1>6. FreshPerCall'
    BY <1>1, <1>3, <1>5 DEF IInv, EvidenceOrigin, FreshPerCall
  <1>7. ASSUME code = "ok", work[w].ev.ttl = 0 PROVE work[w].ev.src \in call[c].mine
    <2>1. work[w].code = "ok" /\ work[w].kind # "status" /\ work[w].ev.src = w
      <3>1. work[w].code = "ok"
        BY <1>3, <1>7
      <3>2. /\ work[w].kind = "status" => work[w].base.ttl > 0 /\ work[w].ev.ttl = work[w].base.ttl
            /\ work[w].kind # "status" => work[w].ev.src = w
        BY <1>1, <3>1 DEF IInv, EvidenceOrigin
      <3>3. ~(0 > 0)
        OBVIOUS
      <3> QED BY <1>7, <3>1, <3>2, <3>3
    <2>2. CASE call[c].phase = "own"
      BY <2>1, <2>2 DEF IInv, CallRefs
    <2>3. CASE call[c].phase = "wait"
      BY <1>7, <2>1, <2>3 DEF NeedsOwn
    <2> QED BY <1>1, <2>2, <2>3 DEF Invocation
  <1>8. ZeroTTLPrivate'
    BY <1>4, <1>5, <1>7 DEF IInv, ZeroTTLPrivate
  <1> QED BY <1>2, <1>4, <1>5, <1>6, <1>8, Zenon

LEMMA ReturnSteps ==
  ASSUME ConstantsAssumption, IInv, NEW c \in Callers,
         Deliver(c) \/ OwnDone(c) \/ CallerLeaves(c)
  PROVE  IInv'
  <1> USE DEF Started
  <1> DEFINE w == call[c].w
  <1>1. /\ call[c].phase \in {"wait", "own"} /\ call[c].phase # "idle"
        /\ UNCHANGED <<now, revokedAt, nextId, inflight, floor>>
    BY Zenon DEF Deliver, OwnDone, CallerLeaves, Awaited
  <1>2. /\ w \in DOMAIN work /\ work[w] \in Acquisition
        /\ work \in [DOMAIN work -> Acquisition]
        /\ call[c].phase = "own" => work[w].kind = "own" /\ work[w].callers \ {c} = {}
    BY <1>1 DEF IInv, TypeOK, CallRefs
  <1>3. CASE Deliver(c)
    <2>1. /\ call' = [call EXCEPT ![c] = Idle]
          /\ cache' \in {cache, NoEvidence} /\ answer' \in Answer
          /\ ZeroTTLPrivate' /\ FreshPerCall'
      BY <1>1, <1>3, ReturnFacts DEF Deliver
    <2> DEFINE f == [work EXCEPT ![w].callers = @ \ {c}]
    <2>2. /\ f \in [DOMAIN work -> Acquisition]
          /\ \A i \in DOMAIN work : i # w => f[i] = work[i]
          /\ f[w].kind = work[w].kind /\ f[w].base = work[w].base
          /\ f[w].code = work[w].code /\ f[w].ev = work[w].ev
          /\ f[w].callers = work[w].callers \ {c} /\ f[w].phase = work[w].phase
      BY <1>2 DEF Acquisition
    <2>3. work' = Collected(f) /\ work[w].phase = "finished"
      BY <1>3 DEF Deliver, Awaited
    <2> HIDE DEF f
    <2>4. /\ TypeOK' /\ CallRefs' /\ MapRefs' /\ EvidenceOrigin'
          /\ FloorBounds' /\ NoOrphanWork'
      BY <1>1, <1>2, <2>1, <2>2, <2>3, LeaveFrame, Zenon DEF Running
    <2> QED BY <2>1, <2>4 DEF IInv
  <1>4. CASE OwnDone(c)
    <2>1. /\ call' = [call EXCEPT ![c] = Idle]
          /\ cache' \in {cache, NoEvidence} /\ answer' \in Answer
          /\ ZeroTTLPrivate' /\ FreshPerCall'
      BY <1>1, <1>4, ReturnFacts DEF OwnDone
    <2> DEFINE f == [work EXCEPT ![w].phase = "finished", ![w].callers = {}]
    <2>2. /\ f \in [DOMAIN work -> Acquisition]
          /\ \A i \in DOMAIN work : i # w => f[i] = work[i]
          /\ f[w].kind = work[w].kind /\ f[w].base = work[w].base
          /\ f[w].code = work[w].code /\ f[w].ev = work[w].ev
          /\ f[w].callers = {} /\ f[w].phase = "finished"
      BY <1>2, Zenon DEF Acquisition
    <2>3. work' = Collected(f) /\ call[c].phase = "own"
      BY <1>4 DEF OwnDone
    <2> HIDE DEF f
    <2>4. f[w].callers = work[w].callers \ {c} /\ work[w].kind = "own" /\ f[w].phase \notin Running
      BY <1>2, <2>2, <2>3 DEF Running
    <2>5. /\ TypeOK' /\ CallRefs' /\ MapRefs' /\ EvidenceOrigin'
          /\ FloorBounds' /\ NoOrphanWork'
      BY <1>1, <1>2, <2>1, <2>2, <2>3, <2>4, LeaveFrame, Zenon
    <2> QED BY <2>1, <2>5 DEF IInv
  <1>5. CASE CallerLeaves(c)
    <2>1. /\ call' = [call EXCEPT ![c] = Idle] /\ cache' = cache
          /\ answer' = Answered(c, "cancelled", NoEvidence, TRUE)
      BY <1>5 DEF CallerLeaves
    <2>2. answer' \in Answer /\ answer'.code = "cancelled"
      <3>1. call[c] \in Invocation
        BY DEF IInv, TypeOK
      <3>2. work[w].budget \in Nat
        BY <1>2 DEF Acquisition
      <3> QED BY <2>1, <3>1, <3>2, NoEvidenceType DEF Answered, Answer, Invocation, Codes
    <2>3. ZeroTTLPrivate' /\ FreshPerCall'
      BY <2>1, <2>2, Zenon DEF IInv, ZeroTTLPrivate, FreshPerCall
    <2>4. CASE call[c].phase = "own"
      <3> DEFINE f == [work EXCEPT ![w].phase = "finished", ![w].callers = {}]
      <3>1. /\ f \in [DOMAIN work -> Acquisition]
            /\ \A i \in DOMAIN work : i # w => f[i] = work[i]
            /\ f[w].kind = work[w].kind /\ f[w].base = work[w].base
            /\ f[w].code = work[w].code /\ f[w].ev = work[w].ev
            /\ f[w].callers = {} /\ f[w].phase = "finished"
        BY <1>2, Zenon DEF Acquisition
      <3>2. work' = Collected(f)
        BY <1>5, <2>4 DEF CallerLeaves
      <3> HIDE DEF f
      <3>3. f[w].callers = work[w].callers \ {c} /\ work[w].kind = "own" /\ f[w].phase \notin Running
        BY <1>2, <2>4, <3>1 DEF Running
      <3>4. /\ TypeOK' /\ CallRefs' /\ MapRefs' /\ EvidenceOrigin'
            /\ FloorBounds' /\ NoOrphanWork'
        BY <1>1, <1>2, <2>1, <2>2, <3>1, <3>2, <3>3, LeaveFrame, Zenon
      <3> QED BY <2>3, <3>4 DEF IInv
    <2>5. CASE call[c].phase # "own"
      <3> DEFINE last == work[w].callers = {c} /\ work[w].phase # "finished"
                 f == [work EXCEPT ![w].callers = @ \ {c}, ![w].aborted = @ \/ last]
      <3>1. /\ f \in [DOMAIN work -> Acquisition]
            /\ \A i \in DOMAIN work : i # w => f[i] = work[i]
            /\ f[w].kind = work[w].kind /\ f[w].base = work[w].base
            /\ f[w].code = work[w].code /\ f[w].ev = work[w].ev
            /\ f[w].callers = work[w].callers \ {c} /\ f[w].phase = work[w].phase
            /\ f[w].aborted = (work[w].aborted \/ last)
        BY <1>2, Zenon DEF Acquisition
      <3>2. work' = Collected(f)
        BY <1>5, <2>5 DEF CallerLeaves, LastToLeave
      <3>3. f[w].phase \in Running /\ f[w].callers = {} => f[w].aborted
        <4>1. c \in work[w].callers
          BY <1>1, Zenon DEF IInv, CallRefs
        <4> QED BY <3>1, <4>1, Zenon DEF Running
      <3> HIDE DEF f, last
      <3>a. /\ f \in [DOMAIN work -> Acquisition]
            /\ \A i \in DOMAIN work : i # w => f[i] = work[i]
            /\ f[w].kind = work[w].kind /\ f[w].base = work[w].base
            /\ f[w].code = work[w].code /\ f[w].ev = work[w].ev
            /\ f[w].callers = work[w].callers \ {c} /\ f[w].phase = work[w].phase
        BY <3>1
      <3>4. /\ TypeOK' /\ CallRefs' /\ MapRefs' /\ EvidenceOrigin'
            /\ FloorBounds' /\ NoOrphanWork'
        BY <1>1, <1>2, <2>1, <2>2, <3>a, <3>2, <3>3, LeaveFrame, Zenon
      <3> QED BY <2>3, <3>4 DEF IInv
    <2> QED BY <2>4, <2>5
  <1> QED BY <1>3, <1>4, <1>5

LEMMA StartOwnStep ==
  ASSUME ConstantsAssumption, IInv, NEW c \in Callers, StartOwn(c)
  PROVE  IInv'
  <1> USE DEF Started
  <1> DEFINE w == call[c].w
             r == NewWork("own", NoEvidence, {c}, call[c].timeout, call[c].until)
             f == [WithWork(nextId, r) EXCEPT ![w].callers = @ \ {c}]
             n == [call[c] EXCEPT !.phase = "own", !.w = nextId, !.mine = @ \cup {nextId}]
  <1>1. /\ call[c].phase = "wait" /\ work[w].phase = "finished"
        /\ nextId \in Nat \ {0} /\ nextId' = nextId + 1
        /\ work' = Collected(f) /\ call' = [call EXCEPT ![c] = n]
        /\ answer' = NoAnswer
        /\ UNCHANGED <<now, revokedAt, inflight, cache, floor>>
        /\ DOMAIN work \subseteq 1..(nextId - 1)
        /\ work \in [DOMAIN work -> Acquisition]
        /\ call \in [Callers -> Invocation]
    BY Zenon DEF StartOwn, Awaited, IInv, TypeOK
  <1>2. /\ w \in DOMAIN work /\ c \in work[w].callers /\ w # nextId
        /\ work[w] \in Acquisition /\ call[c] \in Invocation
        /\ call[c].settled \subseteq 1..(nextId - 1)
    BY <1>1 DEF IInv, CallRefs
  <1>3. /\ r \in Acquisition /\ r.kind = "own" /\ r.phase = "run" /\ r.callers = {c}
        /\ r.code = "none"
    <2>1. now \in Nat /\ call[c].timeout \in Nat /\ call[c].until \in Nat
      BY <1>2 DEF Invocation, IInv, TypeOK
    <2> QED BY <2>1, NoEvidenceType DEF NewWork, Acquisition, Running, Codes
  <1>4. /\ n \in Invocation /\ n.phase = "own" /\ n.w = nextId /\ nextId \in n.mine
        /\ n.settled = call[c].settled
    BY <1>1, <1>2, Zenon DEF Invocation
  <1> HIDE DEF r, n
  <1> DEFINE g == WithWork(nextId, r)
  <1>a. /\ g \in [DOMAIN work \cup {nextId} -> Acquisition] /\ g[nextId] = r
        /\ \A i \in DOMAIN work : g[i] = work[i]
    BY <1>1, <1>2, <1>3 DEF WithWork
  <1>b. f = [g EXCEPT ![w].callers = @ \ {c}]
    OBVIOUS
  <1> HIDE DEF f, g
  <1>5. /\ DOMAIN f = DOMAIN work \cup {nextId} /\ f[nextId] = r
        /\ \A i \in DOMAIN work : i # w => f[i] = work[i]
        /\ f[w].callers = work[w].callers \ {c}
        /\ f[w].kind = work[w].kind /\ f[w].base = work[w].base
        /\ f[w].code = work[w].code /\ f[w].ev = work[w].ev
        /\ f[w].phase = work[w].phase
        /\ f \in [DOMAIN work \cup {nextId} -> Acquisition]
    BY <1>2, <1>a, <1>b DEF Acquisition
  <1>6. /\ DOMAIN work' \subseteq DOMAIN work \cup {nextId}
        /\ \A i \in DOMAIN f : f[i].phase # "finished" \/ f[i].callers # {} => i \in DOMAIN work'
        /\ \A i \in DOMAIN work' : work'[i] = f[i]
        /\ work' \in [DOMAIN work' -> Acquisition]
    BY <1>1, <1>5, CollectedFacts, CollectedType
  <1>7. nextId \in DOMAIN work' /\ work'[nextId] = r
    BY <1>3, <1>5, <1>6
  <1>8. \A k \in Kinds : inflight[k] # 0 =>
          inflight[k] \in DOMAIN work' /\ work'[inflight[k]] = work[inflight[k]]
    <2> SUFFICES ASSUME NEW k \in Kinds, inflight[k] # 0
                 PROVE  inflight[k] \in DOMAIN work' /\ work'[inflight[k]] = work[inflight[k]]
      OBVIOUS
    <2>1. inflight[k] \in DOMAIN work /\ work[inflight[k]].phase # "finished"
      BY DEF IInv, TypeOK, MapRefs
    <2>2. f[inflight[k]] = work[inflight[k]]
      BY <1>1, <1>5, <2>1
    <2> QED BY <1>5, <1>6, <2>1, <2>2
  <1>9. /\ call' \in [Callers -> Invocation] /\ call'[c] = n
        /\ \A d \in Callers : d # c => call'[d] = call[d]
    BY <1>1, <1>4
  <1>10. TypeOK'
    BY <1>1, <1>6, <1>8, <1>9, SilentAnswer DEF IInv, TypeOK
  <1>11. CallRefs'
    <2>1. ASSUME NEW d \in Callers, d # c, call[d].phase # "idle"
          PROVE  /\ call[d].w \in DOMAIN work'
                 /\ d \in work'[call[d].w].callers
                 /\ work'[call[d].w].callers \subseteq work[call[d].w].callers
                 /\ work'[call[d].w].kind = work[call[d].w].kind
                 /\ call[d].settled \subseteq 1..(nextId' - 1)
      <3>1. /\ call[d].w \in DOMAIN work /\ d \in work[call[d].w].callers
            /\ call[d].settled \subseteq 1..(nextId - 1)
        BY <2>1 DEF IInv, CallRefs
      <3>2. d \in f[call[d].w].callers
        BY <1>5, <2>1, <3>1
      <3>3. call[d].settled \subseteq 1..(nextId' - 1)
        BY <1>1, <3>1
      <3> QED BY <1>5, <1>6, <3>1, <3>2, <3>3
    <2>2. nextId \notin n.settled /\ n.settled \subseteq 1..(nextId' - 1)
      BY <1>1, <1>2, <1>4
    <2>3. ASSUME NEW d \in Callers, d # c
          PROVE  call'[d].phase # "idle" =>
                   /\ call'[d].w \in DOMAIN work'
                   /\ d \in work'[call'[d].w].callers
                   /\ call'[d].w \notin call'[d].settled
                   /\ call'[d].settled \subseteq 1..(nextId' - 1)
                   /\ call'[d].phase = "wait" => work'[call'[d].w].kind = call'[d].kind
                   /\ call'[d].phase = "own" => /\ work'[call'[d].w].kind = "own"
                                                /\ work'[call'[d].w].callers = {d}
                                                /\ call'[d].w \in call'[d].mine
      <3>1. CASE call[d].phase = "idle"
        BY <1>9, <2>3, <3>1
      <3>2. CASE call[d].phase # "idle"
        <4>1. /\ call[d].w \notin call[d].settled
              /\ call[d].phase = "wait" => work[call[d].w].kind = call[d].kind
              /\ call[d].phase = "own" => /\ work[call[d].w].kind = "own"
                                          /\ work[call[d].w].callers = {d}
                                          /\ call[d].w \in call[d].mine
          BY <3>2 DEF IInv, CallRefs
        <4>2. /\ call[d].w \in DOMAIN work'
              /\ d \in work'[call[d].w].callers
              /\ work'[call[d].w].callers \subseteq work[call[d].w].callers
              /\ work'[call[d].w].kind = work[call[d].w].kind
              /\ call[d].settled \subseteq 1..(nextId' - 1)
          BY <2>1, <2>3, <3>2
        <4>3. call'[d] = call[d]
          BY <1>9, <2>3
        <4> HIDE DEF w
        <4> QED BY <4>1, <4>2, <4>3
      <3> QED BY <3>1, <3>2
    <2> QED BY <1>3, <1>4, <1>7, <1>9, <2>2, <2>3, Zenon DEF CallRefs
  <1>12. MapRefs'
    BY <1>1, <1>8 DEF IInv, MapRefs
  <1>13. EvidenceOrigin'
    <2>1. ASSUME NEW i \in DOMAIN work', i # nextId
          PROVE  /\ i \in DOMAIN work /\ work'[i].kind = work[i].kind
                 /\ work'[i].base = work[i].base /\ work'[i].code = work[i].code
                 /\ work'[i].ev = work[i].ev
      BY <1>2, <1>5, <1>6, <2>1
    <2>2. /\ work'[nextId].kind = "own" /\ work'[nextId].code = "none"
      BY <1>3, <1>7
    <2> QED BY <2>1, <2>2 DEF IInv, EvidenceOrigin
  <1>14. FloorBounds'
    <2>1. floor' = floor /\ inflight' = inflight /\ cache' = cache /\ nextId < nextId'
      BY <1>1
    <2> QED BY <1>1, <1>8, <2>1 DEF IInv, TypeOK, FloorBounds, Kinds
  <1>15. NoOrphanWork'
    <2> SUFFICES ASSUME NEW i \in DOMAIN work', work'[i].phase \in Running,
                        work'[i].callers = {}
                 PROVE  work'[i].aborted
      BY DEF NoOrphanWork
    <2>1. i # nextId
      BY <1>3, <1>7
    <2>2. i # w
      BY <1>1, <1>5, <1>6 DEF Running
    <2>3. i \in DOMAIN work /\ work'[i] = work[i]
      BY <1>5, <1>6, <2>1, <2>2
    <2> QED BY <2>3 DEF IInv, NoOrphanWork
  <1>16. ZeroTTLPrivate' /\ FreshPerCall'
    BY <1>1, SilentAnswer DEF IInv, ZeroTTLPrivate
  <1> QED BY <1>10, <1>11, <1>12, <1>13, <1>14, <1>15, <1>16 DEF IInv

LEMMA OtherSteps ==
  ASSUME ConstantsAssumption, IInv,
         \/ \E c \in Callers : VerifyFromCache(c)
         \/ EvictDomain \/ CacheDrop \/ Revoke \/ Tick
  PROVE  IInv'
  <1> USE DEF Started
  <1>1. UNCHANGED <<nextId, work, call>> /\ now \in Nat /\ cache \in Evidence
    BY Zenon DEF VerifyFromCache, EvictDomain, CacheDrop, Revoke, Tick, IInv, TypeOK
  <1>2. CallRefs' /\ EvidenceOrigin' /\ NoOrphanWork'
    BY <1>1 DEF IInv, CallRefs, EvidenceOrigin, NoOrphanWork
  <1>3. ASSUME NEW c \in Callers, VerifyFromCache(c) PROVE IInv'
    <2>1. PICK peer \in PeerChoices :
            /\ CacheGet # NoEvidence
            /\ peer = "mtls" \/ StatusIsRecent(CacheGet)
            /\ answer' = [NoAnswer EXCEPT
                 !.code = IF peer = "pass" THEN "ok" ELSE "denied",
                 !.ev = CacheGet, !.settled = FinishedIds, !.budget = Budget]
            /\ UNCHANGED <<now, revokedAt, inflight, cache, floor>>
      BY <1>3, Zenon DEF VerifyFromCache
    <2>2. FinishedIds \in SUBSET Nat
      BY DEF FinishedIds, IInv, TypeOK
    <2>a. Budget \in Nat
      BY DEF ConstantsAssumption
    <2>3. CacheGet = cache
      BY <2>1 DEF CacheGet
    <2> HIDE DEF FinishedIds
    <2>4. /\ answer' \in Answer /\ answer'.kind = "verify" /\ answer'.ev = cache
          /\ answer'.code = "ok" => peer = "pass"
      BY <1>1, <2>1, <2>2, <2>3, <2>a, Zenon DEF NoAnswer, Answer, Codes, Kinds
    <2>5. FreshPerCall'
      BY <2>1, <2>4 DEF FreshPerCall, StatusIsRecent
    <2>6. ZeroTTLPrivate'
      BY <2>1, <2>3, <2>4 DEF IInv, ZeroTTLPrivate
    <2> QED
      BY <1>1, <1>2, <2>1, <2>4, <2>5, <2>6 DEF IInv, TypeOK, MapRefs, FloorBounds
  <1>4. CASE EvictDomain
    BY SMTT(20), <1>1, <1>2, <1>4, SilentAnswer, NoEvidenceType
    DEF EvictDomain, IInv, TypeOK, MapRefs, FloorBounds, Kinds
  <1>5. CASE CacheDrop
    BY <1>1, <1>2, <1>5, SilentAnswer, NoEvidenceType
    DEF CacheDrop, IInv, TypeOK, MapRefs, FloorBounds
  <1>6. ASSUME Revoke \/ Tick PROVE IInv'
    <2>1. /\ UNCHANGED <<nextId, work, inflight, cache, call, floor>>
          /\ answer' = NoAnswer
          /\ now' \in Nat /\ revokedAt' \in Nat \cup {Never}
      BY <1>1, <1>6 DEF Revoke, Tick, IInv, TypeOK
    <2>2. TypeOK' /\ MapRefs'
      BY <2>1, SilentAnswer DEF IInv, TypeOK, MapRefs
    <2>3. FloorBounds'
      BY <2>1 DEF IInv, FloorBounds
    <2>4. ZeroTTLPrivate' /\ FreshPerCall'
      BY <2>1, SilentAnswer DEF IInv, ZeroTTLPrivate
    <2> QED BY <1>2, <2>2, <2>3, <2>4 DEF IInv
  <1> QED BY <1>3, <1>4, <1>5, <1>6
-----------------------------------------------------------------------------
LEMMA StutterStep == ASSUME IInv, UNCHANGED vars PROVE IInv'
  <1>1. TypeOK'
    BY DEF vars, IInv, TypeOK, Started
  <1>2. CallRefs' /\ MapRefs'
    BY DEF vars, IInv, CallRefs, MapRefs, Started
  <1>3. EvidenceOrigin' /\ NoOrphanWork'
    BY DEF vars, IInv, EvidenceOrigin, NoOrphanWork, Started
  <1>4. FloorBounds' /\ ZeroTTLPrivate' /\ FreshPerCall'
    BY DEF vars, IInv, FloorBounds, ZeroTTLPrivate, FreshPerCall
  <1> QED BY <1>1, <1>2, <1>3, <1>4 DEF IInv

LEMMA NextIInv ==
  ASSUME ConstantsAssumption, IInv, [Next]_vars
  PROVE  IInv'
  <1>1. CASE UNCHANGED vars
    BY <1>1, StutterStep
  <1>2. ASSUME NEW c \in Callers, CallerStep(c) PROVE IInv'
    BY <1>2, CallSteps, ReturnSteps, StartOwnStep, OtherSteps DEF CallerStep
  <1>3. ASSUME NEW w \in Started, WorkStep(w) PROVE IInv'
    BY <1>3, WorkerSteps, ApplyStep, FinishStep DEF WorkStep
  <1>4. CASE EvictDomain \/ CacheDrop \/ Revoke \/ Tick
    BY <1>4, OtherSteps
  <1> QED BY <1>1, <1>2, <1>3, <1>4 DEF Next

(* The inductive invariant holds in every reachable state.                   *)
THEOREM Invariance == Spec => []IInv
  <1>1. Init => IInv
    BY InitIInv, ConstantsAssumption
  <1>2. IInv /\ [Next]_vars => IInv'
    BY NextIInv, ConstantsAssumption
  <1> QED BY <1>1, <1>2, PTL DEF Spec

(* Types, for every set of callers and every bound.                          *)
THEOREM TypeCorrect == Spec => []TypeOK
  <1>1. IInv => TypeOK
    BY DEF IInv
  <1> QED BY <1>1, Invariance, PTL

(* What startShared and evictDomain supersede never re-enters the cache.     *)
THEOREM SupersededStaysOutForever == Spec => []SupersededStaysOut
  <1>1. IInv => SupersededStaysOut
    BY DEF IInv, FloorBounds, SupersededStaysOut
  <1> QED BY <1>1, Invariance, PTL

(* verifyReusableIdentity never shares zero-TTL evidence.                    *)
THEOREM ZeroTTLNeverShared == Spec => []ZeroTTLPrivate
  <1>1. IInv => ZeroTTLPrivate
    BY DEF IInv
  <1> QED BY <1>1, Invariance, PTL

(* Coalescing never hands out work that finished before the call began.      *)
THEOREM AnswersAreFresh == Spec => []FreshPerCall
  <1>1. IInv => FreshPerCall
    BY DEF IInv
  <1> QED BY <1>1, Invariance, PTL

(* joinShared aborts the work its last caller leaves.                        *)
THEOREM OrphansAreAborted == Spec => []NoOrphanWork
  <1>1. IInv => NoOrphanWork
    BY DEF IInv
  <1> QED BY <1>1, Invariance, PTL

(* startShared never publishes the result of aborted work.                   *)
THEOREM CanceledStaysOut == Spec => CanceledNeverCached
  <1> DEFINE Step == \A w \in Started :
                       work[w].aborted /\ cache.by # w => cache'.by # w
  <1>1. ASSUME IInv, [Next]_vars PROVE [Step]_vars
    <2> SUFFICES ASSUME NEW w \in Started, work[w].aborted, cache.by # w
                 PROVE  cache'.by # w
      OBVIOUS
    <2>1. cache' \in {cache, NoEvidence} => cache'.by # w
      BY <1>1 DEF IInv, TypeOK, NoEvidence
    <2>2. now \in Nat /\ cache \in Evidence /\ \A v \in Started : work[v] \in Acquisition
      BY <1>1 DEF IInv, TypeOK
    <2>3. ASSUME NEW v \in Started, Apply(v) PROVE cache'.by # w
      <3>1. CASE Publishes(v)
        <4>1. v \in Started /\ v # w /\ work[v].ev.by = v
              /\ cache' \in {work[v].ev, NoEvidence}
          BY <1>1, <2>3, <3>1 DEF Apply, Publishes, CachePut, IInv, EvidenceOrigin
        <4> QED BY <2>1, <4>1
      <3>2. CASE ~Publishes(v)
        BY <2>1, <2>3, <3>2 DEF Apply
      <3> QED BY <3>1, <3>2
    <2>4. ASSUME NEW v \in Started, Complete(v) PROVE cache' \in {cache, NoEvidence}
      BY <2>2, <2>4, CacheTypes DEF Complete, Live, Acquisition
    <2>5. ASSUME NEW c \in Callers, CallerStep(c) PROVE cache' \in {cache, NoEvidence}
      <3>1. call[c].phase # "idle" => call[c].w \in Started
        BY <1>1 DEF IInv, CallRefs
      <3>2. CASE Deliver(c) \/ OwnDone(c)
        BY <2>2, <3>1, <3>2, CacheTypes, Zenon DEF Deliver, OwnDone, Return, Awaited, Acquisition
      <3> QED
        BY <2>5, <3>2, Zenon
        DEF CallerStep, VerifyFromCache, VerifyCached, VerifyCold, Refresh, StartOwn, CallerLeaves
    <2> QED
      BY <1>1, <2>1, <2>3, <2>4, <2>5, Zenon
      DEF Next, WorkStep, ReadStatus, Fail, Cancelled, Finish, EvictDomain,
          CacheDrop, Revoke, Tick, vars
  <1> QED BY <1>1, Invariance, PTL DEF Spec, CanceledNeverCached
-----------------------------------------------------------------------------
(* Revocation.  A status read precedes the revocation or sees it, a settled  *)
(* acquisition is consumed before the clock moves, and what is cached was    *)
(* checked within one budget of the revocation.                              *)
WorkTime(r, t, rev) ==
  /\ r.started <= t
  /\ r.until <= r.started + r.budget
  /\ r.kind # "own" => r.budget = Budget
  /\ r.phase = "checked" /\ rev # Never => r.started <= rev
  /\ r.code = "ok" => /\ r.phase \notin Running
                      /\ r.ev.checkedAt = t
                      /\ t < r.until
                      /\ rev # Never => t < rev + r.budget

(* A call's deadline is its timeoutMs after it began.                        *)
CallTime(r, t) == r.until <= t + r.timeout

TimeInv ==
  /\ revokedAt # Never => revokedAt <= now
  /\ \A w \in Started : WorkTime(work[w], now, revokedAt)
  /\ \A c \in Callers : CallTime(call[c], now)
  /\ cache # NoEvidence =>
       /\ cache.checkedAt <= now
       /\ revokedAt # Never => cache.checkedAt < revokedAt + Budget
  /\ RevocationBound

LEMMA SilentBound == ASSUME answer' = NoAnswer PROVE RevocationBound'
BY DEF NoAnswer, RevocationBound

(* A step that moves neither clock keeps the times of what it leaves alone.  *)
LEMMA TimeFrame ==
  ASSUME TimeInv, UNCHANGED <<now, revokedAt>>, now \in Nat,
         \A i \in DOMAIN work' : WorkTime(work'[i], now, revokedAt),
         \A c \in Callers : CallTime(call'[c], now),
         \/ cache' \in {cache, NoEvidence}
         \/ \E w \in Started : /\ work[w].code = "ok" /\ work[w].kind # "own"
                               /\ cache' \in {work[w].ev, NoEvidence},
         RevocationBound'
  PROVE  TimeInv'
  <1>1. \A w \in Started' : WorkTime(work'[w], now', revokedAt')
    BY DEF Started
  <1>2. cache' # NoEvidence =>
          /\ cache'.checkedAt <= now
          /\ revokedAt # Never => cache'.checkedAt < revokedAt + Budget
    BY DEF TimeInv, WorkTime
  <1> QED BY <1>1, <1>2 DEF TimeInv

(* A step that leaves an acquisition's kind and times alone.                 *)
KeepsTimes(r, q) ==
  r.kind = q.kind /\ r.started = q.started /\ r.until = q.until /\ r.budget = q.budget

LEMMA TimeWorkSteps ==
  ASSUME ConstantsAssumption, IInv, TimeInv, NEW w \in Started, WorkStep(w)
  PROVE  TimeInv'
  <1> USE DEF Started
  <1>1. /\ w \in DOMAIN work /\ work \in [DOMAIN work -> Acquisition]
        /\ work[w] \in Acquisition /\ now \in Nat /\ cache \in Evidence
        /\ revokedAt \in Nat \cup {Never} /\ Budget \in Nat /\ work[w].started \in Nat
        /\ work[w].until \in Nat /\ work[w].budget \in Nat
    BY Zenon DEF WorkStep, ReadStatus, Complete, Fail, Cancelled, Apply, Finish, Live,
           IInv, TypeOK, Acquisition, ConstantsAssumption
  <1>2. UNCHANGED <<now, revokedAt, call>> /\ answer' = NoAnswer
    BY Zenon DEF WorkStep, ReadStatus, Complete, Fail, Cancelled, Apply, Finish
  <1>3. RevocationBound'
    BY <1>2, SilentBound
  <1>4. \A i \in DOMAIN work : WorkTime(work[i], now, revokedAt)
    BY DEF TimeInv
  <1>a. \A c \in Callers : CallTime(call'[c], now)
    BY <1>2 DEF TimeInv
  <1>5. CASE ReadStatus(w)
    <2>1. /\ DOMAIN work' = DOMAIN work
          /\ \A i \in DOMAIN work : i # w => work'[i] = work[i]
          /\ KeepsTimes(work'[w], work[w])
          /\ work'[w].phase = "checked" => revokedAt = Never
          /\ work'[w].phase \in {"checked", "done"}
          /\ work'[w].code # "ok"
      <3>1. work[w].phase = "run" /\ work[w].code # "ok"
        BY <1>1, <1>4, <1>5 DEF ReadStatus, WorkTime, Running
      <3>2. CASE revokedAt = Never
        BY <1>1, <1>5, <3>1, <3>2 DEF KeepsTimes, ReadStatus, Acquisition
      <3>3. CASE revokedAt # Never
        BY <1>1, <1>5, <3>1, <3>3 DEF KeepsTimes, ReadStatus, Acquisition
      <3> QED BY <3>2, <3>3
    <2>2. WorkTime(work'[w], now, revokedAt)
      BY <1>1, <1>4, <2>1 DEF KeepsTimes, WorkTime
    <2> QED BY <1>1, <1>2, <1>3, <1>4, <1>a, <1>5, <2>1, <2>2, TimeFrame DEF ReadStatus
  <1>6. CASE Fail(w) \/ Cancelled(w)
    <2>1. /\ DOMAIN work' = DOMAIN work
          /\ \A i \in DOMAIN work : i # w => work'[i] = work[i]
          /\ KeepsTimes(work'[w], work[w])
          /\ work'[w].phase = "done" /\ work'[w].code # "ok"
      <3>1. CASE Fail(w)
        BY <1>1, <3>1, Zenon DEF KeepsTimes, Fail, Acquisition
      <3>2. CASE Cancelled(w)
        BY <1>1, <3>2, Zenon DEF KeepsTimes, Cancelled, Acquisition
      <3> QED BY <1>6, <3>1, <3>2
    <2>2. WorkTime(work'[w], now, revokedAt)
      BY <1>1, <1>4, <2>1 DEF KeepsTimes, WorkTime
    <2> QED BY <1>1, <1>2, <1>3, <1>4, <1>a, <1>6, <2>1, <2>2, TimeFrame DEF Fail, Cancelled
  <1>7. CASE Complete(w)
    <2>0. PICK ttl \in TTLs :
          LET ev == Built(w, ttl)
              code == IF Expired(ev) THEN "stale"
                      ELSE IF now >= Deadline(w) THEN "cancelled" ELSE "ok"
          IN /\ work' = [work EXCEPT ![w].phase = "done", ![w].code = code,
                           ![w].ev = IF code = "ok" THEN ev ELSE NoEvidence]
             /\ cache' = IF code = "stale" /\ work[w].kind = "status"
                         THEN EvictIfSame(work[w].base) ELSE cache
      BY <1>7, Zenon DEF Complete
    <2> DEFINE ev == Built(w, ttl)
               code == IF Expired(ev) THEN "stale"
                       ELSE IF now >= Deadline(w) THEN "cancelled" ELSE "ok"
    <2>1. cache' \in {cache, NoEvidence}
      BY <1>1, <2>0, CacheTypes DEF Acquisition
    <2>2. ev.checkedAt = now
      <3>1. work[w].base \in Evidence
        BY <1>1 DEF Acquisition
      <3> QED BY <3>1 DEF Built, Evidence
    <2>a. code = "ok" => now < work[w].until
      BY <1>1 DEF Deadline
    <2>3. code = "ok" => now < work[w].started + work[w].budget
      BY <1>1, <1>4, <2>a DEF WorkTime
    <2> HIDE DEF ev
    <2>4. /\ DOMAIN work' = DOMAIN work
          /\ \A i \in DOMAIN work : i # w => work'[i] = work[i]
          /\ KeepsTimes(work'[w], work[w])
          /\ work'[w].phase = "done" /\ work'[w].code = code
          /\ code = "ok" => work'[w].ev = ev
      BY <1>1, <2>0, Zenon DEF KeepsTimes, Acquisition, ev
    <2>5. revokedAt # Never => work[w].started <= revokedAt
      BY <1>4, <1>1, <1>7 DEF Complete, WorkTime
    <2> HIDE DEF code
    <2>6. code = "ok" /\ revokedAt # Never => now < revokedAt + work[w].budget
      BY <1>1, <2>3, <2>5
    <2>7. WorkTime(work'[w], now, revokedAt)
      BY <1>1, <1>4, <2>2, <2>4, <2>6, <2>a DEF KeepsTimes, WorkTime, Running
    <2> QED BY <1>1, <1>2, <1>3, <1>4, <1>a, <2>1, <2>4, <2>7, TimeFrame
  <1>8. CASE Apply(w)
    <2>1. /\ DOMAIN work' = DOMAIN work
          /\ \A i \in DOMAIN work : i # w => work'[i] = work[i]
          /\ KeepsTimes(work'[w], work[w]) /\ work'[w].phase = "applied"
          /\ work'[w].code = work[w].code /\ work'[w].ev = work[w].ev
      BY <1>1, <1>8 DEF KeepsTimes, Apply, Acquisition
    <2>2. WorkTime(work'[w], now, revokedAt)
      BY <1>1, <1>4, <2>1 DEF KeepsTimes, WorkTime, Running
    <2>3. \/ cache' \in {cache, NoEvidence}
          \/ work[w].code = "ok" /\ work[w].kind # "own" /\ cache' \in {work[w].ev, NoEvidence}
      BY <1>8 DEF Apply, Publishes, CachePut, Kinds
    <2> QED BY <1>1, <1>2, <1>3, <1>4, <1>a, <2>1, <2>2, <2>3, TimeFrame
  <1>9. CASE Finish(w)
    <2> DEFINE f == [work EXCEPT ![w].phase = "finished"]
    <2>1. /\ DOMAIN f = DOMAIN work
          /\ \A i \in DOMAIN work : i # w => f[i] = work[i]
          /\ KeepsTimes(f[w], work[w]) /\ f[w].phase = "finished"
          /\ f[w].code = work[w].code /\ f[w].ev = work[w].ev
      BY <1>1 DEF KeepsTimes, Acquisition
    <2>2. work' = Collected(f) /\ cache' = cache
      BY <1>9 DEF Finish
    <2> HIDE DEF f
    <2>3. DOMAIN work' \subseteq DOMAIN work /\ \A i \in DOMAIN work' : work'[i] = f[i]
      BY <2>1, <2>2, CollectedFacts
    <2>4. WorkTime(f[w], now, revokedAt)
      BY <1>1, <1>4, <2>1 DEF KeepsTimes, WorkTime, Running
    <2> QED BY <1>1, <1>2, <1>3, <1>4, <1>a, <2>1, <2>2, <2>3, <2>4, TimeFrame
  <1> QED BY <1>5, <1>6, <1>7, <1>8, <1>9 DEF WorkStep

LEMMA TimeCallerSteps ==
  ASSUME ConstantsAssumption, IInv, TimeInv, NEW c \in Callers, CallerStep(c)
  PROVE  TimeInv'
  <1> USE DEF Started
  <1> DEFINE w == call[c].w
  <1>1. /\ work \in [DOMAIN work -> Acquisition] /\ now \in Nat /\ cache \in Evidence
        /\ revokedAt \in Nat \cup {Never} /\ Budget \in Nat /\ Interval \in Nat
        /\ nextId \in Nat /\ nextId \notin DOMAIN work
    BY DEF IInv, TypeOK, ConstantsAssumption
  <1>2. UNCHANGED <<now, revokedAt>>
    BY Zenon DEF CallerStep, VerifyFromCache, VerifyCached, VerifyCold, Refresh, Deliver,
           StartOwn, OwnDone, CallerLeaves
  <1>3. \A i \in DOMAIN work : WorkTime(work[i], now, revokedAt)
    BY DEF TimeInv
  <1>4. ASSUME NEW k, NEW base, NEW callers, NEW budget, NEW until,
               until <= now + budget, k # "own" => budget = Budget
        PROVE  WorkTime(NewWork(k, base, callers, budget, until), now, revokedAt)
    BY <1>1, <1>4 DEF NewWork, WorkTime
  <1>b. \A d \in Callers : CallTime(call[d], now)
    BY DEF TimeInv
  <1>d. ASSUME NEW n, call' = [call EXCEPT ![c] = n], CallTime(n, now)
        PROVE  \A d \in Callers : CallTime(call'[d], now)
    BY <1>b, <1>d DEF IInv, TypeOK
  <1>e. CallTime(Idle, now)
    BY <1>1 DEF CallTime, Idle
  <1>5. ASSUME NEW r, NEW x, WorkTime(r, now, revokedAt), r \in Acquisition
        PROVE  WorkTime([r EXCEPT !.callers = x], now, revokedAt)
    BY <1>5 DEF WorkTime, Acquisition
  <1>6. CASE VerifyFromCache(c)
    <2>1. PICK peer \in PeerChoices :
            /\ CacheGet # NoEvidence
            /\ peer = "mtls" \/ StatusIsRecent(CacheGet)
            /\ answer' = [NoAnswer EXCEPT
                 !.code = IF peer = "pass" THEN "ok" ELSE "denied",
                 !.ev = CacheGet, !.settled = FinishedIds, !.budget = Budget]
      BY <1>6, Zenon DEF VerifyFromCache
    <2>2. answer'.code = "ok" => StatusIsRecent(cache) /\ cache # NoEvidence
      BY <2>1 DEF NoAnswer, CacheGet
    <2>a. answer'.budget = Budget /\ call' = call
      BY <2>1, <1>6, Zenon DEF NoAnswer, VerifyFromCache
    <2>3. answer'.code = "ok" /\ revokedAt # Never => now < revokedAt + Interval + Budget
      <3> SUFFICES ASSUME answer'.code = "ok", revokedAt # Never
                   PROVE  now < revokedAt + Interval + Budget
        OBVIOUS
      <3>1. now - cache.checkedAt < Interval /\ cache.checkedAt < revokedAt + Budget
        BY <2>2 DEF StatusIsRecent, TimeInv
      <3>2. cache.checkedAt \in Nat /\ revokedAt \in Nat
        BY <1>1 DEF Evidence
      <3> QED BY <1>1, <3>1, <3>2
    <2> QED BY <1>1, <1>2, <1>3, <1>6, <1>b, <2>3, <2>a, TimeFrame DEF VerifyFromCache, RevocationBound
  <1>7. ASSUME NEW k \in Kinds, NEW peer, NEW timeout \in Nat, Join(c, k, peer, timeout)
        PROVE  /\ \A i \in DOMAIN work' : WorkTime(work'[i], now, revokedAt)
               /\ \A d \in Callers : CallTime(call'[d], now)
    <2>1. inflight[k] \in DOMAIN work
          /\ work' = [work EXCEPT ![inflight[k]].callers = @ \cup {c}]
      <3>1. inflight[k] \in DOMAIN work \cup {0}
        BY DEF IInv, TypeOK
      <3> QED BY <1>7, <3>1 DEF Join
    <2>2. \A i \in DOMAIN work' : WorkTime(work'[i], now, revokedAt)
      BY <1>1, <1>3, <1>5, <2>1
    <2>3. CallTime(NewCall(k, inflight[k], {}, peer, timeout), now)
      BY <1>1 DEF NewCall, CallTime
    <2> QED BY <1>7, <1>d, <2>2, <2>3, Zenon DEF Join
  <1>8. ASSUME NEW k \in Kinds, NEW base, NEW peer, NEW timeout \in Nat, Start(c, k, base, peer, timeout)
        PROVE  /\ \A i \in DOMAIN work' : WorkTime(work'[i], now, revokedAt)
               /\ \A d \in Callers : CallTime(call'[d], now)
    <2>1. WorkTime(NewWork(k, base, {c}, Budget, now + Budget), now, revokedAt)
      BY <1>1, <1>4
    <2>2. work' = WithWork(nextId, NewWork(k, base, {c}, Budget, now + Budget))
          /\ call' = [call EXCEPT ![c] = NewCall(k, nextId, {nextId}, peer, timeout)]
      BY <1>8 DEF Start
    <2>3. CallTime(NewCall(k, nextId, {nextId}, peer, timeout), now)
      BY <1>1 DEF NewCall, CallTime
    <2>4. \A i \in DOMAIN work' : WorkTime(work'[i], now, revokedAt)
      BY <1>3, <2>1, <2>2 DEF WithWork
    <2> QED BY <1>d, <2>2, <2>3, <2>4, Zenon
  <1>9. CASE VerifyCached(c) \/ VerifyCold(c) \/ Refresh(c)
    <2>1. /\ answer' = NoAnswer /\ cache' \in {cache, NoEvidence}
          /\ \A i \in DOMAIN work' : WorkTime(work'[i], now, revokedAt)
          /\ \A d \in Callers : CallTime(call'[d], now)
      <3>1. Timeouts \subseteq Nat
        BY DEF ConstantsAssumption
      <3> QED
        BY <1>7, <1>8, <1>9, <3>1, Zenon DEF VerifyCached, VerifyCold, Refresh, Kinds
    <2> QED BY <1>1, <1>2, <2>1, SilentBound, TimeFrame, Zenon
  <1>10. CASE Deliver(c) \/ OwnDone(c) \/ CallerLeaves(c)
    <2>1. w \in DOMAIN work /\ work[w] \in Acquisition
      BY <1>1, <1>10, Zenon DEF Deliver, OwnDone, CallerLeaves, Awaited, IInv, CallRefs
    <2>2. ASSUME NEW f, DOMAIN f = DOMAIN work, work' = Collected(f),
                 \A i \in DOMAIN work : WorkTime(f[i], now, revokedAt)
          PROVE  \A i \in DOMAIN work' : WorkTime(work'[i], now, revokedAt)
      BY <2>2, CollectedFacts
    <2>3. CASE Deliver(c) \/ OwnDone(c)
      <3>1. Return(c, work[w])
        BY <2>3 DEF Deliver, OwnDone
      <3>2. cache' \in {cache, NoEvidence} /\ (answer'.code = "ok" => work[w].code = "ok")
        BY <1>1, <2>1, <3>1, CacheTypes DEF Return, Answered, Acquisition
      <3>3. RevocationBound'
        <4>1. answer'.budget = work[w].budget /\ work[w].budget \in Nat
          BY <2>1, <3>1 DEF Return, Answered, Acquisition
        <4> SUFFICES ASSUME answer'.code = "ok", revokedAt # Never
                     PROVE  now < revokedAt + Interval + work[w].budget
          BY <1>2, <4>1 DEF RevocationBound
        <4>2. now < revokedAt + work[w].budget /\ revokedAt \in Nat
          BY <1>1, <1>3, <2>1, <3>2 DEF WorkTime
        <4> QED BY <1>1, <4>1, <4>2
      <3>4. \A i \in DOMAIN work' : WorkTime(work'[i], now, revokedAt)
        <4>1. CASE Deliver(c)
          <5> DEFINE f == [work EXCEPT ![w].callers = @ \ {c}]
          <5>1. \A i \in DOMAIN work : WorkTime(f[i], now, revokedAt)
            BY <1>1, <1>3, <1>5, <2>1
          <5>2. DOMAIN f = DOMAIN work /\ work' = Collected(f)
            BY <1>1, <4>1 DEF Deliver
          <5> QED BY <2>2, <5>1, <5>2, Zenon
        <4>2. CASE OwnDone(c)
          <5> DEFINE f == [work EXCEPT ![w].phase = "finished", ![w].callers = {}]
          <5>1. WorkTime([work[w] EXCEPT !.phase = "finished", !.callers = {}], now, revokedAt)
            BY <1>3, <2>1 DEF WorkTime, Acquisition, Running
          <5>2. \A i \in DOMAIN work : WorkTime(f[i], now, revokedAt)
            BY <1>1, <1>3, <2>1, <5>1
          <5>3. DOMAIN f = DOMAIN work /\ work' = Collected(f)
            BY <1>1, <4>2 DEF OwnDone
          <5> QED BY <2>2, <5>2, <5>3, Zenon
        <4> QED BY <2>3, <4>1, <4>2
      <3>5. \A d \in Callers : CallTime(call'[d], now)
        BY <1>d, <1>e, <3>1 DEF Return
      <3> QED BY <1>1, <1>2, <3>2, <3>3, <3>4, <3>5, TimeFrame
    <2>4. CASE CallerLeaves(c)
      <3>1. cache' = cache /\ answer'.code = "cancelled"
        BY <2>4 DEF CallerLeaves, Answered
      <3>2. \A i \in DOMAIN work' : WorkTime(work'[i], now, revokedAt)
        <4>1. CASE call[c].phase = "own"
          <5> DEFINE f == [work EXCEPT ![w].phase = "finished", ![w].callers = {}]
          <5>1. WorkTime([work[w] EXCEPT !.phase = "finished", !.callers = {}], now, revokedAt)
            BY <1>3, <2>1 DEF WorkTime, Acquisition, Running
          <5>2. \A i \in DOMAIN work : WorkTime(f[i], now, revokedAt)
            BY <1>1, <1>3, <2>1, <5>1
          <5>3. DOMAIN f = DOMAIN work /\ work' = Collected(f)
            BY <1>1, <2>4, <4>1 DEF CallerLeaves
          <5> QED BY <2>2, <5>2, <5>3, Zenon
        <4>2. CASE call[c].phase # "own"
          <5> DEFINE last == work[w].callers = {c} /\ work[w].phase # "finished"
                     f == [work EXCEPT ![w].callers = @ \ {c}, ![w].aborted = @ \/ last]
          <5>1. WorkTime([work[w] EXCEPT !.callers = @ \ {c}, !.aborted = @ \/ last], now, revokedAt)
            BY <1>3, <2>1 DEF WorkTime, Acquisition
          <5>2. \A i \in DOMAIN work : WorkTime(f[i], now, revokedAt)
            BY <1>1, <1>3, <2>1, <5>1
          <5>3. DOMAIN f = DOMAIN work /\ work' = Collected(f)
            BY <1>1, <2>4, <4>2 DEF CallerLeaves, LastToLeave
          <5> QED BY <2>2, <5>2, <5>3, Zenon
        <4> QED BY <4>1, <4>2
      <3>3. \A d \in Callers : CallTime(call'[d], now)
        BY <1>d, <1>e, <2>4 DEF CallerLeaves
      <3> QED BY <1>1, <1>2, <3>1, <3>2, <3>3, TimeFrame DEF RevocationBound
    <2> QED BY <1>10, <2>3, <2>4
  <1>11. CASE StartOwn(c)
    <2> DEFINE g == WithWork(nextId, NewWork("own", NoEvidence, {c}, call[c].timeout, call[c].until))
               f == [g EXCEPT ![w].callers = @ \ {c}]
    <2>1. /\ w \in DOMAIN work /\ work[w] \in Acquisition
      BY <1>1, <1>11 DEF StartOwn, Awaited, IInv, CallRefs
    <2>a. WorkTime(NewWork("own", NoEvidence, {c}, call[c].timeout, call[c].until), now, revokedAt)
      BY <1>4, <1>b DEF CallTime
    <2>2. /\ DOMAIN g = DOMAIN work \cup {nextId} /\ g[w] = work[w]
          /\ \A i \in DOMAIN g : WorkTime(g[i], now, revokedAt)
      BY <1>1, <1>3, <2>a, <2>1 DEF WithWork
    <2>3. work' = Collected(f) /\ answer' = NoAnswer /\ cache' = cache
      BY <1>11 DEF StartOwn
    <2> HIDE DEF g
    <2>4. DOMAIN f = DOMAIN g /\ \A i \in DOMAIN f : WorkTime(f[i], now, revokedAt)
      BY <1>5, <2>1, <2>2
    <2>5. \A i \in DOMAIN work' : WorkTime(work'[i], now, revokedAt)
      BY <2>3, <2>4, CollectedFacts
    <2>6. \A d \in Callers : CallTime(call'[d], now)
      <3> DEFINE n == [call[c] EXCEPT !.phase = "own", !.w = nextId, !.mine = @ \cup {nextId}]
      <3>1. call' = [call EXCEPT ![c] = n]
        BY <1>11, Zenon DEF StartOwn
      <3>2. call[c] \in Invocation
        BY DEF IInv, TypeOK
      <3>3. n.until = call[c].until /\ n.timeout = call[c].timeout
        BY <3>2, Zenon DEF Invocation
      <3>4. CallTime(n, now)
        BY <1>b, <3>3, Zenon DEF CallTime
      <3> HIDE DEF n
      <3> QED BY <1>d, <3>1, <3>4, Zenon
    <2> QED BY <1>1, <1>2, <2>3, <2>5, <2>6, SilentBound, TimeFrame, Zenon
  <1> QED BY <1>6, <1>9, <1>10, <1>11 DEF CallerStep

LEMMA TimeOtherSteps ==
  ASSUME ConstantsAssumption, IInv, TimeInv,
         EvictDomain \/ CacheDrop \/ Revoke \/ Tick
  PROVE  TimeInv'
  <1> USE DEF Started
  <1>1. /\ work \in [DOMAIN work -> Acquisition] /\ now \in Nat /\ cache \in Evidence
        /\ revokedAt \in Nat \cup {Never} /\ Budget \in Nat \ {0} /\ work' = work
        /\ \A i \in DOMAIN work : WorkTime(work[i], now, revokedAt) /\ work[i].started \in Nat
        /\ \A i \in DOMAIN work : work[i].until \in Nat /\ work[i].budget \in Nat
        /\ \A d \in Callers : CallTime(call[d], now) /\ call[d].until \in Nat /\ call[d].timeout \in Nat
        /\ call' = call
        /\ answer' = NoAnswer
    BY DEF EvictDomain, CacheDrop, Revoke, Tick, IInv, TypeOK, ConstantsAssumption,
           TimeInv, Acquisition, Invocation
  <1>2. CASE EvictDomain \/ CacheDrop
    BY <1>1, <1>2, SilentBound, TimeFrame DEF EvictDomain, CacheDrop
  <1>3. CASE Revoke
    <2>1. \A i \in DOMAIN work : WorkTime(work[i], now, now)
      BY <1>1 DEF WorkTime
    <2>2. cache # NoEvidence => cache.checkedAt <= now /\ cache.checkedAt \in Nat
      BY <1>1 DEF TimeInv, Evidence
    <2> QED BY <1>1, <1>3, <2>1, <2>2, SilentBound DEF Revoke, TimeInv
  <1>4. CASE Tick
    <2>1. now' = now + 1 /\ UNCHANGED <<revokedAt, cache>>
      BY <1>4 DEF Tick
    <2>2. \A i \in DOMAIN work : WorkTime(work[i], now + 1, revokedAt)
      <3> SUFFICES ASSUME NEW i \in DOMAIN work
                   PROVE  WorkTime(work[i], now + 1, revokedAt)
        OBVIOUS
      <3>1. work[i].phase \in Running
        BY <1>4 DEF Tick, MicrotaskPending
      <3> QED BY <1>1, <3>1 DEF WorkTime
    <2>3. cache # NoEvidence => cache.checkedAt <= now + 1
      BY <1>1 DEF TimeInv, Evidence
    <2>4. revokedAt # Never => revokedAt <= now + 1
      BY <1>1 DEF TimeInv
    <2>5. \A d \in Callers : CallTime(call[d], now + 1)
      BY <1>1 DEF CallTime
    <2> QED BY <1>1, <2>1, <2>2, <2>3, <2>4, <2>5, SilentBound DEF TimeInv
  <1> QED BY <1>2, <1>3, <1>4

(* A revocation takes effect within one status interval plus the budget of   *)
(* the verification that answers: 30 s when it is shared, the caller's own   *)
(* timeoutMs when the caller verifies for itself.  For every interval,       *)
(* budget, set of callers, timeouts and TTLs.                                *)
THEOREM RevocationTakesEffect == Spec => []RevocationBound
  <1>1. Init => TimeInv
    BY DEF Init, TimeInv, RevocationBound, NoAnswer, Started, CallTime, Idle
  <1>2. IInv /\ TimeInv /\ [Next]_vars => TimeInv'
    <2> SUFFICES ASSUME IInv, TimeInv, [Next]_vars PROVE TimeInv'
      OBVIOUS
    <2>1. CASE UNCHANGED vars
      BY <2>1 DEF vars, TimeInv, RevocationBound, Started
    <2>2. CASE Next
      BY <2>2, ConstantsAssumption, TimeCallerSteps, TimeWorkSteps, TimeOtherSteps DEF Next
    <2> QED BY <2>1, <2>2
  <1>3. TimeInv => RevocationBound
    BY DEF TimeInv
  <1> QED BY <1>1, <1>2, <1>3, Invariance, PTL DEF Spec
=============================================================================
