--------------------------- MODULE IdentityManager ---------------------------
(***************************************************************************)
(* Coalesced verification of one domain by an IdentityManager              *)
(* (packages/protocol/src/identity-manager.ts).                            *)
(*                                                                         *)
(* Concurrent verifyDomain/refreshDomain calls share acquisitions through  *)
(* three in-flight maps and a cache.  Every map and the cache are keyed by *)
(* domain and no step touches two domains, so the model follows one.       *)
(*                                                                         *)
(* JavaScript runs synchronous code atomically, so an action is the code   *)
(* between two awaits.  Continuations of settled promises are steps of     *)
(* their own: other continuations run between them, but no timer and no    *)
(* network event does, which is the guard of Tick.                         *)
(***************************************************************************)
EXTENDS Integers, FiniteSets

CONSTANTS
  Callers,     \* concurrent callers of verifyDomain/refreshDomain
  MaxOps,      \* bound: shared acquisitions are started while fewer than MaxOps
               \* acquisitions have been; a private one follows a shared one and
               \* needs no bound of its own
  MaxTime,     \* bound: clock values
  TTLs,        \* DNS TTLs a lookup may return
  Interval,    \* verification.statusCheckInterval
  Budget,      \* the 30 s cap of a shared acquisition
  Timeouts,    \* timeoutMs of the callers, shorter or longer than Budget
  RevokeTimes, \* when the agent's status may leave ACTIVE
  PeerChoices  \* outcomes of the per-caller checks: "pass", "mtls" or "policy" fails

Peers == {"pass", "mtls", "policy"}

ASSUME ConstantsAssumption ==
  /\ MaxOps \in Nat
  /\ MaxTime \in Nat
  /\ TTLs \subseteq Nat
  /\ Interval \in Nat
  /\ Budget \in Nat \ {0}
  /\ Timeouts \subseteq Nat \ {0}
  /\ PeerChoices \subseteq Peers

VARIABLES
  now,           \* Date.now() and performance.now()
  revokedAt,     \* when the agent's status document stopped saying ACTIVE, or Never
  nextId,        \* the next acquisition's id: ids grow in start order
  work,          \* id -> acquisition still running or still awaited
  inflight,      \* the three in-flight maps: kind -> id, 0 when absent
  cache,         \* the cached VerifiedDomain, or NoEvidence
  call,          \* caller -> the invocation it is waiting for
  answer,        \* what the last step returned to a caller, or NoAnswer
  floor          \* history: the oldest acquisition not superseded by a published
                 \* refresh or an evictDomain

vars == <<now, revokedAt, nextId, work, inflight, cache, call, answer, floor>>
-----------------------------------------------------------------------------
Never == -1
Kinds == {"verify", "status", "refresh"}

(* A VerifiedDomain.  src is the acquisition that did its DNS lookup, by the *)
(* one that built this object: a status refresh copies everything but the    *)
(* status, so two objects are === exactly when their records are equal.      *)
Evidence == [src : Nat, by : Nat, ttl : Nat, exp : Nat, checkedAt : Nat]
NoEvidence == [src |-> 0, by |-> 0, ttl |-> 0, exp |-> 0, checkedAt |-> 0]

Codes == {"none", "ok", "notActive", "failed", "stale", "cancelled", "denied"}
Running == {"run", "checked"}

(* A SharedVerification and the operation it runs, or a private operation.   *)
(* Its caller count is the set of calls in joinShared: a call is there once. *)
(* It runs until its deadline: Budget after its start when it is shared, the *)
(* deadline of its caller when it is private.                                *)
Acquisition ==
  [kind : Kinds \cup {"own"},
   phase : Running \cup {"done", "applied", "finished"},
   started : Nat, budget : Nat, until : Nat,
   base : Evidence, code : Codes, ev : Evidence,
   callers : SUBSET Callers, aborted : BOOLEAN]

(* An invocation: the acquisition it awaits, those it started itself, its    *)
(* timeoutMs and the deadline that follows from it, and (history) the        *)
(* acquisitions already finished when it began.                              *)
Invocation ==
  [phase : {"idle", "wait", "own"}, kind : Kinds, w : Nat, mine : SUBSET Nat,
   peer : Peers, timeout : Nat, until : Nat, settled : SUBSET Nat]

Idle == [phase |-> "idle", kind |-> "verify", w |-> 0, mine |-> {},
         peer |-> "pass", timeout |-> 0, until |-> 0, settled |-> {}]

(* budget: that of the acquisition which made the answer.                    *)
Answer == [code : Codes, ev : Evidence, kind : Kinds, mine : SUBSET Nat,
           settled : SUBSET Nat, budget : Nat, left : BOOLEAN]
NoAnswer == [code |-> "none", ev |-> NoEvidence, kind |-> "verify",
             mine |-> {}, settled |-> {}, budget |-> 0, left |-> FALSE]

Started == DOMAIN work
-----------------------------------------------------------------------------
(* IdentityCache.get: an expired entry reads as absent.                      *)
CacheGet == IF now < cache.exp THEN cache ELSE NoEvidence

(* IdentityCache.put: evict first; zero-TTL or expired results are not kept. *)
CachePut(ev) == IF ev.ttl > 0 /\ now < ev.exp THEN ev ELSE NoEvidence

(* VerifiedDomain.assertFresh fails: a positive-TTL answer has expired.      *)
Expired(ev) == ev.ttl > 0 /\ now >= ev.exp

(* requireFreshEvidence evicts the entry only if it is still that object.    *)
EvictIfSame(ev) == IF CacheGet = ev THEN NoEvidence ELSE CacheGet

Init ==
  /\ now = 0
  /\ revokedAt = Never
  /\ nextId = 1
  /\ work = [w \in {} |-> NoEvidence]
  /\ inflight = [k \in Kinds |-> 0]
  /\ cache = NoEvidence
  /\ call = [c \in Callers |-> Idle]
  /\ answer = NoAnswer
  /\ floor = 0
-----------------------------------------------------------------------------
(* A new acquisition: a status refresh re-uses the base's DNS evidence.      *)
NewWork(k, base, callers, budget, until) ==
  [kind |-> k, phase |-> "run", started |-> now, budget |-> budget, until |-> until,
   base |-> base, code |-> "none", ev |-> NoEvidence, callers |-> callers,
   aborted |-> FALSE]

WithWork(w, r) == [i \in Started \cup {w} |-> IF i = w THEN r ELSE work[i]]

(* Faulty variant: a refresh leaves older acquisitions registered.           *)
RegisteredBesideOlder(k, w) == [inflight EXCEPT ![k] = w]

(* The in-flight maps once startShared has registered w: a refresh first     *)
(* drops the lookups and status checks that were under way.                  *)
Registered(k, w) ==
  IF k = "refresh"
  THEN [j \in Kinds |-> IF j = "refresh" THEN w ELSE 0]
  ELSE [inflight EXCEPT ![k] = w]

(* Acquisitions that have finished (and may have been garbage-collected).    *)
FinishedIds == {i \in 1..(nextId - 1) :
                  i \in Started => work[i].phase = "finished"}

NewCall(k, w, mine, peer, timeout) ==
  [phase |-> "wait", kind |-> k, w |-> w, mine |-> mine, peer |-> peer,
   timeout |-> timeout, until |-> now + timeout, settled |-> FinishedIds]

(* joinShared on the entry already in the map.                               *)
Join(c, k, peer, timeout) ==
  /\ inflight[k] # 0
  /\ work' = [work EXCEPT ![inflight[k]].callers = @ \cup {c}]
  /\ call' = [call EXCEPT ![c] = NewCall(k, inflight[k], {}, peer, timeout)]
  /\ UNCHANGED <<nextId, inflight>>

(* startShared, then joinShared on the new entry.                            *)
Start(c, k, base, peer, timeout) ==
  /\ inflight[k] = 0
  /\ nextId <= MaxOps
  /\ nextId' = nextId + 1
  /\ work' = WithWork(nextId, NewWork(k, base, {c}, Budget, now + Budget))
  /\ inflight' = Registered(k, nextId)
  /\ call' = [call EXCEPT ![c] = NewCall(k, nextId, {nextId}, peer, timeout)]

(* Faulty variants: interval 0 treated as "equal time is recent"; age unread. *)
StatusIsRecentInclusive(ev) == now - ev.checkedAt <= Interval
StatusIsRecentIgnoringAge(ev) == Interval > 0

(* The status was checked within statusCheckInterval.                        *)
StatusIsRecent(ev) == Interval > 0 /\ now - ev.checkedAt < Interval

Answered(c, code, ev, left) ==
  [code |-> code, ev |-> ev, kind |-> call[c].kind, mine |-> call[c].mine,
   settled |-> call[c].settled, budget |-> work[call[c].w].budget, left |-> left]

(* verifyDomain answered from the cache without a status fetch.  The mTLS    *)
(* check comes before the interval check, the acceptance policy after it.    *)
VerifyFromCache(c) ==
  \E peer \in PeerChoices :
    /\ call[c].phase = "idle"
    /\ CacheGet # NoEvidence
    /\ peer = "mtls" \/ StatusIsRecent(CacheGet)
    /\ answer' = [NoAnswer EXCEPT
         !.code = IF peer = "pass" THEN "ok" ELSE "denied",
         !.ev = CacheGet, !.settled = FinishedIds, !.budget = Budget]
    /\ UNCHANGED <<now, revokedAt, nextId, work, inflight, cache, call, floor>>

(* verifyDomain with a cached identity whose status must be re-checked.      *)
VerifyCached(c) ==
  /\ call[c].phase = "idle"
  /\ CacheGet # NoEvidence
  /\ ~StatusIsRecent(CacheGet)
  /\ \E peer \in PeerChoices \ {"mtls"}, timeout \in Timeouts :
       \/ Join(c, "status", peer, timeout)
       \/ Start(c, "status", CacheGet, peer, timeout)
  /\ answer' = NoAnswer
  /\ UNCHANGED <<now, revokedAt, cache, floor>>

(* verifyDomain without a usable cache entry.                                *)
VerifyCold(c) ==
  /\ call[c].phase = "idle"
  /\ CacheGet = NoEvidence
  /\ \E peer \in PeerChoices, timeout \in Timeouts :
       \/ Join(c, "verify", peer, timeout)
       \/ Start(c, "verify", NoEvidence, peer, timeout)
  /\ cache' = NoEvidence
  /\ answer' = NoAnswer
  /\ UNCHANGED <<now, revokedAt, floor>>

(* refreshDomain ignores the cache.                                          *)
Refresh(c) ==
  /\ call[c].phase = "idle"
  /\ \E peer \in PeerChoices, timeout \in Timeouts :
       \/ Join(c, "refresh", peer, timeout)
       \/ Start(c, "refresh", NoEvidence, peer, timeout)
  /\ answer' = NoAnswer
  /\ UNCHANGED <<now, revokedAt, cache, floor>>
-----------------------------------------------------------------------------
(* The steps of an acquisition.  Once its signal is aborted only the         *)
(* cancellation can settle it.                                               *)
Live(w) ==
  w \in Started /\ work[w].phase \in Running /\ ~work[w].aborted

(* The status document is read: a state other than ACTIVE rejects.           *)
ReadStatus(w) ==
  /\ Live(w)
  /\ work[w].phase = "run"
  /\ work' = IF revokedAt = Never
             THEN [work EXCEPT ![w].phase = "checked"]
             ELSE [work EXCEPT ![w].phase = "done", ![w].code = "notActive"]
  /\ answer' = NoAnswer
  /\ UNCHANGED <<now, revokedAt, nextId, inflight, cache, call, floor>>

(* The VerifiedDomain an acquisition builds when everything has arrived; ttl *)
(* is what its DNS lookup, dated at the acquisition's start, was told.       *)
Built(w, ttl) ==
  IF work[w].kind = "status"
  THEN [work[w].base EXCEPT !.by = w, !.checkedAt = now]
  ELSE [src |-> w, by |-> w, ttl |-> ttl,
        exp |-> work[w].started + ttl, checkedAt |-> now]

Deadline(w) == work[w].until

(* The remaining evidence has arrived; expired evidence and a late success   *)
(* are rejected, the former evicting the entry it was a copy of.             *)
Complete(w) ==
  /\ Live(w)
  /\ work[w].phase = "checked"
  /\ \E ttl \in TTLs :
       LET ev == Built(w, ttl)
           code == IF Expired(ev) THEN "stale"
                   ELSE IF now >= Deadline(w) THEN "cancelled" ELSE "ok"
       IN /\ work' = [work EXCEPT ![w].phase = "done", ![w].code = code,
                        ![w].ev = IF code = "ok" THEN ev ELSE NoEvidence]
          /\ cache' = IF code = "stale" /\ work[w].kind = "status"
                      THEN EvictIfSame(work[w].base) ELSE cache
  /\ answer' = NoAnswer
  /\ UNCHANGED <<now, revokedAt, nextId, inflight, call, floor>>

(* Any other rejection: transport, parsing, signature, key or log failure.   *)
Fail(w) ==
  /\ Live(w)
  /\ work' = [work EXCEPT ![w].phase = "done", ![w].code = "failed"]
  /\ answer' = NoAnswer
  /\ UNCHANGED <<now, revokedAt, nextId, inflight, cache, call, floor>>

(* The acquisition's signal aborts it: its callers left or its deadline has  *)
(* passed.                                                                   *)
Cancelled(w) ==
  /\ w \in Started
  /\ work[w].phase \in Running
  /\ work[w].aborted \/ now >= Deadline(w)
  /\ work' = [work EXCEPT ![w].phase = "done", ![w].code = "cancelled"]
  /\ answer' = NoAnswer
  /\ UNCHANGED <<now, revokedAt, nextId, inflight, cache, call, floor>>

(* The then/catch continuation of startShared: publish or evict, only while  *)
(* the entry is still the registered one.                                    *)
Publishes(w) ==
  /\ inflight[work[w].kind] = w
  /\ work[w].code = "ok"
  /\ ~work[w].aborted

Apply(w) ==
  /\ w \in Started
  /\ work[w].phase = "done"
  /\ work[w].kind \in Kinds
  /\ work' = [work EXCEPT ![w].phase = "applied"]
  /\ IF Publishes(w)
     THEN /\ cache' = CachePut(work[w].ev)
          /\ IF work[w].kind = "refresh"
             THEN /\ inflight' = Registered("refresh", w)
                  /\ floor' = w
             ELSE UNCHANGED <<inflight, floor>>
     ELSE /\ cache' = IF inflight[work[w].kind] = w /\ work[w].code = "notActive"
                      THEN NoEvidence ELSE cache
          /\ UNCHANGED <<inflight, floor>>
  /\ answer' = NoAnswer
  /\ UNCHANGED <<now, revokedAt, nextId, call>>

(* Nothing refers to a finished acquisition once its last waiter has left.   *)
Collected(f) ==
  [i \in {j \in DOMAIN f : f[j].phase = "finished" => f[j].callers # {}} |-> f[i]]

(* Faulty variant: only registered work ends.                                *)
FinishIfRegistered(w) ==
  /\ w \in Started
  /\ work[w].phase = "applied"
  /\ inflight[work[w].kind] = w
  /\ work' = Collected([work EXCEPT ![w].phase = "finished"])
  /\ inflight' = [inflight EXCEPT ![work[w].kind] = 0]
  /\ answer' = NoAnswer
  /\ UNCHANGED <<now, revokedAt, nextId, cache, call, floor>>

(* The finally continuation of startShared.                                  *)
Finish(w) ==
  /\ w \in Started
  /\ work[w].phase = "applied"
  /\ work' = Collected([work EXCEPT ![w].phase = "finished"])
  /\ inflight' = [k \in Kinds |-> IF inflight[k] = w THEN 0 ELSE inflight[k]]
  /\ answer' = NoAnswer
  /\ UNCHANGED <<now, revokedAt, nextId, cache, call, floor>>
-----------------------------------------------------------------------------
(* Per-caller checks before returning: peer and acceptance policy, then      *)
(* freshness, then the call's own deadline (never a late success).           *)
ReturnCode(c, ev) ==
  IF call[c].peer # "pass" THEN "denied"
  ELSE IF Expired(ev) THEN "stale"
  ELSE IF now >= call[c].until THEN "cancelled" ELSE "ok"

(* Caller c gets the outcome of acquisition r: its error, or its evidence    *)
(* once the caller's own checks pass.                                        *)
Return(c, r) ==
  LET code == IF r.code = "ok" THEN ReturnCode(c, r.ev) ELSE r.code
  IN /\ call' = [call EXCEPT ![c] = Idle]
     /\ answer' = Answered(c, code, r.ev, FALSE)
     /\ cache' = IF r.code = "ok" /\ code = "stale" THEN EvictIfSame(r.ev)
                 ELSE cache

(* The shared promise has settled.                                           *)
Awaited(c) == call[c].phase = "wait" /\ work[call[c].w].phase = "finished"

(* Zero-TTL evidence belongs to the call that started the acquisition.       *)
NeedsOwn(c) ==
  LET r == work[call[c].w]
  IN /\ r.code = "ok"
     /\ r.kind # "status"
     /\ r.ev.ttl = 0
     /\ call[c].w \notin call[c].mine

(* A waiter receives the shared result or error.                             *)
Deliver(c) ==
  /\ Awaited(c)
  /\ ~NeedsOwn(c)
  /\ work' = Collected([work EXCEPT ![call[c].w].callers = @ \ {c}])
  /\ Return(c, work[call[c].w])
  /\ UNCHANGED <<now, revokedAt, nextId, inflight, floor>>

(* A joiner that was handed zero-TTL evidence verifies on its own, under its *)
(* own signal: no cap but its own timeoutMs.                                 *)
StartOwn(c) ==
  /\ Awaited(c)
  /\ NeedsOwn(c)
  /\ nextId' = nextId + 1
  /\ work' = Collected([WithWork(nextId, NewWork("own", NoEvidence, {c},
                                                 call[c].timeout, call[c].until))
                          EXCEPT ![call[c].w].callers = @ \ {c}])
  /\ call' = [call EXCEPT ![c].phase = "own", ![c].w = nextId,
                          ![c].mine = @ \cup {nextId}]
  /\ answer' = NoAnswer
  /\ UNCHANGED <<now, revokedAt, inflight, cache, floor>>

(* A private verification settles its only caller.                           *)
OwnDone(c) ==
  /\ call[c].phase = "own"
  /\ work[call[c].w].phase = "done"
  /\ work' = Collected([work EXCEPT ![call[c].w].phase = "finished",
                                    ![call[c].w].callers = {}])
  /\ Return(c, work[call[c].w])
  /\ UNCHANGED <<now, revokedAt, nextId, inflight, floor>>

(* The caller count drops to zero and the shared promise has not finished.   *)
LastToLeave(c) ==
  LET r == work[call[c].w] IN r.callers = {c} /\ r.phase # "finished"

(* The caller's signal, at any time, or its own timeoutMs ends the call.  The *)
(* last waiter to leave an unfinished acquisition aborts *)
(* it; a private one ends with its caller.                                   *)
CallerLeaves(c) ==
  LET w == call[c].w
  IN /\ call[c].phase \in {"wait", "own"}
     /\ work' = IF call[c].phase = "own"
                THEN Collected([work EXCEPT ![w].phase = "finished",
                                            ![w].callers = {}])
                ELSE Collected([work EXCEPT
                       ![w].callers = @ \ {c},
                       ![w].aborted = @ \/ LastToLeave(c)])
     /\ call' = [call EXCEPT ![c] = Idle]
     /\ answer' = Answered(c, "cancelled", NoEvidence, TRUE)
     /\ UNCHANGED <<now, revokedAt, nextId, inflight, cache, floor>>

(* evictDomain forgets the cache entry and every acquisition under way.      *)
EvictDomain ==
  /\ inflight' = [k \in Kinds |-> 0]
  /\ cache' = NoEvidence
  /\ floor' = nextId
  /\ answer' = NoAnswer
  /\ UNCHANGED <<now, revokedAt, nextId, work, call>>

(* The cache may drop its entry: its timer fires, or an injected             *)
(* implementation evicts early.                                              *)
CacheDrop ==
  /\ cache # NoEvidence
  /\ cache' = NoEvidence
  /\ answer' = NoAnswer
  /\ UNCHANGED <<now, revokedAt, nextId, work, inflight, call, floor>>

(* The published status document leaves ACTIVE.                              *)
Revoke ==
  /\ revokedAt = Never
  /\ now \in RevokeTimes
  /\ revokedAt' = now
  /\ answer' = NoAnswer
  /\ UNCHANGED <<now, nextId, work, inflight, cache, call, floor>>

(* Continuations that run before the event loop takes another task.          *)
MicrotaskPending ==
  \E w \in Started : work[w].phase \in Running => work[w].aborted

Tick ==
  /\ now < MaxTime
  /\ ~MicrotaskPending
  /\ now' = now + 1
  /\ answer' = NoAnswer
  /\ UNCHANGED <<revokedAt, nextId, work, inflight, cache, call, floor>>
-----------------------------------------------------------------------------
CallerStep(c) ==
  \/ VerifyFromCache(c) \/ VerifyCached(c) \/ VerifyCold(c) \/ Refresh(c)
  \/ Deliver(c) \/ StartOwn(c) \/ OwnDone(c) \/ CallerLeaves(c)

WorkStep(w) ==
  \/ ReadStatus(w) \/ Complete(w) \/ Fail(w) \/ Cancelled(w)
  \/ Apply(w) \/ Finish(w)

Next ==
  \/ \E c \in Callers : CallerStep(c)
  \/ \E w \in Started : WorkStep(w)
  \/ EvictDomain \/ CacheDrop \/ Revoke \/ Tick

Spec == Init /\ [][Next]_vars
-----------------------------------------------------------------------------
(* Every variable stays in its type; the maps and the waiting calls refer to *)
(* acquisitions that exist.                                                  *)
TypeOK ==
  /\ now \in Nat
  /\ revokedAt \in Nat \cup {Never}
  /\ nextId \in Nat \ {0}
  /\ Started \subseteq 1..(nextId - 1)
  /\ work \in [Started -> Acquisition]
  /\ inflight \in [Kinds -> Started \cup {0}]
  /\ cache \in Evidence
  /\ call \in [Callers -> Invocation]
  /\ answer \in Answer
  /\ floor \in Nat

(* What a refresh or an eviction superseded never comes back: once a refresh *)
(* has published its result, the cache never again holds an identity looked  *)
(* up before that refresh started, and after evictDomain none looked up      *)
(* before the eviction, however late older lookups and status checks settle  *)
(* (startShared, identity-manager.ts 692-711; evictDomain 1101-1104).        *)
SupersededStaysOut == cache # NoEvidence => cache.src >= floor

(* A zero-TTL answer is returned only by the call that started the           *)
(* acquisition, and never kept: a call that joined it acquires its own       *)
(* evidence (verifyReusableIdentity 665, 680-682; InMemoryIdentityCache.put).*)
ZeroTTLPrivate ==
  /\ cache # NoEvidence => cache.ttl > 0
  /\ answer.code = "ok" /\ answer.ev.ttl = 0 => answer.ev.src \in answer.mine

(* A revocation takes effect: a successful call returns less than one status *)
(* interval plus the budget of the verification that made its answer after   *)
(* the status document stopped saying ACTIVE, whatever was cached or in      *)
(* flight at that moment.  The budget is 30 s for shared work and the        *)
(* caller's own timeoutMs for a verification of its own (665, 683).          *)
RevocationBound ==
  answer.code = "ok" /\ revokedAt # Never =>
    now < revokedAt + Interval + answer.budget

(* Coalescing never hands out finished work: a refreshDomain result, and     *)
(* with statusCheckInterval 0 every result, was produced by an acquisition   *)
(* that had not finished when the call began (finally of startShared).       *)
FreshPerCall ==
  answer.code = "ok" /\ (Interval = 0 \/ answer.kind = "refresh") =>
    answer.ev.by \notin answer.settled

(* Work nobody waits for is canceled: an unfinished shared acquisition       *)
(* without callers has been aborted (joinShared's finally).                  *)
NoOrphanWork ==
  \A w \in Started :
    work[w].phase \in Running /\ work[w].callers = {} => work[w].aborted

(* Canceled verification does not populate the cache: no result of an        *)
(* aborted acquisition enters it.                                            *)
CanceledNeverCached ==
  [][\A w \in Started : work[w].aborted /\ cache.by # w => cache'.by # w]_vars

(* Each coalesced caller retains its deadline: a waiting call is canceled    *)
(* only because it left or because the shared work reached its cap           *)
(* (packages/protocol/README.md, "Each coalesced caller retains its          *)
(* deadline").                                                               *)
CallerRetainsDeadline ==
  [][\A c \in Callers :
       /\ call[c].phase = "wait"
       /\ call'[c].phase = "idle"
       /\ answer'.code = "cancelled"
       /\ ~answer'.left
       => now >= Deadline(call[c].w)]_vars

(* A status refresh that finds the agent not ACTIVE evicts the entry it was  *)
(* re-checking (docs/security.md, "the cache entry is evicted").             *)
NotActiveEvicts ==
  [][\A w \in Started :
       /\ work[w].kind = "status"
       /\ work[w].code = "notActive"
       /\ work[w].phase = "done"
       /\ w \in DOMAIN work' /\ work'[w].phase = "applied"
       => cache' # work[w].base]_vars

(* The ids an acquisition may get: a shared one, or that of a caller which   *)
(* joined a shared one and needs its own.                                    *)
Ids == 1..(MaxOps * (1 + Cardinality(Callers)))

(* The scheduler: continuations of settled promises always run, and every    *)
(* acquisition settles, because its requests answer or its timer fires.      *)
Fairness ==
  /\ \A w \in Ids : WF_vars(WorkStep(w))
  /\ \A c \in Callers : WF_vars(Deliver(c) \/ StartOwn(c) \/ OwnDone(c))

FairSpec == Spec /\ Fairness

(* Every call gets an answer: also when a refresh or an eviction displaced   *)
(* the acquisition it waits for, which then settles without being in any map *)
(* (startShared 692-711), and when it joined zero-TTL work and has to verify *)
(* once more on its own (665, 680-683).                                      *)
CallsSettle ==
  \A c \in Callers : call[c].phase # "idle" ~> call[c].phase = "idle"
=============================================================================
