---------------------------- MODULE HistoryReader ----------------------------
(***************************************************************************)
(* The reader of verified lifecycle histories (C2spTlogReader in           *)
(* log-c2sp-tlog/src/reader.ts) over the two sources of evidence it knows: *)
(* a signed stream bundle and a complete scan of the log's tiles.          *)
(*                                                                         *)
(* One reader reads ThisLog for one domain.  Its calls run                 *)
(* concurrently: verifyBilateralBinding ("binding"), which brings the      *)
(* entity key the reader trusts from then on, and rebuildHistory,          *)
(* keyTimestamp, readEvent and verifyOperationalContinuity ("history")     *)
(* share the one cachedHistory slot; verifyNonRevocation ("direct") loads  *)
(* on its own.  A load takes the                                           *)
(* bundle, or falls back to the scan, and follows the MIGRATION that may   *)
(* open the stream into the previous log, hop by hop, before it advances   *)
(* the trusted checkpoint.  Meanwhile the log grows, the identity is       *)
(* revoked, the witnesses cosign, and the servers may answer with any      *)
(* checkpoint that was ever cosigned.                                      *)
(*                                                                         *)
(* Signatures, inclusion proofs and Merkle roots are those of MerkleLog,   *)
(* the lifecycle rules those of LifecycleStream, and the compare-and-swap  *)
(* of the trusted checkpoint, which is one atomic step here, that of       *)
(* CheckpointTrust: here every log is honest and only its answers are old. *)
(***************************************************************************)
EXTENDS Integers, Sequences, Functions

CONSTANTS
  Calls,             \* the calls made on the reader
  ReaderKeys,        \* entity keys a caller may trust
  Logs, ThisLog,     \* the logs, and the one the reader was made for
  MaxAge,            \* checkpointMaxAge
  Lifetime,          \* maxBundleLifetimeMs
  Budget,            \* the 30 s of withVerificationBudget
  MaxDepth,          \* migrationLimits.maxDepth
  MaxHistoryEvents,  \* migrationLimits.maxHistoryEvents
  MaxTime,           \* bound on the clock
  MaxLogSize            \* bound on the size of ThisLog

ASSUME ReaderAssumption ==
  /\ ThisLog \in Logs
  /\ {MaxAge, Lifetime, Budget, MaxDepth, MaxHistoryEvents} \subseteq Nat \ {0}
  /\ {MaxTime, MaxLogSize} \subseteq Nat
  /\ "none" \notin Calls

VARIABLES
  now,
  config,     \* the reader's options
  opening,    \* opening[l]: the first event of the stream in log l
  size,       \* the tree size of ThisLog
  revoked,    \* where and when the REVOCATION was appended to ThisLog
  published,  \* published[l]: every checkpoint of l the witnesses cosigned
  remembered,    \* trusted[l]: the tree size of the trusted checkpoint, 0 for none
  entityKey,  \* trustedEntityKey: what the last binding brought
  slot,       \* cachedHistory: the call whose load it holds
  call,       \* the calls
  load        \* load[c]: the loadAndVerifyHistory that call c started

worldVars == <<now, size, revoked, published>>
cacheVars == <<entityKey, slot, call, load>>
readerVars == <<worldVars, config, opening, remembered, cacheVars>>

Nothing == "none"
Forever == MaxTime + Lifetime + 1

(* The first event of a stream.  A MIGRATION names the previous log and, by  *)
(* its finalEntryRef, an entry there: final says that this entry is the      *)
(* last applied event of an ACTIVE identity (or a later copy of it), rather  *)
(* than an entry of another stream, an index beyond the complete history or  *)
(* the event that ended the identity.  events counts the stream's events in  *)
(* the entries the log starts with, for a previous log up to that cutoff.    *)
StartSize(l) == IF l = ThisLog THEN 1 ELSE MaxLogSize
Issuances(l) ==
  [type : {"ISSUANCE"}, previous : {Nothing}, final : {FALSE}, events : 1..StartSize(l)]
Migrations(l) ==
  [type : {"MIGRATION"}, previous : Logs, final : BOOLEAN, events : 1..StartSize(l)]
Unread == [type |-> Nothing, previous |-> Nothing, final |-> FALSE, events |-> 0]

(* The stream bundle is optional and may be required; growth of the log is   *)
(* shown by the tile scanner, by a consistencyProofSource, or, with an       *)
(* injected source of entries alone, by neither; an entity key may be        *)
(* configured; the reader of one of the logs may ask the application about   *)
(* migrations (verifyMigration) instead of reading the previous log.         *)
Configs == [bundle : {"off", "optional", "required"}, consistency : {"tiles", "source", "none"},
            maxAge : BOOLEAN, entityKey : ReaderKeys \cup {Nothing},
            verifyMigration : Logs \cup {Nothing}]

(* checkpointFreshnessMs: checkpointMaxAge ?? maxBundleLifetimeMs.           *)
Freshness == IF config.maxAge THEN MaxAge ELSE Lifetime

(* One loadAndVerifyHistory of one log, and the load of a call: the frames   *)
(* of its recursion, the migration budget, and what it returned.             *)
Frame(l) == [log |-> l, at |-> IF config.bundle = "off" THEN "scan" ELSE "bundle",
             mode |-> "scan", size |-> 0, witness |-> 0, until |-> Forever]
NoLoad == [key |-> Nothing, at |-> "none", frames |-> <<>>, spent |-> 0, chain |-> <<>>]
NoCall == [at |-> "idle", kind |-> Nothing, key |-> Nothing, start |-> 0, asOf |-> 0,
           source |-> Nothing, ended |-> 0, verified |-> Nothing, until |-> Forever]

ReaderInit ==
  /\ now = 0
  /\ config \in Configs
  /\ opening = [l \in Logs |-> Unread]
  /\ size = 1
  /\ revoked = [size |-> 0, at |-> 0, seen |-> -1]
  /\ published = [l \in Logs |-> {[size |-> StartSize(l), witness |-> 0]}]
  /\ remembered = [l \in Logs |-> 0]
  /\ entityKey = Nothing
  /\ slot = Nothing
  /\ call = [c \in Calls |-> NoCall]
  /\ load = [c \in Calls |-> NoLoad]

-----------------------------------------------------------------------------
(* The world: time, the log's writer, its witnesses.                         *)

Waits(c) == call[c].at = "waiting"
Deadline(c) == call[c].start + Budget

Tick ==
  /\ now < MaxTime
  /\ \A c \in Calls : Waits(c) => now < Deadline(c)
  /\ now' = now + 1
  /\ UNCHANGED <<size, revoked, published, config, opening, remembered, cacheVars>>

AppendEntry ==
  /\ size < MaxLogSize
  /\ size' = size + 1
  /\ \/ UNCHANGED revoked
     \/ revoked.size = 0 /\ revoked' = [size |-> size + 1, at |-> now, seen |-> -1]
  /\ UNCHANGED <<now, published, config, opening, remembered, cacheVars>>

(* seen is the time of the first checkpoint that covers the REVOCATION.      *)
Witness ==
  /\ [size |-> size, witness |-> now] \notin published[ThisLog]
  /\ published' = [published EXCEPT ![ThisLog] = @ \cup {[size |-> size, witness |-> now]}]
  /\ revoked' = IF revoked.size # 0 /\ revoked.seen = -1
                THEN [revoked EXCEPT !.seen = now]
                ELSE revoked
  /\ UNCHANGED <<now, size, config, opening, remembered, cacheVars>>

-----------------------------------------------------------------------------
(* Calls.                                                                    *)

Top(c) == load[c].frames[Len(load[c].frames)]
WithTop(c, f) == [load EXCEPT ![c].frames[Len(load[c].frames)] = f]
Loaded(c) == load[c].at = "ok"
Running(c) == load[c].at = "running"

HitWhateverItsAge(k) == slot # Nothing /\ load[slot].key = k

(* The slot answers a call with the same entity key while its load runs and  *)
(* until the history it returned expires; a scanned history never does.      *)
Hit(k) ==
  /\ slot # Nothing
  /\ load[slot].key = k
  /\ Loaded(slot) => now < Top(slot).until

NewLoad(k) == [NoLoad EXCEPT !.key = k, !.at = "running", !.frames = <<Frame(ThisLog)>>]

(* The key of a call that brings none, if there is one.                      *)
KnownKeys == {IF config.entityKey # Nothing THEN config.entityKey ELSE entityKey} \ {Nothing}

BeginCached(c, kind) ==
  /\ call[c].at = "idle"
  /\ \E k \in IF kind = "binding" THEN ReaderKeys ELSE KnownKeys :
       /\ call' = [call EXCEPT ![c].at = "waiting", ![c].kind = kind, ![c].key = k,
                               ![c].start = now, ![c].source = IF Hit(k) THEN slot ELSE c]
       /\ IF Hit(k) THEN UNCHANGED <<slot, load>>
          ELSE slot' = c /\ load' = [load EXCEPT ![c] = NewLoad(k)]
  /\ UNCHANGED <<worldVars, config, opening, remembered, entityKey>>

(* verifyNonRevocation(domain, at) without checkpointMaxAge throws at once.  *)
BeginDirect(c) ==
  /\ call[c].at = "idle"
  /\ config.maxAge
  /\ \E k \in KnownKeys, t \in 0..now :
       /\ call' = [call EXCEPT ![c].at = "waiting", ![c].kind = "direct", ![c].key = k,
                               ![c].start = now, ![c].asOf = t, ![c].source = c]
       /\ load' = [load EXCEPT ![c] = NewLoad(k)]
  /\ UNCHANGED <<worldVars, config, opening, remembered, entityKey, slot>>

(* assertFresh and snapshotAt of verifyNonRevocation.                        *)
AnyAge(w) == TRUE
AssertFresh(w) == now - w <= MaxAge
ActiveAt(n, t) == ~(revoked.size # 0 /\ revoked.size <= n /\ revoked.at <= t)

(* What a call still asks of a loaded history: a binding, that the identity  *)
(* is ACTIVE at its latest event.                                            *)
Acceptable(kind, h, t) ==
  /\ kind = "binding" => ActiveAt(h.size, now)
  /\ kind = "direct" => AssertFresh(h.witness) /\ ActiveAt(h.size, t)

Answer(c) ==
  LET s == call[c].source  kind == call[c].kind IN
  /\ Waits(c) /\ now < Deadline(c)
  /\ load[s].at \in {"ok", "failed"}
  /\ entityKey' = IF Loaded(s) /\ kind = "binding" THEN call[c].key ELSE entityKey
  /\ call' = [call EXCEPT ![c] =
       IF Loaded(s) /\ Acceptable(kind, Top(s), call[c].asOf)
       THEN [@ EXCEPT !.at = "served", !.source = Nothing, !.ended = now,
                      !.verified = load[s].key, !.until = Top(s).until]
       ELSE [NoCall EXCEPT !.at = "refused"]]
  /\ UNCHANGED <<worldVars, config, opening, remembered, slot, load>>

(* The budget of the call ends, and with it the signal its own load runs     *)
(* under: whoever waits for that load will see it fail.                      *)
BudgetEnds(c) ==
  /\ Waits(c) /\ now >= Deadline(c)
  /\ call' = [call EXCEPT ![c] = [NoCall EXCEPT !.at = "refused"]]
  /\ load' = [load EXCEPT ![c].at = IF @ = "running" THEN "aborted" ELSE @]
  /\ UNCHANGED <<worldVars, config, opening, remembered, entityKey, slot>>

(* A fetch, a check or the aborted signal ends the load; it is cached no     *)
(* more, unless a newer load has taken the slot.                             *)
ForgetAny(c) == Nothing
Forget(c) == IF slot = c THEN Nothing ELSE slot

LoadFails(c) ==
  /\ load[c].at \in {"running", "aborted"}
  /\ load' = [load EXCEPT ![c] = [NoLoad EXCEPT !.at = "failed"]]
  /\ slot' = Forget(c)
  /\ UNCHANGED <<worldVars, config, opening, remembered, entityKey, call>>

-----------------------------------------------------------------------------
(* A load.  Whatever a step below requires and does not find makes the load  *)
(* fail.                                                                     *)

(* How a bounded fetch ends: with bytes, with status 404, with a network     *)
(* error, a timeout or a status 408, 429 or 5xx, or with anything else (a    *)
(* redirect, another status, a body beyond its maximum).                     *)
Responses == {"bytes", "notFound", "transient", "refused"}
BundleFallbackAllowed(r) == r \in {"notFound", "transient"}

(* The bundles of log l that parse: a cosigned checkpoint and an expiry.     *)
Bundles(l) ==
  UNION {{[size |-> p.size, witness |-> p.witness, expires |-> e] :
            e \in p.witness .. p.witness + Lifetime + 1} : p \in published[l]}

BundleIsCurrent(b) ==
  /\ now - b.witness <= Freshness
  /\ now < b.expires
  /\ b.expires <= b.witness + Lifetime

(* loadBundleHistory: the server answers with a bundle of its choice.        *)
FetchBundle(c) ==
  /\ Running(c) /\ Top(c).at = "bundle"
  /\ \E b \in Bundles(Top(c).log) :
       /\ BundleIsCurrent(b)
       /\ load' = WithTop(c, [Top(c) EXCEPT
            !.at = "lifecycle", !.mode = "bundle", !.size = b.size, !.witness = b.witness,
            !.until = IF b.expires < b.witness + Freshness THEN b.expires ELSE b.witness + Freshness])
  /\ UNCHANGED <<worldVars, config, opening, remembered, entityKey, slot, call>>

BundleUnavailable(c) ==
  /\ Running(c) /\ Top(c).at = "bundle" /\ config.bundle = "optional"
  /\ \E r \in Responses \ {"bytes"} : BundleFallbackAllowed(r)
  /\ load' = WithTop(c, [Top(c) EXCEPT !.at = "scan"])
  /\ UNCHANGED <<worldVars, config, opening, remembered, entityKey, slot, call>>

(* verifyCheckpointAdvance on an honest log: an older size is a rollback.    *)
CanAdvance(l, n) == remembered[l] <= n

(* What a scan may return: a cosigned checkpoint and every entry below it.   *)
Scans(l) == published[l]

ScanHistory(c) ==
  /\ Running(c) /\ Top(c).at = "scan"
  /\ \E p \in Scans(Top(c).log) :
       /\ CanAdvance(Top(c).log, p.size)
       /\ remembered' = [remembered EXCEPT ![Top(c).log] = p.size]
       /\ load' = WithTop(c, [Top(c) EXCEPT
            !.at = "lifecycle", !.size = p.size, !.witness = p.witness])
  /\ UNCHANGED <<worldVars, config, opening, entityKey, slot, call>>

(* The stream's first event: what it is, is fixed when it is first read.     *)
Opens(l, e) ==
  /\ opening[l] \in {Unread, e}
  /\ opening' = [opening EXCEPT ![l] = e]

DescendsTooFar(c, e) ==
  /\ Len(load[c].frames) - 1 <= MaxDepth
  /\ \A i \in DOMAIN load[c].frames : load[c].frames[i].log # e.previous

(* migrationVerifier: no deeper than maxDepth and never into a log the walk  *)
(* is already in.                                                            *)
Descends(c, e) ==
  /\ Len(load[c].frames) - 1 < MaxDepth
  /\ \A i \in DOMAIN load[c].frames : load[c].frames[i].log # e.previous

FollowMigration(c) ==
  /\ Running(c) /\ Top(c).at = "lifecycle" /\ Top(c).log # config.verifyMigration
  /\ \E e \in Migrations(Top(c).log) :
       /\ Opens(Top(c).log, e)
       /\ Descends(c, e)
       /\ load' = [load EXCEPT ![c].frames = Append(@, Frame(e.previous))]
  /\ UNCHANGED <<worldVars, config, remembered, entityKey, slot, call>>

WithinBudgetAnyLength(walked, spent) == TRUE

(* The cumulative budget of the walk, enforced once a MIGRATION was met.     *)
WithinBudget(walked, spent) == walked => spent <= MaxHistoryEvents

(* options.verifyMigration: the application vouches for n prior events in    *)
(* these logs, oldest first.  The MIGRATIONs among them must lead on from    *)
(* the log the event names and into no log twice, and count towards the      *)
(* limits; the cutoff is the application's affair.                           *)
AskApplication(c) ==
  /\ Running(c) /\ Top(c).at = "lifecycle" /\ Top(c).log = config.verifyMigration
  /\ \E e \in Migrations(Top(c).log),
        prior \in UNION {[1..k -> Logs] : k \in 1..MaxDepth},
        n \in 1..MaxHistoryEvents :
       LET visited == {load[c].frames[i].log : i \in DOMAIN load[c].frames}
           spent   == load[c].spent + n
       IN  /\ Opens(Top(c).log, e)
           /\ Descends(c, e)
           /\ prior[Len(prior)] = e.previous /\ n >= Len(prior)
           /\ IsInjective(prior) /\ visited \cap Range(prior) = {}
           /\ Len(load[c].frames) - 1 + Len(prior) <= MaxDepth
           /\ WithinBudget(TRUE, spent)
           /\ load' = [WithTop(c, [Top(c) EXCEPT !.at = "stitched"]) EXCEPT
                          ![c].chain = prior, ![c].spent = spent]
  /\ UNCHANGED <<worldVars, config, remembered, entityKey, slot, call>>

(* loadThrough and migrationResult: the previous log's history ends at the   *)
(* cutoff its successor signed, which must be its final applied event and    *)
(* leave the identity ACTIVE.                                                *)
CutoffHolds(e) == e.final

(* The top frame returns: the whole load has, or its history is stitched     *)
(* before that of the log that migrated from it.                             *)
Returns(c, spent) ==
  LET fs == load[c].frames  chain == Append(load[c].chain, Top(c).log) IN
  \/ /\ Len(fs) = 1
     /\ load' = [load EXCEPT ![c].at = "ok", ![c].chain = chain, ![c].spent = spent]
  \/ /\ Len(fs) > 1
     /\ CutoffHolds(opening[fs[Len(fs) - 1].log])
     /\ load' = [load EXCEPT
          ![c].chain = chain, ![c].spent = spent,
          ![c].frames = Append(SubSeq(fs, 1, Len(fs) - 2), [fs[Len(fs) - 1] EXCEPT !.at = "stitched"])]

EventsOf(f, first) ==
  first.events + IF f.log = ThisLog /\ revoked.size # 0 /\ revoked.size <= f.size THEN 1 ELSE 0

VerifyLifecycle(c) ==
  /\ Running(c)
  /\ \/ Top(c).at = "lifecycle" /\ \E e \in Issuances(Top(c).log) : Opens(Top(c).log, e)
     \/ Top(c).at = "stitched" /\ UNCHANGED opening
  /\ LET spent == load[c].spent + EventsOf(Top(c), opening'[Top(c).log])
     IN  /\ WithinBudget(opening[ThisLog].type = "MIGRATION", spent)
         /\ IF Top(c).mode = "scan" THEN Returns(c, spent)
            ELSE load' = [WithTop(c, [Top(c) EXCEPT !.at = "advance"]) EXCEPT ![c].spent = spent]
  /\ UNCHANGED <<worldVars, config, remembered, entityKey, slot, call>>

(* A bundle's checkpoint is trusted last.  Growth is shown by hash tiles or  *)
(* the consistencyProofSource, or where there is neither by a complete scan  *)
(* that reaches the bundle's checkpoint, unless bundles are required.        *)
AdvanceBundle(c) ==
  LET l == Top(c).log  n == Top(c).size IN
  /\ Running(c) /\ Top(c).at = "advance"
  /\ CanAdvance(l, n)
  /\ (remembered[l] # 0 /\ remembered[l] < n /\ config.consistency = "none") =>
        config.bundle # "required" /\ \E p \in Scans(l) : n <= p.size
  /\ remembered' = [remembered EXCEPT ![l] = n]
  /\ Returns(c, load[c].spent)
  /\ UNCHANGED <<worldVars, config, opening, entityKey, slot, call>>

LoadStep(c) ==
  \/ FetchBundle(c) \/ BundleUnavailable(c) \/ ScanHistory(c)
  \/ FollowMigration(c) \/ AskApplication(c) \/ VerifyLifecycle(c) \/ AdvanceBundle(c)

ReaderNext ==
  \/ Tick \/ AppendEntry \/ Witness
  \/ \E c \in Calls :
       \/ BeginCached(c, "binding") \/ BeginCached(c, "history") \/ BeginDirect(c) \/ Answer(c) \/ BudgetEnds(c)
       \/ LoadFails(c) \/ LoadStep(c)

ReaderSpec == ReaderInit /\ [][ReaderNext]_readerVars

-----------------------------------------------------------------------------
(* A history that the slot hands to a call was verified under the entity key *)
(* that call trusts, and had not expired more than one verification budget   *)
(* before the call began: a call may join a load that is about to expire,    *)
(* but is never served the leftovers of an earlier bundle.                   *)
HistoryIsOwn ==
  \A c \in Calls : call[c].at = "served" /\ call[c].kind # "direct" =>
    /\ call[c].verified = call[c].key
    /\ call[c].start <= call[c].until + Budget

(* verifyNonRevocation answers for a time only if no REVOCATION up to that   *)
(* time was witnessed longer than checkpointMaxAge before the answer,        *)
(* however old the checkpoints are that the servers hand out.                *)
ActiveIsFresh ==
  \A c \in Calls : call[c].at = "served" /\ call[c].kind = "direct" =>
    ~(revoked.seen # -1 /\ revoked.seen < call[c].ended - MaxAge /\ revoked.at <= call[c].asOf)

(* A history that was stitched over migrations, read or vouched for by the   *)
(* application, visits no log twice, stays within the depth and event limits *)
(* over the whole walk, and enters every previous log that was read at the   *)
(* cutoff that its successor signed.                                         *)
WalkIsBounded ==
  \A c \in Calls : Loaded(c) =>
    LET chain == load[c].chain IN
    /\ IsInjective(chain) /\ chain[Len(chain)] = ThisLog /\ Len(chain) <= MaxDepth + 1
    /\ Len(chain) > 1 => load[c].spent <= MaxHistoryEvents
    /\ \A i \in 2..Len(chain) : opening[chain[i]] # Unread =>
         /\ opening[chain[i]].previous = chain[i - 1]
         /\ opening[chain[i]].final \/ chain[i] = config.verifyMigration

(* A history that is served is the call's own and was gathered within the    *)
(* limits.                                                                   *)
HistoryIsSound == HistoryIsOwn /\ WalkIsBounded

(* Only the failure of the load it holds empties the slot: a load that was   *)
(* replaced and fails later does not evict its successor.                    *)
SlotClearedByItsLoad ==
  [][slot # Nothing /\ slot' = Nothing => load'[slot].at = "failed"]_readerVars

=============================================================================
