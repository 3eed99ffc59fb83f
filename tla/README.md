# Verification of the DNSid TypeScript SDK

TLA+ models of the stateful parts of this repository, the TLC runs that check
them on small instances, and TLAPS proofs that hold for every value of the
constants. Every definition is translated from the source under `packages/`;
`PROJECT.json` maps it to its lines.

## The system

DNSid gives an agent an identity anchored in DNS. A verifier looks up the
`_dnsid` TXT record, checks its signature, fetches the operational keys and
the status document, and reads the identity's lifecycle (issuance, key
rotations, revocation, retirement, migration) from a transparency log that
anyone can append to. An identity's controllers hold keys in a key provider,
sign lifecycle events and publish them, alone or through a registry. Agents
use their identities to sign HTTP messages, JWTs and OIDC assertions.

| part | packages | module |
| --- | --- | --- |
| verification of a domain: coalescing, cache, status refresh | `protocol` | `IdentityManager` |
| one acquisition of evidence; key rotation by the publisher | `protocol` | `IdentityAcquisition` |
| the TXT lookup | `transport` (`index.ts`, `txt-wire.ts`) | `TxtLookup` |
| fetching documents | `transport` (`index.ts`) | `SafeFetch` |
| the lifecycle in the log | `log-c2sp-tlog` (`stream-verifier.ts`, `writer.ts`, `event-codec.ts`) | `LifecycleStream` |
| snapshots, key age, migrated history | `protocol` (`verified-domain.ts`), `log-c2sp-tlog` (`reader.ts`) | `DomainLog` |
| reading a history: cache, bundles, scans, migrations | `log-c2sp-tlog` (`reader.ts`, `stream-*.ts`) | `HistoryReader` |
| the witness quorum | `log-c2sp-tlog` (`policy.ts`) | `WitnessQuorum` |
| trust in log checkpoints | `log-c2sp-tlog` (`checkpoint-trust.ts`) | `CheckpointTrust`, `TrustedLog` |
| Merkle roots, proofs, tiles | `log-c2sp-tlog` (`merkle.ts`, `hash-tiles.ts`, `checkpoint-trust.ts`) | `RFC6962`, `MerkleLog` |
| keys in a file | `sdk` (`local-key-provider.ts`) | `LocalKeyProvider` |
| keys in AWS KMS and Google Cloud KMS | `key-aws`, `key-gcp` | `KmsKeyProvider` |
| registry-managed key rotation | `sdk` (`managed-key-rotation.ts`) | `ManagedKeyRotation` |
| registry-managed issuance | `sdk` (`managed-issuance.ts`) | `ManagedIssuance` |
| the registry's client | `registry` | `RegistryClient` |
| signed requests and responses | `http-signatures`, `sdk` (`node-response-signing.ts`) | `SignedExchange` |
| Web Bot Auth | `web-bot-auth` | `WebBotAuth` |
| OIDC | `oidc` | `OidcFederation` |
| JWT and JWS | `jose` | `JoseProfile` |

The parts meet as follows. `IdentityManager` decides who shares an acquisition
and what becomes of its outcome; `IdentityAcquisition` is the inside of one,
and takes the TXT record, the documents and the log's answer from the parts
that `TxtLookup`, `SafeFetch` and `HistoryReader` model. `HistoryReader` takes
the witness time from `WitnessQuorum`, the lifecycle rules from
`LifecycleStream`, and the compare-and-swap of the trusted checkpoint from
`CheckpointTrust`. `CheckpointTrust` takes from consistency evidence that one
tree is a prefix of another; `MerkleLog` checks that the algorithms behind the
evidence establish exactly that. `DomainLog` extends `LifecycleStream`: the
same events are selected by the verifier and then materialized by the
snapshot. `ManagedKeyRotation` contains the key providers as their callers see
them; `LocalKeyProvider` and `KmsKeyProvider` are the providers. The four
profiles take from the identity resolver an identity that is fresh for a
while.

For each component `X`, `X.tla` is the specification; the `*Proofs.tla` modules
hold the theorems, one module for related components. An `MC` module says what TLC needs: instances
of the constants, and, where one run covers several components, a variable
that an initial state sets to the component the behaviour is about. The others
then rest, so the state space is the sum and not the product. A definition
marked *faulty variant* is a plausible bug, used to confirm that a property
notices it; a property that is a conjunction has a variant for each conjunct.

JavaScript runs synchronous code without interruption. An action is therefore
the code between two awaits, and interleavings, failures and crashes happen
between actions.

## What is modelled

**IdentityManager.** One domain, since all maps are keyed by domain. State:
the three in-flight maps, the acquisitions they hold with their caller sets,
the cache, the calls and the clock. Actions: the branches of
`verifyReusableIdentity` and `refreshDomain`, the steps of `startShared` and
`joinShared`, `evictDomain`, cancellation, and time. The evidence checks of an
acquisition are one outcome: an identity with some TTL, not ACTIVE, or failed.
Shared work has the fixed budget, a verification of the caller's own the
caller's `timeoutMs`; an answer carries the budget of the one that made it,
and `RevocationBound` is stated with that.

**IdentityAcquisition.** The steps of `verifyDomainUncached`: TXT record and
DNSSEC, entity key set, then the identity branch (`ku`, log) beside the status
branch, each of which may fail and abort the other. The publisher runs
`rotateOperationalKey` meanwhile: its awaits may fail, two rotations may
overlap, and a revocation reaches log, status document and registry one after
the other. HTTP caches may serve what was served before.

**TxtLookup.** A lookup asks each configured server in turn, follows aliases
over several queries, and takes the least of the remaining lifetimes.
Recursive servers hold a record until it lapses, then anything.

**SafeFetch.** Address classification byte by byte, the checks before each
connection, redirects, pinning, and the classification of failures. Names may
resolve to other addresses at every lookup. A request that was redirected
within its host may go over the connection that is still open. `protocolAgent`
is one per process and also keeps connections of other fetches; the model has
one fetch, so what it shows of connections is about those that the fetch made.

**LifecycleStream and DomainLog.** The log is read in order. What the
controllers sign may be lost, delayed, repeated, re-signed or stripped of
signatures, and foreign entries lie in between. An event is its payload, known
by its ID. The check of the newest event stands for the code's re-verification
of the whole stream after each one. Assumed: event IDs do not collide, event
times are not after the checkpoint's integration time, and the reader passes
the entity key, as it always does. A migration whose prior log cannot be
verified ends with a verdict of its own: before the stream has begun, anyone's
such migration refuses the whole history, and `StreamIsSound` says so.

**HistoryReader.** Concurrent calls over the one `cachedHistory` slot, whose
load runs under the first caller's signal; bundles that may be refused and
fall back to a scan; the walk from a migrated log into its predecessors with
its limits of depth and of events; freshness, cutoff and the advancement of
the trusted checkpoint over tiles or over the application's
`consistencyProofSource`. A `verifyMigration` callback may vouch for a
previous log in place of the walk.
Every log is honest here and only its answers are old.

**WitnessQuorum.** Policy lines in any order, nested threshold groups, and the
greedy evaluation, against the set of all quorums. A policy given as an object
may nest rules that a file cannot, `none` among them.

**CheckpointTrust.** Load, check, compare-and-swap and retry of concurrent
calls over one store, with cancellation at each await and other processes
writing. A root stands for the entries it commits to. `TrustedLog` is the
promise (the trusted tree only grows; what was accepted is part of it), and
`Refinement` states that the code keeps it.

**MerkleLog.** Hashes are free terms, so the algorithms are compared with the
definitions of RFC 6962 up to hash collisions. The log may replace an entry
or shrink. Tiles have width 2 and 4 where the code has 256; the algorithm is
the same for every power of two.

**LocalKeyProvider.** The store in memory, in `<path>` and in `<path>.bak`,
the mutation chain, signatures in flight, and the flag that blocks signing.
`fileKept` and `bakKept` are the contents a power loss may leave: a rename
counts only once its directory was synced. Every file operation may fail.

**KmsKeyProvider.** Both providers: which key is active, pending and retained,
signatures in flight, and every call to the service, suspended and failing.
Nothing orders the providers' mutations.

**ManagedKeyRotation.** The chain of awaits of one rotation, the host's
record, gate and signer, the providers, and the registry. Any await may fail
with or without effect, and the process may crash; the host then resumes.
`CrossProvider` moves the key to another provider, which has an active key of
its own. An answer of the registry may fail `assertSubmissionMatchesRotation`;
the error then hands the host the state with that answer, and the host goes
back to its record, since `validateSavedRotation` refuses that state. A
submission that failed terminally leaves the state as it was; the code does not
say what a host does then, and the model's host resumes.

**ManagedIssuance.** Several processes over one durable record. Each
countersignature yields different bytes, so an entry is numbered by its
signature. The registry binds an idempotency key to the first bytes it gets;
this is external, modelled from how the client uses it.

**RegistryClient.** Five conversations with the registry: registering under an
idempotency key, waiting for the publication, submitting a prepared event,
publishing a client-signed record, and provisioning a Live agent with a proof
of possession. A registration says whether client or registry publishes it,
and each conversation refuses the other's. The record that the registry offers
for signing is compared in the tags that the client knows; further tags are the
registry's, and are signed with the rest, so `RegistrationIsOurs` speaks of the
known ones only. Requests and responses may be lost, the domain may change hands
in between, and callers may change their arguments during an await.

**SignedExchange.** Client and server of a signed fetch. A signature is the
record of what it covers. Responses are altered, delayed, mixed up or replaced
by an intermediary's, unsigned or signed in the intermediary's own name; the
handler flushes the headers, changes its response during the signing and writes
after its end, and each request still gets one answer. Each call has a
connection of its own. A status is the handler's, a changed one or that of a
failure. A verified response whose deadline has passed is not canceled but its
request is aborted, and `FailedIsReleased` says so.

**WebBotAuth, OidcFederation, JoseProfile.** Signer and verifier of each
profile, with every await of the verifier a point where keys rotate, time
passes and other calls move. In `OidcFederation` a discovery document may say
anything, an assertion may be made by the minter or supplied by the caller, and
a token may have an `nbf` as well as its lifetime; in `JoseProfile` an agent that runs other code may sign and publish
anything. A JWT whose key rotates between header and signature is made all the
same and is refused by every verifier.

## Runs

Passing runs, each one question about the system:

| run | what is instantiated | what it shows |
| --- | --- | --- |
| `shared_work` | `IdentityManager`: 2 callers, 2 shared acquisitions, clock 0..2, TTLs 0, 1 and 3, interval 1, shared budget 1, `timeoutMs` 2, a revocation at time 0, before or during any of the work | superseded work never reaches the cache or a later caller; a revocation takes effect within the interval plus the budget of the verification that answers |
| `calls_settle` | `IdentityManager`: TTLs 0 and 1, interval 0, callers with different policies | no finished work is handed out; every call is answered |
| `acquisition` | `IdentityAcquisition`: 3 operational keys, 2 rotations; `TxtLookup`: 3 names, aliases, clock 0..2; `SafeFetch`: every edge of every special address block, 1 redirect; `LifecycleStream` and `DomainLog`: streams of up to 3 events, issued and migrated, 2 racing controllers | evidence is current although its sources change while it is gathered; the error a caller sees is the cause; a rotation leaves log, provider and key set in agreement; a TXT answer is published for as long as it is used; only permitted addresses are contacted; only a fork is refused, nothing published is skipped, one authorized chain, snapshots agree with the verifier |
| `reader` | `HistoryReader`: 2 calls, 4 logs, depth 2, 4 events, checkpoint age 1, clock 0..3; a walk, the shared slot, a growing log and a revocation as four settings | a served history belongs to its call and its limits, non-revocation is as fresh as promised, only a slot's own failure empties it |
| `log_evidence` | `CheckpointTrust`: 2 calls, another process, forked trees; `MerkleLog`: up to 9 entries, tiles of width 2 and 4; `WitnessQuorum`: 3 witnesses, 2 nested groups | refinement of `TrustedLog`, every call ends; roots, proofs and tiles agree with RFC 6962 and wrong evidence fails; the witness time is the best a quorum supports |
| `key_management` | `LocalKeyProvider`: 2 signers, 2 keys, 2 queued mutations; `KmsKeyProvider`: both vendors, 4 keys, one supersession at a time; `ManagedKeyRotation`: 5 keys, 5 failures; `ManagedIssuance`: 1 process at a time, 4 interruptions; `RegistryClient`: 2 callers, 2 registrations of either authority, records with and without tags of the registry's | no signature with a retired key, acknowledged mutations survive power loss; superseded keys are gone and promotions drain; signing matches publication and rotations complete; setups publish only what was accepted and end; registrations, outcomes and proofs are the caller's own |
| `exchange` | `SignedExchange`: 2 calls, 1 rotation, clock 0..2 | a returned response answers this request; nothing unsigned leaves; accepted requests are recent; failed calls release their responses |
| `credentials` | `WebBotAuth`: 2 verifications, 2 signers, 1 cooldown slot; `OidcFederation`: 2 origins, all combinations of endpoint options; `JoseProfile`: one agent of this code, one of other code | a request is accepted once and bound to a current key, refreshes are rationed; assertions go where the caller configured and accepted tokens are current; accepted JWTs and JWS are genuine |

Runs that TLC must find violated, see Findings: `not_active_evicts`,
`issuance_race`, `kms_supersede`, `resolver_retry`. Four more configurations
show smaller ones and can be run by hand: `IdentityManager_deadline.cfg`,
`MerkleLog_index.cfg`, `SafeFetch_loopback.cfg` and `SafeFetch_policy.cfg`.

**Why the bounds suffice.** Two callers are a starter and a joiner, and two
acquisitions an older and a newer one; the proofs remove these bounds for
safety. Five rotation keys allow several complete rotations and rejected ones
after each other, and five failures one at each kind of await in a rotation
and another in its recovery. Nine entries cover tree sizes around three powers
of two, and with tiles of width 2 four tile levels. Three events reach a
terminal state after a rotation and a fork on a superseded key. Two rotations
overlap or follow each other; a second one beside an acquisition would only
change what it reads once more, and is left out. Three names make a chain of
aliases longer than `MaxHops` and a cycle, and the lifetimes lie on both sides
of the caps. Of the addresses, the ones beside
each block boundary decide whether the comparison of prefixes is right; past
the first hop a public and a private one suffice, since every hop runs the
same checks. Four logs allow a walk one deeper than the limit and a cycle, and
their events one more than the limit of events.
Two calls share the reader's slot, and a third would be like the second. Two
groups nest and share members. In the
profiles every lifetime is one or two ticks, so that each check falls before,
at and after it, and one cooldown slot for two domains makes the allowance
full. The other agent's token in `JoseProfile` is any token at all, so one
suffices.

Deadlock checking is off where the system may rightly stop: when a bound is
reached, or when a stream, rotation, setup or call is over.

**Fairness.** *IdentityManager*: continuations of settled promises run, and
each acquisition settles because its 30-second timer fires if nothing else
happens. *LocalKeyProvider*: signatures and file operations settle; failing
counts. *CheckpointTrust*: steps within a turn run, and a call that again and
again waits for a zero-delay timer lets its deadline timer fire (strong
fairness), since timers fire in the order they are due. *ManagedKeyRotation*
and *ManagedIssuance*: awaits settle, the registry decides, and the host
resumes what is not over, as the READMEs of `sdk` and `registry` ask of it;
failures are bounded in number. *TxtLookup* (`resolver_retry` only): a caller
that retries and a network that recovers. No fairness is assumed of callers,
crashes, cancellations or of the log. In `key_management` each fairness
condition is asked of its own part only, since a part that rests takes no step.

## Findings

* `not_active_evicts`: a status check displaced by a starting `refreshDomain`
  finds the agent not ACTIVE and leaves the entry cached, although
  `docs/security.md` says it is evicted. `RevocationBound` still holds.
* `issuance_race`: of two processes that start the same setup, the slower
  one's unconditional persist replaces the record of the accepted entry.
  The registry's README asks for a single owner; with one, the property is
  proved.
* `kms_supersede`: two concurrent `supersede` calls of the AWS provider each
  remember an index of `retainedKeyIds` across an await; the second removes
  the wrong key or none, and a superseded key stays published.
* `resolver_retry`: a resolver made from a server's hostname keeps the
  rejected promise of that hostname's lookup, so a failure that is marked
  transient is permanent.
* `IdentityManager_deadline.cfg` (`CallerRetainsDeadline`): a call that joins
  shared work which its last waiter has just aborted is canceled with it,
  although "each coalesced caller retains its deadline"
  (`docs/reference/dnsid-protocol.md`).
* `MerkleLog_index.cfg` (`InclusionBindsIndex`): `verifyInclusion` does not
  compare the length of a proof with the depth of the index, so an entry's
  audit path can verify at another index as well.
* `SafeFetch_loopback.cfg` (`LoopbackIsPermitted`): an exempt host that
  resolves to `::1` is refused, since `::1` is read as the IPv4-compatible
  form of 0.0.0.1, although `docs/security.md` says that loopback answers are
  permitted.
* `SafeFetch_policy.cfg` (`PolicyFailureIsPermanent`): `fetchJson` wraps a
  lookup's refusal as a failed request and marks it transient, although
  `docs/security.md` says that policy failures are not.

## Proofs

`tlapm` checks every theorem. Nothing is assumed beyond the named `ASSUME`s of
the modules, which TLC evaluates in the runs: the types of the constants; the
tree order of `CheckpointTrust`; distinct keys in `LifecycleStream`; that "none"
is the nonce of no call, a bare key id names no domain, and the agents that run
this code are none of the others; that an IP address has 4 or 16 bytes.

* **IdentityManagerProofs**: type correctness, `SupersededStaysOut`,
  `ZeroTTLPrivate`, `FreshPerCall`, `NoOrphanWork`, `CanceledNeverCached` and
  `RevocationBound`. The invariant ties each waiting call to an acquisition
  that counts it, and each acquisition still in a map to the `floor` that
  refreshes and evictions raise; without the second part nothing would say
  that an acquisition older than the last refresh has left the maps. Another
  invariant bounds when each piece of evidence was checked.
* **AcquisitionProofs**: `AcquiredIsCurrent`, `CauseIsReported` and
  `SigningKeyIsLogged`, the unconditional part of `RotationIsWhole`. The
  invariant says what each branch's position in the fan-out means: how a branch
  may have ended, what the other's end allows, and at which length of the log
  the key in hand was active. That survives the publisher's steps because the
  log only grows and its prefixes stay. Then the Web Bot Auth verifier:
  `AcceptedOnce`, `AcceptedIsBound` and `RefreshIsRationed`. The store holds a
  nonce at least as long as a verification that consumed it may accept the
  request; a cached identity was published when it was read; and a domain that
  was refreshed less than a cooldown ago still has its slot, so the slots
  count the refreshes of any window.
* **SafeFetchProofs**: that the byte tests of `isUnsafeIp` are membership in the
  special address blocks for every IPv4 and IPv6 address, with the IPv4-mapped
  and other embedded forms, and `isPrivateOrLoopbackIp` membership in the
  private blocks, except for `::1`; from these, `ContactedIsPermitted`. A run
  tries the addresses next to the edges of the blocks; the theorems cover
  the 2^128.
* **LogProofs**: `OneHistory`, `CanceledNeverPublishes` and the refinement of
  `TrustedLog`. The invariant: a verified candidate extends the checkpoint it
  was verified against, and a published one is in the stored tree from then on.
  And `StreamIsSound`, conjunct by conjunct: selected events form one chain,
  every signed event begins a stream or continues a selected one, and a logged
  one was selected unless a fork was found.
* **CredentialsProofs**: for signed exchanges `ResponseIsForThisCall`,
  `NothingUnsignedLeaves`, `AcceptedRequestIsRecent` and `FailedIsReleased`,
  from what each position of a call and of its handler implies about
  the wire; for OIDC `AssertionGoesWhereConfigured` and
  `AcceptedTokenIsCurrent`; and `AcceptedJoseIsGenuine`, whose invariant
  relates what `verifying` has checked so far to the key sets, which may
  change at every step.
* **KeyProviderProofs**: `KeyStoreIsSafe`, conjunct by conjunct. The
  invariant says of each step of a mutation what memory, files and their
  possible contents after a power loss are, and that keys have one role. For
  the cloud providers `PromotionDrains`, and `SupersededIsGone` in the
  two cases where it holds: GCP and AWS without scheduled deletion, and AWS
  where no two supersessions wait together (`SerialPurges`), the case that
  `kms_supersede` shows to be needed.
* **ManagedKeyRotationProofs**: `RotationIsSafe` and that only an accepted
  key is activated, also for rotation across providers, which no run
  instantiates. The invariant relates the operation's position, its state, the
  record, the gate and the registry's event.
* **RegistryProofs**: `PublishedWasAccepted` for any number of
  processes; `SetupIsSafe` and the progress of the record for one process,
  since with two `PublishedIsRecorded` is false (`issuance_race`). For the
  registry client `RegistrationIsOurs` and `OutcomeIsTrue`: a reply under way
  names the registration that the idempotency key is bound to, which never
  changes, and what is read later is told apart from it by its id; a record is
  signed only after its known tags were compared.

Only model-checked: the liveness properties, since the prover does not handle
fairness; `MerkleLog` and `WitnessQuorum`, whose algorithms are recursive;
`SnapshotAgrees`, `AnswerIsStillPublished` and the conditional part of
`RotationIsWhole`, which are about what a recursive function over a history, a
chain of aliases or a log computes and would need induction over it; and the
properties of `HistoryReader`.

## Not modelled

* Parsing, encoding and rendering: TXT records, JWKS, canonical JSON, signed
  notes, structured fields, compact serializations, the DNS wire format. They
  have no state; the models take their outcome, valid or not, as an input, and
  a signature as the record of what it covers.
* Cryptography, sockets, TLS, DNSSEC validation and timers' precision.
* The creation of a key file by the first `load`, with its race between two
  processes for the exclusive link; the in-memory key provider.
* `retryTransientVerification`: a loop without state of its own.
* Single requests of the registry client whose answer is returned as it is
  (revoke, retire, cancel, `waitForStatus`).
* Limits on the entries and bytes of a stream, which only refuse.
* Configuration loading, the wiring of `sdk`, and the examples.
* Parts composed in one state space: each component sees the others through
  what they promise, which their own modules check. An acquisition with a
  `HistoryReader` inside it, under an `IdentityManager`, is out of TLC's reach.

`PROJECT.json` lists every component with its status, and the hazards with the
properties that cover them.
