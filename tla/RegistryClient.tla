---------------------------- MODULE RegistryClient ----------------------------
(***************************************************************************)
(* The registry's client (packages/registry): registering an agent under   *)
(* an idempotency key, waiting until the registry has published it,        *)
(* submitting a prepared log event, publishing a record that the client    *)
(* signs, and provisioning a Live agent with a proof of possession.        *)
(*                                                                         *)
(* The registry, the network and other clients are external.  A request or *)
(* a response may be lost, and a lost request may still be executed; the   *)
(* domain may be removed and registered anew by somebody else between any  *)
(* two requests.  The registry binds an idempotency key to what the first  *)
(* request with it did, for good, as registerAgent's comment demands.      *)
(***************************************************************************)
EXTENDS Integers, FiniteSets

CONSTANTS
  Callers,          \* processes that register the agent under one key
  PreparedEntries,  \* prepared events
  Contents,         \* what a record says in the tags that the client knows
  Timeout,          \* timeoutMs of awaitRegistryManagedPublication
  MaxIds,           \* bound: registrations the registry ever creates
  MaxAttempts,      \* bound: attempts of a caller
  MaxEntityKeys     \* bound: keys of the entity

ASSUME RegistryAssumption ==
  PreparedEntries # {} /\ {Timeout, MaxIds, MaxAttempts, MaxEntityKeys} \subseteq Nat

VARIABLES
  flow,             \* what the client is doing
  registered,       \* the domain's registration at the registry, or NoRegistration
  ids,              \* registrations created so far
  claim,            \* the registration that the idempotency key is bound to, 0: none
  caller,           \* caller -> its call of registerAgent
  wait,             \* the call of awaitRegistryManagedPublication
  submission,       \* the call of submitPreparedEvent
  log,              \* the entries in the log
  publication,      \* the call of publishClientControlledRecord
  entityKey,        \* the active key of the entity's key provider
  dnsRecord,        \* the record that the registry published under the client's signature
  live              \* the calls that provision a Live agent

registryVars ==
  <<flow, registered, ids, claim, caller, wait, submission, log, publication, entityKey,
    dnsRecord, live>>
-----------------------------------------------------------------------------
(* publicationAuthority: who publishes the record, the client or the registry*)
Authorities == {"client", "registry"}
NoRegistration == [id |-> 0, authority |-> "none", status |-> "none", dnsPublished |-> FALSE]
Pending(id, a) == [id |-> id, authority |-> a, status |-> "pending", dnsPublished |-> FALSE]

Call == [at |-> "idle", reply |-> 0, facts |-> 0, attempts |-> 0]
Wait == [at |-> "idle", expected |-> 0, seen |-> NoRegistration, clock |-> 0]
Submission ==
  [at |-> "idle", buffer |-> CHOOSE e \in PreparedEntries : TRUE, sent |-> {}, reply |-> "none",
   hash |-> {}, outcome |-> "none", attempts |-> 0]
Publication == [at |-> "idle", kid |-> 0, offered |-> {}, signer |-> 0]
NoChallenge == [agent |-> 0, key |-> 0, answers |-> FALSE, fqdn |-> 0]
Live ==
  [at |-> "idle", call |-> "none", jwk |-> 0, posted |-> 0, agent |-> 0, domain |-> 0,
   challenge |-> NoChallenge, proved |-> NoChallenge]
(* The known tags of the record that buildUnsignedDnsIdTxtRecord makes of    *)
(* the client's configuration.  A canonical record has unknown tags as well. *)
Configured == CHOOSE c \in Contents : TRUE
Records == [known : Contents, unknown : {"none", "registry's"}]

RegistryInit ==
  /\ flow \in {"register", "submit", "record", "live"}
  /\ registered = NoRegistration
  /\ ids = 0
  /\ claim = 0
  /\ caller = [c \in Callers |-> Call]
  /\ wait = Wait
  /\ submission = Submission
  /\ log = {}
  /\ publication = Publication
  /\ entityKey = 1
  /\ dnsRecord = {}
  /\ live = Live
-----------------------------------------------------------------------------
(* registerAgent posts the request.                                          *)
RegisterAgent(c) ==
  /\ flow = "register" /\ caller[c].at = "idle" /\ caller[c].attempts < MaxAttempts
  /\ caller' = [caller EXCEPT ![c].at = "posted", ![c].attempts = @ + 1]
  /\ UNCHANGED <<flow, registered, ids, claim, wait, submission, log, publication, entityKey,
                 dnsRecord, live>>

(* The registry executes a request, also one whose caller has given up: it   *)
(* creates the registration of the key, or repeats the one the key is bound  *)
(* to, or refuses when the domain is taken.                                  *)
RegistryCreates(c) ==
  /\ caller[c].at \in {"posted", "failed"} /\ caller[c].reply = 0
  /\ caller[c].attempts > 0
  /\ IF claim = 0 /\ registered = NoRegistration
     THEN /\ ids < MaxIds
          /\ ids' = ids + 1 /\ claim' = ids + 1
          /\ \E a \in Authorities : registered' = Pending(ids + 1, a)
     ELSE claim # 0 /\ UNCHANGED <<ids, claim, registered>>
  /\ caller' = [caller EXCEPT ![c].reply = claim']
  /\ UNCHANGED <<flow, wait, submission, log, publication, entityKey,
                 dnsRecord, live>>

(* The caller reads the 201: then it asks for the registration's details.    *)
ReadCreation(c) ==
  /\ caller[c].at = "posted" /\ caller[c].reply # 0
  /\ caller' = [caller EXCEPT ![c].at = "reading"]
  /\ UNCHANGED <<flow, registered, ids, claim, wait, submission, log, publication, entityKey,
                 dnsRecord, live>>

(* RegistrationError: the request or a response is lost, or refused.  It     *)
(* carries the key for the next attempt.                                     *)
RegistrationFails(c) ==
  /\ caller[c].at \in {"posted", "reading"}
  /\ caller' = [caller EXCEPT ![c].at = "failed"]
  /\ UNCHANGED <<flow, registered, ids, claim, wait, submission, log, publication, entityKey,
                 dnsRecord, live>>

RetryRegistration(c) ==
  /\ caller[c].at = "failed" /\ caller[c].attempts < MaxAttempts
  /\ caller' = [caller EXCEPT ![c].at = "idle", ![c].reply = 0]
  /\ UNCHANGED <<flow, registered, ids, claim, wait, submission, log, publication, entityKey,
                 dnsRecord, live>>

(* Faulty variant: the details are taken for those of the creation.          *)
ReadRegistrationUnchecked(c) ==
  /\ caller[c].at = "reading"
  /\ caller' = [caller EXCEPT ![c].at = IF registered = NoRegistration THEN "failed" ELSE "returned",
                              ![c].facts = registered.id]
  /\ UNCHANGED <<flow, registered, ids, claim, wait, submission, log, publication, entityKey,
                 dnsRecord, live>>

(* getRegistration answers; the id must be the created one.                  *)
ReadRegistration(c) ==
  /\ caller[c].at = "reading"
  /\ caller' = IF registered.id = caller[c].reply
               THEN [caller EXCEPT ![c].at = "returned", ![c].facts = registered.id]
               ELSE [caller EXCEPT ![c].at = "failed"]
  /\ UNCHANGED <<flow, registered, ids, claim, wait, submission, log, publication, entityKey,
                 dnsRecord, live>>

(* The registry publishes the record, or the registration fails.             *)
RegistryProceeds ==
  /\ registered.status = "pending"
  /\ \E next \in {[registered EXCEPT !.status = "ready"], [registered EXCEPT !.status = "error"],
                  [registered EXCEPT !.dnsPublished = TRUE]} :
       registered' = next /\ next # registered
  /\ UNCHANGED <<flow, ids, claim, caller, wait, submission, log, publication, entityKey,
                 dnsRecord, live>>

(* Somebody unregisters the domain, or registers it under another key.       *)
Unregister ==
  /\ registered # NoRegistration
  /\ registered' = NoRegistration
  /\ UNCHANGED <<flow, ids, claim, caller, wait, submission, log, publication, entityKey,
                 dnsRecord, live>>

OtherRegisters ==
  /\ flow \in {"register", "record"} /\ registered = NoRegistration /\ ids < MaxIds
  /\ ids' = ids + 1
  /\ \E a \in Authorities : registered' = Pending(ids + 1, a)
  /\ UNCHANGED <<flow, claim, caller, wait, submission, log, publication, entityKey,
                 dnsRecord, live>>
-----------------------------------------------------------------------------
Expired == wait.clock >= Timeout

(* awaitRegistryManagedPublication, with what registerAgent returned as the  *)
(* expected registration; every read of the status goes through checkSnapshot*)
WaitBegins(c) ==
  /\ wait.at = "idle" /\ caller[c].at = "returned"
  /\ wait' = [wait EXCEPT !.at = "observing", !.expected = caller[c].facts]
  /\ UNCHANGED <<flow, registered, ids, claim, caller, submission, log, publication, entityKey,
                 dnsRecord, live>>

Observe ==
  /\ wait.at = "observing"
  /\ wait' = IF registered.id = wait.expected /\ registered.authority = "registry"
             THEN [wait EXCEPT !.at = "observed", !.seen = registered]
             ELSE [wait EXCEPT !.at = "failed"]
  /\ UNCHANGED <<flow, registered, ids, claim, caller, submission, log, publication, entityKey,
                 dnsRecord, live>>

(* The loop: leave it when the record is published, fail on a failed status  *)
(* or at the deadline, else sleep and read again.                            *)
WaitDecides ==
  /\ wait.at = "observed"
  /\ wait' = [wait EXCEPT !.at =
       CASE wait.seen.status = "ready" /\ wait.seen.dnsPublished -> "verifying"
         [] wait.seen.status = "error" -> "failed"
         [] OTHER -> IF Expired THEN "failed" ELSE "sleeping"]
  /\ UNCHANGED <<flow, registered, ids, claim, caller, submission, log, publication, entityKey,
                 dnsRecord, live>>

(* The timer of delay, which also moves the clock on.                        *)
Wake ==
  /\ wait.at = "sleeping"
  /\ wait' = [wait EXCEPT !.at = "observing", !.clock = IF @ < Timeout THEN @ + 1 ELSE @]
  /\ UNCHANGED <<flow, registered, ids, claim, caller, submission, log, publication, entityKey,
                 dnsRecord, live>>

(* verifyPublicationEvidence confirms the record, or does not.               *)
Confirm ==
  /\ wait.at = "verifying"
  /\ \E at \in {"confirmed", "failed"} : wait' = [wait EXCEPT !.at = at]
  /\ UNCHANGED <<flow, registered, ids, claim, caller, submission, log, publication, entityKey,
                 dnsRecord, live>>

(* The signal aborts: at the timeout, or by the caller.                      *)
WaitAborted ==
  /\ wait.at \notin {"idle", "confirmed", "failed"}
  /\ wait' = [wait EXCEPT !.at = "failed"]
  /\ UNCHANGED <<flow, registered, ids, claim, caller, submission, log, publication, entityKey,
                 dnsRecord, live>>
-----------------------------------------------------------------------------
(* submitPreparedEvent snapshots the bytes and posts them; an attempt may    *)
(* come with other bytes under the same key.                                 *)
SubmitPreparedEvent(e) ==
  /\ flow = "submit" /\ submission.at = "idle" /\ submission.attempts < MaxAttempts
  /\ submission' = [submission EXCEPT !.at = "posted", !.buffer = e, !.sent = {e},
                                      !.outcome = "none", !.attempts = @ + 1]
  /\ UNCHANGED <<flow, registered, ids, claim, caller, wait, log, publication, entityKey,
                 dnsRecord, live>>

(* The caller reuses its array while the request runs.                       *)
OverwriteBuffer(e) ==
  /\ submission.at \in {"posted", "replied"} /\ e # submission.buffer
  /\ submission' = [submission EXCEPT !.buffer = e]
  /\ UNCHANGED <<flow, registered, ids, claim, caller, wait, log, publication, entityKey,
                 dnsRecord, live>>

Replies(r, h) == submission' = [submission EXCEPT !.at = "replied", !.reply = r, !.hash = h]

(* The registry answers: it accepts the entry, or repeats what it accepted   *)
(* under the key; it refuses it with a 4xx and no effect; it is busy; or it, *)
(* or a proxy, fails with a 5xx before or after the entry went into the log. *)
RegistryAnswers ==
  /\ submission.at = "posted"
  /\ \/ /\ log' = IF log = {} THEN submission.sent ELSE log
        /\ \/ Replies("accepted", log') \/ Replies("5xx", {}) \/ Replies("lost", {})
     \/ /\ UNCHANGED log
        /\ \/ Replies("pending", {}) \/ Replies("busy", {}) \/ Replies("5xx", {}) \/ Replies("lost", {})
     \/ /\ log # submission.sent
        /\ UNCHANGED log /\ Replies("4xx", {})
  /\ UNCHANGED <<flow, registered, ids, claim, caller, wait, publication, entityKey,
                 dnsRecord, live>>

(* Faulty variant: an error of a proxy counts as a refusal.                  *)
OutcomeOfAnyError(s) ==
  CASE s.reply = "accepted" -> IF s.hash = s.sent THEN "accepted" ELSE "invalid"
    [] s.reply \in {"pending", "busy"} -> "pending"
    [] s.reply \in {"4xx", "5xx"} -> "rejected"
    [] OTHER -> "indeterminate"

(* The result, or preparedEventSubmissionError: what a response says of the  *)
(* submitted bytes.  An accepted hash must be the hash of the snapshot.      *)
Outcome(s) ==
  CASE s.reply = "accepted" -> IF s.hash = s.sent THEN "accepted" ELSE "invalid"
    [] s.reply \in {"pending", "busy"} -> "pending"
    [] s.reply = "4xx" -> "rejected"
    [] OTHER -> "indeterminate"

(* The caller has the outcome; pending and indeterminate ones may be retried.*)
SubmissionSettles ==
  /\ submission.at = "replied"
  /\ submission' = [submission EXCEPT !.outcome = Outcome(submission),
       !.at = IF Outcome(submission) \in {"pending", "indeterminate"} THEN "idle" ELSE "settled"]
  /\ UNCHANGED <<flow, registered, ids, claim, caller, wait, log, publication, entityKey,
                 dnsRecord, live>>
-----------------------------------------------------------------------------
(* publishClientControlledRecord: getRegistration must answer that the       *)
(* client controls the publication; then the entity's signing key is read.   *)
PublishRecord ==
  /\ flow = "record" /\ publication.at = "idle"
  /\ publication' = [publication EXCEPT !.at =
       IF registered.authority = "client" THEN "authorized" ELSE "failed"]
  /\ UNCHANGED <<flow, registered, ids, claim, caller, wait, submission, log, entityKey, dnsRecord, live>>

ReadEntityKey ==
  /\ publication.at = "authorized"
  /\ publication' = [publication EXCEPT !.at = "keyed", !.kid = entityKey]
  /\ UNCHANGED <<flow, registered, ids, claim, caller, wait, submission, log, entityKey, dnsRecord, live>>

(* getIdentityRecordToSign: the registry offers a record for a key.          *)
OfferRecord(r, kid) ==
  /\ publication.at = "keyed"
  /\ publication' = IF kid = publication.kid
                    THEN [publication EXCEPT !.at = "offered", !.offered = {r}]
                    ELSE [publication EXCEPT !.at = "failed"]
  /\ UNCHANGED <<flow, registered, ids, claim, caller, wait, submission, log, entityKey, dnsRecord, live>>

(* A request of the call or the signature fails, or what the registry offers *)
(* is no canonical unsigned record or names no key.                          *)
PublicationFails ==
  /\ publication.at \in {"authorized", "keyed", "offered"}
  /\ publication' = [publication EXCEPT !.at = "failed"]
  /\ UNCHANGED <<flow, registered, ids, claim, caller, wait, submission, log, entityKey, dnsRecord, live>>

(* Faulty variant: the registry's record is signed as it is.                 *)
AnyTagsMatch(r) == r \in Records

(* assertKnownTagsCanonicalMatch: tags that the client does not know are not *)
(* compared, they are for the registry to manage.                            *)
KnownTagsMatch(r) == r.known = Configured

(* The provider signs the bytes that the registry offered, with the key that *)
(* is active by now.                                                         *)
SignOffered ==
  /\ publication.at = "offered"
  /\ publication' = IF \A r \in publication.offered : KnownTagsMatch(r)
                    THEN [publication EXCEPT !.at = "signed", !.signer = entityKey]
                    ELSE [publication EXCEPT !.at = "failed"]
  /\ UNCHANGED <<flow, registered, ids, claim, caller, wait, submission, log, entityKey, dnsRecord, live>>

(* submitIdentityRecordSignature: the registry publishes the record when the *)
(* signature is the named key's and the domain is still registered.  The     *)
(* response may be lost.                                                     *)
SubmitSignature ==
  /\ publication.at = "signed"
  /\ IF publication.signer = publication.kid /\ registered # NoRegistration
     THEN /\ dnsRecord' = publication.offered
          /\ \E at \in {"published", "failed"} : publication' = [publication EXCEPT !.at = at]
     ELSE publication' = [publication EXCEPT !.at = "failed"] /\ UNCHANGED dnsRecord
  /\ UNCHANGED <<flow, registered, ids, claim, caller, wait, submission, log, entityKey, live>>

RetryRecord ==
  /\ publication.at \in {"failed", "published"}
  /\ publication' = Publication
  /\ UNCHANGED <<flow, registered, ids, claim, caller, wait, submission, log, entityKey, dnsRecord, live>>

EntityKeyRotates ==
  /\ flow = "record" /\ entityKey < MaxEntityKeys
  /\ entityKey' = entityKey + 1
  /\ UNCHANGED <<flow, registered, ids, claim, caller, wait, submission, log, publication, dnsRecord, live>>
-----------------------------------------------------------------------------
LiveUnchanged ==
  UNCHANGED <<flow, registered, ids, claim, caller, wait, submission, log, publication,
              entityKey, dnsRecord>>

(* registerLiveAgent posts a copy of the caller's JWK; the reply must be of  *)
(* this request.  reissueLiveProof asks for a new challenge for the domain   *)
(* that the first one named.                                                 *)
RegisterLiveAgent(key) ==
  /\ flow = "live" /\ live.at = "idle"
  /\ live' = [live EXCEPT !.at = "posted", !.call = "register", !.jwk = key, !.posted = key]
  /\ LiveUnchanged

ReissueLiveProof ==
  /\ live.at \in {"challenged", "failed"} /\ live.domain # 0
  /\ live' = [live EXCEPT !.at = "posted", !.call = "reissue", !.jwk = live.posted,
                          !.challenge = NoChallenge, !.proved = NoChallenge]
  /\ LiveUnchanged

OverwriteJwk(key) ==
  /\ live.at = "posted" /\ key # live.jwk
  /\ live' = [live EXCEPT !.jwk = key]
  /\ LiveUnchanged

(* Faulty variant: the challenge is compared with the caller's object.       *)
ChallengeBindsCurrent(c, agent) ==
  /\ c.agent = agent /\ c.answers
  /\ c.key = live.jwk
  /\ live.call = "reissue" => c.fqdn = live.domain

(* parseLiveChallenge: the transcript to sign is bound to the response, to   *)
(* the key that was posted and, when reissued, to the domain of the route.   *)
ChallengeBinds(c, agent) ==
  /\ c.agent = agent /\ c.answers
  /\ c.key = live.posted
  /\ live.call = "reissue" => c.fqdn = live.domain

(* The registry's response to one of the two calls: another request's, one   *)
(* without a challenge, or with any challenge; or it is lost.                *)
ReadLiveReply(ours, agent, pending, c) ==
  /\ live.at = "posted"
  /\ live' =
       CASE ~ours -> [live EXCEPT !.at = "failed"]
         [] ours /\ ~pending /\ live.call = "register" -> [live EXCEPT !.at = "accepted"]
         [] OTHER ->
              IF ChallengeBinds(c, agent)
              THEN [live EXCEPT !.at = "challenged", !.agent = agent, !.challenge = c,
                                !.domain = c.fqdn]
              ELSE [live EXCEPT !.at = "failed"]
  /\ LiveUnchanged

(* submitLiveProof: the application signs the challenge that it was given.   *)
SubmitLiveProof ==
  /\ live.at = "challenged"
  /\ \E at \in {"proved", "failed"} :
       live' = [live EXCEPT !.at = at, !.proved = live.challenge]
  /\ LiveUnchanged
-----------------------------------------------------------------------------
Registering ==
  \/ \E c \in Callers :
       \/ RegisterAgent(c) \/ RegistryCreates(c) \/ ReadCreation(c) \/ RegistrationFails(c)
       \/ RetryRegistration(c) \/ ReadRegistration(c) \/ WaitBegins(c)
  \/ RegistryProceeds \/ Unregister \/ OtherRegisters

AwaitingPublication == Observe \/ WaitDecides \/ Wake \/ Confirm \/ WaitAborted

Submitting ==
  \/ \E e \in PreparedEntries : SubmitPreparedEvent(e) \/ OverwriteBuffer(e)
  \/ RegistryAnswers \/ SubmissionSettles

Publishing ==
  \/ PublishRecord \/ ReadEntityKey \/ PublicationFails \/ SignOffered \/ SubmitSignature
  \/ RetryRecord \/ EntityKeyRotates
  \/ \E r \in Records, kid \in 1..MaxEntityKeys : OfferRecord(r, kid)

Provisioning ==
  \/ \E key \in 1..MaxEntityKeys : RegisterLiveAgent(key) \/ OverwriteJwk(key)
  \/ \E ours, pending, answers \in BOOLEAN, agent, named \in 1..MaxIds,
        key \in 1..MaxEntityKeys, fqdn \in 1..2 :
       ReadLiveReply(ours, agent, pending,
                     [agent |-> named, key |-> key, answers |-> answers, fqdn |-> fqdn])
  \/ ReissueLiveProof \/ SubmitLiveProof

RegistryNext == Registering \/ AwaitingPublication \/ Submitting \/ Publishing \/ Provisioning

RegistrySpec == RegistryInit /\ [][RegistryNext]_registryVars
-----------------------------------------------------------------------------
(* registerAgent returns the registration that its idempotency key is bound  *)
(* to, with that registration's own details, however the domain changed      *)
(* hands meanwhile; a confirmed publication is of that registration, which   *)
(* the registry publishes; what is published under the client's signature    *)
(* says in every tag that the client knows what its own configuration says,  *)
(* whatever tags of its own the registry adds to the record it offers; and   *)
(* the challenge that a Live agent proves is for the key it posted and the   *)
(* agent and domain it was given, whatever became of the caller's JWK.       *)
RegistrationIsOurs ==
  /\ \A c \in Callers :
       caller[c].at = "returned" => caller[c].facts = claim /\ caller[c].reply = claim
  /\ wait.at = "confirmed" =>
       /\ wait.seen.id = claim /\ wait.seen.authority = "registry"
       /\ wait.seen.status = "ready" /\ wait.seen.dnsPublished
  /\ \A r \in dnsRecord : r.known = Configured
  /\ live.proved # NoChallenge =>
       /\ live.proved.key = live.posted /\ live.proved.agent = live.agent
       /\ live.proved.fqdn = live.domain

(* What submitPreparedEvent reports is true of the log: bytes reported       *)
(* accepted are in it, bytes reported rejected are not and never were, even  *)
(* after attempts with other bytes and while the caller overwrites its array.*)
OutcomeIsTrue ==
  submission.at = "settled" =>
    /\ submission.outcome = "accepted" => submission.sent = log
    /\ submission.outcome = "rejected" => submission.sent # log
=============================================================================
