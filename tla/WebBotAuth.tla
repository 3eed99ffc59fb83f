------------------------------ MODULE WebBotAuth ------------------------------
(***************************************************************************)
(* The Web Bot Auth profile (packages/web-bot-auth): an agent signs        *)
(* requests and serves the signed directory of its key, a verifier checks  *)
(* a request against the directory and against the agent's DNSid identity, *)
(* refreshes an identity whose key does not match at most once per         *)
(* cooldown, and consumes the request's nonce.                             *)
(*                                                                         *)
(* A request is identified by its nonce.  Between any two awaits of a      *)
(* verification time passes, the agent rotates its key before or after it  *)
(* publishes it, other verifications move, and the budget may run out.     *)
(* The identity resolver and the nonce store are external: the resolver    *)
(* serves an identity from its cache while it is fresh, the store retains  *)
(* a nonce through retainUntil and may then forget it.                     *)
(***************************************************************************)
EXTENDS Integers, Sequences, FiniteSets

CONSTANTS
  Domains,          \* signer domains
  Verifications,    \* calls of verifyWebBotAuthSignedRequest
  SignatureTTL,     \* config.signatureTTL
  DirectoryTTL,     \* config.directorySignatureTTL
  ClockSkew,        \* config.clockSkew
  IdentityTTL,      \* how long a resolved identity stays fresh
  Cooldown,         \* 5000 ms
  CooldownSlots,    \* 1024
  MaxClock,         \* bound: the clock
  MaxSigned,        \* bound: signed requests
  MaxKeys           \* bound: operational keys of a domain

(* Times in seconds, and a number of slots.                                  *)
ASSUME WbaAssumption ==
  {SignatureTTL, DirectoryTTL, ClockSkew, IdentityTTL, Cooldown, CooldownSlots, MaxClock}
    \subseteq Nat

VARIABLES
  clock,            \* the clock, of agents and verifier
  operational,      \* domain -> its operational key
  published,        \* domain -> [key, since]: the key its DNSid identity states
  cached,           \* domain -> the resolver's cached identity
  cooldowns,        \* refreshCooldowns: domain -> deadline, of the domains in it
  sent,             \* the signed requests; the nonce is the position
  verification,     \* verification -> its progress
  nonces,           \* the nonce store: nonce -> retainUntil, of the nonces in it
  refreshes         \* domain -> when refreshDomain was called

wbaVars == <<clock, operational, published, cached, cooldowns, sent, verification,
             nonces, refreshes>>
-----------------------------------------------------------------------------
NoIdentity == [key |-> 0, until |-> 0]
NoDirectory == [key |-> 0, created |-> 0, served |-> 0, started |-> 0]

Waiting ==
  [at |-> "waiting", nonce |-> 0, directory |-> NoDirectory,
   identity |-> NoIdentity, acceptedAt |-> 0]

WbaInit ==
  /\ clock = 0
  /\ operational = [d \in Domains |-> 1]
  /\ published = [d \in Domains |-> [key |-> 1, since |-> 0]]
  /\ cached = [d \in Domains |-> NoIdentity]
  /\ cooldowns = [d \in {} |-> 0]
  /\ sent = <<>>
  /\ verification = [v \in Verifications |-> Waiting]
  /\ nonces = [n \in {} |-> 0]
  /\ refreshes = [d \in Domains |-> {}]
-----------------------------------------------------------------------------
(* createWebBotAuthSignedRequest.  signHttpMessage throws when the provider  *)
(* signs with another key than the one that was read, so that a request that *)
(* exists carries the key and the time that were read together.              *)
SignRequest(d) ==
  /\ Len(sent) < MaxSigned
  /\ sent' = Append(sent, [domain |-> d, key |-> operational[d], created |-> clock])
  /\ UNCHANGED <<clock, operational, published, cached, cooldowns, verification,
                 nonces, refreshes>>
-----------------------------------------------------------------------------
VerificationAt(v, at) == verification[v].at = at
Request(v) == sent[verification[v].nonce]

(* validity of the request's signature: created <= now + skew and            *)
(* expires >= now - skew.                                                    *)
RequestValid(q) ==
  q.created <= clock + ClockSkew /\ clock <= q.created + SignatureTTL + ClockSkew

(* What serveHttpMessageSignaturesDirectory states: created is backdated,    *)
(* and max-age ends when the signature expires.                              *)
Backdating == IF 5 <= DirectoryTTL - 1 THEN 5 ELSE DirectoryTTL - 1
DirectoryMaxAge(g) == g.created + DirectoryTTL - g.served

(* validity of the directory's signature, and directoryFreshness: the age of *)
(* the response counts from the start of the fetch.                          *)
DirectoryValid(g) ==
  /\ g.created <= clock /\ clock <= g.created + DirectoryTTL + ClockSkew
  /\ clock < g.started + DirectoryMaxAge(g)

(* fresh: the request's and the directory's signatures, the directory, and   *)
(* the verified identity.                                                    *)
Fresh(v, id) ==
  /\ RequestValid(Request(v)) /\ DirectoryValid(verification[v].directory)
  /\ clock < id.until

Bound(v, id) == id.key = Request(v).key

Rejected == [Waiting EXCEPT !.at = "rejected"]

(* select, validity and covers; then the directory is requested.             *)
VerifyBegins(v, n) ==
  /\ VerificationAt(v, "waiting")
  /\ verification' = [verification EXCEPT ![v] =
       IF RequestValid(sent[n])
       THEN [Waiting EXCEPT !.at = "fetching", !.nonce = n, !.directory.started = clock]
       ELSE Rejected]
  /\ UNCHANGED <<clock, operational, published, cached, cooldowns, sent, nonces,
                 refreshes>>

(* serveHttpMessageSignaturesDirectory reads the operational key.            *)
ServeBegins(v) ==
  /\ VerificationAt(v, "fetching")
  /\ verification' = [verification EXCEPT ![v].at = "serving",
       ![v].directory.key = operational[Request(v).domain],
       ![v].directory.created = clock - Backdating,
       ![v].directory.served = clock]
  /\ UNCHANGED <<clock, operational, published, cached, cooldowns, sent, nonces,
                 refreshes>>

(* The agent signs the directory, unless its key changed or the signature    *)
(* expired meanwhile; the verifier checks it, finds the request's key in it, *)
(* and verifies both signatures.                                             *)
ReceiveDirectory(v) ==
  /\ VerificationAt(v, "serving")
  /\ LET g == verification[v].directory IN
     verification' = [verification EXCEPT ![v] =
       IF /\ operational[Request(v).domain] = g.key
          /\ clock < g.created + DirectoryTTL
          /\ DirectoryValid(g)
          /\ g.key = Request(v).key
       THEN [@ EXCEPT !.at = "resolving"] ELSE Rejected]
  /\ UNCHANGED <<clock, operational, published, cached, cooldowns, sent, nonces,
                 refreshes>>

(* The cooldowns whose deadline has passed are dropped first.                *)
LiveCooldowns ==
  LET live == {d \in DOMAIN cooldowns : cooldowns[d] > clock} IN
  [d \in live |-> cooldowns[d]]

(* Faulty variant: only the domain itself is looked up, not the size.        *)
SuppressedByDomain(d) == d \in DOMAIN LiveCooldowns

Suppressed(d) ==
  d \in DOMAIN LiveCooldowns \/ Cardinality(DOMAIN LiveCooldowns) >= CooldownSlots

(* The identity as its domain publishes it now, or from the resolver's cache.*)
Published(d) == [key |-> published[d].key, until |-> clock + IdentityTTL]
Resolved(d) == IF clock < cached[d].until THEN cached[d] ELSE Published(d)

(* verifyDomain resolves.  An identity that states another key is refreshed, *)
(* unless the domain's cooldown or the number of cooldowns suppresses it.    *)
ResolveIdentity(v) ==
  /\ VerificationAt(v, "resolving")
  /\ LET d == Request(v).domain
         id == Resolved(d)
         progress == [verification[v] EXCEPT !.identity = id] IN
     /\ cached' = [cached EXCEPT ![d] = id]
     /\ \/ /\ ~Fresh(v, id)
           /\ verification' = [verification EXCEPT ![v] = Rejected]
           /\ UNCHANGED <<cooldowns, refreshes>>
        \/ /\ Fresh(v, id) /\ Bound(v, id)
           /\ verification' = [verification EXCEPT ![v] = [progress EXCEPT !.at = "consuming"]]
           /\ UNCHANGED <<cooldowns, refreshes>>
        \/ /\ Fresh(v, id) /\ ~Bound(v, id) /\ Suppressed(d)
           /\ verification' = [verification EXCEPT ![v] = Rejected]
           /\ cooldowns' = LiveCooldowns
           /\ UNCHANGED refreshes
        \/ /\ Fresh(v, id) /\ ~Bound(v, id) /\ ~Suppressed(d)
           /\ verification' = [verification EXCEPT ![v] = [progress EXCEPT !.at = "refreshing"]]
           /\ cooldowns' = [e \in DOMAIN LiveCooldowns \cup {d} |->
                              IF e = d THEN clock + Cooldown ELSE cooldowns[e]]
           /\ refreshes' = [refreshes EXCEPT ![d] = @ \cup {clock}]
  /\ UNCHANGED <<clock, operational, published, sent, nonces>>

(* refreshDomain resolves.                                                   *)
RefreshIdentity(v) ==
  /\ VerificationAt(v, "refreshing")
  /\ LET d == Request(v).domain
         id == Published(d) IN
     /\ cached' = [cached EXCEPT ![d] = id]
     /\ verification' = [verification EXCEPT ![v] =
          IF Fresh(v, id) /\ Bound(v, id)
          THEN [@ EXCEPT !.at = "consuming", !.identity = id] ELSE Rejected]
  /\ UNCHANGED <<clock, operational, published, cooldowns, sent, nonces, refreshes>>

(* Faulty variant: the nonce is retained through the present only.           *)
ConsumeNonceBriefly(v) ==
  /\ VerificationAt(v, "consuming")
  /\ LET n == verification[v].nonce IN
     IF n \in DOMAIN nonces
     THEN /\ verification' = [verification EXCEPT ![v] = Rejected]
          /\ UNCHANGED nonces
     ELSE /\ nonces' = [k \in DOMAIN nonces \cup {n} |-> IF k = n THEN clock ELSE nonces[k]]
          /\ verification' = [verification EXCEPT ![v].at = "consumed"]
  /\ UNCHANGED <<clock, operational, published, cached, cooldowns, sent, refreshes>>

(* consumeNonce: the store takes the nonce, once, and retains it.            *)
ConsumeNonce(v) ==
  /\ VerificationAt(v, "consuming")
  /\ LET n == verification[v].nonce IN
     IF n \in DOMAIN nonces
     THEN /\ verification' = [verification EXCEPT ![v] = Rejected]
          /\ UNCHANGED nonces
     ELSE /\ nonces' = [k \in DOMAIN nonces \cup {n} |->
                          IF k = n THEN sent[n].created + SignatureTTL + ClockSkew
                          ELSE nonces[k]]
          /\ verification' = [verification EXCEPT ![v].at = "consumed"]
  /\ UNCHANGED <<clock, operational, published, cached, cooldowns, sent, refreshes>>

(* Faulty variant: nothing is checked after the nonce.                       *)
AcceptAtOnce(v) ==
  /\ VerificationAt(v, "consumed")
  /\ verification' = [verification EXCEPT ![v] =
       [@ EXCEPT !.at = "accepted", !.acceptedAt = clock, !.directory = NoDirectory]]
  /\ UNCHANGED <<clock, operational, published, cached, cooldowns, sent, nonces,
                 refreshes>>

(* The store has answered: everything must be fresh once more.               *)
Accept(v) ==
  /\ VerificationAt(v, "consumed")
  /\ verification' = [verification EXCEPT ![v] =
       IF Fresh(v, verification[v].identity)
       THEN [@ EXCEPT !.at = "accepted", !.acceptedAt = clock, !.directory = NoDirectory]
       ELSE Rejected]
  /\ UNCHANGED <<clock, operational, published, cached, cooldowns, sent, nonces,
                 refreshes>>

(* A fetch fails, the caller aborts or the budget runs out.                  *)
VerifyFails(v) ==
  /\ verification[v].at \notin {"waiting", "accepted", "rejected"}
  /\ verification' = [verification EXCEPT ![v] = Rejected]
  /\ UNCHANGED <<clock, operational, published, cached, cooldowns, sent, nonces,
                 refreshes>>
-----------------------------------------------------------------------------
ClockTicks ==
  /\ clock < MaxClock
  /\ clock' = clock + 1
  /\ UNCHANGED <<operational, published, cached, cooldowns, sent, verification,
                 nonces, refreshes>>

(* An agent activates its next key; its DNSid identity follows.              *)
RotateKey(d) ==
  /\ operational[d] < MaxKeys
  /\ operational' = [operational EXCEPT ![d] = @ + 1]
  /\ UNCHANGED <<clock, published, cached, cooldowns, sent, verification, nonces,
                 refreshes>>

PublishKey(d) ==
  /\ published[d].key # operational[d]
  /\ published' = [published EXCEPT ![d] = [key |-> operational[d], since |-> clock]]
  /\ UNCHANGED <<clock, operational, cached, cooldowns, sent, verification, nonces,
                 refreshes>>

(* The store may forget a nonce after retainUntil.                           *)
ForgetNonce(n) ==
  /\ nonces[n] < clock
  /\ nonces' = [k \in DOMAIN nonces \ {n} |-> nonces[k]]
  /\ UNCHANGED <<clock, operational, published, cached, cooldowns, sent,
                 verification, refreshes>>

Verify(v) ==
  \/ \E n \in DOMAIN sent : VerifyBegins(v, n)
  \/ ServeBegins(v) \/ ReceiveDirectory(v) \/ ResolveIdentity(v)
  \/ RefreshIdentity(v) \/ ConsumeNonce(v) \/ Accept(v) \/ VerifyFails(v)

WbaNext ==
  \/ \E d \in Domains : SignRequest(d) \/ RotateKey(d) \/ PublishKey(d)
  \/ \E v \in Verifications : Verify(v)
  \/ \E n \in DOMAIN nonces : ForgetNonce(n)
  \/ ClockTicks

WbaSpec == WbaInit /\ [][WbaNext]_wbaVars
-----------------------------------------------------------------------------
(* With a nonce policy a signed request is accepted at most once, although   *)
(* the store may forget its nonce as soon as retainUntil has passed.         *)
AcceptedOnce ==
  \A v, w \in Verifications :
    /\ VerificationAt(v, "accepted") /\ VerificationAt(w, "accepted")
    /\ verification[v].nonce = verification[w].nonce
    => v = w

(* An accepted request is within its lifetime and the skew, and was signed   *)
(* with the key that the DNSid identity of its domain states, or stated less *)
(* than an identity's freshness ago.                                         *)
AcceptedIsBound ==
  \A v \in Verifications :
    VerificationAt(v, "accepted") =>
      LET q == Request(v)
          t == verification[v].acceptedAt
          p == published[q.domain] IN
      /\ t <= q.created + SignatureTTL + ClockSkew
      /\ p.key = q.key \/ t < p.since + IdentityTTL

(* A mismatching key makes the verifier refresh a domain at most once per    *)
(* cooldown, and never more than CooldownSlots domains within one.           *)
RefreshIsRationed ==
  /\ \A d \in Domains : \A s, t \in refreshes[d] : s < t => t - s >= Cooldown
  /\ \A t \in 0..MaxClock :
       Cardinality({d \in Domains : \E s \in refreshes[d] : t <= s /\ s < t + Cooldown})
         <= CooldownSlots
=============================================================================
