------------------------------ MODULE JoseProfile ------------------------------
(***************************************************************************)
(* The JOSE profile (packages/jose): an agent signs JWTs for an audience   *)
(* and JWS over any bytes, a verifier resolves the identity that a token   *)
(* names and checks the token against that identity's key set.             *)
(*                                                                         *)
(* Signing reads the provider's key for the header and then asks the       *)
(* provider to sign, and the key may rotate in between.  Agents that run   *)
(* other code sign any claims with their own keys and publish any key set, *)
(* with other agents' keys and key ids in it.  A key id is the text        *)
(* "domain#kid" or a bare kid; the payload of a JWS may be a JWT's claims. *)
(***************************************************************************)
EXTENDS Integers, FiniteSets

CONSTANTS
  LocalDomains,     \* agents that run this code
  OtherDomains,     \* agents that need not
  Audiences,        \* domains that tokens are meant for
  JoseLifetimes,    \* values of the option expiry
  JoseMaxLifetime,  \* config.maxLifetime
  JoseSkew,         \* config.clockSkew
  MaxJoseKeys,      \* bound: keys of a local agent
  MaxJoseTokens,    \* bound: tokens that are made
  LastSecond        \* bound: the clock

VARIABLES
  joseClock,
  joseKey,          \* local domain -> the number of its provider's active key
  keySets,          \* local domain -> the entries [kid, key] of its key sets so far
  signing,          \* the call of createJWT or createJWS
  made,             \* the tokens they returned
  verifying         \* the call of verifyJWT or verifyJWS

joseVars == <<joseClock, joseKey, keySets, signing, made, verifying>>
-----------------------------------------------------------------------------
JoseDomains == LocalDomains \cup OtherDomains
Bare == "bare"
JoseKeys == (LocalDomains \X (1 .. MaxJoseKeys)) \cup (OtherDomains \X {1})
KidTexts == [domain : JoseDomains \cup {Bare}, kid : JoseKeys]
BareKid(k) == [domain |-> Bare, kid |-> k]

(* A bare key id names no domain; an agent runs this code or it does not.    *)
ASSUME JoseAssumption ==
  /\ Bare \notin JoseDomains /\ LocalDomains \cap OtherDomains = {}
  /\ {JoseMaxLifetime, JoseSkew, LastSecond} \cup JoseLifetimes \subseteq Nat
  /\ MaxJoseKeys \in Nat \ {0}

(* nbf = 0 stands for a token without one.                                   *)
Claims(iss, sub, aud, iat, exp, nbf) ==
  [iss |-> iss, sub |-> sub, aud |-> aud, iat |-> iat, exp |-> exp, nbf |-> nbf]
AllClaims ==
  {Claims(iss, sub, aud, iat, exp, nbf) :
     iss \in JoseDomains, sub \in JoseDomains, aud \in Audiences,
     iat \in {0, LastSecond}, exp \in {1, LastSecond + 1}, nbf \in {0, LastSecond}}

NotSigning == [at |-> "idle"]
NotVerifying == [at |-> "idle"]

JoseInit ==
  /\ joseClock = 0
  /\ joseKey = [d \in LocalDomains |-> 1]
  /\ keySets = [d \in LocalDomains |-> {[kid |-> BareKid(<<d, 1>>), key |-> <<d, 1>>]}]
  /\ signing = NotSigning
  /\ made = {}
  /\ verifying = NotVerifying
-----------------------------------------------------------------------------
(* createJWT checks its options, reads the signing key and then the clock.   *)
CreateJWT(d, aud, expiry, nbf) ==
  /\ signing.at = "idle" /\ Cardinality(made) < MaxJoseTokens
  /\ expiry > 0 /\ expiry <= JoseMaxLifetime
  /\ signing' = [at |-> "sign", form |-> "JWT", domain |-> d, kid |-> BareKid(<<d, joseKey[d]>>),
                 claims |-> Claims(d, d, aud, joseClock, joseClock + expiry, nbf)]
  /\ UNCHANGED <<joseClock, joseKey, keySets, made, verifying>>

(* createJWS names the domain in the key id and signs what it is given; the  *)
(* payloads that differ to a verifier are those that could pass for claims.  *)
ClaimLikeBytes == {c \in AllClaims : c.sub = c.iss /\ c.nbf = 0}

CreateJWS(d, payload) ==
  /\ signing.at = "idle" /\ Cardinality(made) < MaxJoseTokens
  /\ signing' = [at |-> "sign", form |-> "JWS", domain |-> d,
                 kid |-> [domain |-> d, kid |-> <<d, joseKey[d]>>], claims |-> payload]
  /\ UNCHANGED <<joseClock, joseKey, keySets, made, verifying>>

(* The provider signs with its active key, or refuses during an activation.  *)
SignCompact ==
  /\ signing.at = "sign"
  /\ \/ made' = made \cup {[form |-> signing.form, by |-> <<signing.domain, joseKey[signing.domain]>>,
                            kid |-> signing.kid, claims |-> signing.claims, algAllowed |-> TRUE]}
     \/ UNCHANGED made
  /\ signing' = NotSigning
  /\ UNCHANGED <<joseClock, joseKey, keySets, verifying>>

(* What agents that run other code may have signed.                          *)
OtherTokens ==
  [form : {"other"}, by : OtherDomains \X {1}, kid : KidTexts, claims : AllClaims,
   algAllowed : BOOLEAN]
-----------------------------------------------------------------------------
Refused == verifying' = [at |-> "rejected"]
Resolving(form, t, domain, expected) ==
  verifying' = [at |-> "resolve", form |-> form, token |-> t, domain |-> domain,
                expected |-> expected, key |-> <<>>, acceptedAt |-> 0]

(* Faulty variant: nbf is not looked at.                                     *)
ClaimsHoldAnyNbf(c, expected) ==
  /\ c.sub = c.iss
  /\ c.aud = expected
  /\ c.iat <= joseClock + JoseSkew
  /\ c.exp > c.iat /\ c.exp - c.iat <= JoseMaxLifetime /\ c.exp > joseClock

(* The claims, before the issuer is resolved.                                *)
ClaimsHold(c, expected) ==
  /\ c.sub = c.iss
  /\ c.aud = expected
  /\ c.iat <= joseClock + JoseSkew
  /\ c.exp > c.iat /\ c.exp - c.iat <= JoseMaxLifetime /\ c.exp > joseClock
  /\ c.nbf <= joseClock + JoseSkew

VerifyJWT(t, expected) ==
  /\ verifying.at = "idle"
  /\ IF t.algAllowed /\ ClaimsHold(t.claims, expected)
     THEN Resolving("JWT", t, t.claims.iss, expected) ELSE Refused
  /\ UNCHANGED <<joseClock, joseKey, keySets, signing, made>>

(* parseKeyId: the key id must name a domain.                                *)
NamesDomain(text) == text.domain # Bare

VerifyJWS(t) ==
  /\ verifying.at = "idle"
  /\ IF t.algAllowed /\ NamesDomain(t.kid)
     THEN Resolving("JWS", t, t.kid.domain, CHOOSE a \in Audiences : TRUE) ELSE Refused
  /\ UNCHANGED <<joseClock, joseKey, keySets, signing, made>>

(* verifyDomain returns an identity with one of the domain's key sets; an    *)
(* agent that runs other code may have published any.                        *)
KeySetEntries(d) ==
  IF d \in LocalDomains THEN keySets[d] ELSE [kid : KidTexts, key : JoseKeys]

(* keyById compares whole texts.                                             *)
KeyById(text) ==
  /\ \E entry \in KeySetEntries(verifying.domain) :
       IF entry.kid = text
       THEN verifying' = [verifying EXCEPT !.at = "verify", !.key = entry.key] ELSE Refused
  /\ UNCHANGED <<joseClock, joseKey, keySets, signing, made>>

(* Faulty variant: what precedes a "#" in a JWT's key id is ignored.         *)
ResolveIssuerByKidPart ==
  /\ verifying.at = "resolve" /\ verifying.form = "JWT"
  /\ KeyById(BareKid(verifying.token.kid.kid))

ResolveIssuer ==
  /\ verifying.at = "resolve" /\ verifying.form = "JWT"
  /\ KeyById(verifying.token.kid)

ResolveSigner ==
  /\ verifying.at = "resolve" /\ verifying.form = "JWS"
  /\ KeyById(BareKid(verifying.token.kid.kid))

Concludes(accepted) ==
  /\ IF accepted
     THEN verifying' = [verifying EXCEPT !.at = "accepted", !.acceptedAt = joseClock]
     ELSE Refused
  /\ UNCHANGED <<joseClock, joseKey, keySets, signing, made>>

(* verifyWithKey; then, for a JWT, its expiry once more.                     *)
VerifyJWTSignature ==
  /\ verifying.at = "verify" /\ verifying.form = "JWT"
  /\ Concludes(verifying.token.by = verifying.key /\ verifying.token.claims.exp > joseClock)

VerifyJWSSignature ==
  /\ verifying.at = "verify" /\ verifying.form = "JWS"
  /\ Concludes(verifying.token.by = verifying.key)

(* The identity is refused, or the budget ends.                              *)
VerificationEnds ==
  /\ verifying.at \in {"resolve", "verify"}
  /\ Refused
  /\ UNCHANGED <<joseClock, joseKey, keySets, signing, made>>
-----------------------------------------------------------------------------
ActivateNext(d) ==
  /\ joseKey[d] < MaxJoseKeys
  /\ joseKey' = [joseKey EXCEPT ![d] = @ + 1]
  /\ UNCHANGED <<joseClock, keySets, signing, made, verifying>>

PublishNext(d) ==
  /\ keySets' = [keySets EXCEPT ![d] = @ \cup
       {[kid |-> BareKid(<<d, joseKey[d]>>), key |-> <<d, joseKey[d]>>]}]
  /\ UNCHANGED <<joseClock, joseKey, signing, made, verifying>>

SecondPasses ==
  /\ joseClock < LastSecond
  /\ joseClock' = joseClock + 1
  /\ UNCHANGED <<joseKey, keySets, signing, made, verifying>>

(* A verification reads no token but its own: it begins when no other is     *)
(* being made, and a token of other code when none has been.                 *)
JoseNext ==
  \/ \E d \in LocalDomains :
       \/ /\ verifying = NotVerifying
          /\ \/ \E aud \in Audiences, expiry \in JoseLifetimes, nbf \in {0, LastSecond} :
                  CreateJWT(d, aud, expiry, nbf)
             \/ \E payload \in ClaimLikeBytes : CreateJWS(d, payload)
       \/ ActivateNext(d) \/ PublishNext(d)
  \/ SignCompact
  \/ /\ signing = NotSigning
     /\ \E t \in IF made = {} THEN OtherTokens ELSE made :
          VerifyJWS(t) \/ \E expected \in Audiences : VerifyJWT(t, expected)
  \/ ResolveIssuer \/ ResolveSigner \/ VerifyJWTSignature \/ VerifyJWSSignature
  \/ VerificationEnds \/ SecondPasses

JoseSpec == JoseInit /\ [][JoseNext]_joseVars
-----------------------------------------------------------------------------
(* What is accepted as a JWT of an agent that runs this code was signed by   *)
(* it, in its createJWT and with the key that the header names, never by     *)
(* createJWS over bytes that look like claims, and what is accepted as its   *)
(* JWS by its createJWS; whatever key sets and key ids other agents publish  *)
(* and however keys rotate while a token is made.  A JWT is for the expected *)
(* audience, within the longest lifetime, and neither expired nor to be used *)
(* only later (nbf) when its verification ends.                              *)
AcceptedJoseIsGenuine ==
  verifying.at = "accepted" =>
    LET t == verifying.token IN
    /\ verifying.domain \in LocalDomains =>
         t \in made /\ t.form = verifying.form /\ t.by = t.kid.kid /\ t.by[1] = verifying.domain
    /\ verifying.form = "JWT" =>
         /\ t.claims.iss = verifying.domain /\ t.claims.sub = verifying.domain
         /\ t.claims.aud = verifying.expected
         /\ t.claims.iat <= verifying.acceptedAt + JoseSkew
         /\ t.claims.nbf <= verifying.acceptedAt + JoseSkew
         /\ verifying.acceptedAt < t.claims.exp
         /\ t.claims.exp <= t.claims.iat + JoseMaxLifetime
=============================================================================
