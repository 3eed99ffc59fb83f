---------------------------- MODULE OidcFederation ----------------------------
(***************************************************************************)
(* OIDC federation (packages/oidc): an agent resolves a token endpoint     *)
(* from the minter's defaults and the options of one call, signs a client  *)
(* assertion for the issuer and exchanges it there for a token; a verifier *)
(* checks a token against the issuer's keys and the subject's identity.    *)
(*                                                                         *)
(* A URL is its origin.  A discovery document says whatever its server     *)
(* likes; the issuers themselves issue tokens only for assertions that are *)
(* addressed to them.  Between two awaits time passes, the agent rotates   *)
(* its key and the issuers retire theirs.                                  *)
(***************************************************************************)
EXTENDS Integers, Sequences

CONSTANTS
  Origins,            \* origins of issuers and servers
  AssertionLifetime,  \* config.assertionLifetime
  TokenLifetime,      \* how long a token is valid
  TokenSkew,          \* config.clockSkew
  MaxTime,            \* bound: the clock
  MaxAgentKeys,       \* bound: keys of the agent
  MaxIssuerKeys       \* bound: keys of an issuer

VARIABLES
  time,               \* the clock
  defaults,           \* the minter's endpoint options
  agentKey,           \* the agent's operational key
  issuerKeys,         \* origin -> [current, retiredAt: key -> when it left the JWKS]
  mint,               \* the call of mintToken or exchangeOIDCToken
  posted,             \* assertions sent to a token endpoint, and whether this call made them
  token,              \* the token that was issued, or NoToken
  check               \* the call of verifyOIDCToken

oidcVars == <<time, defaults, agentKey, issuerKeys, mint, posted, token, check>>
-----------------------------------------------------------------------------
None == "none"
Choices == Origins \cup {None}
Options == [issuer : Choices, serverUrl : Choices, discoveryUrl : Choices, tokenEndpoint : Choices]

(* validateEndpointMode.                                                     *)
ValidMode(o) ==
  CASE o.tokenEndpoint # None ->
         o.issuer # None /\ o.serverUrl = None /\ o.discoveryUrl = None
    [] o.tokenEndpoint = None /\ o.issuer # None -> o.serverUrl = None
    [] o.tokenEndpoint = None /\ o.issuer = None /\ o.serverUrl = None -> o.discoveryUrl = None
    [] OTHER -> TRUE

Else(a, b) == IF a # None THEN a ELSE b

(* endpointOptionsForCall: an endpoint selector of the call replaces the     *)
(* defaults wholesale, except that a token endpoint takes their issuer.      *)
OptionsForCall(d, o) ==
  CASE o.tokenEndpoint # None ->
         [o EXCEPT !.issuer = Else(@, IF o.serverUrl = None THEN d.issuer ELSE None)]
    [] o.tokenEndpoint = None /\ (o.issuer # None \/ o.serverUrl # None) -> o
    [] OTHER -> [d EXCEPT !.discoveryUrl = Else(o.discoveryUrl, @)]

NoToken == [iss |-> None, key |-> 0, iat |-> 0, nbf |-> 0, exp |-> 0]
NoMint == [at |-> "idle", options |-> [issuer |-> None, serverUrl |-> None,
            discoveryUrl |-> None, tokenEndpoint |-> None],
           aud |-> None, dest |-> None, key |-> 0, iat |-> 0]
NoCheck == [at |-> "idle", begun |-> 0, acceptedAt |-> 0]

OidcInit ==
  /\ time = 0
  /\ defaults \in {o \in Options : ValidMode(o)}
  /\ agentKey = 1
  /\ issuerKeys = [i \in Origins |-> [current |-> 1, retiredAt |-> <<>>]]
  /\ mint = NoMint
  /\ posted = {}
  /\ token = NoToken
  /\ check = NoCheck
-----------------------------------------------------------------------------
EndpointResolved(o, aud, dest) ==
  mint' = [NoMint EXCEPT !.at = "resolved", !.options = o, !.aud = aud, !.dest = dest]
MintFails == mint' = [NoMint EXCEPT !.at = "failed"]

(* mintToken selects the mode.  With an explicit endpoint nothing is fetched.*)
MintBegins(o) ==
  /\ mint.at = "idle"
  /\ LET options == OptionsForCall(defaults, o) IN
     \/ /\ ~ValidMode(options) /\ MintFails
     \/ /\ ValidMode(options) /\ options.tokenEndpoint # None
        /\ IF options.tokenEndpoint = options.issuer
           THEN EndpointResolved(options, options.issuer, options.tokenEndpoint)
           ELSE MintFails
     \/ /\ ValidMode(options) /\ options.tokenEndpoint = None
        /\ IF options.issuer = None /\ options.serverUrl = None
           THEN MintFails
           ELSE mint' = [NoMint EXCEPT !.at = "discovering", !.options = options]
  /\ UNCHANGED <<time, defaults, agentKey, issuerKeys, posted, token, check>>

(* Faulty variant: the discovered endpoint may be anywhere.                  *)
IssuerDiscoveredAnywhere(issuer, endpoint) ==
  /\ mint.at = "discovering" /\ mint.options.issuer # None
  /\ IF issuer = mint.options.issuer
     THEN EndpointResolved(mint.options, issuer, endpoint) ELSE MintFails
  /\ UNCHANGED <<time, defaults, agentKey, issuerKeys, posted, token, check>>

(* discoverMintOIDCIssuer, discoverExplicitOIDCIssuer: the document names    *)
(* the very issuer and an endpoint on its origin.                            *)
IssuerDiscovered(issuer, endpoint) ==
  /\ mint.at = "discovering" /\ mint.options.issuer # None
  /\ IF issuer = mint.options.issuer /\ endpoint = issuer
     THEN EndpointResolved(mint.options, issuer, endpoint) ELSE MintFails
  /\ UNCHANGED <<time, defaults, agentKey, issuerKeys, posted, token, check>>

(* discoverServerOIDCIssuer: the issuer is the document's, the endpoint is   *)
(* /token of the server that the caller named.                               *)
ServerDiscovered(issuer) ==
  /\ mint.at = "discovering" /\ mint.options.issuer = None
  /\ EndpointResolved(mint.options, issuer, mint.options.serverUrl)
  /\ UNCHANGED <<time, defaults, agentKey, issuerKeys, posted, token, check>>

(* The fetch fails, or the document is refused.                              *)
DiscoveryFails ==
  /\ mint.at = "discovering"
  /\ MintFails
  /\ UNCHANGED <<time, defaults, agentKey, issuerKeys, posted, token, check>>

(* createOIDCAssertionJWT reads the clock and the signing key.               *)
AssertionBegins ==
  /\ mint.at = "resolved"
  /\ mint' = [mint EXCEPT !.at = "keyed", !.key = agentKey, !.iat = time]
  /\ UNCHANGED <<time, defaults, agentKey, issuerKeys, posted, token, check>>

(* Faulty variant: the signature is not verified with the key that was read. *)
AssertionPostedUnverified ==
  /\ mint.at = "keyed"
  /\ mint' = [mint EXCEPT !.at = "posted", !.key = agentKey]
  /\ posted' = posted \cup {[aud |-> mint.aud, dest |-> mint.dest,
                            kid |-> mint.key, key |-> agentKey, own |-> TRUE,
                            server |-> mint.options.serverUrl]}
  /\ UNCHANGED <<time, defaults, agentKey, issuerKeys, token, check>>

(* signCompact verifies the signature with the key it read, and              *)
(* exchangeOIDCTokenAt posts the assertion.                                  *)
AssertionPosted ==
  /\ mint.at = "keyed"
  /\ IF agentKey = mint.key
     THEN /\ mint' = [mint EXCEPT !.at = "posted"]
          /\ posted' = posted \cup {[aud |-> mint.aud, dest |-> mint.dest,
                                    kid |-> mint.key, key |-> agentKey, own |-> TRUE,
                                    server |-> mint.options.serverUrl]}
     ELSE MintFails /\ UNCHANGED posted
  /\ UNCHANGED <<time, defaults, agentKey, issuerKeys, token, check>>

(* exchangeOIDCToken with an assertion of the caller's, minted earlier for   *)
(* some issuer: it is decoded, whatever key signed it, and posted only when  *)
(* it is addressed to this one.                                              *)
SuppliedAssertionPosted(aud, iat, key) ==
  /\ mint.at = "resolved" /\ mint.options.issuer # None
  /\ IF aud = mint.aud
     THEN /\ mint' = [mint EXCEPT !.at = "posted", !.key = agentKey, !.iat = iat]
          /\ posted' = posted \cup {[aud |-> aud, dest |-> mint.dest,
                                    kid |-> agentKey, key |-> key, own |-> FALSE,
                                    server |-> mint.options.serverUrl]}
     ELSE MintFails /\ UNCHANGED posted
  /\ UNCHANGED <<time, defaults, agentKey, issuerKeys, token, check>>

(* The token endpoint answers.  An issuer answers an assertion addressed to  *)
(* it that has not expired with a token, valid at once or from some later    *)
(* time on; anything else is an error.                                       *)
TokenAnswered ==
  /\ mint.at = "posted"
  /\ \/ /\ mint.aud = mint.dest /\ time < mint.iat + AssertionLifetime
        /\ \E nbf \in time..(time + TokenLifetime) :
             token' = [iss |-> mint.aud, key |-> issuerKeys[mint.aud].current,
                       iat |-> time, nbf |-> nbf, exp |-> time + TokenLifetime]
        /\ mint' = [NoMint EXCEPT !.at = "minted"]
     \/ MintFails /\ UNCHANGED token
  /\ UNCHANGED <<time, defaults, agentKey, issuerKeys, posted, check>>
-----------------------------------------------------------------------------
(* Faulty variant: nbf is not looked at.                                     *)
TokenTimesAnyNbf == time < token.exp /\ token.iat <= time + TokenSkew

(* validateTokenTimes.                                                       *)
TokenTimes ==
  time < token.exp /\ token.iat <= time + TokenSkew /\ token.nbf <= time + TokenSkew

CheckAt(at) == check.at = at
CheckFails == check' = [NoCheck EXCEPT !.at = "rejected"]
Unpublished(i) == DOMAIN issuerKeys[i].retiredAt
Jwks(i) == (1..issuerKeys[i].current) \ Unpublished(i)

(* verifyTokenWithinBudget: issuer, header, audience and algorithm are       *)
(* checked, and the times a first time.                                      *)
CheckBegins ==
  /\ CheckAt("idle") /\ token # NoToken
  /\ IF TokenTimes THEN check' = [NoCheck EXCEPT !.at = "discovering", !.begun = time]
     ELSE CheckFails
  /\ UNCHANGED <<time, defaults, agentKey, issuerKeys, mint, posted, token>>

(* The issuer's discovery document is refused unless it names the issuer and *)
(* endpoints on its origin.                                                  *)
CheckDiscovered(issuer, endpoint) ==
  /\ CheckAt("discovering")
  /\ IF issuer = token.iss /\ endpoint = issuer
     THEN check' = [check EXCEPT !.at = "fetching"] ELSE CheckFails
  /\ UNCHANGED <<time, defaults, agentKey, issuerKeys, mint, posted, token>>

(* The JWKS arrives: the key is looked up, the times are checked again, and  *)
(* the signature is verified.                                                *)
CheckKeys ==
  /\ CheckAt("fetching")
  /\ IF token.key \in Jwks(token.iss) /\ TokenTimes
     THEN check' = [check EXCEPT !.at = "resolving"] ELSE CheckFails
  /\ UNCHANGED <<time, defaults, agentKey, issuerKeys, mint, posted, token>>

(* Faulty variant: the times are not checked after the subject was verified, *)
(* which may take any time.                                                  *)
CheckSubjectUntimed ==
  /\ CheckAt("resolving")
  /\ check' = [check EXCEPT !.at = "accepted", !.acceptedAt = time]
  /\ UNCHANGED <<time, defaults, agentKey, issuerKeys, mint, posted, token>>

(* verifyDomain resolves for the subject; the times are checked once more.   *)
CheckSubject ==
  /\ CheckAt("resolving")
  /\ IF TokenTimes THEN check' = [check EXCEPT !.at = "accepted", !.acceptedAt = time]
     ELSE CheckFails
  /\ UNCHANGED <<time, defaults, agentKey, issuerKeys, mint, posted, token>>

(* A fetch or the subject's verification fails, or the budget runs out.      *)
CheckAborted ==
  /\ check.at \notin {"idle", "accepted", "rejected"}
  /\ CheckFails
  /\ UNCHANGED <<time, defaults, agentKey, issuerKeys, mint, posted, token>>
-----------------------------------------------------------------------------
TimePasses ==
  /\ time < MaxTime
  /\ time' = time + 1
  /\ UNCHANGED <<defaults, agentKey, issuerKeys, mint, posted, token, check>>

AgentRotates ==
  /\ agentKey < MaxAgentKeys
  /\ agentKey' = agentKey + 1
  /\ UNCHANGED <<time, defaults, issuerKeys, mint, posted, token, check>>

(* An issuer starts to sign with its next key and retires the one before.    *)
IssuerRotates(i) ==
  /\ issuerKeys[i].current < MaxIssuerKeys
  /\ issuerKeys' = [issuerKeys EXCEPT ![i] =
       [current |-> @.current + 1, retiredAt |-> Append(@.retiredAt, time)]]
  /\ UNCHANGED <<time, defaults, agentKey, mint, posted, token, check>>

Mint ==
  \/ \E o \in Options : MintBegins(o)
  \/ \E issuer, endpoint \in Origins : IssuerDiscovered(issuer, endpoint)
  \/ \E issuer \in Origins : ServerDiscovered(issuer)
  \/ \E aud \in Origins, iat \in 0..time, key \in 1..agentKey :
       SuppliedAssertionPosted(aud, iat, key)
  \/ DiscoveryFails \/ AssertionBegins \/ AssertionPosted \/ TokenAnswered

Check ==
  \/ CheckBegins \/ CheckKeys \/ CheckSubject \/ CheckAborted
  \/ \E issuer, endpoint \in Origins : CheckDiscovered(issuer, endpoint)

OidcNext ==
  \/ Mint \/ Check \/ TimePasses \/ AgentRotates
  \/ \E i \in Origins : IssuerRotates(i)

OidcSpec == OidcInit /\ [][OidcNext]_oidcVars
-----------------------------------------------------------------------------
(* An assertion goes to the issuer it is addressed to, or to the server that *)
(* the caller's own options name, whatever a discovery document says and     *)
(* however a call's options combine with the minter's; and one that the call *)
(* made is signed by the key that its header names.                          *)
AssertionGoesWhereConfigured ==
  \A p \in posted : p.dest \in {p.aud, p.server} /\ (p.own => p.kid = p.key)

(* A token that is accepted is valid when the verification ends, and its     *)
(* issuer still published its key when the verification began.               *)
AcceptedTokenIsCurrent ==
  CheckAt("accepted") =>
    /\ check.acceptedAt < token.exp /\ token.iat <= check.acceptedAt + TokenSkew
    /\ token.nbf <= check.acceptedAt + TokenSkew
    /\ token.key \in Unpublished(token.iss) =>
         issuerKeys[token.iss].retiredAt[token.key] >= check.begun
=============================================================================
