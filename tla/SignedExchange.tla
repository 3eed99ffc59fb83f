---------------------------- MODULE SignedExchange ----------------------------
(***************************************************************************)
(* Signed HTTP exchanges: createSignedFetch and the verification of the    *)
(* response on the client, verifySignedHttpRequest and the response        *)
(* signing middleware on the server (packages/http-signatures,             *)
(* packages/sdk/src/node-response-signing.ts), under the budgets of        *)
(* packages/protocol/src/verification-budget.ts.                           *)
(*                                                                         *)
(* Every call negotiates a signed response.  Between any two awaits keys   *)
(* rotate, time passes, identities expire, calls are canceled; responses   *)
(* are delayed, delivered to another call, replaced by an intermediary's   *)
(* own answer (unsigned, or signed in its own name), or carry other        *)
(* content than was signed.  The handler of the server may flush the       *)
(* headers at any time and go on writing after it ended the response.      *)
(***************************************************************************)
EXTENDS Integers, FiniteSets, Sequences

CONSTANTS
  Calls,            \* concurrent calls of one signed fetch
  MaxAge,           \* config.maxAge
  Lifetime,         \* RESPONSE_SIGNATURE_LIFETIME_SECONDS
  Skew,             \* config.clockSkew
  Budget,           \* timeoutMs of the client
  IdentityTTL,      \* how long a verified identity stays fresh
  ServerBudget,     \* timeoutMs of the server
  MaxNow,           \* bound: the clock
  MaxRotations      \* bound: key rotations of the two parties

(* A nonce is no other text of a response, and a budget is a positive time.  *)
ASSUME ExchangeAssumption ==
  /\ "none" \notin Calls
  /\ {MaxAge, Lifetime, Skew, Budget, IdentityTTL, MaxNow, MaxRotations} \subseteq Nat
  /\ ServerBudget \in Nat \ {0}

VARIABLES
  now,              \* the clock
  active,           \* party -> kid of its signing key
  jwks,             \* party -> the kids it publishes
  call,             \* call -> where the client's side of it stands
  exch,             \* call -> the server's side of it
  wire,             \* call -> the responses the server sent on its connection
  open              \* call -> the responses it obtained that are not canceled

vars == <<now, active, jwks, call, exch, wire, open>>
-----------------------------------------------------------------------------
Parties == {"client", "server"}

(* A gateway on the way is an agent with an identity of its own: the key it  *)
(* publishes never changes.                                                  *)
GatewayKid == 1
KeysOf(domain) == IF domain = "gateway" THEN {GatewayKid} ELSE jwks[domain]

Rotations == (active["client"] - 1) + (active["server"] - 1)

(* A signature covers the nonce, the request, the status and the digest of   *)
(* the content; its keyid names the signer's domain and key.  kid 0 stands   *)
(* for no signature.                                                         *)
Unsigned ==
  [domain |-> "server", kid |-> 0, nonce |-> "none", created |-> 0,
   status |-> "none", digest |-> "none"]
Signature(domain, kid, nonce, created, status, digest) ==
  [domain |-> domain, kid |-> kid, nonce |-> nonce, created |-> created,
   status |-> status, digest |-> digest]

Response(status, body, sig) == [status |-> status, body |-> body, sig |-> sig]

(* The middleware's fail: no header, no content.                             *)
Failure == Response("500", "empty", Unsigned)

(* An intermediary's answer of its own, unsigned, or negotiated with the     *)
(* gateway: it reads the request, and signs for its nonce.                   *)
ProxyError == Response("502", "proxy", Unsigned)
GatewayAnswer(c) ==
  Response("answer", "other", Signature("gateway", GatewayKid, c, now, "answer", "other"))

NoResponse == Response("none", "none", Unsigned)

ClientIdle ==
  [at |-> "idle", kid |-> 0, begun |-> 0, aborted |-> FALSE, awaited |-> FALSE,
   response |-> NoResponse, until |-> 0, checkedAt |-> 0]

ServerIdle ==
  [at |-> "idle", kid |-> 0, created |-> 0, arrived |-> 0, age |-> 0,
   status |-> "none", body |-> "empty", signed |-> Unsigned, done |-> FALSE]

Init ==
  /\ now = 0
  /\ active = [p \in Parties |-> 1]
  /\ jwks = [p \in Parties |-> {1}]
  /\ call = [c \in Calls |-> ClientIdle]
  /\ exch = [c \in Calls |-> ServerIdle]
  /\ wire = [c \in Calls |-> <<>>]
  /\ open = [c \in Calls |-> {}]
-----------------------------------------------------------------------------
(* checkFreshness without an expires parameter.                              *)
CreatedFresh(created) == now - created <= MaxAge /\ created <= now + Skew

(* checkResponseFreshness.                                                   *)
ResponseFresh(sig) ==
  CreatedFresh(sig.created) /\ now <= sig.created + Lifetime + Skew

ClientAt(c, at) == call[c].at = at
InProgress(c) == call[c].at \notin {"idle", "returned", "failed"}

(* createSignedFetch begins: policy and request are snapshotted, a fresh     *)
(* nonce goes into Accept-Signature (the call's name stands for it), and the *)
(* signing key is read.                                                      *)
Begin(c) ==
  /\ ClientAt(c, "idle")
  /\ call' = [call EXCEPT ![c].at = "keyed", ![c].kid = active["client"],
                          ![c].begun = now]
  /\ UNCHANGED <<now, active, jwks, exch, wire, open>>

(* Faulty variant: the response of a call that rejects is left open.         *)
RejectedUncanceled(c) ==
  /\ call' = [call EXCEPT ![c] = [ClientIdle EXCEPT !.at = "failed"]]
  /\ UNCHANGED open

(* The call rejects.  A response it holds is canceled.                       *)
Rejected(c) ==
  /\ call' = [call EXCEPT ![c] = [ClientIdle EXCEPT !.at = "failed"]]
  /\ open' = [open EXCEPT ![c] = {}]

(* signHttpMessage signs with whatever key is active by then, and throws     *)
(* when it is not the key that was read; else the request is sent.           *)
SignRequest(c) ==
  /\ ClientAt(c, "keyed")
  /\ IF active["client"] = call[c].kid
     THEN /\ call' = [call EXCEPT ![c].at = "sent"]
          /\ exch' = [exch EXCEPT ![c].at = "arriving", ![c].kid = call[c].kid,
                                  ![c].created = call[c].begun]
          /\ UNCHANGED open
     ELSE Rejected(c) /\ UNCHANGED exch
  /\ UNCHANGED <<now, active, jwks, wire>>

(* Faulty variants: the nonce, or the signer's domain, is not compared.      *)
NegotiatedAnyNonce(c, r) == r.sig.kid # 0 /\ r.sig.domain = "server"
NegotiatedAnySigner(c, r) == r.sig.kid # 0 /\ r.sig.nonce = c

(* The response carries a signature under the requested label, with the      *)
(* negotiated coverage and nonce, whose keyid names the expected domain.     *)
Negotiated(c, r) ==
  /\ r.sig.kid # 0 /\ r.sig.nonce = c
  /\ r.sig.domain = "server"

(* The transport settles; what verifySignedHttpResponse checks before it     *)
(* resolves the signer.                                                      *)
Receive(c, r) ==
  /\ ClientAt(c, "sent")
  /\ IF Negotiated(c, r) /\ ResponseFresh(r.sig)
     THEN /\ call' = [call EXCEPT ![c].at = "resolving", ![c].response = r]
          /\ open' = [open EXCEPT ![c] = {r}]
     ELSE Rejected(c)
  /\ UNCHANGED <<now, active, jwks, exch, wire>>

(* The transport of an aborted call settles after all: the response, any     *)
(* response, is canceled.                                                    *)
ReceiveLate(c) ==
  /\ call[c].at = "failed" /\ call[c].aborted /\ call[c].awaited
  /\ call' = [call EXCEPT ![c] = [ClientIdle EXCEPT !.at = "failed"]]
  /\ open' = [open EXCEPT ![c] = {}]
  /\ UNCHANGED <<now, active, jwks, exch, wire>>

(* The transport rejects.                                                    *)
SendFails(c) ==
  /\ ClientAt(c, "sent")
  /\ Rejected(c)
  /\ UNCHANGED <<now, active, jwks, exch, wire>>

(* verifyDomain resolves the domain of the keyid; the key is looked up in    *)
(* its JWKS and the signature verified over the response and the saved       *)
(* request.                                                                  *)
Resolve(c) ==
  /\ ClientAt(c, "resolving")
  /\ LET r == call[c].response IN
       IF r.sig.kid \in KeysOf(r.sig.domain) /\ r.sig.status = r.status
       THEN /\ call' = [call EXCEPT ![c].at = "reading", ![c].until = now + IdentityTTL]
            /\ UNCHANGED open
       ELSE Rejected(c)
  /\ UNCHANGED <<now, active, jwks, exch, wire>>

(* Faulty variants: freshness is not checked again, or the content is not    *)
(* compared with the signed digest.                                          *)
ReadUnchecked(c) ==
  /\ ClientAt(c, "reading")
  /\ IF call[c].response.sig.digest = call[c].response.body
     THEN /\ call' = [call EXCEPT ![c].at = "verified", ![c].checkedAt = now]
          /\ UNCHANGED open
     ELSE Rejected(c)
  /\ UNCHANGED <<now, active, jwks, exch, wire>>

(* The content is read and compared with the signed digest, and both the     *)
(* signature's and the identity's freshness are checked again.               *)
ReadContent(c) ==
  /\ ClientAt(c, "reading")
  /\ LET r == call[c].response IN
       IF r.sig.digest = r.body /\ ResponseFresh(r.sig) /\ now < call[c].until
       THEN /\ call' = [call EXCEPT ![c].at = "verified", ![c].checkedAt = now]
            /\ UNCHANGED open
       ELSE Rejected(c)
  /\ UNCHANGED <<now, active, jwks, exch, wire>>

Aborted(c) ==
  [ClientIdle EXCEPT !.at = "failed", !.aborted = TRUE,
                     !.awaited = (call[c].response = NoResponse)]

(* withVerificationBudget hands the result on, never after the deadline.     *)
(* The error that replaces a late success does not pass the handler that     *)
(* cancels the response, but it aborts the request.                          *)
Return(c) ==
  /\ ClientAt(c, "verified")
  /\ IF now < call[c].begun + Budget
     THEN call' = [call EXCEPT ![c].at = "returned", ![c].kid = 0, ![c].begun = 0]
     ELSE call' = [call EXCEPT ![c] = Aborted(c)]
  /\ UNCHANGED <<now, active, jwks, exch, wire, open>>

(* The caller's signal aborts, or the budget's timer fires.                  *)
Abort(c) ==
  /\ InProgress(c)
  /\ call' = [call EXCEPT ![c] = Aborted(c)]
  /\ open' = IF ClientAt(c, "verified") THEN open ELSE [open EXCEPT ![c] = {}]
  /\ UNCHANGED <<now, active, jwks, exch, wire>>
-----------------------------------------------------------------------------
ServerAt(c, at) == exch[c].at = at

(* The handler answers, with the status of an accepted or of a refused       *)
(* request; age is how old an accepted one was, noted while it is being      *)
(* handled.                                                                  *)
Handled(c, age) ==
  [exch EXCEPT ![c] = [ServerIdle EXCEPT !.at = "handling", !.status = "answer", !.age = age]]

(* The request reaches the server: the middleware takes over the response,   *)
(* and verifySignedHttpRequest checks the freshness before its await.  A     *)
(* request that is refused is answered through the middleware as well.       *)
Arrive(c) ==
  /\ ServerAt(c, "arriving")
  /\ exch' = IF CreatedFresh(exch[c].created)
             THEN [exch EXCEPT ![c].at = "resolving",
                               ![c].arrived = now]
             ELSE Handled(c, 0)
  /\ UNCHANGED <<now, active, jwks, call, wire, open>>

(* Faulty variant: the verification has no deadline.                         *)
VerifyRequestUnbounded(c) ==
  /\ ServerAt(c, "resolving")
  /\ exch' = IF exch[c].kid \in jwks["client"]
             THEN Handled(c, now - exch[c].created)
             ELSE Handled(c, 0)
  /\ UNCHANGED <<now, active, jwks, call, wire, open>>

(* The signer's identity is resolved within the budget, and exactly one of   *)
(* the signatures of the request is valid: with a second valid one, which an *)
(* intermediary added, it is refused.  The freshness is not checked again.   *)
VerifyRequest(c) ==
  /\ ServerAt(c, "resolving")
  /\ \/ /\ exch[c].kid \in jwks["client"]
        /\ now < exch[c].arrived + ServerBudget
        /\ exch' = Handled(c, now - exch[c].created)
     \/ exch' = Handled(c, 0)
  /\ UNCHANGED <<now, active, jwks, call, wire, open>>

(* send: the response leaves, and nothing may follow it.                     *)
Sent(c, r) == [wire EXCEPT ![c] = Append(@, r)]

(* What was buffered is of no use once a response was sent.                  *)
Finished == [ServerIdle EXCEPT !.at = "released", !.done = TRUE]

(* fail: the empty 500, unless a response was sent already.  A signature     *)
(* that is being made meanwhile still settles.                               *)
Fail(c, settles) ==
  /\ wire' = IF exch[c].done THEN wire ELSE Sent(c, Failure)
  /\ exch' = IF settles THEN [exch EXCEPT ![c].done = TRUE] ELSE [exch EXCEPT ![c] = Finished]

(* The handler writes, before or after it ended the response: the content is *)
(* buffered, unless it exceeds the bound, and refused once the response was  *)
(* ended or sent.                                                            *)
Write(c) ==
  /\ exch[c].at \in {"handling", "signing", "released"}
  /\ IF ServerAt(c, "handling")
     THEN /\ exch[c].body = "empty"
          /\ \E body \in {c, "overflow"} : exch' = [exch EXCEPT ![c].body = body]
     ELSE UNCHANGED exch
  /\ UNCHANGED <<now, active, jwks, call, wire, open>>

(* The handler calls flushHeaders, at any time.                              *)
FlushHeaders(c) ==
  /\ exch[c].at \in {"handling", "signing", "released"}
  /\ Fail(c, ServerAt(c, "signing"))
  /\ UNCHANGED <<now, active, jwks, call, open>>

(* The handler ends the response, which counts once and not after a failure: *)
(* release fails when the buffer overflowed, else it signs what is buffered, *)
(* with the key that is active now.                                          *)
End(c) ==
  /\ ServerAt(c, "handling")
  /\ IF exch[c].body = "overflow"
     THEN Fail(c, FALSE)
     ELSE /\ exch' = [exch EXCEPT ![c].at = "signing", ![c].age = 0,
                                  ![c].signed = Signature("server", active["server"], c,
                                    now, exch[c].status, exch[c].body)]
          /\ UNCHANGED wire
  /\ UNCHANGED <<now, active, jwks, call, open>>

(* writeHead, or an assignment to statusCode, after the end: the middleware  *)
(* does not refuse it, and it is what a response still to be sent carries.   *)
ChangeStatus(c) ==
  /\ ServerAt(c, "signing") /\ ~exch[c].done
  /\ exch[c].status # "changed"
  /\ exch' = [exch EXCEPT ![c].status = "changed"]
  /\ UNCHANGED <<now, active, jwks, call, wire, open>>

(* Faulty variants: when signing fails, the response leaves without it; the  *)
(* signed response is sent although a failure left while it was being        *)
(* signed.                                                                   *)
ReleaseAnyway(c) ==
  /\ ServerAt(c, "signing")
  /\ LET s == exch[c].signed
         sig == IF active["server"] = s.kid THEN s ELSE Unsigned IN
       wire' = IF exch[c].done THEN wire
               ELSE Sent(c, Response(exch[c].status, exch[c].body, sig))
  /\ exch' = [exch EXCEPT ![c] = Finished]
  /\ UNCHANGED <<now, active, jwks, call, open>>

ReleaseAfterFailure(c) ==
  /\ ServerAt(c, "signing")
  /\ \/ /\ active["server"] = exch[c].signed.kid
        /\ wire' = Sent(c, Response(exch[c].status, exch[c].body, exch[c].signed))
        /\ exch' = [exch EXCEPT ![c] = Finished]
     \/ Fail(c, FALSE)
  /\ UNCHANGED <<now, active, jwks, call, open>>

(* signRequestedHttpResponse resolves and the response is sent with the      *)
(* fields it set, unless the failure was sent meanwhile; it rejects when the *)
(* key changed during signing, when the key provider fails, or when its      *)
(* budget is over.                                                           *)
Release(c) ==
  /\ ServerAt(c, "signing")
  /\ \/ /\ active["server"] = exch[c].signed.kid
        /\ wire' = IF exch[c].done THEN wire
                   ELSE Sent(c, Response(exch[c].status, exch[c].body, exch[c].signed))
        /\ exch' = [exch EXCEPT ![c] = Finished]
     \/ Fail(c, FALSE)
  /\ UNCHANGED <<now, active, jwks, call, open>>
-----------------------------------------------------------------------------
(* What a transport may hand to a call: any response that left the server,   *)
(* its signed fields with other content, or an intermediary's own response.  *)
Left == UNION {{wire[c][i] : i \in DOMAIN wire[c]} : c \in Calls}

Deliverable(c) ==
  Left \cup {Response(r.status, "other", r.sig) : r \in Left}
  \cup {ProxyError, GatewayAnswer(c)}

Tick ==
  /\ now < MaxNow
  /\ now' = now + 1
  /\ UNCHANGED <<active, jwks, call, exch, wire, open>>

(* A party rotates its key; the old one stays published until it is          *)
(* superseded.                                                               *)
Rotate(p) ==
  /\ Rotations < MaxRotations
  /\ active' = [active EXCEPT ![p] = @ + 1]
  /\ jwks' = [jwks EXCEPT ![p] = @ \cup {active[p] + 1}]
  /\ UNCHANGED <<now, call, exch, wire, open>>

Supersede(p) ==
  /\ jwks[p] # {active[p]}
  /\ jwks' = [jwks EXCEPT ![p] = {active[p]}]
  /\ UNCHANGED <<now, active, call, exch, wire, open>>

Client(c) ==
  \/ Begin(c) \/ SignRequest(c) \/ SendFails(c) \/ Resolve(c) \/ ReadContent(c)
  \/ Return(c) \/ Abort(c) \/ ReceiveLate(c)
  \/ \E r \in Deliverable(c) : Receive(c, r)

Server(c) ==
  \/ Arrive(c) \/ VerifyRequest(c) \/ Write(c) \/ FlushHeaders(c) \/ End(c)
  \/ ChangeStatus(c) \/ Release(c)

Next ==
  \/ \E c \in Calls : Client(c) \/ Server(c)
  \/ Tick
  \/ \E p \in Parties : Rotate(p) \/ Supersede(p)

Spec == Init /\ [][Next]_vars
-----------------------------------------------------------------------------
(* A response the signed fetch returns is the one answer the expected server *)
(* sent to this very request, with the content and the status that were      *)
(* signed, and both the signature and the identity were still fresh when     *)
(* they were last checked: an answer to another call, one the gateway signed *)
(* with its own valid key and the right nonce, one whose status changed      *)
(* under the signature or that grew stale while the content was read, is     *)
(* never handed out.                                                         *)
ResponseIsForThisCall ==
  \A c \in Calls :
    call[c].at = "returned" =>
      LET r == call[c].response IN
      /\ wire[c] = <<r>> /\ r.status = r.sig.status
      /\ call[c].checkedAt <= r.sig.created + Lifetime + Skew
      /\ call[c].checkedAt < call[c].until

(* The middleware answers a negotiated request at most once, with the empty  *)
(* failure or with a response signed for the request over the content it     *)
(* carries ("it never sends the unsigned response"), whatever rotation,      *)
(* flush or late write happens while the response is being signed.           *)
NothingUnsignedLeaves ==
  \A c \in Calls :
    /\ Len(wire[c]) <= 1
    /\ \A i \in DOMAIN wire[c] :
         LET r == wire[c][i] IN
         \/ r = Failure
         \/ r.sig.kid # 0 /\ r.sig.nonce = c /\ r.sig.digest = r.body

(* A request is accepted at most maxAge and one verification budget after it *)
(* was created: freshness is checked before the signer is resolved and not   *)
(* again, so the budget bounds what the await adds.                          *)
AcceptedRequestIsRecent ==
  \A c \in Calls : exch[c].age < MaxAge + ServerBudget

(* A call that fails leaves no response open unless it aborted the request   *)
(* the response belongs to.                                                  *)
FailedIsReleased ==
  \A c \in Calls : call[c].at = "failed" => open[c] = {} \/ call[c].aborted
=============================================================================
