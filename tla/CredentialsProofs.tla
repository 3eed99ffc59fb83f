------------------------- MODULE CredentialsProofs --------------------------
(***************************************************************************)
(* Signed messages and tokens, for any domains, issuers, calls, lifetimes, *)
(* budgets and schedules.  Signed exchanges: what a signed fetch returns is*)
(* the signed answer to its own request, and the middleware sends nothing  *)
(* unsigned.  OIDC: where assertions go and which tokens are accepted.     *)
(* JOSE: which tokens pass for an agent's own.                             *)
(***************************************************************************)
EXTENDS SignedExchange, OidcFederation, JoseProfile, TLAPS

-----------------------------------------------------------------------------
(* Signed exchanges.                                                         *)

Bodies == Calls \cup {"none", "empty", "overflow", "proxy", "other"}
Statuses == {"none", "answer", "changed", "500", "502"}
SignatureType ==
  [domain : {"server", "gateway"}, kid : Nat, nonce : Calls \cup {"none"}, created : Int,
   status : Statuses, digest : Bodies]
ResponseType == [status : Statuses, body : Bodies, sig : SignatureType]

ClientState ==
  [at : {"idle", "keyed", "sent", "resolving", "reading", "verified", "returned", "failed"},
   kid : Nat, begun : Nat, aborted : BOOLEAN, awaited : BOOLEAN, response : ResponseType,
   until : Nat, checkedAt : Nat]
ServerState ==
  [at : {"idle", "arriving", "resolving", "handling", "signing", "released"},
   kid : Nat, created : Nat, arrived : Nat, age : Int,
   status : Statuses, body : Bodies, signed : SignatureType, done : BOOLEAN]

ExchangeTypeOK ==
  /\ now \in Nat
  /\ active \in [Parties -> Nat \ {0}]
  /\ jwks \in [Parties -> SUBSET Nat]
  /\ call \in [Calls -> ClientState]
  /\ exch \in [Calls -> ServerState]
  /\ wire \in [Calls -> Seq(ResponseType)]
  /\ open \in [Calls -> SUBSET ResponseType]

(* A signature of the server for the request of call c, over the content.    *)
SignedFor(sig, body, c) ==
  sig.kid # 0 /\ sig.domain = "server" /\ sig.nonce = c /\ sig.digest = body

Genuine(r, c) == SignedFor(r.sig, r.body, c)

(* What was sent on the connection of call c, of which x is the server's     *)
(* side: nothing, or one response, which is the failure or signed for c.     *)
GoodWire(w, x, c) ==
  \/ w = <<>> /\ ~x.done
  \/ x.done /\ \E r \in ResponseType : w = <<r>> /\ (r = Failure \/ Genuine(r, c))

(* The server's side x of the call k: a request that was not sent did not    *)
(* arrive, one that is being accepted was fresh on arrival, and none is      *)
(* handled after the response left.                                          *)
GoodServer(k, x, w, c) ==
  /\ k.at \in {"idle", "keyed"} => x.at = "idle"
  /\ x.at \notin {"signing", "released"} => ~x.done
  /\ x.at = "signing" => SignedFor(x.signed, x.body, c)
  /\ x.at = "resolving" => x.arrived - x.created <= MaxAge
  /\ x.age < MaxAge + ServerBudget
  /\ GoodWire(w, x, c)

(* The client's side: what was checked of the response at each point, and    *)
(* the responses o that are left open.                                       *)
Answers(r, w, c) ==
  \E q \in ResponseType :
    w = <<q>> /\ Genuine(q, c) /\ q.sig = r.sig /\ q.status = r.status

GoodClient(k, w, o, c) ==
  LET r == k.response IN
  /\ k.at \in {"resolving", "reading", "verified", "returned"} => Answers(r, w, c)
  /\ k.at \in {"reading", "verified", "returned"} => r.sig.status = r.status
  /\ k.at \in {"verified", "returned"} =>
       /\ r.sig.digest = r.body
       /\ k.checkedAt <= r.sig.created + Lifetime + Skew
       /\ k.checkedAt < k.until
  /\ k.at # "failed" => ~k.aborted
  /\ k.at = "failed" => o = {} \/ k.aborted

ExchangeInv ==
  /\ ExchangeTypeOK
  /\ \A c \in Calls : GoodServer(call[c], exch[c], wire[c], c)
  /\ \A c \in Calls : GoodClient(call[c], wire[c], open[c], c)
-----------------------------------------------------------------------------
LEMMA Constants ==
  /\ Unsigned \in SignatureType /\ NoResponse \in ResponseType
  /\ Failure \in ResponseType /\ ProxyError \in ResponseType
  /\ ClientIdle \in ClientState /\ ServerIdle \in ServerState /\ Finished \in ServerState
<1>1. Unsigned \in SignatureType
  BY DEF Unsigned, SignatureType, Statuses, Bodies
<1>2. NoResponse \in ResponseType /\ Failure \in ResponseType /\ ProxyError \in ResponseType
  BY <1>1 DEF NoResponse, Failure, ProxyError, Response, ResponseType, Statuses, Bodies
<1>3. ClientIdle \in ClientState
  BY <1>2 DEF ClientIdle, ClientState
<1>4. ServerIdle \in ServerState
  BY <1>1 DEF ServerIdle, ServerState, Statuses, Bodies
<1>5. Finished \in ServerState
  BY <1>4, Zenon DEF Finished, ServerState
<1> QED  BY <1>1, <1>2, <1>3, <1>4, <1>5

LEMMA InitExchangeInv == ASSUME ExchangeAssumption, Init PROVE ExchangeInv
<1>1. ExchangeTypeOK
  BY Constants DEF Init, ExchangeTypeOK, Parties
<1>2. ASSUME NEW c \in Calls
      PROVE GoodServer(call[c], exch[c], wire[c], c) /\ GoodClient(call[c], wire[c], open[c], c)
  <2>1. call[c] = ClientIdle /\ exch[c] = ServerIdle /\ open[c] = {} /\ wire[c] = <<>>
    BY DEF Init
  <2>2. ServerIdle.at = "idle" /\ ServerIdle.age = 0 /\ ~ServerIdle.done
    BY DEF ServerIdle
  <2>3. GoodServer(ClientIdle, ServerIdle, <<>>, c)
    BY <2>2, ExchangeAssumption DEF GoodServer, GoodWire, ExchangeAssumption
  <2>4. GoodClient(ClientIdle, <<>>, {}, c)
    BY DEF GoodClient, ClientIdle
  <2> QED  BY <2>1, <2>3, <2>4
<1> QED  BY <1>1, <1>2 DEF ExchangeInv

(* A step of one call: the state of the others is not touched.               *)
LEMMA CallMoves ==
  ASSUME ExchangeInv, NEW c \in Calls, NEW k \in ClientState, NEW x \in ServerState,
         NEW w \in Seq(ResponseType), NEW o \in SUBSET ResponseType,
         call' = [call EXCEPT ![c] = k], exch' = [exch EXCEPT ![c] = x],
         wire' = [wire EXCEPT ![c] = w], open' = [open EXCEPT ![c] = o],
         UNCHANGED <<now, active, jwks>>,
         GoodServer(k, x, w, c), GoodClient(k, w, o, c)
  PROVE  ExchangeInv'
<1>1. ExchangeTypeOK'
  BY DEF ExchangeInv, ExchangeTypeOK
<1>2. /\ call'[c] = k /\ exch'[c] = x /\ wire'[c] = w /\ open'[c] = o
      /\ \A d \in Calls : d # c => /\ call'[d] = call[d] /\ exch'[d] = exch[d]
                                   /\ wire'[d] = wire[d] /\ open'[d] = open[d]
  BY DEF ExchangeInv, ExchangeTypeOK
<1>3. \A d \in Calls : GoodServer(call'[d], exch'[d], wire'[d], d)
  BY <1>2, Zenon DEF ExchangeInv
<1>4. \A d \in Calls : GoodClient(call'[d], wire'[d], open'[d], d)
  BY <1>2, Zenon DEF ExchangeInv
<1> QED  BY <1>1, <1>3, <1>4 DEF ExchangeInv
-----------------------------------------------------------------------------
LEMMA ClientMoves ==
  ASSUME ExchangeInv, NEW c \in Calls, NEW k \in ClientState, NEW o \in SUBSET ResponseType,
         call' = [call EXCEPT ![c] = k], open' = [open EXCEPT ![c] = o],
         UNCHANGED <<now, active, jwks, exch, wire>>,
         k.at \notin {"idle", "keyed"}, GoodClient(k, wire[c], o, c)
  PROVE  ExchangeInv'
<1>1. /\ exch[c] \in ServerState /\ exch' = [exch EXCEPT ![c] = exch[c]]
      /\ wire[c] \in Seq(ResponseType) /\ wire' = [wire EXCEPT ![c] = wire[c]]
  BY DEF ExchangeInv, ExchangeTypeOK
<1>2. GoodServer(k, exch[c], wire[c], c)
  BY Zenon DEF ExchangeInv, GoodServer
<1> QED  BY <1>1, <1>2, CallMoves, Zenon

LEMMA RejectedMoves ==
  ASSUME ExchangeInv, NEW c \in Calls, Rejected(c), UNCHANGED <<now, active, jwks, exch, wire>>
  PROVE  ExchangeInv'
<1> DEFINE k == [ClientIdle EXCEPT !.at = "failed"]
<1>1. k \in ClientState /\ k.at = "failed" /\ ~k.aborted
  BY Constants, Zenon DEF ClientIdle, ClientState
<1>2. GoodClient(k, wire[c], {}, c)
  BY <1>1 DEF GoodClient
<1>3. call' = [call EXCEPT ![c] = k] /\ open' = [open EXCEPT ![c] = {}]
  BY DEF Rejected
<1> HIDE DEF k
<1> QED  BY <1>1, <1>2, <1>3, ClientMoves, Zenon

LEMMA AbortedMoves ==
  ASSUME ExchangeInv, NEW c \in Calls, NEW o \in SUBSET ResponseType,
         call' = [call EXCEPT ![c] = Aborted(c)],
         open' = [open EXCEPT ![c] = o], UNCHANGED <<now, active, jwks, exch, wire>>
  PROVE  ExchangeInv'
<1> DEFINE k == Aborted(c)
<1>1. k \in ClientState /\ k.at = "failed" /\ k.aborted
  BY Constants, Zenon DEF ClientIdle, ClientState, Aborted
<1>2. GoodClient(k, wire[c], o, c)
  BY <1>1 DEF GoodClient
<1>3. call' = [call EXCEPT ![c] = k]
  OBVIOUS
<1> HIDE DEF k
<1> QED  BY <1>1, <1>2, <1>3, ClientMoves, Zenon

LEMMA BeginStep == ASSUME ExchangeInv, NEW c \in Calls, Begin(c) PROVE ExchangeInv'
<1> DEFINE k == [call[c] EXCEPT !.at = "keyed", !.kid = active["client"], !.begun = now]
<1>1. call[c] \in ClientState /\ call[c].at = "idle" /\ active["client"] \in Nat /\ now \in Nat
  BY DEF Begin, ClientAt, ExchangeInv, ExchangeTypeOK, Parties
<1>2. k \in ClientState /\ k.at = "keyed" /\ k.aborted = call[c].aborted
  BY <1>1, Zenon DEF ClientState
<1>3. call' = [call EXCEPT ![c] = k]
  BY <1>1, Zenon DEF Begin, ExchangeInv, ExchangeTypeOK
<1>4. GoodServer(k, exch[c], wire[c], c) /\ GoodClient(k, wire[c], open[c], c)
  <2>1. GoodServer(call[c], exch[c], wire[c], c) /\ GoodClient(call[c], wire[c], open[c], c)
    BY DEF ExchangeInv
  <2>2. exch[c].at = "idle" /\ ~call[c].aborted
    BY <1>1, <2>1 DEF GoodServer, GoodClient
  <2> QED  BY <1>1, <1>2, <2>1, <2>2 DEF GoodServer, GoodClient
<1>5. /\ exch[c] \in ServerState /\ exch' = [exch EXCEPT ![c] = exch[c]]
      /\ open[c] \in SUBSET ResponseType /\ open' = [open EXCEPT ![c] = open[c]]
      /\ wire[c] \in Seq(ResponseType) /\ wire' = [wire EXCEPT ![c] = wire[c]]
      /\ UNCHANGED <<now, active, jwks>>
  BY DEF Begin, ExchangeInv, ExchangeTypeOK
<1> HIDE DEF k
<1> QED  BY <1>2, <1>3, <1>4, <1>5, CallMoves, Zenon

LEMMA SignRequestStep == ASSUME ExchangeInv, NEW c \in Calls, SignRequest(c) PROVE ExchangeInv'
<1>1. CASE active["client"] = call[c].kid
  <2> DEFINE k == [call[c] EXCEPT !.at = "sent"]
             x == [exch[c] EXCEPT !.at = "arriving", !.kid = call[c].kid,
                                  !.created = call[c].begun]
  <2>1. /\ call[c] \in ClientState /\ call[c].at = "keyed"
        /\ exch[c] \in ServerState /\ exch[c].at = "idle"
    BY DEF SignRequest, ClientAt, ServerAt, ExchangeInv, ExchangeTypeOK, GoodServer
  <2>2. k \in ClientState /\ k.at = "sent" /\ k.aborted = call[c].aborted
    BY <2>1 DEF ClientState
  <2>3. /\ x \in ServerState /\ x.at = "arriving" /\ x.age = exch[c].age
        /\ x.done = exch[c].done
    BY <2>1, Zenon DEF ServerState, ClientState
  <2>4. call' = [call EXCEPT ![c] = k] /\ exch' = [exch EXCEPT ![c] = x]
    BY <1>1, <2>1, Zenon DEF SignRequest, ExchangeInv, ExchangeTypeOK
  <2>5. GoodServer(k, x, wire[c], c) /\ GoodClient(k, wire[c], open[c], c)
    <3>1. GoodServer(call[c], exch[c], wire[c], c) /\ GoodClient(call[c], wire[c], open[c], c)
      BY DEF ExchangeInv
    <3>2. ~exch[c].done /\ ~call[c].aborted /\ wire[c] = <<>>
      BY <2>1, <3>1 DEF GoodServer, GoodClient, GoodWire
    <3>3. GoodWire(wire[c], x, c)
      BY <2>3, <3>2 DEF GoodWire
    <3>4. GoodServer(k, x, wire[c], c)
      BY <2>1, <2>2, <2>3, <3>1, <3>2, <3>3 DEF GoodServer
    <3> QED  BY <2>2, <3>2, <3>4 DEF GoodClient
  <2>6. /\ open[c] \in SUBSET ResponseType /\ open' = [open EXCEPT ![c] = open[c]]
        /\ wire[c] \in Seq(ResponseType) /\ wire' = [wire EXCEPT ![c] = wire[c]]
        /\ UNCHANGED <<now, active, jwks>>
    BY <1>1 DEF SignRequest, ExchangeInv, ExchangeTypeOK
  <2> HIDE DEF k, x
  <2> QED  BY <2>1, <2>2, <2>3, <2>4, <2>5, <2>6, CallMoves, Zenon
<1>2. CASE active["client"] # call[c].kid
  BY <1>2, RejectedMoves DEF SignRequest
<1> QED  BY <1>1, <1>2

(* What left the server on some connection is one response, the failure or   *)
(* one signed for the request of that connection.                            *)
LEMMA LeftIsGenuine ==
  ASSUME ExchangeInv, NEW r \in Left
  PROVE  r \in ResponseType /\ (r = Failure \/ \E d \in Calls : wire[d] = <<r>> /\ Genuine(r, d))
<1>1. PICK d \in Calls : \E i \in DOMAIN wire[d] : r = wire[d][i]
  BY DEF Left
<1>2. PICK i \in DOMAIN wire[d] : r = wire[d][i]
  BY <1>1
<1>3. GoodWire(wire[d], exch[d], d)
  BY DEF ExchangeInv, GoodServer
<1>4. wire[d] # <<>>
  BY <1>2
<1>5. PICK q \in ResponseType : wire[d] = <<q>> /\ (q = Failure \/ Genuine(q, d))
  BY <1>3, <1>4 DEF GoodWire
<1>6. r = q
  BY <1>2, <1>5
<1> QED  BY <1>5, <1>6

(* What is delivered to a call with the call's nonce, signed by the expected *)
(* domain, was sent for the call's request, except perhaps for its content.  *)
LEMMA DeliveredWasSigned ==
  ASSUME ExchangeAssumption, ExchangeInv, NEW c \in Calls, NEW r \in Deliverable(c),
         Negotiated(c, r)
  PROVE  r \in ResponseType /\ Answers(r, wire[c], c)
<1>1. r.sig.nonce = c /\ r.sig.nonce # "none" /\ r.sig.domain = "server"
  BY ExchangeAssumption DEF Negotiated, ExchangeAssumption
<1>2. /\ ProxyError.sig.nonce = "none" /\ Failure.sig.nonce = "none"
      /\ GatewayAnswer(c).sig.domain = "gateway"
  BY DEF ProxyError, Failure, GatewayAnswer, Signature, Response, Unsigned
<1>3. r # ProxyError /\ r # GatewayAnswer(c)
  BY <1>1, <1>2
<1>4. PICK q \in Left : r = q \/ r = Response(q.status, "other", q.sig)
  BY <1>3 DEF Deliverable
<1>5. q \in ResponseType /\ (q = Failure \/ \E d \in Calls : wire[d] = <<q>> /\ Genuine(q, d))
  BY LeftIsGenuine
<1>6. r \in ResponseType /\ q.sig = r.sig /\ q.status = r.status
  BY <1>4, <1>5 DEF Response, ResponseType, Bodies
<1>7. PICK d \in Calls : wire[d] = <<q>> /\ Genuine(q, d)
  BY <1>1, <1>2, <1>5, <1>6
<1>8. d = c
  BY <1>1, <1>6, <1>7 DEF Genuine, SignedFor
<1> QED  BY <1>5, <1>6, <1>7, <1>8 DEF Answers

LEMMA ReceiveStep ==
  ASSUME ExchangeAssumption, ExchangeInv, NEW c \in Calls, NEW r \in Deliverable(c), Receive(c, r)
  PROVE  ExchangeInv'
<1>1. CASE Negotiated(c, r) /\ ResponseFresh(r.sig)
  <2> DEFINE k == [call[c] EXCEPT !.at = "resolving", !.response = r]
  <2>0. r \in ResponseType /\ Answers(r, wire[c], c)
    BY <1>1, DeliveredWasSigned
  <2>1. call[c] \in ClientState /\ call[c].at = "sent"
    BY DEF Receive, ClientAt, ExchangeInv, ExchangeTypeOK
  <2>2. k \in ClientState /\ k.at = "resolving" /\ k.aborted = call[c].aborted /\ k.response = r
    BY <2>0, <2>1, Zenon DEF ClientState
  <2>3. call' = [call EXCEPT ![c] = k] /\ open' = [open EXCEPT ![c] = {r}]
    BY <1>1, <2>1, Zenon DEF Receive, ExchangeInv, ExchangeTypeOK
  <2>4. ~call[c].aborted
    BY <2>1 DEF ExchangeInv, GoodClient
  <2>5. GoodClient(k, wire[c], {r}, c)
    BY <2>0, <2>2, <2>4 DEF GoodClient
  <2>6. {r} \in SUBSET ResponseType /\ UNCHANGED <<now, active, jwks, exch, wire>>
    BY <2>0, <1>1 DEF Receive
  <2> HIDE DEF k
  <2> QED  BY <2>2, <2>3, <2>5, <2>6, ClientMoves, Zenon
<1>2. CASE ~(Negotiated(c, r) /\ ResponseFresh(r.sig))
  BY <1>2, RejectedMoves DEF Receive
<1> QED  BY <1>1, <1>2

(* A step that only advances the client's side, keeping the response.        *)
LEMMA Advances ==
  ASSUME ExchangeInv, NEW c \in Calls, NEW k \in ClientState, call' = [call EXCEPT ![c] = k],
         UNCHANGED <<now, active, jwks, exch, wire, open>>,
         k.at \notin {"idle", "keyed"}, GoodClient(k, wire[c], open[c], c)
  PROVE  ExchangeInv'
<1>1. open[c] \in SUBSET ResponseType /\ open' = [open EXCEPT ![c] = open[c]]
  BY DEF ExchangeInv, ExchangeTypeOK
<1> QED  BY <1>1, ClientMoves, Zenon

LEMMA ResolveStep ==
  ASSUME ExchangeAssumption, ExchangeInv, NEW c \in Calls, Resolve(c)
  PROVE  ExchangeInv'
<1> DEFINE r == call[c].response
<1>1. CASE r.sig.kid \in KeysOf(r.sig.domain) /\ r.sig.status = r.status
  <2> DEFINE k == [call[c] EXCEPT !.at = "reading", !.until = now + IdentityTTL]
  <2>1. call[c] \in ClientState /\ call[c].at = "resolving" /\ now + IdentityTTL \in Nat
    BY ExchangeAssumption
       DEF Resolve, ClientAt, ExchangeInv, ExchangeTypeOK, ExchangeAssumption
  <2>2. /\ k \in ClientState /\ k.at = "reading" /\ k.aborted = call[c].aborted
        /\ k.response = call[c].response
    BY <2>1, Zenon DEF ClientState
  <2>3. call' = [call EXCEPT ![c] = k]
    BY <1>1, <2>1, Zenon DEF Resolve, ExchangeInv, ExchangeTypeOK
  <2>4. GoodClient(call[c], wire[c], open[c], c)
    BY DEF ExchangeInv
  <2>5. GoodClient(k, wire[c], open[c], c)
    BY <1>1, <2>1, <2>2, <2>4 DEF GoodClient
  <2>6. UNCHANGED <<now, active, jwks, exch, wire, open>>
    BY <1>1 DEF Resolve
  <2> HIDE DEF k
  <2> QED  BY <2>2, <2>3, <2>5, <2>6, Advances, Zenon
<1>2. CASE ~(r.sig.kid \in KeysOf(r.sig.domain) /\ r.sig.status = r.status)
  BY <1>2, RejectedMoves DEF Resolve
<1> QED  BY <1>1, <1>2

LEMMA ReadContentStep ==
  ASSUME ExchangeAssumption, ExchangeInv, NEW c \in Calls, ReadContent(c)
  PROVE  ExchangeInv'
<1> DEFINE r == call[c].response
           good == r.sig.digest = r.body /\ ResponseFresh(r.sig) /\ now < call[c].until
<1>1. CASE good
  <2> DEFINE k == [call[c] EXCEPT !.at = "verified", !.checkedAt = now]
  <2>1. call[c] \in ClientState /\ call[c].at = "reading" /\ now \in Nat
    BY DEF ReadContent, ClientAt, ExchangeInv, ExchangeTypeOK
  <2>2. /\ k \in ClientState /\ k.at = "verified" /\ k.aborted = call[c].aborted
        /\ k.response = call[c].response /\ k.checkedAt = now /\ k.until = call[c].until
    BY <2>1, Zenon DEF ClientState
  <2>3. call' = [call EXCEPT ![c] = k]
    BY <1>1, <2>1, Zenon DEF ReadContent, ExchangeInv, ExchangeTypeOK
  <2>4. GoodClient(call[c], wire[c], open[c], c)
    BY DEF ExchangeInv
  <2>5. now <= r.sig.created + Lifetime + Skew
    BY <1>1 DEF ResponseFresh
  <2>6. GoodClient(k, wire[c], open[c], c)
    BY <1>1, <2>1, <2>2, <2>4, <2>5 DEF GoodClient
  <2>7. UNCHANGED <<now, active, jwks, exch, wire, open>>
    BY <1>1 DEF ReadContent
  <2> HIDE DEF k
  <2> QED  BY <2>2, <2>3, <2>6, <2>7, Advances, Zenon
<1>2. CASE ~good
  BY <1>2, RejectedMoves DEF ReadContent
<1> QED  BY <1>1, <1>2

LEMMA ReturnStep == ASSUME ExchangeInv, NEW c \in Calls, Return(c) PROVE ExchangeInv'
<1>1. CASE now < call[c].begun + Budget
  <2> DEFINE k == [call[c] EXCEPT !.at = "returned", !.kid = 0, !.begun = 0]
  <2>1. call[c] \in ClientState /\ call[c].at = "verified"
    BY DEF Return, ClientAt, ExchangeInv, ExchangeTypeOK
  <2>2. /\ k \in ClientState /\ k.at = "returned" /\ k.aborted = call[c].aborted
        /\ k.response = call[c].response
        /\ k.checkedAt = call[c].checkedAt /\ k.until = call[c].until
    BY <2>1, Zenon DEF ClientState
  <2>3. call' = [call EXCEPT ![c] = k]
    BY <1>1, <2>1, Zenon DEF Return, ExchangeInv, ExchangeTypeOK
  <2>4. GoodClient(call[c], wire[c], open[c], c)
    BY DEF ExchangeInv
  <2>5. GoodClient(k, wire[c], open[c], c)
    BY <1>1, <2>1, <2>2, <2>4 DEF GoodClient
  <2>6. UNCHANGED <<now, active, jwks, exch, wire, open>>
    BY DEF Return
  <2> HIDE DEF k
  <2> QED  BY <2>2, <2>3, <2>5, <2>6, Advances, Zenon
<1>2. CASE ~(now < call[c].begun + Budget)
  <2>1. open[c] \in SUBSET ResponseType /\ open' = [open EXCEPT ![c] = open[c]]
    BY DEF Return, ExchangeInv, ExchangeTypeOK
  <2> QED  BY <1>2, <2>1, AbortedMoves, Zenon DEF Return
<1> QED  BY <1>1, <1>2

LEMMA AbortStep == ASSUME ExchangeInv, NEW c \in Calls, Abort(c) PROVE ExchangeInv'
<1>1. open[c] \in SUBSET ResponseType /\ open = [open EXCEPT ![c] = open[c]]
  BY DEF ExchangeInv, ExchangeTypeOK
<1>2. CASE ClientAt(c, "verified")
  <2>1. open' = [open EXCEPT ![c] = open[c]]
    BY <1>1, <1>2 DEF Abort
  <2> QED  BY <1>1, <2>1, AbortedMoves, Zenon DEF Abort
<1>3. CASE ~ClientAt(c, "verified")
  <2>1. open' = [open EXCEPT ![c] = {}] /\ {} \in SUBSET ResponseType
    BY <1>3 DEF Abort
  <2> QED  BY <2>1, AbortedMoves, Zenon DEF Abort
<1> QED  BY <1>2, <1>3
-----------------------------------------------------------------------------
(* A step of the server's side, on a request that was sent: what was sent    *)
(* for it already is not touched.                                            *)
LEMMA ServerMoves ==
  ASSUME ExchangeInv, NEW c \in Calls, NEW x \in ServerState, NEW w \in Seq(ResponseType),
         exch' = [exch EXCEPT ![c] = x], wire' = [wire EXCEPT ![c] = w],
         UNCHANGED <<now, active, jwks, call, open>>,
         exch[c].at # "idle", exch[c].done => w = wire[c],
         x.at \notin {"signing", "released"} => ~x.done,
         x.at = "signing" => SignedFor(x.signed, x.body, c),
         x.at = "resolving" => x.arrived - x.created <= MaxAge,
         x.age < MaxAge + ServerBudget, GoodWire(w, x, c)
  PROVE  ExchangeInv'
<1>1. /\ call[c] \in ClientState /\ call' = [call EXCEPT ![c] = call[c]]
      /\ open[c] \in SUBSET ResponseType /\ open' = [open EXCEPT ![c] = open[c]]
  BY DEF ExchangeInv, ExchangeTypeOK
<1>2. GoodServer(call[c], exch[c], wire[c], c) /\ GoodClient(call[c], wire[c], open[c], c)
  BY DEF ExchangeInv
<1>3. GoodServer(call[c], x, w, c)
  BY <1>2, Zenon DEF GoodServer
<1>4. wire[c] = <<>> \/ w = wire[c]
  BY <1>2 DEF GoodServer, GoodWire
<1>5. ASSUME NEW r, Answers(r, wire[c], c) PROVE Answers(r, w, c)
  BY <1>4, <1>5 DEF Answers
<1>6. GoodClient(call[c], w, open[c], c)
  BY <1>2, <1>5, Zenon DEF GoodClient
<1> QED  BY <1>1, <1>3, <1>6, CallMoves, Zenon

(* A step that sends nothing.                                                *)
LEMMA QuietServerMoves ==
  ASSUME ExchangeInv, NEW c \in Calls, NEW x \in ServerState,
         exch' = [exch EXCEPT ![c] = x], UNCHANGED <<now, active, jwks, call, wire, open>>,
         exch[c].at # "idle", x.done = exch[c].done,
         x.at \notin {"signing", "released"} => ~x.done,
         x.at = "signing" => SignedFor(x.signed, x.body, c),
         x.at = "resolving" => x.arrived - x.created <= MaxAge,
         x.age < MaxAge + ServerBudget
  PROVE  ExchangeInv'
<1>1. wire[c] \in Seq(ResponseType) /\ wire' = [wire EXCEPT ![c] = wire[c]]
  BY DEF ExchangeInv, ExchangeTypeOK
<1>2. GoodWire(wire[c], exch[c], c)
  BY DEF ExchangeInv, GoodServer
<1>3. GoodWire(wire[c], x, c)
  BY <1>2, Zenon DEF GoodWire
<1> QED  BY <1>1, <1>3, ServerMoves, Zenon

LEMMA HandledMoves ==
  ASSUME ExchangeInv, NEW c \in Calls, NEW age \in Int,
         exch' = Handled(c, age), UNCHANGED <<now, active, jwks, call, wire, open>>,
         exch[c].at \in {"arriving", "resolving"}, age < MaxAge + ServerBudget
  PROVE  ExchangeInv'
<1> DEFINE x == [ServerIdle EXCEPT !.at = "handling", !.status = "answer", !.age = age]
<1>1. x \in ServerState /\ x.at = "handling" /\ x.age = age /\ x.done = FALSE
  BY Constants, Zenon DEF ServerIdle, ServerState, Statuses
<1>2. exch' = [exch EXCEPT ![c] = x]
  BY DEF Handled
<1>3. exch[c].done = FALSE
  <2>1. exch[c].done \in BOOLEAN
    BY Zenon DEF ExchangeInv, ExchangeTypeOK, ServerState
  <2>2. ~exch[c].done
    BY DEF ExchangeInv, GoodServer
  <2> QED  BY <2>1, <2>2
<1> HIDE DEF x
<1> QED  BY <1>1, <1>2, <1>3, QuietServerMoves, Zenon

(* A response leaves: nothing was sent before, unless the middleware keeps   *)
(* quiet.                                                                    *)
LEMMA SendMoves ==
  ASSUME ExchangeInv, NEW c \in Calls, NEW x \in ServerState, NEW r \in ResponseType,
         exch' = [exch EXCEPT ![c] = x], wire' = IF exch[c].done THEN wire ELSE Sent(c, r),
         UNCHANGED <<now, active, jwks, call, open>>,
         exch[c].at \in {"handling", "signing", "released"},
         r = Failure \/ Genuine(r, c),
         x.done, x.at \in {"signing", "released"}, x.age < MaxAge + ServerBudget,
         x.at = "signing" => SignedFor(x.signed, x.body, c)
  PROVE  ExchangeInv'
<1>1. wire \in [Calls -> Seq(ResponseType)] /\ GoodWire(wire[c], exch[c], c)
  BY DEF ExchangeInv, ExchangeTypeOK, GoodServer
<1>2. CASE exch[c].done
  <2>1. wire' = [wire EXCEPT ![c] = wire[c]] /\ wire[c] \in Seq(ResponseType)
    BY <1>1, <1>2
  <2>2. GoodWire(wire[c], x, c)
    BY <1>1, <1>2 DEF GoodWire
  <2> QED  BY <2>1, <2>2, ServerMoves, Zenon
<1>3. CASE ~exch[c].done
  <2>1. wire[c] = <<>>
    BY <1>1, <1>3 DEF GoodWire
  <2>2. Append(wire[c], r) = <<r>> /\ <<r>> \in Seq(ResponseType)
    BY <2>1
  <2>3. wire' = [wire EXCEPT ![c] = <<r>>]
    BY <1>1, <1>3, <2>2 DEF Sent
  <2>4. GoodWire(<<r>>, x, c)
    BY DEF GoodWire
  <2> QED  BY <1>3, <2>2, <2>3, <2>4, ServerMoves, Zenon
<1> QED  BY <1>2, <1>3

LEMMA FailureMoves ==
  ASSUME ExchangeAssumption, ExchangeInv, NEW c \in Calls, Fail(c, ServerAt(c, "signing")) \/ Fail(c, FALSE),
         UNCHANGED <<now, active, jwks, call, open>>,
         exch[c].at \in {"handling", "signing", "released"}
  PROVE  ExchangeInv'
<1>0. exch[c] \in ServerState /\ GoodServer(call[c], exch[c], wire[c], c)
  BY DEF ExchangeInv, ExchangeTypeOK
<1>1. wire' = IF exch[c].done THEN wire ELSE Sent(c, Failure)
  BY DEF Fail
<1>2. CASE exch' = [exch EXCEPT ![c] = Finished]
  <2>1. Finished \in ServerState /\ Finished.at = "released" /\ Finished.done /\ Finished.age = 0
    BY Constants DEF Finished, ServerIdle
  <2>2. 0 < MaxAge + ServerBudget
    BY ExchangeAssumption DEF ExchangeAssumption
  <2> QED  BY <1>1, <1>2, <2>1, <2>2, Constants, SendMoves, Zenon
<1>3. CASE exch[c].at = "signing" /\ exch' = [exch EXCEPT ![c].done = TRUE]
  <2> DEFINE x == [exch[c] EXCEPT !.done = TRUE]
  <2>1. x \in ServerState
    BY <1>0, Zenon DEF ServerState
  <2>2. /\ x.at = "signing" /\ x.done /\ x.age = exch[c].age
        /\ x.signed = exch[c].signed /\ x.body = exch[c].body
    BY <1>0, <1>3 DEF ServerState
  <2>3. exch' = [exch EXCEPT ![c] = x]
    BY <1>3, Zenon DEF ExchangeInv, ExchangeTypeOK
  <2>4. SignedFor(x.signed, x.body, c) /\ x.age < MaxAge + ServerBudget
    BY <1>0, <1>3, <2>2 DEF GoodServer
  <2> HIDE DEF x
  <2> QED  BY <1>1, <1>3, <2>1, <2>2, <2>3, <2>4, Constants, SendMoves, Zenon
<1> QED  BY <1>2, <1>3 DEF Fail, ServerAt

LEMMA ArriveStep ==
  ASSUME ExchangeAssumption, ExchangeInv, NEW c \in Calls, Arrive(c)
  PROVE  ExchangeInv'
<1>0. /\ exch[c] \in ServerState /\ exch[c].at = "arriving" /\ now \in Nat
      /\ UNCHANGED <<now, active, jwks, call, wire, open>>
      /\ GoodServer(call[c], exch[c], wire[c], c)
  BY DEF Arrive, ServerAt, ExchangeInv, ExchangeTypeOK
<1>1. CASE CreatedFresh(exch[c].created)
  <2> DEFINE x == [exch[c] EXCEPT !.at = "resolving", !.arrived = now]
  <2>1. /\ x \in ServerState /\ x.at = "resolving" /\ x.arrived = now /\ x.done = exch[c].done
        /\ x.created = exch[c].created /\ x.age = exch[c].age
    BY <1>0, Zenon DEF ServerState
  <2>2. exch' = [exch EXCEPT ![c] = x]
    BY <1>1, Zenon DEF Arrive, ExchangeInv, ExchangeTypeOK
  <2>3. /\ x.arrived - x.created <= MaxAge /\ x.age < MaxAge + ServerBudget
        /\ ~exch[c].done
    BY <1>0, <1>1, <2>1 DEF CreatedFresh, GoodServer
  <2> HIDE DEF x
  <2> QED  BY <1>0, <2>1, <2>2, <2>3, QuietServerMoves, Zenon
<1>2. CASE ~CreatedFresh(exch[c].created)
  <2>1. exch' = Handled(c, 0)
    BY <1>2 DEF Arrive
  <2>2. 0 < MaxAge + ServerBudget
    BY ExchangeAssumption DEF ExchangeAssumption
  <2> QED  BY <1>0, <2>1, <2>2, HandledMoves
<1> QED  BY <1>1, <1>2

(* The budget bounds what the await adds to the age on arrival.              *)
LEMMA VerifyRequestStep ==
  ASSUME ExchangeAssumption, ExchangeInv, NEW c \in Calls, VerifyRequest(c)
  PROVE  ExchangeInv'
<1>0. exch[c] \in ServerState /\ exch[c].at = "resolving" /\ now \in Nat
  BY DEF VerifyRequest, ServerAt, ExchangeInv, ExchangeTypeOK
<1>1. UNCHANGED <<now, active, jwks, call, wire, open>>
  BY DEF VerifyRequest
<1>2. CASE exch' = Handled(c, 0)
  <2>1. 0 < MaxAge + ServerBudget
    BY ExchangeAssumption DEF ExchangeAssumption
  <2> QED  BY <1>0, <1>1, <1>2, <2>1, HandledMoves
<1>3. CASE now < exch[c].arrived + ServerBudget /\ exch' = Handled(c, now - exch[c].created)
  <2>1. exch[c].arrived \in Nat /\ exch[c].created \in Nat
    BY <1>0 DEF ServerState
  <2>2. exch[c].arrived - exch[c].created <= MaxAge
    BY <1>0 DEF ExchangeInv, GoodServer
  <2>3. now - exch[c].created \in Int /\ now - exch[c].created < MaxAge + ServerBudget
    BY <1>0, <1>3, <2>1, <2>2, ExchangeAssumption DEF ExchangeAssumption
  <2> QED  BY <1>0, <1>1, <1>3, <2>3, HandledMoves
<1> QED  BY <1>2, <1>3 DEF VerifyRequest

(* A late write is refused and changes nothing.                              *)
LEMMA WriteStep == ASSUME ExchangeInv, NEW c \in Calls, Write(c) PROVE ExchangeInv'
<1>0. /\ exch[c] \in ServerState /\ GoodServer(call[c], exch[c], wire[c], c)
      /\ exch = [exch EXCEPT ![c] = exch[c]]
  BY DEF ExchangeInv, ExchangeTypeOK
<1>1. UNCHANGED <<now, active, jwks, call, wire, open>> /\ exch[c].at # "idle"
  BY DEF Write
<1>2. CASE UNCHANGED exch
  <2>1. exch[c].at \in {"handling", "signing", "released"}
    BY DEF Write
  <2>2. exch' = [exch EXCEPT ![c] = exch[c]] /\ exch[c].age < MaxAge + ServerBudget
    BY <1>0, <1>2 DEF GoodServer
  <2>3. /\ exch[c].at \notin {"signing", "released"} => ~exch[c].done
        /\ exch[c].at = "signing" => SignedFor(exch[c].signed, exch[c].body, c)
        /\ exch[c].at # "resolving"
    BY <1>0, <2>1 DEF GoodServer
  <2> QED  BY <1>0, <1>1, <2>2, <2>3, QuietServerMoves, Zenon
<1>3. CASE ServerAt(c, "handling")
  <2>1. PICK body \in {c, "overflow"} : exch' = [exch EXCEPT ![c].body = body]
    BY <1>3, Zenon DEF Write
  <2> DEFINE x == [exch[c] EXCEPT !.body = body]
  <2>2. /\ x \in ServerState /\ x.at = exch[c].at /\ x.age = exch[c].age
        /\ x.done = exch[c].done
    BY <1>0, Zenon DEF ServerState, Bodies
  <2>3. exch' = [exch EXCEPT ![c] = x]
    BY <2>1, Zenon DEF ExchangeInv, ExchangeTypeOK
  <2>4. x.at = "handling" /\ x.age < MaxAge + ServerBudget /\ ~exch[c].done
    BY <1>0, <1>3, <2>2 DEF GoodServer, ServerAt
  <2> HIDE DEF x
  <2> QED  BY <1>0, <1>1, <2>2, <2>3, <2>4, QuietServerMoves, Zenon
<1> QED  BY <1>2, <1>3 DEF Write

LEMMA EndStep ==
  ASSUME ExchangeAssumption, ExchangeInv, NEW c \in Calls, End(c)
  PROVE  ExchangeInv'
<1>0. /\ exch[c] \in ServerState /\ exch[c].at = "handling" /\ now \in Nat
      /\ active["server"] \in Nat \ {0} /\ UNCHANGED <<now, active, jwks, call, open>>
  BY DEF End, ServerAt, ExchangeInv, ExchangeTypeOK, Parties
<1>1. CASE exch[c].body = "overflow"
  BY <1>0, <1>1, FailureMoves, Zenon DEF End
<1>2. CASE exch[c].body # "overflow"
  <2> DEFINE s == Signature("server", active["server"], c, now, exch[c].status, exch[c].body)
             x == [exch[c] EXCEPT !.at = "signing", !.age = 0, !.signed = s]
  <2>1. /\ s \in SignatureType /\ s.kid = active["server"] /\ s.nonce = c
        /\ s.domain = "server" /\ s.digest = exch[c].body
    BY <1>0 DEF Signature, SignatureType, ServerState
  <2>2. exch' = [exch EXCEPT ![c] = x] /\ wire' = wire
    BY <1>2, Zenon DEF End, ExchangeInv, ExchangeTypeOK
  <2> HIDE DEF s
  <2>3. 0 \in Int /\ 0 < MaxAge + ServerBudget
    BY ExchangeAssumption DEF ExchangeAssumption
  <2>4. /\ x \in ServerState /\ x.at = "signing" /\ x.age = 0
        /\ x.body = exch[c].body /\ x.signed = s /\ x.done = exch[c].done
    BY <1>0, <2>1, <2>3, Zenon DEF ServerState
  <2>5. SignedFor(x.signed, x.body, c)
    BY <1>0, <2>1, <2>4 DEF SignedFor
  <2> HIDE DEF x
  <2> QED  BY <1>0, <2>2, <2>3, <2>4, <2>5, QuietServerMoves, Zenon
<1> QED  BY <1>1, <1>2

LEMMA ChangeStatusStep == ASSUME ExchangeInv, NEW c \in Calls, ChangeStatus(c) PROVE ExchangeInv'
<1> DEFINE x == [exch[c] EXCEPT !.status = "changed"]
<1>0. /\ exch[c] \in ServerState /\ exch[c].at = "signing"
      /\ GoodServer(call[c], exch[c], wire[c], c)
      /\ UNCHANGED <<now, active, jwks, call, wire, open>>
  BY DEF ChangeStatus, ServerAt, ExchangeInv, ExchangeTypeOK
<1>1. /\ x \in ServerState /\ x.at = exch[c].at /\ x.age = exch[c].age
      /\ x.body = exch[c].body /\ x.signed = exch[c].signed /\ x.done = exch[c].done
  BY <1>0, Zenon DEF ServerState, Statuses
<1>2. exch' = [exch EXCEPT ![c] = x]
  BY Zenon DEF ChangeStatus, ExchangeInv, ExchangeTypeOK
<1>3. x.at = "signing" /\ x.age < MaxAge + ServerBudget /\ SignedFor(x.signed, x.body, c)
  BY <1>0, <1>1 DEF GoodServer
<1> HIDE DEF x
<1> QED  BY <1>0, <1>1, <1>2, <1>3, QuietServerMoves, Zenon

LEMMA ReleaseStep ==
  ASSUME ExchangeAssumption, ExchangeInv, NEW c \in Calls, Release(c)
  PROVE  ExchangeInv'
<1>0. /\ exch[c] \in ServerState /\ exch[c].at = "signing"
      /\ UNCHANGED <<now, active, jwks, call, open>>
  BY DEF Release, ServerAt, ExchangeInv, ExchangeTypeOK
<1>1. CASE Fail(c, FALSE)
  BY <1>0, <1>1, FailureMoves, Zenon
<1>2. CASE ~Fail(c, FALSE)
  <2> DEFINE r == Response(exch[c].status, exch[c].body, exch[c].signed)
  <2>1. r \in ResponseType /\ r.body = exch[c].body /\ r.sig = exch[c].signed
    BY <1>0 DEF Response, ResponseType, ServerState
  <2>2. wire' = IF exch[c].done THEN wire ELSE Sent(c, r)
    BY <1>2, Zenon DEF Release
  <2> HIDE DEF r
  <2>3. Finished \in ServerState /\ Finished.at = "released" /\ Finished.done /\ Finished.age = 0
    BY Constants DEF Finished, ServerIdle
  <2>4. exch' = [exch EXCEPT ![c] = Finished]
    BY <1>2, Zenon DEF Release
  <2>5. Genuine(r, c)
    BY <1>0, <2>1 DEF ExchangeInv, GoodServer, Genuine
  <2>6. 0 < MaxAge + ServerBudget
    BY ExchangeAssumption DEF ExchangeAssumption
  <2> QED  BY <1>0, <2>1, <2>2, <2>3, <2>4, <2>5, <2>6, SendMoves, Zenon
<1> QED  BY <1>1, <1>2, Zenon
-----------------------------------------------------------------------------
LEMMA ClientStep ==
  ASSUME ExchangeAssumption, ExchangeInv, NEW c \in Calls, Client(c)
  PROVE  ExchangeInv'
<1>1. CASE SendFails(c)
  BY <1>1, RejectedMoves DEF SendFails
<1>2. CASE ReceiveLate(c)
  BY <1>2, RejectedMoves, Zenon DEF ReceiveLate, Rejected
<1> QED
  BY <1>1, <1>2, BeginStep, SignRequestStep, ReceiveStep, ResolveStep, ReadContentStep,
     ReturnStep, AbortStep DEF Client

LEMMA ServerStep ==
  ASSUME ExchangeAssumption, ExchangeInv, NEW c \in Calls, Server(c)
  PROVE  ExchangeInv'
<1>1. CASE FlushHeaders(c)
  BY <1>1, FailureMoves, Zenon DEF FlushHeaders
<1> QED
  BY <1>1, ArriveStep, VerifyRequestStep, WriteStep, EndStep, ChangeStatusStep, ReleaseStep
     DEF Server

(* Time, rotations and stuttering touch no call.                             *)
LEMMA OtherStep ==
  ASSUME ExchangeInv, Tick \/ (\E p \in Parties : Rotate(p) \/ Supersede(p)) \/ UNCHANGED vars
  PROVE  ExchangeInv'
<1>1. UNCHANGED <<call, exch, wire, open>>
  BY DEF Tick, Rotate, Supersede, vars
<1>2. now' \in Nat /\ active' \in [Parties -> Nat \ {0}] /\ jwks' \in [Parties -> SUBSET Nat]
  <2>0. now \in Nat /\ active \in [Parties -> Nat \ {0}] /\ jwks \in [Parties -> SUBSET Nat]
    BY DEF ExchangeInv, ExchangeTypeOK
  <2>1. CASE Tick \/ UNCHANGED vars
    BY <2>0, <2>1 DEF Tick, vars
  <2>2. ASSUME NEW p \in Parties, Rotate(p)
        PROVE  now' \in Nat /\ active' \in [Parties -> Nat \ {0}] /\ jwks' \in [Parties -> SUBSET Nat]
    BY <2>0, <2>2 DEF Rotate
  <2>3. ASSUME NEW p \in Parties, Supersede(p)
        PROVE  now' \in Nat /\ active' \in [Parties -> Nat \ {0}] /\ jwks' \in [Parties -> SUBSET Nat]
    BY <2>0, <2>3 DEF Supersede
  <2> QED  BY <2>1, <2>2, <2>3
<1>3. ExchangeTypeOK'
  BY <1>1, <1>2 DEF ExchangeInv, ExchangeTypeOK
<1> QED  BY <1>1, <1>3 DEF ExchangeInv

(* The inductive invariant holds in every reachable state.                   *)
THEOREM ExchangeInvariant == Spec => []ExchangeInv
<1>1. Init => ExchangeInv
  BY ExchangeAssumption, InitExchangeInv
<1>2. ExchangeInv /\ [Next]_vars => ExchangeInv'
  BY ExchangeAssumption, ClientStep, ServerStep, OtherStep DEF Next
<1> QED  BY <1>1, <1>2, PTL DEF Spec

(* Whatever is delivered to a call of the signed fetch, what it returns is   *)
(* the one answer the expected server sent to its own request, unchanged,    *)
(* and fresh when checked.                                                   *)
THEOREM ReturnedIsOurs == Spec => []ResponseIsForThisCall
<1>1. ASSUME ExchangeInv PROVE ResponseIsForThisCall
  <2> SUFFICES ASSUME NEW c \in Calls, call[c].at = "returned"
               PROVE  LET r == call[c].response IN
                      /\ wire[c] = <<r>> /\ r.status = r.sig.status
                      /\ call[c].checkedAt <= r.sig.created + Lifetime + Skew
                      /\ call[c].checkedAt < call[c].until
    BY DEF ResponseIsForThisCall
  <2> DEFINE r == call[c].response
  <2>1. GoodClient(call[c], wire[c], open[c], c) /\ r \in ResponseType
    BY <1>1 DEF ExchangeInv, ExchangeTypeOK, ClientState
  <2>2. PICK q \in ResponseType :
          wire[c] = <<q>> /\ Genuine(q, c) /\ q.sig = r.sig /\ q.status = r.status
    BY <2>1 DEF GoodClient, Answers
  <2>3. q.body = r.body
    BY <2>1, <2>2 DEF GoodClient, Genuine, SignedFor
  <2>4. q = r
    BY <2>1, <2>2, <2>3 DEF ResponseType
  <2> QED  BY <2>1, <2>2, <2>4 DEF GoodClient
<1> QED  BY <1>1, ExchangeInvariant, PTL

(* The middleware answers a request at most once, with the empty failure or  *)
(* with a response signed for it, whatever happens while it is being signed. *)
THEOREM OnlySignedLeaves == Spec => []NothingUnsignedLeaves
<1>1. ASSUME ExchangeInv PROVE NothingUnsignedLeaves
  <2> SUFFICES ASSUME NEW c \in Calls
               PROVE  /\ Len(wire[c]) <= 1
                      /\ \A i \in DOMAIN wire[c] :
                           LET r == wire[c][i] IN
                           \/ r = Failure
                           \/ r.sig.kid # 0 /\ r.sig.nonce = c /\ r.sig.digest = r.body
    BY DEF NothingUnsignedLeaves
  <2>1. GoodWire(wire[c], exch[c], c)
    BY <1>1 DEF ExchangeInv, GoodServer
  <2>2. CASE wire[c] = <<>>
    BY <2>2
  <2>3. CASE wire[c] # <<>>
    <3>1. PICK r \in ResponseType : wire[c] = <<r>> /\ (r = Failure \/ Genuine(r, c))
      BY <2>1, <2>3 DEF GoodWire
    <3>2. Len(wire[c]) = 1 /\ \A i \in DOMAIN wire[c] : wire[c][i] = r
      BY <3>1
    <3> QED  BY <3>1, <3>2 DEF Genuine, SignedFor
  <2> QED  BY <2>2, <2>3
<1> QED  BY <1>1, ExchangeInvariant, PTL

(* The verification budget bounds the age of an accepted request, although   *)
(* its freshness is not checked again after the signer was resolved.         *)
THEOREM AcceptedAgeIsBounded == Spec => []AcceptedRequestIsRecent
<1>1. ExchangeInv => AcceptedRequestIsRecent
  BY DEF ExchangeInv, GoodServer, AcceptedRequestIsRecent
<1> QED  BY <1>1, ExchangeInvariant, PTL

(* A failed call holds no open response unless it aborted its request.       *)
THEOREM FailedCallsRelease == Spec => []FailedIsReleased
<1>1. ExchangeInv => FailedIsReleased
  BY DEF ExchangeInv, GoodClient, FailedIsReleased
<1> QED  BY <1>1, ExchangeInvariant, PTL

-----------------------------------------------------------------------------
(* OIDC federation and JOSE.                                                 *)

MintState ==
  [at : {"idle", "discovering", "resolved", "keyed", "posted", "minted", "failed"},
   options : Options, aud : Choices, dest : Choices, key : Nat, iat : Nat]
CheckState ==
  [at : {"idle", "discovering", "fetching", "resolving", "accepted", "rejected"},
   begun : Nat, acceptedAt : Nat]

OidcTypeOK ==
  /\ time \in Nat /\ agentKey \in Nat
  /\ defaults \in Options
  /\ issuerKeys \in [Origins -> [current : Nat, retiredAt : Seq(Nat)]]
  /\ mint \in MintState
  /\ check \in CheckState

(* A resolved endpoint is the issuer's, or the server that was named.        *)
EndpointInv ==
  mint.at \in {"resolved", "keyed", "posted"} =>
    mint.aud \in Origins /\ mint.dest \in {mint.aud, mint.options.serverUrl}

(* There is one token, so that a check sees the one it began with, and while *)
(* it runs a key that was published to it is not retired before it began.    *)
CheckInv ==
  /\ mint.at # "minted" => CheckAt("idle")
  /\ mint.at = "minted" => token.iss \in Origins
  /\ check.begun <= time
  /\ check.at \in {"resolving", "accepted"} =>
       (token.key \in Unpublished(token.iss) =>
          issuerKeys[token.iss].retiredAt[token.key] >= check.begun)
  /\ CheckAt("accepted") =>
       /\ check.acceptedAt < token.exp /\ token.iat <= check.acceptedAt + TokenSkew
       /\ token.nbf <= check.acceptedAt + TokenSkew

(* No token exists before it is answered.                                    *)
TokenInv == mint.at # "minted" => token = NoToken

OidcInv ==
  /\ OidcTypeOK
  /\ EndpointInv
  /\ TokenInv
  /\ CheckInv
  /\ AssertionGoesWhereConfigured
-----------------------------------------------------------------------------
LEMMA OptionsAreTyped ==
  ASSUME NEW d \in Options, NEW o \in Options
  PROVE  OptionsForCall(d, o) \in Options
  BY DEF OptionsForCall, Options, Else, Choices

LEMMA NoMintIsTyped ==
  NoMint \in MintState /\ NoMint.at = "idle" /\ NoCheck \in CheckState
  BY DEF NoMint, MintState, Options, Choices, NoCheck, CheckState

LEMMA InitOidcInv == ASSUME OidcInit PROVE OidcInv
<1>1. OidcTypeOK
  BY NoMintIsTyped DEF OidcInit, OidcTypeOK
<1>2. EndpointInv /\ AssertionGoesWhereConfigured /\ TokenInv
  BY NoMintIsTyped DEF OidcInit, EndpointInv, AssertionGoesWhereConfigured, TokenInv
<1>3. CheckInv
  BY NoMintIsTyped DEF OidcInit, CheckInv, CheckAt, NoCheck
<1> QED  BY <1>1, <1>2, <1>3 DEF OidcInv

(* A step of the mint that issues no token.                                  *)
LEMMA MintMoves ==
  ASSUME OidcInv, mint' \in MintState, mint.at # "minted", mint'.at # "minted",
         UNCHANGED <<time, defaults, agentKey, issuerKeys, token, check>>,
         EndpointInv', AssertionGoesWhereConfigured'
  PROVE  OidcInv'
<1>1. OidcTypeOK'
  BY DEF OidcInv, OidcTypeOK
<1>2. CheckInv' /\ TokenInv'
  BY DEF OidcInv, CheckInv, TokenInv, CheckAt, Unpublished
<1> QED  BY <1>1, <1>2 DEF OidcInv

LEMMA FailureIsTyped ==
  ASSUME MintFails
  PROVE  mint' \in MintState /\ mint'.at = "failed"
  BY NoMintIsTyped DEF MintFails, MintState, NoMint

LEMMA ResolvedIsTyped ==
  ASSUME NEW o \in Options, NEW aud \in Choices, NEW dest \in Choices,
         EndpointResolved(o, aud, dest)
  PROVE  /\ mint' \in MintState /\ mint'.at = "resolved"
         /\ mint'.options = o /\ mint'.aud = aud /\ mint'.dest = dest
  BY NoMintIsTyped, Zenon DEF EndpointResolved, MintState, NoMint

LEMMA MintFailsMoves ==
  ASSUME OidcInv, MintFails, mint.at # "minted",
         UNCHANGED <<time, defaults, agentKey, issuerKeys, posted, token, check>>
  PROVE  OidcInv'
<1>1. EndpointInv'
  BY FailureIsTyped DEF EndpointInv
<1>2. AssertionGoesWhereConfigured'
  BY DEF OidcInv, AssertionGoesWhereConfigured
<1> QED  BY <1>1, <1>2, FailureIsTyped, MintMoves

LEMMA ResolvedMoves ==
  ASSUME OidcInv, NEW o \in Options, NEW aud \in Origins, NEW dest \in Choices,
         EndpointResolved(o, aud, dest), dest \in {aud, o.serverUrl}, mint.at # "minted",
         UNCHANGED <<time, defaults, agentKey, issuerKeys, posted, token, check>>
  PROVE  OidcInv'
<1>0. aud \in Choices
  BY DEF Choices
<1>1. /\ mint' \in MintState /\ mint'.at = "resolved"
      /\ mint'.options = o /\ mint'.aud = aud /\ mint'.dest = dest
  BY <1>0, ResolvedIsTyped
<1>2. EndpointInv'
  BY <1>1 DEF EndpointInv
<1>3. AssertionGoesWhereConfigured'
  BY DEF OidcInv, AssertionGoesWhereConfigured
<1> QED  BY <1>1, <1>2, <1>3, MintMoves

LEMMA MintBeginsStep == ASSUME OidcInv, NEW o \in Options, MintBegins(o) PROVE OidcInv'
<1> DEFINE options == OptionsForCall(defaults, o)
<1>1. options \in Options
  BY OptionsAreTyped DEF OidcInv, OidcTypeOK
<1>2. mint.at = "idle" /\ UNCHANGED <<time, defaults, agentKey, issuerKeys, posted, token, check>>
  BY DEF MintBegins
<1>3. CASE MintFails
  BY <1>2, <1>3, MintFailsMoves
<1>4. CASE /\ options.tokenEndpoint # None /\ options.tokenEndpoint = options.issuer
           /\ EndpointResolved(options, options.issuer, options.tokenEndpoint)
  <2>1. options.issuer \in Origins /\ options.tokenEndpoint \in Choices
    BY <1>1, <1>4 DEF Options, Choices
  <2> HIDE DEF options
  <2> QED  BY <1>1, <1>2, <1>4, <2>1, ResolvedMoves
<1>5. CASE mint' = [NoMint EXCEPT !.at = "discovering", !.options = options]
  <2> HIDE DEF options
  <2>1. mint' \in MintState /\ mint'.at = "discovering"
    BY <1>1, <1>5, NoMintIsTyped, Zenon DEF MintState, NoMint
  <2>2. EndpointInv' /\ AssertionGoesWhereConfigured'
    BY <1>2, <2>1 DEF EndpointInv, OidcInv, AssertionGoesWhereConfigured
  <2> QED  BY <1>2, <2>1, <2>2, MintMoves
<1> QED  BY <1>3, <1>4, <1>5 DEF MintBegins

LEMMA DiscoverySteps ==
  ASSUME OidcInv, NEW issuer \in Origins, NEW endpoint \in Origins,
         IssuerDiscovered(issuer, endpoint) \/ ServerDiscovered(issuer)
  PROVE  OidcInv'
<1>1. /\ mint.at = "discovering" /\ mint.options \in Options
      /\ UNCHANGED <<time, defaults, agentKey, issuerKeys, posted, token, check>>
  BY DEF IssuerDiscovered, ServerDiscovered, OidcInv, OidcTypeOK, MintState
<1>2. CASE MintFails
  BY <1>1, <1>2, MintFailsMoves
<1>3. CASE endpoint = issuer /\ EndpointResolved(mint.options, issuer, endpoint)
  <2>1. endpoint \in Choices
    BY DEF Choices
  <2> QED  BY <1>1, <1>3, <2>1, ResolvedMoves
<1>4. CASE EndpointResolved(mint.options, issuer, mint.options.serverUrl)
  <2>1. mint.options.serverUrl \in Choices
    BY <1>1 DEF Options
  <2> QED  BY <1>1, <1>4, <2>1, ResolvedMoves
<1> QED  BY <1>2, <1>3, <1>4 DEF IssuerDiscovered, ServerDiscovered

LEMMA AssertionBeginsStep == ASSUME OidcInv, AssertionBegins PROVE OidcInv'
<1>1. /\ mint \in MintState /\ mint.at = "resolved" /\ agentKey \in Nat /\ time \in Nat
      /\ UNCHANGED <<time, defaults, agentKey, issuerKeys, posted, token, check>>
  BY DEF AssertionBegins, OidcInv, OidcTypeOK
<1>2. /\ mint' \in MintState /\ mint'.at = "keyed" /\ mint'.aud = mint.aud
      /\ mint'.dest = mint.dest /\ mint'.options = mint.options
  BY <1>1, Zenon DEF AssertionBegins, MintState
<1>3. EndpointInv' /\ AssertionGoesWhereConfigured'
  BY <1>1, <1>2 DEF OidcInv, EndpointInv, AssertionGoesWhereConfigured
<1> QED  BY <1>1, <1>2, <1>3, MintMoves

(* An assertion is posted to the endpoint that was resolved.                 *)
LEMMA PostedMoves ==
  ASSUME OidcInv, NEW kid, NEW key, NEW own, own => kid = key, mint.at \in {"resolved", "keyed"},
         mint' \in MintState, mint'.at = "posted", mint'.aud = mint.aud,
         mint'.dest = mint.dest, mint'.options = mint.options,
         posted' = posted \cup {[aud |-> mint.aud, dest |-> mint.dest, kid |-> kid, key |-> key,
                                 own |-> own, server |-> mint.options.serverUrl]},
         UNCHANGED <<time, defaults, agentKey, issuerKeys, token, check>>
  PROVE  OidcInv'
<1>1. mint.aud \in Origins /\ mint.dest \in {mint.aud, mint.options.serverUrl}
  BY DEF OidcInv, EndpointInv
<1> DEFINE p == [aud |-> mint.aud, dest |-> mint.dest, kid |-> kid, key |-> key,
                 own |-> own, server |-> mint.options.serverUrl]
<1>2. /\ p.aud = mint.aud /\ p.dest = mint.dest /\ (p.own => p.kid = p.key)
      /\ p.server = mint.options.serverUrl /\ posted' = posted \cup {p}
  OBVIOUS
<1> HIDE DEF p
<1>3. EndpointInv'
  BY <1>1, ZenonT(30) DEF EndpointInv
<1>4. AssertionGoesWhereConfigured'
  BY <1>1, <1>2 DEF OidcInv, AssertionGoesWhereConfigured
<1> QED  BY <1>3, <1>4, MintMoves, Zenon

LEMMA AssertionPostedStep == ASSUME OidcInv, AssertionPosted PROVE OidcInv'
<1>1. /\ mint \in MintState /\ mint.at = "keyed"
      /\ UNCHANGED <<time, defaults, agentKey, issuerKeys, token, check>>
  BY DEF AssertionPosted, OidcInv, OidcTypeOK
<1>2. CASE agentKey = mint.key
  <2>1. /\ mint' \in MintState /\ mint'.at = "posted" /\ mint'.aud = mint.aud
        /\ mint'.dest = mint.dest /\ mint'.options = mint.options
    BY <1>1, <1>2 DEF AssertionPosted, MintState
  <2>2. posted' = posted \cup {[aud |-> mint.aud, dest |-> mint.dest, kid |-> mint.key,
                               key |-> mint.key, own |-> TRUE, server |-> mint.options.serverUrl]}
    BY <1>2 DEF AssertionPosted
  <2> QED  BY <1>1, <2>1, <2>2, PostedMoves, Zenon
<1>3. CASE agentKey # mint.key
  BY <1>1, <1>3, MintFailsMoves DEF AssertionPosted
<1> QED  BY <1>2, <1>3

LEMMA SuppliedAssertionStep ==
  ASSUME OidcInv, NEW aud \in Origins, NEW iat \in 0..time, NEW key,
         SuppliedAssertionPosted(aud, iat, key)
  PROVE  OidcInv'
<1>1. /\ mint \in MintState /\ mint.at = "resolved" /\ agentKey \in Nat /\ iat \in Nat
      /\ UNCHANGED <<time, defaults, agentKey, issuerKeys, token, check>>
  BY SMTT(20) DEF SuppliedAssertionPosted, OidcInv, OidcTypeOK
<1>2. CASE aud = mint.aud
  <2>1. /\ mint' \in MintState /\ mint'.at = "posted" /\ mint'.aud = mint.aud
        /\ mint'.dest = mint.dest /\ mint'.options = mint.options
    BY <1>1, <1>2, Zenon DEF SuppliedAssertionPosted, MintState
  <2>2. PICK kid : kid = agentKey
    OBVIOUS
  <2>3. posted' = posted \cup {[aud |-> mint.aud, dest |-> mint.dest, kid |-> kid,
                               key |-> key, own |-> FALSE, server |-> mint.options.serverUrl]}
    BY <1>2, <2>2 DEF SuppliedAssertionPosted
  <2>4. mint.at \in {"resolved", "keyed"} /\ UNCHANGED <<time, defaults, issuerKeys, token, check>>
    BY <1>1
  <2> QED  BY <1>1, <2>1, <2>3, <2>4, PostedMoves, Zenon
<1>3. CASE aud # mint.aud
  BY <1>1, <1>3, MintFailsMoves DEF SuppliedAssertionPosted
<1> QED  BY <1>2, <1>3

LEMMA TokenAnsweredStep == ASSUME OidcInv, TokenAnswered PROVE OidcInv'
<1>1. /\ mint.at = "posted" /\ mint.aud \in Origins /\ CheckAt("idle")
      /\ UNCHANGED <<time, defaults, agentKey, issuerKeys, posted, check>>
  BY DEF TokenAnswered, OidcInv, EndpointInv, CheckInv
<1>2. CASE MintFails /\ UNCHANGED token
  BY <1>1, <1>2, MintFailsMoves
<1>3. CASE /\ \E nbf \in time..(time + TokenLifetime) :
                token' = [iss |-> mint.aud, key |-> issuerKeys[mint.aud].current,
                          iat |-> time, nbf |-> nbf, exp |-> time + TokenLifetime]
           /\ mint' = [NoMint EXCEPT !.at = "minted"]
  <2>1. mint' \in MintState /\ mint'.at = "minted" /\ token'.iss = mint.aud
    BY <1>3, NoMintIsTyped DEF MintState, NoMint
  <2>2. OidcTypeOK' /\ EndpointInv' /\ AssertionGoesWhereConfigured'
    BY <1>1, <2>1, Zenon DEF OidcInv, OidcTypeOK, EndpointInv, AssertionGoesWhereConfigured
  <2>3. CheckInv' /\ TokenInv'
    BY <1>1, <2>1, Zenon DEF OidcInv, CheckInv, CheckAt, TokenInv
  <2> QED  BY <2>2, <2>3 DEF OidcInv
<1> QED  BY <1>2, <1>3 DEF TokenAnswered
-----------------------------------------------------------------------------
(* A step of the check, once there is a token.                               *)
LEMMA CheckMoves ==
  ASSUME OidcInv, check' \in CheckState, mint.at = "minted", CheckInv',
         UNCHANGED <<time, defaults, agentKey, issuerKeys, mint, posted, token>>
  PROVE  OidcInv'
  BY DEF OidcInv, OidcTypeOK, EndpointInv, TokenInv, AssertionGoesWhereConfigured

LEMMA CheckFailsMoves ==
  ASSUME OidcInv, CheckFails, mint.at = "minted",
         UNCHANGED <<time, defaults, agentKey, issuerKeys, mint, posted, token>>
  PROVE  OidcInv'
<1>1. check' \in CheckState /\ check'.at = "rejected" /\ check'.begun = 0
  BY NoMintIsTyped DEF CheckFails, CheckState, NoCheck
<1>2. CheckInv'
  BY <1>1 DEF OidcInv, OidcTypeOK, CheckInv, CheckAt
<1> QED  BY <1>1, <1>2, CheckMoves

(* Before the keys have been fetched.                                        *)
LEMMA CheckProceeds ==
  ASSUME OidcInv, check' \in CheckState, mint.at = "minted",
         check'.at \in {"discovering", "fetching"}, check'.begun <= time,
         UNCHANGED <<time, defaults, agentKey, issuerKeys, mint, posted, token>>
  PROVE  OidcInv'
<1>1. CheckInv'
  BY DEF OidcInv, CheckInv, CheckAt
<1> QED  BY <1>1, CheckMoves

LEMMA CheckStep == ASSUME OidcInv, Check PROVE OidcInv'
<1>0. check \in CheckState /\ check.begun <= time /\ time \in Nat
  BY DEF OidcInv, OidcTypeOK, CheckInv
<1>1. UNCHANGED <<time, defaults, agentKey, issuerKeys, mint, posted, token>>
  BY DEF Check, CheckBegins, CheckKeys, CheckSubject, CheckAborted, CheckDiscovered
<1>2. ASSUME check.at # "idle" PROVE mint.at = "minted"
  BY <1>2 DEF OidcInv, CheckInv, CheckAt
<1>3. CASE CheckBegins
  <2>1. mint.at = "minted"
    BY <1>3 DEF OidcInv, TokenInv, CheckBegins
  <2>2. CASE CheckFails
    BY <1>1, <2>1, <2>2, CheckFailsMoves
  <2>3. CASE check' = [NoCheck EXCEPT !.at = "discovering", !.begun = time]
    <3>1. check' \in CheckState /\ check'.at = "discovering" /\ check'.begun = time
      BY <1>0, <2>3, NoMintIsTyped, Zenon DEF CheckState, NoCheck
    <3> QED  BY <1>0, <1>1, <2>1, <3>1, CheckProceeds
  <2> QED  BY <1>3, <2>2, <2>3 DEF CheckBegins
<1>4. ASSUME NEW issuer \in Origins, NEW endpoint \in Origins, CheckDiscovered(issuer, endpoint)
      PROVE  OidcInv'
  <2>1. mint.at = "minted"
    BY <1>2, <1>4 DEF CheckDiscovered, CheckAt
  <2>2. CASE check' = [check EXCEPT !.at = "fetching"]
    <3>1. check' \in CheckState /\ check'.at = "fetching" /\ check'.begun = check.begun
      BY <1>0, <2>2 DEF CheckState
    <3> QED  BY <1>0, <1>1, <2>1, <3>1, CheckProceeds
  <2> QED  BY <1>1, <1>4, <2>1, <2>2, CheckFailsMoves DEF CheckDiscovered
<1>5. CASE CheckKeys
  <2>1. mint.at = "minted"
    BY <1>2, <1>5 DEF CheckKeys, CheckAt
  <2>2. CASE token.key \in Jwks(token.iss) /\ check' = [check EXCEPT !.at = "resolving"]
    <3>1. check' \in CheckState /\ check'.at = "resolving" /\ check'.begun = check.begun
      BY <1>0, <2>2 DEF CheckState
    <3>2. token.key \notin Unpublished(token.iss)
      BY <2>2 DEF Jwks
    <3>3. CheckInv'
      BY <1>0, <1>1, <2>1, <3>1, <3>2 DEF OidcInv, CheckInv, CheckAt, Unpublished
    <3> QED  BY <1>1, <2>1, <3>1, <3>3, CheckMoves
  <2> QED  BY <1>1, <1>5, <2>1, <2>2, CheckFailsMoves DEF CheckKeys
<1>6. CASE CheckSubject
  <2>1. mint.at = "minted" /\ check.at = "resolving"
    BY <1>2, <1>6, Zenon DEF CheckSubject, CheckAt
  <2>2. CASE TokenTimes /\ check' = [check EXCEPT !.at = "accepted", !.acceptedAt = time]
    <3>1. /\ check' \in CheckState /\ check'.at = "accepted" /\ check'.begun = check.begun
          /\ check'.acceptedAt = time
      BY <1>0, <2>2, Zenon DEF CheckState
    <3>2. time < token.exp /\ token.iat <= time + TokenSkew /\ token.nbf <= time + TokenSkew
      BY <2>2, Zenon DEF TokenTimes
    <3>3. CheckInv'
      BY <1>0, <1>1, <2>1, <3>1, <3>2 DEF OidcInv, CheckInv, CheckAt, Unpublished
    <3> QED  BY <1>1, <2>1, <3>1, <3>3, CheckMoves
  <2> QED  BY <1>1, <1>6, <2>1, <2>2, CheckFailsMoves DEF CheckSubject
<1>7. CASE CheckAborted
  BY <1>1, <1>2, <1>7, CheckFailsMoves DEF CheckAborted
<1> QED  BY <1>3, <1>4, <1>5, <1>6, <1>7 DEF Check
-----------------------------------------------------------------------------
(* A key that an issuer retires while a check runs was retired after the     *)
(* check began.                                                              *)
LEMMA IssuerRotatesStep == ASSUME OidcInv, NEW i \in Origins, IssuerRotates(i) PROVE OidcInv'
<1> DEFINE k == issuerKeys[i]
<1>1. /\ issuerKeys \in [Origins -> [current : Nat, retiredAt : Seq(Nat)]] /\ time \in Nat
      /\ k.current \in Nat /\ k.retiredAt \in Seq(Nat)
      /\ UNCHANGED <<time, defaults, agentKey, mint, posted, token, check>>
  BY DEF OidcInv, OidcTypeOK, IssuerRotates
<1>2. issuerKeys' = [issuerKeys EXCEPT ![i] =
        [current |-> k.current + 1, retiredAt |-> Append(k.retiredAt, time)]]
  BY Zenon DEF IssuerRotates
<1>3. issuerKeys' \in [Origins -> [current : Nat, retiredAt : Seq(Nat)]]
  BY <1>1, <1>2, SMTT(20)
<1>4. OidcTypeOK' /\ EndpointInv' /\ TokenInv' /\ AssertionGoesWhereConfigured'
  BY <1>1, <1>3, Zenon DEF OidcInv, OidcTypeOK, EndpointInv, TokenInv, AssertionGoesWhereConfigured
<1>5. ASSUME NEW j \in Origins, NEW n \in DOMAIN issuerKeys'[j].retiredAt
      PROVE  \/ n \in DOMAIN issuerKeys[j].retiredAt
                /\ issuerKeys'[j].retiredAt[n] = issuerKeys[j].retiredAt[n]
             \/ issuerKeys'[j].retiredAt[n] = time
  <2>1. CASE j # i
    BY <1>1, <1>2, <2>1
  <2>2. CASE j = i
    <3>1. issuerKeys'[j].retiredAt = Append(k.retiredAt, time)
      BY <1>1, <1>2, <2>2
    <3> QED  BY <1>1, <1>5, <2>2, <3>1, SMTT(20)
  <2> QED  BY <2>1, <2>2
<1>6. ASSUME check.at \in {"resolving", "accepted"}, token.key \in Unpublished(token.iss)'
      PROVE  issuerKeys'[token.iss].retiredAt[token.key] >= check.begun
  <2>1. token.iss \in Origins /\ check.begun <= time /\ check.begun \in Nat
    BY <1>6 DEF OidcInv, OidcTypeOK, CheckState, CheckInv, CheckAt
  <2>2. token.key \in DOMAIN issuerKeys'[token.iss].retiredAt
    BY <1>1, <1>6 DEF Unpublished
  <2>3. CASE issuerKeys'[token.iss].retiredAt[token.key] = time
    BY <1>1, <2>1, <2>3
  <2>4. CASE /\ token.key \in DOMAIN issuerKeys[token.iss].retiredAt
             /\ issuerKeys'[token.iss].retiredAt[token.key] = issuerKeys[token.iss].retiredAt[token.key]
    BY <1>6, <2>4, ZenonT(30) DEF OidcInv, CheckInv, Unpublished
  <2> QED  BY <1>5, <2>1, <2>2, <2>3, <2>4, Zenon
<1>7. CheckInv'
  BY <1>1, <1>6 DEF OidcInv, CheckInv, CheckAt
<1> QED  BY <1>4, <1>7 DEF OidcInv

LEMMA OidcQuietStep ==
  ASSUME OidcInv, TimePasses \/ AgentRotates \/ UNCHANGED oidcVars
  PROVE  OidcInv'
<1>1. /\ time \in Nat /\ time' \in Nat /\ time <= time' /\ agentKey' \in Nat
      /\ UNCHANGED <<defaults, issuerKeys, mint, posted, token, check>>
  BY SMTT(20) DEF OidcInv, OidcTypeOK, TimePasses, AgentRotates, oidcVars
<1>2. OidcTypeOK' /\ EndpointInv' /\ TokenInv' /\ AssertionGoesWhereConfigured'
  BY <1>1, Zenon DEF OidcInv, OidcTypeOK, EndpointInv, TokenInv, AssertionGoesWhereConfigured
<1>3. check.begun \in Nat
  BY Zenon DEF OidcInv, OidcTypeOK, CheckState
<1>4. CheckInv'
  BY <1>1, <1>3 DEF OidcInv, CheckInv, CheckAt, Unpublished
<1> QED  BY <1>2, <1>4 DEF OidcInv

(* The inductive invariant of OIDC federation holds.                         *)
THEOREM OidcInvariant == OidcSpec => []OidcInv
<1>1. OidcInit => OidcInv
  BY InitOidcInv
<1>2. OidcInv /\ [OidcNext]_oidcVars => OidcInv'
  <2> SUFFICES ASSUME OidcInv, [OidcNext]_oidcVars PROVE OidcInv'
    OBVIOUS
  <2>1. CASE Mint
    <3>1. CASE DiscoveryFails
      <4>1. mint.at = "discovering"
        BY <3>1 DEF DiscoveryFails
      <4> QED  BY <3>1, <4>1, MintFailsMoves DEF DiscoveryFails
    <3> QED  BY <2>1, <3>1, MintBeginsStep, DiscoverySteps, SuppliedAssertionStep,
                AssertionBeginsStep, AssertionPostedStep, TokenAnsweredStep DEF Mint
  <2> QED  BY <2>1, CheckStep, IssuerRotatesStep, OidcQuietStep DEF OidcNext
<1> QED  BY <1>1, <1>2, PTL DEF OidcSpec

(* For any options, defaults and discovery documents, an assertion goes to   *)
(* the issuer it is addressed to or to the server the caller named, signed   *)
(* by the key its header names.                                              *)
THEOREM AssertionsStayConfigured == OidcSpec => []AssertionGoesWhereConfigured
<1>1. OidcInv => AssertionGoesWhereConfigured
  BY DEF OidcInv
<1> QED  BY <1>1, OidcInvariant, PTL

(* An accepted token is valid when its verification ends, and its key was    *)
(* published when the verification began, however issuers rotate meanwhile.  *)
THEOREM AcceptedTokensAreCurrent == OidcSpec => []AcceptedTokenIsCurrent
<1>1. OidcInv => AcceptedTokenIsCurrent
  BY DEF OidcInv, CheckInv, CheckAt, AcceptedTokenIsCurrent
<1> QED  BY <1>1, OidcInvariant, PTL
-----------------------------------------------------------------------------
ClaimsType ==
  [iss : JoseDomains, sub : JoseDomains, aud : Audiences, iat : Nat, exp : Nat, nbf : Nat]
TokenType ==
  [form : {"JWT", "JWS", "other"}, by : JoseKeys, kid : KidTexts, claims : ClaimsType,
   algAllowed : BOOLEAN]
SigningState ==
  [at : {"sign"}, form : {"JWT", "JWS"}, domain : LocalDomains, kid : KidTexts,
   claims : ClaimsType]
VerifyingState ==
  [at : {"resolve", "verify", "accepted"}, form : {"JWT", "JWS"}, token : TokenType,
   domain : JoseDomains, expected : Audiences, key : JoseKeys \cup {<<>>}, acceptedAt : Nat]

JoseTypeOK ==
  /\ joseClock \in Nat
  /\ joseKey \in [LocalDomains -> 1 .. MaxJoseKeys]
  /\ keySets \in [LocalDomains -> SUBSET [kid : KidTexts, key : JoseKeys]]
  /\ signing \in {NotSigning} \cup SigningState
  /\ made \subseteq TokenType
  /\ verifying \in {NotVerifying, [at |-> "rejected"]} \cup VerifyingState

(* The form of a token shows in its key id.                                  *)
Formed(t) ==
  /\ t.form = "JWT" => t.kid.domain = Bare
  /\ t.form = "JWS" => t.kid.domain # Bare

(* An agent that runs this code publishes its own keys under their own ids.  *)
KeySetInv == \A d \in LocalDomains : \A e \in keySets[d] : e.key[1] = d /\ e.kid = BareKid(e.key)

(* What is known of a token at each point of its verification.               *)
GoodVerification(v) ==
  LET t == v.token IN
  /\ t \in made \cup OtherTokens
  /\ v.form = "JWT" =>
       /\ t.claims.iss = v.domain /\ t.claims.sub = v.domain /\ t.claims.aud = v.expected
       /\ t.claims.iat <= joseClock + JoseSkew /\ t.claims.nbf <= joseClock + JoseSkew
       /\ t.claims.exp <= t.claims.iat + JoseMaxLifetime
  /\ v.form = "JWS" => t.kid.domain # Bare
  /\ v.at \in {"verify", "accepted"} /\ v.domain \in LocalDomains =>
       /\ v.key[1] = v.domain
       /\ v.form = "JWT" => t.kid = BareKid(v.key)
       /\ v.form = "JWS" => t.kid.kid = v.key
  /\ v.at = "accepted" =>
       /\ t.by = v.key
       /\ v.form = "JWT" =>
            /\ t.claims.iat <= v.acceptedAt + JoseSkew
            /\ t.claims.nbf <= v.acceptedAt + JoseSkew
            /\ v.acceptedAt < t.claims.exp

JoseInv ==
  /\ JoseTypeOK
  /\ KeySetInv
  /\ signing \in SigningState => Formed(signing)
  /\ \A t \in made : Formed(t) /\ t.form # "other"
  /\ verifying \in VerifyingState => GoodVerification(verifying)
-----------------------------------------------------------------------------
LEMMA OwnKeys ==
  ASSUME JoseAssumption, NEW d \in LocalDomains, NEW n \in 1 .. MaxJoseKeys
  PROVE  /\ <<d, n>> \in JoseKeys /\ <<d, n>>[1] = d
         /\ BareKid(<<d, n>>) \in KidTexts /\ BareKid(<<d, n>>).domain = Bare
         /\ [domain |-> d, kid |-> <<d, n>>] \in KidTexts
<1>1. <<d, n>> \in JoseKeys
  BY DEF JoseKeys
<1> QED  BY <1>1 DEF BareKid, KidTexts, JoseDomains

LEMMA Unmatched ==
  /\ NotSigning \notin SigningState
  /\ NotVerifying \notin VerifyingState /\ [at |-> "rejected"] \notin VerifyingState
<1>1. NotSigning.at = "idle" /\ NotVerifying.at = "idle" /\ [at |-> "rejected"].at = "rejected"
  BY DEF NotSigning, NotVerifying
<1>2. \A s \in SigningState : s.at = "sign"
  BY DEF SigningState
<1>3. \A v \in VerifyingState : v.at \in {"resolve", "verify", "accepted"}
  BY DEF VerifyingState
<1>4. "idle" \notin {"resolve", "verify", "accepted"} /\ "rejected" \notin {"resolve", "verify", "accepted"}
  OBVIOUS
<1> QED  BY <1>1, <1>2, <1>3, <1>4

LEMMA ClaimsAreTyped ==
  ASSUME JoseAssumption
  PROVE  AllClaims \subseteq ClaimsType /\ OtherTokens \subseteq TokenType
<1>1. AllClaims \subseteq ClaimsType
  BY DEF AllClaims, Claims, ClaimsType, JoseAssumption
<1>2. OtherDomains \X {1} \subseteq JoseKeys
  BY DEF JoseKeys
<1>3. OtherTokens \subseteq TokenType
  BY <1>1, <1>2 DEF OtherTokens, TokenType
<1> QED  BY <1>1, <1>3

LEMMA InitJoseInv == ASSUME JoseAssumption, JoseInit PROVE JoseInv
<1>1. 1 \in 1 .. MaxJoseKeys
  BY SMTT(20) DEF JoseAssumption
<1>2. ASSUME NEW d \in LocalDomains
      PROVE  /\ keySets[d] = {[kid |-> BareKid(<<d, 1>>), key |-> <<d, 1>>]}
             /\ keySets[d] \in SUBSET [kid : KidTexts, key : JoseKeys]
             /\ \A e \in keySets[d] : e.key[1] = d /\ e.kid = BareKid(e.key)
  <2>1. keySets[d] = {[kid |-> BareKid(<<d, 1>>), key |-> <<d, 1>>]}
    BY DEF JoseInit
  <2>2. <<d, 1>> \in JoseKeys /\ <<d, 1>>[1] = d /\ BareKid(<<d, 1>>) \in KidTexts
    BY <1>1, OwnKeys, Zenon
  <2> QED  BY <2>1, <2>2
<1>3. JoseTypeOK
  <2>1. keySets \in [LocalDomains -> SUBSET [kid : KidTexts, key : JoseKeys]]
    <3>1. keySets = [d \in LocalDomains |-> keySets[d]]
      BY DEF JoseInit
    <3> QED  BY <1>2, <3>1, Zenon
  <2> QED  BY <1>1, <2>1 DEF JoseInit, JoseTypeOK
<1>4. KeySetInv
  BY <1>2, ZenonT(30) DEF KeySetInv
<1> QED  BY <1>3, <1>4, Unmatched DEF JoseInit, JoseInv

(* A time that a clock with its skew has reached stays reached.              *)
LEMMA LaterReached ==
  ASSUME NEW t \in Nat, NEW skew \in Nat, NEW a \in Nat, NEW b \in Nat, a <= b, t <= a + skew
  PROVE  t <= b + skew
OBVIOUS

(* A verification in progress keeps what is known of its token while the     *)
(* clock advances and tokens are made.                                       *)
LEMMA VerificationKept ==
  ASSUME JoseAssumption, JoseInv, joseClock' \in Nat, joseClock <= joseClock', made \subseteq made',
         verifying \in VerifyingState, UNCHANGED verifying
  PROVE  GoodVerification(verifying)'
<1>1. GoodVerification(verifying) /\ joseClock \in Nat
  BY DEF JoseInv, JoseTypeOK
<1>2. /\ verifying.token \in TokenType /\ JoseSkew \in Nat
      /\ verifying.token.claims.iat \in Nat /\ verifying.token.claims.nbf \in Nat
  BY DEF VerifyingState, TokenType, ClaimsType, JoseAssumption
<1>3. ASSUME NEW t \in Nat, t <= joseClock + JoseSkew PROVE t <= joseClock' + JoseSkew
  BY <1>1, <1>2, <1>3, LaterReached, Zenon
<1> QED  BY <1>1, <1>2, <1>3, SMTT(20) DEF GoodVerification

LEMMA CreateStep ==
  ASSUME JoseAssumption, JoseInv, signing' \in SigningState, Formed(signing)',
         UNCHANGED <<joseClock, joseKey, keySets, made, verifying>>
  PROVE  JoseInv'
<1>1. JoseTypeOK' /\ KeySetInv'
  BY Zenon DEF JoseInv, JoseTypeOK, KeySetInv
<1>2. verifying' \in VerifyingState => GoodVerification(verifying)'
  BY Zenon DEF JoseInv, GoodVerification
<1> QED  BY <1>1, <1>2 DEF JoseInv, Formed

LEMMA CreateJWTStep ==
  ASSUME JoseAssumption, JoseInv, NEW d \in LocalDomains, NEW aud \in Audiences,
         NEW expiry \in JoseLifetimes, NEW nbf \in {0, LastSecond}, CreateJWT(d, aud, expiry, nbf)
  PROVE  JoseInv'
<1> DEFINE c == Claims(d, d, aud, joseClock, joseClock + expiry, nbf)
           k == BareKid(<<d, joseKey[d]>>)
<1>1. joseClock \in Nat /\ expiry \in Nat /\ nbf \in Nat /\ joseKey[d] \in 1 .. MaxJoseKeys
      /\ d \in JoseDomains
  BY SMTT(20) DEF JoseInv, JoseTypeOK, JoseAssumption, JoseDomains
<1>2. c \in ClaimsType
  BY <1>1 DEF Claims, ClaimsType
<1>3. k \in KidTexts /\ k.domain = Bare
  BY <1>1, OwnKeys, Zenon
<1>4. signing' = [at |-> "sign", form |-> "JWT", domain |-> d, kid |-> k, claims |-> c]
  BY Zenon DEF CreateJWT
<1> HIDE DEF c, k
<1>5. signing' \in SigningState /\ Formed(signing)'
  BY <1>2, <1>3, <1>4, Zenon DEF SigningState, Formed
<1> QED  BY <1>5, CreateStep, Zenon DEF CreateJWT

LEMMA CreateJWSStep ==
  ASSUME JoseAssumption, JoseInv, NEW d \in LocalDomains, NEW payload \in ClaimLikeBytes,
         CreateJWS(d, payload)
  PROVE  JoseInv'
<1> DEFINE k == [domain |-> d, kid |-> <<d, joseKey[d]>>]
<1>1. joseKey[d] \in 1 .. MaxJoseKeys /\ d # Bare
  BY DEF JoseInv, JoseTypeOK, JoseAssumption, JoseDomains
<1>2. payload \in ClaimsType
  BY ClaimsAreTyped DEF ClaimLikeBytes
<1>3. k \in KidTexts /\ k.domain = d
  BY <1>1, OwnKeys
<1>4. signing' = [at |-> "sign", form |-> "JWS", domain |-> d, kid |-> k, claims |-> payload]
  BY Zenon DEF CreateJWS
<1> HIDE DEF k
<1>5. signing' \in SigningState /\ Formed(signing)'
  BY <1>1, <1>2, <1>3, <1>4 DEF SigningState, Formed
<1> QED  BY <1>5, CreateStep DEF CreateJWS

LEMMA SignCompactStep == ASSUME JoseAssumption, JoseInv, SignCompact PROVE JoseInv'
<1> DEFINE t == [form |-> signing.form, by |-> <<signing.domain, joseKey[signing.domain]>>,
                 kid |-> signing.kid, claims |-> signing.claims, algAllowed |-> TRUE]
<1>1. signing \in SigningState /\ Formed(signing)
  BY DEF JoseInv, JoseTypeOK, SignCompact, NotSigning
<1>2. signing.domain \in LocalDomains /\ joseKey[signing.domain] \in 1 .. MaxJoseKeys
  BY <1>1 DEF SigningState, JoseInv, JoseTypeOK
<1>3. <<signing.domain, joseKey[signing.domain]>> \in JoseKeys
  BY <1>2, OwnKeys, Zenon
<1>4. t \in TokenType /\ Formed(t) /\ t.form # "other"
  BY <1>1, <1>3 DEF SigningState, TokenType, Formed
<1>5. /\ made' \in {made, made \cup {t}} /\ signing' = NotSigning
      /\ UNCHANGED <<joseClock, joseKey, keySets, verifying>>
  BY Zenon DEF SignCompact
<1> HIDE DEF t
<1>6. JoseTypeOK' /\ KeySetInv'
  BY <1>4, <1>5 DEF JoseInv, JoseTypeOK, KeySetInv
<1>7. \A u \in made' : Formed(u) /\ u.form # "other"
  BY <1>4, <1>5, Zenon DEF JoseInv
<1>8. verifying' \in VerifyingState => GoodVerification(verifying)'
  BY <1>5, VerificationKept, SMTT(20) DEF JoseInv, JoseTypeOK
<1> QED  BY <1>5, <1>6, <1>7, <1>8, Unmatched, ZenonT(30) DEF JoseInv

(* A step of the verification.                                               *)
LEMMA VerifyingMoves ==
  ASSUME JoseInv, UNCHANGED <<joseClock, joseKey, keySets, signing, made>>,
         \/ verifying' = [at |-> "rejected"]
         \/ verifying' \in VerifyingState /\ GoodVerification(verifying')
  PROVE  JoseInv'
<1>1. JoseTypeOK' /\ KeySetInv'
  BY Zenon DEF JoseInv, JoseTypeOK, KeySetInv
<1>2. verifying' \in VerifyingState => GoodVerification(verifying)'
  BY Unmatched, Zenon DEF GoodVerification
<1> QED  BY <1>1, <1>2 DEF JoseInv, Formed

(* A verification begins with a token that was made or that others signed.   *)
LEMMA ResolvingMoves ==
  ASSUME JoseAssumption, JoseInv, NEW t \in made \cup OtherTokens, NEW form \in {"JWT", "JWS"},
         NEW domain \in JoseDomains, NEW expected \in Audiences,
         Resolving(form, t, domain, expected),
         UNCHANGED <<joseClock, joseKey, keySets, signing, made>>,
         form = "JWT" => ClaimsHold(t.claims, expected) /\ domain = t.claims.iss,
         form = "JWS" => t.kid.domain # Bare
  PROVE  JoseInv'
<1> DEFINE v == [at |-> "resolve", form |-> form, token |-> t, domain |-> domain,
                 expected |-> expected, key |-> <<>>, acceptedAt |-> 0]
<1>1. t \in TokenType
  BY ClaimsAreTyped, Zenon DEF JoseInv, JoseTypeOK
<1>2. /\ v \in VerifyingState /\ v.at = "resolve" /\ v.form = form /\ v.token = t
      /\ v.domain = domain /\ v.expected = expected
  BY <1>1, ZenonT(30) DEF VerifyingState
<1>3. verifying' = v
  BY Zenon DEF Resolving
<1> HIDE DEF v
<1>4. t.claims.iat \in Nat /\ t.claims.exp \in Nat /\ JoseMaxLifetime \in Nat
  BY <1>1, ZenonT(30) DEF TokenType, ClaimsType, JoseAssumption
<1>5. form = "JWT" =>
        /\ t.claims.iss = domain /\ t.claims.sub = domain /\ t.claims.aud = expected
        /\ t.claims.iat <= joseClock + JoseSkew /\ t.claims.nbf <= joseClock + JoseSkew
        /\ t.claims.exp <= t.claims.iat + JoseMaxLifetime
  BY <1>4, SMTT(20) DEF ClaimsHold
<1>6. GoodVerification(v)
  BY <1>2, <1>5, Zenon DEF GoodVerification
<1> QED  BY <1>2, <1>3, <1>6, VerifyingMoves, Zenon

LEMMA VerifyBeginsStep ==
  ASSUME JoseAssumption, JoseInv, NEW t \in made \cup OtherTokens,
         VerifyJWS(t) \/ \E expected \in Audiences : VerifyJWT(t, expected)
  PROVE  JoseInv'
<1>0. UNCHANGED <<joseClock, joseKey, keySets, signing, made>>
  BY Zenon DEF VerifyJWS, VerifyJWT
<1>1. t \in TokenType /\ t.claims.iss \in JoseDomains /\ t.claims.aud \in Audiences
      /\ t.kid.domain \in JoseDomains \cup {Bare}
  <2>1. t \in TokenType
    BY ClaimsAreTyped DEF JoseInv, JoseTypeOK
  <2> QED  BY <2>1 DEF TokenType, ClaimsType, KidTexts
<1>2. CASE Refused
  BY <1>0, <1>2, VerifyingMoves, Zenon DEF Refused
<1>3. ASSUME NEW expected \in Audiences, ClaimsHold(t.claims, expected),
             Resolving("JWT", t, t.claims.iss, expected)
      PROVE  JoseInv'
  BY <1>0, <1>1, <1>3, ResolvingMoves, Zenon
<1>4. ASSUME NamesDomain(t.kid),
             Resolving("JWS", t, t.kid.domain, CHOOSE a \in Audiences : TRUE)
      PROVE  JoseInv'
  <2>1. PICK a \in Audiences : a = CHOOSE b \in Audiences : TRUE
    BY <1>1, Zenon
  <2>2. t.kid.domain \in JoseDomains /\ t.kid.domain # Bare
    BY <1>1, <1>4 DEF NamesDomain
  <2>3. Resolving("JWS", t, t.kid.domain, a)
    BY <1>4, <2>1
  <2> QED  BY <1>0, <2>2, <2>3, ResolvingMoves, Zenon
<1> QED  BY <1>2, <1>3, <1>4, Zenon DEF VerifyJWS, VerifyJWT

(* The key is looked up in a key set of the domain.  A key set of an agent   *)
(* that runs this code holds no key but the agent's, under its own id.       *)
LEMMA KeyByIdMoves ==
  ASSUME JoseAssumption, JoseInv, verifying \in VerifyingState, verifying.at = "resolve",
         NEW text, KeyById(text),
         verifying.form = "JWT" => text = verifying.token.kid,
         verifying.form = "JWS" => text = BareKid(verifying.token.kid.kid)
  PROVE  JoseInv'
<1>0. UNCHANGED <<joseClock, joseKey, keySets, signing, made>>
  BY DEF KeyById
<1>1. PICK e \in KeySetEntries(verifying.domain) :
        IF e.kid = text
        THEN verifying' = [verifying EXCEPT !.at = "verify", !.key = e.key] ELSE Refused
  BY Zenon DEF KeyById
<1>2. CASE Refused
  BY <1>0, <1>2, VerifyingMoves, Zenon DEF Refused
<1>3. CASE e.kid = text /\ verifying' = [verifying EXCEPT !.at = "verify", !.key = e.key]
  <2>1. e.key \in JoseKeys
    BY <1>1 DEF KeySetEntries, JoseInv, JoseTypeOK
  <2>2. /\ verifying' \in VerifyingState /\ verifying'.at = "verify" /\ verifying'.key = e.key
        /\ verifying'.form = verifying.form /\ verifying'.token = verifying.token
        /\ verifying'.domain = verifying.domain /\ verifying'.expected = verifying.expected
    BY <1>3, <2>1, Zenon DEF VerifyingState
  <2>3. ASSUME verifying.domain \in LocalDomains
        PROVE  e.key[1] = verifying.domain /\ e.kid = BareKid(e.key)
    BY <1>1, <2>3 DEF KeySetEntries, JoseInv, KeySetInv
  <2>4. ASSUME verifying.domain \in LocalDomains, verifying.form = "JWS"
        PROVE  verifying.token.kid.kid = e.key
    BY <1>3, <2>3, <2>4 DEF BareKid
  <2>5. GoodVerification(verifying)
    BY DEF JoseInv
  <2>6. GoodVerification(verifying')
    BY <1>3, <2>2, <2>3, <2>4, <2>5 DEF GoodVerification
  <2> QED  BY <1>0, <2>2, <2>6, VerifyingMoves
<1> QED  BY <1>1, <1>2, <1>3

LEMMA ConcludesMoves ==
  ASSUME JoseAssumption, JoseInv, verifying \in VerifyingState, verifying.at = "verify",
         NEW accepted \in BOOLEAN, Concludes(accepted),
         accepted => verifying.token.by = verifying.key,
         accepted /\ verifying.form = "JWT" => verifying.token.claims.exp > joseClock
  PROVE  JoseInv'
<1>0. UNCHANGED <<joseClock, joseKey, keySets, signing, made>> /\ joseClock \in Nat
  BY DEF Concludes, JoseInv, JoseTypeOK
<1>1. CASE Refused
  BY <1>0, <1>1, VerifyingMoves, Zenon DEF Refused
<1>2. CASE accepted /\ verifying' = [verifying EXCEPT !.at = "accepted", !.acceptedAt = joseClock]
  <2>1. /\ verifying' \in VerifyingState /\ verifying'.at = "accepted"
        /\ verifying'.acceptedAt = joseClock /\ verifying'.key = verifying.key
        /\ verifying'.form = verifying.form /\ verifying'.token = verifying.token
        /\ verifying'.domain = verifying.domain /\ verifying'.expected = verifying.expected
    BY <1>0, <1>2, Zenon DEF VerifyingState
  <2>2. verifying.token.claims.exp \in Nat
    BY DEF VerifyingState, TokenType, ClaimsType
  <2>3. verifying.form = "JWT" => joseClock < verifying.token.claims.exp
    BY <1>0, <1>2, <2>2, Zenon
  <2>4. GoodVerification(verifying)
    BY Zenon DEF JoseInv
  <2>5. GoodVerification(verifying')
    BY <1>2, <2>1, <2>3, <2>4 DEF GoodVerification
  <2> QED  BY <1>0, <2>1, <2>5, VerifyingMoves
<1> QED  BY <1>1, <1>2 DEF Concludes

LEMMA VerifyingSteps ==
  ASSUME JoseAssumption, JoseInv,
         \/ ResolveIssuer \/ ResolveSigner \/ VerifyJWTSignature \/ VerifyJWSSignature
         \/ VerificationEnds
  PROVE  JoseInv'
<1>0. verifying \in VerifyingState
  <2>1. verifying.at = "resolve" \/ verifying.at = "verify"
    BY Zenon DEF ResolveIssuer, ResolveSigner, VerifyJWTSignature, VerifyJWSSignature,
                 VerificationEnds
  <2>2. verifying \in {NotVerifying, [at |-> "rejected"]} \cup VerifyingState
    BY Zenon DEF JoseInv, JoseTypeOK
  <2>3. verifying # NotVerifying /\ verifying # [at |-> "rejected"]
    BY <2>1 DEF NotVerifying
  <2> QED  BY <2>2, <2>3, Zenon
<1>1. CASE ResolveIssuer
  <2>1. PICK text : text = verifying.token.kid
    OBVIOUS
  <2> QED  BY <1>0, <1>1, <2>1, KeyByIdMoves DEF ResolveIssuer
<1>2. CASE ResolveSigner
  <2>1. PICK text : text = BareKid(verifying.token.kid.kid)
    OBVIOUS
  <2> QED  BY <1>0, <1>2, <2>1, KeyByIdMoves DEF ResolveSigner
<1>3. CASE VerifyJWTSignature
  <2>1. PICK accepted \in BOOLEAN :
          accepted <=> verifying.token.by = verifying.key /\ verifying.token.claims.exp > joseClock
    BY Zenon
  <2>2. Concludes(accepted)
    BY <1>3, <2>1 DEF VerifyJWTSignature, Concludes
  <2> QED  BY <1>0, <1>3, <2>1, <2>2, ConcludesMoves DEF VerifyJWTSignature
<1>4. CASE VerifyJWSSignature
  <2>1. PICK accepted \in BOOLEAN : accepted <=> verifying.token.by = verifying.key
    BY Zenon
  <2>2. Concludes(accepted)
    BY <1>4, <2>1 DEF VerifyJWSSignature, Concludes
  <2> QED  BY <1>0, <1>4, <2>1, <2>2, ConcludesMoves DEF VerifyJWSSignature
<1>5. CASE VerificationEnds
  BY <1>5, VerifyingMoves, ZenonT(30) DEF VerificationEnds, Refused
<1> QED  BY <1>1, <1>2, <1>3, <1>4, <1>5, Zenon

(* Rotation, publication and the clock.                                      *)
LEMMA JoseQuietStep ==
  ASSUME JoseAssumption, JoseInv,
         \/ \E d \in LocalDomains : ActivateNext(d) \/ PublishNext(d)
         \/ SecondPasses \/ UNCHANGED joseVars
  PROVE  JoseInv'
<1>1. /\ joseClock \in Nat /\ joseClock' \in Nat /\ joseClock <= joseClock'
      /\ UNCHANGED <<signing, made, verifying>>
  <2>1. joseClock \in Nat
    BY DEF JoseInv, JoseTypeOK
  <2>2. joseClock' \in {joseClock, joseClock + 1}
    BY Zenon DEF ActivateNext, PublishNext, SecondPasses, joseVars
  <2>3. UNCHANGED <<signing, made, verifying>>
    BY Zenon DEF ActivateNext, PublishNext, SecondPasses, joseVars
  <2> QED  BY <2>1, <2>2, <2>3
<1>2. joseKey' \in [LocalDomains -> 1 .. MaxJoseKeys]
  <2>1. joseKey \in [LocalDomains -> 1 .. MaxJoseKeys] /\ MaxJoseKeys \in Nat
    BY DEF JoseInv, JoseTypeOK, JoseAssumption
  <2>2. ASSUME NEW d \in LocalDomains, ActivateNext(d)
        PROVE  joseKey' \in [LocalDomains -> 1 .. MaxJoseKeys]
    <3>1. joseKey[d] + 1 \in 1 .. MaxJoseKeys
      BY <2>1, <2>2 DEF ActivateNext
    <3> QED  BY <2>1, <2>2, <3>1 DEF ActivateNext
  <2>3. CASE UNCHANGED joseKey
    BY <2>1, <2>3, Zenon
  <2> QED  BY <2>2, <2>3, Zenon DEF PublishNext, SecondPasses, joseVars
<1>3. keySets' \in [LocalDomains -> SUBSET [kid : KidTexts, key : JoseKeys]] /\ KeySetInv'
  <2>1. CASE UNCHANGED keySets
    BY <2>1, Zenon DEF JoseInv, JoseTypeOK, KeySetInv
  <2>2. ASSUME NEW d \in LocalDomains, PublishNext(d)
        PROVE  keySets' \in [LocalDomains -> SUBSET [kid : KidTexts, key : JoseKeys]] /\ KeySetInv'
    <3> DEFINE k == <<d, joseKey[d]>>
               e == [kid |-> BareKid(k), key |-> k]
    <3>1. joseKey[d] \in 1 .. MaxJoseKeys
      BY DEF JoseInv, JoseTypeOK
    <3>2. k \in JoseKeys /\ k[1] = d /\ BareKid(k) \in KidTexts
      BY <3>1, OwnKeys, Zenon
    <3>3. keySets' = [keySets EXCEPT ![d] = @ \cup {e}]
      BY <2>2 DEF PublishNext
    <3> HIDE DEF k
    <3>4. e \in [kid : KidTexts, key : JoseKeys] /\ e.key[1] = d /\ e.kid = BareKid(e.key)
      BY <3>2
    <3> HIDE DEF e
    <3> QED  BY <3>3, <3>4 DEF JoseInv, JoseTypeOK, KeySetInv
  <2> QED  BY <2>1, <2>2 DEF ActivateNext, SecondPasses, joseVars
<1>4. JoseTypeOK'
  BY <1>1, <1>2, <1>3 DEF JoseInv, JoseTypeOK
<1>5. verifying' \in VerifyingState => GoodVerification(verifying)'
  BY <1>1, VerificationKept
<1> QED  BY <1>1, <1>3, <1>4, <1>5 DEF JoseInv, Formed

(* The inductive invariant of the JOSE profile holds.                        *)
THEOREM JoseInvariant == JoseSpec => []JoseInv
<1>1. JoseInit => JoseInv
  BY JoseAssumption, InitJoseInv, Zenon
<1>2. JoseInv /\ [JoseNext]_joseVars => JoseInv'
  <2> SUFFICES ASSUME JoseInv, [JoseNext]_joseVars PROVE JoseInv'
    OBVIOUS
  <2>1. ASSUME NEW t \in IF made = {} THEN OtherTokens ELSE made,
               VerifyJWS(t) \/ \E expected \in Audiences : VerifyJWT(t, expected)
        PROVE  JoseInv'
    <3>1. t \in made \cup OtherTokens
      OBVIOUS
    <3> QED  BY <2>1, <3>1, JoseAssumption, VerifyBeginsStep
  <2> QED
    BY <2>1, JoseAssumption, CreateJWTStep, CreateJWSStep, SignCompactStep, VerifyingSteps,
       JoseQuietStep DEF JoseNext
<1> QED  BY <1>1, <1>2, PTL DEF JoseSpec

(* For any key sets and key ids of other agents: what is accepted as a JWT   *)
(* of an agent that runs this code was signed by its createJWT with the key  *)
(* the header names, what is accepted as its JWS by its createJWS.           *)
THEOREM AcceptedJoseWasMade == JoseSpec => []AcceptedJoseIsGenuine
<1>1. ASSUME JoseInv PROVE AcceptedJoseIsGenuine
  <2> SUFFICES ASSUME verifying.at = "accepted" PROVE AcceptedJoseIsGenuine
    BY DEF AcceptedJoseIsGenuine
  <2> DEFINE t == verifying.token
  <2>1. verifying \in VerifyingState /\ GoodVerification(verifying)
    <3>1. verifying \in {NotVerifying, [at |-> "rejected"]} \cup VerifyingState
      BY <1>1, Zenon DEF JoseInv, JoseTypeOK
    <3>2. verifying # NotVerifying /\ verifying # [at |-> "rejected"]
      BY DEF NotVerifying
    <3>3. verifying \in VerifyingState
      BY <3>1, <3>2, Zenon
    <3> QED  BY <1>1, <3>3, Zenon DEF JoseInv
  <2>2. t.by = verifying.key
    BY <2>1 DEF GoodVerification
  <2>3. ASSUME verifying.domain \in LocalDomains
        PROVE  t \in made /\ t.form = verifying.form /\ t.by = t.kid.kid /\ t.by[1] = verifying.domain
    <3>1. t.by[1] = verifying.domain
      BY <2>1, <2>2, <2>3, ZenonT(30) DEF GoodVerification
    <3>2. t.by = t.kid.kid
      BY <2>1, <2>2, <2>3 DEF GoodVerification, BareKid, VerifyingState
    <3>3. t \notin OtherTokens
      <4> SUFFICES ASSUME t \in OtherTokens PROVE FALSE
        OBVIOUS
      <4>1. t.by \in OtherDomains \X {1}
        BY DEF OtherTokens
      <4>2. t.by[1] \in OtherDomains
        BY <4>1
      <4> QED  BY <2>3, <3>1, <4>2, JoseAssumption DEF JoseAssumption
    <3>4. t \in made
      BY <2>1, <3>3, Zenon DEF GoodVerification
    <3>5. Formed(t) /\ t.form \in {"JWT", "JWS"}
      BY <1>1, <3>4, ZenonT(30) DEF JoseInv, JoseTypeOK, TokenType
    <3>6. (verifying.form = "JWT" => t.kid.domain = Bare) /\ (verifying.form = "JWS" => t.kid.domain # Bare)
      BY <2>1, <2>3 DEF GoodVerification, BareKid
    <3>7. t.form = verifying.form
      BY <2>1, <3>5, <3>6, ZenonT(30) DEF Formed, VerifyingState
    <3> QED  BY <3>1, <3>2, <3>4, <3>7
  <2>4. verifying.form = "JWT" =>
          /\ t.claims.iss = verifying.domain /\ t.claims.sub = verifying.domain
          /\ t.claims.aud = verifying.expected
          /\ t.claims.iat <= verifying.acceptedAt + JoseSkew
          /\ t.claims.nbf <= verifying.acceptedAt + JoseSkew
          /\ verifying.acceptedAt < t.claims.exp
          /\ t.claims.exp <= t.claims.iat + JoseMaxLifetime
    BY <2>1 DEF GoodVerification
  <2> QED  BY <2>3, <2>4, ZenonT(30) DEF AcceptedJoseIsGenuine
<1> QED  BY <1>1, JoseInvariant, PTL
=============================================================================
