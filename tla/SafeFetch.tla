------------------------------ MODULE SafeFetch ------------------------------
(***************************************************************************)
(* Fetching a document over HTTPS under a policy (packages/transport):     *)
(* fetchJson with its redirects, createSsrfSafeFetch, the lookup both      *)
(* connect through, and the classification of the addresses it returns.    *)
(*                                                                         *)
(* The DNS and the servers are external: a name may resolve to any         *)
(* addresses, to others at every lookup, and a server may redirect         *)
(* anywhere.  An address is its sequence of bytes.                         *)
(***************************************************************************)
EXTENDS Naturals, Sequences, FiniteSets

CONSTANTS
  Hosts,            \* DNS names
  AllowedHost,      \* opts.allowedHost, when there is one
  Subdomains,       \* the names under AllowedHost
  Addresses,        \* addresses that names resolve to, and that URLs name
  Answers,          \* the sets of addresses that a lookup may return
  MaxRedirects,     \* 5 in the code
  MaxBytes          \* opts.maxResponseBytes

ASSUME FetchAssumption ==
  /\ AllowedHost \in Hosts
  /\ Subdomains \subseteq Hosts
  /\ Answers \subseteq SUBSET Addresses
  /\ MaxRedirects \in Nat /\ MaxBytes \in Nat
  /\ \A a \in Addresses : a \in Seq(0 .. 255) /\ Len(a) \in {4, 16}

VARIABLES
  options,          \* the caller's options
  fetch,            \* the call
  contacted         \* the last connection it tried: the host, the address and the hop

fetchVars == <<options, fetch, contacted>>
-----------------------------------------------------------------------------
IsUnsafeIpv4(o) ==
  \/ o[1] \in {0, 10, 127}
  \/ o[1] = 169 /\ o[2] = 254
  \/ o[1] = 172 /\ o[2] >= 16 /\ o[2] <= 31
  \/ o[1] = 192 /\ o[2] = 168
  \/ o[1] = 100 /\ o[2] >= 64 /\ o[2] <= 127
  \/ o[1] = 192 /\ o[2] = 0 /\ o[3] \in {0, 2}
  \/ o[1] = 198 /\ o[2] \in {18, 19}
  \/ o[1] = 198 /\ o[2] = 51 /\ o[3] = 100
  \/ o[1] = 203 /\ o[2] = 0 /\ o[3] = 113
  \/ o[1] >= 224 /\ o[1] <= 239
  \/ o[1] >= 240

Zero(b, n) == \A i \in 1 .. n : b[i] = 0
Ipv4FromMapped(b) == Zero(b, 10) /\ b[11] = 255 /\ b[12] = 255
Ipv4FromCompatible(b) == Zero(b, 12)
Loopback(b) == Zero(b, 15) /\ b[16] = 1
Embedded(b) == SubSeq(b, 13, 16)

(* x & 0xfe, x & 0xc0: the leading bits of a byte.                         *)
Leading(x, bits) == x \div 2 ^ (8 - bits)

IsUnsafeIpv6(b) ==
  IF Ipv4FromMapped(b) \/ Ipv4FromCompatible(b) THEN IsUnsafeIpv4(Embedded(b))
  ELSE \/ Zero(b, 16)
       \/ Loopback(b)
       \/ Leading(b[1], 7) = Leading(252, 7)
       \/ b[1] = 254 /\ Leading(b[2], 2) = Leading(128, 2)
       \/ b[1] = 255
       \/ b[1] = 32 /\ b[2] = 1 /\ b[3] = 13 /\ b[4] = 184
       \/ b[1] = 32 /\ b[2] = 2
       \/ b[1] = 32 /\ b[2] = 1 /\ b[3] = 0 /\ b[4] = 0

IsUnsafeIp(a) == IF Len(a) = 4 THEN IsUnsafeIpv4(a) ELSE IsUnsafeIpv6(a)

IsPrivateOrLoopbackIpv4(o) ==
  \/ o[1] \in {10, 127}
  \/ o[1] = 172 /\ o[2] >= 16 /\ o[2] <= 31
  \/ o[1] = 192 /\ o[2] = 168

IsPrivateOrLoopbackIp(a) ==
  IF Len(a) = 4 THEN IsPrivateOrLoopbackIpv4(a)
  ELSE IF Ipv4FromMapped(a) \/ Ipv4FromCompatible(a)
         THEN IsPrivateOrLoopbackIpv4(Embedded(a))
         ELSE Loopback(a) \/ Leading(a[1], 7) = Leading(252, 7)
-----------------------------------------------------------------------------
Literal(host) == host \in Addresses
Url(https, host) == [https |-> https, host |-> host]

HostAllowed(host) ==
  host = AllowedHost \/ (options.domainBoundary /\ host \in Subdomains)

(* The checks of fetchWithRedirects before it connects.                    *)
Refused(url, depth) ==
  \/ depth > MaxRedirects
  \/ ~url.https
  \/ options.pinned /\ ~HostAllowed(url.host)
  \/ Literal(url.host) /\ IsUnsafeIp(url.host)

Start == [at |-> "idle", host |-> AllowedHost, depth |-> 0, addresses |-> {}, bytes |-> 0,
          cause |-> "none", transient |-> FALSE]
Fails(cause, transient) == [Start EXCEPT !.at = "failed", !.cause = cause, !.transient = transient]

(* An error of the request: transient unless it is a certificate error.    *)
HttpsTransportError(cause) == Fails(cause, options.follow /\ cause # "certificate")

(* A request to an address literal connects without a lookup.              *)
Request(url, depth) ==
  IF Refused(url, depth) THEN Fails("policy", FALSE)
  ELSE IF Literal(url.host)
         THEN [Start EXCEPT !.at = "connect", !.host = url.host, !.depth = depth,
                            !.addresses = {url.host}]
         ELSE [Start EXCEPT !.at = "lookup", !.host = url.host, !.depth = depth]

Urls == {Url(https, host) : https \in BOOLEAN, host \in Hosts}
          \cup {Url(TRUE, a) : a \in Addresses}

FetchInit ==
  /\ options \in [follow : BOOLEAN, pinned : BOOLEAN, domainBoundary : BOOLEAN,
                  privateAddressHosts : SUBSET Hosts]
  /\ fetch = Start
  /\ contacted = {}

(* fetchJson, and createSsrfSafeFetch, which has only the address policy   *)
(* and returns a redirect to its caller.                                   *)
FetchJson(url) ==
  /\ fetch.at = "idle" /\ options.follow
  /\ fetch' = Request(url, 0)
  /\ UNCHANGED <<options, contacted>>

SsrfSafeFetch(url) ==
  /\ fetch.at = "idle" /\ ~options.follow
  /\ fetch' = IF Literal(url.host) /\ IsUnsafeIp(url.host) THEN Fails("policy", FALSE)
              ELSE IF Literal(url.host)
                     THEN [Start EXCEPT !.at = "connect", !.host = url.host, !.addresses = {url.host}]
                     ELSE [Start EXCEPT !.at = "lookup", !.host = url.host]
  /\ UNCHANGED <<options, contacted>>
-----------------------------------------------------------------------------
(* createSsrfSafeLookup: its refusal is an error of the request.           *)
ExemptIfAnyPrivate(host, addresses) ==
  host \in options.privateAddressHosts /\ \E a \in addresses : IsPrivateOrLoopbackIp(a)

Exempt(host, addresses) ==
  host \in options.privateAddressHosts /\ \A a \in addresses : IsPrivateOrLoopbackIp(a)

SsrfSafeLookup(addresses) ==
  /\ fetch.at = "lookup"
  /\ fetch' = IF (\E a \in addresses : IsUnsafeIp(a)) /\ ~Exempt(fetch.host, addresses)
                THEN [HttpsTransportError("policy") EXCEPT !.host = fetch.host,
                                                             !.addresses = addresses]
                ELSE [fetch EXCEPT !.at = "connect", !.addresses = addresses]
  /\ UNCHANGED <<options, contacted>>

(* Node tries the addresses it was given, in any order.                    *)
Connect ==
  /\ fetch.at = "connect"
  /\ \E a \in fetch.addresses :
       contacted' = {[host |-> fetch.host, address |-> a, hop |-> fetch.depth]}
  /\ fetch' \in {[fetch EXCEPT !.at = "response", !.addresses = {}], fetch}
  /\ UNCHANGED options

(* protocolAgent keeps connections alive: a request that was redirected    *)
(* within its host may go over the last connection, without a lookup.      *)
Reuse ==
  /\ fetch.at \in {"lookup", "connect"}
  /\ \E c \in contacted :
       /\ c.host = fetch.host /\ c.hop < fetch.depth
       /\ contacted' = {[host |-> fetch.host, address |-> c.address, hop |-> fetch.depth]}
  /\ fetch' = [fetch EXCEPT !.at = "response", !.addresses = {}]
  /\ UNCHANGED options

CertificateRefused ==
  /\ fetch.at = "connect"
  /\ fetch' = HttpsTransportError("certificate")
  /\ UNCHANGED <<options, contacted>>
-----------------------------------------------------------------------------
(* A redirect has a Location header with a valid URL, or fails.            *)
Redirect(url) ==
  /\ fetch.at = "response" /\ options.follow
  /\ fetch' = IF ~url.https \/ (options.pinned /\ ~HostAllowed(url.host))
                THEN Fails("policy", FALSE)
                ELSE Request(url, fetch.depth + 1)
  /\ UNCHANGED <<options, contacted>>

RedirectToNowhere ==
  /\ fetch.at = "response" /\ options.follow
  /\ fetch' = Fails("policy", FALSE)
  /\ UNCHANGED <<options, contacted>>

RedirectReturned ==
  /\ fetch.at = "response" /\ ~options.follow
  /\ fetch' = [fetch EXCEPT !.at = "done"]
  /\ UNCHANGED <<options, contacted>>

BadStatus ==
  /\ fetch.at = "response" /\ options.follow
  /\ fetch' \in {Fails("status", serverError) : serverError \in BOOLEAN}
  /\ UNCHANGED <<options, contacted>>

TooLong ==
  /\ fetch.at \in {"response", "body"} /\ options.follow
  /\ fetch.at = "body" => fetch.bytes = MaxBytes
  /\ fetch' = Fails("content", FALSE)
  /\ UNCHANGED <<options, contacted>>

Ok ==
  /\ fetch.at = "response"
  /\ fetch' = [fetch EXCEPT !.at = IF options.follow THEN "body" ELSE "done"]
  /\ UNCHANGED <<options, contacted>>

Data ==
  /\ fetch.at = "body" /\ fetch.bytes < MaxBytes
  /\ fetch' = [fetch EXCEPT !.bytes = @ + 1]
  /\ UNCHANGED <<options, contacted>>

End ==
  /\ fetch.at = "body"
  /\ fetch' \in {[fetch EXCEPT !.at = "done"], Fails("content", FALSE)}
  /\ UNCHANGED <<options, contacted>>

(* A connection or stream error, the request's timeout, or the caller's    *)
(* signal, which reaches the caller as an error of the request.            *)
NetworkFails ==
  /\ fetch.at \in {"lookup", "connect", "response", "body"}
  /\ fetch' = HttpsTransportError("network")
  /\ UNCHANGED <<options, contacted>>

FetchNext ==
  \/ \E url \in Urls : FetchJson(url) \/ SsrfSafeFetch(url) \/ Redirect(url)
  \/ \E addresses \in Answers : SsrfSafeLookup(addresses)
  \/ Connect
  \/ Reuse
  \/ CertificateRefused
  \/ RedirectToNowhere
  \/ RedirectReturned
  \/ BadStatus
  \/ TooLong
  \/ Ok
  \/ Data
  \/ End
  \/ NetworkFails

FetchSpec == FetchInit /\ [][FetchNext]_fetchVars
-----------------------------------------------------------------------------
(* The address blocks, by prefix, that the documentation of isUnsafeIp and *)
(* of privateAddressHosts names: private use, loopback, link-local,        *)
(* carrier-grade NAT, documentation, multicast, reserved, 6to4 and Teredo, *)
(* and the IPv4-mapped and IPv4-compatible forms of the IPv4 ones.         *)
Block(base, bits) == [base |-> base, bits |-> bits]
V6(head) == head \o [i \in 1 .. 16 - Len(head) |-> 0]

Private4 ==
  {Block(<<10, 0, 0, 0>>, 8), Block(<<127, 0, 0, 0>>, 8), Block(<<172, 16, 0, 0>>, 12),
   Block(<<192, 168, 0, 0>>, 16)}
Special4 ==
  Private4 \cup
  {Block(<<0, 0, 0, 0>>, 8), Block(<<100, 64, 0, 0>>, 10), Block(<<169, 254, 0, 0>>, 16),
   Block(<<192, 0, 0, 0>>, 24), Block(<<192, 0, 2, 0>>, 24), Block(<<198, 18, 0, 0>>, 15),
   Block(<<198, 51, 100, 0>>, 24), Block(<<203, 0, 113, 0>>, 24), Block(<<224, 0, 0, 0>>, 4),
   Block(<<240, 0, 0, 0>>, 4)}

MappedForm(block) ==
  Block([i \in 1 .. 10 |-> 0] \o <<255, 255>> \o block.base, 96 + block.bits)
CompatibleForm(block) == Block([i \in 1 .. 12 |-> 0] \o block.base, 96 + block.bits)
Forms(blocks) ==
  blocks \cup {MappedForm(b) : b \in blocks} \cup {CompatibleForm(b) : b \in blocks}

PrivateBlocks ==
  Forms(Private4) \cup
  {Block([V6(<<>>) EXCEPT ![16] = 1], 128), Block(V6(<<252>>), 7)}
SpecialBlocks ==
  PrivateBlocks \cup Forms(Special4) \cup
  {Block(V6(<<>>), 128), Block(V6(<<254, 128>>), 10), Block(V6(<<255>>), 8),
   Block(V6(<<32, 1, 13, 184>>), 32), Block(V6(<<32, 2>>), 16), Block(V6(<<32, 1, 0, 0>>), 32)}

(* The bits of byte i that a prefix covers.                                *)
Covered(bits, i) ==
  IF bits >= 8 * i THEN 8 ELSE IF bits <= 8 * (i - 1) THEN 0 ELSE bits - 8 * (i - 1)
Within(a, block) ==
  /\ Len(a) = Len(block.base)
  /\ \A i \in 1 .. Len(a) :
       Leading(a[i], Covered(block.bits, i)) = Leading(block.base[i], Covered(block.bits, i))
In(a, blocks) == \E b \in blocks : Within(a, b)

(* Whatever the names resolve to and wherever servers redirect, a fetch    *)
(* connects only to addresses outside the special blocks, or, for a host   *)
(* that is exempt by name, to private or loopback ones; a pinned fetch     *)
(* only to hosts inside the pinned boundary; and it makes at most          *)
(* MaxRedirects + 1 requests.                                              *)
ContactedIsPermitted ==
  \A c \in contacted :
    /\ In(c.address, SpecialBlocks) =>
         c.host \in options.privateAddressHosts /\ In(c.address, PrivateBlocks)
    /\ options.follow /\ options.pinned =>
         c.host = AllowedHost \/ (options.domainBoundary /\ c.host \in Subdomains)
    /\ c.hop <= MaxRedirects

(* What fetchJson refuses by policy it reports as permanent, so that       *)
(* nobody retries it.                                                      *)
PolicyFailureIsPermanent == fetch.cause = "policy" => ~fetch.transient

(* An exempt host may resolve to any loopback or private address: its      *)
(* lookup is refused only for an address that is neither.                  *)
LoopbackIsPermitted ==
  fetch.addresses # {} /\ fetch.cause = "policy" /\ fetch.host \in options.privateAddressHosts =>
    ~ \A a \in fetch.addresses : In(a, PrivateBlocks)
=============================================================================
