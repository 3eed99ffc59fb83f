---------------------------- MODULE MCAcquisition ----------------------------
(* Acquiring an identity: the TXT record, the documents over HTTPS, the      *)
(* lifecycle stream in the log, and one acquisition of it all beside the     *)
(* rotation of the domain's keys.  A behaviour is about one of the four.     *)
EXTENDS IdentityAcquisition, TxtLookup, SafeFetch, MCLifecycleStream

CONSTANTS FirstRotation, host, subdomain, otherHost

VARIABLE part

-----------------------------------------------------------------------------
(* The addresses next to the edges of every special block, on both sides.    *)
LastOf(block) ==
  <<>> \o [i \in 1 .. Len(block.base) |-> block.base[i] + 2 ^ (8 - Covered(block.bits, i)) - 1]
Before(a) ==
  LET i == Max({j \in 1 .. Len(a) : a[j] > 0})
  IN  <<>> \o [j \in 1 .. Len(a) |-> IF j > i THEN 255 ELSE IF j = i THEN a[j] - 1 ELSE a[j]]
After(a) ==
  LET i == Max({j \in 1 .. Len(a) : a[j] < 255})
  IN  <<>> \o [j \in 1 .. Len(a) |-> IF j > i THEN 0 ELSE IF j = i THEN a[j] + 1 ELSE a[j]]
Edges(block) ==
  {block.base, LastOf(block)}
    \cup {Before(a) : a \in {b \in {block.base} : \E i \in DOMAIN b : b[i] > 0}}
    \cup {After(a) : a \in {b \in {LastOf(block)} : \E i \in DOMAIN b : b[i] < 255}}

Public == <<8, 8, 8, 8>>
Home == <<192, 168, 1, 1>>
MCAddresses == UNION {Edges(b) : b \in SpecialBlocks} \cup {Public, Home}
MCAnswers == {{a} : a \in MCAddresses} \cup {{a, b} : a \in MCAddresses, b \in {Public, Home}}

(* Every address is tried at the first hop of a fetch without pinning, which *)
(* ends there; the rest of the protocol with two addresses.                  *)
Plain == ~options.pinned /\ ~options.domainBoundary /\ options.privateAddressHosts \subseteq {host}
Few(addresses) == addresses \subseteq {Public, Home}

(* The servers hold a chain of aliases only for a configured server, which   *)
(* asks no differently from a listed one.                                    *)
Chains ==
  /\ dnsServer # "address" => zone[Name].kind \in {"TXT", "none"}
  /\ dnsServer # "address" \/ zone[Name].kind # "CNAME" =>
       \A n \in Names \ {Name} : zone[n] = NoData
-----------------------------------------------------------------------------
MCInit ==
  /\ part \in {"acquisition", "txt", "fetch", "events"}
  /\ part # "acquisition" => entity = FirstKey /\ ekKeySet = {FirstKey}
  /\ part # "txt" => dnsServer = "address" /\ zone = [n \in Names |-> NoData]
  /\ part # "fetch" => options = [follow |-> TRUE, pinned |-> TRUE, domainBoundary |-> TRUE,
                                 privateAddressHosts |-> {}]
  /\ AcquisitionInit /\ TxtInit /\ FetchInit /\ Init
  /\ part = "txt" => Chains

(* A second rotation only while nobody acquires.                             *)
Acquires ==
  /\ part = "acquisition"
  /\ AcquisitionNext
  /\ acq'.at # "idle" => \A r \in Rotations \ {FirstRotation} : rotation'[r] = NoRotation
  /\ UNCHANGED <<txtVars, fetchVars, vars, part>>

(* An answer is looked up once, and only what the lookup has seen changes.   *)
LooksUp ==
  /\ part = "txt"
  /\ TxtNext
  /\ lookup.at = "found" => lookup' = lookup
  /\ zone' # zone =>
       /\ lookup.at \in {"query", "found"}
       /\ \A n \in Names \ lookup.seen : zone'[n] = zone[n]
       /\ lookup.at = "found" => \E n \in Names : zone[n] # NoData /\ zone'[n] = NoData
  /\ UNCHANGED <<acquisitionVars, fetchVars, vars, part>>

Fetches ==
  /\ part = "fetch"
  /\ \A c \in contacted : Few({c.address}) \/ fetch.at = "connect"
  /\ FetchNext
  /\ Few(fetch'.addresses)
       \/ (Plain /\ fetch'.depth = 0 /\ fetch'.host \notin {subdomain, otherHost})
  /\ UNCHANGED <<acquisitionVars, txtVars, vars, part>>

Streams ==
  /\ part = "events"
  /\ Next
  /\ UNCHANGED <<acquisitionVars, txtVars, fetchVars, part>>

MCNext == Acquires \/ LooksUp \/ Fetches \/ Streams
mcVars == <<acquisitionVars, txtVars, fetchVars, vars, part>>
MCSpec == MCInit /\ [][MCNext]_mcVars

(* A caller that retries the lookup of a text that is there, and a network   *)
(* that recovers.                                                            *)
RetryNext ==
  TxtNext /\ UNCHANGED <<acquisitionVars, fetchVars, vars, part>>
RetrySpec == MCInit /\ part = "txt" /\ Published # {} /\ [][RetryNext]_mcVars /\ TxtFairness
=============================================================================
