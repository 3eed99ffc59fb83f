------------------------------ MODULE TxtLookup ------------------------------
(***************************************************************************)
(* Looking up the TXT record of an identity (packages/transport):          *)
(* createDefaultDnsResolver, createDnsResolverFromServer and the wire      *)
(* client resolveTxtWithTtl, with the expiry that the identity manager     *)
(* computes from the answer.                                               *)
(*                                                                         *)
(* The DNS is external: what the recursive servers hold for a name stays   *)
(* until it lapses, and may be anything afterwards.  An answer may hold    *)
(* part of a CNAME chain, so that following the chain takes several        *)
(* queries, between which time passes and records lapse and change.        *)
(***************************************************************************)
EXTENDS Naturals, Sequences, FiniteSets, FiniteSetsExt

CONSTANTS
  Names,            \* domain names
  Name,             \* the name that is looked up
  Texts,            \* contents of TXT records
  SystemServers,    \* number of servers that getServers() lists
  MaxHops,          \* 8 in the code
  TtlLimit,         \* 0x7fffffff in the code
  DayCap,           \* 86400 in the code
  MaxTtl,           \* Infinity in the code: no record lives longer
  Lifetimes,        \* lifetimes of records
  LastMoment        \* bound: the clock

ASSUME TxtAssumption ==
  /\ Name \in Names
  /\ SystemServers \in Nat /\ MaxHops \in Nat
  /\ Lifetimes \subseteq 0 .. MaxTtl
  /\ 0 < DayCap /\ DayCap < TtlLimit /\ TtlLimit < MaxTtl

VARIABLES
  dnsServer,        \* "system", "address" or "hostname": what config.dnsServer names
  clock,
  zone,             \* name -> what the recursive servers hold for it
  hostPromise,      \* "unset", "pending", "resolved" or "rejected"
  lookup            \* the call of fetchTXT

txtVars == <<dnsServer, clock, zone, hostPromise, lookup>>
-----------------------------------------------------------------------------
(* What a server holds: one alias, two aliases (which no resolver may      *)
(* follow), a text, or no data; and when it lapses.                        *)
Alias(to, ends) == [kind |-> "CNAME", to |-> to, text |-> CHOOSE t \in Texts : TRUE, ends |-> ends]
Aliases == [kind |-> "CNAMEs", to |-> Name, text |-> CHOOSE t \in Texts : TRUE, ends |-> 0]
Text(text, ends) == [kind |-> "TXT", to |-> Name, text |-> text, ends |-> ends]
NoData == [kind |-> "none", to |-> Name, text |-> CHOOSE t \in Texts : TRUE, ends |-> 0]

Entries(now) ==
  {Aliases, NoData} \cup {Alias(n, now + d) : n \in Names, d \in Lifetimes}
                    \cup {Text(t, now + d) : t \in Texts, d \in Lifetimes}

Idle ==
  [at |-> "idle", started |-> 0, server |-> 0, owner |-> Name, queried |-> Name,
   seen |-> {Name}, hops |-> 0, ttl |-> MaxTtl, text |-> CHOOSE t \in Texts : TRUE,
   transient |-> FALSE]

TxtInit ==
  /\ dnsServer \in {"system", "address", "hostname"}
  /\ clock = 0
  /\ zone \in [Names -> Entries(0)]
  /\ hostPromise = "unset"
  /\ lookup = Idle
-----------------------------------------------------------------------------
(* The start of resolveTxtWithTtl.                                         *)
Asked(l, server) ==
  [l EXCEPT !.at = "query", !.server = server, !.owner = Name, !.queried = Name,
            !.seen = {Name}, !.hops = 0, !.ttl = MaxTtl, !.transient = FALSE]

Called == [Idle EXCEPT !.started = clock]
Ended(l, outcome) ==
  [Idle EXCEPT !.at = outcome, !.started = l.started, !.server = l.server,
               !.transient = outcome = "failed"]
Found(l, text, ttl) == [l EXCEPT !.at = "found", !.text = text, !.ttl = ttl]

(* fetchTXT: the manager notes when it starts.  The first call on a        *)
(* configured server resolves the server's name, and every later call      *)
(* shares the outcome.                                                     *)
FetchTXT ==
  /\ lookup.at \in {"idle", "found", "empty", "failed", "aborted"}
  /\ hostPromise' =
       IF hostPromise # "unset" \/ dnsServer = "system" THEN hostPromise
       ELSE IF dnsServer = "address" THEN "resolved" ELSE "pending"
  /\ lookup' =
       CASE dnsServer = "system" /\ SystemServers = 0 -> [Called EXCEPT !.at = "native"]
         [] dnsServer = "system" /\ SystemServers > 0 -> Asked(Called, 1)
         [] dnsServer # "system" /\ hostPromise' = "resolved" -> Asked(Called, 1)
         [] dnsServer # "system" /\ hostPromise' = "rejected" -> Ended(Called, "failed")
         [] dnsServer # "system" /\ hostPromise' = "pending" -> [Called EXCEPT !.at = "host"]
  /\ UNCHANGED <<dnsServer, clock, zone>>

HostResolves ==
  /\ hostPromise = "pending"
  /\ hostPromise' = "resolved"
  /\ lookup' = IF lookup.at = "host" THEN Asked(lookup, 1) ELSE lookup
  /\ UNCHANGED <<dnsServer, clock, zone>>

HostLookupFails ==
  /\ hostPromise = "pending"
  /\ hostPromise' = "rejected"
  /\ lookup' = IF lookup.at = "host" THEN Ended(lookup, "failed") ELSE lookup
  /\ UNCHANGED <<dnsServer, clock, zone>>
-----------------------------------------------------------------------------
RemainingTtl(ttl) == IF ttl <= TtlLimit THEN ttl ELSE 0
WireTtl(n) == IF clock < zone[n].ends THEN zone[n].ends - clock ELSE 0

(* One turn of the inner loop: follow the alias of the current owner, if   *)
(* the answer holds one.                                                   *)
FollowAliasUntimed(answers, l) ==
  IF l.at # "query" \/ l.owner \notin answers \/ zone[l.owner].kind \notin {"CNAME", "CNAMEs"}
    THEN l
    ELSE LET to == zone[l.owner].to
         IN  IF zone[l.owner].kind = "CNAMEs" \/ l.hops = MaxHops \/ to \in l.seen
               THEN Ended(l, "failed")
               ELSE [l EXCEPT !.hops = @ + 1, !.owner = to, !.seen = @ \cup {to}]

FollowAlias(answers, l) ==
  IF l.at # "query" \/ l.owner \notin answers \/ zone[l.owner].kind \notin {"CNAME", "CNAMEs"}
    THEN l
    ELSE LET to == zone[l.owner].to
         IN  IF zone[l.owner].kind = "CNAMEs" \/ l.hops = MaxHops \/ to \in l.seen
               THEN Ended(l, "failed")
               ELSE [l EXCEPT !.hops = @ + 1, !.owner = to, !.seen = @ \cup {to},
                              !.ttl = Min({@, RemainingTtl(WireTtl(l.owner))})]

FollowChain(answers, l) ==
  LET turn[n \in 0 .. MaxHops + 1] == IF n = 0 THEN l ELSE FollowAlias(answers, turn[n - 1])
  IN  turn[MaxHops + 1]

(* The rest of the outer loop's body: a text, nothing, or another query.   *)
Conclude(answers, l) ==
  CASE l.at # "query" -> l
    [] l.at = "query" /\ l.owner \in answers /\ zone[l.owner].kind = "TXT" ->
         Found(l, zone[l.owner].text, Min({l.ttl, RemainingTtl(WireTtl(l.owner)), DayCap}))
    [] OTHER -> IF l.owner = l.queried THEN Ended(l, "empty") ELSE [l EXCEPT !.queried = l.owner]

(* createDefaultDnsResolver: a text is the answer; no data goes to the     *)
(* native resolver, an error to the next server, if there is one.  A       *)
(* configured server's outcome is final.                                   *)
NextServer(l) ==
  CASE dnsServer # "system" \/ l.at \in {"query", "found", "aborted"} -> l
    [] dnsServer = "system" /\ l.at = "failed" /\ l.server < SystemServers -> Asked(l, l.server + 1)
    [] OTHER -> [Called EXCEPT !.at = "native", !.started = l.started]
-----------------------------------------------------------------------------
(* A server's reply to the query, over UDP or, when truncated, over TCP:   *)
(* it holds what the server has for some names, the queried one included.  *)
(* A datagram that does not answer the query is ignored.                   *)
ServerAnswers ==
  /\ lookup.at = "query"
  /\ \E others \in SUBSET (Names \ {lookup.queried}) :
       LET answers == others \cup {lookup.queried}
       IN  lookup' = NextServer(Conclude(answers, FollowChain(answers, lookup)))
  /\ UNCHANGED <<dnsServer, clock, zone, hostPromise>>

NameError ==
  /\ lookup.at = "query"
  /\ \E n \in Names : zone[n] = NoData
  /\ lookup' = NextServer(Ended(lookup, "empty"))
  /\ UNCHANGED <<dnsServer, clock, zone, hostPromise>>

(* SERVFAIL, a socket error, a TCP reply that is invalid or truncated, or  *)
(* the deadline of resolveTxtWithTtl.                                      *)
QueryFails ==
  /\ lookup.at = "query"
  /\ lookup' = NextServer(Ended(lookup, "failed"))
  /\ UNCHANGED <<dnsServer, clock, zone, hostPromise>>

LookupAborted ==
  /\ lookup.at \in {"host", "query", "native"}
  /\ lookup' = Ended(lookup, "aborted")
  /\ UNCHANGED <<dnsServer, clock, zone, hostPromise>>

(* fetchTxtViaSystem: the native resolver tells no lifetime.               *)
NativeAnswers ==
  /\ lookup.at = "native"
  /\ lookup' \in {Found(lookup, t, 0) : t \in Texts}
                \cup {Ended(lookup, "empty"), Ended(lookup, "failed")}
  /\ UNCHANGED <<dnsServer, clock, zone, hostPromise>>

(* What a server holds for a name may change once it has lapsed.           *)
Republish ==
  /\ \E n \in Names :
       /\ zone[n].ends <= clock
       /\ zone' \in {[zone EXCEPT ![n] = e] : e \in Entries(clock)}
  /\ UNCHANGED <<dnsServer, clock, hostPromise, lookup>>

TimePasses ==
  /\ clock < LastMoment
  /\ clock' = clock + 1
  /\ UNCHANGED <<dnsServer, zone, hostPromise, lookup>>

TxtNext ==
  \/ FetchTXT
  \/ HostResolves
  \/ HostLookupFails
  \/ ServerAnswers
  \/ NameError
  \/ QueryFails
  \/ LookupAborted
  \/ NativeAnswers
  \/ Republish
  \/ TimePasses

(* Every request ends: a query has a deadline, a host lookup and the       *)
(* native resolver their own time limits.  A caller that was told to       *)
(* retry does, and the network does not fail for good.                     *)
Retries == lookup.transient /\ FetchTXT
Finds == ServerAnswers /\ lookup'.at = "found"
TxtFairness ==
  /\ WF_txtVars(Retries) /\ WF_txtVars(NativeAnswers)
  /\ SF_txtVars(HostResolves) /\ SF_txtVars(Finds)

TxtSpec == TxtInit /\ [][TxtNext]_txtVars
TxtFairSpec == TxtSpec /\ TxtFairness
-----------------------------------------------------------------------------
(* The text that the servers' entries lead to, as a set.                   *)
Published ==
  LET step(n) == IF zone[n].kind = "CNAME" THEN zone[n].to ELSE n
      reach[i \in 0 .. Cardinality(Names)] == IF i = 0 THEN Name ELSE step(reach[i - 1])
      last == zone[reach[Cardinality(Names)]]
  IN  IF last.kind = "TXT" THEN {last.text} ELSE {}

(* Until the expiry that the manager computes from the answer (the start   *)
(* of the lookup plus its TTL), the recursive servers still lead from the  *)
(* name to the text it was given, however many aliases and queries the     *)
(* lookup went through, while records lapsed and changed.                  *)
AnswerIsStillPublished ==
  lookup.at = "found" /\ clock < lookup.started + lookup.ttl => Published = {lookup.text}

(* A retry of a lookup that failed with `transient` set may succeed: if    *)
(* the caller keeps retrying and the network recovers, it gets an answer.  *)
RetryMaySucceed == lookup.transient ~> lookup.at \in {"found", "empty", "aborted"}
=============================================================================
