---------------------------- MODULE WitnessQuorum ----------------------------
(***************************************************************************)
(* The witness quorum that decides whether a checkpoint counts, and as of  *)
(* when (log-c2sp-tlog/src/policy.ts).  A policy is read line by line      *)
(* (parseC2spPolicyFile) or given as an object, with a rule (quorumRule)   *)
(* or with witnesses and a number (flatQuorumRule); it is checked          *)
(* (normalizedOriginPolicy) and then enforced on checkpoints with any      *)
(* cosignatures (enforceCheckpointPolicy).                                 *)
(*                                                                         *)
(* Freshness, non-revocation and bundle expiry all count from the witness  *)
(* time: HistoryReader takes it as given, this module says what it is.     *)
(* Key encodings, signature types and the note format are left out; a      *)
(* cosignature is the time it carries, and NoTime if it does not verify.   *)
(***************************************************************************)
EXTENDS Integers, FiniteSets, FiniteSetsExt

CONSTANTS
  Witnesses,    \* witness keys; a witness line has the name of its key
  Groups,       \* names of groups
  MaxMoment,    \* bound on timestamps
  Today         \* the verifier's clock plus the accepted skew

VARIABLES
  rules,        \* name -> rule, for every witness and group read so far
  quorumRule,   \* the rule of the quorum
  parsing,      \* "lines" of a file, an "object", "ready" or "refused"
  cosigned,     \* the checkpoint's cosignatures: witness -> timestamp
  quorumVerdict \* what enforceCheckpointPolicy returned

quorumVars == <<rules, quorumRule, parsing, cosigned, quorumVerdict>>

NoTime == -1
Unset == [kind |-> "unset"]
NoRules == [n \in {} |-> Unset]
NoQuorum == [kind |-> "none"]
WitnessRule(w) == [kind |-> "witness", key |-> w]
ThresholdRule(t, ms) == [kind |-> "threshold", threshold |-> t, members |-> ms]
Undecided == [at |-> "undecided", accepted |-> {}, witnessTime |-> NoTime]
Rejected == [Undecided EXCEPT !.at = "rejected"]

QuorumInit ==
  /\ rules = NoRules
  /\ quorumRule = Unset
  /\ parsing \in {"lines", "object"}
  /\ cosigned = [w \in Witnesses |-> NoTime]
  /\ quorumVerdict = Undecided

-----------------------------------------------------------------------------
(* The policy.                                                               *)

Defines(n, r) ==
  /\ n \notin DOMAIN rules
  /\ rules' = [m \in DOMAIN rules \cup {n} |-> IF m = n THEN r ELSE rules[m]]
  /\ UNCHANGED <<quorumRule, parsing, cosigned, quorumVerdict>>

Reading == parsing \in {"lines", "object"}

(* The lines of a file, and the rules that an object nests, from the inside  *)
(* out.                                                                      *)
WitnessLine(w) == Reading /\ Defines(w, WitnessRule(w))

(* Members are distinct names of preceding lines; the threshold is a number, *)
(* "any" (1) or "all" (their count).                                         *)
GroupLine(g) ==
  /\ Reading
  /\ \E names \in SUBSET DOMAIN rules :
       /\ names # {}
       /\ \E t \in 1..Cardinality(names) :
            Defines(g, ThresholdRule(t, [n \in names |-> rules[n]]))

(* Only an object can have "none" as a member: no line defines that name.    *)
NoneMember(g) == parsing = "object" /\ Defines(g, NoQuorum)

(* The quorum line of a file, the quorumRule of an object.                   *)
QuorumLine ==
  /\ Reading /\ quorumRule = Unset
  /\ quorumRule' \in {NoQuorum} \cup {rules[n] : n \in DOMAIN rules}
  /\ UNCHANGED <<rules, parsing, cosigned, quorumVerdict>>

(* An object without quorumRule: a number of its witnesses.                  *)
FlatPolicy ==
  /\ parsing = "object" /\ rules = NoRules /\ quorumRule = Unset
  /\ \E ws \in SUBSET Witnesses : \E q \in 0..Cardinality(ws) :
       quorumRule' = IF q = 0 THEN NoQuorum ELSE ThresholdRule(q, [w \in ws |-> WitnessRule(w)])
  /\ UNCHANGED <<rules, parsing, cosigned, quorumVerdict>>

(* How often a rule names the key w (collectWitnessKeys).                    *)
RECURSIVE Occurrences(_, _)
Occurrences(w, rule) ==
  CASE rule.kind = "none" -> 0
    [] rule.kind = "witness" -> IF rule.key = w THEN 1 ELSE 0
    [] OTHER -> MapThenSumSet(LAMBDA m : Occurrences(w, rule.members[m]), DOMAIN rule.members)

(* normalizedOriginPolicy: no witness counts twice.                          *)
NormalizedOriginPolicy(rule) == \A w \in Witnesses : Occurrences(w, rule) <= 1

(* The end of the file, which has one quorum line, and the first use of the  *)
(* policy.                                                                   *)
EndPolicy ==
  /\ Reading
  /\ parsing = "object" => quorumRule # Unset
  /\ parsing' = IF quorumRule # Unset /\ NormalizedOriginPolicy(quorumRule)
                THEN "ready" ELSE "refused"
  /\ rules' = NoRules
  /\ UNCHANGED <<quorumRule, cosigned, quorumVerdict>>

-----------------------------------------------------------------------------
(* A checkpoint.                                                             *)

(* The comparator of the sort: a member with witness time s goes before one  *)
(* with t.  Among equals the position decides, which no time depends on.     *)
OldestFirst(s, t) == s <= t
LatestFirst(s, t) == s >= t

Infinity == MaxMoment + 1
OldestOfNone(ws) == IF ws = {} THEN NoTime ELSE Min({cosigned[w] : w \in ws})
Oldest(ws) == IF ws = {} THEN Infinity ELSE Min({cosigned[w] : w \in ws})

(* evaluateQuorum: {ws} for the witnesses ws whose timestamps satisfy the    *)
(* rule, {} where it returns undefined.  A member "none" is satisfied by no  *)
(* witness at all and, as Math.min() is Infinity, sorted before the others.  *)
RECURSIVE EvaluateQuorum(_)
EvaluateQuorum(rule) ==
  CASE rule.kind = "none" -> {{}}
    [] rule.kind = "witness" -> {{w} : w \in {v \in {rule.key} : cosigned[v] \in 0..Today}}
    [] OTHER ->
         LET results == [m \in DOMAIN rule.members |-> EvaluateQuorum(rule.members[m])]
             satisfied == {m \in DOMAIN results : results[m] # {}}
             time(m) == Oldest(UNION results[m])
             slice == CHOOSE T \in kSubset(rule.threshold, satisfied) :
                        \A m \in T, n \in satisfied \ T : LatestFirst(time(m), time(n))
         IN  IF Cardinality(satisfied) < rule.threshold THEN {}
             ELSE {UNION UNION {results[m] : m \in slice}}

(* enforceCheckpointPolicy, on a checkpoint with an accepted log signature.  *)
(* A public log needs a rule other than "none"; a quorum without a witness   *)
(* tells no time.                                                            *)
Enforce(public) ==
  LET result == EvaluateQuorum(quorumRule)  accepted == UNION result IN
  IF (public /\ quorumRule = NoQuorum) \/ result = {} THEN Rejected
  ELSE [at |-> "accepted", accepted |-> accepted,
        witnessTime |-> IF accepted = {} THEN NoTime ELSE Oldest(accepted)]

CheckpointArrives ==
  /\ parsing = "ready" /\ quorumVerdict = Undecided
  /\ cosigned' \in [Witnesses -> {NoTime} \cup 0..MaxMoment]
  /\ UNCHANGED <<rules, quorumRule, parsing>>
  /\ \E public \in BOOLEAN : quorumVerdict' = Enforce(public)'

QuorumNext ==
  \/ \E w \in Witnesses : WitnessLine(w)
  \/ \E g \in Groups : GroupLine(g) \/ NoneMember(g)
  \/ QuorumLine \/ FlatPolicy \/ EndPolicy \/ CheckpointArrives

QuorumSpec == QuorumInit /\ [][QuorumNext]_quorumVars

-----------------------------------------------------------------------------
(* What a quorum means: the sets of witnesses that satisfy a rule.           *)
RECURSIVE Satisfies(_, _)
Satisfies(S, rule) ==
  CASE rule.kind = "none" -> TRUE
    [] rule.kind = "witness" -> rule.key \in S
    [] OTHER -> Cardinality({m \in DOMAIN rule.members : Satisfies(S, rule.members[m])}) >= rule.threshold

Timely == {w \in Witnesses : cosigned[w] \in 0..Today}
Quorums == {S \in SUBSET Timely : Satisfies(S, quorumRule)}

(* evaluateQuorum accepts a checkpoint exactly when some set of witnesses    *)
(* with timestamps not in the future satisfies the rule, however the groups  *)
(* are nested; the witnesses it picks are such a set, and their oldest       *)
(* timestamp is the latest any such set can show.  Greedy choice at every    *)
(* level loses nothing, so freshness is never judged by a needlessly old     *)
(* cosignature and never by one that no quorum has reached.  Only a rule     *)
(* that no witness needs to satisfy (an object's "none" members) is accepted *)
(* without a time, and such a rule always is: its readers then refuse the    *)
(* checkpoint ("require an accepted timestamped witness quorum").            *)
QuorumTimeIsBest ==
  quorumVerdict # Undecided /\ quorumRule # NoQuorum =>
    /\ quorumVerdict.at = "accepted" <=> Quorums # {}
    /\ quorumVerdict.at = "accepted" =>
         /\ quorumVerdict.accepted \in Quorums
         /\ quorumVerdict.witnessTime =
              IF {} \in Quorums THEN NoTime ELSE Max({Oldest(S) : S \in Quorums})

=============================================================================
