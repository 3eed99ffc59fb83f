----------------------------- MODULE MCLogEvidence ----------------------------
(* What a verifier believes of a domain's log: the checkpoint it trusts, the *)
(* tree below it, and the witnesses' quorum over it.  A behaviour is about   *)
(* one of the three.                                                         *)
EXTENDS MCCheckpointTrust, MerkleLog, WitnessQuorum

VARIABLE part

LogInit ==
  /\ part \in {"trust", "tree", "quorum"}
  /\ TrustInit /\ TreeInit /\ QuorumInit
  /\ part # "quorum" => parsing = "lines"

Advances ==
  /\ part = "trust"
  /\ TrustNext
  /\ UNCHANGED <<treeVars, quorumVars, part>>

Grows ==
  /\ part = "tree"
  /\ TreeNext
  /\ UNCHANGED <<trustVars, quorumVars, part>>

(* The rules of an object are those of a file unless "none" is among them.   *)
Cosigns ==
  /\ part = "quorum"
  /\ QuorumNext
  /\ parsing = "object" /\ rules' # NoRules => \E n \in DOMAIN rules' : rules'[n] = NoQuorum
  /\ UNCHANGED <<trustVars, treeVars, part>>

LogNext == Advances \/ Grows \/ Cosigns
LogSpec ==
  LogInit /\ [][LogNext]_<<trustVars, treeVars, quorumVars, part>> /\ TrustFairness
=============================================================================
