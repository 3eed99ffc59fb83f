-------------------------- MODULE MCCheckpointTrust --------------------------
(* Trees of one to MaxTree entries that fork at their last entry, so that a *)
(* checkpoint can grow twice and two of the same size can disagree.          *)
EXTENDS CheckpointTrust, SequencesExt

CONSTANTS p1, p2, Entries, MaxTree

MCRoots ==
  {r \in UNION {[1..n -> Entries] : n \in 1..MaxTree} :
     \A i \in DOMAIN r : i < MaxTree => r[i] = 0}
MCSize == [r \in MCRoots |-> Len(r)]
MCPrefix == {rs \in MCRoots \X MCRoots : IsPrefix(rs[1], rs[2])}

(* The one-entry tree is witnessed twice, so that a stored checkpoint can    *)
(* change for ever.                                                          *)
MCCheckpoint ==
  {c \in [root : MCRoots, time : {0, 1}] : c.time = 1 => Len(c.root) = 1}
=============================================================================
