------------------------------- MODULE RFC6962 -------------------------------
(***************************************************************************)
(* The Merkle tree of RFC 6962, as the standard defines it: the reference  *)
(* the log client's algorithms are compared with, and what a log serves.   *)
(*                                                                         *)
(* Hashes are free terms, so equal hashes mean equal trees: a leaf is a    *)
(* one-tuple, an interior node a pair, the empty tree the empty tuple.     *)
(***************************************************************************)
EXTENDS Integers, Sequences

Leaf(entry) == <<entry>>
Node(left, right) == <<left, right>>
EmptyTree == <<>>

(* The largest power of two smaller than n, where a tree of n > 1 splits.    *)
Split(n) == CHOOSE k \in {2 ^ j : j \in 0 .. n} : k < n /\ n <= 2 * k

Left(s) == SubSeq(s, 1, Split(Len(s)))
Right(s) == SubSeq(s, Split(Len(s)) + 1, Len(s))

RECURSIVE TreeHash(_), AuditPath(_, _), SubProof(_, _, _)

(* MTH: the tree over the entries s.                                         *)
TreeHash(s) ==
  IF s = <<>> THEN EmptyTree
  ELSE IF Len(s) = 1 THEN Leaf(s[1])
  ELSE Node(TreeHash(Left(s)), TreeHash(Right(s)))

(* PATH: the siblings of the entry with 0-based index i, from the leaf up.   *)
AuditPath(i, s) ==
  IF Len(s) = 1 THEN <<>>
  ELSE IF i < Split(Len(s)) THEN Append(AuditPath(i, Left(s)), TreeHash(Right(s)))
  ELSE Append(AuditPath(i - Split(Len(s)), Right(s)), TreeHash(Left(s)))

(* SUBPROOF: complete says that the verifier knows the root of the m leaves. *)
SubProof(m, s, complete) ==
  IF m = Len(s) THEN (IF complete THEN <<>> ELSE <<TreeHash(s)>>)
  ELSE IF m <= Split(Len(s)) THEN Append(SubProof(m, Left(s), complete), TreeHash(Right(s)))
  ELSE Append(SubProof(m - Split(Len(s)), Right(s), FALSE), TreeHash(Left(s)))

(* PROOF: that the tree over s extends the tree over its first m entries.    *)
ConsistencyProof(m, s) == SubProof(m, s, TRUE)
=============================================================================
