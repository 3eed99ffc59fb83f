------------------------------ MODULE MerkleLog ------------------------------
(***************************************************************************)
(* How the log client recomputes Merkle roots: from entries (merkle.ts),   *)
(* from inclusion proofs (merkle.ts), from consistency proofs              *)
(* (checkpoint-trust.ts) and from hash tiles (hash-tiles.ts); and the      *)
(* verdict on a candidate checkpoint that rests on them.                   *)
(*                                                                         *)
(* A log grows by entries 1, 2, 3, ...  It may also misbehave: replace     *)
(* entry i by -i, or return to an earlier size.  The client remembers the  *)
(* size and root of the last tree it accepted.                             *)
(***************************************************************************)
EXTENDS RFC6962, SequencesExt

CONSTANTS
  MaxSize,     \* bound on the entries of the log
  TileWidths   \* widths of a hash tile (256 in the code), powers of two

ASSUME WidthAssumption ==
  \A w \in TileWidths : \E j \in 1 .. MaxSize : w = 2 ^ j

VARIABLES
  log,         \* the entries of the log
  trusted      \* the entries of the tree the client trusts

treeVars == <<log, trusted>>

TreeInit == log = <<>> /\ trusted = <<>>
-----------------------------------------------------------------------------
(* The honest log the client would have seen before an entry was replaced.   *)
Original == [i \in DOMAIN log |-> i]

(* Faulty variant: a lone node is paired with itself.                        *)
NextLevelPaired(level) ==
  [i \in 1 .. (Len(level) + 1) \div 2 |->
     IF 2 * i <= Len(level) THEN Node(level[2 * i - 1], level[2 * i])
     ELSE Node(level[2 * i - 1], level[2 * i - 1])]

(* One pass of merkleRootFromEntries; a lone last node moves up as it is.    *)
NextLevel(level) ==
  [i \in 1 .. (Len(level) + 1) \div 2 |->
     IF 2 * i <= Len(level) THEN Node(level[2 * i - 1], level[2 * i])
     ELSE level[2 * i - 1]]

RECURSIVE Collapse(_)
Collapse(level) == IF Len(level) = 1 THEN level[1] ELSE Collapse(NextLevel(level))

MerkleRootFromEntries(s) ==
  IF s = <<>> THEN EmptyTree ELSE Collapse([i \in DOMAIN s |-> Leaf(s[i])])
-----------------------------------------------------------------------------
(* Faulty variant: the last node of a level is taken to have a right sibling.*)
ClimbIgnoringEdge(at, sibling) ==
  [hash |-> IF at.i % 2 = 1 THEN Node(sibling, at.hash) ELSE Node(at.hash, sibling),
   i |-> at.i \div 2, n |-> (at.n + 1) \div 2]

(* One step of inclusionRoot, from node i of a level of n nodes.             *)
Climb(at, sibling) ==
  [hash |-> IF at.i % 2 = 1 \/ at.i >= at.n - 1
            THEN Node(sibling, at.hash) ELSE Node(at.hash, sibling),
   i |-> at.i \div 2, n |-> (at.n + 1) \div 2]

InclusionRoot(leaf, index, size, proof) ==
  FoldLeft(Climb, [hash |-> leaf, i |-> index, n |-> size], proof).hash

VerifyInclusion(entry, index, size, root, proof) ==
  /\ 0 <= index /\ index < size
  /\ InclusionRoot(Leaf(entry), index, size, proof) = root
-----------------------------------------------------------------------------
(* Positions of a node in the old and the new tree, one level up.            *)
Halve(at) == [at EXCEPT !.old = @ \div 2, !.new = @ \div 2]

RECURSIVE WhileOdd(_), WhileEven(_)
WhileOdd(at) == IF at.old % 2 = 1 THEN WhileOdd(Halve(at)) ELSE at
WhileEven(at) == IF at.old # 0 /\ at.old % 2 = 0 THEN WhileEven(Halve(at)) ELSE at

(* One proof node of verifyC2spConsistencyProof.                             *)
ClimbBoth(at, node) ==
  IF ~at.ok \/ at.new = 0 THEN [at EXCEPT !.ok = FALSE]
  ELSE IF at.old % 2 = 1 \/ at.old = at.new
  THEN Halve(WhileEven([at EXCEPT !.oldHash = Node(node, @), !.newHash = Node(node, @)]))
  ELSE Halve([at EXCEPT !.newHash = Node(@, node)])

ProofStart(from, to, fromRoot, proof) ==
  LET at == WhileOdd([old |-> from - 1, new |-> to - 1])
      seed == IF at.old = 0 THEN fromRoot ELSE proof[1] IN
  [ok |-> TRUE, old |-> at.old, new |-> at.new, oldHash |-> seed, newHash |-> seed,
   rest |-> IF at.old = 0 THEN proof ELSE Tail(proof)]

(* Faulty variant: only the new root is compared.                            *)
GrowthProvedToNew(from, to, fromRoot, toRoot, proof) ==
  /\ proof # <<>> \/ WhileOdd([old |-> from - 1, new |-> to - 1]).old = 0
  /\ LET start == ProofStart(from, to, fromRoot, proof)
         end == FoldLeft(ClimbBoth, start, start.rest) IN
     end.ok /\ end.new = 0 /\ end.newHash = toRoot

(* The part of verifyC2spConsistencyProof for 0 < from < to.                 *)
GrowthProved(from, to, fromRoot, toRoot, proof) ==
  /\ proof # <<>> \/ WhileOdd([old |-> from - 1, new |-> to - 1]).old = 0
  /\ LET start == ProofStart(from, to, fromRoot, proof)
         end == FoldLeft(ClimbBoth, start, start.rest) IN
     end.ok /\ end.new = 0 /\ end.oldHash = fromRoot /\ end.newHash = toRoot

VerifyC2spConsistencyProof(from, to, fromRoot, toRoot, proof) ==
  \/ /\ from = 0 /\ proof = <<>> /\ fromRoot = EmptyTree
     /\ to = 0 => fromRoot = toRoot
  \/ from # 0 /\ from = to /\ proof = <<>> /\ fromRoot = toRoot
  \/ 0 < from /\ from < to /\ GrowthProved(from, to, fromRoot, toRoot, proof)
-----------------------------------------------------------------------------
NoSuffix == <<>>

(* fold: equal-height hashes with an optional smaller right-hand subtree.    *)
RECURSIVE Fold(_, _)
Fold(hashes, suffix) ==
  IF Len(hashes) = 1
  THEN IF suffix = NoSuffix THEN hashes[1] ELSE Node(hashes[1], suffix)
  ELSE IF suffix # NoSuffix /\ 2 * Split(Len(hashes)) = Len(hashes)
  THEN Node(Fold(hashes, NoSuffix), suffix)
  ELSE Node(Fold(Left(hashes), NoSuffix), Fold(Right(hashes), suffix))

(* root: one frontier tile per non-zero digit of the size.       *)
RECURSIVE Rise(_, _, _, _, _)
Rise(tile, w, level, count, suffix) ==
  IF count = 0 THEN suffix
  ELSE Rise(tile, w, level + 1, count \div w,
         IF count % w = 0 THEN suffix
         ELSE Fold(SubSeq(tile[<<level, count \div w>>], 1, count % w), suffix))

RootOfTiles(tile, w, size) == Rise(tile, w, 0, size, NoSuffix)

Levels(w, size) == {l \in 0 .. size : w ^ l <= size}

(* The tiles root(size) reads.                                               *)
Frontier(w, size) ==
  {<<l, size \div w ^ (l + 1)>> : l \in {x \in Levels(w, size) : (size \div w ^ x) % w # 0}}

(* Faulty variant: tiles below the frontier are taken as served.             *)
AuthenticatedAsServed(tile, w, size, key) == TRUE

(* authenticate: a tile hashes to its entry in its parent, up to *)
(* a tile that reproduced the candidate root.                                *)
RECURSIVE Authenticated(_, _, _, _)
Authenticated(tile, w, size, key) ==
  \/ key \in Frontier(w, size)
  \/ LET parent == <<key[1] + 1, key[2] \div w>> IN
     /\ Authenticated(tile, w, size, parent)
     /\ Len(tile[key]) = w
     /\ Fold(tile[key], NoSuffix) = tile[parent][(key[2] % w) + 1]

(* An error instead of a root; a trusted prefix is never the empty tree.     *)
TilesRejected == EmptyTree

(* authenticatedTilePrefixRoot for a candidate of this size and root.        *)
AuthenticatedTilePrefixRoot(tile, w, size, root, trustedSize) ==
  IF /\ RootOfTiles(tile, w, size) = root
     /\ \A key \in Frontier(w, trustedSize) : Authenticated(tile, w, size, key)
  THEN RootOfTiles(tile, w, trustedSize)
  ELSE TilesRejected
-----------------------------------------------------------------------------
(* The tiles a log with entries s serves: hash j of tile i at level l covers *)
(* the w^l entries from (i * w + j) * w^l on.                                *)
TilesOf(s, w) ==
  LET full(l) == Len(s) \div w ^ l
      hash(l, k) == TreeHash(SubSeq(s, k * w ^ l + 1, (k + 1) * w ^ l))
      keys == UNION {{<<l, i>> : i \in 0 .. (full(l) - 1) \div w} : l \in Levels(w, Len(s))} IN
  [key \in keys |->
     [j \in 1 .. (IF full(key[1]) - key[2] * w < w THEN full(key[1]) - key[2] * w ELSE w) |->
        hash(key[1], key[2] * w + j - 1)]]

(* Faulty variant: a scan is compared with the candidate only.               *)
ScanOfCandidate(entries, size, root, from, fromRoot) ==
  MerkleRootFromEntries(entries) = root

(* verifyCompleteEntriesPrefix for the candidate and the trusted checkpoint. *)
ScanShowsGrowth(entries, size, root, from, fromRoot) ==
  \A c \in {<<size, root>>, <<from, fromRoot>>} :
    /\ c[1] <= Len(entries)
    /\ MerkleRootFromEntries(SubSeq(entries, 1, c[1])) = c[2]

EvidenceKinds == {"scan", "proof", "tiles"}

(* verifyCheckpointAdvance with honestly served evidence of one kind.        *)
VerifyCheckpointAdvance(evidence) ==
  LET from == Len(trusted)   fromRoot == MerkleRootFromEntries(trusted)
      size == Len(log)       root == MerkleRootFromEntries(log) IN
  \/ size = from /\ root = fromRoot
  \/ size > from /\ from = 0
  \/ /\ size > from /\ from > 0
     /\ CASE evidence = "scan" -> ScanShowsGrowth(log, size, root, from, fromRoot)
          [] evidence = "proof" ->
               VerifyC2spConsistencyProof(from, size, fromRoot, root, ConsistencyProof(from, log))
          [] evidence = "tiles" ->
               \A w \in TileWidths :
                 AuthenticatedTilePrefixRoot(TilesOf(log, w), w, size, root, from) = fromRoot
-----------------------------------------------------------------------------
Grow ==
  /\ Len(log) < MaxSize
  /\ log' = Append(log, Len(log) + 1)
  /\ UNCHANGED trusted

(* The log misbehaves: another entry in the place of one it had.             *)
Replace ==
  /\ log = Original
  /\ \E i \in DOMAIN log : log' = [log EXCEPT ![i] = -i]
  /\ UNCHANGED trusted

(* The log returns to an earlier size, as after a restore.                   *)
Shrink ==
  /\ \E n \in 0 .. Len(log) - 1 : log' = SubSeq(log, 1, n)
  /\ UNCHANGED trusted

(* The client accepts the log's checkpoint.                                  *)
Observe ==
  /\ \E evidence \in EvidenceKinds : VerifyCheckpointAdvance(evidence)
  /\ trusted' = log
  /\ UNCHANGED log

TreeNext == Grow \/ Replace \/ Shrink \/ Observe

TreeSpec == TreeInit /\ [][TreeNext]_treeVars
-----------------------------------------------------------------------------
Root == MerkleRootFromEntries(log)

(* The level-by-level root is that of RFC 6962, at every size; and at its    *)
(* own index the audit path RFC 6962 gives verifies exactly the entry that   *)
(* is there: a path from before a replacement verifies nothing else.         *)
InclusionExact ==
  /\ Root = TreeHash(log)
  /\ \A i \in 0 .. Len(log) - 1, s \in {log, Original} : \A entry \in Range(log) \cup Range(Original) :
       VerifyInclusion(entry, i, Len(log), Root, AuditPath(i, s)) <=>
         entry = log[i + 1] /\ AuditPath(i, s) = AuditPath(i, log)

(* No proof the log ever served, for these or other sizes, shows growth from *)
(* a tree that is not a prefix.                                              *)
ConsistencySound ==
  Len(trusted) \in 1 .. Len(log) =>
    \A s \in {log, Original} : \A m \in 1 .. Len(log) :
      VerifyC2spConsistencyProof(Len(trusted), Len(log), MerkleRootFromEntries(trusted), Root,
                                 ConsistencyProof(m, s))
        => IsPrefix(trusted, log)

(* When one tile is stale, the prefix root the client derives is the right   *)
(* one or the tiles are rejected, whichever tile it is.                      *)
StaleTileHarmless ==
  \A w \in TileWidths, m \in 1 .. Len(log) : \A key \in DOMAIN TilesOf(log, w) :
    AuthenticatedTilePrefixRoot([TilesOf(log, w) EXCEPT ![key] = TilesOf(Original, w)[key]],
                                w, Len(log), Root, m)
      \in {TreeHash(SubSeq(log, 1, m)), TilesRejected}

(* Evidence for other sizes or from before the log changed never passes for  *)
(* a consistent one.                                                         *)
WrongEvidenceFails == ConsistencySound /\ StaleTileHarmless

(* A complete scan, a consistency proof and hash tiles give the same verdict,*)
(* and it is that the trusted tree is a prefix of the candidate.             *)
EvidenceAgrees ==
  \A evidence \in EvidenceKinds : VerifyCheckpointAdvance(evidence) <=> IsPrefix(trusted, log)

(* "Checks an RFC 6962 inclusion proof for `entryBytes` at `index`"          *)
(* (merkle.ts:43): the audit path of an entry verifies at no other index.    *)
InclusionBindsIndex ==
  \A i, j \in 0 .. Len(log) - 1 :
    VerifyInclusion(log[j + 1], i, Len(log), Root, AuditPath(j, log)) => i = j
=============================================================================
