------------------------------ MODULE TrustedLog ------------------------------
(***************************************************************************)
(* What checkpoint trust promises for one log origin: the trusted tree     *)
(* only grows, and every tree handed to a verifier is part of it.          *)
(***************************************************************************)
CONSTANTS
  Roots,       \* tree roots: each commits to a sequence of entries
  Prefix,      \* <<r, s>> when the tree of r is a prefix of the tree of s
  NoRoot       \* nothing is trusted yet

VARIABLES
  tree,        \* the trusted root
  accepted     \* the roots verifiers were told to rely on

Init == tree = NoRoot /\ accepted = {}

(* First contact, or growth.                                                 *)
Grow(r) ==
  /\ tree # NoRoot => <<tree, r>> \in Prefix
  /\ tree' = r
  /\ UNCHANGED accepted

Accept(r) ==
  /\ tree # NoRoot
  /\ <<r, tree>> \in Prefix
  /\ accepted' = accepted \cup {r}
  /\ UNCHANGED tree

Next == \E r \in Roots : Grow(r) \/ Accept(r)

Spec == Init /\ [][Next]_<<tree, accepted>>
=============================================================================
