--------------------------- MODULE MCSignedExchange ---------------------------
(* SignedExchange for TLC: the calls are interchangeable.                    *)
EXTENDS SignedExchange, TLC

CallSymmetry == Permutations(Calls)
=============================================================================
