--------------------------- MODULE MCAccessTokens ---------------------------
(***************************************************************************)
(* Instances of AccessTokens for TLC.                                      *)
(***************************************************************************)
EXTENDS AccessTokens, TLC

AccessSymmetry == Permutations(Slots) \cup Permutations(Tokens)
=============================================================================
