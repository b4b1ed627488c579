--------------------------- MODULE MCAuthSessions ---------------------------
(***************************************************************************)
(* Instances of AuthSessions for TLC.                                      *)
(***************************************************************************)
EXTENDS AuthSessions, TLC

\* Slots, keys and users are interchangeable; the safety runs use it.
Symmetry == Permutations(Slots) \cup Permutations(Keys) \cup Permutations(Users)

NoTokens == {}
FirstToken == {1}
LastToken == {MaxTokens}
=============================================================================
