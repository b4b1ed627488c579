---------------------------- MODULE MCTenantKeys ----------------------------
(***************************************************************************)
(* Instances of TenantKeys for TLC.                                        *)
(***************************************************************************)
EXTENDS TenantKeys, TLC

\* Processes, calls and tenants are interchangeable; the safety runs use it.
KeysSymmetry ==
    Permutations(Procs) \cup Permutations(Slots) \cup Permutations(Tenants)
=============================================================================
