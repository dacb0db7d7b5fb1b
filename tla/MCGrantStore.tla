------------------------------ MODULE MCGrantStore ------------------------------
(***************************************************************************)
(* Instances of GrantStore for TLC.  Ids, keys and payloads are            *)
(* interchangeable; UUIDs are drawn in order.                              *)
(***************************************************************************)
EXTENDS GrantStore, TLC

GrantSymmetry == Permutations(Ids) \cup Permutations(Keys) \cup Permutations(Payloads)
=============================================================================
