------------------------------- MODULE MCPairing -------------------------------
(***************************************************************************)
(* Instances of Pairing for TLC.  Ids and codes are interchangeable.       *)
(***************************************************************************)
EXTENDS Pairing, TLC

IdSymmetry == Permutations(Pairings) \cup Permutations(Devices) \cup Permutations(Codes)
=============================================================================
