----------------------------- MODULE MCManagedAdmin -----------------------------
(***************************************************************************)
(* Instances of ManagedAdmin for TLC.  The clock of the broker of "east"   *)
(* is ahead of the control plane's by ClockError, that of "west" behind.   *)
(***************************************************************************)
EXTENDS ManagedAdmin, TLC

CONSTANT ClockError

MCOffset == [b \in Devices |-> IF b = "east" THEN ClockError ELSE -ClockError]
MCLocalPrograms == [b \in Devices |-> IF b = "east" THEN Programs ELSE {"systemctl"}]

IdSymmetry == Permutations(Approvals) \cup Permutations(Nonces) \cup Permutations(Actors)
=============================================================================
