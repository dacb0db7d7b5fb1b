-------------------------------- MODULE MCTargets --------------------------------
(* A small instance of the target registry for TLC. *)
EXTENDS Targets, TLC

CONSTANTS dsh, lab, d1, d2, a1, a2, c1, alice

Symmetry == Permutations({a1, a2})

MCTarget(preset, device) == [preset |-> preset, device |-> device, containers |-> FALSE]

MCOffers ==
    {[id |-> lab, target |-> MCTarget("openhands-execute", d2)],
     [id |-> dsh, target |-> MCTarget("read-only", d2)],
     [id |-> dsh, target |-> MCTarget("operator-workspace", d1)]}

Only(id, t) == [i \in Ids |-> IF i = id THEN t ELSE NoTarget]

\* Every preset, no target at all, and the reading of containers.
MCStored ==
    {[id \in Ids |-> NoTarget]}
    \cup {Only(lab, MCTarget(preset, d1)) : preset \in Presets}
    \cup {Only(dsh, [MCTarget("read-only", d1) EXCEPT !.containers = c]) : c \in BOOLEAN}
================================================================================
