--------------------------- MODULE SingleUseApproval ---------------------------
(***************************************************************************)
(* What the managed-admin flow promises of every approval: it is prepared, *)
(* then either granted or dropped, and a granted approval leads to at most *)
(* one run of its action.                                                  *)
(***************************************************************************)
EXTENDS Naturals

CONSTANT Approvals

VARIABLES status,  \* where each approval stands
          runs     \* how many times its action was started

Init ==
    /\ status = [a \in Approvals |-> "none"]
    /\ runs = [a \in Approvals |-> 0]

\* Any prepared approval may be dropped along with a step: it has expired, or
\* it is lost with the process.
Dropping(f) ==
    \E S \in SUBSET {a \in Approvals : f[a] = "prepared"} :
        status' = [a \in Approvals |-> IF a \in S THEN "dropped" ELSE f[a]]

Drop == Dropping(status) /\ UNCHANGED runs

Prepare(a) ==
    /\ status[a] = "none"
    /\ Dropping([status EXCEPT ![a] = "prepared"])
    /\ UNCHANGED runs

Grant(a) ==
    /\ status[a] = "prepared"
    /\ Dropping([status EXCEPT ![a] = "granted"])
    /\ UNCHANGED runs

Run(a) ==
    /\ status[a] = "granted"
    /\ status' = [status EXCEPT ![a] = "executed"]
    /\ runs' = [runs EXCEPT ![a] = @ + 1]

Next == Drop \/ \E a \in Approvals : Prepare(a) \/ Grant(a) \/ Run(a)

Spec == Init /\ [][Next]_<<status, runs>>
=============================================================================
