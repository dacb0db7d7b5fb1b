------------------------------ MODULE LeadDelivery ------------------------------
(***************************************************************************)
(* What the grant store promises of every instruction to a Lead: its       *)
(* payload and receipt are recorded before anything is sent, DeepHarness   *)
(* admits no other payload under its key, and it is acknowledged only      *)
(* after it was admitted.  Records are never changed otherwise.            *)
(***************************************************************************)
CONSTANTS Slots,      \* a caller's identity and an idempotency key
          Payloads,
          Receipts,
          None

VARIABLES record,     \* the durable record of a slot
          admitted    \* the payload DeepHarness admitted for a slot

Init ==
    /\ record = [s \in Slots |-> None]
    /\ admitted = [s \in Slots |-> None]

Intend(s, p, r) ==
    /\ record[s] = None
    /\ record' = [record EXCEPT ![s] = [payload |-> p, receipt |-> r, accepted |-> FALSE]]
    /\ UNCHANGED admitted

Admit(s) ==
    /\ record[s] # None
    /\ admitted[s] = None
    /\ admitted' = [admitted EXCEPT ![s] = record[s].payload]
    /\ UNCHANGED record

Accept(s) ==
    /\ record[s] # None
    /\ admitted[s] = record[s].payload
    /\ record' = [record EXCEPT ![s] =
                     [payload |-> @.payload, receipt |-> @.receipt, accepted |-> TRUE]]
    /\ UNCHANGED admitted

Next ==
    \E s \in Slots :
        \/ \E p \in Payloads, r \in Receipts : Intend(s, p, r)
        \/ Admit(s)
        \/ Accept(s)

Spec == Init /\ [][Next]_<<record, admitted>>
=============================================================================
