-------------------------------- MODULE MCOAuth --------------------------------
(***************************************************************************)
(* An instance of OAuth for TLC: two clients, of which the first is issued *)
(* a code and opens both sessions.                                         *)
(***************************************************************************)
EXTENDS OAuth

CONSTANTS c1, c2, k1, k2, s1, s2

MCClients == {c1, c2}
MCCodes == {k1, k2}
MCSessions == {s1, s2}
MCCodeClient == [k \in MCCodes |-> c1]
MCOwner == [s \in MCSessions |-> c1]
================================================================================
