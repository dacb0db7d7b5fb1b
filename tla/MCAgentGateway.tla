---------------------------- MODULE MCAgentGateway ----------------------------
(***************************************************************************)
(* Instances of AgentGateway for TLC.  A connection is named by its device *)
(* and a number.                                                           *)
(***************************************************************************)
EXTENDS AgentGateway, TLC

CONSTANTS FirstSockets,  \* how many connections device "a" may open
          OtherSockets   \* how many connections device "b" may open

MCDevices == IF OtherSockets = 0 THEN {"a"} ELSE {"a", "b"}
MCConns == ({"a"} \X (1 .. FirstSockets)) \cup ({"b"} \X (1 .. OtherSockets))
MCDeviceOf == [c \in MCConns |-> c[1]]

=============================================================================
