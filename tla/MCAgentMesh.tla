------------------------------ MODULE MCAgentMesh ------------------------------
(***************************************************************************)
(* Instances of AgentMesh for TLC: one device with numbered connections.   *)
(***************************************************************************)
EXTENDS AgentMesh, TLC

CONSTANT Sockets  \* how many connections the device may open

MCConns == {"a"} \X (1 .. Sockets)
MCDeviceOf == [c \in MCConns |-> c[1]]

=============================================================================
