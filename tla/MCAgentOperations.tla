--------------------------- MODULE MCAgentOperations ---------------------------
(* A small instance of the agent's operations for TLC. *)
EXTENDS AgentOperations, TLC

CONSTANTS j1, j2, j3

\* Two candidates that want the name and a removal; one that others start, stop and
\* remove; then the other kinds.
MCMenus ==
    { (j1 :> "run") @@ (j2 :> "run") @@ (j3 :> "remove"),
      (j1 :> "run") @@ (j2 :> "start") @@ (j3 :> "stop"),
      (j1 :> "run") @@ (j2 :> "start") @@ (j3 :> "remove"),
      (j1 :> "exec") @@ (j2 :> "openhands") @@ (j3 :> "load"),
      (j1 :> "readback") @@ (j2 :> "action") @@ (j3 :> "command"),
      (j1 :> "paperclip") @@ (j2 :> "run") @@ (j3 :> "command") }
================================================================================
