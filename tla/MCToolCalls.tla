------------------------------ MODULE MCToolCalls ------------------------------
(* A small instance of ToolCalls for TLC: one Portainer stack with two        *)
(* variables, and calls that compete for two slots.                            *)
EXTENDS ToolCalls, TLC

CONSTANTS a, b, c, x, y, z, l1, l2, s1, n1, n2, v1, v2

MCCallers == {a, b, c}
MCCommands == {x, y, z}
MCLinks == {l1, l2}

Plan(p, q, r, of_p, of_q, of_r) == p :> of_p @@ q :> of_q @@ r :> of_r
Tool(tool, rounds) == [tool |-> tool, rounds |-> rounds]
First(one, reads) == [one |-> one, other |-> None, reads |-> reads]
Both(one, other, reads) == [one |-> one, other |-> other, reads |-> reads]
NoCall == Tool("none", <<>>)
Probe == Tool("probe", <<First(z, "exit")>>)

\* A repository, looked for, and a container's logs; a file behind its path, and the
\* console's probe; runtime_summary and the probe; uptime; host_status, and a call
\* that asks nobody; two changes of a stack.
PlansOf(p, q, v, w) ==
    {Plan(p, q, c, Tool("ssh", <<First(v, "tried")>>), Tool("ssh", <<First(w, "allowed")>>), NoCall),
     Plan(p, q, c, Tool("ssh", <<First(v, "allowed"), First(w, "exit")>>), NoCall, Probe),
     Plan(p, q, c, Tool("ssh", <<Both(v, w, "any")>>), NoCall, Probe),
     Plan(p, q, c, Tool("ssh", <<Both(v, w, "exit")>>), NoCall, NoCall),
     Plan(p, q, c, Tool("ssh", <<First(z, "exit"), Both(v, w, "any")>>), Tool("ssh", <<>>), NoCall),
     Plan(p, q, c, Tool("portainer", <<>>), Tool("portainer", <<>>), NoCall)}

\* The first two calls are interchangeable, together with their commands.
MCPlans == PlansOf(a, b, x, y) \cup PlansOf(b, a, y, x)
MCSymmetry == {a :> a @@ b :> b @@ x :> x @@ y :> y, a :> b @@ b :> a @@ x :> y @@ y :> x}

MCNothing == [n \in {n1, n2} |-> Unset]

OrderOf(kind, confirm, set, unset, all) ==
    [kind |-> kind, stack |-> s1, confirm |-> confirm, set |-> set, unset |-> unset, all |-> all]

MCOrders ==
    {OrderOf("update", TRUE, [MCNothing EXCEPT ![n1] = v1], {n1}, FALSE),
     OrderOf("update", TRUE, [MCNothing EXCEPT ![n2] = v1], {}, TRUE)}
    \cup {OrderOf(k, TRUE, MCNothing, {}, FALSE) : k \in {"redeploy", "create", "delete", "start"}}
    \cup {OrderOf("stop", FALSE, MCNothing, {}, FALSE), OrderOf("read", TRUE, MCNothing, {}, FALSE)}

MCStack == [there |-> TRUE, git |-> FALSE, up |-> TRUE, env |-> [n \in {n1, n2} |-> v2], file |-> "f1"]
MCStacks == {s1 :> MCStack, s1 :> [MCStack EXCEPT !.git = TRUE]}
================================================================================
