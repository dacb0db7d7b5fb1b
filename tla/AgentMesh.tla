------------------------------- MODULE AgentMesh -------------------------------
(***************************************************************************)
(* The gateway composed with the agents: the loop of agent/cli.ts on every *)
(* device, which connects, executes what it is sent, answers on the socket *)
(* the request came from and connects again when the socket closes.        *)
(*                                                                         *)
(* One agent runs per device.  The network may delay anything, lose a      *)
(* connection with what is in flight on it, or let the two ends notice the *)
(* loss at different times.  The service manager restarts a dead agent     *)
(* (Restart=always).                                                       *)
(***************************************************************************)
EXTENDS AgentGateway

VARIABLES process,     \* the agent: "connecting", "connected", "waiting" or "exited"
          current,     \* the connection the agent's loop is on
          peer,        \* readyState of a connection at the agent
          inbound,     \* requests written to their connection, not yet received
          executing,   \* requests inside executeAgentOperation
          outbound,    \* results sent by an agent, not yet received
          \* History variables, read by properties only
          executions,  \* how often a request was executed (2 for more)
          everRevoked  \* devices that were revoked at some time

agentVars == <<process, current, peer>>
workVars == <<inbound, executing, outbound, executions>>
meshVars == <<vars, agentVars, workVars, everRevoked>>

RequestsOf(d) == {r \in Requests : reqConn[r] # None /\ RequestDevice(r) = d}

-----------------------------------------------------------------------------
MeshInit ==
    /\ Init
    /\ process = [d \in Devices |-> "connecting"]
    /\ current = [d \in Devices |-> None]
    /\ peer = [c \in Conns |-> "none"]
    /\ inbound = {} /\ executing = {} /\ outbound = {}
    /\ executions = [r \in Requests |-> 0]
    /\ everRevoked = {}

-----------------------------------------------------------------------------
(* The loop of an agent *)

\* The loop constructs a WebSocket only after the previous one has closed.
ReadyToConnect(d) == process[d] = "connecting" /\ current[d] = None

\* The upgrade request reaches the gateway, which accepts it.
AgentConnects(c) ==
    LET d == DeviceOf[c] IN
    /\ ReadyToConnect(d)
    /\ Upgrade(c)
    /\ current' = [current EXCEPT ![d] = c]
    /\ UNCHANGED <<process, peer, workVars, everRevoked>>

\* The upgrade is refused (a revoked device gets 401) or never answered: ws
\* emits error and close without one of the gateway's codes.
ConnectFails(d) ==
    /\ ReadyToConnect(d)
    /\ process' = [process EXCEPT ![d] = "waiting"]
    /\ UNCHANGED <<vars, current, peer, workVars, everRevoked>>

\* The gateway accepts the upgrade of an attempt the agent has given up on.
LateUpgrade(c) ==
    /\ Upgrade(c)
    /\ peer' = [peer EXCEPT ![c] = "closed"]
    /\ UNCHANGED <<process, current, workVars, everRevoked>>

\* The open event; hello is sent.
AgentOpens(c) ==
    LET d == DeviceOf[c] IN
    /\ current[d] = c
    /\ peer[c] = "none"
    /\ peer' = [peer EXCEPT ![c] = "open"]
    /\ process' = [process EXCEPT ![d] = "connected"]
    /\ UNCHANGED <<vars, current, workVars, everRevoked>>

\* Mutants of Verdict: every close code of the gateway stops the agent; the
\* code itself is passed on.
VerdictOfAnyCode(how) == IF how # "none" THEN "exited" ELSE "waiting"

\* What the loop does after a close event: only code 4003 ends it.
Verdict(how) == IF how = "revoked" THEN "exited" ELSE "waiting"

\* The close event at the agent: with the gateway's code if its close frame
\* arrives, without one if the connection is lost.
AgentCloses(c, how) ==
    LET d == DeviceOf[c] IN
    /\ current[d] = c
    /\ peer[c] # "closed"
    /\ how \in {"none", code[c]}
    /\ peer' = [peer EXCEPT ![c] = "closed"]
    /\ current' = [current EXCEPT ![d] = None]
    /\ process' = [process EXCEPT ![d] = Verdict(how)]
    /\ UNCHANGED <<vars, workVars, everRevoked>>

\* The delay, at most 30 s, is over.
DelayOver(d) ==
    /\ process[d] = "waiting"
    /\ process' = [process EXCEPT ![d] = "connecting"]
    /\ UNCHANGED <<vars, current, peer, workVars, everRevoked>>

\* The agent dies, or has exited, and is started again.  What it was executing
\* is gone.
AgentRestarts(d) ==
    /\ process' = [process EXCEPT ![d] = "connecting"]
    /\ current' = [current EXCEPT ![d] = None]
    /\ peer' = [c \in Conns |-> IF current[d] = c THEN "closed" ELSE peer[c]]
    /\ executing' = executing \ RequestsOf(d)
    /\ UNCHANGED <<vars, inbound, outbound, executions, everRevoked>>

\* A hello or heartbeat message of the agent arrives; any message of a revoked
\* device makes the gateway close.
AgentMessage(c) ==
    /\ peer[c] # "none"
    /\ Heartbeat(c) \/ MessageOfRevokedDevice(c)
    /\ UNCHANGED <<agentVars, workVars, everRevoked>>

-----------------------------------------------------------------------------
(* Requests *)

MeshDispatch(d, r) ==
    /\ Dispatch(d, r)
    /\ inbound' = inbound \cup {r}
    /\ UNCHANGED <<agentVars, executing, outbound, executions, everRevoked>>

Received(r) == inbound' = inbound \ {r}

\* An execute_request arrives; executeAgentOperation begins.
AgentExecutes(r) ==
    /\ r \in inbound
    /\ peer[reqConn[r]] = "open"
    /\ Received(r)
    /\ executing' = executing \cup {r}
    /\ executions' = [executions EXCEPT ![r] = IF @ = 2 THEN 2 ELSE @ + 1]
    /\ UNCHANGED <<vars, agentVars, outbound, everRevoked>>

\* Mutant of Answerable: the operation is not awaited.
AnswerableUnawaited == executing \cup {r \in inbound : peer[reqConn[r]] = "open"}

Answerable == executing

\* The operation ends or throws; the answer is sent if the socket it came on
\* is still open, and dropped otherwise.
AgentAnswers(r) ==
    /\ r \in Answerable
    /\ executing' = executing \ {r}
    /\ outbound' = IF peer[reqConn[r]] = "open" THEN outbound \cup {r} ELSE outbound
    /\ UNCHANGED <<vars, agentVars, inbound, executions, everRevoked>>

\* The answer arrives at the gateway and settles its request.
AnswerArrives(r) ==
    /\ r \in outbound
    /\ outbound' = outbound \ {r}
    /\ ExecuteResult(reqConn[r], r, TRUE)
    /\ UNCHANGED <<agentVars, inbound, executing, executions, everRevoked>>

\* The answer arrives for a request that has been settled, or is lost.
AnswerIgnored(r) ==
    /\ r \in outbound
    /\ outbound' = outbound \ {r}
    /\ UNCHANGED <<vars, agentVars, inbound, executing, executions, everRevoked>>

-----------------------------------------------------------------------------
\* The gateway's steps that no agent takes part in.
GatewayAlone ==
    \/ \E c \in Conns : PeerCloses(c) \/ CloseEvent(c)
    \/ \E r \in Requests : \/ \E d \in Devices : DispatchRefused(d, r)
                           \/ SendFlushed(r) \/ SendFailed(r) \/ RequestTimeout(r)
    \/ \E d \in Devices : RevokeDevice(d) \/ RevokeDeviceUnsaved(d)
    \/ Sweep
    \/ Tick
    \/ Restart

GatewayStep ==
    /\ GatewayAlone
    /\ everRevoked' = everRevoked \cup revoked'
    /\ UNCHANGED <<agentVars, workVars>>

MeshNext ==
    \/ \E c \in Conns : \/ AgentConnects(c) \/ LateUpgrade(c) \/ AgentOpens(c)
                        \/ AgentMessage(c)
                        \/ \E how \in CloseCodes : AgentCloses(c, how)
    \/ \E d \in Devices : ConnectFails(d) \/ DelayOver(d) \/ AgentRestarts(d)
    \/ \E r \in Requests : \/ \E d \in Devices : MeshDispatch(d, r)
                           \/ AgentExecutes(r) \/ AgentAnswers(r)
                           \/ AnswerArrives(r) \/ AnswerIgnored(r)
    \/ GatewayStep

MeshSpec == MeshInit /\ [][MeshNext]_meshVars

OfDevice(d) == {c \in Conns : DeviceOf[c] = d}

\* The delay timer fires, TCP reports a connection the gateway has closed, and
\* of the attempts to connect not all fail for ever.  The service manager is
\* not relied upon.
MeshFairness ==
    /\ Fairness
    /\ \A d \in Devices : /\ WF_meshVars(DelayOver(d))
                          /\ SF_meshVars(\E c \in OfDevice(d) : AgentConnects(c))
    /\ \A c \in Conns :
          WF_meshVars(sock[c] = "closed" /\ \E how \in CloseCodes : AgentCloses(c, how))

MeshFairSpec == MeshSpec /\ MeshFairness

-----------------------------------------------------------------------------
(* Properties *)

\* The values the agents' variables take.
MeshTypeOK ==
    /\ process \in [Devices -> {"connecting", "connected", "waiting", "exited"}]
    /\ current \in [Devices -> Conns \cup {None}]
    /\ peer \in [Conns -> {"none", "open", "closed"}]
    /\ inbound \subseteq Requests /\ executing \subseteq Requests /\ outbound \subseteq Requests
    /\ executions \in [Requests -> 0 .. 2]
    /\ everRevoked \subseteq Devices

\* An operation is executed at most once, whatever is lost, reconnected or
\* restarted on its way: neither end repeats a request.
ExecutedAtMostOnce == \A r \in Requests : executions[r] <= 1

\* What the caller is told is true of the host: a result means the operation
\* was executed, a refusal that it never will be.  The other errors say
\* nothing: the operation may have been executed or still be.
OutcomeIsTruthful ==
    \A r \in Requests :
        /\ outcome[r] = "result" => executions[r] = 1
        /\ outcome[r] \in Refusals => executions[r] = 0 /\ r \notin inbound

\* An agent gives up for good only if its device was revoked.
ExitMeansRevoked ==
    \A d \in Devices : process[d] = "exited" => d \in everRevoked

\* The strengthening that makes these inductive.  Where a request is, in flight,
\* in execution or answered, tells how often it was executed; the gateway's
\* code 4003 tells that the device was revoked.
WorkOK ==
    \A r \in Requests :
        /\ r \in inbound \cup executing \cup outbound => reqConn[r] \in Conns
        /\ r \in inbound => executions[r] = 0
        /\ r \in executing \cup outbound => executions[r] = 1
        /\ outcome[r] = "unused" => executions[r] = 0 /\ r \notin inbound

RevocationsKnown ==
    /\ revoked \subseteq everRevoked
    /\ \A c \in Conns : code[c] = "revoked" => DeviceOf[c] \in everRevoked

MeshIInv ==
    /\ MeshTypeOK
    /\ WorkOK
    /\ RevocationsKnown
    /\ ExecutedAtMostOnce
    /\ OutcomeIsTruthful
    /\ ExitMeansRevoked

\* The agent and the gateway are on the same connection.
Connected(d) == Online(d) /\ current[d] = live[d]

\* An agent that is not revoked does not stay offline: after any close code,
\* lost connection or restart of either end it is connected again, until it
\* runs out of the connections of the model.
Reconnects ==
    \A d \in Devices :
        (~Connected(d)) ~> \/ Connected(d)
                           \/ d \in everRevoked
                           \/ \A c \in OfDevice(d) : sock[c] # "none"
=============================================================================
