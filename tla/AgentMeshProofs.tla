---------------------------- MODULE AgentMeshProofs ----------------------------
(***************************************************************************)
(* Safety of the agent gateway, and of its composition with the agents,    *)
(* for any number of devices, connections and requests.  The composition   *)
(* implements the gateway's own specification, so what is proved of the    *)
(* gateway holds of it, and it executes every request at most once.        *)
(***************************************************************************)
EXTENDS AgentMesh, TLAPS

USE DeviceOfAssumption, StaleTicksAssumption, NoneAssumption

-----------------------------------------------------------------------------
(* The gateway *)

\* The gateway starts in a state of the invariant.
LEMMA InitIInv == Init => IInv
  BY DEF Init, IInv, TypeOK, WaitersTracked, OpenSocketIsLive, PendingSocketAlive,
         ConfirmedRevocation, DisconnectHasCause, ResultFromOwnDevice, Bookkeeping,
         SocketStates, CloseCodes, Outcomes, Refusals, Settlements

\* Every step of the gateway keeps the types.
LEMMA TypeStep == TypeOK /\ [Next]_vars => TypeOK'
<1> SUFFICES ASSUME TypeOK, [Next]_vars PROVE TypeOK'
  OBVIOUS
<1> USE DEF TypeOK, SocketStates, CloseCodes, Outcomes, Refusals, Settlements,
            sockVars, reqVars, storeVars
<1>1. ASSUME NEW c \in Conns, Upgrade(c) PROVE TypeOK'
  BY <1>1 DEF Upgrade, SaveState, Superseded
<1>2. ASSUME NEW c \in Conns, MessageOfRevokedDevice(c) PROVE TypeOK'
  BY <1>2 DEF MessageOfRevokedDevice, Close
<1>3. ASSUME NEW c \in Conns, InvalidJson(c) PROVE TypeOK'
  BY <1>3 DEF InvalidJson, Close
<1>4. ASSUME NEW c \in Conns, Heartbeat(c) PROVE TypeOK'
  BY <1>4 DEF Heartbeat, SaveState
<1>5. ASSUME NEW c \in Conns, NEW r \in Requests, NEW w \in BOOLEAN, ExecuteResult(c, r, w)
      PROVE TypeOK'
  BY <1>5 DEF ExecuteResult, Settle
<1>6. ASSUME NEW c \in Conns, PeerCloses(c) PROVE TypeOK'
  BY <1>6 DEF PeerCloses
<1>7. ASSUME NEW c \in Conns, CloseEvent(c) PROVE TypeOK'
  BY <1>7 DEF CloseEvent, Settle
<1>8. ASSUME NEW r \in Requests, NEW d \in Devices, DispatchRefused(d, r) PROVE TypeOK'
  BY <1>8 DEF DispatchRefused
<1>9. ASSUME NEW r \in Requests, NEW d \in Devices, Dispatch(d, r) PROVE TypeOK'
  BY <1>9 DEF Dispatch, ArmTimer
<1>10. ASSUME NEW r \in Requests, SendFlushed(r) PROVE TypeOK'
  BY <1>10 DEF SendFlushed
<1>11. ASSUME NEW r \in Requests, SendFailed(r) PROVE TypeOK'
  BY <1>11 DEF SendFailed
<1>12. ASSUME NEW r \in Requests, RequestTimeout(r) PROVE TypeOK'
  BY <1>12 DEF RequestTimeout, Settle
<1>13. ASSUME NEW d \in Devices, RevokeDevice(d) PROVE TypeOK'
  BY <1>13 DEF RevokeDevice, Disconnect, Close, Settle
<1>14. ASSUME NEW d \in Devices, RevokeDeviceUnsaved(d) PROVE TypeOK'
  BY <1>14 DEF RevokeDeviceUnsaved
<1>15. CASE Sweep
  BY <1>15 DEF Sweep, SweepVerdict
<1>16. CASE Tick
  BY <1>16 DEF Tick
<1>17. CASE Restart
  BY <1>17 DEF Restart
<1>18. CASE UNCHANGED vars
  BY <1>18 DEF vars
<1> QED
  BY <1>1, <1>2, <1>3, <1>4, <1>5, <1>6, <1>7, <1>8, <1>9, <1>10, <1>11, <1>12,
     <1>13, <1>14, <1>15, <1>16, <1>17, <1>18 DEF Next, ConnNext, RequestNext

\* Every step of the gateway keeps the invariant.
LEMMA SafetyStep == IInv /\ [Next]_vars => IInv'
<1> SUFFICES ASSUME IInv, [Next]_vars PROVE IInv'
  OBVIOUS
<1>0. TypeOK /\ TypeOK'
  BY TypeStep DEF IInv
<1> USE <1>0 DEF TypeOK, WaitersTracked, OpenSocketIsLive, PendingSocketAlive,
            ConfirmedRevocation, DisconnectHasCause, ResultFromOwnDevice, Bookkeeping,
            Alive, RequestDevice, PendingOf, Authenticated, sockVars, reqVars, storeVars
<1>1. ASSUME NEW c \in Conns, Upgrade(c) PROVE IInv'
  BY <1>1 DEF IInv, Upgrade, SaveState, Superseded
<1>2. ASSUME NEW c \in Conns, MessageOfRevokedDevice(c) PROVE IInv'
  BY <1>2 DEF IInv, MessageOfRevokedDevice, Close
<1>3. ASSUME NEW c \in Conns, InvalidJson(c) PROVE IInv'
  BY <1>3 DEF IInv, InvalidJson, Close
<1>4. ASSUME NEW c \in Conns, Heartbeat(c) PROVE IInv'
  BY <1>4 DEF IInv, Heartbeat, SaveState
<1>5. ASSUME NEW c \in Conns, NEW r \in Requests, NEW w \in BOOLEAN, ExecuteResult(c, r, w)
      PROVE IInv'
  BY <1>5 DEF IInv, ExecuteResult, Answers, Settle
<1>6. ASSUME NEW c \in Conns, PeerCloses(c) PROVE IInv'
  BY <1>6 DEF IInv, PeerCloses
<1>7. ASSUME NEW c \in Conns, CloseEvent(c) PROVE IInv'
  BY <1>7 DEF IInv, CloseEvent, RejectedByClose, Settle
<1>8. ASSUME NEW r \in Requests, NEW d \in Devices, DispatchRefused(d, r) PROVE IInv'
  BY <1>8 DEF IInv, DispatchRefused, Online
<1>9. ASSUME NEW r \in Requests, NEW d \in Devices, Dispatch(d, r) PROVE IInv'
  BY <1>9 DEF IInv, Dispatch, ArmTimer, Online
<1>10. ASSUME NEW r \in Requests, SendFlushed(r) PROVE IInv'
  BY <1>10 DEF IInv, SendFlushed
<1>11. ASSUME NEW r \in Requests, SendFailed(r) PROVE IInv'
  BY <1>11 DEF IInv, SendFailed
<1>12. ASSUME NEW r \in Requests, RequestTimeout(r) PROVE IInv'
  BY <1>12 DEF IInv, RequestTimeout, Settle
<1>13. ASSUME NEW d \in Devices, RevokeDevice(d) PROVE IInv'
  BY <1>13 DEF IInv, RevokeDevice, Disconnect, Close, Settle
<1>14. ASSUME NEW d \in Devices, RevokeDeviceUnsaved(d) PROVE IInv'
  BY <1>14 DEF IInv, RevokeDeviceUnsaved
<1>15. CASE Sweep
  BY <1>15 DEF IInv, Sweep, SweepVerdict
<1>16. CASE Tick
  BY <1>16 DEF IInv, Tick
<1>17. CASE Restart
  BY <1>17 DEF IInv, Restart
<1>18. CASE UNCHANGED vars
  BY <1>18 DEF IInv, vars
<1> QED
  BY <1>1, <1>2, <1>3, <1>4, <1>5, <1>6, <1>7, <1>8, <1>9, <1>10, <1>11, <1>12,
     <1>13, <1>14, <1>15, <1>16, <1>17, <1>18 DEF Next, ConnNext, RequestNext

\* The inductive invariant holds in every reachable state of the gateway.
THEOREM GatewaySafety == Spec => []IInv
<1>1. Init => IInv
  BY InitIInv
<1>2. IInv /\ [Next]_vars => IInv'
  BY SafetyStep
<1> QED
  BY <1>1, <1>2, PTL DEF Spec

\* Every variable keeps its type.
THEOREM TypeCorrect == Spec => []TypeOK
  BY GatewaySafety, PTL DEF IInv

\* The pending map, the armed timers and the unsettled promises of
\* dispatchAgentOperation always agree.
THEOREM WaitersAreTracked == Spec => []WaitersTracked
  BY GatewaySafety, PTL DEF IInv

\* live always holds the one OPEN socket of a device.
THEOREM OpenSocketsAreLive == Spec => []OpenSocketIsLive
  BY GatewaySafety, PTL DEF IInv

\* No request outlives the socket it was written to.
THEOREM PendingSocketsAlive == Spec => []PendingSocketAlive
  BY GatewaySafety, PTL DEF IInv

\* A confirmed revocation is permanent and complete, restarts included.
THEOREM ConfirmedRevocationHolds == Spec => []ConfirmedRevocation
  BY GatewaySafety, PTL DEF IInv

\* A request reported as disconnected had a socket of its device close on it.
THEOREM DisconnectsHaveCause == Spec => []DisconnectHasCause
  BY GatewaySafety, PTL DEF IInv

\* A device never answers for another one.
THEOREM ResultsFromOwnDevice == Spec => []ResultFromOwnDevice
  BY GatewaySafety, PTL DEF IInv

\* The step form of RevokedFailsClosed.
LEMMA RevokedFailsClosedStep ==
    ASSUME IInv, [Next]_vars, NEW q \in Requests,
           outcome'[q] # outcome[q], outcome'[q] \in {"waiting", "result"}
    PROVE  DeviceOf[reqConn'[q]] \notin revoked
<1> USE DEF IInv, TypeOK, WaitersTracked, PendingSocketAlive, Bookkeeping, Alive, RequestDevice,
            PendingOf, Authenticated, sockVars, reqVars, storeVars
<1>1. ASSUME NEW c \in Conns, NEW r \in Requests, NEW w \in BOOLEAN, ExecuteResult(c, r, w)
      PROVE  DeviceOf[reqConn'[q]] \notin revoked
  BY <1>1 DEF ExecuteResult, Answers, Settle
<1>2. ASSUME NEW r \in Requests, NEW d \in Devices, Dispatch(d, r)
      PROVE  DeviceOf[reqConn'[q]] \notin revoked
  BY <1>2 DEF Dispatch, Online
<1>3. ASSUME NEW c \in Conns,
             \/ Upgrade(c) \/ MessageOfRevokedDevice(c) \/ InvalidJson(c) \/ Heartbeat(c)
             \/ PeerCloses(c) \/ CloseEvent(c)
      PROVE  FALSE
  BY <1>3 DEF Upgrade, MessageOfRevokedDevice, InvalidJson, Heartbeat, PeerCloses, CloseEvent,
              Settle
<1>4. ASSUME NEW r \in Requests, NEW d \in Devices, DispatchRefused(d, r)
      PROVE  FALSE
  BY <1>4 DEF DispatchRefused
<1>5. ASSUME Sweep \/ Tick \/ Restart \/ UNCHANGED vars
      PROVE  FALSE
  BY <1>5 DEF Sweep, Tick, Restart, vars
<1>6. ASSUME NEW r \in Requests, SendFlushed(r) \/ SendFailed(r) \/ RequestTimeout(r)
      PROVE  FALSE
  BY <1>6 DEF SendFlushed, SendFailed, RequestTimeout, Settle
<1>7. ASSUME NEW d \in Devices, RevokeDevice(d) \/ RevokeDeviceUnsaved(d)
      PROVE  FALSE
  BY <1>7 DEF RevokeDevice, RevokeDeviceUnsaved, Disconnect, Settle
<1> QED
  BY <1>1, <1>2, <1>3, <1>4, <1>5, <1>6, <1>7 DEF Next, ConnNext, RequestNext

\* No step hands a request to a revoked device or accepts its answer, whether
\* or not the revocation reached the disk.
THEOREM RevokedDevicesFailClosed == Spec => RevokedFailsClosed
<1>1. IInv /\ [Next]_vars =>
        [\A r \in Requests :
            (outcome'[r] # outcome[r] /\ outcome'[r] \in {"waiting", "result"}) =>
                DeviceOf[reqConn'[r]] \notin revoked]_vars
  BY RevokedFailsClosedStep
<1> QED
  BY <1>1, GatewaySafety, PTL DEF Spec, RevokedFailsClosed

\* The step form of RevokedCodeIsHonest.
LEMMA RevokedCodeStep ==
    ASSUME IInv, [Next]_vars, NEW x \in Conns, code'[x] = "revoked", code[x] # "revoked"
    PROVE  DeviceOf[x] \in revoked'
<1> USE DEF IInv, TypeOK, Bookkeeping, Authenticated, sockVars, reqVars, storeVars, Close
<1>1. ASSUME NEW c \in Conns, MessageOfRevokedDevice(c) PROVE DeviceOf[x] \in revoked'
  BY <1>1 DEF MessageOfRevokedDevice
<1>2. CASE Sweep
  BY <1>2 DEF Sweep, SweepVerdict
<1>3. ASSUME NEW d \in Devices, RevokeDevice(d) PROVE DeviceOf[x] \in revoked'
  BY <1>3 DEF RevokeDevice, Disconnect
<1>4. ASSUME NEW c \in Conns, Upgrade(c) \/ InvalidJson(c) \/ Heartbeat(c) \/ PeerCloses(c)
                              \/ CloseEvent(c)
      PROVE  FALSE
  BY <1>4 DEF Upgrade, InvalidJson, Heartbeat, PeerCloses, CloseEvent
<1>5. ASSUME NEW c \in Conns, NEW r \in Requests, NEW w \in BOOLEAN, ExecuteResult(c, r, w)
      PROVE  FALSE
  BY <1>5 DEF ExecuteResult
<1>6. ASSUME NEW r \in Requests, RequestNext(r) PROVE FALSE
  BY <1>6 DEF RequestNext, DispatchRefused, Dispatch, SendFlushed, SendFailed, RequestTimeout
<1>7. ASSUME NEW d \in Devices, RevokeDeviceUnsaved(d) PROVE FALSE
  BY <1>7 DEF RevokeDeviceUnsaved
<1>8. ASSUME Tick \/ Restart \/ UNCHANGED vars PROVE FALSE
  BY <1>8 DEF Tick, Restart, vars
<1> QED
  BY <1>1, <1>2, <1>3, <1>4, <1>5, <1>6, <1>7, <1>8 DEF Next, ConnNext

\* Code 4003, which ends an agent, is only ever sent to a revoked device.
THEOREM RevokedCodesAreHonest == Spec => RevokedCodeIsHonest
<1>1. IInv /\ [Next]_vars =>
        [\A c \in Conns : (code'[c] = "revoked" /\ code[c] # "revoked") =>
            DeviceOf[c] \in revoked']_vars
  BY RevokedCodeStep
<1> QED
  BY <1>1, GatewaySafety, PTL DEF Spec, RevokedCodeIsHonest

-----------------------------------------------------------------------------
(* The composition with the agents *)

\* Every step of the composition is a step of the gateway or leaves it alone.
LEMMA MeshStepIsGatewayStep == MeshIInv /\ [MeshNext]_meshVars => [Next]_vars
<1> SUFFICES ASSUME MeshIInv, [MeshNext]_meshVars PROVE [Next]_vars
  OBVIOUS
<1>1. ASSUME NEW c \in Conns, AgentConnects(c) \/ LateUpgrade(c) \/ AgentMessage(c) PROVE Next
  BY <1>1 DEF AgentConnects, LateUpgrade, AgentMessage, Next, ConnNext
<1>2. ASSUME NEW c \in Conns, NEW how \in CloseCodes, AgentCloses(c, how) PROVE UNCHANGED vars
  BY <1>2 DEF AgentCloses
<1>3. ASSUME NEW c \in Conns, AgentOpens(c) PROVE UNCHANGED vars
  BY <1>3 DEF AgentOpens
<1>4. ASSUME NEW d \in Devices, ConnectFails(d) \/ DelayOver(d) \/ AgentRestarts(d)
      PROVE  UNCHANGED vars
  BY <1>4 DEF ConnectFails, DelayOver, AgentRestarts
<1>5. ASSUME NEW d \in Devices, NEW r \in Requests, MeshDispatch(d, r) PROVE Next
  BY <1>5 DEF MeshDispatch, Next, RequestNext
<1>6. ASSUME NEW r \in Requests, AgentExecutes(r) \/ AgentAnswers(r) \/ AnswerIgnored(r)
      PROVE  UNCHANGED vars
  BY <1>6 DEF AgentExecutes, AgentAnswers, AnswerIgnored
<1>7. ASSUME NEW r \in Requests, AnswerArrives(r) PROVE Next
  BY <1>7 DEF AnswerArrives, Next, ConnNext, MeshIInv, WorkOK
<1>8. CASE GatewayStep
  BY <1>8 DEF GatewayStep, GatewayAlone, Next, ConnNext, RequestNext
<1>9. CASE UNCHANGED meshVars
  BY <1>9 DEF meshVars
<1> QED
  BY <1>1, <1>2, <1>3, <1>4, <1>5, <1>6, <1>7, <1>8, <1>9 DEF MeshNext

\* The composition starts in a state of the invariant.
LEMMA MeshInitIInv == MeshInit => IInv /\ MeshIInv
<1> SUFFICES ASSUME MeshInit PROVE IInv /\ MeshIInv
  OBVIOUS
<1>1. IInv
  BY InitIInv DEF MeshInit
<1>2. MeshIInv
  BY DEF MeshInit, Init, MeshIInv, MeshTypeOK, WorkOK, RevocationsKnown, ExecutedAtMostOnce,
         OutcomeIsTruthful, ExitMeansRevoked, Refusals
<1> QED
  BY <1>1, <1>2

\* What a step of the gateway alone does to requests: it keeps their sockets,
\* and invents neither a result nor a refusal of a dispatched request.
LEMMA GatewayAloneFrame ==
    ASSUME IInv, GatewayAlone, NEW q \in Requests
    PROVE  /\ reqConn'[q] = reqConn[q]
           /\ outcome'[q] = "unused" => outcome[q] = "unused"
           /\ outcome'[q] = "result" => outcome[q] = "result"
           /\ outcome'[q] \in Refusals => outcome[q] \in Refusals \cup {"unused"}
<1> DEFINE Kept == /\ reqConn'[q] = reqConn[q]
                   /\ outcome'[q] = "unused" => outcome[q] = "unused"
                   /\ outcome'[q] = "result" => outcome[q] = "result"
                   /\ outcome'[q] \in Refusals => outcome[q] \in Refusals \cup {"unused"}
<1> USE DEF IInv, TypeOK, Refusals, sockVars, reqVars, storeVars
<1>1. ASSUME NEW c \in Conns, PeerCloses(c) \/ CloseEvent(c) PROVE Kept
  BY <1>1 DEF PeerCloses, CloseEvent, Settle
<1>2. ASSUME NEW r \in Requests, NEW d \in Devices, DispatchRefused(d, r) PROVE Kept
  BY <1>2 DEF DispatchRefused
<1>3. ASSUME NEW r \in Requests, SendFlushed(r) \/ SendFailed(r) \/ RequestTimeout(r) PROVE Kept
  BY <1>3 DEF SendFlushed, SendFailed, RequestTimeout, Settle
<1>4. ASSUME NEW d \in Devices, RevokeDevice(d) \/ RevokeDeviceUnsaved(d) PROVE Kept
  BY <1>4 DEF RevokeDevice, RevokeDeviceUnsaved, Disconnect, Settle
<1>5. CASE Sweep \/ Tick \/ Restart
  BY <1>5 DEF Sweep, Tick, Restart
<1> QED
  BY <1>1, <1>2, <1>3, <1>4, <1>5 DEF GatewayAlone

\* Every step of the composition keeps the invariant.
LEMMA MeshSafetyStep == IInv /\ MeshIInv /\ [MeshNext]_meshVars => MeshIInv'
<1> SUFFICES ASSUME IInv, MeshIInv, [MeshNext]_meshVars PROVE MeshIInv'
  OBVIOUS
<1>0. [Next]_vars /\ TypeOK /\ TypeOK'
  BY MeshStepIsGatewayStep, TypeStep DEF IInv
<1>r. \A c \in Conns : code'[c] = "revoked" => code[c] = "revoked" \/ DeviceOf[c] \in revoked'
  BY <1>0, RevokedCodeStep
<1> USE <1>0 DEF TypeOK, MeshTypeOK, WorkOK, RevocationsKnown, ExecutedAtMostOnce,
            OutcomeIsTruthful, ExitMeansRevoked, agentVars, workVars, sockVars, reqVars, storeVars
<1>1. ASSUME NEW c \in Conns, AgentConnects(c) PROVE MeshIInv'
  BY <1>1, <1>r DEF MeshIInv, AgentConnects, Upgrade
<1>2. ASSUME NEW c \in Conns, LateUpgrade(c) PROVE MeshIInv'
  BY <1>2, <1>r DEF MeshIInv, LateUpgrade, Upgrade
<1>3. ASSUME NEW c \in Conns, AgentMessage(c) PROVE MeshIInv'
  BY <1>3, <1>r DEF MeshIInv, AgentMessage, Heartbeat, MessageOfRevokedDevice
<1>4. ASSUME NEW c \in Conns, NEW how \in CloseCodes, AgentCloses(c, how) PROVE MeshIInv'
  BY <1>4 DEF MeshIInv, AgentCloses, Verdict, vars
<1>5. ASSUME NEW c \in Conns, AgentOpens(c) PROVE MeshIInv'
  BY <1>5 DEF MeshIInv, AgentOpens, vars
<1>6. ASSUME NEW d \in Devices, ConnectFails(d) \/ DelayOver(d) \/ AgentRestarts(d)
      PROVE  MeshIInv'
  BY <1>6 DEF MeshIInv, ConnectFails, DelayOver, AgentRestarts, vars
<1>7. ASSUME NEW d \in Devices, NEW r \in Requests, MeshDispatch(d, r) PROVE MeshIInv'
  BY <1>7, <1>r DEF MeshIInv, MeshDispatch, Dispatch, Online, Refusals
<1>8. ASSUME NEW r \in Requests, AgentExecutes(r) PROVE MeshIInv'
  BY <1>8 DEF MeshIInv, AgentExecutes, Received, vars, Refusals
<1>9. ASSUME NEW r \in Requests, AgentAnswers(r) \/ AnswerIgnored(r) PROVE MeshIInv'
  BY <1>9 DEF MeshIInv, AgentAnswers, Answerable, AnswerIgnored, vars
<1>10. ASSUME NEW r \in Requests, AnswerArrives(r) PROVE MeshIInv'
  BY <1>10, <1>r DEF MeshIInv, AnswerArrives, ExecuteResult, Settle, Refusals
<1>11. CASE GatewayStep
  <2>1. UNCHANGED <<process, current, peer, inbound, executing, outbound, executions>>
        /\ everRevoked' = everRevoked \cup revoked'
    BY <1>11 DEF GatewayStep
  <2>2. \A q \in Requests :
           /\ reqConn'[q] = reqConn[q]
           /\ outcome'[q] = "unused" => outcome[q] = "unused"
           /\ outcome'[q] = "result" => outcome[q] = "result"
           /\ outcome'[q] \in Refusals => outcome[q] \in Refusals \cup {"unused"}
    BY <1>11, GatewayAloneFrame DEF GatewayStep
  <2> QED
    BY <1>r, <2>1, <2>2 DEF MeshIInv
<1>12. CASE UNCHANGED meshVars
  BY <1>12 DEF MeshIInv, meshVars, vars
<1> QED
  BY <1>1, <1>2, <1>3, <1>4, <1>5, <1>6, <1>7, <1>8, <1>9, <1>10, <1>11, <1>12 DEF MeshNext

\* The invariants of the gateway and of the composition hold in every
\* reachable state of the composition.
THEOREM MeshSafety == MeshSpec => [](IInv /\ MeshIInv)
<1>1. IInv /\ MeshIInv /\ [MeshNext]_meshVars => (IInv /\ MeshIInv)'
  BY MeshStepIsGatewayStep, SafetyStep, MeshSafetyStep
<1> QED
  BY <1>1, MeshInitIInv, PTL DEF MeshSpec

\* The gateway with real agents is the gateway of AgentGateway: its theorems
\* hold of the composition.
THEOREM MeshImplementsGateway == MeshSpec => Spec
<1>1. MeshInit => Init
  BY DEF MeshInit
<1>2. MeshIInv /\ [MeshNext]_meshVars => [Next]_vars
  BY MeshStepIsGatewayStep
<1> QED
  BY <1>1, <1>2, MeshSafety, PTL DEF MeshSpec, Spec

\* Every variable of the agents keeps its type.
THEOREM MeshTypeCorrect == MeshSpec => []MeshTypeOK
  BY MeshSafety, PTL DEF MeshIInv

\* No operation is executed twice.
THEOREM RequestsExecuteAtMostOnce == MeshSpec => []ExecutedAtMostOnce
  BY MeshSafety, PTL DEF MeshIInv

\* A result means the operation was executed, a refusal that it was not.
THEOREM OutcomesAreTruthful == MeshSpec => []OutcomeIsTruthful
  BY MeshSafety, PTL DEF MeshIInv

\* An agent exits only after its device was revoked.
THEOREM ExitsMeanRevoked == MeshSpec => []ExitMeansRevoked
  BY MeshSafety, PTL DEF MeshIInv
=============================================================================
