----------------------------- MODULE AgentGateway -----------------------------
(***************************************************************************)
(* The control plane's end of the agent mesh: the WebSocket gateway of     *)
(* agent/gateway.ts, with the part of the state store that it consults     *)
(* (device revocation and its persistence).                                *)
(*                                                                         *)
(* The agents are the environment: any message may arrive on any socket    *)
(* that is not closed.  AgentMesh composes the gateway with the agent's    *)
(* own loop.                                                               *)
(*                                                                         *)
(* A socket authenticates with one device token for its whole life, so     *)
(* the identities of sockets are partitioned among the devices by the      *)
(* constant DeviceOf.  Payloads, limits and version strings are left out.  *)
(***************************************************************************)
EXTENDS Naturals

CONSTANTS Devices,      \* paired devices
          Conns,        \* identities of WebSocket connections
          Requests,     \* request ids (crypto.randomUUID)
          DeviceOf,     \* the device whose token a connection presents
          StaleTicks,   \* heartbeat window (90 s), in sweep periods (30 s)
          None          \* no connection

ASSUME DeviceOfAssumption == DeviceOf \in [Conns -> Devices]
ASSUME StaleTicksAssumption == StaleTicks \in Nat
ASSUME NoneAssumption == None \notin Conns

VARIABLES revoked,    \* devices with revoked_at set, in memory
          disk,       \* devices with revoked_at set, in the state file
          sock,       \* readyState of each socket on the server
          code,       \* close code the server sent on each socket
          age,        \* sweep periods since lastSeenAt, capped
          live,       \* the map live: device -> current connection
          pending,    \* the keys of the map pending
          timers,     \* requests whose timeout timer is armed
          unflushed,  \* requests whose ws.send callback has not run
          reqConn,    \* the connection each request was written to
          outcome,    \* the state of the promise of each request
          \* History variables, read by properties only
          confirmed,   \* revocations the admin console reported as done
          closedBefore, \* sockets already closed when a request was dispatched
          answeredBy   \* the socket that carried the answer of a request

sockVars == <<sock, code, age, live>>
reqVars == <<pending, timers, unflushed, reqConn, outcome, closedBefore, answeredBy>>
storeVars == <<revoked, disk, confirmed>>
vars == <<sockVars, reqVars, storeVars>>

SocketStates == {"none", "open", "closing", "closed"}
CloseCodes == {"none", "heartbeat_timeout", "superseded", "invalid_json", "revoked"}
Refusals == {"refused_offline", "refused_revoked"}
Settlements == {"result", "invalid_result", "timeout", "disconnected",
                "device_revoked", "send_error"}
Outcomes == {"unused", "waiting", "lost"} \cup Refusals \cup Settlements

-----------------------------------------------------------------------------
(* Helpers *)

Alive(c) == sock[c] \in {"open", "closing"}

RequestDevice(r) == DeviceOf[reqConn[r]]

PendingOf(d) == {r \in pending : RequestDevice(r) = d}

\* Mutant of Authenticated: the token is only checked at the upgrade.
AlwaysAuthenticated(d) == TRUE

\* authenticateDeviceToken: the token's device exists and is not revoked.
Authenticated(d) == d \notin revoked

\* The device's entry of live is an OPEN socket (also agentConnectionStatus).
Online(d) == \E c \in Conns : live[d] = c /\ sock[c] = "open"

\* ws.close(code): only an OPEN socket starts the closing handshake.
Close(S, why) ==
    /\ sock' = [c \in Conns |-> IF c \in S /\ sock[c] = "open" THEN "closing" ELSE sock[c]]
    /\ code' = [c \in Conns |-> IF c \in S /\ sock[c] = "open" THEN why ELSE code[c]]

\* clearTimeout, pending.delete and the promise's resolve or reject, for every
\* request of S.  A promise that is already settled keeps its outcome.
Settle(S, how, by) ==
    /\ pending' = pending \ S
    /\ timers' = timers \ S
    /\ outcome' = [r \in Requests |->
                      IF r \in S /\ outcome[r] = "waiting" THEN how ELSE outcome[r]]
    /\ answeredBy' = [r \in Requests |-> IF r \in S THEN by ELSE answeredBy[r]]
    /\ UNCHANGED <<unflushed, reqConn, closedBefore>>

\* touchDeviceHeartbeat of a device that is not revoked: persist() writes the
\* whole state, so it also saves a revocation whose own write failed.
SaveState == disk' = revoked

-----------------------------------------------------------------------------
Init ==
    /\ revoked = {} /\ disk = {} /\ confirmed = {}
    /\ sock = [c \in Conns |-> "none"]
    /\ code = [c \in Conns |-> "none"]
    /\ age = [c \in Conns |-> 0]
    /\ live = [d \in Devices |-> None]
    /\ pending = {} /\ timers = {} /\ unflushed = {}
    /\ reqConn = [r \in Requests |-> None]
    /\ outcome = [r \in Requests |-> "unused"]
    /\ closedBefore = [r \in Requests |-> {}]
    /\ answeredBy = [r \in Requests |-> None]

-----------------------------------------------------------------------------
(* Connections *)

\* Mutant of Superseded: the previous socket is left open.
NothingSuperseded(d) == {}

\* The socket an upgrade of the device closes.
Superseded(d) == {c \in Conns : live[d] = c /\ sock[c] = "open"}

\* An authenticated upgrade: the device's previous OPEN socket is closed as
\* superseded and the new one takes its place in live.
Upgrade(c) ==
    LET d == DeviceOf[c] IN
    /\ sock[c] = "none"
    /\ Authenticated(d)
    /\ sock' = [x \in Conns |-> IF x = c THEN "open"
                                ELSE IF x \in Superseded(d) THEN "closing"
                                ELSE sock[x]]
    /\ code' = [x \in Conns |-> IF x \in Superseded(d) THEN "superseded" ELSE code[x]]
    /\ live' = [live EXCEPT ![d] = c]
    /\ age' = [age EXCEPT ![c] = 0]
    /\ SaveState
    /\ UNCHANGED <<revoked, confirmed, reqVars>>

\* A message on a socket whose device has been revoked.
MessageOfRevokedDevice(c) ==
    /\ Alive(c)
    /\ ~Authenticated(DeviceOf[c])
    /\ Close({c}, "revoked")
    /\ UNCHANGED <<age, live, reqVars, storeVars>>

\* A message that is not a JSON object.
InvalidJson(c) ==
    /\ Alive(c)
    /\ Authenticated(DeviceOf[c])
    /\ Close({c}, "invalid_json")
    /\ UNCHANGED <<age, live, reqVars, storeVars>>

\* A hello or heartbeat message.
Heartbeat(c) ==
    /\ Alive(c)
    /\ Authenticated(DeviceOf[c])
    /\ age' = [age EXCEPT ![c] = 0]
    /\ SaveState
    /\ UNCHANGED <<revoked, confirmed, sock, code, live, reqVars>>

\* Mutant of Answers: any device may answer any request.
AnswersAny(c, r) == r \in pending

\* The request is pending and was sent to the device this socket belongs to.
Answers(c, r) == r \in pending /\ RequestDevice(r) = DeviceOf[c]

\* An execute_result message.  Any socket of the device may carry it; one that
\* answers no request is ignored.
ExecuteResult(c, r, wellFormed) ==
    /\ Alive(c)
    /\ Authenticated(DeviceOf[c])
    /\ Answers(c, r)
    /\ Settle({r}, IF wellFormed THEN "result" ELSE "invalid_result", c)
    /\ age' = [age EXCEPT ![c] = 0]
    /\ UNCHANGED <<sock, code, live, storeVars>>

\* The peer starts the closing handshake, or the transport fails: the socket
\* is no longer OPEN but its close event has not fired.
PeerCloses(c) ==
    /\ sock[c] = "open"
    /\ sock' = [sock EXCEPT ![c] = "closing"]
    /\ UNCHANGED <<code, age, live, reqVars, storeVars>>

\* rejectPendingForDevice in the close handler: every request of the device.
RejectedByClose(c) == PendingOf(DeviceOf[c])

\* The close event.  The entry of live is removed only if it is this socket's.
CloseEvent(c) ==
    LET d == DeviceOf[c] IN
    /\ sock[c] = "closing"
    /\ sock' = [sock EXCEPT ![c] = "closed"]
    /\ live' = IF live[d] = c THEN [live EXCEPT ![d] = None] ELSE live
    /\ Settle(RejectedByClose(c), "disconnected", None)
    /\ UNCHANGED <<code, age, storeVars>>

\* Mutants of SweepVerdict: a revoked connection is skipped without being
\* closed; the heartbeat window is not checked; a silent agent is told it has
\* been revoked.
SweepSkippingRevoked(c) ==
    IF Authenticated(DeviceOf[c]) /\ age[c] > StaleTicks THEN "heartbeat_timeout" ELSE "none"

SweepOfRevoked(c) ==
    IF ~Authenticated(DeviceOf[c]) THEN "revoked" ELSE "none"

\* The code with which the sweep closes a connection of live, if it does.
SweepVerdict(c) ==
    IF ~Authenticated(DeviceOf[c]) THEN "revoked"
    ELSE IF age[c] > StaleTicks THEN "heartbeat_timeout"
    ELSE "none"

\* One run of the 30 s interval over the connections in live.
Sweep ==
    LET closes(c) == /\ live[DeviceOf[c]] = c
                     /\ sock[c] = "open"
                     /\ SweepVerdict(c) # "none"
    IN  /\ sock' = [c \in Conns |-> IF closes(c) THEN "closing" ELSE sock[c]]
        /\ code' = [c \in Conns |-> IF closes(c) THEN SweepVerdict(c) ELSE code[c]]
        /\ UNCHANGED <<age, live, reqVars, storeVars>>

\* A sweep period goes by.
Tick ==
    /\ age' = [c \in Conns |-> IF Alive(c) /\ age[c] <= StaleTicks THEN age[c] + 1
                               ELSE age[c]]
    /\ UNCHANGED <<sock, code, live, reqVars, storeVars>>

-----------------------------------------------------------------------------
(* Requests *)

\* dispatchAgentOperation that throws before a request exists.
DispatchRefused(d, r) ==
    /\ outcome[r] = "unused"
    /\ ~(Online(d) /\ Authenticated(d))
    /\ outcome' = [outcome EXCEPT ![r] = IF Online(d) THEN "refused_revoked"
                                        ELSE "refused_offline"]
    /\ UNCHANGED <<sockVars, pending, timers, unflushed, reqConn, closedBefore, answeredBy, storeVars>>

\* Mutant of ArmTimer: no timer.
NoTimer(r) == UNCHANGED timers

\* setTimeout, at most 121 s.
ArmTimer(r) == timers' = timers \cup {r}

\* dispatchAgentOperation that registers the request, arms its timer and
\* writes it to the device's socket.
Dispatch(d, r) ==
    /\ outcome[r] = "unused"
    /\ Online(d)
    /\ Authenticated(d)
    /\ ArmTimer(r)
    /\ pending' = pending \cup {r}
    /\ unflushed' = unflushed \cup {r}
    /\ reqConn' = [reqConn EXCEPT ![r] = live[d]]
    /\ outcome' = [outcome EXCEPT ![r] = "waiting"]
    /\ closedBefore' = [closedBefore EXCEPT ![r] =
                            {c \in Conns : DeviceOf[c] = d /\ sock[c] = "closed"}]
    /\ UNCHANGED <<sockVars, answeredBy, storeVars>>

\* The send callback without an error.
SendFlushed(r) ==
    /\ r \in unflushed
    /\ unflushed' = unflushed \ {r}
    /\ UNCHANGED <<sockVars, pending, timers, reqConn, outcome, closedBefore, answeredBy, storeVars>>

\* The send callback with an error; the request may have been settled before.
SendFailed(r) ==
    /\ r \in unflushed
    /\ unflushed' = unflushed \ {r}
    /\ timers' = timers \ {r}
    /\ pending' = pending \ {r}
    /\ outcome' = [outcome EXCEPT ![r] = IF @ = "waiting" THEN "send_error" ELSE @]
    /\ UNCHANGED <<sockVars, reqConn, closedBefore, answeredBy, storeVars>>

\* The timer of a request fires.
RequestTimeout(r) ==
    /\ r \in timers
    /\ Settle({r}, "timeout", None)
    /\ UNCHANGED <<sockVars, storeVars>>

-----------------------------------------------------------------------------
(* Revocation and failure *)

\* Mutants of Disconnect: the entry of live stays until the close event; the
\* rejected requests are reported as disconnected.
DisconnectKeepingEntry(d) ==
    /\ Close({live[d]}, "revoked")
    /\ Settle(PendingOf(d), "device_revoked", None)
    /\ UNCHANGED live

\* disconnectAgentDevice.
Disconnect(d) ==
    /\ Close({live[d]}, "revoked")
    /\ live' = [live EXCEPT ![d] = None]
    /\ Settle(PendingOf(d), "device_revoked", None)

\* The admin route: revokeDevice saves the revocation, then the device is
\* disconnected.
RevokeDevice(d) ==
    /\ revoked' = revoked \cup {d}
    /\ disk' = revoked'
    /\ confirmed' = confirmed \cup {d}
    /\ Disconnect(d)
    /\ UNCHANGED age

\* The same route when persist() throws: the flag is set in memory, the
\* exception skips disconnectAgentDevice and the admin sees an error.
RevokeDeviceUnsaved(d) ==
    /\ revoked' = revoked \cup {d}
    /\ UNCHANGED <<disk, confirmed, sockVars, reqVars>>

\* The process stops and starts again: maps, timers and sockets are gone and
\* the devices are read back from the state file.  A persist() that throws in
\* a socket handler is uncaught and is one of the causes.
Restart ==
    /\ revoked' = disk
    /\ sock' = [c \in Conns |-> IF Alive(c) THEN "closed" ELSE sock[c]]
    /\ live' = [d \in Devices |-> None]
    /\ pending' = {} /\ timers' = {} /\ unflushed' = {}
    /\ outcome' = [r \in Requests |-> IF outcome[r] = "waiting" THEN "lost" ELSE outcome[r]]
    /\ UNCHANGED <<code, age, disk, confirmed, reqConn, closedBefore, answeredBy>>

-----------------------------------------------------------------------------
ConnNext(c) ==
    \/ Upgrade(c)
    \/ MessageOfRevokedDevice(c)
    \/ InvalidJson(c)
    \/ Heartbeat(c)
    \/ \E r \in Requests, wellFormed \in BOOLEAN : ExecuteResult(c, r, wellFormed)
    \/ PeerCloses(c)
    \/ CloseEvent(c)

RequestNext(r) ==
    \/ \E d \in Devices : DispatchRefused(d, r) \/ Dispatch(d, r)
    \/ SendFlushed(r)
    \/ SendFailed(r)
    \/ RequestTimeout(r)

Next ==
    \/ \E c \in Conns : ConnNext(c)
    \/ \E r \in Requests : RequestNext(r)
    \/ \E d \in Devices : RevokeDevice(d) \/ RevokeDeviceUnsaved(d)
    \/ Sweep
    \/ Tick
    \/ Restart

Spec == Init /\ [][Next]_vars

\* Timers fire, the sweep interval runs, and ws completes a closing handshake
\* or destroys the socket after its own 30 s timer.  Nothing is assumed of
\* the agents, of the administrator or of restarts.
Fairness ==
    /\ \A r \in Requests : WF_vars(RequestTimeout(r))
    /\ \A c \in Conns : WF_vars(CloseEvent(c))
    /\ WF_vars(Sweep)
    /\ WF_vars(Tick)

FairSpec == Spec /\ Fairness

-----------------------------------------------------------------------------
(* Properties *)

\* The values each variable takes.
TypeOK ==
    /\ revoked \subseteq Devices /\ disk \subseteq Devices /\ confirmed \subseteq Devices
    /\ sock \in [Conns -> SocketStates]
    /\ code \in [Conns -> CloseCodes]
    /\ age \in [Conns -> 0 .. StaleTicks + 1]
    /\ live \in [Devices -> Conns \cup {None}]
    /\ pending \subseteq Requests /\ timers \subseteq Requests /\ unflushed \subseteq Requests
    /\ reqConn \in [Requests -> Conns \cup {None}]
    /\ outcome \in [Requests -> Outcomes]
    /\ closedBefore \in [Requests -> SUBSET Conns]
    /\ answeredBy \in [Requests -> Conns \cup {None}]

\* A caller of dispatchAgentOperation that still waits is exactly one whose
\* request is in the pending map with an armed timer: no settled request
\* leaks an entry or a timer, no waiting one has lost its way to be settled.
WaitersTracked ==
    /\ pending = {r \in Requests : outcome[r] = "waiting"}
    /\ timers = pending

\* A socket that is OPEN is the one live holds for its device, so two OPEN
\* sockets never serve one device (superseding, late close events, sweeps and
\* revocation notwithstanding).
OpenSocketIsLive ==
    \A c \in Conns : sock[c] = "open" => live[DeviceOf[c]] = c

\* "A disconnected or revoked agent fails closed": a request stays pending only while
\* the socket it was written to has not closed.
PendingSocketAlive ==
    \A r \in pending : reqConn[r] \in Conns /\ Alive(reqConn[r])

\* A revocation the admin console confirmed holds for good: it survives
\* restarts, and leaves the device without an open socket, an entry in live
\* or a pending request.
ConfirmedRevocation ==
    \A d \in confirmed :
        /\ d \in revoked \cap disk
        /\ live[d] = None
        /\ PendingOf(d) = {}
        /\ \A c \in Conns : DeviceOf[c] = d => sock[c] # "open"

\* "agent_disconnected" is reported only when a socket of the request's device
\* closed after the request was dispatched.  It need not be the socket the
\* request was written to: the late close event of a superseded socket rejects
\* the requests of its successor.
DisconnectHasCause ==
    \A r \in Requests : outcome[r] = "disconnected" =>
        \E c \in Conns : /\ DeviceOf[c] = RequestDevice(r)
                         /\ sock[c] = "closed"
                         /\ c \notin closedBefore[r]

\* A request is answered only by a socket of the device it was sent to, and
\* one that was answered well is never reported otherwise.
ResultFromOwnDevice ==
    \A r \in Requests :
        /\ outcome[r] \in {"result", "invalid_result"} <=> answeredBy[r] # None
        /\ answeredBy[r] # None => DeviceOf[answeredBy[r]] = RequestDevice(r)

\* Strengthening that makes the invariants above inductive: an entry of live is
\* a socket of that device which has not closed, and sockets recorded as
\* closed stay closed.
Bookkeeping ==
    /\ \A d \in Devices : live[d] # None => DeviceOf[live[d]] = d /\ Alive(live[d])
    /\ \A r \in Requests : \A c \in closedBefore[r] : sock[c] = "closed"

IInv ==
    /\ TypeOK
    /\ WaitersTracked
    /\ OpenSocketIsLive
    /\ PendingSocketAlive
    /\ ConfirmedRevocation
    /\ DisconnectHasCause
    /\ ResultFromOwnDevice
    /\ Bookkeeping

\* "Device revocation is checked centrally before every dispatch": no step
\* makes a revoked device's request pending or resolves one with a result,
\* even when the revocation could not be saved.
RevokedFailsClosed ==
    [][\A r \in Requests :
          (outcome'[r] # outcome[r] /\ outcome'[r] \in {"waiting", "result"}) =>
              DeviceOf[reqConn'[r]] \notin revoked]_vars

\* Close code 4003, which makes an agent stop for good, is only ever sent to a
\* revoked device.
RevokedCodeIsHonest ==
    [][\A c \in Conns : (code'[c] = "revoked" /\ code[c] # "revoked") =>
          DeviceOf[c] \in revoked']_vars

\* Every dispatched request settles, whatever the agent does.
RequestsSettle ==
    \A r \in Requests : (outcome[r] = "waiting") ~> (outcome[r] # "waiting")

\* A revoked device loses its sockets even if disconnectAgentDevice was
\* skipped: the sweep finds them (unless a restart undoes the revocation).
RevokedSocketsClose ==
    \A c \in Conns : (DeviceOf[c] \in revoked /\ sock[c] = "open")
                        ~> (sock[c] = "closed" \/ DeviceOf[c] \notin revoked)

\* A socket that stays silent is closed: it never occupies live for ever.
SilentSocketCloses ==
    \A c \in Conns : (sock[c] = "open" /\ age[c] > StaleTicks)
                        ~> (sock[c] = "closed" \/ age[c] = 0)
=============================================================================
