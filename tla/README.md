# Verification of Remote Ops MCP

Remote Ops MCP is a control plane (an MCP server with OAuth and an admin
console) that operates hosts over SSH, through Portainer and Docker, and above
all through the *agent mesh*: agents that dial out to the control plane over a
WebSocket and execute typed operations. Root actions on a host need an approval,
a signed ticket and a root broker on the host.

This directory holds TLA+ modules for the parts of it that keep state and
interact, TLC configurations that check them on small instances, and proofs,
checked by TLAPS, of what matters most for instances of every size. Paths below
are relative to the repository.

    tlc -workers 2 -config MCPairing.cfg MCPairing     # a run
    tlapm PairingProofs.tla                            # the proofs of a module

## 1. The system

| Part | State | Operations | Hard because |
|---|---|---|---|
| Agent gateway, `src/agent/gateway.ts` | maps `live` and `pending`, timers, sockets | upgrade, message, close event, sweep, dispatch, timeout, disconnect | callbacks of several sockets of a device in any order; results, errors and timers race; revocation while connected |
| State store: devices and pairings, `src/state/store.ts` | one object in memory, one file written whole | create, approve, claim, touch, revoke, purge, load | a write may fail after memory changed; restarts; limits checked early and used late |
| State store: clients, codes, sessions, usage, target controls | same file | put, consume, rotate, revoke, purge | rotation and revocation across requests |
| Agent, `src/agent/cli.ts` | current socket, backoff delay, operations in flight | pair, connect, execute, answer, reconnect | answers of old sockets, close codes, restarts |
| Agent operations and bridges, `src/agent/operations.ts`, `openhands.ts`, `deepharness.ts` | none of their own | run a program, call a broker or a service | a request that was given up on is carried out all the same |
| Managed-admin approvals, `src/config/managed-admin-approvals.ts` | map `approvals` | prepare, apply, purge | time between preparing and applying; the target changes meanwhile |
| Root broker, `src/privileged/managed-admin-broker.ts` | replay file | validate, consume nonce, execute | replays, crashes between steps, clocks that differ |
| OAuth server, `src/auth/oauth.ts` | in the state store | register, authorize, token, refresh, revoke | single-use codes, refresh rotation |
| Target registry and its approvals, `src/config/targets.ts`, `target-approvals.ts`, `capability-baseline.ts`, `deepharness-read-approval.ts` | two files, the registry in memory, maps of approvals | prepare and apply changes | two files and a memory that can differ; stale approvals against a changed registry |
| DeepHarness grants, `integrations/deepharness/persistent-grant-store.mjs`, `semantic-policy.mjs` | grant file, queue, fault flag | put, revoke, look up, commit | a commit that awaits while revocations queue; failed writes |
| DeepHarness relay and bridge, `integrations/deepharness/*` | sockets, correlation | connect, forward, time out | late and duplicate answers |
| Execution broker, `src/exec/broker.ts` | sessions, output buffers | start, write, read, kill, expire | capacity, output offsets, exit races |
| SSH pool, `src/ssh/pool.ts` | a link, a semaphore and its queue per target | connect, exec, time out, close, sweep | concurrent first use; events of links that were replaced |
| Docker proxies, `src/docker/*` | none (candidate runs on the host) | create, start, roll back | partial failure of a sequence |
| Portainer client, `src/portainer/client.ts` | the cached API key | chains of HTTP requests | read, then write back what was read; late requests |
| Tools and MCP server, `src/tools/index.ts`, `src/server/mcp.ts` | counts of calls in the state store | check, run, count, answer | a failed write after the effect; a target checked once and used several times |
| Transport, audit, redaction, paths, quoting | none, or a log | validate, record | |
| Admin console, `src/admin/*` | in the state store | revoke, approve, enable | order of persisting and disconnecting |

**How they interact.** A tool call reaches `dispatchAgentOperation`, which
writes a request to the socket in `live`; the agent executes it and answers on
the socket the request came from; the gateway resolves the caller's promise.
Devices enter the store through pairing: the agent starts one, an administrator
approves its code, the agent claims it and gets a credential, with which it
connects to the gateway. The console revokes a device in the store and then
disconnects it in the gateway. For a root action the control plane keeps an
approval, turns it into a signed ticket, and the mesh carries the ticket to the
root broker of the device. The console also grants an OAuth session access to
a DeepHarness Lead; the grant store keeps the grants, and reads and instructions
pass the semantic policy, the store and a bridge to DeepHarness.

**What makes them correct.** Requests settle, once, with an answer of their own
device, and run at most once. Revocation fails closed and is lasting. Devices
come from approvals in time; the credential of the claim that saved it is kept;
limits bound what they are meant to bound. An approval is used by its actor and
in time, its program starts at most once, and not long after the target stopped
allowing it. A grant that
was replaced or revoked is never current again; an instruction is recorded
before it is sent, admitted with that payload only, and acknowledged only when
it was admitted. A code opens one session, a rotated refresh token stays dead,
and a client keeps its session unless a refresh of its own failed or the console
took it away. A target has as many SSH commands as it has slots, no slot is lost,
and a target that was confirmed to be off stays off and admits no new call. What a
call answers, and is counted as, is no more than what was done. A reader of a
session's output gets every character once and in turn. The registry serves what
an apply confirmed, containers are read where that was granted, and a device is
sent what its approval allows.

The hazards behind these are listed, each at its line, in `PROJECT.json`.

## 2. Modules

| Module | Models | Checked by | Proved in |
|---|---|---|---|
| `AgentGateway` | the gateway and the revocation flag of the store | `MCAgentGateway` | `AgentMeshProofs` |
| `AgentMesh` | the gateway composed with the agents' loops | `MCAgentMesh` | `AgentMeshProofs` |
| `Pairing` | devices and pairings of the store, its file | `MCPairing` | `PairingProofs` |
| `ManagedAdmin` | approvals, tickets and root brokers | `MCManagedAdmin` | `ManagedAdminProofs` |
| `SingleUseApproval` | what the managed-admin flow promises (abstract) | refined by `ManagedAdmin` | `ManagedAdminProofs` |
| `GrantStore` | the grant store with the policy and the bridge backend that call it | `MCGrantStore` | `GrantStoreProofs` |
| `LeadDelivery` | what the store promises of every instruction (abstract) | refined by `GrantStore` | `GrantStoreProofs` |
| `OAuth` | the OAuth server, its part of the store and the console's revocations | `MCOAuth` | `OAuthProofs` |
| `SessionLife` | what the OAuth server promises of its sessions (abstract) | refined by `OAuth` | `OAuthProofs` |
| `SshPool` | the pool of one target | through `ToolCalls` | `ToolCallsProofs` |
| `Portainer` | the Portainer client, its requests on the wire, the stacks | through `ToolCalls` | `ToolCallsProofs` |
| `ToolCalls` | the handler of tool calls, target controls and counts, composed with `SshPool` and `Portainer` | `MCToolCalls` | `ToolCallsProofs` |
| `AgentOperations` | an agent's operations with the Docker proxy, the daemon and OpenHands | `MCAgentOperations` | `AgentHostProofs` |
| `ExecBroker` | the execution broker and its readers | `MCExecBroker` | `AgentHostProofs` |
| `Targets` | the target registry, its approvals, and what tools send to a target's device | `MCTargets` | `TargetsProofs` |

### AgentGateway

`live`, `pending` and `timers` are the maps and timers of the code; `sock` is
the server's `readyState` of each connection and `code` the close code the
server sent. The promise of a request is `outcome`. One action stands for each
callback: `Upgrade`, the message handler's branches (`MessageOfRevokedDevice`,
`InvalidJson`, `Heartbeat`, `ExecuteResult`), `CloseEvent`, `Sweep`, the timer
(`RequestTimeout`), the send callback (`SendFlushed`, `SendFailed`), and
`Dispatch` with its early returns (`DispatchRefused`). Node runs one callback at
a time, so each is atomic. `ws` is external: a close is a handshake, so an OPEN
socket becomes closing at once and closed by a later event, and messages still
arrive in between. `RevokeDevice` is the admin route; `RevokeDeviceUnsaved` is
the same route when `persist()` throws. `age` counts sweep periods since
`lastSeenAt`, capped just above the 90 s window.

### AgentMesh

Extends the gateway with the loop of `runPersistent`: the connection it is on
(`current`), the agent's own view of it (`peer`), requests on their way
(`inbound`), in execution (`executing`) and answered (`outbound`). The network
delays anything and may lose a connection at either end first; an upgrade the
agent has given up on may still be accepted (`LateUpgrade`). Agents are honest
and there is one per device.

### Pairing

The store exists twice: `mem` and `disk`. Every mutation ends in `Save(saved)`,
which either writes all of memory or throws (`saved` is FALSE) after memory has
changed. `Restart` loads the file and purges without saving. Codes are drawn
from a small set, so that collisions happen.

### ManagedAdmin

One target whose device and allowlist change at any time (`Reconfigure`), the
map of approvals, the tickets issued, and a broker per device with its own clock
(`Offset`). A ticket may be presented to any broker, any number of times.
`Validate`, `Consume` and `Start` are the broker's steps with a possible crash
after each; the broker is single-threaded, so one request is in progress at a
time, but it may stall between the clock readings of `validateLocalAuthority`
and `consumeNonce`, for at most `MaxStall`.

`allowedAt` is history: per approval, the last moment at which the target allowed
its action while the approval was open. `Apply` looks at the target once, and the
ticket then lives on without it, so a withdrawal can only take hold with a delay;
`WithdrawalTakesHold` bounds the delay at the broker, `RunsWithinAuthority` the one
since the preparation.

`SingleUseApproval` says what all this is for: an approval is prepared, then
granted or dropped, and a granted one is executed at most once.
`ImplementsSingleUse` is the refinement; an approval is `executed` when a
ticket of it has run.

### GrantStore

`mem` and `disk` are the store's state and its file, `faulted` its flag.
`serialize` is `queue`: a call runs when it is at the head (`Turn`) and no
commit is awaiting DeepHarness (`commit`, with `phase` for how far its `submit()`
is). `Save` has the three ways `persistFile` ends: saved, thrown before the
rename, thrown after it; in the last case the file is new and memory old.
`SendLeadInstruction` looks the grant up outside the queue and queues the commit
under the revision it found; `CommitRefused`, `CommitDuplicate`, `CommitBegin`
and `CommitRetry` are what `withAuthorizedLeadCommit` does at its turn, and
`CommitFinish` what follows the await. `ReadStart` and `ReadReturns` are the two
halves of `readTeam` and `readChat`. DeepHarness is external: prompts in
`inflight` are admitted or lost at any time, and only the first prompt with a
request id counts. An id stands for caller, workspace and Lead, and a payload
for its hash.

`LeadDelivery` keeps, per slot (id and key), a record and what was admitted.
`ImplementsLeadDelivery` maps the record to the delivery in the file, not in
memory: what the store promises must survive a restart.

### OAuth

`mem` and `disk` are the state in memory and its file. A handler changes memory
and then calls `persist()`: `Save` writes both, `SaveFails` is the throw, after
which the next write that succeeds saves the change all the same and `Restart`
loses it. An exchange is two such writes, the deletion of the code and the
creation of the session, with a stop possible in between; a refresh saves the
new token before the resource is checked and the answer is written. Random ids
and tokens are never drawn twice (`drawn`, `minted`); the n-th refresh token of
session `s` is `<<s, n>>`, and only tokens in `sent`, which some answer carried,
can be presented. Deadlines are not counted: a code, an access token or a
session may expire at any moment, and stays expired. `confirmed`, `upset` and
`spent` are history: what the console was told is revoked, which sessions saw a
refusal or a failure, which codes opened a session. `Holds(s, n)` is the client's
side: it was given the n-th token of `s` last, and in time. `ClientKeepsSession`
says that the session of such a client is there, in memory and in the file, with
that token.

`SessionLife` says what all this is for: a code opens one session, of its own
client; a refresh token is answered for the newest one of its session; only the
newest is accepted; and what the owner was told is revoked has no access again.
`ImplementsSessionLife` maps what was answered (`sent`), the tokens a refresh
would accept (`Accepted`) and the sessions that get through to the MCP routes
(`Through`). Access itself comes and goes in the abstract specification: a session
expires, and a revocation whose write failed is undone by a restart, neither of
which breaks a promise.

### SshPool, Portainer, ToolCalls

`SshPool` is the pool's entry for one target: the link in the map, the free
slots and the queue of the semaphore, the states of the links, and where each
job is (`dialling`, `opening` a channel, `running`, `closing`). The handlers of a
link capture the key of the map, not the link, so the events of any link of the
target change the entry (`KeepsPool`, `WithPool`); `Left` hands a slot to the
first waiter in the same microtask, as the code does. `ssh2` is external: a link
becomes ready, fails, times out or closes at any time.

`Portainer` has a chain of two or three requests per operation (`look`, `file`,
`change`), the requests on the `wire`, and the stacks of the server.
`GiveUp` is the timeout of a request, which leaves it on the wire to be served
late; `RotateKey` makes the cached key stale; `EditOutside` is an edit by
somebody else. Stack ids are never used again. Portainer itself is external:
it serves, refuses or loses what is on the wire in any order.

`ToolCalls` extends both. A call checks once that its target is enabled, runs its
commands or one Portainer operation, and is counted before it is answered: in
`Finish` a state file that cannot be written turns an ok into an error and counts
the call twice. Commands come in rounds: those of one round are started together
and awaited together, as `host_status`, `runtime_summary` and the file tools do (two
stand for more). `reads` says what the tool makes of what they print: "any" outcome
will do (each has a catch), the tool may throw when all are back ("tried"), it needs
their exit codes ("exit"), or it may also deny the call for what they print
("allowed"): the path that `realpath` resolved is outside the allowlist
(`security/paths.ts:13-20`), or docker says that the user is not in its group
(`dockerAccessError`, `tools/index.ts:89-97`). So a call may be denied after a command
ran, and answered ok with none started: every command of `runtime_summary` can fail,
and `target_status` or a `docker_list` without containers asks nobody
(`AnswerAtOnce`). A rejection that nothing catches throws at once while the other
command goes on.

`Revoke` and `Enable` are the routes of the console with their failed writes,
`Crash` stops the control plane and loads the file. `told` says that the last
revocation was answered; `ran` are the commands that were started.

### AgentOperations

An operation is a chain of requests: `exec` finds the container, prepares, starts
and inspects an exec; `run` creates a candidate and starts it, and undoes the
creation when the start is refused. Chains of the Docker proxy go on when the
agent has given up, because the proxy never looks at its caller's connection;
chains of the agent (OpenHands, a local command) end with its patience. In both a
request that broke off may take effect later (`late`). A candidate has a name,
which Docker gives to one container at a time, and an id, the job that created it:
an undo goes by id, a removal by name. A `docker_action` may start or stop
whatever has the name, between another job's create and start as well, and a
candidate may end by itself (`Ends`): the run's own start then finds it running,
Docker answers 304, and the proxy takes that for a failure (`read-proxy.ts:279`)
and undoes the creation by force. `Possible` says what the proxy takes for done.
`AgentRestart` and `ProxyRestart` cut chains anywhere.

### ExecBroker

The broker answers a request without waiting, so a request is one step. A
session is `alive`, `dead` (the child is gone, its pipes are held by a
descendant), `exited`, `closed`; it is active until the close event. The window
holds the characters `lo + 1 .. hi`; a character stands for a byte. A reader
goes on from the `next_offset` it was given, as the tool tells its caller to.
Reaping, killing, input, the workspace's files and the restart of the service,
which kills the children with it, are actions.

### Targets

A dynamic target is its preset, its device and whether it was granted the
reading of containers; `static` is the operator's file, as far as its ids clash
with dynamic ones and as it can be read; `file` the dynamic file, `memory` the
registry both are loaded into. `Apply` writes the file and loads the registry
again, either of which may throw. A tool resolves its target once (`CallTool`) and
then sends its device the operations of `Operations(tool, t)` one by one
(`Send`), so a target may change in between, to another preset or another device;
`SentTo` is the device the operations go to. An approval is `open` until it is
applied or expires; what it was for is remembered. `served` is history: what the
owner, from the answers, may take a target to be.

`RuledOut` is what the summary of an approval rules out, Docker and the file system
included. `Beyond` names what the code sends all the same, for every target that is
not semantic (section 4). `WithinApproval` says that nothing else that was ruled out
is sent, and that what is sent goes to the device of an apply that its caller may
rely on.

## 3. Runs

| Run | Instance | Shows |
|---|---|---|
| `gateway` | 2 devices with a connection each, one request, fair | no device answers for another; a confirmed revocation is lasting and complete, and fails closed; requests settle; revoked and silent sockets close |
| `mesh` | one device, 2 connections, one request, fair | an open socket can be reached; outcomes are truthful; an agent exits only if revoked, and otherwise reconnects |
| `pairing` | 3 pairings, 3 devices, 2 codes, limits 1 and 2, clock to 3 | capacity; one device per pairing; the credential of the claim that saved it is kept |
| `managed_admin` | 2 approvals, 2 nonces, 2 actors, 2 programs, 2 brokers with clocks 1 ahead and 1 behind | actor-bound, timely, at most one run; a withdrawal by the target takes hold; the refinement |
| `grant_store` | 2 ids, 2 keys, 2 payloads, limits of 1 grant and 1 delivery, 4 calls, fair | ended revisions stay ended; receipts are true; no late reads; the file can be loaded; the refinement; no call is blocked for ever |
| `grant_store_admitted` | 1 id, 1 key, 1 payload, 3 calls | **violated**: a revocation can run before a prompt is admitted |
| `oauth` | 2 clients against a limit of 1, 2 codes, 2 sessions, 2 refresh tokens each | a rotated token is dead; a client that holds the last token of its session keeps it, unless its own refresh failed or the console took it; what was revoked stays out; the refinement |
| `tool_calls` | 3 calls, 3 commands, 6 plans, 2 slots, 2 links, one stack with 2 variables, one edit outside, one fault | slots are accounted for; the pooled link is up; answers and counts are honest; a confirmed revocation stays, and admits no new call; Portainer loses a change only to a stale read |
| `agent_operations` | 3 operations, 6 menus of kinds, 2 faults | answers match effects; a leftover candidate has a cause; a clean-up takes only the candidate that its own job created and did not start |
| `exec_broker` | 3 sessions against a limit of 2, 2 readers, windows of 2, 4 characters written | the limit holds; readers get characters in turn |
| `exec_reader` | 1 session, 1 reader | **violated**: a reader is told that there is no more while there is |
| `targets` | 2 approvals, one actor, 2 ids, 2 devices, one call | the registry serves what was applied; containers are read only where that was granted; a device is sent what approvals do not rule out, but for three kinds of command |

**Bounds.** Two connections of a device are what superseding and a late close
event need; two devices are what a confusion of devices needs. Three pairings
overrun a limit of two pending, and a device more than `MaxDevices`. Two ids
against a limit of one grant, and two keys against one delivery, reach the limits
of the grant file; four calls are a grant, an instruction, a change of the grant
and a retry. Two clients against a limit of one make registration evict; two
refresh tokens are one rotation, which is what a stale token needs. Three calls on
two slots make one wait; two links are what a double dial needs, and a single
fault is a failed write or a crash anywhere. The six plans of `MCToolCalls` are a
round of every sort against another call: commands one after another and at the
same time, that may fail, must not, or may deny the call; the probe of the
console; a call that asks nobody; and concurrent changes of one stack. The six
menus of `MCAgentOperations` set two candidates that want the name against a
removal, and one against those who start, stop and remove it. Two faults of
`agent_operations` are one request that breaks off and one restart or second
break, so that an undo can fail as well. Three sessions overrun a limit of two;
four characters in a window of two cut it twice. Two approvals for two ids on two
devices are what using the wrong one, or one that was overtaken by another, needs;
one of the ids may clash with the operator's file (`StaticIds`). That an approval
is applied by its own actor alone is the one comparison of a guard there, and
checked in `managed_admin`. Times are scaled to 0, 1 or 2 units with every order
of the events around them, including equality; `MaxTime` bounds the clock past the
longest retention. `StaleTicks` is 0 or 1 instead of 3 sweep periods, which leaves
a sweep before and after the window. The proofs have none of these bounds;
`MaxTime`, `MaxCalls`, `MaxFaults`, `MaxEdits`, `MaxTokens`, `MaxChunk` and
`MaxWritten` are any numbers in them.

**Symmetry** is used where values are interchangeable and no liveness property is
checked: pairings, devices and codes; approvals, nonces and actors; ids, keys and
payloads of `grant_store_admitted`; approvals of `targets`; sessions and readers of
`exec_broker`; and the first two calls of `tool_calls`, together with their commands:
each of its plans is there both ways round.

**Deadlock** is not checked, except in the grant store: once the ids of an
instance are used up and its clock or its faults have reached the bound, nothing
needs to happen. In the grant store a restart is always possible, so that no call
is stuck is shown by `CallsSettle` instead.

**Fairness.** `gateway` assumes that timers fire, that the sweep
interval runs, that time passes, and that `ws` ends a close handshake (it
destroys the socket after 30 s by itself). Nothing is assumed of agents,
administrators or restarts. `mesh` adds that the backoff timer fires,
that TCP reports a dead connection to the agent (it writes a heartbeat every
30 s), and, as strong fairness, that of infinitely many attempts to connect not
all fail. It does not rely on the service manager. `grant_store`
assumes that the event loop runs what is queued, and that a `submit()` settles:
the bridge and the mesh client both put a timeout on their requests
(`private-bridge-client.mjs:65`, `agent-mesh-semantic-client.mjs:58`). A stop of
the process is allowed at any time and settles nothing but what it drops. The
other runs check safety only and assume no fairness.

**`tool_calls`** is the largest run, with 3 million states.

## 4. Disagreements with the documents

Two are shown by a run:

* `docs/DEEPHARNESS_SEMANTIC_READ_WRITE_GATE.md:204`: "a revocation cannot
  interleave after a commit's current grant check and before prompt admission."
  It cannot while the commit awaits its answer (`CommitKeepsGrant`). But a
  request that times out ends the commit while the prompt is on its way, the
  queue goes on with the revocation, and DeepHarness admits the prompt after it
  (`grant_store_admitted`). No receipt is given for it
  (`ReceiptsAreHonest`).
* `src/tools/index.ts:1214` says of `read_process_output` that it reads a
  session's output incrementally. Offsets count from the start of the window
  (`src/exec/broker.ts:139`), whose front is cut at 1 MiB
  (`src/exec/broker.ts:25`): from then on a reader that goes on from `next_offset`
  gets nothing, with `truncated` false (`exec_reader`). Until the cut it gets
  every character once and in turn (`ReadsInOrder`).

Others were met on the way. The models behave as the code does; no run of its own
is spent on them:

* `docs/ADR-0002-AGENT-MESH.md:46`: "Revocation invalidates the device credential
  and active session immediately." In the admin route (`admin/router.ts:106`) an
  exception of `persist()` leaves `revoked_at` set in memory and skips
  `disconnectAgentDevice`; the session stays until the next sweep or message. It is
  of no use to the device in the meantime (`RevokedFailsClosed`), and it does
  close (`RevokedSocketsClose`).
* `docs/ADR-0002-AGENT-MESH.md:42`: "The pairing credential is consumed once and
  expires." Until it expires, a claimed pairing can be claimed again with its
  poll token and returns the same credential (`state/store.ts:334`). It never
  returns a second device (`OneDevicePerPairing`).
* `docs/OPERATIONS.md:50` says that revoking a target closes its SSH pool and
  blocks future calls. It does block them (`RevokedStaysOff`), but a call that is
  queued, dialling or between two of its commands goes on: the target is checked
  when the call starts.
* `docs/PORTAINER_CONTROL.md:70` says that an update preserves the variables that
  were not named. It writes back what it read: a change made between the two
  requests is undone. `LostOnlyToStaleRead` says that nothing else is.
* `target-approvals.ts:51-62` sums up an approval as leaving Docker disabled, as
  granting no filesystem, or, for `postgres-readback`, as granting "only" the
  readback. `runtime_summary` counts containers with `docker ps -q` on any target
  that is not semantic (`tools/index.ts:1541`); the tools that take a path resolve it
  on the host before they check it against the target's list (`paths.ts:13`); and
  `host_status` and its like look at no list at all. `RuledOut` rules the three out
  as the summaries do, and `Beyond` names them as what `WithinApproval` has to except.
* `docker/read-proxy.ts:279` undoes the creation of a candidate whose start failed,
  and takes a 304 for a failure. When somebody has started the candidate by its name
  in between, the run is refused and a running container is removed by force.
  `OnlyOwnCleanup` says that it is always the job's own candidate, and one that the
  job itself did not start.
* `tools/index.ts:1496` speaks of a limit of 20 iterations of OpenHands; the agent
  sends `max_iterations: 60` (`agent/openhands.ts:206`).
* `lib/env.ts:24` allows `MAX_LOG_LINES` up to 1000; the agent refuses more than
  500 (`agent/operations.ts:26`).
* `target_agent_apply` resolves the target after it applied the change
  (`tools/index.ts:331`): when the console has that target disabled, the answer is an
  error although the registry changed. `ServedAsApplied` allows for it.
* An agent that was revoked while it was offline gets 401 at the upgrade, never
  close code 4003, and tries again for ever (`agent/cli.ts:153-160`).

## 5. Proofs

For every value of the constants that satisfies the named assumptions of the
modules (finite sets of pairings and devices, positive limits, `MaxStall` no
larger than the grace period of the replay file, and types).

* **Gateway** (`AgentMeshProofs`, `GatewaySafety`). The invariant `IInv` joins the
  checked invariants with `Bookkeeping`: an entry of `live` is a socket of that
  device that has not closed. Without it one could not show that rejecting a
  device's requests in a close event leaves no request on a closed socket. From
  the invariant follow the action properties `RevokedFailsClosed` and
  `RevokedCodeIsHonest`, each by cases over the actions.
* **Mesh** (`MeshSafety`, `MeshImplementsGateway`). Every step of the
  composition is a step of the gateway or leaves it alone, so the gateway's
  theorems carry over. `MeshIInv` adds where a request is and how often it has
  been executed: in flight means never, in execution or answered means once.
* **Pairing** (`PairingSafety`). What holds of a store (`StoreOK`, unique codes,
  capacity) is shown of both copies, with lemmas per operation, since a restart
  makes memory out of the file. That memory always knows what the file knows
  (`disk.devices \subseteq mem.devices`) is what makes whole-file writes safe.
  The capacity argument weighs active devices and pending pairings together: a
  claim turns one into the other.
* **Managed admin** (`ManagedAdminSafety`, `FlowImplementsSingleUse`). The key is
  `RunsRemembered`: a nonce that ran is in the replay file, or expired by more
  than the grace period; a broker in the middle of a request saw the ticket
  unexpired at most `MaxStall` ago (`BrokersOK`), so with `MaxStall <= Grace` the
  second case cannot apply to it. `WithdrawalTakesHold` chains three moments: the
  ticket was issued while the target allowed its action (`Bookkeeping`), the
  broker saw it unexpired, and stalled no longer than `MaxStall`. The refinement
  maps approvals through `StatusOf` and counts starts; `MappedAlways` turns the
  cardinalities into cases.

* **Grant store** (`Invariance`, `WithinLimits`, `Refinement`). `Consistent` is
  the heart: memory is the file unless the store is faulted, a commit under way
  means it is not, and a revision is drawn once and belongs to one identity; so a
  new grant never revives an ended revision and a restart from a file that a
  failed save left behind does neither. `Recorded` says that every prompt in
  flight and every admission has its record in the file, which is what makes
  retries harmless. The refinement needs `IInv`: a write that fails is a stutter
  or the same abstract step, by `DeliveryWritten`. `WithinLimits` counts the
  entries before and after each write (`KnownAfterWrite`).

* **OAuth** (`OAuthProofs`). `Good(st)` is shown of memory and of the file, since a
  restart makes one of the other and a failed write leaves them apart: a code
  that is stored has opened no session; a token that was sent is not younger than
  the one stored, so a rotation that was answered is in the file; a
  session that nothing upset, and whose last token its client holds, is stored with
  that token, unrevoked and of a live client (`Keeps`); and what was confirmed as
  revoked is not live. A lemma per operation says that it keeps a state good.
  `OAuthImplementsSessionLife` rests on the same invariant: `AccessHolds` reads off
  it that a token that is accepted is the newest that was answered, and that
  nobody who is barred has access; then an exchange that gets as far as its second
  write is an `Open` (`ExchangeOpens`), a refresh that is answered a `Renew`
  (`RefreshRenews`), and everything else, failed writes and restarts included, a
  `Bar` (`OthersBar`).
* **SSH pool and tool calls** (`ToolCallsProofs`). `PoolOK` counts: the slots in
  use are the jobs that hold one, the queue holds each waiter once, a call waits
  only while every slot is taken, and only a job with a slot uses a link.
  `HttpInv` says that a waiting call has at most one request on the wire and that
  nothing was applied for a call that is idle or denied. `HonestInv` joins both
  with the counts (`CountsOK`) and with where a call is among its rounds
  (`RoundsOK`: the later ones have no command begun, the earlier ones every
  command that the tool needed), and gives `AnswersStayHonest`;
  `OnlyStaleReadsLose` follows from the merge of each change that is served.
* **Agent operations** (`AgentHostProofs`, `Safety`). What was done is decided by
  requests that may arrive late, so the invariant says for every position in a
  chain whether its effect took place: `ChainOK` for the chains under way,
  `AnswerOK` for those that ended, `LateOK` for requests on their way. A job leaves
  at most one request behind, and only once its chain is over, so no late request
  and no chain act for the same job at once. `BoxOK` says that a candidate belongs
  to the `run` that created it, and `RunsOK` that one that runs was started by that
  job or by name; the undo is reached, however late, only when its own job did not
  start it. Hence an undo takes only the candidate of its own job (`CleanupIsOwn`),
  and a leftover is still its job's to start or remove unless a fault took that away.
* **Execution broker** (`AgentHostProofs`, `BrokerSafety`). Only a start adds to
  the active sessions, and it looks for room. `ReaderKeepsUp` says that a reader
  was given nothing behind its offset, counted from where the window starts, and
  everything up to there as long as the window was not cut.
* **Targets** (`TargetsProofs`, `Safety`). `IdOK` says of each id that the dynamic
  file and the registry in memory, which a failed load leaves apart, each hold
  what was applied (`served`), and that a target that was applied stays in the
  file. A write leaves the other ids what they had (`WriteKeepsIds`).
  `ContainersWhereGranted` is inductive: a target is looked at again when the
  reading of containers is added to it (`BaselineFacts`), and a target that is
  applied brings none. For the calls, `CallOK` says that what a call has yet to
  send goes to the device of a target its caller may take it to be, and is allowed
  by it; that a target's presets allow the operations of every tool that passes
  its check is `OperationsAllowed`, from the tables of presets alone. A target may
  therefore change or vanish between two operations.

Proved, and no longer listed in a run because something stronger is: the type
invariants; `WaitersTracked`, `PendingSocketAlive`, `DisconnectHasCause` and
`RevokedCodeIsHonest` of the gateway; that every step of the mesh is a step of
the gateway; `ExecutedAtMostOnce`, that a request is executed at most once: nothing
sends one twice; `LiveCodesUnique`, `DeviceWasApproved` and `SavedDevicesOnlyGrow` of
enrolment; `TicketJustified` of managed-admin; `CommitKeepsGrant` of the grant
store; `CodesAreOneTime` of the OAuth server, which the refinement contains.

Every safety invariant and every action property that a run checks is stated by a
theorem, and so is each of the refinements. **Only model-checked** is what holds
under fairness (`RequestsSettle`, `RevokedSocketsClose`, `SilentSocketCloses`,
`Reconnects`, `CallsSettle`): liveness and ENABLED are beyond this prover. The two
runs that end in a violation refute what they check, and need no proof.

## 6. Not modelled

* Payloads, argument validation, output limits, rate limits, redaction, HTML, and
  the login and CSRF checks of the console, which are guards without state. The
  signature of tickets is taken as sound, and so are PKCE and redirect URIs.
* The DeepHarness relay and the agent's bridge to DeepHarness: hops without state
  between requests. What their timeouts and losses do to a commit is in
  `GrantStore`.
* `listTeams`, which repeats `readTeam`, and which live OAuth session a grant is
  bound to.
* Audit records, of which only the count is saved in the state store; the content
  of a probe that `recordTargetProbe` keeps.
* Power loss below the file system: a renamed file is taken to stay. Clocks that
  are set back.
* The size of the grant file in bytes; two agents with one credential. Both are in
  the list of hazards with the reason.
* The installers.

The notes of the components in `PROJECT.json` say for each part what is left out.

## 7. Plan

Done: the parts in the table of section 2. What is left, in this order:

1. The composition of `ToolCalls` with `AgentGateway`, so that a call that is
   answered by an agent is counted and told as one that is answered over SSH.
2. Larger instances of `tool_calls` and `agent_operations`, with a second fault
   and a second stack.
