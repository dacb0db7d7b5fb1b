--------------------------------- MODULE Targets ---------------------------------
(***************************************************************************)
(* The target registry: the static file, which the operator edits, the     *)
(* dynamic file, which an approved target_agent_apply rewrites, and the    *)
(* registry in memory that both are loaded into; the approvals; and the    *)
(* tools, which read a target once and then send its device one operation  *)
(* after the other (config/targets.ts, config/target-approvals.ts,         *)
(* config/deepharness-read-approval.ts, config/capability-baseline.ts,     *)
(* tools/index.ts).                                                        *)
(*                                                                         *)
(* A dynamic target is described by the preset it was made from, by its    *)
(* device and by whether it was granted the reading of containers.  The    *)
(* static targets are seen here as far as their ids clash with dynamic     *)
(* ones.  "served" is history: what the owner, from the answers, may take  *)
(* a target to be.                                                         *)
(***************************************************************************)
EXTENDS Naturals, Sequences

CONSTANTS
    Ids,       \* ids of dynamic targets
    DshRead,   \* the id "deepharness-read"
    StaticIds, \* those the operator may write to the static file
    Devices,   \* agent devices
    NoTarget,  \* no such target
    Offers,    \* the targets that are asked for: a set of [id, target]
    Stored,    \* what the dynamic file may hold at the start
    Approvals, \* approval ids that may be drawn
    Actors,    \* the OAuth clients that prepare and apply
    Calls      \* tool calls

Presets == {"operator-workspace", "read-only", "openhands-read", "openhands-execute",
            "postgres-readback", "managed-admin", "deepharness-semantic-lab"}

Target == [preset : Presets, device : Devices, containers : BOOLEAN]

ASSUME TargetsAssumption ==
    /\ DshRead \in Ids
    /\ StaticIds \subseteq Ids
    /\ NoTarget \notin Target
    /\ Offers \subseteq [id : Ids, target : Target]
    /\ \A offer \in Offers : ~offer.target.containers
    /\ Stored \subseteq [Ids -> Target \cup {NoTarget}]
    /\ \A content \in Stored, id \in Ids :
         content[id] # NoTarget /\ content[id].containers =>
           id = DshRead /\ content[id].preset = "read-only"

VARIABLES
    static,   \* the static file: [reads, ids], whether it parses and the clashing ids
    file,     \* the dynamic file
    memory,   \* the registry, as far as it is dynamic
    up,       \* whether the control plane runs
    disabled, \* the targets the administrator disabled
    live,     \* the devices that are enrolled and were heard of lately
    approval, \* the approvals
    call,     \* the calls: what they read of their target, the operations left to send, and
              \* what their caller was told
    served    \* history: see above

vars == <<static, file, memory, up, disabled, live, approval, call, served>>

------------------------------------------------------------------------------
(* What a target may do. *)

\* buildAgentTargetFromPreset: the profile and the lists that are not empty.
Profile(t) ==
    CASE t.preset \in {"operator-workspace", "managed-admin"} -> "operator"
      [] t.preset \in {"openhands-execute", "deepharness-semantic-lab"} -> "semantic-operator"
      [] OTHER -> "read-only"

Lists(t) ==
    LET workspace == {"paths", "services", "service_actions", "write", "cwds", "programs"} IN
    (CASE t.preset = "operator-workspace" -> workspace
       [] t.preset = "managed-admin" -> workspace \cup {"managed_admin", "admin_programs"}
       [] t.preset = "read-only" -> {"paths", "services"}
       [] t.preset = "openhands-read" -> {"openhands.read"}
       [] t.preset = "openhands-execute" -> {"openhands.read", "openhands.execute"}
       [] t.preset = "postgres-readback" -> {"postgres.pinned_readback"}
       [] t.preset = "deepharness-semantic-lab" -> {"deepharness.semantic"})
    \cup (IF t.containers THEN {"containers"} ELSE {})

Has(t, lists) == lists \subseteq Lists(t)

\* requireOperator.  (Every dynamic target has transport agent.)
Operator(t) == Profile(t) = "operator"

If(permitted, operations) == IF permitted THEN operations ELSE << >>

\* The operations each tool sends to the device of its target, if its checks let it.
\* host_status, disk_usage, memory_status, uptime
HostTool(t) == <<"host", "host">>

\* docker_list, docker_health, docker_inspect_safe, docker_logs
DockerRead(t) == If(Has(t, {"containers"}), <<"docker_read">>)

DockerExec(t) == If(Operator(t) /\ Has(t, {"exec_containers", "exec_programs"}), <<"docker_exec">>)

\* docker_action: start, stop, restart, load_image, candidate_run, candidate_remove
DockerAction(t) ==
    If(Operator(t) /\ Has(t, {"actions"}) /\ (Has(t, {"containers"}) \/ Has(t, {"candidates"})),
       <<"docker_action">>)

PostgresReadback(t) == If(Has(t, {"postgres.pinned_readback"}), <<"postgres">>)

\* The paperclip_* tools.
Paperclip(t) == If(Operator(t) /\ Has(t, {"exec_containers"}), <<"paperclip">>)

\* service_status, service_logs
ServiceRead(t) == If(Has(t, {"services"}), <<"service_read">>)

ServiceAction(t) ==
    If(Operator(t) /\ Has(t, {"services", "service_actions"}), <<"service_action">>)

\* git_head, git_status, git_diff_summary: the path is resolved on the host before
\* the allowlist is looked at, and so are the listed repositories.
Git(t) == <<"realpath">> \o If(Has(t, {"repos"}), <<"realpath", "git", "git">>)

\* list_directory, read_file
FileRead(t) == <<"realpath">> \o If(Has(t, {"paths"}), <<"file_read", "file_read">>)

\* create_directory, write_file, edit_file, move_file
Workspace(t) == If(Operator(t) /\ Has(t, {"write"}), <<"file_write">>)

ProcessStart(t) ==
    If(Operator(t), <<"realpath">> \o If(Has(t, {"cwds", "programs"}), <<"process">>))

\* read_process_output, send_process_input, kill_process, list_processes
Processes(t) == If(Operator(t), <<"process">>)

\* openhands_health, _list, _status, _result, _events
OpenHandsRead(t) == If(Has(t, {"openhands.read"}), <<"openhands_read">>)

\* openhands_start, openhands_stop
OpenHandsRun(t) ==
    If(Profile(t) = "semantic-operator" /\ Has(t, {"openhands.execute"}), <<"openhands_run">>)

\* host_admin_apply (its approval is modelled in ManagedAdmin)
HostAdmin(t) == If(Has(t, {"managed_admin", "admin_programs"}), <<"root">>)

RuntimeSummary(t) == <<"host", "host", "host", "docker_count">>

Tools == {"host", "docker_read", "docker_exec", "docker_action", "postgres", "paperclip",
          "service_read", "service_action", "git", "file_read", "workspace", "process_start",
          "processes", "openhands_read", "openhands_run", "host_admin", "runtime_summary"}

\* The wrapper of every tool: a semantic target serves the OpenHands tools only.
SemanticGate(tool, t) ==
    Profile(t) = "semantic-operator" => tool \in {"openhands_read", "openhands_run"}

Operations(tool, t) ==
    If(SemanticGate(tool, t),
       CASE tool = "host"            -> HostTool(t)
         [] tool = "docker_read"     -> DockerRead(t)
         [] tool = "docker_exec"     -> DockerExec(t)
         [] tool = "docker_action"   -> DockerAction(t)
         [] tool = "postgres"        -> PostgresReadback(t)
         [] tool = "paperclip"       -> Paperclip(t)
         [] tool = "service_read"    -> ServiceRead(t)
         [] tool = "service_action"  -> ServiceAction(t)
         [] tool = "git"             -> Git(t)
         [] tool = "file_read"       -> FileRead(t)
         [] tool = "workspace"       -> Workspace(t)
         [] tool = "process_start"   -> ProcessStart(t)
         [] tool = "processes"       -> Processes(t)
         [] tool = "openhands_read"  -> OpenHandsRead(t)
         [] tool = "openhands_run"   -> OpenHandsRun(t)
         [] tool = "host_admin"      -> HostAdmin(t)
         [] tool = "runtime_summary" -> RuntimeSummary(t))

------------------------------------------------------------------------------
(* The registry and its approvals. *)

NoCall == [id |-> DshRead, device |-> NoTarget, todo |-> << >>, told |-> {}]
NoApproval == [kind |-> "none", id |-> DshRead, target |-> NoTarget, actor |-> "none",
               open |-> FALSE]

TypeOK ==
    /\ static \in [reads : BOOLEAN, ids : SUBSET StaticIds]
    /\ file \in [Ids -> Target \cup {NoTarget}]
    /\ memory \in [Ids -> Target \cup {NoTarget}]
    /\ up \in BOOLEAN
    /\ disabled \subseteq Ids
    /\ live \subseteq Devices
    /\ served \in [Ids -> SUBSET Target]

Init ==
    /\ static = [reads |-> TRUE, ids |-> {}]
    /\ file \in Stored
    /\ memory = file
    /\ up = TRUE
    /\ disabled = {}
    /\ live = Devices
    /\ approval = [a \in Approvals |-> NoApproval]
    /\ call = [c \in Calls |-> NoCall]
    /\ served = [id \in Ids |-> {file[id]} \ {NoTarget}]

\* loadRegistry throws unless both files can be read and no id is in both.
Loads(content) == static.reads /\ \A id \in static.ids : content[id] = NoTarget

\* prepareAgentTarget, for a device that is live.
Prepare(a, actor, offer) ==
    /\ up
    /\ approval[a].kind = "none"
    /\ offer.target.device \in live
    /\ approval' = [approval EXCEPT ![a] = [kind |-> "target", id |-> offer.id,
                                            target |-> offer.target, actor |-> actor,
                                            open |-> TRUE]]
    /\ UNCHANGED <<static, file, memory, up, disabled, live, call, served>>

\* baseline: the target is there, was not given anything unexpected, and its device
\* is live.
Baseline ==
    /\ memory[DshRead] # NoTarget
    /\ Profile(memory[DshRead]) = "read-only"
    /\ Lists(memory[DshRead]) \subseteq {"paths", "services", "containers"}
    /\ memory[DshRead].device \in live

\* prepareDeepharnessDockerRead
PrepareDockerRead(a, actor) ==
    /\ up
    /\ approval[a].kind = "none"
    /\ Baseline
    /\ approval' = [approval EXCEPT ![a] = [kind |-> "containers", id |-> DshRead,
                                            target |-> memory[DshRead], actor |-> actor,
                                            open |-> TRUE]]
    /\ UNCHANGED <<static, file, memory, up, disabled, live, call, served>>

\* The approval expires, after ten minutes.
Expire(a) ==
    /\ approval[a].open
    /\ approval' = [approval EXCEPT ![a].open = FALSE]
    /\ UNCHANGED <<static, file, memory, up, disabled, live, call, served>>

\* What is written to the dynamic file: its other targets are kept.
\* Mutant of Written: the file is written from the registry that was loaded.
WrittenFromMemory(id, t) == [memory EXCEPT ![id] = t]

Written(id, t) == [file EXCEPT ![id] = t]

\* upsertDynamicAgentTarget: the static file is read and looked at for the id, the
\* dynamic file is replaced by a rename and both are loaded.  Either write or load
\* may throw, and the caller is told an error; so it is when target_agent_apply
\* resolves the new target last and finds it disabled.  The approval goes only when nothing threw.
Upsert(a, id, t) ==
    /\ static.reads
    /\ id \notin static.ids
    /\ file' = Written(id, t)
    /\ IF Loads(file')
       THEN /\ memory' = file'
            /\ approval' = [approval EXCEPT ![a].open = FALSE]
            /\ served' = [served EXCEPT ![id] = IF id \in disabled /\ approval[a].kind = "target"
                                                     THEN @ \cup {t} ELSE {t}]
       ELSE /\ served' = [served EXCEPT ![id] = @ \cup {t}]
            /\ UNCHANGED <<memory, approval>>

\* Mutant of StillFits: the target is not looked at again when the approval is applied.
FitsAsPrepared(a) ==
    IF approval[a].kind = "target" THEN approval[a].target.device \in live
    ELSE memory[DshRead] # NoTarget /\ memory[DshRead].device = approval[a].target.device

\* What applyAgentTargetApproval and applyDeepharnessDockerRead check again, and
\* what they write.
StillFits(a) ==
    IF approval[a].kind = "target" THEN approval[a].target.device \in live
    ELSE Baseline /\ memory[DshRead].device = approval[a].target.device

Asked(a) ==
    IF approval[a].kind = "target" THEN approval[a].target
    ELSE [memory[DshRead] EXCEPT !.containers = TRUE]

\* target_agent_apply, deepharness_docker_read_apply
Apply(a, actor) ==
    /\ up
    /\ approval[a].open
    /\ approval[a].actor = actor
    /\ StillFits(a)
    /\ Upsert(a, approval[a].id, Asked(a))
    /\ UNCHANGED <<static, up, disabled, live, call>>

\* The process ends after the rename and before the answer.
ApplyCrash(a) ==
    /\ up
    /\ approval[a].open
    /\ StillFits(a)
    /\ static.reads
    /\ approval[a].id \notin static.ids
    /\ file' = Written(approval[a].id, Asked(a))
    /\ served' = [served EXCEPT ![approval[a].id] = @ \cup {Asked(a)}]
    /\ up' = FALSE
    /\ UNCHANGED <<static, memory, disabled, live, approval, call>>

\* The control plane is down, or ends: approvals and calls are gone.
Start ==
    /\ Loads(file)
    /\ up' = TRUE
    /\ memory' = file
    /\ approval' = [a \in Approvals |-> [approval[a] EXCEPT !.open = FALSE]]
    /\ call' = [c \in Calls |-> NoCall]
    /\ UNCHANGED <<static, file, disabled, live, served>>

\* The operator edits the static file, breaks it or repairs it.
EditStatic(reads, ids) ==
    /\ static' = [reads |-> reads, ids |-> ids]
    /\ UNCHANGED <<file, memory, up, disabled, live, approval, call, served>>

\* The administrator disables or enables a target.
Disable(id) ==
    /\ disabled' = IF id \in disabled THEN disabled \ {id} ELSE disabled \cup {id}
    /\ UNCHANGED <<static, file, memory, up, live, approval, call, served>>

\* A device goes silent or is revoked, or comes back.
Liveness(d) ==
    /\ live' = IF d \in live THEN live \ {d} ELSE live \cup {d}
    /\ UNCHANGED <<static, file, memory, up, disabled, approval, call, served>>

\* A tool resolves its target and passes its checks.  It keeps the target it read.
CallTool(c, tool, id) ==
    /\ up
    /\ call[c].todo = << >>
    /\ memory[id] # NoTarget
    /\ id \notin disabled
    /\ Operations(tool, memory[id]) # << >>
    /\ call' = [call EXCEPT ![c] = [id |-> id, device |-> memory[id].device,
                                    todo |-> Operations(tool, memory[id]), told |-> served[id]]]
    /\ UNCHANGED <<static, file, memory, up, disabled, live, approval, served>>

\* Mutant of SentTo: the target is looked up again for every operation.
SentToCurrent(c) ==
    LET t == memory[call[c].id] IN IF t = NoTarget THEN call[c].device ELSE t.device

\* The device a call sends its operations to: that of the target it read.
SentTo(c) == call[c].device

\* It sends its next operation, whatever became of the target.
Send(c) ==
    /\ up
    /\ call[c].todo # << >>
    /\ call' = [call EXCEPT ![c] = IF Len(@.todo) = 1 THEN NoCall
                                  ELSE [call[c] EXCEPT !.todo = Tail(@)]]
    /\ UNCHANGED <<static, file, memory, up, disabled, live, approval, served>>

Next ==
    \/ \E a \in Approvals :
         \/ \E actor \in Actors :
              \/ \E offer \in Offers : Prepare(a, actor, offer)
              \/ PrepareDockerRead(a, actor)
              \/ Apply(a, actor)
         \/ Expire(a)
         \/ ApplyCrash(a)
    \/ Start
    \/ \E reads \in BOOLEAN, ids \in SUBSET StaticIds : EditStatic(reads, ids)
    \/ \E id \in Ids : Disable(id)
    \/ \E d \in Devices : Liveness(d)
    \/ \E c \in Calls :
         \/ \E tool \in Tools, id \in Ids : CallTool(c, tool, id)
         \/ Send(c)

Spec == Init /\ [][Next]_vars

------------------------------------------------------------------------------

\* The registry holds, over failed applies, broken files and restarts, what the last
\* successful apply said, or what an apply that ended in an error since then asked
\* for, and a target that was applied stays (target-approvals.ts:114-115,
\* targets.ts:96-118).
ServedAsApplied ==
    up => \A id \in Ids :
            /\ memory[id] # NoTarget => memory[id] \in served[id]
            /\ memory[id] = NoTarget => \A t \in served[id] : file[id] # NoTarget

\* The reading of containers is granted to a target without any authority, on the device
\* the approval was prepared for: the target may be applied again, with another preset or
\* on another device, before the approval is applied or after, and what is left in the
\* file or the registry never has both (deepharness-read-approval.ts:55-58,
\* target-approvals.ts:114).
GrantedOn(device) ==
    \/ \E a \in Approvals : approval[a].kind = "containers" /\ approval[a].target.device = device
    \/ \E content \in Stored :
         /\ content[DshRead] # NoTarget
         /\ content[DshRead].containers
         /\ content[DshRead].device = device

ContainersAsGranted ==
    \A id \in Ids : \A t \in {file[id], memory[id]} \ {NoTarget} :
        t.containers => id = DshRead /\ t.preset = "read-only" /\ GrantedOn(t.device)

\* What the summary of an approval, which the owner confirms, rules out
\* (target-approvals.ts:51-62).
Docker == {"docker_exec", "docker_action", "docker_count", "paperclip"}
Mutations == {"file_write", "process", "service_action", "root", "openhands_run"}
Files == {"file_read", "realpath"}

RuledOut(t) ==
    Docker
    \cup (IF t.containers THEN {} ELSE {"docker_read"})
    \cup CASE t.preset = "operator-workspace" -> {"root", "openhands_run"}
           [] t.preset = "managed-admin" -> {"openhands_run"}
           [] t.preset = "read-only" -> Mutations
           [] t.preset = "postgres-readback" ->
                Mutations \cup Files \cup {"host", "service_read", "git", "openhands_read"}
           [] t.preset = "openhands-read" -> Mutations \cup Files \cup {"service_read"}
           [] t.preset = "openhands-execute" ->
                (Mutations \ {"openhands_run"}) \cup Files \cup {"host", "service_read", "git"}
           [] t.preset = "deepharness-semantic-lab" ->
                Mutations \cup Files \cup {"host", "service_read", "git"}

\* What is sent all the same, for every target that is not semantic: runtime_summary
\* counts the containers and host_status and its like read the host without a look at
\* the lists (tools/index.ts:429-503, 1541), and a path is resolved on the host before
\* they are looked at (paths.ts:13).
Beyond(t) ==
    IF Profile(t) = "semantic-operator" THEN {} ELSE {"docker_count", "host", "realpath"}

\* Whatever becomes of the target while a call is under way, a device is sent only what
\* the summary of an apply for that device, which its caller may rely on, does not rule
\* out, and what goes beyond every summary (target-approvals.ts:51-62,
\* tools/index.ts:121-133, 1566-1583).
WithinApproval ==
    \A c \in Calls : call[c].todo # << >> =>
        \E t \in call[c].told :
            /\ t.device = SentTo(c)
            /\ Head(call[c].todo) \notin RuledOut(t) \ Beyond(t)
================================================================================
