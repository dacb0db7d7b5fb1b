------------------------------- MODULE TargetsProofs -------------------------------
(***************************************************************************)
(* Proofs about the target registry and its approvals (Targets): for any   *)
(* ids, devices, offers, approvals and calls, the registry holds what was  *)
(* applied, over failed applies, broken files, crashes and restarts; the   *)
(* reading of containers is where it was granted; and a device is sent     *)
(* only what the summary of an apply does not rule out.                    *)
(***************************************************************************)
EXTENDS Targets, TLAPS

\* The operations that a device is sent.
Ops == {"host", "docker_count", "docker_read", "docker_exec", "docker_action", "postgres",
        "paperclip", "service_read", "service_action", "realpath", "git", "file_read",
        "file_write", "process", "openhands_read", "openhands_run", "root"}

Allowed(t) == Ops \ (RuledOut(t) \ Beyond(t))

Approval == [kind : {"none", "target", "containers"}, id : Ids,
             target : Target \cup {NoTarget}, actor : Actors \cup {"none"}, open : BOOLEAN]

\* What was prepared is a target that was asked for, or the one that is read through Docker.
ApprovalOK(a) ==
    /\ approval[a].kind = "none" => ~approval[a].open
    /\ approval[a].kind = "target" => approval[a].target \in Target /\ ~approval[a].target.containers
    /\ approval[a].kind = "containers" => approval[a].id = DshRead

CallType == [id : Ids, device : Devices \cup {NoTarget}, todo : Seq(Ops), told : SUBSET Target]

\* What a call has left to send is allowed by one of the targets that its caller may take
\* its target to be, and goes to that target's device.
CallOK(c) ==
    /\ call[c].told \subseteq Target
    /\ \/ call[c].todo = << >>
       \/ \E t \in call[c].told : t.device = call[c].device /\ call[c].todo \in Seq(Allowed(t))

\* The dynamic file and the registry, which may be older than it, both hold what was
\* applied, and a target that was applied stays in the file.
IdOK(id) ==
    /\ memory[id] # NoTarget => memory[id] \in served[id]
    /\ file[id] # NoTarget => file[id] \in served[id]
    /\ served[id] # {} => file[id] # NoTarget

\* The inductive invariant.
IInv ==
    /\ TypeOK
    /\ approval \in [Approvals -> Approval]
    /\ call \in [Calls -> CallType]
    /\ ContainersAsGranted
    /\ \A a \in Approvals : ApprovalOK(a)
    /\ \A c \in Calls : CallOK(c)
    /\ \A id \in Ids : IdOK(id)

-----------------------------------------------------------------------------
(* What a preset lets the tools send *)

\* The lists of a preset.
LEMMA ListFacts ==
    ASSUME NEW t \in Target
    PROVE  /\ Lists(t) \cap {"exec_containers", "exec_programs", "actions", "candidates", "repos"} = {}
           /\ "containers" \in Lists(t) => t.containers
           /\ "services" \in Lists(t) \/ "paths" \in Lists(t) =>
                t.preset \in {"operator-workspace", "managed-admin", "read-only"}
           /\ "openhands.read" \in Lists(t) => t.preset # "postgres-readback"
           /\ "openhands.execute" \in Lists(t) => t.preset = "openhands-execute"
           /\ "admin_programs" \in Lists(t) => t.preset = "managed-admin"
<1>0. t.preset \in Presets
  BY DEF Target
<1>1. CASE t.preset = "operator-workspace"
  BY <1>1 DEF Lists
<1>2. CASE t.preset = "managed-admin"
  BY <1>2 DEF Lists
<1>3. CASE t.preset = "read-only"
  BY <1>3 DEF Lists
<1>4. CASE t.preset = "openhands-read"
  BY <1>4 DEF Lists
<1>5. CASE t.preset = "openhands-execute"
  BY <1>5 DEF Lists
<1>6. CASE t.preset = "postgres-readback"
  BY <1>6 DEF Lists
<1>7. CASE t.preset = "deepharness-semantic-lab"
  BY <1>7 DEF Lists
<1> QED
  BY <1>0, <1>1, <1>2, <1>3, <1>4, <1>5, <1>6, <1>7 DEF Presets

\* The profile of a preset.
LEMMA ProfileFacts ==
    ASSUME NEW t \in Target
    PROVE  /\ Operator(t) => t.preset \in {"operator-workspace", "managed-admin"}
           /\ t.preset \in {"openhands-execute", "deepharness-semantic-lab"} =>
                Profile(t) = "semantic-operator"
  BY DEF Target, Presets, Profile, Operator

\* What the summary of an apply leaves open.
LEMMA AllowedFacts ==
    ASSUME NEW t \in Target
    PROVE  /\ "postgres" \in Allowed(t)
           /\ t.containers => "docker_read" \in Allowed(t)
           /\ t.preset \notin {"openhands-execute", "deepharness-semantic-lab"} =>
                {"host", "docker_count", "realpath"} \subseteq Allowed(t)
           /\ t.preset \notin {"postgres-readback"} => "openhands_read" \in Allowed(t)
           /\ t.preset \in {"operator-workspace", "managed-admin", "read-only"} =>
                {"service_read", "file_read"} \subseteq Allowed(t)
           /\ t.preset \in {"operator-workspace", "managed-admin"} =>
                {"file_write", "process", "service_action"} \subseteq Allowed(t)
           /\ t.preset = "managed-admin" => "root" \in Allowed(t)
           /\ t.preset = "openhands-execute" => "openhands_run" \in Allowed(t)
<1>0. t.preset \in Presets
  BY DEF Target
<1>1. CASE t.preset = "operator-workspace"
  BY <1>1 DEF Allowed, Ops, RuledOut, Beyond, Profile, Docker, Mutations, Files
<1>2. CASE t.preset = "managed-admin"
  BY <1>2 DEF Allowed, Ops, RuledOut, Beyond, Profile, Docker, Mutations, Files
<1>3. CASE t.preset = "read-only"
  BY <1>3 DEF Allowed, Ops, RuledOut, Beyond, Profile, Docker, Mutations, Files
<1>4. CASE t.preset = "openhands-read"
  BY <1>4 DEF Allowed, Ops, RuledOut, Beyond, Profile, Docker, Mutations, Files
<1>5. CASE t.preset = "openhands-execute"
  BY <1>5 DEF Allowed, Ops, RuledOut, Beyond, Profile, Docker, Mutations, Files
<1>6. CASE t.preset = "postgres-readback"
  BY <1>6 DEF Allowed, Ops, RuledOut, Beyond, Profile, Docker, Mutations, Files
<1>7. CASE t.preset = "deepharness-semantic-lab"
  BY <1>7 DEF Allowed, Ops, RuledOut, Beyond, Profile, Docker, Mutations, Files
<1> QED
  BY <1>0, <1>1, <1>2, <1>3, <1>4, <1>5, <1>6, <1>7 DEF Presets

\* No tool sends what the summary of the apply of the target it read rules out, and no
\* semantic target is asked for more than OpenHands (target-approvals.ts:51-62).
LEMMA OperationsAllowed ==
    ASSUME NEW t \in Target, NEW tool \in Tools
    PROVE  Operations(tool, t) \in Seq(Allowed(t))
<1> DEFINE S == Allowed(t)
<1> HIDE DEF S
<1> SUFFICES Operations(tool, t) \in Seq(S)
  BY DEF S
<1>0. << >> \in Seq(S)
  OBVIOUS
<1>1. CASE ~SemanticGate(tool, t)
  BY <1>0, <1>1 DEF Operations, If
<1>2. CASE SemanticGate(tool, t)
  <2>1. CASE tool = "host"
    <3>1. "host" \in S
      BY <1>2, <2>1, ProfileFacts, AllowedFacts DEF SemanticGate, S
    <3>2. HostTool(t) \in Seq(S)
      BY <1>0, <3>1 DEF HostTool, If
    <3> QED
      BY <1>2, <2>1, <3>2 DEF Operations, If
  <2>2. CASE tool = "docker_read"
    <3>1. Has(t, {"containers"}) => "docker_read" \in S
      BY ListFacts, AllowedFacts DEF Has, S
    <3>2. DockerRead(t) \in Seq(S)
      BY <1>0, <3>1 DEF DockerRead, If
    <3> QED
      BY <1>2, <2>2, <3>2 DEF Operations, If
  <2>3. CASE tool = "docker_exec"
    <3>1. ~Has(t, {"exec_containers", "exec_programs"})
      BY ListFacts DEF Has
    <3>2. DockerExec(t) \in Seq(S)
      BY <1>0, <3>1 DEF DockerExec, If
    <3> QED
      BY <1>2, <2>3, <3>2 DEF Operations, If
  <2>4. CASE tool = "docker_action"
    <3>1. ~Has(t, {"actions"})
      BY ListFacts DEF Has
    <3>2. DockerAction(t) \in Seq(S)
      BY <1>0, <3>1 DEF DockerAction, If
    <3> QED
      BY <1>2, <2>4, <3>2 DEF Operations, If
  <2>5. CASE tool = "postgres"
    <3>1. "postgres" \in S
      BY AllowedFacts DEF S
    <3>2. PostgresReadback(t) \in Seq(S)
      BY <1>0, <3>1 DEF PostgresReadback, If
    <3> QED
      BY <1>2, <2>5, <3>2 DEF Operations, If
  <2>6. CASE tool = "paperclip"
    <3>1. ~Has(t, {"exec_containers"})
      BY ListFacts DEF Has
    <3>2. Paperclip(t) \in Seq(S)
      BY <1>0, <3>1 DEF Paperclip, If
    <3> QED
      BY <1>2, <2>6, <3>2 DEF Operations, If
  <2>7. CASE tool = "service_read"
    <3>1. Has(t, {"services"}) => "service_read" \in S
      BY ListFacts, AllowedFacts DEF Has, S
    <3>2. ServiceRead(t) \in Seq(S)
      BY <1>0, <3>1 DEF ServiceRead, If
    <3> QED
      BY <1>2, <2>7, <3>2 DEF Operations, If
  <2>8. CASE tool = "service_action"
    <3>1. Operator(t) => "service_action" \in S
      BY ProfileFacts, AllowedFacts DEF S
    <3>2. ServiceAction(t) \in Seq(S)
      BY <1>0, <3>1 DEF ServiceAction, If
    <3> QED
      BY <1>2, <2>8, <3>2 DEF Operations, If
  <2>9. CASE tool = "git"
    <3>1. "realpath" \in S /\ ~Has(t, {"repos"})
      BY <1>2, <2>9, ListFacts, ProfileFacts, AllowedFacts DEF SemanticGate, Has, S
    <3>2. <<"realpath">> \in Seq(S)
      BY <3>1
    <3>3. Git(t) \in Seq(S)
      BY <1>0, <3>1, <3>2 DEF Git, If
    <3> QED
      BY <1>2, <2>9, <3>3 DEF Operations, If
  <2>10. CASE tool = "file_read"
    <3>1. "realpath" \in S /\ (Has(t, {"paths"}) => "file_read" \in S)
      BY <1>2, <2>10, ListFacts, ProfileFacts, AllowedFacts DEF SemanticGate, Has, S
    <3>2. /\ <<"realpath">> \in Seq(S)
         /\ If(Has(t, {"paths"}), <<"file_read", "file_read">>) \in Seq(S)
      BY <1>0, <3>1 DEF If
    <3>3. FileRead(t) \in Seq(S)
      BY <1>0, <3>1, <3>2 DEF FileRead, If
    <3> QED
      BY <1>2, <2>10, <3>3 DEF Operations, If
  <2>11. CASE tool = "workspace"
    <3>1. Operator(t) => "file_write" \in S
      BY ProfileFacts, AllowedFacts DEF S
    <3>2. Workspace(t) \in Seq(S)
      BY <1>0, <3>1 DEF Workspace, If
    <3> QED
      BY <1>2, <2>11, <3>2 DEF Operations, If
  <2>12. CASE tool = "process_start"
    <3>1. "realpath" \in S /\ (Operator(t) => "process" \in S)
      BY <1>2, <2>12, ProfileFacts, AllowedFacts DEF SemanticGate, S
    <3>2. Operator(t) => <<"realpath">> \in Seq(S) /\ <<"process">> \in Seq(S)
      BY <3>1
    <3>3. ProcessStart(t) \in Seq(S)
      BY <1>0, <3>1, <3>2 DEF ProcessStart, If
    <3> QED
      BY <1>2, <2>12, <3>3 DEF Operations, If
  <2>13. CASE tool = "processes"
    <3>1. Operator(t) => "process" \in S
      BY ProfileFacts, AllowedFacts DEF S
    <3>2. Processes(t) \in Seq(S)
      BY <1>0, <3>1 DEF Processes, If
    <3> QED
      BY <1>2, <2>13, <3>2 DEF Operations, If
  <2>14. CASE tool = "openhands_read"
    <3>1. Has(t, {"openhands.read"}) => "openhands_read" \in S
      BY ListFacts, AllowedFacts DEF Has, S
    <3>2. OpenHandsRead(t) \in Seq(S)
      BY <1>0, <3>1 DEF OpenHandsRead, If
    <3> QED
      BY <1>2, <2>14, <3>2 DEF Operations, If
  <2>15. CASE tool = "openhands_run"
    <3>1. Has(t, {"openhands.execute"}) => "openhands_run" \in S
      BY ListFacts, AllowedFacts DEF Has, S
    <3>2. OpenHandsRun(t) \in Seq(S)
      BY <1>0, <3>1 DEF OpenHandsRun, If
    <3> QED
      BY <1>2, <2>15, <3>2 DEF Operations, If
  <2>16. CASE tool = "host_admin"
    <3>1. Has(t, {"managed_admin", "admin_programs"}) => "root" \in S
      BY ListFacts, AllowedFacts DEF Has, S
    <3>2. HostAdmin(t) \in Seq(S)
      BY <1>0, <3>1 DEF HostAdmin, If
    <3> QED
      BY <1>2, <2>16, <3>2 DEF Operations, If
  <2>17. CASE tool = "runtime_summary"
    <3>1. {"host", "docker_count"} \subseteq S
      BY <1>2, <2>17, ProfileFacts, AllowedFacts DEF SemanticGate, S
    <3>2. RuntimeSummary(t) \in Seq(S)
      BY <1>0, <3>1 DEF RuntimeSummary, If
    <3> QED
      BY <1>2, <2>17, <3>2 DEF Operations, If
  <2> QED
    BY <2>1, <2>2, <2>3, <2>4, <2>5, <2>6, <2>7, <2>8,
       <2>9, <2>10, <2>11, <2>12, <2>13, <2>14, <2>15, <2>16, <2>17 DEF Tools
<1> QED
  BY <1>1, <1>2

-----------------------------------------------------------------------------
(* The registry and the calls *)

LEMMA SeqWidens ==
    ASSUME NEW S, NEW T, S \subseteq T, NEW s \in Seq(S)
    PROVE  s \in Seq(T)
  OBVIOUS

\* What a write of one target to the dynamic file leaves: the file holds it, and the
\* registry what it held or the file.
WrittenOK(id, t) ==
    /\ file' = [file EXCEPT ![id] = t]
    /\ \/ /\ memory' = file'
          /\ served' = [served EXCEPT ![id] = {t}]
       \/ /\ memory' \in {memory, file'}
          /\ served' = [served EXCEPT ![id] = @ \cup {t}]

LEMMA WriteKeepsIds ==
    ASSUME IInv, NEW id \in Ids, NEW t \in Target, WrittenOK(id, t)
    PROVE  /\ file' \in [Ids -> Target \cup {NoTarget}]
           /\ memory' \in [Ids -> Target \cup {NoTarget}]
           /\ served' \in [Ids -> SUBSET Target]
           /\ \A i \in Ids : IdOK(i)'
<1>1. /\ file \in [Ids -> Target \cup {NoTarget}]
      /\ memory \in [Ids -> Target \cup {NoTarget}]
      /\ served \in [Ids -> SUBSET Target]
      /\ t # NoTarget
  BY TargetsAssumption DEF IInv, TypeOK
<1>2. /\ file' \in [Ids -> Target \cup {NoTarget}]
      /\ file'[id] = t
      /\ \A i \in Ids \ {id} : file'[i] = file[i]
  BY <1>1 DEF WrittenOK
<1>3. /\ served' \in [Ids -> SUBSET Target]
      /\ t \in served'[id]
      /\ \A i \in Ids \ {id} : served'[i] = served[i]
  BY <1>1 DEF WrittenOK
<1>4. memory' \in [Ids -> Target \cup {NoTarget}]
  BY <1>1, <1>2 DEF WrittenOK
<1>5. memory' = file' \/ (memory' = memory /\ served[id] \subseteq served'[id])
  BY <1>1 DEF WrittenOK
<1>6. ASSUME NEW i \in Ids
      PROVE  IdOK(i)'
  <2>1. IdOK(i)
    BY DEF IInv
  <2>2. CASE i = id
    BY <1>1, <1>2, <1>3, <1>5, <2>1, <2>2 DEF IdOK
  <2>3. CASE i # id
    BY <1>2, <1>3, <1>5, <2>1, <2>3 DEF IdOK
  <2> QED
    BY <2>2, <2>3
<1> QED
  BY <1>2, <1>3, <1>4, <1>6

\* A target is what may be read of it where it was granted, and nothing else.
ReadsAsGranted(id, t) == t.containers => id = DshRead /\ t.preset = "read-only" /\ GrantedOn(t.device)

\* The only preset without any authority is the one that reads.
LEMMA BaselineFacts ==
    ASSUME NEW t \in Target, Profile(t) = "read-only",
           Lists(t) \subseteq {"paths", "services", "containers"}
    PROVE  t.preset = "read-only"
<1>1. "openhands.read" \notin Lists(t) /\ "postgres.pinned_readback" \notin Lists(t)
  OBVIOUS
<1>2. t.preset \notin {"openhands-read", "postgres-readback"}
  BY <1>1 DEF Lists
<1>3. t.preset \notin {"operator-workspace", "managed-admin", "openhands-execute",
                       "deepharness-semantic-lab"}
  BY DEF Profile
<1> QED
  BY <1>2, <1>3 DEF Target, Presets

\* What is asked for is a target, and one whose containers may be read only if that was
\* prepared for its device, which is looked at again.
LEMMA AskedFacts ==
    ASSUME IInv, NEW a \in Approvals, approval[a].open, StillFits(a)
    PROVE  approval[a].id \in Ids /\ Asked(a) \in Target /\ ReadsAsGranted(approval[a].id, Asked(a))
<1>1. approval[a] \in Approval /\ ApprovalOK(a)
  BY DEF IInv
<1>2. CASE approval[a].kind = "target"
  BY <1>1, <1>2 DEF Approval, ApprovalOK, Asked, ReadsAsGranted
<1>3. CASE approval[a].kind = "containers"
  <2> DEFINE t == memory[DshRead]
  <2>1. Baseline /\ t.device = approval[a].target.device
    BY <1>3 DEF StillFits
  <2>2. t \in Target
    BY <2>1, TargetsAssumption DEF Baseline, IInv, TypeOK
  <2>3. t.preset = "read-only"
    BY <2>1, <2>2, BaselineFacts DEF Baseline
  <2> HIDE DEF t
  <2>4. /\ [t EXCEPT !.containers = TRUE] \in Target
        /\ [t EXCEPT !.containers = TRUE].preset = "read-only"
        /\ [t EXCEPT !.containers = TRUE].device = t.device
    BY <2>2, <2>3 DEF Target
  <2>5. Asked(a) = [t EXCEPT !.containers = TRUE]
    BY <1>3 DEF Asked, t
  <2>6. GrantedOn(t.device)
    BY <1>3, <2>1 DEF GrantedOn, t
  <2> QED
    BY <1>1, <1>3, <2>4, <2>5, <2>6 DEF Approval, ApprovalOK, ReadsAsGranted
<1> QED
  BY <1>1, <1>2, <1>3 DEF Approval, ApprovalOK

\* A grant stays one: approvals are never given another kind or target.
LEMMA GrantsStay ==
    ASSUME \A a \in Approvals : approval[a].kind = "containers" =>
             approval'[a].kind = "containers" /\ approval'[a].target = approval[a].target
    PROVE  \A device : GrantedOn(device) => GrantedOn(device)'
  BY DEF GrantedOn

\* The file and the registry hold what they held, or what was asked for.
LEMMA GrantsHold ==
    ASSUME IInv, NEW id \in Ids, NEW t \in Target, ReadsAsGranted(id, t), WrittenOK(id, t),
           \A a \in Approvals : approval[a].kind = "containers" =>
             approval'[a].kind = "containers" /\ approval'[a].target = approval[a].target
    PROVE  ContainersAsGranted'
<1>1. file \in [Ids -> Target \cup {NoTarget}] /\ memory \in [Ids -> Target \cup {NoTarget}]
  BY DEF IInv, TypeOK
<1>2. file'[id] = t /\ \A i \in Ids \ {id} : file'[i] = file[i]
  BY <1>1 DEF WrittenOK
<1>3. memory' = memory \/ memory' = file'
  BY DEF WrittenOK
<1>4. ASSUME NEW i \in Ids, NEW u \in {file'[i], memory'[i]} \ {NoTarget}, u.containers
      PROVE  i = DshRead /\ u.preset = "read-only" /\ GrantedOn(u.device)
  BY <1>2, <1>3, <1>4 DEF IInv, ContainersAsGranted, ReadsAsGranted
<1> QED
  BY <1>4, GrantsStay DEF ContainersAsGranted

\* A target of which nothing was granted stays so, when approvals are only added or closed.
LEMMA GrantsKept ==
    ASSUME IInv, file' = file, memory' \in {memory, file},
           \A a \in Approvals : approval[a].kind = "containers" =>
             approval'[a].kind = "containers" /\ approval'[a].target = approval[a].target
    PROVE  ContainersAsGranted'
<1>1. ASSUME NEW i \in Ids, NEW u \in {file'[i], memory'[i]} \ {NoTarget}, u.containers
      PROVE  i = DshRead /\ u.preset = "read-only" /\ GrantedOn(u.device)
  BY <1>1 DEF IInv, ContainersAsGranted
<1> QED
  BY <1>1, GrantsStay DEF ContainersAsGranted

\* An approval that goes is closed, and is what it was.
Closed(b) ==
    /\ approval'[b] \in Approval
    /\ approval'[b].kind = approval[b].kind
    /\ approval'[b].id = approval[b].id
    /\ approval'[b].target = approval[b].target
    /\ approval'[b].open => approval[b].open

LEMMA ApprovalCloses ==
    ASSUME NEW r \in Approval
    PROVE  LET closed == [r EXCEPT !.open = FALSE]
           IN /\ closed \in Approval /\ closed.kind = r.kind /\ closed.id = r.id
              /\ closed.target = r.target /\ ~closed.open
  BY DEF Approval

LEMMA ApprovalGoes ==
    ASSUME IInv, NEW a \in Approvals, approval' = [approval EXCEPT ![a].open = FALSE]
    PROVE  /\ approval' \in [Approvals -> Approval]
           /\ \A b \in Approvals : Closed(b) /\ ApprovalOK(b)'
<1>1. approval \in [Approvals -> Approval] /\ approval[a] \in Approval
  BY DEF IInv
<1>2. /\ approval'[a] = [approval[a] EXCEPT !.open = FALSE]
      /\ \A b \in Approvals \ {a} : approval'[b] = approval[b]
  BY <1>1
<1>3. ASSUME NEW b \in Approvals
      PROVE  Closed(b)
  <2>1. CASE b = a
    BY <1>1, <1>2, <2>1, ApprovalCloses DEF Closed
  <2>2. CASE b # a
    BY <1>1, <1>2, <2>2 DEF Closed
  <2> QED
    BY <2>1, <2>2
<1>4. approval' \in [Approvals -> Approval]
  BY <1>1, <1>2, <1>3 DEF Closed
<1>5. ASSUME NEW b \in Approvals
      PROVE  ApprovalOK(b)'
  BY <1>3 DEF IInv, ApprovalOK, Closed
<1> QED
  BY <1>3, <1>4, <1>5

\* A new approval is one of a target that was asked for.
LEMMA ApprovalComes ==
    ASSUME IInv, NEW a \in Approvals, approval[a].kind = "none", NEW r \in Approval,
           r.kind = "target" => r.target \in Target /\ ~r.target.containers,
           r.kind = "containers" => r.id = DshRead,
           r.kind # "none",
           approval' = [approval EXCEPT ![a] = r]
    PROVE  /\ approval' \in [Approvals -> Approval]
           /\ \A b \in Approvals : ApprovalOK(b)'
           /\ \A b \in Approvals : approval[b].kind = "containers" => approval'[b] = approval[b]
<1>1. /\ approval' \in [Approvals -> Approval]
      /\ approval'[a] = r
      /\ \A b \in Approvals \ {a} : approval'[b] = approval[b]
  BY DEF IInv
<1>2. ASSUME NEW b \in Approvals
      PROVE  ApprovalOK(b)'
  BY <1>1 DEF IInv, ApprovalOK
<1> QED
  BY <1>1, <1>2

LEMMA ApplyOK ==
    ASSUME IInv, NEW a \in Approvals, NEW actor \in Actors, Apply(a, actor)
    PROVE  IInv'
<1> DEFINE id == approval[a].id
           t == Asked(a)
<1>1. id \in Ids /\ t \in Target /\ ReadsAsGranted(id, t)
  BY AskedFacts DEF Apply
<1>2. Upsert(a, id, t) /\ UNCHANGED <<static, up, disabled, live, call>>
  BY DEF Apply
<1>3. approval' = approval \/ approval' = [approval EXCEPT ![a].open = FALSE]
  BY <1>2 DEF Upsert
<1>4. WrittenOK(id, t)
  BY <1>2 DEF Upsert, Written, WrittenOK
<1>5. approval' \in [Approvals -> Approval] /\ \A b \in Approvals : ApprovalOK(b)'
  BY <1>3, ApprovalGoes DEF IInv, ApprovalOK
<1>6. \A b \in Approvals : approval'[b].kind = approval[b].kind /\ approval'[b].target = approval[b].target
  BY <1>3, ApprovalGoes DEF Closed
<1>7. ContainersAsGranted'
  BY <1>1, <1>4, <1>6, GrantsHold
<1> QED
  BY <1>1, <1>2, <1>4, <1>5, <1>7, WriteKeepsIds DEF IInv, TypeOK, CallOK

LEMMA ApplyCrashOK ==
    ASSUME IInv, NEW a \in Approvals, ApplyCrash(a)
    PROVE  IInv'
<1>1. approval[a].id \in Ids /\ Asked(a) \in Target /\ ReadsAsGranted(approval[a].id, Asked(a))
  BY AskedFacts DEF ApplyCrash
<1>2. WrittenOK(approval[a].id, Asked(a))
  BY DEF ApplyCrash, Written, WrittenOK
<1>3. up' = FALSE /\ UNCHANGED <<static, memory, disabled, live, approval, call>>
  BY DEF ApplyCrash
<1>4. ContainersAsGranted'
  BY <1>1, <1>2, <1>3, GrantsHold
<1> QED
  BY <1>1, <1>2, <1>3, <1>4, WriteKeepsIds DEF IInv, TypeOK, CallOK, ApprovalOK

LEMMA PrepareOK ==
    ASSUME IInv, NEW a \in Approvals, NEW actor \in Actors,
           (\E offer \in Offers : Prepare(a, actor, offer)) \/ PrepareDockerRead(a, actor)
    PROVE  IInv'
<1>1. CASE \E offer \in Offers : Prepare(a, actor, offer)
  <2>1. PICK offer \in Offers : Prepare(a, actor, offer)
    BY <1>1
  <2> DEFINE r == [kind |-> "target", id |-> offer.id, target |-> offer.target, actor |-> actor,
                   open |-> TRUE]
  <2>2. offer.id \in Ids /\ offer.target \in Target /\ ~offer.target.containers
    BY TargetsAssumption
  <2>3. r \in Approval /\ r.kind = "target" /\ r.target \in Target /\ ~r.target.containers
    BY <2>2 DEF Approval
  <2>4. approval[a].kind = "none" /\ approval' = [approval EXCEPT ![a] = r]
        /\ UNCHANGED <<static, file, memory, up, disabled, live, call, served>>
    BY <2>1 DEF Prepare
  <2> HIDE DEF r
  <2>5. /\ approval' \in [Approvals -> Approval] /\ \A b \in Approvals : ApprovalOK(b)'
        /\ \A b \in Approvals : approval[b].kind = "containers" => approval'[b] = approval[b]
    BY <2>3, <2>4, ApprovalComes
  <2>6. ContainersAsGranted'
    BY <2>4, <2>5, GrantsKept
  <2> QED
    BY <2>4, <2>5, <2>6 DEF IInv, TypeOK, CallOK, IdOK
<1>2. CASE PrepareDockerRead(a, actor)
  <2> DEFINE r == [kind |-> "containers", id |-> DshRead, target |-> memory[DshRead], actor |-> actor,
                   open |-> TRUE]
  <2>1. approval[a] \in Approval /\ memory \in [Ids -> Target \cup {NoTarget}]
    BY DEF IInv, TypeOK
  <2>2. DshRead \in Ids
    BY TargetsAssumption
  <2>3. r \in Approval /\ r.kind = "containers" /\ r.id = DshRead
    BY <2>1, <2>2 DEF Approval
  <2>4. approval[a].kind = "none" /\ approval' = [approval EXCEPT ![a] = r]
        /\ UNCHANGED <<static, file, memory, up, disabled, live, call, served>>
    BY <1>2 DEF PrepareDockerRead
  <2> HIDE DEF r
  <2>5. /\ approval' \in [Approvals -> Approval] /\ \A b \in Approvals : ApprovalOK(b)'
        /\ \A b \in Approvals : approval[b].kind = "containers" => approval'[b] = approval[b]
    BY <2>3, <2>4, ApprovalComes
  <2>6. ContainersAsGranted'
    BY <2>4, <2>5, GrantsKept
  <2> QED
    BY <2>4, <2>5, <2>6 DEF IInv, TypeOK, CallOK, IdOK
<1> QED
  BY <1>1, <1>2

LEMMA StartOK ==
    ASSUME IInv, Start
    PROVE  IInv'
<1>1. /\ up' = TRUE /\ memory' = file
      /\ UNCHANGED <<static, file, disabled, live, served>>
      /\ call' = [c \in Calls |-> NoCall]
  BY DEF Start
<1>2. ASSUME NEW a \in Approvals
      PROVE  Closed(a) /\ ApprovalOK(a)'
  <2>1. approval[a] \in Approval /\ ApprovalOK(a)
    BY DEF IInv
  <2>2. approval'[a] = [approval[a] EXCEPT !.open = FALSE]
    BY DEF Start
  <2>3. Closed(a)
    BY <2>1, <2>2, ApprovalCloses DEF Closed
  <2> QED
    BY <2>1, <2>3 DEF ApprovalOK, Closed
<1>3. approval' = [a \in Approvals |-> approval'[a]]
  BY DEF Start
<1>4. approval' \in [Approvals -> Approval]
  BY <1>2, <1>3 DEF Closed
<1>5. /\ call' \in [Calls -> CallType]
      /\ \A c \in Calls : CallOK(c)'
  <2>1. NoCall \in CallType /\ NoCall.todo = << >> /\ NoCall.told = {}
    BY TargetsAssumption DEF NoCall, CallType
  <2> QED
    BY <1>1, <2>1 DEF CallOK
<1>6. \A id \in Ids : IdOK(id)'
  BY <1>1 DEF IInv, IdOK
<1>7. ContainersAsGranted'
  BY <1>1, <1>2, GrantsKept DEF Closed
<1> QED
  BY <1>1, <1>2, <1>4, <1>5, <1>6, <1>7 DEF IInv, TypeOK

\* A call keeps the target that it read, and what its caller was told of it then.
LEMMA CallToolOK ==
    ASSUME IInv, NEW c \in Calls, NEW tool \in Tools, NEW id \in Ids, CallTool(c, tool, id)
    PROVE  IInv'
<1> DEFINE t == memory[id]
           r == [id |-> id, device |-> t.device, todo |-> Operations(tool, t), told |-> served[id]]
<1>1. t \in Target /\ served[id] \subseteq Target /\ t \in served[id] /\ t.device \in Devices
  BY DEF CallTool, IInv, TypeOK, IdOK, Target
<1>2. Operations(tool, t) \in Seq(Allowed(t))
  BY <1>1, OperationsAllowed
<1>3. Operations(tool, t) \in Seq(Ops)
  BY <1>2, SeqWidens DEF Allowed
<1>4. r \in CallType /\ r.todo = Operations(tool, t) /\ r.told = served[id] /\ r.device = t.device
  BY <1>1, <1>3 DEF CallType
<1>5. call' = [call EXCEPT ![c] = r] /\ UNCHANGED <<static, file, memory, up, disabled, live, approval, served>>
  BY DEF CallTool
<1> HIDE DEF r
<1>6. /\ call' \in [Calls -> CallType]
      /\ call'[c] = r
      /\ \A d \in Calls \ {c} : call'[d] = call[d]
  BY <1>4, <1>5 DEF IInv
<1>7. ASSUME NEW d \in Calls
      PROVE  CallOK(d)'
  <2>1. CASE d = c
    BY <1>1, <1>2, <1>4, <1>6, <2>1 DEF CallOK
  <2>2. CASE d # c
    BY <1>6, <2>2 DEF IInv, CallOK
  <2> QED
    BY <2>1, <2>2
<1>8. ContainersAsGranted'
  BY <1>5, GrantsKept
<1> QED
  BY <1>5, <1>6, <1>7, <1>8 DEF IInv, TypeOK, ApprovalOK, IdOK

LEMMA SendOK ==
    ASSUME IInv, NEW c \in Calls, Send(c)
    PROVE  IInv'
<1> DEFINE r == IF Len(call[c].todo) = 1 THEN NoCall ELSE [call[c] EXCEPT !.todo = Tail(@)]
<1>1. /\ call \in [Calls -> CallType] /\ call[c] \in CallType /\ CallOK(c)
      /\ call[c].todo # << >> /\ call[c].todo \in Seq(Ops)
  BY DEF IInv, Send, CallType
<1>2. PICK t \in call[c].told : t.device = call[c].device /\ call[c].todo \in Seq(Allowed(t))
  BY <1>1 DEF CallOK
<1>3. Tail(call[c].todo) \in Seq(Allowed(t)) /\ Tail(call[c].todo) \in Seq(Ops)
  BY <1>1, <1>2
<1>4. /\ r \in CallType
      /\ r.told \subseteq Target
      /\ \/ r.todo = << >>
         \/ t \in r.told /\ t.device = r.device /\ r.todo \in Seq(Allowed(t))
  <2>1. CASE Len(call[c].todo) = 1
    BY <2>1, TargetsAssumption DEF NoCall, CallType
  <2>2. CASE Len(call[c].todo) # 1
    <3>1. r = [call[c] EXCEPT !.todo = Tail(@)]
      BY <2>2
    <3>2. /\ r \in CallType /\ r.todo = Tail(call[c].todo) /\ r.told = call[c].told
          /\ r.device = call[c].device
      BY <1>1, <1>3, <3>1 DEF CallType
    <3> QED
      BY <1>1, <1>2, <1>3, <3>2 DEF CallOK
  <2> QED
    BY <2>1, <2>2
<1>5. UNCHANGED <<static, file, memory, up, disabled, live, approval, served>>
  BY DEF Send
<1> HIDE DEF r
<1>6. /\ call' \in [Calls -> CallType]
      /\ call'[c] = r
      /\ \A d \in Calls \ {c} : call'[d] = call[d]
  <2>1. call' = [call EXCEPT ![c] = r]
    BY DEF Send, r
  <2>2. call'[c] = r /\ \A d \in Calls \ {c} : call'[d] = call[d]
    BY <1>1, <2>1
  <2>3. call' = [d \in Calls |-> call'[d]]
    BY <1>1, <2>1
  <2> QED
    BY <1>1, <1>4, <2>2, <2>3
<1>7. ASSUME NEW d \in Calls
      PROVE  CallOK(d)'
  <2>1. CASE d = c
    BY <1>4, <1>6, <2>1 DEF CallOK
  <2>2. CASE d # c
    BY <1>6, <2>2 DEF IInv, CallOK
  <2> QED
    BY <2>1, <2>2
<1>8. ContainersAsGranted'
  BY <1>5, GrantsKept
<1> QED
  BY <1>5, <1>6, <1>7, <1>8 DEF IInv, TypeOK, ApprovalOK, IdOK

LEMMA InitIInv == Init => IInv
<1> SUFFICES ASSUME Init PROVE IInv
  OBVIOUS
<1>1. file \in [Ids -> Target \cup {NoTarget}]
  BY TargetsAssumption DEF Init
<1>2. TypeOK /\ \A id \in Ids : IdOK(id)
  BY <1>1 DEF Init, TypeOK, IdOK
<1>3. NoApproval \in Approval /\ NoApproval.kind = "none" /\ ~NoApproval.open
  BY TargetsAssumption DEF NoApproval, Approval
<1>4. approval \in [Approvals -> Approval] /\ \A a \in Approvals : ApprovalOK(a)
  BY <1>3 DEF Init, ApprovalOK
<1>5. NoCall \in CallType /\ NoCall.todo = << >> /\ NoCall.told = {}
  BY TargetsAssumption DEF NoCall, CallType
<1>6. /\ call \in [Calls -> CallType]
      /\ \A c \in Calls : CallOK(c)
  BY <1>5 DEF Init, CallOK
<1>7. ContainersAsGranted
  <2>1. PICK content \in Stored : file = content /\ memory = content
    BY DEF Init
  <2>2. ASSUME NEW id \in Ids, content[id] # NoTarget, content[id].containers
        PROVE  /\ id = DshRead
               /\ content[id].preset = "read-only"
               /\ GrantedOn(content[id].device)
    <3>1. id = DshRead /\ content[id].preset = "read-only"
      BY <2>2, TargetsAssumption
    <3> QED
      BY <2>2, <3>1 DEF GrantedOn
  <2> QED
    BY <2>1, <2>2 DEF ContainersAsGranted
<1> QED
  BY <1>2, <1>4, <1>6, <1>7 DEF IInv

LEMMA NextIInv == IInv /\ [Next]_vars => IInv'
<1> SUFFICES ASSUME IInv, [Next]_vars PROVE IInv'
  OBVIOUS
<1>1. ASSUME NEW a \in Approvals, NEW actor \in Actors,
             (\E offer \in Offers : Prepare(a, actor, offer)) \/ PrepareDockerRead(a, actor)
      PROVE  IInv'
  BY <1>1, PrepareOK
<1>2. ASSUME NEW a \in Approvals, NEW actor \in Actors, Apply(a, actor) PROVE IInv'
  BY <1>2, ApplyOK
<1>3. ASSUME NEW a \in Approvals, Expire(a) PROVE IInv'
  <2>1. approval' = [approval EXCEPT ![a].open = FALSE]
        /\ UNCHANGED <<static, file, memory, up, disabled, live, call, served>>
    BY <1>3 DEF Expire
  <2>2. approval' \in [Approvals -> Approval] /\ \A b \in Approvals : Closed(b) /\ ApprovalOK(b)'
    BY <2>1, ApprovalGoes
  <2>3. ContainersAsGranted'
    BY <2>1, <2>2, GrantsKept DEF Closed
  <2> QED
    BY <2>1, <2>2, <2>3 DEF IInv, TypeOK, CallOK, IdOK
<1>4. ASSUME NEW a \in Approvals, ApplyCrash(a) PROVE IInv'
  BY <1>4, ApplyCrashOK
<1>5. CASE Start
  BY <1>5, StartOK
<1>6. ASSUME NEW reads \in BOOLEAN, NEW ids \in SUBSET StaticIds, EditStatic(reads, ids) PROVE IInv'
  <2>1. static' \in [reads : BOOLEAN, ids : SUBSET StaticIds]
        /\ UNCHANGED <<file, memory, up, disabled, live, approval, call, served>>
    BY <1>6 DEF EditStatic
  <2>2. ContainersAsGranted'
    BY <2>1, GrantsKept
  <2> QED
    BY <2>1, <2>2 DEF IInv, TypeOK, ApprovalOK, CallOK, IdOK
<1>7. ASSUME NEW id \in Ids, Disable(id) PROVE IInv'
  <2>1. ContainersAsGranted'
    BY <1>7, GrantsKept DEF Disable
  <2> QED
    BY <1>7, <2>1 DEF Disable, IInv, TypeOK, ApprovalOK, CallOK, IdOK
<1>8. ASSUME NEW d \in Devices, Liveness(d) PROVE IInv'
  <2>1. ContainersAsGranted'
    BY <1>8, GrantsKept DEF Liveness
  <2> QED
    BY <1>8, <2>1 DEF Liveness, IInv, TypeOK, ApprovalOK, CallOK, IdOK
<1>9. ASSUME NEW c \in Calls, NEW tool \in Tools, NEW id \in Ids, CallTool(c, tool, id) PROVE IInv'
  BY <1>9, CallToolOK
<1>10. ASSUME NEW c \in Calls, Send(c) PROVE IInv'
  BY <1>10, SendOK
<1>11. CASE UNCHANGED vars
  <2>1. ContainersAsGranted'
    BY <1>11, GrantsKept DEF vars
  <2> QED
    BY <1>11, <2>1 DEF vars, IInv, TypeOK, ApprovalOK, CallOK, IdOK
<1> QED
  BY <1>1, <1>2, <1>3, <1>4, <1>5, <1>6, <1>7, <1>8, <1>9, <1>10, <1>11 DEF Next

-----------------------------------------------------------------------------

\* The registry, the dynamic file, the approvals and the calls agree, in every state
\* that can be reached.
THEOREM Safety == Spec => []IInv
<1> QED
  BY InitIInv, NextIInv, PTL DEF Spec

\* The variables have their types.
THEOREM TypeCorrect == Spec => []TypeOK
<1>1. IInv => TypeOK
  BY DEF IInv
<1> QED
  BY <1>1, Safety, PTL

\* The registry holds what was applied last, or what an apply that ended in an error since
\* then asked for, and no target that was applied goes (target-approvals.ts:114-115).
THEOREM RegistryServesApplied == Spec => []ServedAsApplied
<1>1. IInv => ServedAsApplied
  BY DEF IInv, IdOK, ServedAsApplied
<1> QED
  BY <1>1, Safety, PTL

\* Containers are read only of the target that reads and has no other authority, on a
\* device that an approval named, whatever was applied between its preparation and its
\* application (deepharness-read-approval.ts:55-58, target-approvals.ts:114).
THEOREM ContainersWhereGranted == Spec => []ContainersAsGranted
<1>1. IInv => ContainersAsGranted
  BY DEF IInv
<1> QED
  BY <1>1, Safety, PTL

\* No device is sent what the summaries rule out of every target on it that its caller may
\* take it for, but for what goes beyond all summaries, whatever was applied since
\* (target-approvals.ts:51-62, paths.ts:13, tools/index.ts:1541).
THEOREM CallsStayWithinApproval == Spec => []WithinApproval
<1>1. IInv => WithinApproval
  <2> SUFFICES ASSUME IInv, NEW c \in Calls, call[c].todo # << >>
               PROVE  \E t \in call[c].told :
                        t.device = SentTo(c) /\ Head(call[c].todo) \notin RuledOut(t) \ Beyond(t)
    BY DEF WithinApproval
  <2>1. PICK t \in call[c].told : t.device = call[c].device /\ call[c].todo \in Seq(Allowed(t))
    BY DEF IInv, CallOK
  <2>2. Head(call[c].todo) \in Allowed(t)
    BY <2>1
  <2> QED
    BY <2>1, <2>2 DEF Allowed, SentTo
<1> QED
  BY <1>1, Safety, PTL

=============================================================================
