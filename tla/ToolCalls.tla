------------------------------- MODULE ToolCalls -------------------------------
(***************************************************************************)
(* Tool calls from the MCP server (server/mcp.ts) through the SSH pool and *)
(* the Portainer client to their answer, with the console's target         *)
(* controls (admin/router.ts:110-112) and the accounting of the state      *)
(* store (state/store.ts:241-279).                                         *)
(*                                                                         *)
(* A call checks that its target is enabled once, when it starts, and may  *)
(* then run several commands, one after another or at the same time.  Its  *)
(* answer is accounted for before it is given, inside the try that would   *)
(* turn a failure of the tool into an error: a state file that cannot be   *)
(* written turns an ok into an error, and counts the call twice.           *)
(***************************************************************************)
EXTENDS SshPool, Portainer

CONSTANTS
    Plans,    \* the tool of each call, and the commands it runs
    MaxFaults \* bound: failed writes of the state file, and crashes

\* "none" is a call that is never made.
Tools == {"ssh", "portainer", "probe", "none"}

\* The commands that a tool starts at once, one or several (two stand for more).
\* It waits for them all and reads what they say: "any" outcome will do (a catch on
\* each of them), and the tool may still throw at the end ("tried": no repository of
\* the allowlist is the one); a rejection or an exit code makes it throw ("exit"), or
\* it may also deny the call ("allowed": the path that realpath prints is not
\* allowed, or docker says that the user is not).  A rejection that is not caught
\* makes it throw at once, while the other command goes on.
Round == [one : Commands, other : Commands \cup {None},
          reads : {"any", "tried", "exit", "allowed"}]

CommandsOf(r) == {r.one, r.other} \ {None}

\* The tool cannot do without what the commands say.
Needed(r) == r.reads \in {"exit", "allowed"}

ASSUME ToolCallsAssumption ==
    /\ Plans \subseteq [Callers -> [tool : Tools, rounds : Seq(Round)]]
    /\ MaxFaults \in Nat

\* Every command belongs to one round of one call.
ASSUME CommandsAssumption ==
    \A plan \in Plans : \A c, d \in Callers :
        \A i \in DOMAIN plan[c].rounds, j \in DOMAIN plan[d].rounds :
            /\ plan[c].rounds[i].one # plan[c].rounds[i].other
            /\ c # d \/ i # j =>
                   CommandsOf(plan[c].rounds[i]) \cap CommandsOf(plan[d].rounds[j]) = {}

VARIABLES
    call,    \* what each call is at, and how often it was counted
    control, \* is the target enabled, in memory and on disk
    told,    \* the last revocation was answered, and no enabling followed
    ran,     \* commands that were started on the target
    faults   \* bound: faults so far

vars == <<ssh, pvars, call, control, told, ran, faults>>

\* at: "new", "running", or the answer: "ok", "denied", "error", "lost".  round:
\* the round it is at, 0 before the first.
Calling == [at : {"new", "running", "ok", "denied", "error", "lost"},
            tool : Tools, rounds : Seq(Round), round : Nat,
            oks : Nat, others : Nat, failedWrite : BOOLEAN]

TypeOK ==
    /\ SshType
    /\ call \in [Callers -> Calling]
    /\ control \in [mem : BOOLEAN, disk : BOOLEAN]
    /\ told \in BOOLEAN
    /\ ran \subseteq Commands
    /\ faults \in 0 .. MaxFaults

Init ==
    /\ SshInit
    /\ PortainerInit
    /\ \E plan \in Plans :
         call = [c \in Callers |-> [at |-> "new", tool |-> plan[c].tool,
                                   rounds |-> plan[c].rounds, round |-> 0,
                                   oks |-> 0, others |-> 0, failedWrite |-> FALSE]]
    /\ control = [mem |-> TRUE, disk |-> TRUE]
    /\ told = FALSE
    /\ ran = {}
    /\ faults = 0

Written == control' = [control EXCEPT !.disk = control.mem] /\ UNCHANGED faults
NotWritten == faults < MaxFaults /\ faults' = faults + 1 /\ UNCHANGED control

\* Mutant of Counted: an ok that could not be saved is answered all the same.
CountedAnyway(c, answer) ==
    LET r == call[c]
        one == IF answer = "ok" THEN [r EXCEPT !.oks = @ + 1] ELSE [r EXCEPT !.others = @ + 1]
    IN \/ Written /\ call' = [call EXCEPT ![c] = [one EXCEPT !.at = answer]]
       \/ /\ NotWritten
          /\ call' = [call EXCEPT ![c] = [one EXCEPT !.at = answer, !.failedWrite = TRUE,
                                                    !.others = @ + 1]]

\* audit, recordToolResult: the call is counted in memory, then the state is
\* saved.  An ok that cannot be saved is caught, and counted again as an error.
Counted(c, answer) ==
    LET r == call[c]
        one == IF answer = "ok" THEN [r EXCEPT !.oks = @ + 1] ELSE [r EXCEPT !.others = @ + 1]
    IN \/ Written /\ call' = [call EXCEPT ![c] = [one EXCEPT !.at = answer]]
       \/ /\ NotWritten
          /\ call' = [call EXCEPT ![c] =
                        [one EXCEPT !.at = "error", !.failedWrite = TRUE,
                                    !.others = one.others + (IF answer = "ok" THEN 1 ELSE 0)]]

\* The commands of a round enter the pool one after the other, at once.
EnteredRound(st, r) ==
    IF r.other = None THEN Entered(st, r.one)
    ELSE UNION {Entered(between, r.other) : between \in Entered(st, r.one)}

\* Call c starts the commands of its i-th round.
StartRound(c, i) ==
    /\ i \in DOMAIN call[c].rounds
    /\ \A x \in CommandsOf(call[c].rounds[i]) : At(x) = "out"
    /\ ssh' \in EnteredRound(ssh, call[c].rounds[i])
    /\ call' = [call EXCEPT ![c].at = "running", ![c].round = i]
    /\ UNCHANGED <<pvars, control, told, ran, faults>>

\* resolveTarget, and the first commands.
StartSsh(c) ==
    /\ call[c].at = "new"
    /\ call[c].tool \in {"ssh", "probe"}
    /\ control.mem
    /\ StartRound(c, 1)

\* A tool refuses its arguments, or answers without asking the target: of its
\* status, or of its containers when it is allowed none.
AnswerAtOnce(c) ==
    /\ call[c].at = "new"
    /\ call[c].tool = "ssh"
    /\ control.mem
    /\ \E answer \in {"denied", "error"} \cup (IF call[c].rounds = <<>> THEN {"ok"} ELSE {}) :
         Counted(c, answer)
    /\ UNCHANGED <<ssh, pvars, told, ran>>

\* TARGET_DISABLED.  The console's probe is redirected instead, uncounted.
Refused(c) ==
    /\ call[c].at = "new"
    /\ call[c].tool \in {"ssh", "probe"}
    /\ ~control.mem
    /\ IF call[c].tool = "probe"
       THEN call' = [call EXCEPT ![c].at = "denied"] /\ UNCHANGED <<control, faults>>
       ELSE Counted(c, "denied")
    /\ UNCHANGED <<ssh, pvars, told, ran>>

StartPortainer(c) ==
    /\ call[c].at = "new"
    /\ call[c].tool = "portainer"
    /\ \E o \in Orders : Ask(c, o)
    /\ call' = [call EXCEPT ![c].at = "running"]
    /\ UNCHANGED <<ssh, control, told, ran, faults>>

Current(c) == call[c].rounds[call[c].round]
Last(c) == call[c].round = Len(call[c].rounds)

\* All the commands of the round are back ...
Settled(c) == \A x \in CommandsOf(Current(c)) : At(x) \in {"resolved", "rejected"}

\* ... and one of them was rejected, with nothing to catch it.
Threw(c) == Needed(Current(c)) /\ \E x \in CommandsOf(Current(c)) : At(x) = "rejected"

\* The tool goes on: it does not look the target up again.
NextRound(c) ==
    /\ call[c].at = "running"
    /\ call[c].tool = "ssh"
    /\ Settled(c) /\ ~Threw(c)
    /\ StartRound(c, call[c].round + 1)

\* What the tool may answer, once the commands of the round are back.
Verdicts(c) ==
    (IF Last(c) THEN {"ok"} ELSE {})
    \cup (IF Current(c).reads # "any" THEN {"error"} ELSE {})
    \cup (IF Current(c).reads = "allowed" THEN {"denied"} ELSE {})

\* What a rejection makes the tool throw.  ssh2 throws an error of its own when the link
\* goes down just before the command: a path that is not resolved for that is denied.
Thrown(c) ==
    {"error"} \cup (IF Current(c).reads = "allowed" /\ CommandsOf(Current(c)) \cap ran = {}
                     THEN {"denied"} ELSE {})

\* What a call may be answered now.
Answers(c) ==
    IF call[c].tool = "portainer"
    THEN IF http[c].at = "failed" THEN {"error"} ELSE {http[c].at} \cap {"ok", "denied"}
    ELSE IF Threw(c) THEN Thrown(c)
    ELSE IF Settled(c) THEN Verdicts(c)
    ELSE {}

\* The tool returns or throws, and the call is answered.
Finish(c) ==
    /\ call[c].at = "running"
    /\ call[c].tool \in {"ssh", "portainer"}
    /\ \E answer \in Answers(c) : Counted(c, answer)
    /\ UNCHANGED <<ssh, pvars, told, ran>>

\* Everything in memory is gone; the state file is read again.
Restarted ==
    /\ ssh' = EmptyPool
    /\ PortainerRestart
    /\ call' = [c \in Callers |-> IF call[c].at = "running" THEN [call[c] EXCEPT !.at = "lost"]
                                  ELSE call[c]]
    /\ control' = [control EXCEPT !.mem = control.disk]
    /\ UNCHANGED <<told, ran>>

Crash ==
    /\ faults < MaxFaults
    /\ faults' = faults + 1
    /\ Restarted

\* The console's probe records its outcome.  When that cannot be saved the
\* handler catches it, records a failed probe instead and saves again: when
\* that fails too, nothing catches it and the process ends.
ProbeFinish(c) ==
    /\ call[c].at = "running"
    /\ call[c].tool = "probe"
    /\ Answers(c) # {}
    /\ \/ /\ Written
          /\ \E answer \in Answers(c) : call' = [call EXCEPT ![c].at = answer]
          /\ UNCHANGED <<ssh, pvars, told, ran>>
       \/ /\ faults < MaxFaults
          /\ faults' = faults + 1
          /\ Restarted

\* A console action after the last call and the last command on the target shows
\* nothing more.
CallsOnTarget ==
    \/ \E c \in Callers : call[c].tool \in {"ssh", "probe"} /\ call[c].at \in {"new", "running"}
    \/ \E x \in Commands : At(x) \notin {"out", "resolved", "rejected"}

\* Mutant of SetTargetEnabled: persist() is forgotten.
SetUnsaved(enabled) == control' = [control EXCEPT !.mem = enabled]

\* setTargetEnabled, when the state can be saved.
SetTargetEnabled(enabled) == control' = [mem |-> enabled, disk |-> enabled]

\* POST /targets/id/revoke: the pool is closed once the state is saved; when it
\* is not, the answer is a 500 and the pool stays open.
Revoke ==
    /\ CallsOnTarget
    /\ \/ /\ SetTargetEnabled(FALSE)
          /\ ssh' = PoolClosed(ssh)
          /\ told' = TRUE
          /\ UNCHANGED faults
       \/ /\ faults < MaxFaults
          /\ faults' = faults + 1
          /\ control' = [control EXCEPT !.mem = FALSE]
          /\ UNCHANGED <<ssh, told>>
    /\ UNCHANGED <<pvars, call, ran>>

\* POST /targets/id/enable.
Enable ==
    /\ CallsOnTarget
    /\ told' = FALSE
    /\ \/ SetTargetEnabled(TRUE) /\ UNCHANGED faults
       \/ /\ faults < MaxFaults
          /\ faults' = faults + 1
          /\ control' = [control EXCEPT !.mem = TRUE]
    /\ UNCHANGED <<ssh, pvars, call, ran>>

Ssh ==
    /\ SshEvent
    /\ ran' = ran \cup {x \in Commands : ssh'.job[x].at = "running"}
    /\ UNCHANGED <<pvars, call, control, told, faults>>

Http == PortainerEvent /\ UNCHANGED <<ssh, call, control, told, ran, faults>>

Next ==
    \/ Ssh
    \/ Http
    \/ \E c \in Callers :
         \/ StartSsh(c)
         \/ AnswerAtOnce(c)
         \/ Refused(c)
         \/ StartPortainer(c)
         \/ NextRound(c)
         \/ Finish(c)
         \/ ProbeFinish(c)
    \/ Revoke
    \/ Enable
    \/ Crash

Spec == Init /\ [][Next]_vars

\* An answer is not more than what was done: an ok had every command started that
\* the tool cannot do without, or its change made, and was counted once, as an ok; a
\* denied had no effect in Portainer, however late the refusal came (a token revoked
\* between two requests), and on the target nothing was started after the command
\* whose output was refused; and a call is counted twice only when a write failed,
\* and is then an error although it may have had its effect
\* (mcp.ts:34-46, store.ts:250-266, paths.ts:13-20, client.ts:71-78).
AnswersAreHonest ==
    \A c \in Callers :
        LET r == call[c] IN
        /\ r.at = "ok" /\ r.tool \in {"ssh", "probe"} =>
              \A i \in DOMAIN r.rounds : Needed(r.rounds[i]) => CommandsOf(r.rounds[i]) \subseteq ran
        /\ r.at = "ok" /\ r.tool = "portainer" /\ http[c].order.kind # "read" => c \in applied
        /\ r.at = "ok" /\ r.tool # "probe" => r.oks = 1 /\ r.others = 0
        /\ r.at = "denied" =>
              /\ c \notin applied
              /\ \A i \in DOMAIN r.rounds : CommandsOf(r.rounds[i]) \cap ran # {} =>
                    i <= r.round /\ r.rounds[r.round].reads = "allowed"
        /\ r.oks + r.others > 1 => r.at = "error" /\ r.failedWrite

\* Once the console has answered that the target is revoked, no new call is
\* admitted to it until somebody enables it, over failed writes and crashes: a call
\* that was admitted before, queued or dialling, goes on (router.ts:110,
\* store.ts:241-246).
RevokedStaysOff == told => ~control.mem /\ ~control.disk
================================================================================
