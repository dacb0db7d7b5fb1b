---------------------------- MODULE AgentOperations ----------------------------
(***************************************************************************)
(* What an agent does with an operation (agent/operations.ts) and the two  *)
(* local services it asks: the Docker proxy (docker/read-proxy.ts), which  *)
(* asks the Docker daemon, and OpenHands (agent/openhands.ts).             *)
(*                                                                         *)
(* An operation is a chain of requests to a backend, one after the other.  *)
(* A chain of the proxy goes on when the agent has given up or is gone: the *)
(* proxy never looks at the connection of its caller.  A chain of the agent *)
(* (OpenHands, a local command) ends with the agent's patience.  In both   *)
(* cases a request that was sent may take effect after its sender stopped  *)
(* waiting for it.                                                         *)
(*                                                                         *)
(* A candidate container has a name, which Docker gives to one container   *)
(* at a time, and an id, which it gives once: the job that created it.     *)
(***************************************************************************)
EXTENDS Naturals, Sequences, FiniteSets

CONSTANTS
    Jobs,      \* operations the agent is asked to execute
    Menus,     \* the kinds they may be of
    NoJob,     \* no container
    MaxFaults  \* bound: broken requests, timeouts, crashes and restarts

Kinds == {"exec", "readback", "paperclip", "action", "load", "run", "start", "stop", "remove",
          "openhands", "command"}

ASSUME AgentOperationsAssumption ==
    /\ Menus \subseteq [Jobs -> Kinds]
    /\ NoJob \notin Jobs
    /\ MaxFaults \in Nat

VARIABLES
    kind,   \* the kind of each operation
    answer, \* what the gateway's request to the agent came to
    left,   \* the requests to the backend that a job's chain has left
    did,    \* the jobs whose effect took place
    late,   \* the jobs whose last request may still take effect, and which it was
    box,    \* the candidate container of the one name: its id and whether it runs
    upset,  \* the jobs one of whose requests broke off
    broken  \* the faults so far

vars == <<kind, answer, left, did, late, box, upset, broken>>

\* The requests of a chain.  "find" and "prepare" change nothing, "act" is the
\* effect, "look" asks for the exit code; "undo" is the removal of a candidate
\* that would not start.
Requests == {"find", "prepare", "act", "look", "create", "undo"}

\* docker.exec: the container is looked for, then an exec is created, started and
\* inspected.
ExecChain == <<"find", "prepare", "act", "look">>

\* handlePostgresPinnedReadback: the same with a container that is configured.
ReadbackChain == <<"prepare", "act", "look">>

\* handlePaperclipSemantic.
PaperclipChain == <<"prepare", "act", "look">>

\* start, stop and restart of another container, given by its id.
ActionChain == <<"find", "act">>

\* The same of the container that has the candidates' name, given by it; "start" is
\* also restart.  (Given by its id it is done to that container or to none, which is
\* no more than what the name may come to.)
NamedActionChain == <<"act">>

\* images/load
LoadChain == <<"act">>

\* candidates/run
RunChain == <<"create", "act">>

\* candidates/<name>/remove
RemoveChain == <<"act">>

\* openhands.start: the settings are read, then the conversation is started.
OpenHandsChain == <<"find", "act">>

\* A command of the host: a child process.
CommandChain == <<"act">>

Chain(k) ==
    CASE k = "exec"      -> ExecChain
      [] k = "readback"  -> ReadbackChain
      [] k = "paperclip" -> PaperclipChain
      [] k = "action"    -> ActionChain
      [] k = "load"      -> LoadChain
      [] k = "run"       -> RunChain
      [] k = "start"     -> NamedActionChain
      [] k = "stop"      -> NamedActionChain
      [] k = "remove"    -> RemoveChain
      [] k = "openhands" -> OpenHandsChain
      [] k = "command"   -> CommandChain

OfProxy(j) == kind[j] \notin {"openhands", "command"}

NoBox == [by |-> NoJob, runs |-> FALSE]

TypeOK ==
    /\ kind \in Menus
    /\ answer \in [Jobs -> {"unasked", "waiting", "ok", "refused", "failed", "timeout"}]
    /\ left \in [Jobs -> Seq(Requests)]
    /\ did \subseteq Jobs
    /\ late \subseteq Jobs \X Requests
    /\ box \in [by : Jobs \cup {NoJob}, runs : BOOLEAN]
    /\ upset \subseteq Jobs
    /\ broken \in 0 .. MaxFaults

Init ==
    /\ kind \in Menus
    /\ answer = [j \in Jobs |-> "unasked"]
    /\ left = [j \in Jobs |-> << >>]
    /\ did = {}
    /\ late = {}
    /\ box = NoBox
    /\ upset = {}
    /\ broken = 0

\* Mutant of BoxAfter: the candidate that would not start is removed by its name.
UndoneByName(j, request) ==
    CASE request = "create" /\ box.by = NoJob -> [by |-> j, runs |-> FALSE]
      [] request = "act" /\ kind[j] = "run" /\ box.by = j -> [by |-> j, runs |-> TRUE]
      [] request = "act" /\ kind[j] \in {"start", "stop"} /\ box.by # NoJob ->
             [by |-> box.by, runs |-> kind[j] = "start"]
      [] request = "act" /\ kind[j] = "remove" -> NoBox
      [] request = "undo" -> NoBox
      [] OTHER -> box

\* The effect of a request on the candidates.  Create needs the name; a run's own
\* start and its undo go by the id, the undo by force; start, stop and remove go by
\* the name, remove by force.
BoxAfter(j, request) ==
    CASE request = "create" /\ box.by = NoJob -> [by |-> j, runs |-> FALSE]
      [] request = "act" /\ kind[j] = "run" /\ box.by = j -> [by |-> j, runs |-> TRUE]
      [] request = "act" /\ kind[j] \in {"start", "stop"} /\ box.by # NoJob ->
             [by |-> box.by, runs |-> kind[j] = "start"]
      [] request = "act" /\ kind[j] = "remove" -> NoBox
      [] request = "undo" /\ box.by = j -> NoBox
      [] OTHER -> box

\* Whether the daemon can do it, in the proxy's eyes: a start or stop that finds the
\* container so already (304) is done, but a run's own start is then refused.
Possible(j, request) ==
    CASE request = "create" -> box.by = NoJob
      [] request = "act" /\ kind[j] = "run" -> box.by = j /\ ~box.runs
      [] request = "act" /\ kind[j] \in {"start", "stop", "remove"} -> box.by # NoJob
      [] OTHER -> TRUE

\* The request takes effect.
Effect(j, request) ==
    /\ box' = BoxAfter(j, request)
    /\ did' = IF request = "act" /\ Possible(j, request) THEN did \cup {j} ELSE did

NoEffect == UNCHANGED <<box, did>>

\* The answer reaches the agent if it still waits for it.
Tell(j, a) == answer' = [answer EXCEPT ![j] = IF @ = "waiting" THEN a ELSE @]

\* executeAgentOperation, and the proxy's checks of what it is asked for: the
\* allowlists and the form of the arguments, before the first request.
Ask(j) ==
    /\ answer[j] = "unasked"
    /\ \/ /\ answer' = [answer EXCEPT ![j] = "waiting"]
          /\ left' = [left EXCEPT ![j] = Chain(kind[j])]
       \/ /\ answer' = [answer EXCEPT ![j] = "refused"]
          /\ UNCHANGED left
    /\ UNCHANGED <<kind, did, late, box, upset, broken>>

\* The backend does what it is asked: the chain goes on, or its end is told.  The
\* removal that was to be done is told as the refusal it is for.
Done(j) ==
    /\ left[j] # << >>
    /\ LET request == Head(left[j]) IN
       /\ Possible(j, request)
       /\ Effect(j, request)
       /\ left' = [left EXCEPT ![j] = Tail(@)]
       /\ IF Len(left[j]) > 1 THEN UNCHANGED answer
          ELSE Tell(j, IF request = "undo" THEN "refused" ELSE "ok")
    /\ UNCHANGED <<kind, late, upset, broken>>

\* Mutant of AfterRefusal: a candidate that would not start is left as it is.
NotUndone(j, request) == << >>

\* What follows a request that was refused.
AfterRefusal(j, request) ==
    IF kind[j] = "run" /\ request = "act" THEN <<"undo">> ELSE << >>

\* Mutant of RefusalTold: the status of an exec's start is not looked at.
StartUnchecked(j, request) ==
    IF request = "act" /\ kind[j] = "exec" THEN "ok" ELSE "refused"

\* What a refusal is told as.  A candidate that is not there counts as removed, and an
\* exit code that cannot be read as 1; a command that fails may have done a part.
RefusalTold(j, request) ==
    CASE ~Possible(j, request) /\ kind[j] = "remove" -> "ok"
      [] request = "look" \/ kind[j] = "command" -> "failed"
      [] OTHER -> "refused"

\* The backend refuses.
Refuse(j) ==
    /\ left[j] # << >>
    /\ LET request == Head(left[j]) IN
       /\ left' = [left EXCEPT ![j] = AfterRefusal(j, request)]
       /\ IF AfterRefusal(j, request) # << >> THEN UNCHANGED answer
          ELSE Tell(j, RefusalTold(j, request))
       /\ upset' = IF request = "undo" THEN upset \cup {j} ELSE upset
    /\ NoEffect
    /\ UNCHANGED <<kind, late, broken>>

\* The request breaks off: a reset, a timeout, an answer too large.  It took
\* effect, or will, or not.
BreaksOff(j) ==
    LET request == Head(left[j]) IN
    /\ \/ Effect(j, request) /\ UNCHANGED late
       \/ NoEffect /\ late' = late \cup {<<j, request>>}
    /\ upset' = upset \cup {j}
    /\ left' = [left EXCEPT ![j] = << >>]
    /\ UNCHANGED kind

\* What a request that breaks off is told as: the proxy's handler throws, and answers
\* 502.  The removal of a candidate is caught, and told as the refusal it is for; the
\* readback catches whatever is thrown, and answers 400 or 403.
BreakTold(j) ==
    IF Head(left[j]) = "undo" \/ kind[j] = "readback" THEN "refused" ELSE "failed"

Break(j) ==
    /\ left[j] # << >>
    /\ broken < MaxFaults
    /\ broken' = broken + 1
    /\ BreaksOff(j)
    /\ Tell(j, BreakTold(j))

\* A request whose sender is gone takes effect.
Late(j, request) ==
    /\ <<j, request>> \in late
    /\ late' = late \ {<<j, request>>}
    /\ Effect(j, request)
    /\ UNCHANGED <<kind, answer, left, upset, broken>>

\* The agent's patience ends: its request is aborted, or its child killed.  A
\* chain of the agent ends with it.
GiveUp(j) ==
    /\ answer[j] = "waiting"
    /\ broken < MaxFaults
    /\ broken' = broken + 1
    /\ answer' = [answer EXCEPT ![j] = "timeout"]
    /\ IF OfProxy(j) THEN UNCHANGED <<kind, left, did, late, box, upset>> ELSE BreaksOff(j)

Cut(js) ==
    /\ left' = [j \in Jobs |-> IF j \in js THEN << >> ELSE left[j]]
    /\ late' = late \cup {<<j, Head(left[j])>> : j \in js}
    /\ upset' = upset \cup js
    /\ broken < MaxFaults
    /\ broken' = broken + 1
    /\ NoEffect
    /\ UNCHANGED kind

Underway == {j \in Jobs : left[j] # << >>}

\* The agent ends and starts again: nobody hears what its operations came to.
AgentRestart ==
    /\ Cut({j \in Underway : ~OfProxy(j)})
    /\ answer' = [j \in Jobs |-> IF answer[j] = "waiting" THEN "timeout" ELSE answer[j]]

\* The proxy ends and starts again: its callers' connections are reset.
ProxyRestart ==
    /\ Cut({j \in Underway : OfProxy(j)})
    /\ answer' = [j \in Jobs |-> IF answer[j] = "waiting" /\ OfProxy(j) THEN "failed" ELSE answer[j]]

\* The process of a candidate ends by itself; nothing starts it again.
Ends ==
    /\ box.runs
    /\ box' = [box EXCEPT !.runs = FALSE]
    /\ UNCHANGED <<kind, answer, left, did, late, upset, broken>>

Next ==
    \/ \E j \in Jobs :
         \/ Ask(j)
         \/ Done(j)
         \/ Refuse(j)
         \/ Break(j)
         \/ GiveUp(j)
         \/ \E request \in Requests : Late(j, request)
    \/ AgentRestart
    \/ ProxyRestart
    \/ Ends

Spec == Init /\ [][Next]_vars

\* A code of 0 means the operation was done, and the daemon's refusal, passed on,
\* that it was not: a candidate that was refused runs only if somebody else started
\* it.  (The readback answers a refusal for whatever broke off, too.)
\* (read-proxy.ts:205-209, 253-333).
AnswersMatchEffects ==
    \A j \in Jobs :
        /\ answer[j] = "ok" => j \in did \/ kind[j] = "remove"
        /\ answer[j] = "refused" /\ kind[j] # "readback" =>
              /\ j \notin did
              /\ box.by = j /\ box.runs => \E k \in did : kind[k] = "start"

\* A candidate that its own job did not start, running or not, stays behind only if
\* a request of that job broke off or its clean-up was refused
\* (read-proxy.ts:274-279).
LeftoverHasCause ==
    box.by # NoJob /\ box.by \notin did => left[box.by] # << >> \/ box.by \in upset

\* A candidate is removed by a job that was asked to remove it, or by the clean-up of
\* the job that created it, which did not get it to run, however late that comes: never
\* by the clean-up of another job, whose candidate had the name before, and never once
\* its own job has started it (read-proxy.ts:279, 289).
OnlyOwnCleanup ==
    [][box.by # NoJob /\ box'.by # box.by =>
         \E j \in Jobs :
           \/ kind[j] = "remove" /\ (left'[j] # left[j] \/ <<j, "act">> \in late \ late')
           \/ j = box.by /\ j \notin did /\ (left[j] = <<"undo">> \/ <<j, "undo">> \in late \ late')]_vars
================================================================================
