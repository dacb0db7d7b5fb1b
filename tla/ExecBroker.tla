------------------------------- MODULE ExecBroker -------------------------------
(***************************************************************************)
(* The execution broker of an agent's host (exec/broker.ts) and its client *)
(* (agent/exec-broker-client.ts): process sessions with a bounded window   *)
(* of their output, and the operations on the workspace.                   *)
(*                                                                         *)
(* The broker answers a request without ever waiting, so a request is one  *)
(* step; its answer may come after the client has given up.  A session is  *)
(* active until "close", which comes when the child is gone and nobody     *)
(* holds its pipes.  The sessions live in the broker: when it ends, systemd *)
(* kills the children with it and starts it again, empty.                  *)
(*                                                                         *)
(* The characters of a session's output are numbered from 1; the window    *)
(* holds lo + 1 .. hi.  One character stands for one byte.                 *)
(***************************************************************************)
EXTENDS Integers, FiniteSets

CONSTANTS
    SessionIds,  \* ids that may be drawn
    Readers,     \* callers of process.read that go on from next_offset
    Nobody,      \* no session
    MaxSessions, \* MAX_ACTIVE_SESSIONS
    MaxOutput,   \* MAX_OUTPUT
    MaxChunk,    \* bound: length of a chunk of output, and of a read
    MaxWritten   \* bound: characters a session writes

ASSUME ExecBrokerAssumption ==
    /\ Nobody \notin SessionIds
    /\ MaxSessions \in Nat \ {0}
    /\ MaxOutput \in Nat \ {0}
    /\ MaxChunk \in Nat \ {0}
    /\ MaxWritten \in Nat

VARIABLES
    session, \* the sessions
    reader,  \* where each reader is
    file     \* a file of the workspace: "old", "new", "none"

brokerVars == <<session, reader, file>>

\* A session's child is "alive", or "dead" while the broker has not heard of it,
\* "exited" when it has but the pipes are open, then the session is "closed",
\* and "gone" when it was reaped or lost.  "none": the id was not drawn.
States == {"none", "alive", "dead", "exited", "closed", "gone"}

Session == [state : States, lo : Nat, hi : Nat]
\* The last character a reader was given, and the last one there was when it was
\* told there were no more.
Reader == [on : SessionIds \cup {Nobody}, offset : Nat, seen : Nat, all : Nat]

BrokerTypeOK ==
    /\ session \in [SessionIds -> Session]
    /\ reader \in [Readers -> Reader]
    /\ file \in {"old", "new", "none"}

BrokerInit ==
    /\ session = [s \in SessionIds |-> [state |-> "none", lo |-> 0, hi |-> 0]]
    /\ reader = [r \in Readers |-> [on |-> Nobody, offset |-> 0, seen |-> 0, all |-> 0]]
    /\ file = "old"

\* activeSessionCount: those that are not closed.
Active == {s \in SessionIds : session[s].state \in {"alive", "dead", "exited"}}

\* Mutant of HasRoom: closed sessions and dead children are not told apart.
RoomForLiving == Cardinality({s \in SessionIds : session[s].state = "alive"}) <= MaxSessions

HasRoom == Cardinality(Active) < MaxSessions

\* process.start.  A reader that hears the answer starts to read at 0.
ProcessStart(s) ==
    /\ session[s].state = "none"
    /\ HasRoom
    /\ session' = [session EXCEPT ![s].state = "alive"]
    /\ \/ UNCHANGED reader
       \/ \E r \in Readers :
            /\ reader[r].on = Nobody
            /\ reader' = [reader EXCEPT ![r] = [on |-> s, offset |-> 0, seen |-> 0, all |-> 0]]
    /\ UNCHANGED file

\* append: the window keeps the last MAX_OUTPUT characters.
Output(s, n) ==
    /\ session[s].state \in {"alive", "dead", "exited"}
    /\ session[s].hi + n <= MaxWritten
    /\ LET top == session[s].hi + n
           low == session[s].lo
       IN session' = [session EXCEPT ![s].hi = top,
                                     ![s].lo = IF top - low > MaxOutput THEN top - MaxOutput ELSE low]
    /\ UNCHANGED <<reader, file>>

\* What a read at offset returns: the last character it holds, and "truncated".
\* The offset counts from the start of the window, wherever that is by now.
ReadEnd(s, offset, limit) ==
    LET from == session[s].lo + offset IN
    IF from >= session[s].hi THEN from
    ELSE IF from + limit > session[s].hi THEN session[s].hi ELSE from + limit

Truncated(s, offset, limit) ==
    ReadEnd(s, offset, limit) - session[s].lo < session[s].hi - session[s].lo

\* Mutant of NextOffset: the offset of the window is left in.
AbsoluteOffset(s, offset, limit) == offset

\* next_offset
NextOffset(s, offset, limit) == ReadEnd(s, offset, limit) - session[s].lo

\* process.read, by a reader that goes on from next_offset.
ProcessRead(r, limit) ==
    LET s == reader[r].on
        offset == reader[r].offset
    IN /\ s # Nobody
       /\ session[s].state \notin {"none", "gone"}
       /\ reader' = [reader EXCEPT
                       ![r].offset = NextOffset(s, offset, limit),
                       ![r].seen = IF session[s].lo + offset < session[s].hi
                                   THEN ReadEnd(s, offset, limit) ELSE @,
                       ![r].all = IF Truncated(s, offset, limit) THEN @ ELSE session[s].hi]
       /\ UNCHANGED <<session, file>>

\* process.kill, or the child's own end.
ChildEnds(s) ==
    /\ session[s].state = "alive"
    /\ session' = [session EXCEPT ![s].state = "dead"]
    /\ UNCHANGED <<reader, file>>

\* The broker hears that the child is gone.
ExitSeen(s) ==
    /\ session[s].state = "dead"
    /\ session' = [session EXCEPT ![s].state = "exited"]
    /\ UNCHANGED <<reader, file>>

\* "close": the pipes are closed too.  A process the child left behind may hold
\* them for ever.
Close(s) ==
    /\ session[s].state = "exited"
    /\ session' = [session EXCEPT ![s].state = "closed"]
    /\ UNCHANGED <<reader, file>>

\* reap: the next request after half an hour.
Reap(s) ==
    /\ session[s].state = "closed"
    /\ session' = [session EXCEPT ![s].state = "gone"]
    /\ UNCHANGED <<reader, file>>

\* The broker ends and is started again.
BrokerRestart ==
    /\ session' = [s \in SessionIds |->
                     IF session[s].state = "none" THEN session[s]
                     ELSE [session[s] EXCEPT !.state = "gone"]]
    /\ UNCHANGED <<reader, file>>

\* process.input: the write to a child that is gone unnoticed is an "error" of a
\* stream nobody listens to, and ends the broker.
ProcessInput(s) ==
    /\ session[s].state = "dead"
    /\ BrokerRestart

\* workspace.mkdir, write, edit and move: the file is replaced by a rename, and an
\* edit only when it holds the text to replace.
WorkspaceWrite == file' = "new" /\ UNCHANGED <<session, reader>>
WorkspaceEdit  == file = "old" /\ file' = "new" /\ UNCHANGED <<session, reader>>
WorkspaceMove  == file # "none" /\ file' = "none" /\ UNCHANGED <<session, reader>>

BrokerNext ==
    \/ \E s \in SessionIds :
         \/ ProcessStart(s)
         \/ \E n \in 1 .. MaxChunk : Output(s, n)
         \/ ChildEnds(s)
         \/ ExitSeen(s)
         \/ Close(s)
         \/ Reap(s)
         \/ ProcessInput(s)
    \/ \E r \in Readers, limit \in 1 .. MaxChunk : ProcessRead(r, limit)
    \/ BrokerRestart
    \/ WorkspaceWrite
    \/ WorkspaceEdit
    \/ WorkspaceMove

BrokerSpec == BrokerInit /\ [][BrokerNext]_brokerVars

\* The sessions that are not closed are never more than the limit, whatever ends,
\* fails or is left behind by a restart (broker.ts:95-99, 129).
SessionsBounded == Cardinality(Active) <= MaxSessions

\* A reader that goes on from next_offset is never given a character twice, and
\* is given one out of turn only when the window was cut (broker.ts:90-94,
\* 136-140).
ReadsInOrder ==
    [][\A r \in Readers : reader[r].on # Nobody /\ reader'[r] # reader[r] =>
         LET s == reader[r].on
             first == session[s].lo + reader[r].offset + 1
         IN /\ reader'[r].seen # reader[r].seen => first > reader[r].seen
            /\ first > reader[r].seen + 1 => session[s].lo > 0]_brokerVars

\* process.read "reads incrementally" (tools/index.ts:1214): when a reader is told
\* that there is no more (truncated is false), it was given the last character the
\* session had written.
UntruncatedIsAll == \A r \in Readers : reader[r].all <= reader[r].seen
================================================================================
