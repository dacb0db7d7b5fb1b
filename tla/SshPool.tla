-------------------------------- MODULE SshPool --------------------------------
(***************************************************************************)
(* The SSH pool of one target (ssh/pool.ts): a slot semaphore with a FIFO  *)
(* queue in front of one pooled connection.                                *)
(*                                                                         *)
(* pools is keyed by target, not by connection: whatever connection ends,  *)
(* its handlers delete the target's entry, and whatever connection becomes *)
(* ready takes it.  Two calls that find the entry empty both connect.      *)
(*                                                                         *)
(* A waiter is woken by the continuation queued in the microtask that      *)
(* released the slot, before any other event: releasing a slot and handing *)
(* it to the head of the queue is one step.                                *)
(***************************************************************************)
EXTENDS Naturals, Sequences, FiniteSets

CONSTANTS
    Commands,  \* the commands run on the target: calls of sshExec
    Links,     \* client objects; one that is closed and dropped is drawn again
    None,      \* no link, no command
    MaxActive  \* PER_TARGET_CONCURRENCY

ASSUME SshPoolAssumption ==
    /\ MaxActive \in Nat \ {0}
    /\ None \notin Links \cup Commands

VARIABLE ssh

\* Where a command is: "out" of the pool, "queued" for a slot, "dialling" a link,
\* "opening" a channel, "running" the command, "closing" the channel after the
\* command's deadline, "cut" when it failed but still holds its slot, "severed"
\* when its link went away under the command, "resolved" and "rejected" when it is
\* back.
Places == {"out", "queued", "dialling", "opening", "running", "closing", "cut",
           "severed", "resolved", "rejected"}

SshType ==
    ssh \in [link   : [Links -> {"none", "dialling", "ready", "ending"}],
             pool   : Links \cup {None},
             active : Nat,
             queue  : Seq(Commands),
             job    : [Commands -> [at : Places, on : Links \cup {None}]]]

NoJob == [at |-> "out", on |-> None]

EmptyPool ==
    [link |-> [l \in Links |-> "none"], pool |-> None, active |-> 0,
     queue |-> <<>>, job |-> [c \in Commands |-> NoJob]]

SshInit == ssh = EmptyPool

At(c) == ssh.job[c].at
On(c) == ssh.job[c].on

InSlot(at) == at \in {"dialling", "opening", "running", "closing", "cut", "severed"}

Put(st, c, at, l) == [st EXCEPT !.job = [@ EXCEPT ![c] = [at |-> at, on |-> l]]]

\* ensureConnected: the pooled link if there is one, else a link of its own;
\* the key file may be unreadable and connect() may throw.  (A dial that finds
\* no client object left in Links can only fail.)
Begin(st, c) ==
    IF st.pool # None
    THEN {Put(st, c, "opening", st.pool)}
    ELSE {Put(st, c, "cut", None)} \cup
         LET free == {l \in Links : st.link[l] = "none"}
             new == CHOOSE l \in free : TRUE
         IN IF free = {} THEN {}
            ELSE {Put([st EXCEPT !.link = [@ EXCEPT ![new] = "dialling"]], c, "dialling", new)}

\* withSlot, on entry.
Entered(st, c) ==
    IF st.active >= MaxActive
    THEN {[Put(st, c, "queued", None) EXCEPT !.queue = Append(@, c)]}
    ELSE Begin([st EXCEPT !.active = @ + 1], c)

\* Mutant of Left: the slot is given back and the waiter is woken without it.
WokenWithoutSlot(st, c, at) ==
    LET back == [Put(st, c, at, None) EXCEPT !.active = @ - 1] IN
    IF st.queue = <<>> THEN {back}
    ELSE Begin([back EXCEPT !.queue = Tail(@)], Head(st.queue))

\* withSlot, finally: the command is back with its outcome and the slot goes to the
\* head of the queue.
Left(st, c, at) ==
    LET back == Put(st, c, at, None) IN
    IF st.queue = <<>> THEN {[back EXCEPT !.active = @ - 1]}
    ELSE Begin([back EXCEPT !.queue = Tail(@)], Head(st.queue))

\* Mutant of WithPool: the entry outlives its connection.
KeepsPool(st, l) == IF l = None THEN st ELSE [st EXCEPT !.pool = l]

\* pools.delete(t.id) and pools.set(t.id, ...), whatever was there before.
WithPool(st, l) == [st EXCEPT !.pool = l]

\* "ready": the link is pooled and its command asks for a channel.
Ready(l) ==
    /\ ssh.link[l] = "dialling"
    /\ ssh' = [WithPool(ssh, l) EXCEPT
                 !.link = [@ EXCEPT ![l] = "ready"],
                 !.job = [c \in Commands |->
                            IF ssh.job[c] = [at |-> "dialling", on |-> l]
                            THEN [at |-> "opening", on |-> l] ELSE ssh.job[c]]]

\* The connect timer: end() and reject.
ConnectTimeout(l) ==
    /\ ssh.link[l] = "dialling"
    /\ ssh' = [ssh EXCEPT
                 !.link = [@ EXCEPT ![l] = "ending"],
                 !.job = [c \in Commands |->
                            IF ssh.job[c] = [at |-> "dialling", on |-> l]
                            THEN [at |-> "cut", on |-> None] ELSE ssh.job[c]]]

\* "error": a refused host key, a network or authentication failure, or a lost
\* keepalive on a link that was up.
LinkError(l) ==
    /\ ssh.link[l] \in {"dialling", "ready"}
    /\ ssh' = [WithPool(ssh, None) EXCEPT
                 !.link = [@ EXCEPT ![l] = "ending"],
                 !.job = [c \in Commands |->
                            IF ssh.job[c] = [at |-> "dialling", on |-> l]
                            THEN [at |-> "cut", on |-> None] ELSE ssh.job[c]]]

\* "close": every channel of the link ends with it.
LinkClose(l) ==
    /\ ssh.link[l] \in {"ready", "ending"}
    /\ ssh' = [WithPool(ssh, None) EXCEPT
                 !.link = [@ EXCEPT ![l] = "none"],
                 !.job = [c \in Commands |->
                            CASE On(c) # l -> ssh.job[c]
                              [] On(c) = l /\ At(c) = "running" -> [at |-> "severed", on |-> None]
                              [] OTHER -> [at |-> "cut", on |-> None]]]

\* The server opens the channel: the command starts.
Open(c) ==
    /\ At(c) = "opening"
    /\ ssh' = Put(ssh, c, "running", On(c))

\* ... or refuses it.
OpenRefused(c) ==
    /\ At(c) = "opening"
    /\ ssh' \in Left(ssh, c, "rejected")

\* The command ends, with whatever exit code.
CommandEnds(c) ==
    /\ At(c) = "running"
    /\ ssh' \in Left(ssh, c, "resolved")

\* The command's deadline: close the channel and wait for its "close".
CommandTimeout(c) ==
    /\ At(c) = "running"
    /\ ssh' = Put(ssh, c, "closing", On(c))

\* The end of a command that could not start, or timed out.
Reject(c) ==
    /\ At(c) \in {"cut", "closing"}
    /\ ssh' \in Left(ssh, c, "rejected")

\* A severed command resolves all the same, without an exit code.
Severed(c) ==
    /\ At(c) = "severed"
    /\ ssh' \in Left(ssh, c, "resolved")

\* closeTargetPool.
PoolClosed(st) ==
    IF st.pool = None THEN st
    ELSE [st EXCEPT !.link = [@ EXCEPT ![st.pool] = "ending"], !.pool = None]

\* startIdleSweeper: the entry was not used for five minutes, longer than any
\* command may run.
Sweep ==
    /\ ssh.pool # None
    /\ \A c \in Commands : On(c) = ssh.pool => At(c) # "running"
    /\ ssh' = PoolClosed(ssh)

LinkEvent ==
    \E l \in Links : Ready(l) \/ ConnectTimeout(l) \/ LinkError(l) \/ LinkClose(l)

JobEvent(c) ==
    \/ Open(c)
    \/ OpenRefused(c)
    \/ CommandEnds(c)
    \/ CommandTimeout(c)
    \/ Reject(c)
    \/ Severed(c)

SshEvent == LinkEvent \/ (\E c \in Commands : JobEvent(c)) \/ Sweep

SshInSlot == {c \in Commands : InSlot(At(c))}
SshQueued == {c \in Commands : At(c) = "queued"}

\* The semaphore counts the commands that hold a slot, never more than the limit,
\* and nobody waits while a slot is free: a slot handed over twice or lost would
\* flood the host or leave its commands waiting for ever (pool.ts:15).
SlotsAccounted ==
    /\ ssh.active = Cardinality(SshInSlot)
    /\ ssh.active <= MaxActive
    /\ SshQueued = {ssh.queue[i] : i \in 1 .. Len(ssh.queue)}
    /\ Len(ssh.queue) = Cardinality(SshQueued)
    /\ SshQueued # {} => ssh.active = MaxActive

\* A pooled link can be used: it is neither closed nor closing, although any
\* link may end at any moment and the entry is shared by all of them
\* (pool.ts:19-20, 22).
PooledLinkIsUp == ssh.pool # None => ssh.link[ssh.pool] = "ready"
================================================================================
