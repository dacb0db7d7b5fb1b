------------------------------- MODULE Portainer -------------------------------
(***************************************************************************)
(* The Portainer client (portainer/client.ts).  A change of a stack is two *)
(* or three requests with nothing between them that holds the stack: GET   *)
(* the stack and compare the confirmed name, merge the variables, GET the  *)
(* file of a compose stack, then PUT, POST or DELETE.                      *)
(*                                                                         *)
(* A request waits on the wire until Portainer serves it.  The caller's    *)
(* deadline aborts the fetch, not the request: Portainer may serve it      *)
(* later.  Portainer never reuses a stack id.                              *)
(***************************************************************************)
EXTENDS Naturals, FiniteSets

CONSTANTS
    Callers,  \* tool calls
    Stacks,   \* stack ids
    Names,    \* variable names
    Values,   \* variable values
    Unset,    \* no value
    Files,    \* stack files
    Orders,   \* what a tool call may ask for
    InitStacks, \* the stacks there are at the start
    MaxEdits  \* bound: edits made in Portainer itself

Env == [Names -> Values \cup {Unset}]

\* The client reads a stack's variables, its file and whether it comes from Git.
Stack == [there : BOOLEAN, git : BOOLEAN, up : BOOLEAN, env : Env, file : Files]

Kinds == {"read", "create", "update", "redeploy", "start", "stop", "delete"}

\* confirm: the name given is the stack's; set, unset, all: changes, unsetNames
\* and replaceAll of an update.
Order == [kind : Kinds, stack : Stacks, confirm : BOOLEAN,
          set : Env, unset : SUBSET Names, all : BOOLEAN]

ASSUME PortainerAssumption ==
    /\ Unset \notin Values
    /\ Orders \subseteq Order /\ Orders # {}
    /\ Files # {}
    /\ InitStacks \subseteq [Stacks -> Stack]
    /\ MaxEdits \in Nat

VARIABLES
    stacks,   \* the stacks Portainer keeps
    wire,     \* requests on their way to Portainer
    key,      \* the access token: "old" or "new"; cached by the client, in its
              \*   file, and the one Portainer takes
    http,     \* what each call is at
    applied,  \* calls whose change Portainer has made
    edits     \* edits made in Portainer itself

pvars == <<stacks, wire, key, http, applied, edits>>

NoKey == "none"

NoEnv == [n \in Names |-> Unset]
SomeFile == CHOOSE f \in Files : TRUE
SomeOrder == CHOOSE o \in Orders : TRUE

\* A call's "at": "out", "reading" the key file, "waiting" for an answer, back
\* with "ok", "denied" (no token, or Portainer refuses it) or "failed".  step: the
\* request it is at; saw and file: what it read.
Idle == [at |-> "out", step |-> "look", order |-> SomeOrder, saw |-> NoEnv, file |-> SomeFile]

PortainerInit ==
    /\ stacks \in InitStacks
    /\ wire = {}
    /\ key = [cached |-> NoKey, file |-> "old", good |-> "old"]
    /\ http = [c \in Callers |-> Idle]
    /\ applied = {}
    /\ edits = 0

Message(c, h, token) ==
    [by |-> c, step |-> h.step, order |-> h.order, saw |-> h.saw, file |-> h.file,
     token |-> token]

\* requestJson, up to the fetch: the token comes from the cache or, when there
\* is none, from its file.
Request(c, h, w) ==
    IF key.cached # NoKey
    THEN /\ http' = [http EXCEPT ![c] = [h EXCEPT !.at = "waiting"]]
         /\ wire' = w \cup {Message(c, h, key.cached)}
    ELSE /\ http' = [http EXCEPT ![c] = [h EXCEPT !.at = "reading"]]
         /\ wire' = w

Back(c, at, w) ==
    /\ http' = [http EXCEPT ![c] = [Idle EXCEPT !.at = at, !.order = http[c].order]]
    /\ wire' = w

\* A tool calls the client.  createPortainerGitStack looks at nothing first.
Ask(c, o) ==
    /\ http[c].at = "out"
    /\ Request(c, [Idle EXCEPT !.order = o,
                               !.step = IF o.kind = "create" THEN "change" ELSE "look"], wire)
    /\ UNCHANGED <<stacks, key, applied, edits>>

\* apiKey: the file is read, and the token kept.
KeyRead(c) ==
    /\ http[c].at = "reading"
    /\ key' = [key EXCEPT !.cached = key.file]
    /\ http' = [http EXCEPT ![c].at = "waiting"]
    /\ wire' = wire \cup {Message(c, http[c], key.file)}
    /\ UNCHANGED <<stacks, applied, edits>>

KeyUnreadable(c) ==
    /\ http[c].at = "reading"
    /\ Back(c, "denied", wire)
    /\ UNCHANGED <<stacks, key, applied, edits>>

\* Mutant of Merged: what the caller does not set is lost.
OnlyChanges(o, saw) == o.set

\* updatePortainerStackEnv: the variables as read, less those to unset, with the
\* changes over them.
Merged(o, saw) ==
    [n \in Names |->
        IF o.set[n] # Unset THEN o.set[n]
        ELSE IF o.all \/ n \in o.unset THEN Unset
        ELSE saw[n]]

\* What a change does to its stack in Portainer.
Changed(m) ==
    LET o == m.order
        old == stacks[o.stack]
    IN CASE o.kind = "create" -> [old EXCEPT !.there = TRUE, !.git = TRUE, !.up = TRUE,
                                             !.env = o.set]
         [] o.kind \in {"update", "redeploy"} ->
              [old EXCEPT !.up = TRUE, !.env = Merged(o, m.saw),
                          !.file = IF old.git THEN @ ELSE m.file]
         [] o.kind = "start"  -> [old EXCEPT !.up = TRUE]
         [] o.kind = "stop"   -> [old EXCEPT !.up = FALSE]
         [] o.kind = "delete" -> [old EXCEPT !.there = FALSE]

\* Is the call still waiting for the answer to m?
Waiting(m) == http[m.by].at = "waiting"

\* An answer that ends the call, or one nobody waits for any more.
Answer(m, at) ==
    IF Waiting(m) THEN Back(m.by, at, wire \ {m})
    ELSE wire' = wire \ {m} /\ http' = http

\* 401 or 403: the cached token is dropped, whichever it is by now.
ServeBadToken(m) ==
    /\ m.token # key.good
    /\ Answer(m, "denied")
    /\ key' = IF Waiting(m) THEN [key EXCEPT !.cached = NoKey] ELSE key
    /\ UNCHANGED <<stacks, applied, edits>>

\* GET /stacks/id, and what the client does with the answer.  A name that was
\* confirmed wrong and the redeploy of a stack that is not from Git are errors of
\* the arguments.
ServeLook(m) ==
    LET o == m.order
        s == stacks[o.stack]
        h == [http[m.by] EXCEPT !.saw = s.env,
                                !.step = IF o.kind = "update" /\ ~s.git THEN "file" ELSE "change"]
    IN
    /\ m.token = key.good
    /\ m.step = "look"
    /\ IF ~Waiting(m) \/ ~s.there THEN Answer(m, "failed")
       ELSE IF o.kind = "read" THEN Answer(m, "ok")
       ELSE IF ~o.confirm \/ (o.kind = "redeploy" /\ ~s.git) THEN Answer(m, "failed")
       ELSE Request(m.by, h, wire \ {m})
    /\ UNCHANGED <<stacks, key, applied, edits>>

\* GET /stacks/id/file.
ServeFile(m) ==
    LET s == stacks[m.order.stack] IN
    /\ m.token = key.good
    /\ m.step = "file"
    /\ IF ~Waiting(m) \/ ~s.there THEN Answer(m, "failed")
       ELSE Request(m.by, [http[m.by] EXCEPT !.file = s.file, !.step = "change"], wire \ {m})
    /\ UNCHANGED <<stacks, key, applied, edits>>

\* The request that changes the stack.  Portainer may answer with an error
\* before or after it has made the change.
ServeChange(m) ==
    LET o == m.order IN
    /\ m.token = key.good
    /\ m.step = "change"
    /\ \/ /\ stacks[o.stack].there = (o.kind # "create")
          /\ stacks' = [stacks EXCEPT ![o.stack] = Changed(m)]
          /\ applied' = applied \cup {m.by}
          /\ \E at \in {"ok", "failed"} : Answer(m, at)
       \/ /\ Answer(m, "failed")
          /\ UNCHANGED <<stacks, applied>>
    /\ UNCHANGED <<key, edits>>

Serve(m) == ServeBadToken(m) \/ ServeLook(m) \/ ServeFile(m) \/ ServeChange(m)

\* The request never reaches Portainer.
Lose(m) ==
    /\ wire' = wire \ {m}
    /\ UNCHANGED <<stacks, key, http, applied, edits>>

\* PORTAINER_TIMEOUT_MS, or the connection fails.
GiveUp(c) ==
    /\ http[c].at = "waiting"
    /\ Back(c, "failed", wire)
    /\ UNCHANGED <<stacks, key, applied, edits>>

Underway == \E c \in Callers : http[c].at \in {"reading", "waiting"}

\* Somebody edits a stack in Portainer itself.  (Between calls that is another
\* initial state.)
EditOutside(s) ==
    /\ edits < MaxEdits
    /\ Underway
    /\ stacks[s].there
    /\ \/ \E n \in Names, v \in Values : stacks' = [stacks EXCEPT ![s].env[n] = v]
       \/ \E f \in Files : stacks' = [stacks EXCEPT ![s].file = f]
    /\ edits' = edits + 1
    /\ UNCHANGED <<wire, key, http, applied>>

\* The operator stores a new access token and revokes the old one.
RotateKey ==
    /\ key.good = "old"
    /\ Underway
    /\ key' = [key EXCEPT !.file = "new", !.good = "new"]
    /\ UNCHANGED <<stacks, wire, http, applied, edits>>

PortainerEvent ==
    \/ \E c \in Callers : KeyRead(c) \/ KeyUnreadable(c) \/ GiveUp(c)
    \/ \E m \in wire : Serve(m) \/ Lose(m)
    \/ \E s \in Stacks : EditOutside(s)
    \/ RotateKey

\* The process restarts: its calls and its cache are gone, its requests are not.
PortainerRestart ==
    /\ http' = [c \in Callers |-> IF http[c].at = "out" THEN http[c]
                                  ELSE [Idle EXCEPT !.at = "failed", !.order = http[c].order]]
    /\ key' = [key EXCEPT !.cached = NoKey]
    /\ UNCHANGED <<stacks, wire, applied, edits>>

\* What is lost is lost to a stale read: when the stack is as the call read it,
\* an update or a redeploy changes the variables it was asked to change and no
\* other, unless it was asked to replace them all, and never the stack file.
\* When somebody came between the read and the write, their change is undone
\* (client.ts:221-231, 249-270, 306-317).
LostOnlyToStaleRead ==
    [][\A m \in wire \ wire' : m.step = "change" /\ m.order.kind \in {"update", "redeploy"} =>
         LET old == stacks[m.order.stack]
             new == stacks'[m.order.stack]
         IN /\ m.saw = old.env /\ ~m.order.all =>
                 \A n \in Names : new.env[n] # old.env[n] =>
                     n \in m.order.unset \/ m.order.set[n] # Unset
            /\ m.saw = old.env =>
                 \A n \in Names : m.order.set[n] # Unset /\ new # old => new.env[n] = m.order.set[n]
            /\ m.file = old.file => new.file = old.file]_pvars
================================================================================
