----------------------------- MODULE AgentHostProofs -----------------------------
(***************************************************************************)
(* Proofs about an agent's host.  For any jobs of any kinds and any number *)
(* of faults: the operations of an agent answer what they did, and clean   *)
(* up only what is theirs (AgentOperations).  For any sessions, readers    *)
(* and limits: the limit on the sessions of the execution broker, and the  *)
(* order in which a reader is given a session's output (ExecBroker).       *)
(***************************************************************************)
EXTENDS AgentOperations, ExecBroker, FiniteSetTheorems, TLAPS

-----------------------------------------------------------------------------
(* The operations of the agent *)

\* The ends of the chains.
PrepareOn == <<"prepare", "act", "look">>
ActOn == <<"act", "look">>
FindAct == <<"find", "act">>
ActOnly == <<"act">>

\* What a chain may have left while its effect is ahead.
Ahead(k) ==
    CASE k = "exec" -> {ExecChain, PrepareOn, ActOn}
      [] k \in {"readback", "paperclip"} -> {PrepareOn, ActOn}
      [] k \in {"action", "openhands"} -> {FindAct, ActOnly}
      [] k = "run" -> {RunChain, ActOnly}
      [] OTHER -> {ActOnly}

\* What a chain may have left when its effect was done, or refused.
Look == <<"look">>
Undo == <<"undo">>

\* Where a chain stands tells whether its effect took place.
ChainOK(j) ==
    /\ left[j] \in Ahead(kind[j]) \cup {Look, Undo, << >>}
    /\ left[j] \in Ahead(kind[j]) => j \notin did
    /\ left[j] = Look => kind[j] # "run" /\ j \in did
    /\ left[j] = Undo => kind[j] = "run" /\ j \notin did

\* An answer is out when the chain is, and says what was done.
AnswerOK(j) ==
    /\ left[j] # << >> => answer[j] \in {"waiting", "timeout"}
    /\ answer[j] = "waiting" => left[j] # << >>
    /\ answer[j] = "unasked" => j \notin did
    /\ answer[j] = "ok" => j \in did \/ kind[j] = "remove"
    /\ answer[j] = "refused" /\ kind[j] # "readback" => j \notin did

\* A job leaves at most one request behind, when its chain is cut, and a refusal was
\* told only of the removal of a candidate that it did not start, or by the readback.
LateOK(j) ==
    \A r \in Requests : <<j, r>> \in late =>
        /\ left[j] = << >>
        /\ j \in upset
        /\ \A q \in Requests : <<j, q>> \in late => q = r
        /\ r = "create" => kind[j] = "run"
        /\ r = "undo" => kind[j] = "run" /\ j \notin did
        /\ \/ answer[j] \in {"failed", "timeout"}
           \/ answer[j] = "refused" /\ (r = "undo" \/ kind[j] = "readback")

\* The candidate is of a job that was to run one, and that job started it, or has it to
\* start or remove, or left it behind when something broke off.
BoxOK(j) ==
    /\ left[j] = RunChain \/ answer[j] = "unasked" => box.by # j
    /\ box.by = j => kind[j] = "run"
    /\ box.by = j /\ j \notin did => left[j] # << >> \/ j \in upset

JobOK(j) == ChainOK(j) /\ AnswerOK(j) /\ LateOK(j) /\ BoxOK(j)

\* A candidate that runs was started by its own job, or by one that was asked to start
\* what has the name.
RunsOK ==
    box.runs => box.by # NoJob /\ (box.by \in did \/ \E k \in did : kind[k] = "start")

\* The inductive invariant.
IInv ==
    /\ TypeOK
    /\ RunsOK
    /\ \A j \in Jobs : JobOK(j)

\* Head and tail of the short sequences.
LEMMA OneFacts ==
    ASSUME NEW a
    PROVE  <<a>> # << >> /\ Head(<<a>>) = a /\ Tail(<<a>>) = << >> /\ Len(<<a>>) = 1
  OBVIOUS

LEMMA TwoFacts ==
    ASSUME NEW a, NEW b
    PROVE  /\ <<a, b>> # << >> /\ Head(<<a, b>>) = a /\ Tail(<<a, b>>) = <<b>>
           /\ Len(<<a, b>>) = 2
  OBVIOUS

LEMMA ThreeFacts ==
    ASSUME NEW a, NEW b, NEW c
    PROVE  /\ <<a, b, c>> # << >> /\ Head(<<a, b, c>>) = a /\ Tail(<<a, b, c>>) = <<b, c>>
           /\ Len(<<a, b, c>>) = 3
  OBVIOUS

LEMMA FourFacts ==
    ASSUME NEW a, NEW b, NEW c, NEW d
    PROVE  /\ <<a, b, c, d>> # << >> /\ Head(<<a, b, c, d>>) = a
           /\ Tail(<<a, b, c, d>>) = <<b, c, d>> /\ Len(<<a, b, c, d>>) = 4
  OBVIOUS

\* The chains and their ends.
LEMMA ChainHeads ==
    /\ Head(ExecChain) = "find" /\ Tail(ExecChain) = PrepareOn /\ Len(ExecChain) = 4
    /\ Head(PrepareOn) = "prepare" /\ Tail(PrepareOn) = ActOn /\ Len(PrepareOn) = 3
    /\ Head(ActOn) = "act" /\ Tail(ActOn) = Look /\ Len(ActOn) = 2
    /\ Head(FindAct) = "find" /\ Tail(FindAct) = ActOnly /\ Len(FindAct) = 2
    /\ Head(RunChain) = "create" /\ Tail(RunChain) = ActOnly /\ Len(RunChain) = 2
    /\ Head(ActOnly) = "act" /\ Tail(ActOnly) = << >> /\ Len(ActOnly) = 1
    /\ Head(Look) = "look" /\ Tail(Look) = << >> /\ Len(Look) = 1
    /\ Head(Undo) = "undo" /\ Tail(Undo) = << >> /\ Len(Undo) = 1
<1>1. Head(ExecChain) = "find" /\ Tail(ExecChain) = PrepareOn /\ Len(ExecChain) = 4
  BY FourFacts DEF ExecChain, PrepareOn
<1>2. Head(PrepareOn) = "prepare" /\ Tail(PrepareOn) = ActOn /\ Len(PrepareOn) = 3
  BY ThreeFacts DEF PrepareOn, ActOn
<1>3. Head(ActOn) = "act" /\ Tail(ActOn) = Look /\ Len(ActOn) = 2
  BY TwoFacts DEF ActOn, Look
<1>4. Head(FindAct) = "find" /\ Tail(FindAct) = ActOnly /\ Len(FindAct) = 2
  BY TwoFacts DEF FindAct, ActOnly
<1>5. Head(RunChain) = "create" /\ Tail(RunChain) = ActOnly /\ Len(RunChain) = 2
  BY TwoFacts DEF RunChain, ActOnly
<1>6. Head(ActOnly) = "act" /\ Tail(ActOnly) = << >> /\ Len(ActOnly) = 1
  BY OneFacts DEF ActOnly
<1>7. Head(Look) = "look" /\ Tail(Look) = << >> /\ Len(Look) = 1
  BY OneFacts DEF Look
<1>8. Head(Undo) = "undo" /\ Tail(Undo) = << >> /\ Len(Undo) = 1
  BY OneFacts DEF Undo
<1> QED
  BY <1>1, <1>2, <1>3, <1>4, <1>5, <1>6, <1>7, <1>8

LEMMA ChainTypes ==
    /\ ExecChain \in Seq(Requests) /\ PrepareOn \in Seq(Requests) /\ ActOn \in Seq(Requests)
    /\ FindAct \in Seq(Requests) /\ RunChain \in Seq(Requests) /\ ActOnly \in Seq(Requests)
    /\ Look \in Seq(Requests) /\ Undo \in Seq(Requests) /\ << >> \in Seq(Requests)
    /\ Len(<< >>) = 0
  BY DEF ExecChain, PrepareOn, ActOn, FindAct, RunChain, ActOnly, Look, Undo, Requests

\* What is ahead of a chain is never taken for its end, and only the chain that runs a
\* candidate starts with its creation.
LEMMA ChainsDiffer ==
    /\ \A s \in {ExecChain, PrepareOn, ActOn, FindAct, RunChain, ActOnly} :
         s # << >> /\ s # Look /\ s # Undo
    /\ \A s \in {ExecChain, PrepareOn, ActOn, FindAct, ActOnly, Look, Undo, << >>} : s # RunChain
    /\ Look # << >> /\ Undo # << >> /\ Look # Undo
<1>1. \A s \in {ExecChain, PrepareOn, ActOn, FindAct, RunChain, ActOnly} :
         s # << >> /\ s # Look /\ s # Undo
  BY ChainHeads, ChainTypes
<1>2. \A s \in {ExecChain, PrepareOn, ActOn, FindAct, ActOnly, Look, Undo, << >>} : s # RunChain
  BY ChainHeads, ChainTypes
<1>3. Look # << >> /\ Undo # << >> /\ Look # Undo
  BY ChainHeads, ChainTypes
<1> QED
  BY <1>1, <1>2, <1>3

\* What is ahead of a chain whose effect was not yet asked for.
LEMMA ChainFacts ==
    ASSUME NEW k \in Kinds, NEW s \in Ahead(k)
    PROVE  /\ s # << >> /\ s # Look /\ s # Undo
           /\ Head(s) \in {"find", "prepare", "act", "create"}
           /\ Head(s) # "act" => Tail(s) \in Ahead(k) /\ Len(s) > 1 /\ Tail(s) # RunChain
           /\ Head(s) = "act" => \/ Len(s) > 1 /\ Tail(s) = Look /\ k # "run"
                                 \/ ~(Len(s) > 1) /\ Tail(s) = << >>
           /\ Head(s) # "act" /\ k = "run" => Head(s) = "create"
           /\ Head(s) = "create" => k = "run"
           /\ Head(s) = "create" <=> s = RunChain
           /\ s \in Seq(Requests)
<1>1. CASE k = "exec"
  <2>1. Ahead(k) = {ExecChain, PrepareOn, ActOn}
    BY <1>1 DEF Ahead
  <2>2. CASE s = ExecChain
    <3>1. Head(s) = Head(ExecChain) /\ Tail(s) = Tail(ExecChain) /\ Len(s) = Len(ExecChain)
      BY <2>2
    <3>2. Tail(s) \in Ahead(k) /\ Tail(s) # RunChain
      BY <2>1, <3>1, ChainHeads, ChainsDiffer
    <3>3. s # << >> /\ s # Look /\ s # Undo /\ s \in Seq(Requests)
      BY <2>2, ChainsDiffer, ChainTypes
    <3> QED
      BY <1>1, <2>2, <3>1, <3>2, <3>3, ChainHeads, ChainsDiffer
  <2>3. CASE s = PrepareOn
    <3>1. Head(s) = Head(PrepareOn) /\ Tail(s) = Tail(PrepareOn) /\ Len(s) = Len(PrepareOn)
      BY <2>3
    <3>2. Tail(s) \in Ahead(k) /\ Tail(s) # RunChain
      BY <2>1, <3>1, ChainHeads, ChainsDiffer
    <3>3. s # << >> /\ s # Look /\ s # Undo /\ s \in Seq(Requests)
      BY <2>3, ChainsDiffer, ChainTypes
    <3> QED
      BY <1>1, <2>3, <3>1, <3>2, <3>3, ChainHeads, ChainsDiffer
  <2>4. CASE s = ActOn
    BY <1>1, <2>1, <2>4, ChainHeads, ChainTypes, ChainsDiffer
  <2> QED
    BY <2>1, <2>2, <2>3, <2>4
<1>2. CASE k \in {"readback", "paperclip"}
  <2>1. Ahead(k) = {PrepareOn, ActOn}
    BY <1>2 DEF Ahead
  <2>2. CASE s = PrepareOn
    <3>1. Head(s) = Head(PrepareOn) /\ Tail(s) = Tail(PrepareOn) /\ Len(s) = Len(PrepareOn)
      BY <2>2
    <3>2. Tail(s) \in Ahead(k) /\ Tail(s) # RunChain
      BY <2>1, <3>1, ChainHeads, ChainsDiffer
    <3>3. s # << >> /\ s # Look /\ s # Undo /\ s \in Seq(Requests)
      BY <2>2, ChainsDiffer, ChainTypes
    <3> QED
      BY <1>2, <2>2, <3>1, <3>2, <3>3, ChainHeads, ChainsDiffer
  <2>3. CASE s = ActOn
    BY <1>2, <2>1, <2>3, ChainHeads, ChainTypes, ChainsDiffer
  <2> QED
    BY <2>1, <2>2, <2>3
<1>3. CASE k \in {"action", "openhands"}
  <2>1. Ahead(k) = {FindAct, ActOnly}
    BY <1>3 DEF Ahead
  <2>2. CASE s = FindAct
    <3>1. Head(s) = Head(FindAct) /\ Tail(s) = Tail(FindAct) /\ Len(s) = Len(FindAct)
      BY <2>2
    <3>2. Tail(s) \in Ahead(k) /\ Tail(s) # RunChain
      BY <2>1, <3>1, ChainHeads, ChainsDiffer
    <3>3. s # << >> /\ s # Look /\ s # Undo /\ s \in Seq(Requests)
      BY <2>2, ChainsDiffer, ChainTypes
    <3> QED
      BY <1>3, <2>2, <3>1, <3>2, <3>3, ChainHeads, ChainsDiffer
  <2>3. CASE s = ActOnly
    BY <1>3, <2>1, <2>3, ChainHeads, ChainTypes, ChainsDiffer
  <2> QED
    BY <2>1, <2>2, <2>3
<1>4. CASE k = "run"
  <2>1. Ahead(k) = {RunChain, ActOnly}
    BY <1>4 DEF Ahead
  <2>2. CASE s = RunChain
    <3>1. Head(s) = Head(RunChain) /\ Tail(s) = Tail(RunChain) /\ Len(s) = Len(RunChain)
      BY <2>2
    <3>2. Tail(s) \in Ahead(k) /\ Tail(s) # RunChain
      BY <2>1, <3>1, ChainHeads, ChainsDiffer
    <3>3. s # << >> /\ s # Look /\ s # Undo /\ s \in Seq(Requests)
      BY <2>2, ChainsDiffer, ChainTypes
    <3> QED
      BY <1>4, <2>2, <3>1, <3>2, <3>3, ChainHeads, ChainsDiffer
  <2>3. CASE s = ActOnly
    BY <1>4, <2>1, <2>3, ChainHeads, ChainTypes, ChainsDiffer
  <2> QED
    BY <2>1, <2>2, <2>3
<1>5. CASE k \in {"load", "start", "stop", "remove", "command"}
  <2>1. Ahead(k) = {ActOnly}
    BY <1>5 DEF Ahead
  <2>2. s = ActOnly
    BY <2>1
  <2> QED
    BY <1>5, <2>2, ChainHeads, ChainTypes, ChainsDiffer
<1> QED
  BY <1>1, <1>2, <1>3, <1>4, <1>5 DEF Kinds

LEMMA ChainIsAhead ==
    ASSUME NEW k \in Kinds
    PROVE  Chain(k) \in Ahead(k)
  BY DEF Kinds, Chain, Ahead, ReadbackChain, PaperclipChain, ActionChain, NamedActionChain,
         LoadChain, RemoveChain, OpenHandsChain, CommandChain, PrepareOn, FindAct, ActOnly

\* What an effect of job k does to the candidate: it takes it away, which is for a job
\* that removes or for the candidate's own; it creates one where there is none; or it
\* starts or stops the one there is.
BoxStep(k) ==
    \/ box' = box
    \/ box' = NoBox /\ (kind[k] = "remove" \/ box.by = k)
    \/ box.by = NoJob /\ box' = [by |-> k, runs |-> FALSE]
    \/ \E r \in BOOLEAN : box' = [by |-> box.by, runs |-> r]

\* What a step of job k leaves as it is of the others.
OthersKept(k) ==
    /\ kind' = kind
    /\ \A j \in Jobs \ {k} :
         /\ left'[j] = left[j]
         /\ answer'[j] = answer[j]
         /\ j \in did' <=> j \in did
         /\ j \in upset' <=> j \in upset
         /\ \A r \in Requests : <<j, r>> \in late' <=> <<j, r>> \in late

\* A step of one job disturbs no other, its own effect on the candidate included.
LEMMA OthersOK ==
    ASSUME NEW k \in Jobs, NEW j \in Jobs, j # k, JobOK(j), BoxStep(k), OthersKept(k)
    PROVE  JobOK(j)'
<1>1. /\ left'[j] = left[j]
      /\ answer'[j] = answer[j]
      /\ kind' = kind
      /\ j \in did' <=> j \in did
      /\ j \in upset' <=> j \in upset
      /\ \A r \in Requests : <<j, r>> \in late' <=> <<j, r>> \in late
  BY DEF OthersKept
<1>2. ChainOK(j)' /\ AnswerOK(j)'
  BY <1>1 DEF JobOK, ChainOK, AnswerOK
<1>3. LateOK(j)'
  BY <1>1 DEF JobOK, LateOK
<1>4. box'.by = j => box.by = j
  BY AgentOperationsAssumption DEF BoxStep, NoBox
<1>5. BoxOK(j)'
  BY <1>1, <1>4 DEF JobOK, BoxOK
<1> QED
  BY <1>2, <1>3, <1>5 DEF JobOK

BoxIs(b, r) ==
    box'.by = b /\ box'.runs = r /\ box' \in [by : Jobs \cup {NoJob}, runs : BOOLEAN]

LEMMA BoxFacts ==
    ASSUME NEW b \in Jobs \cup {NoJob}, NEW r \in BOOLEAN, box' = [by |-> b, runs |-> r]
    PROVE  BoxIs(b, r)
  BY DEF BoxIs

\* What an effect does, and does not.
LEMMA EffectFacts ==
    ASSUME TypeOK, RunsOK, NEW k \in Jobs, NEW request \in Requests,
           request = "create" => kind[k] = "run", kind' = kind, Effect(k, request)
    PROVE  /\ BoxStep(k)
           /\ box' \in [by : Jobs \cup {NoJob}, runs : BOOLEAN] /\ RunsOK'
           /\ did' = did \/ (did' = did \cup {k} /\ request = "act")
           /\ request = "act" /\ Possible(k, request) => k \in did'
           /\ box'.by = k => box.by = k \/ kind[k] = "run"
           /\ request = "undo" => box'.by # k
<1>0. box \in [by : Jobs \cup {NoJob}, runs : BOOLEAN] /\ NoJob \notin Jobs
  BY AgentOperationsAssumption DEF TypeOK
<1>1. CASE request = "create"
  <2>1. did' = did /\ (box' = box \/ (box.by = NoJob /\ box' = [by |-> k, runs |-> FALSE]))
    BY <1>1 DEF Effect, BoxAfter
  <2>2. BoxStep(k)
    BY <1>1, <2>1 DEF BoxStep
  <2>3. \/ box' = box
        \/ BoxIs(k, FALSE)
    BY <2>1, BoxFacts
  <2> QED
    BY <1>0, <1>1, <2>1, <2>2, <2>3 DEF RunsOK, BoxIs
<1>2. CASE request = "act" /\ kind[k] = "run"
  <2>1. \/ /\ box.by = k /\ box' = [by |-> k, runs |-> TRUE]
           /\ did' = did \cup {k} \/ (did' = did /\ box.runs)
           /\ Possible(k, request) => did' = did \cup {k}
        \/ box.by # k /\ box' = box /\ did' = did /\ ~Possible(k, request)
    BY <1>2 DEF Effect, BoxAfter, Possible
  <2>2. BoxStep(k)
    BY <1>2, <2>1 DEF BoxStep
  <2>3. box' = box \/ (box.by = k /\ BoxIs(k, TRUE))
    BY <2>1, BoxFacts
  <2>4. RunsOK'
    BY <1>0, <2>1, <2>3 DEF RunsOK, BoxIs
  <2> QED
    BY <1>0, <1>2, <2>1, <2>2, <2>3, <2>4 DEF BoxIs
<1>3. CASE request = "act" /\ kind[k] = "remove"
  <2>1. /\ box' = NoBox
        /\ did' = did \/ did' = did \cup {k}
        /\ Possible(k, request) => did' = did \cup {k}
    BY <1>3 DEF Effect, BoxAfter
  <2>2. BoxStep(k)
    BY <1>3, <2>1 DEF BoxStep
  <2>3. BoxIs(NoJob, FALSE)
    BY <2>1, BoxFacts DEF NoBox
  <2> QED
    BY <1>0, <1>3, <2>1, <2>2, <2>3 DEF RunsOK, BoxIs
<1>4. CASE request = "act" /\ kind[k] \in {"start", "stop"}
  <2> DEFINE r == kind[k] = "start"
  <2>1. \/ /\ box.by # NoJob /\ box' = [by |-> box.by, runs |-> r]
           /\ did' = did \cup {k}
        \/ box.by = NoJob /\ box' = box /\ did' = did /\ ~Possible(k, request)
    BY <1>4 DEF Effect, BoxAfter, Possible
  <2>2. BoxStep(k)
    BY <2>1 DEF BoxStep
  <2>3. box' = box \/ (box.by # NoJob /\ BoxIs(box.by, r))
    BY <1>0, <2>1, BoxFacts
  <2>4. RunsOK'
    BY <1>0, <2>1, <2>3 DEF RunsOK, BoxIs
  <2> QED
    BY <1>0, <1>4, <2>1, <2>2, <2>3, <2>4 DEF BoxIs
<1>5. CASE request = "act" /\ kind[k] \notin {"run", "start", "stop", "remove"}
  <2>1. box' = box /\ did' = did \cup {k}
    BY <1>5 DEF Effect, BoxAfter, Possible
  <2> QED
    BY <1>0, <1>5, <2>1 DEF BoxStep, RunsOK
<1>6. CASE request = "undo"
  <2>1. did' = did /\ ((box' = box /\ box.by # k) \/ (box.by = k /\ box' = NoBox))
    BY <1>6 DEF Effect, BoxAfter
  <2>2. BoxStep(k)
    BY <1>6, <2>1 DEF BoxStep
  <2>3. \/ box' = box /\ box.by # k
        \/ BoxIs(NoJob, FALSE)
    BY <2>1, BoxFacts DEF NoBox
  <2> QED
    BY <1>0, <1>6, <2>1, <2>2, <2>3 DEF RunsOK, BoxIs
<1>7. CASE request \in {"find", "prepare", "look"}
  <2>1. box' = box /\ did' = did
    BY <1>7 DEF Effect, BoxAfter
  <2> QED
    BY <1>0, <1>7, <2>1 DEF BoxStep, RunsOK
<1> QED
  BY <1>1, <1>2, <1>3, <1>4, <1>5, <1>6, <1>7 DEF Requests

\* What is left of a chain is a part of it.
LEMMA LeftFacts ==
    ASSUME TypeOK, NEW j \in Jobs, ChainOK(j), left[j] # << >>
    PROVE  /\ kind[j] \in Kinds
           /\ left[j] \in Ahead(kind[j]) \/ left[j] = Look \/ left[j] = Undo
           /\ Head(left[j]) \in Requests
           /\ Head(left[j]) = "create" => kind[j] = "run"
           /\ Head(left[j]) = "undo" => left[j] = Undo
           /\ Head(left[j]) = "look" => left[j] = Look
           /\ Tail(left[j]) \in Seq(Requests)
<1>1. kind[j] \in Kinds
  BY AgentOperationsAssumption DEF TypeOK
<1>2. left[j] \in Ahead(kind[j]) \/ left[j] = Look \/ left[j] = Undo
  BY DEF ChainOK
<1>3. CASE left[j] \in Ahead(kind[j])
  <2>1. /\ Head(left[j]) \in {"find", "prepare", "act", "create"}
        /\ Head(left[j]) = "create" => kind[j] = "run"
        /\ left[j] \in Seq(Requests)
    BY <1>1, <1>3, ChainFacts
  <2>2. Tail(left[j]) \in Seq(Requests)
    BY <2>1
  <2> QED
    BY <1>1, <1>2, <2>1, <2>2 DEF Requests
<1>4. CASE left[j] \in {Look, Undo}
  BY <1>1, <1>2, <1>4, ChainHeads, ChainTypes DEF Requests
<1> QED
  BY <1>2, <1>3, <1>4

\* A step of one job keeps the invariant when it keeps what concerns that job.
LEMMA StepOK ==
    ASSUME IInv, NEW k \in Jobs, TypeOK', RunsOK', BoxStep(k), OthersKept(k), JobOK(k)'
    PROVE  IInv'
<1>1. ASSUME NEW j \in Jobs, j # k
      PROVE  JobOK(j)'
  <2>1. JobOK(j)
    BY DEF IInv
  <2> QED
    BY <1>1, <2>1, OthersOK
<1> QED
  BY <1>1 DEF IInv

LEMMA AskOK ==
    ASSUME IInv, NEW k \in Jobs, Ask(k)
    PROVE  IInv'
<1>1. TypeOK /\ RunsOK /\ JobOK(k)
  BY DEF IInv
<1>2. kind[k] \in Kinds
  BY <1>1, AgentOperationsAssumption DEF TypeOK
<1>3. Chain(kind[k]) \in Ahead(kind[k])
  BY <1>2, ChainIsAhead
<1>4. Chain(kind[k]) \in Seq(Requests) /\ Chain(kind[k]) # << >> /\ Chain(kind[k]) # Look
      /\ Chain(kind[k]) # Undo
  BY <1>2, <1>3, ChainFacts
<1>5. TypeOK'
  <2>1. /\ kind' = kind /\ did' = did /\ late' = late /\ box' = box /\ upset' = upset
        /\ broken' = broken
        /\ \/ /\ answer' = [answer EXCEPT ![k] = "waiting"]
              /\ left' = [left EXCEPT ![k] = Chain(kind[k])]
           \/ /\ answer' = [answer EXCEPT ![k] = "refused"]
              /\ left' = left
    BY DEF Ask
  <2>2. left' \in [Jobs -> Seq(Requests)]
    BY <1>1, <1>4, <2>1 DEF TypeOK
  <2>3. answer' \in [Jobs -> {"unasked", "waiting", "ok", "refused", "failed", "timeout"}]
    BY <1>1, <2>1 DEF TypeOK
  <2> QED
    BY <1>1, <2>1, <2>2, <2>3 DEF TypeOK
<1>6. BoxStep(k) /\ OthersKept(k) /\ RunsOK'
  BY <1>1 DEF TypeOK, Ask, BoxStep, OthersKept, RunsOK
<1>7. /\ answer[k] = "unasked" /\ left[k] = << >> /\ k \notin did
      /\ \A r \in Requests : <<k, r>> \notin late
      /\ box.by # k
  BY <1>1 DEF Ask, JobOK, AnswerOK, LateOK, BoxOK
<1>8. /\ kind' = kind /\ did' = did /\ late' = late /\ box' = box
      /\ \/ answer'[k] = "waiting" /\ left'[k] = Chain(kind[k])
         \/ answer'[k] = "refused" /\ left'[k] = << >>
  BY <1>1, <1>7 DEF TypeOK, Ask
<1>9. ChainOK(k)'
  BY <1>3, <1>4, <1>7, <1>8, <1>1, ChainsDiffer DEF ChainOK, JobOK
<1>10. AnswerOK(k)'
  BY <1>4, <1>7, <1>8 DEF AnswerOK
<1>11. LateOK(k)' /\ BoxOK(k)'
  BY <1>7, <1>8 DEF LateOK, BoxOK
<1> QED
  BY <1>5, <1>6, <1>9, <1>10, <1>11, StepOK DEF JobOK

LEMMA DoneOK ==
    ASSUME IInv, NEW k \in Jobs, Done(k)
    PROVE  IInv'
<1> DEFINE request == Head(left[k])
<1>1. TypeOK /\ RunsOK /\ JobOK(k)
  BY DEF IInv
<1>2. ChainOK(k) /\ AnswerOK(k) /\ LateOK(k) /\ BoxOK(k)
  BY <1>1 DEF JobOK
<1>3. /\ left[k] # << >>
      /\ Possible(k, request)
      /\ Effect(k, request)
      /\ left' = [left EXCEPT ![k] = Tail(@)]
      /\ Len(left[k]) > 1 => answer' = answer
      /\ ~(Len(left[k]) > 1) => Tell(k, IF request = "undo" THEN "refused" ELSE "ok")
      /\ kind' = kind /\ late' = late /\ upset' = upset /\ broken' = broken
  BY DEF Done
<1>4. /\ kind[k] \in Kinds
      /\ left[k] \in Ahead(kind[k]) \/ left[k] = Look \/ left[k] = Undo
      /\ request \in Requests
      /\ request = "create" => kind[k] = "run"
      /\ request = "undo" => left[k] = Undo
      /\ Tail(left[k]) \in Seq(Requests)
  BY <1>1, <1>2, <1>3, LeftFacts
<1>5. /\ BoxStep(k)
      /\ box' \in [by : Jobs \cup {NoJob}, runs : BOOLEAN] /\ RunsOK'
      /\ did' = did \/ (did' = did \cup {k} /\ request = "act")
      /\ request = "act" => k \in did'
      /\ box'.by = k => box.by = k \/ kind[k] = "run"
      /\ request = "undo" => box'.by # k
  BY <1>1, <1>3, <1>4, EffectFacts
<1>6. answer[k] \in {"waiting", "timeout"}
  BY <1>2, <1>3 DEF AnswerOK
<1>7. /\ left'[k] = Tail(left[k])
      /\ \A j \in Jobs \ {k} : left'[j] = left[j]
      /\ left' \in [Jobs -> Seq(Requests)]
  BY <1>1, <1>3, <1>4 DEF TypeOK
<1>8. /\ answer' \in [Jobs -> {"unasked", "waiting", "ok", "refused", "failed", "timeout"}]
      /\ \A j \in Jobs \ {k} : answer'[j] = answer[j]
      /\ Len(left[k]) > 1 => answer'[k] = answer[k]
      /\ ~(Len(left[k]) > 1) =>
           answer'[k] \in {"timeout", IF request = "undo" THEN "refused" ELSE "ok"}
  BY <1>1, <1>3, <1>6 DEF TypeOK, Tell
<1>9. TypeOK'
  BY <1>1, <1>3, <1>5, <1>7, <1>8 DEF TypeOK
<1>10. OthersKept(k)
  BY <1>3, <1>5, <1>7, <1>8 DEF OthersKept
<1>11. \A r \in Requests : <<k, r>> \notin late
  BY <1>2, <1>3 DEF LateOK
<1>12. LateOK(k)'
  BY <1>3, <1>11 DEF LateOK
<1>13. CASE left[k] \in Ahead(kind[k]) /\ request # "act"
  <2>1. Tail(left[k]) \in Ahead(kind[k]) /\ Len(left[k]) > 1 /\ Tail(left[k]) # RunChain
    BY <1>4, <1>13, ChainFacts
  <2>2. Tail(left[k]) # << >> /\ Tail(left[k]) # Look /\ Tail(left[k]) # Undo
    BY <1>4, <2>1, ChainFacts
  <2>3. k \notin did /\ did' = did
    BY <1>2, <1>5, <1>13 DEF ChainOK
  <2>4. ChainOK(k)' /\ AnswerOK(k)'
    BY <1>2, <1>3, <1>6, <1>7, <1>8, <2>1, <2>2, <2>3 DEF ChainOK, AnswerOK
  <2>5. BoxOK(k)'
    BY <1>2, <1>3, <1>5, <1>6, <1>7, <1>8, <2>1, <2>2, <2>3 DEF BoxOK
  <2> QED
    BY <1>5, <1>9, <1>10, <1>12, <2>4, <2>5, StepOK DEF JobOK
<1>14. CASE left[k] \in Ahead(kind[k]) /\ request = "act"
  <2>1. \/ Len(left[k]) > 1 /\ Tail(left[k]) = Look /\ kind[k] # "run"
        \/ ~(Len(left[k]) > 1) /\ Tail(left[k]) = << >>
    BY <1>4, <1>14, ChainFacts
  <2>2. k \in did'
    BY <1>5, <1>14
  <2>3. Tail(left[k]) \notin Ahead(kind[k]) /\ Tail(left[k]) # Undo /\ Tail(left[k]) # RunChain
    BY <1>4, <2>1, ChainFacts, ChainsDiffer
  <2>4. ChainOK(k)' /\ AnswerOK(k)'
    BY <1>3, <1>6, <1>7, <1>8, <1>14, <2>1, <2>2, <2>3, ChainsDiffer DEF ChainOK, AnswerOK
  <2>5. BoxOK(k)'
    BY <1>2, <1>3, <1>5, <1>6, <1>7, <1>8, <1>14, <2>1, <2>2, <2>3 DEF BoxOK
  <2> QED
    BY <1>5, <1>9, <1>10, <1>12, <2>4, <2>5, StepOK DEF JobOK
<1>15. CASE left[k] = Look
  <2>1. request = "look" /\ Tail(left[k]) = << >> /\ ~(Len(left[k]) > 1)
    BY <1>15, ChainHeads
  <2>2. k \in did /\ kind[k] # "run" /\ did' = did
    BY <1>2, <1>5, <1>15, <2>1 DEF ChainOK
  <2>3. << >> \notin Ahead(kind[k]) /\ << >> # Look /\ << >> # Undo /\ << >> # RunChain
    BY <1>4, ChainFacts, ChainsDiffer
  <2>4. ChainOK(k)' /\ AnswerOK(k)'
    BY <1>3, <1>6, <1>7, <1>8, <2>1, <2>2, <2>3 DEF ChainOK, AnswerOK
  <2>5. BoxOK(k)'
    BY <1>2, <1>3, <1>5, <1>6, <1>7, <1>8, <2>1, <2>2, <2>3 DEF BoxOK
  <2> QED
    BY <1>5, <1>9, <1>10, <1>12, <2>4, <2>5, StepOK DEF JobOK
<1>16. CASE left[k] = Undo
  <2>1. request = "undo" /\ Tail(left[k]) = << >> /\ ~(Len(left[k]) > 1)
    BY <1>16, ChainHeads
  <2>2. k \notin did /\ kind[k] = "run" /\ did' = did /\ box'.by # k
    BY <1>2, <1>5, <1>16, <2>1 DEF ChainOK
  <2>3. << >> \notin Ahead(kind[k]) /\ << >> # Look /\ << >> # Undo /\ << >> # RunChain
    BY <1>4, ChainFacts, ChainsDiffer
  <2>4. ChainOK(k)' /\ AnswerOK(k)'
    BY <1>3, <1>6, <1>7, <1>8, <2>1, <2>2, <2>3 DEF ChainOK, AnswerOK
  <2>5. BoxOK(k)'
    BY <1>7, <1>8, <2>1, <2>2, <2>3 DEF BoxOK
  <2> QED
    BY <1>5, <1>9, <1>10, <1>12, <2>4, <2>5, StepOK DEF JobOK
<1> QED
  BY <1>4, <1>13, <1>14, <1>15, <1>16

LEMMA RefuseOK ==
    ASSUME IInv, NEW k \in Jobs, Refuse(k)
    PROVE  IInv'
<1> DEFINE request == Head(left[k])
           told == RefusalTold(k, request)
           undoes == kind[k] = "run" /\ request = "act"
<1>1. TypeOK /\ RunsOK /\ JobOK(k)
  BY DEF IInv
<1>2. ChainOK(k) /\ AnswerOK(k) /\ LateOK(k) /\ BoxOK(k)
  BY <1>1 DEF JobOK
<1>3. /\ left[k] # << >>
      /\ left' = [left EXCEPT ![k] = IF undoes THEN Undo ELSE << >>]
      /\ undoes => answer' = answer
      /\ ~undoes => Tell(k, told)
      /\ upset' = IF request = "undo" THEN upset \cup {k} ELSE upset
      /\ kind' = kind /\ late' = late /\ broken' = broken /\ box' = box /\ did' = did
  BY ChainsDiffer DEF Refuse, AfterRefusal, NoEffect, Undo
<1>4. /\ kind[k] \in Kinds
      /\ left[k] \in Ahead(kind[k]) \/ left[k] = Look \/ left[k] = Undo
      /\ request = "undo" => left[k] = Undo
  BY <1>1, <1>2, <1>3, LeftFacts
<1>5. /\ told \in {"ok", "failed", "refused"}
      /\ told = "ok" => kind[k] = "remove"
      /\ request = "look" => told # "refused"
  BY DEF RefusalTold, Possible
<1>6. answer[k] \in {"waiting", "timeout"}
  BY <1>2, <1>3 DEF AnswerOK
<1>7. /\ left'[k] = IF undoes THEN Undo ELSE << >>
      /\ \A j \in Jobs \ {k} : left'[j] = left[j]
      /\ left' \in [Jobs -> Seq(Requests)]
  BY <1>1, <1>3, ChainTypes DEF TypeOK
<1>8. /\ answer' \in [Jobs -> {"unasked", "waiting", "ok", "refused", "failed", "timeout"}]
      /\ \A j \in Jobs \ {k} : answer'[j] = answer[j]
      /\ undoes => answer'[k] = answer[k]
      /\ ~undoes => answer'[k] \in {"timeout", told}
  BY <1>1, <1>3, <1>5, <1>6 DEF TypeOK, Tell
<1>9. TypeOK'
  BY <1>1, <1>3, <1>7, <1>8 DEF TypeOK
<1>10. OthersKept(k) /\ BoxStep(k) /\ RunsOK'
  BY <1>1, <1>3, <1>7, <1>8 DEF OthersKept, BoxStep, RunsOK
<1>11. LateOK(k)'
  BY <1>2, <1>3 DEF LateOK
<1>12. << >> \notin Ahead(kind[k]) /\ Undo \notin Ahead(kind[k])
  BY <1>4, ChainFacts
<1>13. CASE undoes
  <2>1. left[k] \in Ahead(kind[k])
    BY <1>4, <1>13, ChainHeads
  <2>2. k \notin did
    BY <1>2, <2>1 DEF ChainOK
  <2>3. ChainOK(k)' /\ AnswerOK(k)'
    BY <1>3, <1>6, <1>7, <1>8, <1>12, <1>13, <2>2, ChainsDiffer DEF ChainOK, AnswerOK
  <2>4. BoxOK(k)'
    BY <1>2, <1>3, <1>6, <1>7, <1>8, <1>13, ChainsDiffer DEF BoxOK
  <2> QED
    BY <1>9, <1>10, <1>11, <2>3, <2>4, StepOK DEF JobOK
<1>14. CASE ~undoes
  <2>1. told = "refused" => k \notin did
    BY <1>2, <1>4, <1>5, ChainHeads DEF ChainOK
  <2>2. ChainOK(k)' /\ AnswerOK(k)'
    BY <1>3, <1>5, <1>6, <1>7, <1>8, <1>12, <1>14, <2>1, ChainsDiffer DEF ChainOK, AnswerOK
  <2>3. box.by = k => k \in upset' \/ k \in did
    <3>1. CASE left[k] \in Ahead(kind[k])
      BY <1>2, <1>4, <1>14, <3>1, ChainFacts DEF BoxOK
    <3>2. CASE left[k] = Look
      BY <1>2, <3>2 DEF BoxOK, ChainOK
    <3>3. CASE left[k] = Undo
      BY <1>3, <3>3, ChainHeads
    <3> QED
      BY <1>4, <3>1, <3>2, <3>3
  <2>4. BoxOK(k)'
    BY <1>2, <1>3, <1>5, <1>6, <1>7, <1>8, <1>14, <2>3, ChainsDiffer DEF BoxOK
  <2> QED
    BY <1>9, <1>10, <1>11, <2>2, <2>4, StepOK DEF JobOK
<1> QED
  BY <1>13, <1>14

\* A request that breaks off, whether its effect comes, came or never will.
LEMMA BreaksOffOK ==
    ASSUME IInv, NEW k \in Jobs, left[k] # << >>, BreaksOff(k),
           broken' \in 0 .. MaxFaults,
           answer' \in [Jobs -> {"unasked", "waiting", "ok", "refused", "failed", "timeout"}],
           \A j \in Jobs \ {k} : answer'[j] = answer[j],
           answer'[k] \in {"failed", "timeout"}
             \/ (answer'[k] = "refused" /\ (Head(left[k]) = "undo" \/ kind[k] = "readback"))
    PROVE  IInv'
<1> DEFINE request == Head(left[k])
<1>1. TypeOK /\ RunsOK /\ JobOK(k)
  BY DEF IInv
<1>2. ChainOK(k) /\ AnswerOK(k) /\ LateOK(k) /\ BoxOK(k)
  BY <1>1 DEF JobOK
<1>3. /\ \/ Effect(k, request) /\ late' = late
         \/ box' = box /\ did' = did /\ late' = late \cup {<<k, request>>}
      /\ upset' = upset \cup {k}
      /\ left' = [left EXCEPT ![k] = << >>]
      /\ kind' = kind
  BY DEF BreaksOff, NoEffect
<1>4. /\ kind[k] \in Kinds
      /\ request \in Requests
      /\ request = "create" => kind[k] = "run"
      /\ request = "undo" => left[k] = Undo
  BY <1>1, <1>2, LeftFacts
<1>5. /\ BoxStep(k)
      /\ box' \in [by : Jobs \cup {NoJob}, runs : BOOLEAN] /\ RunsOK'
      /\ did' = did \/ (did' = did \cup {k} /\ request = "act")
      /\ box'.by = k => box.by = k \/ kind[k] = "run"
  <2>1. CASE Effect(k, request)
    BY <1>1, <1>3, <1>4, <2>1, EffectFacts
  <2>2. CASE box' = box /\ did' = did
    BY <1>1, <1>3, <2>2 DEF BoxStep, RunsOK, TypeOK
  <2> QED
    BY <1>3, <2>1, <2>2
<1>6. request = "undo" => kind[k] = "run" /\ k \notin did'
  BY <1>2, <1>4, <1>5 DEF ChainOK
<1>7. /\ left'[k] = << >>
      /\ \A j \in Jobs \ {k} : left'[j] = left[j]
      /\ left' \in [Jobs -> Seq(Requests)]
  BY <1>1, <1>3, ChainTypes DEF TypeOK
<1>8. late' \subseteq Jobs \X Requests
  BY <1>1, <1>3, <1>4 DEF TypeOK
<1>9. TypeOK'
  BY <1>1, <1>3, <1>5, <1>7, <1>8 DEF TypeOK
<1>10. \A j \in Jobs \ {k}, r \in Requests : <<j, r>> \in late' <=> <<j, r>> \in late
  BY <1>3
<1>11. OthersKept(k)
  BY <1>3, <1>5, <1>7, <1>10 DEF OthersKept
<1>12. \A r \in Requests : <<k, r>> \in late' => r = request
  BY <1>2, <1>3 DEF LateOK
<1>13. LateOK(k)'
  BY <1>3, <1>4, <1>6, <1>7, <1>12 DEF LateOK
<1>14. << >> \notin Ahead(kind[k])
  BY <1>4, ChainFacts
<1>15. ChainOK(k)' /\ AnswerOK(k)'
  BY <1>3, <1>6, <1>7, <1>14, ChainsDiffer DEF ChainOK, AnswerOK
<1>16. BoxOK(k)'
  BY <1>2, <1>3, <1>5, <1>7, ChainsDiffer DEF BoxOK
<1> QED
  BY <1>5, <1>9, <1>11, <1>13, <1>15, <1>16, StepOK DEF JobOK

LEMMA BreakOK ==
    ASSUME IInv, NEW k \in Jobs, Break(k)
    PROVE  IInv'
<1>1. TypeOK /\ AnswerOK(k)
  BY DEF IInv, JobOK
<1>2. left[k] # << >> /\ BreaksOff(k) /\ broken' \in 0 .. MaxFaults
  BY <1>1, AgentOperationsAssumption DEF Break, TypeOK
<1>3. Tell(k, BreakTold(k))
  BY DEF Break
<1>4. answer[k] \in {"waiting", "timeout"}
  BY <1>1, <1>2 DEF AnswerOK
<1>5. /\ answer' \in [Jobs -> {"unasked", "waiting", "ok", "refused", "failed", "timeout"}]
      /\ \A j \in Jobs \ {k} : answer'[j] = answer[j]
      /\ \/ answer'[k] \in {"failed", "timeout"}
         \/ answer'[k] = "refused" /\ (Head(left[k]) = "undo" \/ kind[k] = "readback")
  BY <1>1, <1>3, <1>4 DEF TypeOK, Tell, BreakTold
<1> QED
  BY <1>2, <1>5, BreaksOffOK

LEMMA GiveUpOK ==
    ASSUME IInv, NEW k \in Jobs, GiveUp(k)
    PROVE  IInv'
<1>1. TypeOK /\ RunsOK /\ JobOK(k) /\ AnswerOK(k)
  BY DEF IInv, JobOK
<1>2. /\ left[k] # << >>
      /\ broken' \in 0 .. MaxFaults
      /\ answer' = [answer EXCEPT ![k] = "timeout"]
      /\ answer[k] = "waiting"
  BY <1>1, AgentOperationsAssumption DEF GiveUp, TypeOK, AnswerOK
<1>3. /\ answer' \in [Jobs -> {"unasked", "waiting", "ok", "refused", "failed", "timeout"}]
      /\ \A j \in Jobs \ {k} : answer'[j] = answer[j]
      /\ answer'[k] = "timeout"
  BY <1>1, <1>2 DEF TypeOK
<1>4. CASE OfProxy(k)
  <2>1. kind' = kind /\ left' = left /\ did' = did /\ late' = late /\ box' = box /\ upset' = upset
    BY <1>4 DEF GiveUp
  <2>2. TypeOK' /\ RunsOK' /\ BoxStep(k) /\ OthersKept(k)
    BY <1>1, <1>2, <1>3, <2>1 DEF TypeOK, RunsOK, BoxStep, OthersKept
  <2>3. JobOK(k)'
    BY <1>1, <1>2, <1>3, <2>1 DEF JobOK, ChainOK, AnswerOK, LateOK, BoxOK
  <2> QED
    BY <2>2, <2>3, StepOK
<1>5. CASE ~OfProxy(k)
  <2>1. BreaksOff(k)
    BY <1>5 DEF GiveUp
  <2> QED
    BY <1>2, <1>3, <2>1, BreaksOffOK
<1> QED
  BY <1>4, <1>5

LEMMA LateStepOK ==
    ASSUME IInv, NEW k \in Jobs, NEW request \in Requests, Late(k, request)
    PROVE  IInv'
<1>1. TypeOK /\ RunsOK /\ JobOK(k)
  BY DEF IInv
<1>2. ChainOK(k) /\ AnswerOK(k) /\ LateOK(k) /\ BoxOK(k)
  BY <1>1 DEF JobOK
<1>3. /\ <<k, request>> \in late
      /\ late' = late \ {<<k, request>>}
      /\ Effect(k, request)
      /\ kind' = kind /\ answer' = answer /\ left' = left /\ upset' = upset /\ broken' = broken
  BY DEF Late
<1>4. /\ left[k] = << >>
      /\ k \in upset
      /\ \A q \in Requests : <<k, q>> \in late => q = request
      /\ request = "create" => kind[k] = "run"
      /\ request = "undo" => kind[k] = "run" /\ k \notin did
      /\ \/ answer[k] \in {"failed", "timeout"}
         \/ answer[k] = "refused" /\ (request = "undo" \/ kind[k] = "readback")
  BY <1>2, <1>3 DEF LateOK
<1>5. /\ BoxStep(k)
      /\ box' \in [by : Jobs \cup {NoJob}, runs : BOOLEAN] /\ RunsOK'
      /\ did' = did \/ (did' = did \cup {k} /\ request = "act")
      /\ box'.by = k => box.by = k \/ kind[k] = "run"
  BY <1>1, <1>3, <1>4, EffectFacts
<1>6. TypeOK'
  BY <1>1, <1>3, <1>5 DEF TypeOK
<1>7. \A j \in Jobs \ {k}, r \in Requests : <<j, r>> \in late' <=> <<j, r>> \in late
  BY <1>3
<1>8. OthersKept(k)
  BY <1>3, <1>5, <1>7 DEF OthersKept
<1>9. LateOK(k)'
  BY <1>3, <1>4 DEF LateOK
<1>10. << >> \notin Ahead(kind[k])
  <2>1. kind[k] \in Kinds
    BY <1>1, AgentOperationsAssumption DEF TypeOK
  <2> QED
    BY <2>1, ChainFacts
<1>11. ChainOK(k)' /\ AnswerOK(k)'
  BY <1>2, <1>3, <1>4, <1>5, <1>10, ChainsDiffer DEF ChainOK, AnswerOK
<1>12. BoxOK(k)'
  BY <1>2, <1>3, <1>4, <1>5, ChainsDiffer DEF BoxOK
<1> QED
  BY <1>5, <1>6, <1>8, <1>9, <1>11, <1>12, StepOK DEF JobOK

\* The end of the agent, or of the proxy, breaks off what it has under way: of each of
\* these jobs the last request may still take effect, and the answer is a failure.
LEMMA CutOK ==
    ASSUME IInv, NEW js \in SUBSET Underway, Cut(js),
           answer' \in [Jobs -> {"unasked", "waiting", "ok", "refused", "failed", "timeout"}],
           \A j \in Jobs : \/ answer'[j] = answer[j]
                           \/ answer[j] = "waiting" /\ answer'[j] = "timeout"
                           \/ j \in js /\ answer[j] = "waiting" /\ answer'[j] = "failed",
           \A j \in js : answer'[j] # "waiting"
    PROVE  IInv'
<1>1. TypeOK /\ RunsOK /\ js \subseteq Jobs
  BY DEF IInv, Underway
<1>2. /\ left' = [j \in Jobs |-> IF j \in js THEN << >> ELSE left[j]]
      /\ late' = late \cup {<<j, Head(left[j])>> : j \in js}
      /\ upset' = upset \cup js
      /\ kind' = kind /\ did' = did /\ box' = box
      /\ broken' \in 0 .. MaxFaults
  BY <1>1, AgentOperationsAssumption DEF Cut, NoEffect, TypeOK
<1>3. ASSUME NEW j \in js
      PROVE  /\ j \in Jobs /\ left[j] # << >> /\ ChainOK(j)
             /\ Head(left[j]) \in Requests
             /\ Head(left[j]) = "create" => kind[j] = "run"
             /\ Head(left[j]) = "undo" => left[j] = Undo
  <2>1. j \in Jobs /\ left[j] # << >> /\ ChainOK(j)
    BY <1>1 DEF IInv, JobOK, Underway
  <2> QED
    BY <1>1, <2>1, LeftFacts
<1>4. TypeOK'
  <2>1. left' \in [Jobs -> Seq(Requests)]
    BY <1>1, <1>2, ChainTypes DEF TypeOK
  <2>2. late' \subseteq Jobs \X Requests
    BY <1>1, <1>2, <1>3 DEF TypeOK
  <2> QED
    BY <1>1, <1>2, <2>1, <2>2 DEF TypeOK
<1>5. ASSUME NEW j \in Jobs
      PROVE  JobOK(j)'
  <2>1. ChainOK(j) /\ AnswerOK(j) /\ LateOK(j) /\ BoxOK(j)
    BY DEF IInv, JobOK
  <2>2. kind[j] \in Kinds
    BY <1>1, AgentOperationsAssumption DEF TypeOK
  <2>3. << >> \notin Ahead(kind[j])
    BY <2>2, ChainFacts
  <2>4. CASE j \in js
    <3>1. left'[j] = << >> /\ j \in upset'
      BY <1>2, <2>4
    <3>2. answer[j] \in {"waiting", "timeout"} /\ left[j] # << >>
      BY <1>3, <2>1, <2>4 DEF AnswerOK
    <3>3. answer'[j] \in {"failed", "timeout"}
      BY <2>4, <3>2
    <3>4. \A r \in Requests : <<j, r>> \in late' => r = Head(left[j])
      BY <1>2, <2>1, <3>2 DEF LateOK
    <3>5. Head(left[j]) = "undo" => kind[j] = "run" /\ j \notin did
      BY <1>3, <2>1, <2>4 DEF ChainOK
    <3>6. LateOK(j)'
      BY <1>2, <1>3, <2>4, <3>1, <3>3, <3>4, <3>5 DEF LateOK
    <3>7. ChainOK(j)' /\ AnswerOK(j)'
      BY <1>2, <2>3, <3>1, <3>3, ChainsDiffer DEF ChainOK, AnswerOK
    <3>8. BoxOK(j)'
      BY <1>2, <2>1, <3>1, <3>3, ChainsDiffer DEF BoxOK
    <3> QED
      BY <3>6, <3>7, <3>8 DEF JobOK
  <2>5. CASE j \notin js
    <3>1. left'[j] = left[j] /\ (j \in upset' <=> j \in upset)
      BY <1>2, <2>5
    <3>2. \A r \in Requests : <<j, r>> \in late' <=> <<j, r>> \in late
      BY <1>2, <2>5
    <3>3. answer'[j] = answer[j] \/ (answer[j] = "waiting" /\ answer'[j] = "timeout")
      BY <2>5
    <3>4. ChainOK(j)' /\ BoxOK(j)'
      BY <1>2, <2>1, <3>1, <3>3 DEF ChainOK, BoxOK
    <3>5. AnswerOK(j)'
      BY <1>2, <2>1, <3>1, <3>3 DEF AnswerOK
    <3>6. LateOK(j)'
      BY <1>2, <2>1, <3>1, <3>2, <3>3 DEF AnswerOK, LateOK
    <3> QED
      BY <3>4, <3>5, <3>6 DEF JobOK
  <2> QED
    BY <2>4, <2>5
<1> QED
  BY <1>1, <1>2, <1>4, <1>5 DEF IInv, RunsOK

\* The end of a candidate's process.
LEMMA EndsOK ==
    ASSUME IInv, Ends
    PROVE  IInv'
<1>1. TypeOK /\ \A j \in Jobs : JobOK(j)
  BY DEF IInv
<1>2. /\ kind' = kind /\ answer' = answer /\ left' = left /\ did' = did /\ late' = late
      /\ upset' = upset /\ broken' = broken
      /\ box' \in [by : Jobs \cup {NoJob}, runs : BOOLEAN]
      /\ box'.by = box.by /\ ~box'.runs
  BY <1>1 DEF Ends, TypeOK
<1>3. TypeOK' /\ RunsOK'
  BY <1>1, <1>2 DEF TypeOK, RunsOK
<1>4. ASSUME NEW j \in Jobs
      PROVE  JobOK(j)'
  BY <1>1, <1>2 DEF JobOK, ChainOK, AnswerOK, LateOK, BoxOK
<1> QED
  BY <1>3, <1>4 DEF IInv

LEMMA InitIInv == Init => IInv
<1> SUFFICES ASSUME Init PROVE IInv
  OBVIOUS
<1>1. TypeOK
  BY AgentOperationsAssumption, ChainTypes DEF Init, TypeOK, NoBox
<1>2. RunsOK
  BY DEF Init, RunsOK, NoBox
<1>3. ASSUME NEW j \in Jobs
      PROVE  JobOK(j)
  <2>1. kind[j] \in Kinds
    BY AgentOperationsAssumption DEF Init
  <2>2. << >> \notin Ahead(kind[j])
    BY <2>1, ChainFacts
  <2> QED
    BY <2>2, ChainsDiffer, AgentOperationsAssumption
    DEF Init, JobOK, ChainOK, AnswerOK, LateOK, BoxOK, NoBox
<1> QED
  BY <1>1, <1>2, <1>3 DEF IInv

LEMMA NextIInv == IInv /\ [Next]_vars => IInv'
<1> SUFFICES ASSUME IInv, [Next]_vars PROVE IInv'
  OBVIOUS
<1>1. ASSUME NEW j \in Jobs, Ask(j) PROVE IInv'
  BY <1>1, AskOK
<1>2. ASSUME NEW j \in Jobs, Done(j) PROVE IInv'
  BY <1>2, DoneOK
<1>3. ASSUME NEW j \in Jobs, Refuse(j) PROVE IInv'
  BY <1>3, RefuseOK
<1>4. ASSUME NEW j \in Jobs, Break(j) PROVE IInv'
  BY <1>4, BreakOK
<1>5. ASSUME NEW j \in Jobs, GiveUp(j) PROVE IInv'
  BY <1>5, GiveUpOK
<1>6. ASSUME NEW j \in Jobs, NEW request \in Requests, Late(j, request) PROVE IInv'
  BY <1>6, LateStepOK
<1>7. CASE AgentRestart
  <2> DEFINE js == {j \in Underway : ~OfProxy(j)}
  <2>1. js \in SUBSET Underway /\ Cut(js)
    BY <1>7 DEF AgentRestart
  <2>2. answer' = [j \in Jobs |-> IF answer[j] = "waiting" THEN "timeout" ELSE answer[j]]
    BY <1>7 DEF AgentRestart
  <2>3. answer \in [Jobs -> {"unasked", "waiting", "ok", "refused", "failed", "timeout"}]
    BY DEF IInv, TypeOK
  <2>4. /\ answer' \in [Jobs -> {"unasked", "waiting", "ok", "refused", "failed", "timeout"}]
        /\ \A j \in Jobs : \/ answer'[j] = answer[j]
                           \/ answer[j] = "waiting" /\ answer'[j] = "timeout"
                           \/ j \in js /\ answer[j] = "waiting" /\ answer'[j] = "failed"
        /\ \A j \in js : answer'[j] # "waiting"
    BY <2>2, <2>3 DEF Underway
  <2> QED
    BY <2>1, <2>4, CutOK
<1>8. CASE ProxyRestart
  <2> DEFINE js == {j \in Underway : OfProxy(j)}
  <2>1. js \in SUBSET Underway /\ Cut(js)
    BY <1>8 DEF ProxyRestart
  <2>2. answer' = [j \in Jobs |-> IF answer[j] = "waiting" /\ OfProxy(j) THEN "failed" ELSE answer[j]]
    BY <1>8 DEF ProxyRestart
  <2>3. answer \in [Jobs -> {"unasked", "waiting", "ok", "refused", "failed", "timeout"}]
    BY DEF IInv, TypeOK
  <2>4. \A j \in Jobs : answer[j] = "waiting" => left[j] # << >>
    BY DEF IInv, JobOK, AnswerOK
  <2>5. /\ answer' \in [Jobs -> {"unasked", "waiting", "ok", "refused", "failed", "timeout"}]
        /\ \A j \in Jobs : \/ answer'[j] = answer[j]
                           \/ answer[j] = "waiting" /\ answer'[j] = "timeout"
                           \/ j \in js /\ answer[j] = "waiting" /\ answer'[j] = "failed"
        /\ \A j \in js : answer'[j] # "waiting"
    BY <2>2, <2>3, <2>4 DEF Underway
  <2> QED
    BY <2>1, <2>5, CutOK
<1>9. CASE Ends
  BY <1>9, EndsOK
<1>10. CASE UNCHANGED vars
  BY <1>10 DEF vars, IInv, TypeOK, RunsOK, JobOK, ChainOK, AnswerOK, LateOK, BoxOK
<1> QED
  BY <1>1, <1>2, <1>3, <1>4, <1>5, <1>6, <1>7, <1>8, <1>9, <1>10 DEF Next

\* Where every chain stands, in every state that can be reached.
THEOREM Safety == Spec => []IInv
<1> QED
  BY InitIInv, NextIInv, PTL DEF Spec

\* The variables have their types.
THEOREM TypeCorrect == Spec => []TypeOK
<1>1. IInv => TypeOK
  BY DEF IInv
<1> QED
  BY <1>1, Safety, PTL

\* An operation that is answered 0 was done, and one that is answered with the daemon's
\* refusal was not, and its candidate runs only if somebody else started it
\* (read-proxy.ts:253-333).
THEOREM AnswersAreTrue == Spec => []AnswersMatchEffects
<1>1. IInv => AnswersMatchEffects
  BY DEF IInv, RunsOK, JobOK, AnswerOK, AnswersMatchEffects
<1> QED
  BY <1>1, Safety, PTL

\* A candidate that its job did not start is that job's to start or remove, or a request
\* of that job broke off or its clean-up was refused (read-proxy.ts:274-279).
THEOREM LeftoversAreExplained == Spec => []LeftoverHasCause
<1>1. IInv => LeftoverHasCause
  <2> SUFFICES ASSUME IInv, box.by # NoJob, box.by \notin did
               PROVE  left[box.by] # << >> \/ box.by \in upset
    BY DEF LeftoverHasCause
  <2>1. box.by \in Jobs
    BY DEF IInv, TypeOK
  <2> QED
    BY <2>1 DEF IInv, JobOK, BoxOK
<1> QED
  BY <1>1, Safety, PTL

\* The effects that take a candidate away: a removal that was asked for, and the clean-up
\* of its own job.
LEMMA TakenBy ==
    ASSUME NEW k \in Jobs, NEW request \in Requests, Effect(k, request), TypeOK,
           box.by # NoJob, box'.by # box.by
    PROVE  \/ kind[k] = "remove" /\ request = "act"
           \/ box.by = k /\ request = "undo"
<1>1. box' = BoxAfter(k, request) /\ box' # box
  BY DEF Effect
<1>2. box.by \in Jobs \cup {NoJob}
  BY DEF TypeOK
<1>3. box' # [by |-> box.by, runs |-> TRUE] /\ box' # [by |-> box.by, runs |-> kind[k] = "start"]
  BY <1>2, BoxFacts DEF BoxIs
<1> QED
  BY <1>1, <1>3 DEF BoxAfter

\* Who may take the candidate away, and by what.
OwnCleanup(j) ==
    \/ kind[j] = "remove" /\ (left'[j] # left[j] \/ <<j, "act">> \in late \ late')
    \/ j = box.by /\ j \notin did /\ (left[j] = <<"undo">> \/ <<j, "undo">> \in late \ late')

\* A candidate is taken away by an operation that was asked to remove it, or by the
\* clean-up of its own job, which did not start it, a late one included; by no other's
\* clean-up (read-proxy.ts:279, 289).
THEOREM CleanupIsOwn == Spec => OnlyOwnCleanup
<1>1. IInv /\ [Next]_vars =>
        [box.by # NoJob /\ box'.by # box.by => \E j \in Jobs : OwnCleanup(j)]_vars
  <2> SUFFICES ASSUME IInv, [Next]_vars, box.by # NoJob, box'.by # box.by
               PROVE  \E j \in Jobs : OwnCleanup(j)
    OBVIOUS
  <2>1. TypeOK /\ \A j \in Jobs : ChainOK(j) /\ LateOK(j) /\ AnswerOK(j)
    BY DEF IInv, JobOK
  <2>2. ASSUME NEW j \in Jobs, left[j] # << >>, Effect(j, Head(left[j])), left'[j] # left[j]
        PROVE  OwnCleanup(j)
    <3>1. Head(left[j]) \in Requests /\ (Head(left[j]) = "undo" => left[j] = Undo)
      BY <2>1, <2>2, LeftFacts
    <3>2. \/ kind[j] = "remove"
          \/ box.by = j /\ Head(left[j]) = "undo"
      BY <2>1, <2>2, <3>1, TakenBy
    <3>3. Head(left[j]) = "undo" => left[j] = <<"undo">> /\ j \notin did
      BY <2>1, <3>1 DEF ChainOK, Undo
    <3> QED
      BY <2>2, <3>2, <3>3 DEF OwnCleanup
  <2>3. ASSUME NEW j \in Jobs, Done(j)
        PROVE  OwnCleanup(j)
    <3>1. left[j] # << >> /\ Effect(j, Head(left[j])) /\ left'[j] = Tail(left[j])
      BY <2>1, <2>3 DEF Done, TypeOK
    <3>2. left[j] \in Seq(Requests)
      BY <2>1 DEF TypeOK
    <3>3. Len(Tail(left[j])) = Len(left[j]) - 1 /\ Len(left[j]) \in Nat
      BY <3>1, <3>2
    <3>4. Tail(left[j]) # left[j]
      <4> SUFFICES ASSUME Tail(left[j]) = left[j] PROVE FALSE
        OBVIOUS
      <4>1. Len(Tail(left[j])) = Len(left[j])
        OBVIOUS
      <4> QED
        BY <3>3, <4>1
    <3> QED
      BY <2>2, <3>1, <3>4
  <2>4. ASSUME NEW j \in Jobs, left[j] # << >>, BreaksOff(j)
        PROVE  OwnCleanup(j)
    <3>1. Effect(j, Head(left[j])) /\ left'[j] = << >>
      BY <2>1, <2>4 DEF BreaksOff, NoEffect, TypeOK
    <3> QED
      BY <2>2, <2>4, <3>1
  <2>5. ASSUME NEW j \in Jobs, NEW request \in Requests, Late(j, request)
        PROVE  OwnCleanup(j)
    <3>1. <<j, request>> \in late /\ late' = late \ {<<j, request>>} /\ Effect(j, request)
      BY <2>5 DEF Late
    <3>2. request = "undo" => j \notin did
      BY <2>1, <3>1 DEF LateOK
    <3>3. \/ kind[j] = "remove" /\ request = "act"
          \/ box.by = j /\ request = "undo"
      BY <2>1, <3>1, TakenBy
    <3> QED
      BY <3>1, <3>2, <3>3 DEF OwnCleanup
  <2>6. CASE \E j \in Jobs : Done(j)
    BY <2>3, <2>6
  <2>7. CASE \E j \in Jobs : Break(j) \/ GiveUp(j)
    <3>1. PICK j \in Jobs : Break(j) \/ GiveUp(j)
      BY <2>7
    <3>2. left[j] # << >> /\ BreaksOff(j)
      BY <2>1, <3>1 DEF Break, GiveUp, AnswerOK
    <3> QED
      BY <2>4, <3>2
  <2>8. CASE \E j \in Jobs, request \in Requests : Late(j, request)
    BY <2>5, <2>8
  <2>9. /\ ~(\E j \in Jobs : Ask(j) \/ Refuse(j)) /\ ~AgentRestart /\ ~ProxyRestart
        /\ ~UNCHANGED vars
    BY DEF Ask, Refuse, AgentRestart, ProxyRestart, Cut, NoEffect, vars
  <2>10. ~Ends
    BY <2>1 DEF Ends, TypeOK
  <2> QED
    BY <2>6, <2>7, <2>8, <2>9, <2>10 DEF Next
<1> QED
  BY <1>1, Safety, PTL DEF Spec, OnlyOwnCleanup, OwnCleanup

-----------------------------------------------------------------------------
(* The execution broker *)

\* How far a reader has come: it was given nothing behind its offset, and all of
\* it up to there as long as the window was not cut.
ReaderKeepsUp(r) ==
    LET s == reader[r].on
    IN s # Nobody =>
        /\ reader[r].seen <= session[s].lo + reader[r].offset
        /\ session[s].lo = 0 => reader[r].offset = reader[r].seen

\* The inductive invariant.
BrokerIInv ==
    /\ BrokerTypeOK
    /\ IsFiniteSet(Active)
    /\ SessionsBounded
    /\ \A r \in Readers : ReaderKeepsUp(r)

\* A read that gives something goes from the offset on to its end; its next
\* offset is where it ended.
LEMMA ReadResult ==
    ASSUME BrokerTypeOK, NEW s \in SessionIds, NEW offset \in Nat, NEW limit \in Nat \ {0}
    PROVE  /\ NextOffset(s, offset, limit) \in Nat
           /\ ReadEnd(s, offset, limit) \in Nat
           /\ ReadEnd(s, offset, limit) = session[s].lo + NextOffset(s, offset, limit)
           /\ session[s].lo + offset >= session[s].hi => NextOffset(s, offset, limit) = offset
           /\ NextOffset(s, offset, limit) >= offset
  BY DEF BrokerTypeOK, Session, ReadEnd, NextOffset

\* No step that starts no session adds to the active ones.
LEMMA FewerActive ==
    ASSUME BrokerIInv, Active' \in SUBSET Active
    PROVE  IsFiniteSet(Active)' /\ SessionsBounded'
<1>1. /\ IsFiniteSet(Active') /\ Cardinality(Active') <= Cardinality(Active)
      /\ Cardinality(Active) \in Nat /\ Cardinality(Active') \in Nat
  BY FS_Subset, FS_CardinalityType DEF BrokerIInv
<1> QED
  BY <1>1, ExecBrokerAssumption DEF BrokerIInv, SessionsBounded

\* A reader stays in step while the window moves on under it.
LEMMA WindowMoves ==
    ASSUME BrokerIInv, BrokerTypeOK', UNCHANGED reader,
           \A s \in SessionIds : session'[s].lo >= session[s].lo
    PROVE  \A r \in Readers : ReaderKeepsUp(r)'
<1> SUFFICES ASSUME NEW r \in Readers, reader[r].on # Nobody
             PROVE  ReaderKeepsUp(r)'
  BY DEF ReaderKeepsUp
<1>1. reader[r].on \in SessionIds /\ reader[r] \in Reader
  BY DEF BrokerIInv, BrokerTypeOK, Reader
<1>2. session[reader[r].on] \in Session /\ session'[reader[r].on] \in Session
  BY <1>1 DEF BrokerIInv, BrokerTypeOK
<1> QED
  BY <1>1, <1>2 DEF BrokerIInv, ReaderKeepsUp, Reader, Session

\* A step that changes only the state of one session, and adds no active one.
LEMMA SessionSettles ==
    ASSUME BrokerIInv, NEW s \in SessionIds, NEW state \in {"dead", "exited", "closed", "gone"},
           session' = [session EXCEPT ![s].state = state], UNCHANGED <<reader, file>>,
           state \in {"dead", "exited"} => s \in Active
    PROVE  BrokerIInv'
<1>1. BrokerTypeOK'
  BY DEF BrokerIInv, BrokerTypeOK, Session, States
<1>2. Active' \in SUBSET Active
  BY DEF Active, BrokerIInv, BrokerTypeOK, Session
<1>3. \A u \in SessionIds : session'[u].lo >= session[u].lo
  BY DEF BrokerIInv, BrokerTypeOK, Session
<1> QED
  BY <1>1, <1>2, <1>3, FewerActive, WindowMoves DEF BrokerIInv

\* The broker is started again: nothing is active.
LEMMA RestartStep == ASSUME BrokerIInv, BrokerRestart PROVE BrokerIInv'
<1>1. BrokerTypeOK'
  BY DEF BrokerIInv, BrokerTypeOK, Session, States, BrokerRestart
<1>2. Active' \in SUBSET Active
  BY DEF Active, BrokerIInv, BrokerTypeOK, Session, BrokerRestart
<1>3. \A u \in SessionIds : session'[u].lo >= session[u].lo
  BY DEF BrokerIInv, BrokerTypeOK, Session, BrokerRestart
<1> QED
  BY <1>1, <1>2, <1>3, FewerActive, WindowMoves DEF BrokerIInv, BrokerRestart

\* process.start adds one session where there is room for it.
LEMMA StartStep == ASSUME BrokerIInv, NEW s \in SessionIds, ProcessStart(s) PROVE BrokerIInv'
<1>1. BrokerTypeOK'
  BY DEF BrokerIInv, BrokerTypeOK, Session, States, Reader, ProcessStart
<1>2. Active' = Active \cup {s} /\ s \notin Active
  BY DEF BrokerIInv, BrokerTypeOK, Session, ProcessStart, Active
<1>3. IsFiniteSet(Active)' /\ SessionsBounded'
  <2>1. IsFiniteSet(Active \cup {s}) /\ Cardinality(Active \cup {s}) = Cardinality(Active) + 1
        /\ Cardinality(Active) \in Nat
    BY <1>2, FS_AddElement, FS_CardinalityType DEF BrokerIInv
  <2> QED
    BY <1>2, <2>1, ExecBrokerAssumption DEF ProcessStart, HasRoom, SessionsBounded
<1>4. \A u \in SessionIds : session'[u].lo = session[u].lo /\ session[u].lo \in Nat
  BY DEF BrokerIInv, BrokerTypeOK, Session, ProcessStart
<1>5. ASSUME NEW r \in Readers PROVE ReaderKeepsUp(r)'
  <2>1. CASE reader'[r] = reader[r]
    BY <1>4, <1>5, <2>1 DEF BrokerIInv, BrokerTypeOK, Reader, ReaderKeepsUp
  <2>2. CASE reader'[r] = [on |-> s, offset |-> 0, seen |-> 0, all |-> 0]
    BY <1>4, <2>2 DEF ReaderKeepsUp
  <2> QED
    BY <2>1, <2>2 DEF ProcessStart, BrokerIInv, BrokerTypeOK
<1> QED
  BY <1>1, <1>3, <1>5 DEF BrokerIInv

\* append moves the window forward.
LEMMA OutputStep ==
    ASSUME BrokerIInv, NEW s \in SessionIds, NEW n \in 1 .. MaxChunk, Output(s, n)
    PROVE  BrokerIInv'
<1> DEFINE top == session[s].hi + n
           low == IF top - session[s].lo > MaxOutput THEN top - MaxOutput ELSE session[s].lo
<1>1. /\ session[s] \in Session /\ n \in Nat /\ top \in Nat
      /\ low \in Nat /\ low >= session[s].lo
  BY ExecBrokerAssumption DEF BrokerIInv, BrokerTypeOK, Session
<1>2. session' = [session EXCEPT ![s].hi = top, ![s].lo = low] /\ UNCHANGED <<reader, file>>
  BY DEF Output
<1> HIDE DEF top, low
<1>3. BrokerTypeOK'
  BY <1>1, <1>2 DEF BrokerIInv, BrokerTypeOK, Session
<1>4. Active' \in SUBSET Active
  BY <1>2 DEF Active, BrokerIInv, BrokerTypeOK, Session
<1>5. \A u \in SessionIds : session'[u].lo >= session[u].lo
  BY <1>1, <1>2 DEF BrokerIInv, BrokerTypeOK, Session
<1> QED
  BY <1>2, <1>3, <1>4, <1>5, FewerActive, WindowMoves DEF BrokerIInv

\* process.read leaves the reader in step.
LEMMA ReadStep ==
    ASSUME BrokerIInv, NEW r \in Readers, NEW limit \in 1 .. MaxChunk, ProcessRead(r, limit)
    PROVE  BrokerIInv'
<1> DEFINE s == reader[r].on
           next == NextOffset(s, reader[r].offset, limit)
           end == ReadEnd(s, reader[r].offset, limit)
<1>1. /\ s \in SessionIds /\ reader[r] \in Reader /\ session[s] \in Session
      /\ limit \in Nat \ {0} /\ UNCHANGED <<session, file>>
  BY ExecBrokerAssumption DEF BrokerIInv, BrokerTypeOK, Reader, ProcessRead
<1>2. /\ next \in Nat /\ end \in Nat /\ end = session[s].lo + next /\ next >= reader[r].offset
      /\ session[s].lo + reader[r].offset >= session[s].hi => next = reader[r].offset
  BY <1>1, ReadResult DEF BrokerIInv, Reader
<1>3. /\ reader'[r] \in Reader /\ reader'[r].on = s /\ reader'[r].offset = next
      /\ reader'[r].seen = IF session[s].lo + reader[r].offset < session[s].hi
                           THEN end ELSE reader[r].seen
      /\ reader' = [reader EXCEPT ![r] = reader'[r]]
  BY <1>1, <1>2 DEF ProcessRead, BrokerIInv, BrokerTypeOK, Reader, Session
<1>4. BrokerTypeOK'
  BY <1>1, <1>3 DEF BrokerIInv, BrokerTypeOK
<1>5. Active' = Active
  BY <1>1 DEF Active
<1>6. ASSUME NEW q \in Readers PROVE ReaderKeepsUp(q)'
  <2>1. CASE q # r
    BY <1>1, <1>3, <2>1 DEF BrokerIInv, BrokerTypeOK, ReaderKeepsUp
  <2>2. CASE q = r
    <3>1. ReaderKeepsUp(r)
      BY DEF BrokerIInv
    <3>2. session[s].lo \in Nat /\ session[s].hi \in Nat /\ reader[r].offset \in Nat
          /\ reader[r].seen \in Nat
      BY <1>1 DEF Reader, Session
    <3> QED
      BY <1>1, <1>2, <1>3, <2>2, <3>1, <3>2 DEF ReaderKeepsUp
  <2> QED
    BY <2>1, <2>2
<1> QED
  BY <1>4, <1>5, <1>6 DEF BrokerIInv, SessionsBounded

\* Every step keeps the invariant.
LEMMA BrokerStep == BrokerIInv /\ [BrokerNext]_brokerVars => BrokerIInv'
<1> SUFFICES ASSUME BrokerIInv, [BrokerNext]_brokerVars PROVE BrokerIInv'
  OBVIOUS
<1>1. ASSUME NEW s \in SessionIds, ProcessStart(s) PROVE BrokerIInv'
  BY <1>1, StartStep
<1>2. ASSUME NEW s \in SessionIds, NEW n \in 1 .. MaxChunk, Output(s, n) PROVE BrokerIInv'
  BY <1>2, OutputStep
<1>3. ASSUME NEW s \in SessionIds, ChildEnds(s) \/ ExitSeen(s) \/ Close(s) \/ Reap(s) PROVE BrokerIInv'
  <2>1. \A state : state \in {"dead", "exited"} =>
            (state = "dead" /\ ChildEnds(s) => s \in Active)
            /\ (state = "exited" /\ ExitSeen(s) => s \in Active)
    BY DEF Active, ChildEnds, ExitSeen
  <2> QED
    BY <1>3, <2>1, SessionSettles DEF ChildEnds, ExitSeen, Close, Reap
<1>4. ASSUME NEW s \in SessionIds, ProcessInput(s) PROVE BrokerIInv'
  BY <1>4, RestartStep DEF ProcessInput
<1>5. ASSUME NEW r \in Readers, NEW limit \in 1 .. MaxChunk, ProcessRead(r, limit) PROVE BrokerIInv'
  BY <1>5, ReadStep
<1>6. CASE BrokerRestart
  BY <1>6, RestartStep
<1>7. CASE WorkspaceWrite \/ WorkspaceEdit \/ WorkspaceMove
  BY <1>7 DEF WorkspaceWrite, WorkspaceEdit, WorkspaceMove, BrokerIInv, BrokerTypeOK, Active,
              SessionsBounded, ReaderKeepsUp
<1>8. CASE UNCHANGED brokerVars
  BY <1>8 DEF brokerVars, BrokerIInv, BrokerTypeOK, Active, SessionsBounded, ReaderKeepsUp
<1> QED
  BY <1>1, <1>2, <1>3, <1>4, <1>5, <1>6, <1>7, <1>8 DEF BrokerNext

\* The invariant holds at the start.
LEMMA BrokerInitIInv == BrokerInit => BrokerIInv
<1> SUFFICES ASSUME BrokerInit PROVE BrokerIInv
  OBVIOUS
<1>1. BrokerTypeOK
  BY DEF BrokerInit, BrokerTypeOK, Session, States, Reader
<1>2. Active = {}
  BY DEF BrokerInit, Active
<1> QED
  BY <1>1, <1>2, FS_EmptySet, ExecBrokerAssumption DEF BrokerInit, BrokerIInv, SessionsBounded, ReaderKeepsUp

\* The inductive invariant of the broker.
THEOREM BrokerSafety == BrokerSpec => []BrokerIInv
  BY BrokerInitIInv, BrokerStep, PTL DEF BrokerSpec

\* The variables of the broker keep their types.
THEOREM BrokerTypeCorrect == BrokerSpec => []BrokerTypeOK
<1>1. BrokerIInv => BrokerTypeOK
  BY DEF BrokerIInv
<1> QED
  BY <1>1, BrokerSafety, PTL

\* The sessions that are not closed are never more than the limit, whatever it is.
THEOREM SessionsAreBounded == BrokerSpec => []SessionsBounded
<1>1. BrokerIInv => SessionsBounded
  BY DEF BrokerIInv
<1> QED
  BY <1>1, BrokerSafety, PTL

\* No reader is given a character twice, nor one out of turn while the window is
\* whole.
THEOREM ReadersGoInOrder == BrokerSpec => ReadsInOrder
<1> DEFINE Ordered ==
        \A r \in Readers : reader[r].on # Nobody /\ reader'[r] # reader[r] =>
            LET s == reader[r].on
                first == session[s].lo + reader[r].offset + 1
            IN /\ reader'[r].seen # reader[r].seen => first > reader[r].seen
               /\ first > reader[r].seen + 1 => session[s].lo > 0
<1>1. BrokerIInv => Ordered
  <2> SUFFICES ASSUME BrokerIInv, NEW r \in Readers, reader[r].on # Nobody
               PROVE  LET s == reader[r].on
                          first == session[s].lo + reader[r].offset + 1
                      IN /\ reader'[r].seen # reader[r].seen => first > reader[r].seen
                         /\ first > reader[r].seen + 1 => session[s].lo > 0
    OBVIOUS
  <2>1. reader[r].on \in SessionIds /\ reader[r] \in Reader
    BY DEF BrokerIInv, BrokerTypeOK, Reader
  <2>2. session[reader[r].on].lo \in Nat /\ reader[r].offset \in Nat /\ reader[r].seen \in Nat
    BY <2>1 DEF BrokerIInv, BrokerTypeOK, Session, Reader
  <2>3. ReaderKeepsUp(r)
    BY DEF BrokerIInv
  <2> QED
    BY <2>2, <2>3 DEF ReaderKeepsUp
<1> QED
  BY <1>1, BrokerSafety, PTL DEF ReadsInOrder
=============================================================================
