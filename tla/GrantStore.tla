------------------------------- MODULE GrantStore -------------------------------
(***************************************************************************)
(* The DeepHarness grant store (persistent-grant-store.mjs) with the       *)
(* semantic policy and the bridge backend that call it.                    *)
(*                                                                         *)
(* Grants and deliveries are one object in memory, written whole to a file *)
(* before memory changes.  A write that fails leaves memory as it was and  *)
(* faults the store until a restart, though the file may already be the    *)
(* new one.  Changes of grants and commits of instructions share a queue;  *)
(* a commit holds it while it awaits DeepHarness.  Reads and the first     *)
(* look at a grant do not queue.                                           *)
(*                                                                         *)
(* An id stands for caller, workspace and Lead.  DeepHarness is external:  *)
(* it admits the first prompt with a request id and answers later ones     *)
(* with that id alike.  An instruction sent again while an earlier copy is *)
(* still on its way is therefore one message.                              *)
(***************************************************************************)
EXTENDS Naturals, Sequences, FiniteSets

CONSTANTS Ids,             \* caller, workspace and Lead of a grant
          Keys,            \* idempotency keys
          Payloads,        \* hashes of instructions
          None,            \* no grant, no delivery, no commit
          MaxGrants,       \* MAX_GRANTS
          MaxDeliveries,   \* MAX_DELIVERIES
          MaxCalls         \* bound on the calls that queue; each draws one UUID at most

ASSUME GrantFiniteAssumption == IsFiniteSet(Ids) /\ IsFiniteSet(Keys)
ASSUME GrantLimitsAssumption == MaxGrants \in Nat /\ MaxDeliveries \in Nat /\ MaxCalls \in Nat

VARIABLES mem,       \* state
          disk,      \* the file
          faulted,
          queue,     \* the calls behind the one that holds the queue
          commit,    \* the commit that awaits submit()
          phase,     \* how far its submit() is
          reads,     \* reads that await DeepHarness
          inflight,  \* prompts on their way to DeepHarness
          admitted,  \* what DeepHarness admitted
          fresh,     \* UUIDs drawn so far
          calls,     \* calls queued so far
          \* History variables, read by properties only
          retired,   \* revisions that an acknowledged put or revocation ended
          answers,   \* receipts returned to callers
          lateReads, \* revisions a read was served under after they were retired
          lateAdmits \* slots admitted after their revision was retired

dshVars == <<inflight, admitted, lateAdmits>>
readVars == <<reads, lateReads>>
storeVars == <<mem, disk, faulted, fresh>>
commitVars == <<commit, phase>>
vars == <<storeVars, queue, commitVars, readVars, dshVars, calls, retired, answers>>

\* The actions the console grants: reading, or reading and instructing.
ReadActions == {"team.read", "chat.read"}
InstructActions == ReadActions \cup {"lead.instruct"}

Slots == Ids \X Keys
Uuids == 0 .. MaxCalls

Grant == [actions : {ReadActions, InstructActions}, revision : Uuids, revoked : BOOLEAN]
Delivery == [payload : Payloads, revision : Uuids, receipt : Uuids, accepted : BOOLEAN]
State == [grants : [Ids -> Grant \cup {None}], deliveries : [Slots -> Delivery \cup {None}]]

EmptyState == [grants |-> [i \in Ids |-> None], deliveries |-> [s \in Slots |-> None]]

Commit == [op : {"commit"}, id : Ids, key : Keys, payload : Payloads, revision : Uuids]
Call == [op : {"put"}, id : Ids, actions : {ReadActions, InstructActions}]
        \cup [op : {"revoke"}, id : Ids]
        \cup Commit

\* The part of a delivery that LeadDelivery is about.
Record == [payload : Payloads, receipt : Uuids, accepted : BOOLEAN]

ASSUME GrantNoneAssumption ==
    None \notin Payloads \cup Grant \cup Delivery \cup Commit \cup Record

-----------------------------------------------------------------------------
(* Reading and writing the store *)

Known(f) == {x \in DOMAIN f : f[x] # None}

Current(st, i) == st.grants[i] # None /\ ~st.grants[i].revoked

\* Mutant of MayInstruct: the revision is not compared.
MayInstructAny(st, c) == Current(st, c.id) /\ "lead.instruct" \in st.grants[c.id].actions

\* The checks of a commit, made before and after the await.
MayInstruct(st, c) ==
    /\ Current(st, c.id)
    /\ "lead.instruct" \in st.grants[c.id].actions
    /\ st.grants[c.id].revision = c.revision

Slot(c) == <<c.id, c.key>>

\* How persistFile ends: the file is replaced, it throws before the rename, or
\* it throws after it.
Outcomes == {"saved", "failed", "unsynced"}

\* Mutant of Save: memory changes, and the file some time later.
SaveLater(next, outcome) ==
    /\ mem' = next
    /\ disk' = IF outcome = "saved" THEN mem ELSE disk
    /\ UNCHANGED faulted

Save(next, outcome) ==
    /\ disk' = IF outcome = "failed" THEN disk ELSE next
    /\ mem' = IF outcome = "saved" THEN next ELSE mem
    /\ faulted' = (outcome # "saved")

DrawUuid == fresh < MaxCalls /\ fresh' = fresh + 1

-----------------------------------------------------------------------------
Init ==
    /\ mem = EmptyState /\ disk = EmptyState /\ faulted = FALSE
    /\ queue = << >> /\ commit = None /\ phase = "idle"
    /\ reads = {} /\ inflight = {}
    /\ admitted = [s \in Slots |-> None]
    /\ fresh = 0 /\ calls = 0
    /\ retired = {} /\ answers = {} /\ lateReads = {} /\ lateAdmits = {}

-----------------------------------------------------------------------------
(* Calls *)

Enqueue(c) ==
    /\ calls < MaxCalls
    /\ calls' = calls + 1
    /\ queue' = Append(queue, c)
    /\ UNCHANGED <<storeVars, commitVars, readVars, dshVars, retired, answers>>

\* POST /deepharness-grants
AdminCalls(i) ==
    \/ \E acts \in {ReadActions, InstructActions} :
           Enqueue([op |-> "put", id |-> i, actions |-> acts])
    \/ Enqueue([op |-> "revoke", id |-> i])

\* sendLeadInstruction: looks the grant up and queues a commit under the
\* revision it found.
SendLeadInstruction(i, k, p) ==
    /\ ~faulted
    /\ Current(mem, i)
    /\ "lead.instruct" \in mem.grants[i].actions
    /\ Enqueue([op |-> "commit", id |-> i, key |-> k, payload |-> p,
                revision |-> mem.grants[i].revision])

\* The call at the head of the queue is of this kind and runs now.
Turn(op) == commit = None /\ queue # << >> /\ Head(queue).op = op /\ ~faulted

\* A call that finds the store faulted is denied.
DeniedByFault ==
    /\ commit = None /\ queue # << >> /\ faulted
    /\ queue' = Tail(queue)
    /\ UNCHANGED <<storeVars, commitVars, readVars, dshVars, calls, retired, answers>>

\* The grant whose place a new one takes, if the change is saved.
Retire(i, outcome) ==
    retired' = IF outcome = "saved" /\ mem.grants[i] # None
               THEN retired \cup {mem.grants[i].revision} ELSE retired

RoomForGrant(i) ==
    mem.grants[i] # None \/ Cardinality(Known(mem.grants)) < MaxGrants

\* putGrant
PutGrant(outcome) ==
    LET c == Head(queue)
        grant == [actions |-> c.actions, revision |-> fresh, revoked |-> FALSE]
    IN
    /\ Turn("put")
    /\ RoomForGrant(c.id)
    /\ Save([mem EXCEPT !.grants[c.id] = grant], outcome)
    /\ Retire(c.id, outcome)
    /\ DrawUuid
    /\ queue' = Tail(queue)
    /\ UNCHANGED <<commitVars, readVars, dshVars, calls, answers>>

\* putGrant when the store is full.
PutRefused ==
    /\ Turn("put")
    /\ ~RoomForGrant(Head(queue).id)
    /\ queue' = Tail(queue)
    /\ UNCHANGED <<storeVars, commitVars, readVars, dshVars, calls, retired, answers>>

\* revokeGrant
RevokeGrant(outcome) ==
    LET i == Head(queue).id IN
    /\ Turn("revoke")
    /\ Current(mem, i)
    /\ Save([mem EXCEPT !.grants[i] = [@ EXCEPT !.revision = fresh, !.revoked = TRUE]], outcome)
    /\ Retire(i, outcome)
    /\ DrawUuid
    /\ queue' = Tail(queue)
    /\ UNCHANGED <<commitVars, readVars, dshVars, calls, answers>>

\* revokeGrant when there is nothing to revoke.
RevokeNothing ==
    /\ Turn("revoke")
    /\ ~Current(mem, Head(queue).id)
    /\ queue' = Tail(queue)
    /\ UNCHANGED <<storeVars, commitVars, readVars, dshVars, calls, retired, answers>>

-----------------------------------------------------------------------------
(* withAuthorizedLeadCommit *)

\* Mutant of Conflict: the payload is not compared.
ConflictOfRevision(c) ==
    LET previous == mem.deliveries[Slot(c)] IN
    previous # None /\ previous.revision # c.revision

\* The key was used for another payload or under another revision.
Conflict(c) ==
    LET previous == mem.deliveries[Slot(c)] IN
    previous # None /\ (previous.payload # c.payload \/ previous.revision # c.revision)

\* Mutant of DeliveriesFull: off by one.
DeliveriesFullLate == Cardinality(Known(mem.deliveries)) > MaxDeliveries

DeliveriesFull == Cardinality(Known(mem.deliveries)) >= MaxDeliveries

\* What a caller gets back, with what was true when it did.
Answer(c, receipt) ==
    answers' = answers \cup {[slot |-> Slot(c), payload |-> c.payload, receipt |-> receipt,
                              late |-> {c.revision} \cap retired]}

CommitRefused ==
    LET c == Head(queue) IN
    /\ Turn("commit")
    /\ \/ ~MayInstruct(mem, c)
       \/ Conflict(c)
       \/ mem.deliveries[Slot(c)] = None /\ DeliveriesFull
    /\ queue' = Tail(queue)
    /\ UNCHANGED <<storeVars, commitVars, readVars, dshVars, calls, retired, answers>>

\* The instruction was accepted before: its receipt is returned again.
CommitDuplicate ==
    LET c == Head(queue) IN
    /\ Turn("commit")
    /\ MayInstruct(mem, c) /\ ~Conflict(c)
    /\ mem.deliveries[Slot(c)] # None
    /\ mem.deliveries[Slot(c)].accepted
    /\ Answer(c, mem.deliveries[Slot(c)].receipt)
    /\ queue' = Tail(queue)
    /\ UNCHANGED <<storeVars, commitVars, readVars, dshVars, calls, retired>>

\* A new instruction is recorded as pending before anything is sent.
Intent(c, outcome) ==
    /\ Save([mem EXCEPT !.deliveries[Slot(c)] =
                [payload |-> c.payload, revision |-> c.revision,
                 receipt |-> fresh, accepted |-> FALSE]], outcome)
    /\ DrawUuid

CommitBegin(outcome) ==
    LET c == Head(queue) IN
    /\ Turn("commit")
    /\ MayInstruct(mem, c)
    /\ mem.deliveries[Slot(c)] = None /\ ~DeliveriesFull
    /\ Intent(c, outcome)
    /\ commit' = IF outcome = "saved" THEN c ELSE None
    /\ phase' = IF outcome = "saved" THEN "team" ELSE "idle"
    /\ queue' = Tail(queue)
    /\ UNCHANGED <<readVars, dshVars, calls, retired, answers>>

\* A pending instruction is submitted again.
CommitRetry ==
    LET c == Head(queue) IN
    /\ Turn("commit")
    /\ MayInstruct(mem, c) /\ ~Conflict(c)
    /\ mem.deliveries[Slot(c)] # None
    /\ ~mem.deliveries[Slot(c)].accepted
    /\ commit' = c /\ phase' = "team"
    /\ queue' = Tail(queue)
    /\ UNCHANGED <<storeVars, readVars, dshVars, calls, retired, answers>>

Prompt(c) == [slot |-> Slot(c), payload |-> c.payload]

\* submit(): readTeam found the Lead active, and the prompt is sent.
SendPrompt ==
    /\ phase = "team"
    /\ phase' = "sent"
    /\ inflight' = inflight \cup {Prompt(commit)}
    /\ UNCHANGED <<storeVars, queue, commit, readVars, admitted, lateAdmits, calls,
                   retired, answers>>

\* Mutant of SubmitFails: a request has no timeout.
SubmitFailsUnsent ==
    /\ phase = "team"
    /\ commit' = None /\ phase' = "idle"
    /\ UNCHANGED <<storeVars, queue, readVars, dshVars, calls, retired, answers>>

\* submit() throws: the Lead is not active, the request fails or times out, or
\* its answer is lost or is not an acknowledgement.  The prompt may still be on
\* its way.
SubmitFails ==
    /\ commit # None
    /\ commit' = None /\ phase' = "idle"
    /\ UNCHANGED <<storeVars, queue, readVars, dshVars, calls, retired, answers>>

\* The acknowledgement is in: the grant is checked again and the delivery is
\* saved as accepted.
CommitFinish(outcome) ==
    LET s == Slot(commit) IN
    /\ phase = "acked"
    /\ IF MayInstruct(mem, commit)
       THEN /\ Save([mem EXCEPT !.deliveries[s] = [@ EXCEPT !.accepted = TRUE]], outcome)
            /\ IF outcome = "saved"
               THEN Answer(commit, mem.deliveries[s].receipt)
               ELSE UNCHANGED answers
       ELSE UNCHANGED <<mem, disk, faulted, answers>>
    /\ commit' = None /\ phase' = "idle"
    /\ UNCHANGED <<fresh, queue, readVars, dshVars, calls, retired>>

-----------------------------------------------------------------------------
(* DeepHarness *)

\* DeepHarness admits a prompt, or finds its request id admitted; either way it
\* acknowledges.
Admit(m) ==
    /\ inflight' = inflight \ {m}
    /\ admitted' = [admitted EXCEPT ![m.slot] = IF @ = None THEN m.payload ELSE @]
    /\ lateAdmits' = IF admitted[m.slot] = None /\ disk.deliveries[m.slot] # None
                        /\ disk.deliveries[m.slot].revision \in retired
                     THEN lateAdmits \cup {m.slot} ELSE lateAdmits
    /\ phase' = IF phase = "sent" /\ Prompt(commit) = m THEN "acked" ELSE phase
    /\ UNCHANGED <<storeVars, queue, commit, readVars, calls, retired, answers>>

\* A prompt is lost, or refused because the Lead is gone.
Discard(m) ==
    /\ inflight' = inflight \ {m}
    /\ UNCHANGED <<storeVars, queue, commitVars, readVars, admitted, lateAdmits, calls,
                   retired, answers>>

-----------------------------------------------------------------------------
(* Reads, and restarts *)

\* readTeam and readChat: the grant is looked up, then DeepHarness is awaited.
ReadStart(i) ==
    /\ ~faulted
    /\ Current(mem, i)
    /\ reads' = reads \cup {[id |-> i, revision |-> mem.grants[i].revision]}
    /\ UNCHANGED <<storeVars, queue, commitVars, lateReads, dshVars, calls, retired, answers>>

\* Mutant of Recheck: the grant is not looked up again.
NoRecheck(r) == TRUE

\* recheck: the grant is still there, under the same revision.
Recheck(r) ==
    /\ ~faulted
    /\ Current(mem, r.id)
    /\ mem.grants[r.id].revision = r.revision

\* The result arrives: it is returned, or the read is denied.
ReadReturns(r) ==
    /\ reads' = reads \ {r}
    /\ lateReads' = IF Recheck(r) /\ r.revision \in retired
                    THEN lateReads \cup {r.revision} ELSE lateReads
    /\ UNCHANGED <<storeVars, queue, commitVars, dshVars, calls, retired, answers>>

\* The process ends and starts again: the file is loaded.
Restart ==
    /\ mem' = disk
    /\ faulted' = FALSE
    /\ queue' = << >> /\ commit' = None /\ phase' = "idle"
    /\ reads' = {}
    /\ UNCHANGED <<disk, fresh, lateReads, dshVars, calls, retired, answers>>

\* What the store does by itself once it is called.
Work ==
    \/ DeniedByFault
    \/ \E outcome \in Outcomes : PutGrant(outcome) \/ RevokeGrant(outcome)
                                 \/ CommitBegin(outcome) \/ CommitFinish(outcome)
    \/ PutRefused \/ RevokeNothing
    \/ CommitRefused \/ CommitDuplicate \/ CommitRetry
    \/ SendPrompt

Next ==
    \/ \E i \in Ids : AdminCalls(i)
    \/ \E i \in Ids, k \in Keys, p \in Payloads : SendLeadInstruction(i, k, p)
    \/ Work
    \/ SubmitFails
    \/ \E m \in inflight : Admit(m) \/ Discard(m)
    \/ \E i \in Ids : ReadStart(i)
    \/ \E r \in reads : ReadReturns(r)
    \/ Restart

Spec == Init /\ [][Next]_vars

\* The event loop runs what is queued, and every request to DeepHarness has a
\* timeout (private-bridge-client.mjs, agent-mesh-semantic-client.mjs).
Fairness == WF_vars(Work) /\ WF_vars(SubmitFails \/ \E o \in Outcomes : CommitFinish(o))

LiveSpec == Spec /\ Fairness

-----------------------------------------------------------------------------
(* Properties *)

\* The values each variable takes; a commit is under way in every phase but
\* "idle".
TypeOK ==
    /\ mem \in State /\ disk \in State /\ faulted \in BOOLEAN
    /\ queue \in Seq(Call)
    /\ commit \in Commit \cup {None}
    /\ phase \in {"idle", "team", "sent", "acked"}
    /\ phase = "idle" <=> commit = None
    /\ reads \subseteq [id : Ids, revision : Uuids]
    /\ inflight \subseteq [slot : Slots, payload : Payloads]
    /\ admitted \in [Slots -> Payloads \cup {None}]
    /\ fresh \in Uuids /\ calls \in 0 .. MaxCalls
    /\ retired \subseteq Uuids /\ lateReads \subseteq Uuids /\ lateAdmits \subseteq Slots
    /\ answers \subseteq [slot : Slots, payload : Payloads, receipt : Uuids, late : SUBSET Uuids]

\* A change of a grant that was acknowledged is lasting: no failed write and no
\* restart brings back a revision that was replaced or revoked, in memory or in
\* the file.
RetiredStaysRetired ==
    \A i \in Ids :
        /\ Current(mem, i) => mem.grants[i].revision \notin retired
        /\ Current(disk, i) => disk.grants[i].revision \notin retired

\* "putGrant/revokeGrant use this same queue, so no revocation can interleave
\* with this commit" (persistent-grant-store.mjs): while a commit awaits
\* DeepHarness, its grant is in force under its revision.
CommitKeepsGrant == commit # None => MayInstruct(mem, commit)

\* A receipt returned to a caller is true for good: the file holds it as the
\* one receipt of that key and payload, DeepHarness admitted that payload, and
\* the grant was in force when the receipt was returned.
ReceiptsAreHonest ==
    \A a \in answers :
        LET d == disk.deliveries[a.slot] IN
        /\ d # None
        /\ d.accepted /\ d.receipt = a.receipt /\ d.payload = a.payload
        /\ admitted[a.slot] = a.payload
        /\ a.late = {}

\* A read is never served under a grant that was replaced or revoked while it
\* awaited DeepHarness.
NoLateReads == lateReads = {}

\* The file the store writes is one that normalize() loads: it is within the
\* limits that are checked at the start.
FileLoads ==
    /\ Cardinality(Known(disk.grants)) <= MaxGrants
    /\ Cardinality(Known(disk.deliveries)) <= MaxDeliveries

\* The records of the file and what DeepHarness admitted, as the abstract
\* specification has them.
RecordOf(d) ==
    IF d = None THEN None
    ELSE [payload |-> d.payload, receipt |-> d.receipt, accepted |-> d.accepted]

Abstract == INSTANCE LeadDelivery WITH
    Receipts <- Uuids,
    record <- [s \in Slots |-> RecordOf(disk.deliveries[s])]

\* The store implements the abstract delivery of instructions.
ImplementsLeadDelivery == Abstract!Spec

\* What the other properties rest on: memory is the file unless the store is
\* faulted, UUIDs are not drawn twice, and every prompt and admission has its
\* record in the file.
RevisionsOK(st) ==
    /\ \A i \in Known(st.grants) : st.grants[i].revision < fresh
    /\ \A i, j \in Known(st.grants) : st.grants[i].revision = st.grants[j].revision => i = j

Consistent ==
    /\ ~faulted => mem = disk
    /\ commit # None => ~faulted
    /\ \A r \in retired : r < fresh
    /\ RevisionsOK(mem) /\ RevisionsOK(disk)

Recorded ==
    /\ commit # None =>
           LET d == disk.deliveries[Slot(commit)] IN
           d # None /\ ~d.accepted /\ d.payload = commit.payload
    /\ phase = "acked" => admitted[Slot(commit)] = commit.payload
    /\ \A m \in inflight :
           disk.deliveries[m.slot] # None /\ disk.deliveries[m.slot].payload = m.payload
    /\ \A s \in Slots : admitted[s] # None =>
           disk.deliveries[s] # None /\ disk.deliveries[s].payload = admitted[s]
    /\ \A s \in Slots : disk.deliveries[s] # None /\ disk.deliveries[s].accepted =>
           admitted[s] = disk.deliveries[s].payload

\* The inductive invariant.
IInv ==
    /\ TypeOK /\ Consistent /\ Recorded
    /\ RetiredStaysRetired /\ CommitKeepsGrant /\ ReceiptsAreHonest /\ NoLateReads

\* "a revocation cannot interleave after a commit's current grant check and
\* before prompt admission" (docs/DEEPHARNESS_SEMANTIC_READ_WRITE_GATE.md):
\* nothing is admitted under a grant that was replaced or revoked.
AdmittedUnderGrant == lateAdmits = {}

\* Every call is settled: no submit() that fails or hangs blocks the grants,
\* revocations and commits queued behind it.
CallsSettle == <>[](queue = << >> /\ commit = None)
=============================================================================
