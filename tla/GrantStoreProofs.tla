---------------------------- MODULE GrantStoreProofs ----------------------------
(***************************************************************************)
(* The grant store keeps its invariant for any callers, keys, payloads and *)
(* limits, and implements LeadDelivery.                                    *)
(***************************************************************************)
EXTENDS GrantStore, FiniteSetTheorems, TLAPS

-----------------------------------------------------------------------------
(* Types *)

\* The call at the head of a queue is one of the three kinds.
LEMMA HeadOK ==
    ASSUME queue \in Seq(Call), queue # << >>
    PROVE  /\ Head(queue) \in Call /\ Tail(queue) \in Seq(Call)
           /\ Head(queue).id \in Ids
           /\ Head(queue).op = "put" => Head(queue).actions \in {ReadActions, InstructActions}
           /\ Head(queue).op = "commit" => Head(queue) \in Commit
<1>1. Head(queue) \in Call /\ Tail(queue) \in Seq(Call)
  OBVIOUS
<1> QED
  BY <1>1 DEF Call, Commit

\* What putGrant and revokeGrant write.
LEMMA SetGrant ==
    ASSUME NEW st \in State, NEW i \in Ids, NEW g \in Grant
    PROVE  /\ [st EXCEPT !.grants[i] = g] \in State
           /\ [st EXCEPT !.grants[i] = g].grants = [st.grants EXCEPT ![i] = g]
           /\ [st EXCEPT !.grants[i] = g].deliveries = st.deliveries
  BY DEF State

\* What a commit writes.
LEMMA SetDelivery ==
    ASSUME NEW st \in State, NEW s \in Slots, NEW d \in Delivery
    PROVE  /\ [st EXCEPT !.deliveries[s] = d] \in State
           /\ [st EXCEPT !.deliveries[s] = d].deliveries = [st.deliveries EXCEPT ![s] = d]
           /\ [st EXCEPT !.deliveries[s] = d].grants = st.grants
  BY DEF State

\* A grant that is revoked stays a grant.
LEMMA RevokedGrant ==
    ASSUME NEW st \in State, NEW i \in Ids, st.grants[i] # None, NEW u \in Uuids
    PROVE  LET g == [st.grants[i] EXCEPT !.revision = u, !.revoked = TRUE] IN
           g \in Grant /\ g.revoked /\ g.revision = u
<1>1. st.grants[i] \in Grant
  BY DEF State
<1> QED
  BY <1>1 DEF Grant

\* A delivery that is accepted changes in nothing else.
LEMMA AcceptedDelivery ==
    ASSUME NEW st \in State, NEW s \in Slots, st.deliveries[s] # None
    PROVE  LET d == [st.deliveries[s] EXCEPT !.accepted = TRUE] IN
           /\ d \in Delivery /\ d.accepted /\ d.payload = st.deliveries[s].payload
           /\ d.receipt = st.deliveries[s].receipt /\ d.revision = st.deliveries[s].revision
<1>1. st.deliveries[s] \in Delivery
  BY DEF State
<1> QED
  BY <1>1 DEF Delivery

\* A saved state is of the right type, whatever comes of the write.
LEMMA SaveType ==
    ASSUME mem \in State, disk \in State, NEW next \in State, NEW o \in Outcomes, Save(next, o)
    PROVE  mem' \in State /\ disk' \in State /\ faulted' \in BOOLEAN
  BY DEF Save, Outcomes

\* UUIDs stay within their bound.
LEMMA DrawType == fresh \in Uuids /\ DrawUuid => fresh' \in Uuids
  BY GrantLimitsAssumption DEF Uuids, DrawUuid

\* A commit names a slot.
LEMMA SlotType == \A c \in Commit : Slot(c) \in Slots
  BY DEF Commit, Slot, Slots

\* The store starts with variables of the right type.
LEMMA InitType == Init => TypeOK
<1>1. << >> \in Seq(Call)
  OBVIOUS
<1>2. 0 \in Uuids /\ 0 \in 0 .. MaxCalls
  BY GrantLimitsAssumption DEF Uuids
<1>3. EmptyState \in State /\ [s \in Slots |-> None] \in [Slots -> Payloads \cup {None}]
  BY DEF EmptyState, State
<1> QED
  BY <1>1, <1>2, <1>3 DEF Init, TypeOK

\* Every step keeps the types; a commit under way has its record.
LEMMA TypeStep == TypeOK /\ Consistent /\ Recorded /\ [Next]_vars => TypeOK'
<1> SUFFICES ASSUME TypeOK, Consistent, Recorded, [Next]_vars PROVE TypeOK'
  OBVIOUS
<1> USE DEF TypeOK, storeVars, commitVars, readVars, dshVars
<1>1. ASSUME NEW c \in Call, Enqueue(c) PROVE TypeOK'
  BY <1>1, GrantLimitsAssumption DEF Enqueue
<1>2. ASSUME NEW i \in Ids, AdminCalls(i) PROVE TypeOK'
  BY <1>1, <1>2 DEF AdminCalls, Call
<1>3. ASSUME NEW i \in Ids, NEW k \in Keys, NEW p \in Payloads, SendLeadInstruction(i, k, p)
      PROVE  TypeOK'
  <2>1. mem.grants[i] \in Grant
    BY <1>3 DEF State, SendLeadInstruction, Current
  <2>2. [op |-> "commit", id |-> i, key |-> k, payload |-> p,
         revision |-> mem.grants[i].revision] \in Call
    BY <2>1 DEF Grant, Call, Commit
  <2> QED
    BY <1>1, <1>3, <2>2 DEF SendLeadInstruction
<1>4. ASSUME DeniedByFault \/ PutRefused \/ RevokeNothing \/ CommitRefused PROVE TypeOK'
  <2>1. queue # << >>
    BY <1>4 DEF DeniedByFault, PutRefused, RevokeNothing, CommitRefused, Turn
  <2> QED
    BY <1>4, <2>1, HeadOK DEF DeniedByFault, PutRefused, RevokeNothing, CommitRefused
<1>5. ASSUME NEW o \in Outcomes, PutGrant(o) PROVE TypeOK'
  <2> DEFINE c == Head(queue)
             g == [actions |-> c.actions, revision |-> fresh, revoked |-> FALSE]
  <2>1. c.id \in Ids /\ g \in Grant /\ Tail(queue) \in Seq(Call)
    BY <1>5, HeadOK DEF PutGrant, Turn, Grant
  <2>2. mem' \in State /\ disk' \in State /\ faulted' \in BOOLEAN
    BY <1>5, <2>1, SetGrant, SaveType DEF PutGrant
  <2>3. retired' \subseteq Uuids
    BY <1>5, <2>1 DEF PutGrant, Retire, State, Grant
  <2> QED
    BY <1>5, <2>1, <2>2, <2>3, DrawType DEF PutGrant
<1>6. ASSUME NEW o \in Outcomes, RevokeGrant(o) PROVE TypeOK'
  <2> DEFINE i == Head(queue).id
             g == [mem.grants[i] EXCEPT !.revision = fresh, !.revoked = TRUE]
  <2>1. i \in Ids /\ Tail(queue) \in Seq(Call) /\ mem.grants[i] # None
    BY <1>6, HeadOK DEF RevokeGrant, Turn, Current
  <2>2. g \in Grant
    BY <2>1, RevokedGrant
  <2>3. mem' \in State /\ disk' \in State /\ faulted' \in BOOLEAN
    <3>1. [mem EXCEPT !.grants[i] = g] \in State
      BY <2>1, <2>2, SetGrant
    <3>2. Save([mem EXCEPT !.grants[i] = g], o)
      BY <1>6 DEF RevokeGrant
    <3> QED
      BY <3>1, <3>2, SaveType
  <2>4. retired' \subseteq Uuids
    BY <1>6, <2>1 DEF RevokeGrant, Retire, State, Grant
  <2> QED
    BY <1>6, <2>1, <2>3, <2>4, DrawType DEF RevokeGrant
<1>7. ASSUME CommitDuplicate PROVE TypeOK'
  <2> DEFINE c == Head(queue)
  <2>1. c \in Commit /\ Slot(c) \in Slots /\ Tail(queue) \in Seq(Call)
    BY <1>7, HeadOK, SlotType DEF CommitDuplicate, Turn
  <2>2. c.payload \in Payloads
    BY <2>1 DEF Commit
  <2>3. mem.deliveries[Slot(c)].receipt \in Uuids
    BY <1>7, <2>1 DEF CommitDuplicate, State, Delivery
  <2>4. [slot |-> Slot(c), payload |-> c.payload, receipt |-> mem.deliveries[Slot(c)].receipt,
         late |-> {c.revision} \cap retired]
          \in [slot : Slots, payload : Payloads, receipt : Uuids, late : SUBSET Uuids]
    BY <2>1, <2>2, <2>3
  <2>5. Answer(c, mem.deliveries[Slot(c)].receipt)
    BY <1>7 DEF CommitDuplicate
  <2> QED
    BY <1>7, <2>1, <2>4, <2>5 DEF CommitDuplicate, Answer
<1>8. ASSUME NEW o \in Outcomes, CommitBegin(o) PROVE TypeOK'
  <2> DEFINE c == Head(queue)
             d == [payload |-> c.payload, revision |-> c.revision,
                   receipt |-> fresh, accepted |-> FALSE]
  <2>1. c \in Commit /\ Slot(c) \in Slots /\ Tail(queue) \in Seq(Call)
    BY <1>8, HeadOK, SlotType DEF CommitBegin, Turn
  <2>2. d \in Delivery
    BY <2>1 DEF Commit, Delivery
  <2>3. mem' \in State /\ disk' \in State /\ faulted' \in BOOLEAN /\ DrawUuid
    <3>1. [mem EXCEPT !.deliveries[Slot(c)] = d] \in State
      BY <2>1, <2>2, SetDelivery
    <3>2. Save([mem EXCEPT !.deliveries[Slot(c)] = d], o) /\ DrawUuid
      BY <1>8 DEF CommitBegin, Intent
    <3> QED
      BY <3>1, <3>2, SaveType
  <2>4. commit' \in Commit \cup {None} /\ phase' \in {"team", "idle"}
        /\ (phase' = "idle" <=> commit' = None)
    BY <1>8, <2>1, GrantNoneAssumption DEF CommitBegin
  <2>5. fresh' \in Uuids
    BY <2>3, DrawType
  <2> QED
    <3>1. queue' = Tail(queue) /\ UNCHANGED <<readVars, dshVars, calls, retired, answers>>
      BY <1>8 DEF CommitBegin
    <3> QED
      BY <2>1, <2>3, <2>4, <2>5, <3>1
<1>9. ASSUME CommitRetry PROVE TypeOK'
  BY <1>9, HeadOK, GrantNoneAssumption DEF CommitRetry, Turn
<1>10. ASSUME SendPrompt PROVE TypeOK'
  <2>1. commit \in Commit
    BY <1>10 DEF SendPrompt
  <2>2. Prompt(commit) \in [slot : Slots, payload : Payloads]
    BY <2>1, SlotType DEF Prompt, Commit
  <2> QED
    BY <1>10, <2>1, <2>2, GrantNoneAssumption DEF SendPrompt
<1>11. ASSUME SubmitFails PROVE TypeOK'
  BY <1>11 DEF SubmitFails
<1>12. ASSUME NEW o \in Outcomes, CommitFinish(o) PROVE TypeOK'
  <2> DEFINE s == Slot(commit)
             d == [mem.deliveries[s] EXCEPT !.accepted = TRUE]
  <2>1. commit \in Commit /\ s \in Slots /\ commit.payload \in Payloads
    BY <1>12, SlotType DEF CommitFinish, Commit
  <2>2. CASE ~MayInstruct(mem, commit)
    BY <1>12, <2>2 DEF CommitFinish
  <2>3. CASE MayInstruct(mem, commit) /\ mem.deliveries[s] # None
    <3>1. [mem EXCEPT !.deliveries[s] = d] \in State
      BY <2>1, <2>3, AcceptedDelivery, SetDelivery
    <3>2. Save([mem EXCEPT !.deliveries[s] = d], o)
      BY <1>12, <2>3 DEF CommitFinish
    <3>3. mem' \in State /\ disk' \in State /\ faulted' \in BOOLEAN
      BY <3>1, <3>2, SaveType
    <3>4. answers' \subseteq [slot : Slots, payload : Payloads, receipt : Uuids, late : SUBSET Uuids]
      <4>1. mem.deliveries[s].receipt \in Uuids
        BY <2>1, <2>3 DEF State, Delivery
      <4>2. [slot |-> s, payload |-> commit.payload, receipt |-> mem.deliveries[s].receipt,
             late |-> {commit.revision} \cap retired]
              \in [slot : Slots, payload : Payloads, receipt : Uuids, late : SUBSET Uuids]
        BY <2>1, <4>1
      <4>3. answers' = answers \/ Answer(commit, mem.deliveries[s].receipt)
        BY <1>12, <2>3 DEF CommitFinish
      <4> QED
        BY <4>2, <4>3 DEF Answer
    <3> QED
      BY <1>12, <3>3, <3>4 DEF CommitFinish
  <2>4. mem.deliveries[s] # None
    BY <1>12, <2>1, GrantNoneAssumption DEF CommitFinish, Consistent, Recorded
  <2> QED
    BY <2>2, <2>3, <2>4
<1>13. ASSUME NEW m \in inflight, Admit(m) PROVE TypeOK'
  BY <1>13 DEF Admit
<1>14. ASSUME NEW m \in inflight, Discard(m) PROVE TypeOK'
  BY <1>14 DEF Discard
<1>15. ASSUME NEW i \in Ids, ReadStart(i) PROVE TypeOK'
  <2>1. mem.grants[i] \in Grant
    BY <1>15 DEF ReadStart, Current, State
  <2>2. [id |-> i, revision |-> mem.grants[i].revision] \in [id : Ids, revision : Uuids]
    BY <2>1 DEF Grant
  <2> QED
    BY <1>15, <2>2 DEF ReadStart
<1>16. ASSUME NEW r \in reads, ReadReturns(r) PROVE TypeOK'
  BY <1>16 DEF ReadReturns
<1>17. CASE Restart
  <2>1. << >> \in Seq(Call)
    OBVIOUS
  <2> QED
    BY <1>17, <2>1 DEF Restart
<1>18. CASE UNCHANGED vars
  BY <1>18 DEF vars
<1> QED
  BY <1>2, <1>3, <1>4, <1>5, <1>6, <1>7, <1>8, <1>9, <1>10, <1>11, <1>12, <1>13, <1>14,
     <1>15, <1>16, <1>17, <1>18 DEF Next, Work

-----------------------------------------------------------------------------
(* The invariant *)

\* The store starts in a state of the invariant.
LEMMA InitIInv == Init => IInv
  BY InitType DEF Init, IInv, Consistent, RevisionsOK, Known, Recorded, EmptyState, RetiredStaysRetired, Current,
                  CommitKeepsGrant, ReceiptsAreHonest, NoLateReads

\* What the steps that only move the queue or the reads leave alone.
Core == <<mem, disk, faulted, fresh, commit, phase, inflight, admitted, retired, answers>>

\* Calls that queue, calls that are refused and the start of a read leave the
\* core alone.
LEMMA QuietSteps ==
    ASSUME \/ \E c : Enqueue(c)
           \/ DeniedByFault \/ PutRefused \/ RevokeNothing \/ CommitRefused
           \/ \E i \in Ids : ReadStart(i)
           \/ \E r \in reads : ReadReturns(r)
           \/ UNCHANGED vars
    PROVE  UNCHANGED Core
  BY DEF Enqueue, DeniedByFault, PutRefused, RevokeNothing, CommitRefused, ReadStart, ReadReturns,
         vars, Core, storeVars, commitVars, readVars, dshVars

\* A grant replaced or revoked: its old revision is retired, and the file has
\* the new grant if the store is not faulted by the write.
LEMMA GrantWritten ==
    ASSUME IInv, ~faulted, commit = None, commit' = None,
           NEW i \in Ids, NEW g \in Grant, g.revision = fresh,
           NEW o \in Outcomes, Save([mem EXCEPT !.grants[i] = g], o), Retire(i, o), DrawUuid
    PROVE  Consistent' /\ RetiredStaysRetired' /\ disk'.deliveries = disk.deliveries
<1> DEFINE nx == [mem EXCEPT !.grants[i] = g]
<1>1. /\ mem = disk /\ mem \in State /\ fresh \in Nat
      /\ fresh' = fresh + 1 /\ \A r \in retired : r \in Nat /\ r < fresh
  BY GrantLimitsAssumption DEF IInv, TypeOK, Consistent, DrawUuid, Uuids
<1>2. nx \in State /\ nx.grants = [mem.grants EXCEPT ![i] = g] /\ nx.deliveries = mem.deliveries
  BY <1>1, SetGrant
<1> HIDE DEF nx
<1>3. \/ o = "saved" /\ mem' = nx /\ disk' = nx /\ ~faulted'
      \/ o = "failed" /\ mem' = mem /\ disk' = mem /\ faulted'
      \/ o = "unsynced" /\ mem' = mem /\ disk' = nx /\ faulted'
  BY <1>1 DEF Save, Outcomes, nx
<1>4. \A j \in Known(mem.grants) :
          j \in Ids /\ mem.grants[j].revision \in Nat /\ mem.grants[j].revision < fresh
  BY <1>1, GrantLimitsAssumption DEF IInv, Consistent, RevisionsOK, Known, State, Grant, Uuids
<1>5. /\ \A j \in Known(nx.grants) : nx.grants[j].revision \in Nat /\ nx.grants[j].revision < fresh + 1
      /\ \A j, k \in Known(nx.grants) : nx.grants[j].revision = nx.grants[k].revision => j = k
  <2>1. \A j \in Known(nx.grants) :
            \/ j \in Known(mem.grants) /\ nx.grants[j] = mem.grants[j]
            \/ j = i /\ nx.grants[j].revision = fresh
    <3>1. /\ DOMAIN mem.grants = Ids /\ DOMAIN nx.grants = Ids /\ nx.grants[i] = g
          /\ \A j \in Ids \ {i} : nx.grants[j] = mem.grants[j]
      BY <1>1, <1>2 DEF State
    <3> QED
      BY <3>1 DEF Known
  <2>2. \A j, k \in Known(mem.grants) : mem.grants[j].revision = mem.grants[k].revision => j = k
    BY DEF IInv, Consistent, RevisionsOK
  <2> QED
    BY <1>1, <1>4, <2>1, <2>2
<1>6. Consistent'
  <2>1. \A r \in retired' : r < fresh + 1
    BY <1>1, <1>4 DEF Retire, Known, State
  <2>2. \A j, k \in Known(mem.grants) : mem.grants[j].revision = mem.grants[k].revision => j = k
    BY DEF IInv, Consistent, RevisionsOK
  <2>3. RevisionsOK(mem)' /\ RevisionsOK(disk)'
    BY <1>1, <1>3, <1>4, <1>5, <2>2 DEF RevisionsOK
  <2> QED
    BY <1>1, <1>3, <2>1, <2>3 DEF Consistent
<1>7. \A j \in Ids : Current(mem, j) => mem.grants[j].revision \notin retired
  BY DEF IInv, RetiredStaysRetired
<1>8. RetiredStaysRetired'
  <2>1. CASE o # "saved"
    <3>1. retired' = retired
      BY <2>1 DEF Retire
    <3>2. \A j \in Ids : Current(nx, j) => nx.grants[j].revision \notin retired
      BY <1>1, <1>2, <1>7 DEF Current, State
    <3> QED
      BY <1>3, <1>7, <2>1, <3>1, <3>2 DEF RetiredStaysRetired, Current
  <2>2. CASE o = "saved"
    <3>1. \A j \in Ids : Current(nx, j) => nx.grants[j].revision \notin retired'
      <4> SUFFICES ASSUME NEW j \in Ids, Current(nx, j) PROVE nx.grants[j].revision \notin retired'
        OBVIOUS
      <4>1. CASE j = i
        <5>1. nx.grants[j].revision = fresh
          BY <1>1, <1>2, <4>1 DEF State
        <5>2. fresh \notin retired'
          BY <1>1, <1>4, <2>2 DEF Retire, Known, State
        <5> QED
          BY <5>1, <5>2
      <4>2. CASE j # i
        <5>1. nx.grants[j] = mem.grants[j] /\ Current(mem, j)
          BY <1>2, <4>2 DEF Current
        <5>2. mem.grants[i] # None => mem.grants[j].revision # mem.grants[i].revision
          BY <1>1, <4>2, <5>1 DEF IInv, Consistent, RevisionsOK, Known, Current, State
        <5>3. mem.grants[j].revision \notin retired
          BY <1>7, <5>1
        <5> QED
          BY <5>1, <5>2, <5>3 DEF Retire
      <4> QED
        BY <4>1, <4>2
    <3> QED
      BY <1>3, <2>2, <3>1 DEF RetiredStaysRetired, Current
  <2> QED
    BY <2>1, <2>2
<1> QED
  BY <1>1, <1>2, <1>3, <1>6, <1>8

\* A delivery written by a commit: grants stay, and the file has the new record
\* if the store is not faulted by the write.
LEMMA DeliveryWritten ==
    ASSUME TypeOK, mem = disk, NEW s \in Slots, NEW d \in Delivery,
           NEW o \in Outcomes, Save([mem EXCEPT !.deliveries[s] = d], o)
    PROVE  /\ mem'.grants = mem.grants /\ disk'.grants = disk.grants
           /\ o = "saved" => ~faulted' /\ mem' = disk'
           /\ o # "saved" => faulted'
           /\ \/ disk'.deliveries = disk.deliveries /\ o # "saved"
              \/ disk'.deliveries = [disk.deliveries EXCEPT ![s] = d]
<1> DEFINE nx == [mem EXCEPT !.deliveries[s] = d]
<1>1. nx.grants = mem.grants /\ nx.deliveries = [mem.deliveries EXCEPT ![s] = d]
  BY SetDelivery DEF TypeOK
<1> HIDE DEF nx
<1>2. \/ o = "saved" /\ mem' = nx /\ disk' = nx /\ ~faulted'
      \/ o = "failed" /\ mem' = mem /\ disk' = mem /\ faulted'
      \/ o = "unsynced" /\ mem' = mem /\ disk' = nx /\ faulted'
  BY DEF Save, Outcomes, nx
<1> QED
  BY <1>1, <1>2

\* Steps that change no grant and retire nothing keep what concerns grants.
LEMMA GrantsKept ==
    ASSUME IInv, TypeOK', mem'.grants = mem.grants, disk'.grants = disk.grants,
           retired' = retired, fresh' = fresh \/ DrawUuid,
           faulted' \/ mem' = disk', commit' # None => ~faulted'
    PROVE  Consistent' /\ RetiredStaysRetired'
<1>1. fresh \in Nat /\ fresh' \in Nat /\ fresh' >= fresh
  BY GrantLimitsAssumption DEF IInv, TypeOK, DrawUuid, Uuids
<1>2. \A r \in retired : r \in Nat
  BY DEF IInv, TypeOK, Uuids
<1>3. ASSUME NEW i \in Known(mem.grants) PROVE mem.grants[i].revision \in Nat
  BY <1>3 DEF IInv, TypeOK, State, Grant, Known, Uuids
<1>4. ASSUME NEW i \in Known(disk.grants) PROVE disk.grants[i].revision \in Nat
  BY <1>4 DEF IInv, TypeOK, State, Grant, Known, Uuids
<1>5. RevisionsOK(mem)' /\ RevisionsOK(disk)'
  BY <1>1, <1>3, <1>4 DEF IInv, Consistent, RevisionsOK
<1>6. \A r \in retired' : r < fresh'
  BY <1>1, <1>2 DEF IInv, Consistent
<1>7. Consistent'
  BY <1>5, <1>6 DEF Consistent
<1>8. RetiredStaysRetired'
  BY DEF IInv, RetiredStaysRetired, Current
<1> QED
  BY <1>7, <1>8

\* A commit that may go ahead runs under a revision that is not retired.
LEMMA MayInstructLive ==
    ASSUME IInv, NEW c \in Commit, MayInstruct(mem, c)
    PROVE  c.revision \notin retired
  BY DEF IInv, RetiredStaysRetired, MayInstruct, Current, Commit

\* A commit that ends leaves nothing under way to be recorded.
LEMMA RecordedWithoutCommit ==
    ASSUME Recorded, TypeOK', commit' = None, phase' = "idle",
           disk'.deliveries = disk.deliveries, inflight' \subseteq inflight, admitted' = admitted
    PROVE  Recorded'
  BY DEF Recorded

\* A change of a grant writes no delivery.
LEMMA GrantStepDeliveries ==
    ASSUME IInv, NEW o \in Outcomes, PutGrant(o) \/ RevokeGrant(o)
    PROVE  Consistent' /\ RetiredStaysRetired' /\ disk'.deliveries = disk.deliveries
<1> DEFINE i == Head(queue).id
<1>1. /\ ~faulted /\ commit = None /\ i \in Ids /\ DrawUuid /\ Retire(i, o)
      /\ UNCHANGED <<commitVars, readVars, dshVars, calls, answers>>
  BY HeadOK DEF PutGrant, RevokeGrant, Turn, IInv, TypeOK
<1>2. fresh \in Uuids /\ mem \in State /\ phase = "idle"
  BY <1>1 DEF IInv, TypeOK
<1>3. Consistent' /\ RetiredStaysRetired' /\ disk'.deliveries = disk.deliveries
  <2>1. CASE PutGrant(o)
    <3> DEFINE g == [actions |-> Head(queue).actions, revision |-> fresh, revoked |-> FALSE]
    <3>1. g \in Grant /\ g.revision = fresh
      BY <1>2, <2>1, HeadOK DEF PutGrant, Turn, Grant, IInv, TypeOK
    <3>2. Save([mem EXCEPT !.grants[i] = g], o)
      BY <2>1 DEF PutGrant
    <3> HIDE DEF g
    <3> QED
      BY <1>1, <3>1, <3>2, GrantWritten DEF commitVars
  <2>2. CASE RevokeGrant(o)
    <3> DEFINE g == [mem.grants[i] EXCEPT !.revision = fresh, !.revoked = TRUE]
    <3>1. g \in Grant /\ g.revision = fresh
      <4>1. mem.grants[i] # None
        BY <2>2 DEF RevokeGrant, Current
      <4>2. i \in Ids /\ mem \in State /\ fresh \in Uuids
        BY <1>1, <1>2
      <4>3. g \in Grant
        BY <4>1, <4>2, RevokedGrant
      <4>4. g.revision = fresh
        <5>1. mem.grants[i] \in Grant
          BY <4>1, <4>2 DEF State
        <5> QED
          BY <5>1 DEF Grant
      <4> QED
        BY <4>3, <4>4
    <3>2. Save([mem EXCEPT !.grants[i] = g], o)
      BY <2>2 DEF RevokeGrant
    <3> HIDE DEF g
    <3> QED
      BY <1>1, <3>1, <3>2, GrantWritten DEF commitVars
  <2> QED
    BY <2>1, <2>2
<1> QED
  BY <1>3

\* A change of a grant keeps the invariant: it runs only when no commit is
\* under way.
LEMMA GrantStep ==
    ASSUME IInv, TypeOK', NEW o \in Outcomes, PutGrant(o) \/ RevokeGrant(o)
    PROVE  IInv'
<1>1. commit = None /\ UNCHANGED <<commitVars, readVars, dshVars, calls, answers>>
  BY DEF PutGrant, RevokeGrant, Turn
<1>2. phase = "idle"
  BY <1>1 DEF IInv, TypeOK
<1>3. Consistent' /\ RetiredStaysRetired' /\ disk'.deliveries = disk.deliveries
  BY GrantStepDeliveries
<1>4. Recorded'
  BY <1>1, <1>2, <1>3, RecordedWithoutCommit DEF IInv, commitVars, dshVars
<1>5. CommitKeepsGrant' /\ ReceiptsAreHonest' /\ NoLateReads'
  BY <1>1, <1>3 DEF IInv, commitVars, dshVars, readVars, CommitKeepsGrant, ReceiptsAreHonest,
                    NoLateReads
<1> QED
  BY <1>3, <1>4, <1>5 DEF IInv

\* A duplicate is answered with the receipt the file holds.
LEMMA DuplicateStep ==
    ASSUME IInv, TypeOK', CommitDuplicate
    PROVE  IInv'
<1> DEFINE c == Head(queue)  s == Slot(c)
<1>1. /\ c \in Commit /\ s \in Slots /\ mem = disk /\ MayInstruct(mem, c) /\ ~Conflict(c)
      /\ mem.deliveries[s] # None /\ mem.deliveries[s].accepted
      /\ Answer(c, mem.deliveries[s].receipt)
      /\ UNCHANGED <<storeVars, commitVars, readVars, dshVars, calls, retired>>
  BY HeadOK, SlotType DEF CommitDuplicate, Turn, IInv, TypeOK, Consistent
<1>2. disk.deliveries[s].payload = c.payload /\ admitted[s] = c.payload
  BY <1>1 DEF Conflict, IInv, Recorded
<1>3. c.revision \notin retired
  BY <1>1, MayInstructLive
<1>4. ReceiptsAreHonest'
  <2> HIDE DEF c, s
  <2> DEFINE a0 == [slot |-> s, payload |-> c.payload, receipt |-> disk.deliveries[s].receipt,
                    late |-> {}]
  <2>1. answers' = answers \cup {a0}
    <3>1. {c.revision} \cap retired = {}
      BY <1>3
    <3> QED
      BY <1>1, <3>1 DEF Answer, s
  <2>2. disk' = disk /\ admitted' = admitted
    BY <1>1 DEF storeVars, dshVars
  <2> QED
    BY <1>1, <1>2, <2>1, <2>2 DEF ReceiptsAreHonest, IInv
<1>5. Consistent' /\ Recorded' /\ RetiredStaysRetired' /\ CommitKeepsGrant' /\ NoLateReads'
  BY <1>1 DEF IInv, storeVars, commitVars, readVars, dshVars, Consistent, RevisionsOK, Recorded,
              RetiredStaysRetired, Current, CommitKeepsGrant, MayInstruct, NoLateReads
<1> QED
  BY <1>4, <1>5 DEF IInv

\* A commit that begins has recorded its instruction; nothing was sent or
\* admitted for it before.
LEMMA BeginStep ==
    ASSUME IInv, TypeOK', NEW o \in Outcomes, CommitBegin(o)
    PROVE  IInv'
<1> DEFINE c == Head(queue)
           s == Slot(c)
           d == [payload |-> c.payload, revision |-> c.revision,
                 receipt |-> fresh, accepted |-> FALSE]
<1>1. /\ c \in Commit /\ s \in Slots /\ mem = disk /\ ~faulted /\ commit = None
      /\ MayInstruct(mem, c) /\ disk.deliveries[s] = None
      /\ commit' = IF o = "saved" THEN c ELSE None
      /\ phase' = IF o = "saved" THEN "team" ELSE "idle"
      /\ UNCHANGED <<readVars, dshVars, calls, retired, answers>>
  BY HeadOK, SlotType DEF CommitBegin, Turn, IInv, TypeOK, Consistent
<1>2. d \in Delivery
  BY <1>1 DEF IInv, TypeOK, Commit, Delivery
<1>3. DrawUuid /\ Save([mem EXCEPT !.deliveries[s] = d], o)
  BY DEF CommitBegin, Intent
<1>4. d # None /\ d.payload = c.payload /\ ~d.accepted
  BY <1>2, GrantNoneAssumption
<1> HIDE DEF c, s, d
<1>5. /\ mem'.grants = mem.grants /\ disk'.grants = disk.grants
      /\ o = "saved" => ~faulted' /\ mem' = disk'
      /\ o # "saved" => faulted'
      /\ \/ disk'.deliveries = disk.deliveries /\ o # "saved"
         \/ disk'.deliveries = [disk.deliveries EXCEPT ![s] = d]
  BY <1>1, <1>2, <1>3, DeliveryWritten DEF IInv
<1>6. Consistent' /\ RetiredStaysRetired'
  BY <1>1, <1>3, <1>5, GrantsKept
<1>7. /\ \A t \in Slots : disk.deliveries[t] # None => disk'.deliveries[t] = disk.deliveries[t]
      /\ o = "saved" => disk'.deliveries[s] = d
      /\ \A t \in Slots : disk'.deliveries[t] # disk.deliveries[t] => t = s /\ disk'.deliveries[t] = d
  BY <1>1, <1>5 DEF IInv, TypeOK, State
<1>8. Recorded'
  <2>1. commit' # None => commit' = c /\ disk'.deliveries[s] = d
    BY <1>1, <1>7
  <2>2. \A m \in inflight : m.slot \in Slots
    BY DEF IInv, TypeOK
  <2> QED
    BY <1>1, <1>4, <1>7, <2>1, <2>2 DEF IInv, Recorded, dshVars, s
<1>9. CommitKeepsGrant' /\ NoLateReads'
  BY <1>1, <1>5 DEF IInv, CommitKeepsGrant, MayInstruct, Current, NoLateReads, readVars
<1>10. ReceiptsAreHonest'
  <2>1. \A a \in answers : a.slot \in Slots
    BY DEF IInv, TypeOK
  <2> QED
    BY <1>1, <1>7, <2>1 DEF IInv, ReceiptsAreHonest, dshVars
<1> QED
  BY <1>6, <1>8, <1>9, <1>10 DEF IInv

\* A commit that is tried again finds its own record in the file.
LEMMA RetryStep ==
    ASSUME IInv, TypeOK', CommitRetry
    PROVE  IInv'
<1> DEFINE c == Head(queue)
           s == Slot(c)
<1>1. /\ c \in Commit /\ mem = disk /\ ~faulted /\ MayInstruct(mem, c) /\ ~Conflict(c)
      /\ disk.deliveries[s] # None /\ ~disk.deliveries[s].accepted
      /\ commit' = c /\ phase' = "team"
      /\ UNCHANGED <<storeVars, readVars, dshVars, calls, retired, answers>>
  BY HeadOK DEF CommitRetry, Turn, IInv, TypeOK, Consistent
<1>2. disk.deliveries[s].payload = c.payload
  BY <1>1 DEF Conflict
<1> HIDE DEF c
<1>3. Consistent' /\ RetiredStaysRetired' /\ ReceiptsAreHonest' /\ NoLateReads'
  BY <1>1 DEF IInv, storeVars, readVars, dshVars, Consistent, RevisionsOK, RetiredStaysRetired,
              Current, ReceiptsAreHonest, NoLateReads
<1>4. Recorded'
  BY <1>1, <1>2 DEF IInv, Recorded, storeVars, dshVars
<1>5. CommitKeepsGrant'
  BY <1>1 DEF CommitKeepsGrant, MayInstruct, Current, storeVars
<1> QED
  BY <1>3, <1>4, <1>5 DEF IInv

\* A prompt is sent for the record of the commit under way.
LEMMA SendStep ==
    ASSUME IInv, TypeOK', SendPrompt
    PROVE  IInv'
<1>1. /\ phase = "team" /\ phase' = "sent" /\ commit # None
      /\ inflight' = inflight \cup {Prompt(commit)}
      /\ UNCHANGED <<storeVars, queue, commit, readVars, admitted, lateAdmits, calls,
                     retired, answers>>
  BY DEF SendPrompt, IInv, TypeOK
<1>2. Recorded'
  BY <1>1 DEF IInv, Recorded, Prompt, storeVars
<1> QED
  BY <1>1, <1>2 DEF IInv, storeVars, readVars, Consistent, RevisionsOK, RetiredStaysRetired,
                    Current, CommitKeepsGrant, MayInstruct, ReceiptsAreHonest, NoLateReads

\* A submit() that fails changes no record.
LEMMA FailStep ==
    ASSUME IInv, TypeOK', SubmitFails
    PROVE  IInv'
<1>1. /\ commit' = None /\ phase' = "idle"
      /\ UNCHANGED <<storeVars, queue, readVars, dshVars, calls, retired, answers>>
  BY DEF SubmitFails
<1>2. Recorded'
  BY <1>1, RecordedWithoutCommit DEF IInv, storeVars, dshVars
<1> QED
  BY <1>1, <1>2 DEF IInv, storeVars, readVars, dshVars, Consistent, RevisionsOK,
                    RetiredStaysRetired, Current, CommitKeepsGrant, ReceiptsAreHonest, NoLateReads

\* A commit that finishes marks as accepted the record of what DeepHarness
\* admitted, and answers with its receipt only after the write.
LEMMA FinishStep ==
    ASSUME IInv, TypeOK', NEW o \in Outcomes, CommitFinish(o)
    PROVE  IInv'
<1> DEFINE c == commit
           s == Slot(c)
           d == [mem.deliveries[s] EXCEPT !.accepted = TRUE]
<1>1. /\ c \in Commit /\ c # None /\ s \in Slots /\ mem = disk /\ ~faulted
      /\ MayInstruct(mem, c) /\ c.revision \notin retired
  BY SlotType, MayInstructLive DEF CommitFinish, IInv, TypeOK, Consistent, CommitKeepsGrant
<1>2. /\ disk.deliveries[s] # None /\ ~disk.deliveries[s].accepted
      /\ disk.deliveries[s].payload = c.payload /\ admitted[s] = c.payload
  BY <1>1 DEF CommitFinish, IInv, Recorded
<1>3. /\ Save([mem EXCEPT !.deliveries[s] = d], o)
      /\ IF o = "saved" THEN Answer(c, mem.deliveries[s].receipt) ELSE UNCHANGED answers
      /\ commit' = None /\ phase' = "idle"
      /\ UNCHANGED <<fresh, queue, readVars, dshVars, calls, retired>>
  BY <1>1 DEF CommitFinish
<1>4. /\ d \in Delivery /\ d # None /\ d.accepted /\ d.payload = c.payload
      /\ d.receipt = disk.deliveries[s].receipt
  <2>1. disk.deliveries[s] \in Delivery
    BY <1>1, <1>2 DEF IInv, TypeOK, State
  <2> QED
    BY <1>1, <1>2, <2>1, GrantNoneAssumption DEF Delivery
<1> HIDE DEF d
<1>5. /\ mem'.grants = mem.grants /\ disk'.grants = disk.grants
      /\ o = "saved" => ~faulted' /\ mem' = disk'
      /\ o # "saved" => faulted'
      /\ \/ disk'.deliveries = disk.deliveries /\ o # "saved"
         \/ disk'.deliveries = [disk.deliveries EXCEPT ![s] = d]
  BY <1>1, <1>3, <1>4, DeliveryWritten DEF IInv
<1>6. Consistent' /\ RetiredStaysRetired'
  BY <1>1, <1>3, <1>5, GrantsKept
<1>7. /\ \A t \in Slots \ {s} : disk'.deliveries[t] = disk.deliveries[t]
      /\ disk'.deliveries[s] = disk.deliveries[s] \/ disk'.deliveries[s] = d
      /\ o = "saved" => disk'.deliveries[s] = d
  BY <1>1, <1>5 DEF IInv, TypeOK, State
<1>8. Recorded'
  <2>1. \A m \in inflight : m.slot \in Slots
    BY DEF IInv, TypeOK
  <2> HIDE DEF s
  <2> QED
    BY <1>2, <1>3, <1>4, <1>7, <2>1 DEF IInv, Recorded, dshVars
<1>9. CommitKeepsGrant' /\ NoLateReads'
  BY <1>3 DEF IInv, CommitKeepsGrant, NoLateReads, readVars
<1>10. ReceiptsAreHonest'
  <2> DEFINE a0 == [slot |-> s, payload |-> c.payload, receipt |-> d.receipt, late |-> {}]
  <2>1. answers' = answers \/ (o = "saved" /\ answers' = answers \cup {a0})
    <3>1. {c.revision} \cap retired = {}
      BY <1>1
    <3> QED
      BY <1>1, <1>3, <1>4, <3>1 DEF Answer
  <2>2. admitted' = admitted
    BY <1>3 DEF dshVars
  <2> HIDE DEF s
  <2>3. \A a \in answers : a.slot \in Slots
    BY DEF IInv, TypeOK
  <2> QED
    BY <1>2, <1>4, <1>7, <2>1, <2>2, <2>3 DEF IInv, ReceiptsAreHonest
<1> QED
  BY <1>6, <1>8, <1>9, <1>10 DEF IInv

\* DeepHarness admits only what the file records for the slot.
LEMMA AdmitStep ==
    ASSUME IInv, TypeOK', NEW m \in inflight, Admit(m)
    PROVE  IInv'
<1>1. /\ m.slot \in Slots /\ m.payload \in Payloads
      /\ disk.deliveries[m.slot] # None /\ disk.deliveries[m.slot].payload = m.payload
  BY DEF IInv, TypeOK, Recorded
<1>2. /\ inflight' \subseteq inflight
      /\ admitted' = [admitted EXCEPT ![m.slot] = IF @ = None THEN m.payload ELSE @]
      /\ phase' = IF phase = "sent" /\ Prompt(commit) = m THEN "acked" ELSE phase
      /\ UNCHANGED <<storeVars, queue, commit, readVars, calls, retired, answers>>
  BY DEF Admit
<1>3. /\ admitted'[m.slot] = m.payload
      /\ \A s \in Slots : s # m.slot => admitted'[s] = admitted[s]
      /\ \A s \in Slots : admitted[s] # None => admitted'[s] = admitted[s]
  BY <1>1, <1>2 DEF IInv, TypeOK, Recorded
<1>4. Recorded'
  <2>1. phase' = "acked" => admitted'[Slot(commit)] = commit.payload
    <3>1. CASE phase = "sent" /\ Prompt(commit) = m
      BY <1>3, <3>1 DEF Prompt
    <3>2. CASE ~(phase = "sent" /\ Prompt(commit) = m)
      <4> SUFFICES ASSUME phase = "acked" PROVE admitted'[Slot(commit)] = commit.payload
        BY <1>2, <3>2
      <4>1. commit \in Commit
        BY DEF IInv, TypeOK
      <4>2. Slot(commit) \in Slots /\ commit.payload \in Payloads
        BY <4>1, SlotType DEF Commit
      <4>3. admitted[Slot(commit)] = commit.payload
        BY DEF IInv, Recorded
      <4>4. commit.payload # None
        BY <4>2, GrantNoneAssumption
      <4> QED
        BY <1>3, <4>2, <4>3, <4>4
    <3> QED
      BY <3>1, <3>2
  <2>2. \A s \in Slots : disk.deliveries[s] # None /\ disk.deliveries[s].accepted =>
            admitted'[s] = disk.deliveries[s].payload
    BY <1>1, <1>3 DEF IInv, Recorded
  <2>3. \A s \in Slots : admitted'[s] # None =>
            disk.deliveries[s] # None /\ disk.deliveries[s].payload = admitted'[s]
    BY <1>1, <1>3 DEF IInv, Recorded
  <2> QED
    BY <1>2, <2>1, <2>2, <2>3 DEF IInv, Recorded, storeVars
<1>5. ReceiptsAreHonest'
  <2>1. \A a \in answers : a.slot \in Slots /\ a.payload # None
    BY GrantNoneAssumption DEF IInv, TypeOK
  <2> QED
    BY <1>2, <1>3, <2>1 DEF IInv, ReceiptsAreHonest, storeVars
<1> QED
  BY <1>2, <1>4, <1>5 DEF IInv, storeVars, readVars, Consistent, RevisionsOK,
                          RetiredStaysRetired, Current, CommitKeepsGrant, MayInstruct, NoLateReads

\* A prompt that is lost changes nothing else.
LEMMA DiscardStep ==
    ASSUME IInv, TypeOK', NEW m \in inflight, Discard(m)
    PROVE  IInv'
<1>1. /\ inflight' \subseteq inflight
      /\ UNCHANGED <<storeVars, queue, commitVars, readVars, admitted, calls, retired, answers>>
  BY DEF Discard
<1> QED
  BY <1>1 DEF IInv, storeVars, commitVars, readVars, Consistent, RevisionsOK, Recorded,
              RetiredStaysRetired, Current, CommitKeepsGrant, MayInstruct, ReceiptsAreHonest,
              NoLateReads

\* After a restart memory is the file, in which no retired revision is current.
LEMMA RestartStep ==
    ASSUME IInv, TypeOK', Restart
    PROVE  IInv'
<1>1. /\ mem' = disk /\ disk' = disk /\ faulted' = FALSE /\ commit' = None /\ phase' = "idle"
      /\ UNCHANGED <<fresh, lateReads, dshVars, calls, retired, answers>>
  BY DEF Restart
<1>2. Recorded'
  BY <1>1, RecordedWithoutCommit DEF IInv, dshVars
<1> QED
  BY <1>1, <1>2 DEF IInv, dshVars, Consistent, RevisionsOK, RetiredStaysRetired, Current,
                    CommitKeepsGrant, ReceiptsAreHonest, NoLateReads

\* Steps that leave the core alone keep the invariant, if no read is served late.
LEMMA QuietStep ==
    ASSUME IInv, TypeOK', UNCHANGED Core, NoLateReads'
    PROVE  IInv'
  BY DEF IInv, Core, Consistent, RevisionsOK, Recorded, RetiredStaysRetired, Current,
         CommitKeepsGrant, MayInstruct, ReceiptsAreHonest

\* A read is served only while its grant is in force: recheck compares the
\* revision after the await.
LEMMA ReadStep ==
    ASSUME IInv, NEW r \in reads, ReadReturns(r)
    PROVE  NoLateReads'
<1>1. Recheck(r) => r.revision \notin retired
  BY DEF IInv, TypeOK, Recheck, RetiredStaysRetired
<1> QED
  BY <1>1 DEF ReadReturns, IInv, NoLateReads

\* Every step keeps the invariant.
LEMMA IInvStep == IInv /\ [Next]_vars => IInv'
<1> SUFFICES ASSUME IInv, [Next]_vars PROVE IInv'
  OBVIOUS
<1>1. TypeOK'
  BY TypeStep DEF IInv
<1>2. ASSUME NEW c, Enqueue(c) PROVE IInv'
  <2>1. NoLateReads'
    BY <1>2 DEF Enqueue, readVars, IInv, NoLateReads
  <2> QED
    BY <1>1, <1>2, <2>1, QuietSteps, QuietStep
<1>3. ASSUME NEW i \in Ids, AdminCalls(i) PROVE IInv'
  BY <1>2, <1>3 DEF AdminCalls
<1>4. ASSUME NEW i \in Ids, NEW k \in Keys, NEW p \in Payloads, SendLeadInstruction(i, k, p)
      PROVE  IInv'
  BY <1>2, <1>4 DEF SendLeadInstruction
<1>5. ASSUME DeniedByFault \/ PutRefused \/ RevokeNothing \/ CommitRefused \/ UNCHANGED vars
      PROVE  IInv'
  <2>1. NoLateReads'
    BY <1>5 DEF DeniedByFault, PutRefused, RevokeNothing, CommitRefused, vars, readVars, IInv,
                NoLateReads
  <2> QED
    BY <1>1, <1>5, <2>1, QuietSteps, QuietStep
<1>6. ASSUME NEW i \in Ids, ReadStart(i) PROVE IInv'
  <2>1. NoLateReads'
    BY <1>6 DEF ReadStart, IInv, NoLateReads
  <2> QED
    BY <1>1, <1>6, <2>1, QuietSteps, QuietStep
<1>7. ASSUME NEW r \in reads, ReadReturns(r) PROVE IInv'
  BY <1>1, <1>7, ReadStep, QuietSteps, QuietStep
<1>8. ASSUME NEW o \in Outcomes, PutGrant(o) \/ RevokeGrant(o) \/ CommitBegin(o) \/ CommitFinish(o)
      PROVE  IInv'
  BY <1>1, <1>8, GrantStep, BeginStep, FinishStep
<1>9. ASSUME CommitDuplicate \/ CommitRetry \/ SendPrompt \/ SubmitFails \/ Restart PROVE IInv'
  BY <1>1, <1>9, DuplicateStep, RetryStep, SendStep, FailStep, RestartStep
<1>10. ASSUME NEW m \in inflight, Admit(m) \/ Discard(m) PROVE IInv'
  BY <1>1, <1>10, AdmitStep, DiscardStep
<1> QED
  BY <1>3, <1>4, <1>5, <1>6, <1>7, <1>8, <1>9, <1>10 DEF Next, Work

-----------------------------------------------------------------------------
(* Theorems *)

\* The invariant holds in every state the store reaches.
THEOREM Invariance == Spec => []IInv
  BY InitIInv, IInvStep, PTL DEF Spec

\* Every variable keeps its type.
THEOREM TypeCorrect == Spec => []TypeOK
<1>1. IInv => TypeOK
  BY DEF IInv
<1> QED
  BY <1>1, Invariance, PTL

\* A revision that an acknowledged putGrant or revokeGrant ended is never
\* current again, whatever writes fail and whenever the process restarts.
THEOREM RetiredForGood == Spec => []RetiredStaysRetired
<1>1. IInv => RetiredStaysRetired
  BY DEF IInv
<1> QED
  BY <1>1, Invariance, PTL

\* While withAuthorizedLeadCommit awaits DeepHarness no change of a grant
\* interleaves.
THEOREM CommitAtomic == Spec => []CommitKeepsGrant
<1>1. IInv => CommitKeepsGrant
  BY DEF IInv
<1> QED
  BY <1>1, Invariance, PTL

\* A receipt returned by sendLeadInstruction is in the file, for what
\* DeepHarness admitted.
THEOREM HonestReceipts == Spec => []ReceiptsAreHonest
<1>1. IInv => ReceiptsAreHonest
  BY DEF IInv
<1> QED
  BY <1>1, Invariance, PTL

\* readTeam and readChat return nothing under a grant that has ended.
THEOREM ReadsInTime == Spec => []NoLateReads
<1>1. IInv => NoLateReads
  BY DEF IInv
<1> QED
  BY <1>1, Invariance, PTL

-----------------------------------------------------------------------------
(* Refinement *)

\* The abstract record of the file.
Records == [s \in Slots |-> RecordOf(disk.deliveries[s])]

\* A record is there when its delivery is.
LEMMA RecordThere ==
    ASSUME disk \in State, NEW s \in Slots, disk.deliveries[s] # None
    PROVE  Records[s] # None
<1>1. disk.deliveries[s] \in Delivery
  BY DEF State
<1>2. Records[s] \in Record
  BY <1>1 DEF Records, RecordOf, Record, Delivery
<1> QED
  BY <1>2, GrantNoneAssumption

\* A step that keeps the deliveries and the admissions is a stutter.
LEMMA StutterRefines ==
    ASSUME disk'.deliveries = disk.deliveries, admitted' = admitted
    PROVE  UNCHANGED <<Records, admitted>>
  BY DEF Records

\* A write of one delivery changes the record of its slot.
LEMMA WriteRefines ==
    ASSUME disk \in State, NEW s \in Slots, NEW d,
           disk'.deliveries = [disk.deliveries EXCEPT ![s] = d]
    PROVE  Records' = [Records EXCEPT ![s] = RecordOf(d)]
<1>1. \A t \in Slots : disk'.deliveries[t] = IF t = s THEN d ELSE disk.deliveries[t]
  BY DEF State
<1>2. Records' = [t \in Slots |-> RecordOf(IF t = s THEN d ELSE disk.deliveries[t])]
  BY <1>1 DEF Records, RecordOf
<1> QED
  BY <1>2 DEF Records

\* A commit that begins is Intend, if the file was written at all.
LEMMA BeginRefines ==
    ASSUME IInv, NEW o \in Outcomes, CommitBegin(o)
    PROVE  [Abstract!Next]_<<Records, admitted>>
<1> DEFINE c == Head(queue)
           s == Slot(c)
           d == [payload |-> c.payload, revision |-> c.revision,
                 receipt |-> fresh, accepted |-> FALSE]
<1>1. /\ c \in Commit /\ s \in Slots /\ c.payload \in Payloads /\ fresh \in Uuids
      /\ TypeOK /\ mem = disk /\ disk \in State /\ disk.deliveries[s] = None
      /\ admitted' = admitted /\ Save([mem EXCEPT !.deliveries[s] = d], o)
  BY HeadOK, SlotType DEF CommitBegin, Intent, Turn, IInv, TypeOK, Consistent, dshVars, Commit
<1>2. d \in Delivery /\ d # None
  <2>1. d \in Delivery
    BY <1>1 DEF Delivery, Commit
  <2> QED
    BY <2>1, GrantNoneAssumption
<1>3. RecordOf(d) = [payload |-> c.payload, receipt |-> fresh, accepted |-> FALSE]
  BY <1>2 DEF RecordOf
<1>4. Records[s] = None
  BY <1>1 DEF Records, RecordOf
<1> HIDE DEF c, s, d
<1>5. disk'.deliveries = disk.deliveries \/ disk'.deliveries = [disk.deliveries EXCEPT ![s] = d]
  BY <1>1, <1>2, DeliveryWritten
<1>6. CASE disk'.deliveries = disk.deliveries
  BY <1>1, <1>6, StutterRefines
<1>7. CASE disk'.deliveries = [disk.deliveries EXCEPT ![s] = d]
  <2>1. Records' = [Records EXCEPT ![s] = RecordOf(d)]
    BY <1>1, <1>7, WriteRefines
  <2>2. Abstract!Intend(s, c.payload, fresh)
    BY <1>1, <1>3, <1>4, <2>1 DEF Abstract!Intend, Records
  <2> QED
    BY <1>1, <2>2 DEF Abstract!Next
<1> QED
  BY <1>5, <1>6, <1>7

\* A commit that finishes is Accept, if the file was written at all.
LEMMA FinishRefines ==
    ASSUME IInv, NEW o \in Outcomes, CommitFinish(o)
    PROVE  [Abstract!Next]_<<Records, admitted>>
<1> DEFINE s == Slot(commit)
           d == [mem.deliveries[s] EXCEPT !.accepted = TRUE]
<1>1. /\ commit \in Commit /\ s \in Slots /\ TypeOK /\ mem = disk /\ disk \in State
      /\ MayInstruct(mem, commit) /\ disk.deliveries[s] # None
      /\ admitted[s] = disk.deliveries[s].payload /\ admitted' = admitted
  BY SlotType DEF CommitFinish, IInv, TypeOK, Consistent, CommitKeepsGrant, Recorded, dshVars
<1>2. Save([mem EXCEPT !.deliveries[s] = d], o)
  BY <1>1 DEF CommitFinish
<1>3. disk.deliveries[s] \in Delivery
  BY <1>1 DEF State
<1>4. d \in Delivery /\ d # None
  <2>1. d \in Delivery
    BY <1>1, <1>3 DEF Delivery
  <2> QED
    BY <2>1, GrantNoneAssumption
<1>5. /\ Records[s] = [payload |-> disk.deliveries[s].payload,
                       receipt |-> disk.deliveries[s].receipt,
                       accepted |-> disk.deliveries[s].accepted]
      /\ Records[s] # None => admitted[s] = Records[s].payload
  BY <1>1 DEF Records, RecordOf
<1>6. RecordOf(d) = [payload |-> Records[s].payload, receipt |-> Records[s].receipt,
                     accepted |-> TRUE]
  <2>1. RecordOf(d) = [payload |-> disk.deliveries[s].payload,
                       receipt |-> disk.deliveries[s].receipt, accepted |-> TRUE]
    BY <1>1, <1>3, <1>4 DEF RecordOf, Delivery
  <2>2. /\ Records[s].payload = disk.deliveries[s].payload
        /\ Records[s].receipt = disk.deliveries[s].receipt
    BY <1>5
  <2> QED
    BY <2>1, <2>2
<1> HIDE DEF s, d
<1>7. disk'.deliveries = disk.deliveries \/ disk'.deliveries = [disk.deliveries EXCEPT ![s] = d]
  BY <1>1, <1>2, <1>4, DeliveryWritten
<1>8. CASE disk'.deliveries = disk.deliveries
  BY <1>1, <1>8, StutterRefines
<1>9. CASE disk'.deliveries = [disk.deliveries EXCEPT ![s] = d]
  <2>1. Records' = [Records EXCEPT ![s] = [payload |-> Records[s].payload,
                                           receipt |-> Records[s].receipt, accepted |-> TRUE]]
    BY <1>1, <1>6, <1>9, WriteRefines
  <2>2. Records[s] # None
    BY <1>1, RecordThere
  <2>3. Abstract!Accept(s)
    BY <1>1, <1>5, <2>1, <2>2 DEF Abstract!Accept, Records
  <2> QED
    BY <1>1, <2>3 DEF Abstract!Next
<1> QED
  BY <1>7, <1>8, <1>9

\* What DeepHarness admits is what the file records: Admit, or a stutter.
LEMMA AdmitRefines ==
    ASSUME IInv, NEW m \in inflight, Admit(m)
    PROVE  [Abstract!Next]_<<Records, admitted>>
<1>1. /\ m.slot \in Slots /\ disk' = disk /\ admitted \in [Slots -> Payloads \cup {None}]
      /\ disk.deliveries[m.slot] # None /\ disk.deliveries[m.slot].payload = m.payload
      /\ admitted' = [admitted EXCEPT ![m.slot] = IF @ = None THEN m.payload ELSE @]
  BY DEF Admit, IInv, TypeOK, Recorded, storeVars
<1>2. Records' = Records
  BY <1>1 DEF Records
<1>3. CASE admitted[m.slot] # None
  BY <1>1, <1>2, <1>3
<1>4. CASE admitted[m.slot] = None
  <2>1. Records[m.slot].payload = m.payload
    BY <1>1 DEF Records, RecordOf
  <2>2. Records[m.slot] # None
    BY <1>1, RecordThere DEF IInv, TypeOK
  <2>3. Abstract!Admit(m.slot)
    BY <1>1, <1>2, <1>4, <2>1, <2>2 DEF Abstract!Admit, Records
  <2> QED
    BY <1>1, <2>3 DEF Abstract!Next
<1> QED
  BY <1>3, <1>4

\* Every step of the store is a step of LeadDelivery or a stutter.
LEMMA StepRefines == IInv /\ [Next]_vars => [Abstract!Next]_<<Records, admitted>>
<1> SUFFICES ASSUME IInv, [Next]_vars PROVE [Abstract!Next]_<<Records, admitted>>
  OBVIOUS
<1>1. ASSUME NEW c, Enqueue(c) PROVE [Abstract!Next]_<<Records, admitted>>
  BY <1>1, StutterRefines DEF Enqueue, storeVars, dshVars
<1>2. ASSUME NEW i \in Ids, AdminCalls(i) PROVE [Abstract!Next]_<<Records, admitted>>
  BY <1>1, <1>2 DEF AdminCalls
<1>3. ASSUME NEW i \in Ids, NEW k \in Keys, NEW p \in Payloads, SendLeadInstruction(i, k, p)
      PROVE  [Abstract!Next]_<<Records, admitted>>
  BY <1>1, <1>3 DEF SendLeadInstruction
<1>4. ASSUME \/ DeniedByFault \/ PutRefused \/ RevokeNothing \/ CommitRefused
             \/ CommitDuplicate \/ CommitRetry \/ SendPrompt \/ SubmitFails \/ Restart
             \/ UNCHANGED vars
             \/ \E m \in inflight : Discard(m)
             \/ \E i \in Ids : ReadStart(i)
             \/ \E r \in reads : ReadReturns(r)
      PROVE  [Abstract!Next]_<<Records, admitted>>
  <2>1. disk' = disk /\ admitted' = admitted
    BY <1>4 DEF DeniedByFault, PutRefused, RevokeNothing, CommitRefused, CommitDuplicate,
                CommitRetry, SendPrompt, SubmitFails, Restart, Discard, ReadStart, ReadReturns,
                vars, storeVars, dshVars
  <2> QED
    BY <2>1, StutterRefines
<1>5. ASSUME NEW o \in Outcomes, PutGrant(o) \/ RevokeGrant(o)
      PROVE  [Abstract!Next]_<<Records, admitted>>
  <2>1. disk'.deliveries = disk.deliveries
    BY <1>5, GrantStepDeliveries
  <2>2. admitted' = admitted
    BY <1>5 DEF PutGrant, RevokeGrant, dshVars
  <2> QED
    BY <2>1, <2>2, StutterRefines
<1>6. ASSUME NEW o \in Outcomes, CommitBegin(o) \/ CommitFinish(o)
      PROVE  [Abstract!Next]_<<Records, admitted>>
  BY <1>6, BeginRefines, FinishRefines
<1>7. ASSUME NEW m \in inflight, Admit(m) PROVE [Abstract!Next]_<<Records, admitted>>
  BY <1>7, AdmitRefines
<1> QED
  BY <1>2, <1>3, <1>4, <1>5, <1>6, <1>7 DEF Next, Work

\* The grant store implements LeadDelivery.
THEOREM Refinement == Spec => ImplementsLeadDelivery
<1>1. Init => Abstract!Init
  BY DEF Init, Abstract!Init, EmptyState, RecordOf
<1>2. IInv /\ [Next]_vars => [Abstract!Next]_<<Records, admitted>>
  BY StepRefines
<1> QED
  BY <1>1, <1>2, Invariance, PTL DEF Spec, ImplementsLeadDelivery, Abstract!Spec, Records

-----------------------------------------------------------------------------
(* Limits *)

\* Setting one value of a function adds its argument to the known ones.
LEMMA KnownAfterWrite ==
    ASSUME NEW D, IsFiniteSet(D), NEW f, DOMAIN f = D, NEW h, DOMAIN h = D,
           NEW x \in D, h[x] # None, \A y \in D : y # x => h[y] = f[y]
    PROVE  /\ Cardinality(Known(f)) \in Nat
           /\ f[x] # None => Cardinality(Known(h)) = Cardinality(Known(f))
           /\ f[x] = None => Cardinality(Known(h)) = Cardinality(Known(f)) + 1
<1>1. Known(f) \subseteq D
  BY DEF Known
<1>2. IsFiniteSet(Known(f)) /\ Cardinality(Known(f)) \in Nat
  BY <1>1, FS_Subset, FS_CardinalityType
<1>3. Known(h) = Known(f) \cup {x}
  BY DEF Known
<1>4. x \in Known(f) <=> f[x] # None
  BY DEF Known
<1> QED
  BY <1>2, <1>3, <1>4, FS_AddElement

\* Writing one grant, as putGrant and revokeGrant do.
LEMMA KnownGrants ==
    ASSUME disk \in State, NEW i \in Ids, NEW g \in Grant,
           disk'.grants = [disk.grants EXCEPT ![i] = g]
    PROVE  /\ Cardinality(Known(disk.grants)) \in Nat
           /\ Cardinality(Known(disk'.grants)) = IF disk.grants[i] # None
                 THEN Cardinality(Known(disk.grants)) ELSE Cardinality(Known(disk.grants)) + 1
<1> DEFINE f == disk.grants  h == disk'.grants
<1>1. /\ IsFiniteSet(Ids) /\ DOMAIN f = Ids /\ DOMAIN h = Ids /\ h[i] = g
      /\ \A y \in Ids : y # i => h[y] = f[y]
  BY GrantFiniteAssumption DEF State
<1>2. g # None
  BY GrantNoneAssumption
<1> HIDE DEF f, h
<1>3. /\ Cardinality(Known(f)) \in Nat
      /\ f[i] # None => Cardinality(Known(h)) = Cardinality(Known(f))
      /\ f[i] = None => Cardinality(Known(h)) = Cardinality(Known(f)) + 1
  BY <1>1, <1>2, KnownAfterWrite
<1> QED
  BY <1>3 DEF f, h

\* Writing one delivery, as a commit does.
LEMMA KnownDeliveries ==
    ASSUME disk \in State, NEW s \in Slots, NEW d \in Delivery,
           disk'.deliveries = [disk.deliveries EXCEPT ![s] = d]
    PROVE  /\ Cardinality(Known(disk.deliveries)) \in Nat
           /\ Cardinality(Known(disk'.deliveries)) = IF disk.deliveries[s] # None
                 THEN Cardinality(Known(disk.deliveries))
                 ELSE Cardinality(Known(disk.deliveries)) + 1
<1> DEFINE f == disk.deliveries  h == disk'.deliveries
<1>1. /\ IsFiniteSet(Slots) /\ DOMAIN f = Slots /\ DOMAIN h = Slots /\ h[s] = d
      /\ \A y \in Slots : y # s => h[y] = f[y]
  BY GrantFiniteAssumption, FS_Product DEF State, Slots
<1>2. d # None
  BY GrantNoneAssumption
<1> HIDE DEF f, h
<1>3. /\ Cardinality(Known(f)) \in Nat
      /\ f[s] # None => Cardinality(Known(h)) = Cardinality(Known(f))
      /\ f[s] = None => Cardinality(Known(h)) = Cardinality(Known(f)) + 1
  BY <1>1, <1>2, KnownAfterWrite
<1> QED
  BY <1>3 DEF f, h

\* The file stays within MAX_GRANTS and MAX_DELIVERIES in every step.
LEMMA LimitsStep == IInv /\ FileLoads /\ [Next]_vars => FileLoads'
<1> SUFFICES ASSUME IInv, FileLoads, [Next]_vars PROVE FileLoads'
  OBVIOUS
<1> USE GrantLimitsAssumption
<1>1. ASSUME disk'.grants = disk.grants, disk'.deliveries = disk.deliveries PROVE FileLoads'
  BY <1>1 DEF FileLoads
<1>3. ASSUME NEW o \in Outcomes, PutGrant(o) PROVE FileLoads'
  <2> DEFINE i == Head(queue).id
             g == [actions |-> Head(queue).actions, revision |-> fresh, revoked |-> FALSE]
  <2>1. /\ i \in Ids /\ mem = disk /\ disk \in State /\ RoomForGrant(i)
        /\ g \in Grant /\ Save([mem EXCEPT !.grants[i] = g], o)
    BY <1>3, HeadOK DEF PutGrant, Turn, IInv, TypeOK, Consistent, Grant
  <2>2. g # None
    BY <2>1, GrantNoneAssumption
  <2> HIDE DEF i, g
  <2>3. \/ disk' = disk
        \/ /\ disk'.grants = [disk.grants EXCEPT ![i] = g]
           /\ disk'.deliveries = disk.deliveries
    BY <2>1, SetGrant DEF Save
  <2>4. ASSUME disk'.grants = [disk.grants EXCEPT ![i] = g], disk'.deliveries = disk.deliveries
        PROVE  FileLoads'
    <3>2. /\ Cardinality(Known(disk.grants)) \in Nat
          /\ Cardinality(Known(disk'.grants)) = IF disk.grants[i] # None
                THEN Cardinality(Known(disk.grants)) ELSE Cardinality(Known(disk.grants)) + 1
      BY <2>1, <2>4, KnownGrants
    <3>3. disk.grants[i] # None \/ Cardinality(Known(disk.grants)) < MaxGrants
      BY <2>1 DEF RoomForGrant
    <3> QED
      BY <2>4, <3>2, <3>3 DEF FileLoads
  <2> QED
    BY <1>1, <2>3, <2>4
<1>4. ASSUME NEW o \in Outcomes, RevokeGrant(o) PROVE FileLoads'
  <2> DEFINE i == Head(queue).id
             g == [mem.grants[i] EXCEPT !.revision = fresh, !.revoked = TRUE]
  <2>1. /\ i \in Ids /\ mem = disk /\ disk \in State /\ mem \in State /\ mem.grants[i] # None
        /\ fresh \in Uuids /\ Save([mem EXCEPT !.grants[i] = g], o)
    BY <1>4, HeadOK DEF RevokeGrant, Turn, IInv, TypeOK, Consistent, Current
  <2>2. g \in Grant
    BY <2>1, RevokedGrant
  <2>3. g # None
    BY <2>2, GrantNoneAssumption
  <2> HIDE DEF i, g
  <2>4. \/ disk' = disk
        \/ /\ disk'.grants = [disk.grants EXCEPT ![i] = g]
           /\ disk'.deliveries = disk.deliveries
    BY <2>1, <2>2, SetGrant DEF Save
  <2>5. ASSUME disk'.grants = [disk.grants EXCEPT ![i] = g], disk'.deliveries = disk.deliveries
        PROVE  FileLoads'
    <3>2. Cardinality(Known(disk'.grants)) = Cardinality(Known(disk.grants))
      BY <2>1, <2>2, <2>5, KnownGrants
    <3> QED
      BY <2>5, <3>2 DEF FileLoads
  <2> QED
    BY <1>1, <2>4, <2>5
<1>5. ASSUME NEW o \in Outcomes, CommitBegin(o) PROVE FileLoads'
  <2> DEFINE c == Head(queue)
             s == Slot(c)
             d == [payload |-> c.payload, revision |-> c.revision,
                   receipt |-> fresh, accepted |-> FALSE]
  <2>1. /\ c \in Commit /\ s \in Slots /\ TypeOK /\ mem = disk /\ disk \in State
        /\ disk.deliveries[s] = None /\ fresh \in Uuids
        /\ ~DeliveriesFull /\ Save([mem EXCEPT !.deliveries[s] = d], o)
    BY <1>5, HeadOK, SlotType DEF CommitBegin, Intent, Turn, IInv, TypeOK, Consistent
  <2>2. d \in Delivery
    BY <2>1 DEF Delivery, Commit
  <2>3. d # None
    BY <2>2, GrantNoneAssumption
  <2> HIDE DEF c, s, d
  <2>4. /\ disk'.grants = disk.grants
        /\ \/ disk'.deliveries = disk.deliveries
           \/ disk'.deliveries = [disk.deliveries EXCEPT ![s] = d]
    BY <2>1, <2>2, DeliveryWritten
  <2>5. ASSUME disk'.deliveries = [disk.deliveries EXCEPT ![s] = d] PROVE FileLoads'
    <3>2. /\ Cardinality(Known(disk.deliveries)) \in Nat
          /\ Cardinality(Known(disk'.deliveries)) = Cardinality(Known(disk.deliveries)) + 1
      BY <2>1, <2>2, <2>5, KnownDeliveries
    <3>3. Cardinality(Known(disk.deliveries)) < MaxDeliveries
      BY <2>1, <3>2 DEF DeliveriesFull
    <3> QED
      BY <2>4, <3>2, <3>3 DEF FileLoads
  <2> QED
    BY <1>1, <2>4, <2>5
<1>6. ASSUME NEW o \in Outcomes, CommitFinish(o) PROVE FileLoads'
  <2> DEFINE s == Slot(commit)
             d == [mem.deliveries[s] EXCEPT !.accepted = TRUE]
  <2>1. /\ commit \in Commit /\ s \in Slots /\ TypeOK /\ mem = disk /\ disk \in State
        /\ MayInstruct(mem, commit) /\ disk.deliveries[s] # None
    BY <1>6, SlotType DEF CommitFinish, IInv, TypeOK, Consistent, CommitKeepsGrant, Recorded
  <2>2. Save([mem EXCEPT !.deliveries[s] = d], o)
    BY <1>6, <2>1 DEF CommitFinish
  <2>3. d \in Delivery
    BY <2>1, AcceptedDelivery
  <2>4. d # None
    BY <2>3, GrantNoneAssumption
  <2> HIDE DEF s, d
  <2>5. /\ disk'.grants = disk.grants
        /\ \/ disk'.deliveries = disk.deliveries
           \/ disk'.deliveries = [disk.deliveries EXCEPT ![s] = d]
    BY <2>1, <2>2, <2>3, DeliveryWritten
  <2>6. ASSUME disk'.deliveries = [disk.deliveries EXCEPT ![s] = d] PROVE FileLoads'
    <3>2. Cardinality(Known(disk'.deliveries)) = Cardinality(Known(disk.deliveries))
      BY <2>1, <2>3, <2>6, KnownDeliveries
    <3> QED
      BY <2>5, <3>2 DEF FileLoads
  <2> QED
    BY <1>1, <2>5, <2>6
<1>7. CASE disk' = disk
  BY <1>1, <1>7
<1>8. \/ disk' = disk
      \/ \E o \in Outcomes : PutGrant(o) \/ RevokeGrant(o) \/ CommitBegin(o) \/ CommitFinish(o)
  BY DEF Next, Work, AdminCalls, SendLeadInstruction, Enqueue, DeniedByFault, PutRefused,
         RevokeNothing, CommitRefused, CommitDuplicate, CommitRetry, SendPrompt, SubmitFails,
         Restart, Admit, Discard, ReadStart, ReadReturns, vars, storeVars
<1> QED
  BY <1>3, <1>4, <1>5, <1>6, <1>7, <1>8

\* The store never writes a file that loadFile refuses for its size.
THEOREM WithinLimits == Spec => []FileLoads
<1>1. Init => FileLoads
  <2> SUFFICES ASSUME Init PROVE FileLoads
    OBVIOUS
  <2>1. Known(disk.grants) = {} /\ Known(disk.deliveries) = {}
    BY DEF Init, EmptyState, Known
  <2> QED
    BY <2>1, FS_EmptySet, GrantLimitsAssumption DEF FileLoads
<1> QED
  BY <1>1, LimitsStep, Invariance, PTL DEF Spec
=============================================================================
