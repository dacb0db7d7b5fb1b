--------------------------- MODULE ManagedAdminProofs ---------------------------
(***************************************************************************)
(* Approved root actions run at most once and in time, for any numbers of  *)
(* approvals, tickets, brokers and programs and any clock offsets, as long *)
(* as no broker stalls for longer than it remembers expired nonces.        *)
(***************************************************************************)
EXTENDS ManagedAdmin, FiniteSetTheorems, TLAPS

USE NoneAssumption, TimesAssumption

\* The flow starts in a state of the invariant.
LEMMA InitIInv == Init => IInv
  BY DEF Init, IInv, TypeOK, Bookkeeping, TicketJustified, BrokersOK,
         RunsRemembered, RunsAtMostOnce

\* Every step of the control plane, a broker or the clock keeps the types.
LEMMA TypeStep == TypeOK /\ BrokersOK /\ [Next]_vars => TypeOK'
<1> SUFFICES ASSUME TypeOK, BrokersOK, [Next]_vars PROVE TypeOK'
  OBVIOUS
<1> USE DEF TypeOK, targetVars, approvalVars, ticketVars, brokerVars
<1>1. ASSUME NEW a \in Approvals, NEW u \in Actors, NEW p \in Programs, Prepare(a, u, p)
      PROVE  TypeOK'
  BY <1>1 DEF Prepare, Purged, Actions
<1>2. ASSUME NEW a \in Approvals, NEW u \in Actors, NEW n \in Nonces, Apply(a, u, n)
      PROVE  TypeOK'
  BY <1>2 DEF Apply, AfterApply, Purged
<1>3. CASE FailedCall
  BY <1>3 DEF FailedCall, Purged
<1>4. CASE ControlPlaneRestart
  BY <1>4 DEF ControlPlaneRestart
<1>5. ASSUME NEW d \in Devices, NEW S \in SUBSET Programs, Reconfigure(d, S) PROVE TypeOK'
  BY <1>5 DEF Reconfigure, AllowedUntil
<1>6. ASSUME NEW b \in Devices, NEW n \in Nonces, Validate(b, n) PROVE TypeOK'
  BY <1>6 DEF Validate, BrokerTime
<1>7. ASSUME NEW b \in Devices, Consume(b) PROVE TypeOK'
  BY <1>7 DEF Consume, Record, Remembered, BrokersOK
<1>8. ASSUME NEW b \in Devices, ConsumeRefused(b) PROVE TypeOK'
  BY <1>8 DEF ConsumeRefused
<1>9. ASSUME NEW b \in Devices, Start(b) PROVE TypeOK'
  <2>1. handling[b] \in Nonces /\ runs[handling[b]] \in 0 .. 2
    BY <1>9 DEF Start, BrokersOK
  <2>2. (IF runs[handling[b]] = 2 THEN 2 ELSE runs[handling[b]] + 1) \in 0 .. 2
    BY <2>1
  <2>3. runs' \in [Nonces -> 0 .. 2]
    BY <1>9, <2>1, <2>2 DEF Start
  <2> QED
    BY <1>9, <2>3 DEF Start
<1>10. ASSUME NEW b \in Devices, BrokerRestart(b) PROVE TypeOK'
  BY <1>10 DEF BrokerRestart
<1>11. CASE Tick
  BY <1>11 DEF Tick, AllowedUntil
<1>12. CASE UNCHANGED vars
  BY <1>12 DEF vars
<1> QED
  BY <1>1, <1>2, <1>3, <1>4, <1>5, <1>6, <1>7, <1>8, <1>9, <1>10, <1>11, <1>12 DEF Next

\* Every step keeps the invariant.
LEMMA SafetyStep == IInv /\ [Next]_vars => IInv'
<1> SUFFICES ASSUME IInv, [Next]_vars PROVE IInv'
  OBVIOUS
<1>0. TypeOK /\ TypeOK'
  BY TypeStep DEF IInv
<1> USE <1>0 DEF TypeOK, Bookkeeping, TicketJustified, BrokersOK,
            RunsRemembered, RunsAtMostOnce, Allows, TicketAction, ExpiresAt, BrokerTime,
            targetVars, approvalVars, ticketVars, brokerVars
<1>1. ASSUME NEW a \in Approvals, NEW u \in Actors, NEW p \in Programs, Prepare(a, u, p)
      PROVE  IInv'
  BY <1>1 DEF IInv, Prepare, Purged, Expired, Actions
<1>2. ASSUME NEW a \in Approvals, NEW u \in Actors, NEW n \in Nonces, Apply(a, u, n)
      PROVE  IInv'
  <2>1. /\ approval[a] = "open" /\ actor[a] = u /\ now <= preparedAt[a] + ApprovalTtl
        /\ Allows(device, allowed, action[a])
    BY <1>2 DEF Apply, MayApply, StillAllowed, Purged, Expired
  <2>2. approval'[a] = "consumed"
    BY <1>2 DEF Apply, AfterApply, Purged
  <2>3. \A c \in Approvals : approval[c] \notin {"open"} => approval'[c] = approval[c]
    BY <1>2, <2>1 DEF Apply, AfterApply, Purged, Expired
  <2>4. \A c \in Approvals : approval[c] = "unused" <=> approval'[c] = "unused"
    BY <1>2, <2>1 DEF Apply, AfterApply, Purged, Expired
  <2>5. \A m \in Nonces : ticketOf[m] # a
    BY <2>1 DEF IInv
  <2>6. /\ ticketOf' = [ticketOf EXCEPT ![n] = a] /\ issuedAt' = [issuedAt EXCEPT ![n] = now]
        /\ confirmedBy' = [confirmedBy EXCEPT ![n] = u] /\ ticketOf[n] = None
        /\ UNCHANGED <<now, targetVars, actor, action, preparedAt, brokerVars, allowedAt>>
    BY <1>2 DEF Apply
  <2>7. Bookkeeping'
    <3>1. issuedAt'[n] <= allowedAt'[a]
      BY <2>1, <2>6 DEF IInv
    <3> QED
      BY <2>1, <2>2, <2>3, <2>4, <2>5, <2>6, <3>1 DEF IInv
  <2>8. TicketJustified'
    BY <2>1, <2>5, <2>6 DEF IInv
  <2>9. BrokersOK'
    BY <2>6 DEF IInv
  <2>10. RunsRemembered' /\ RunsAtMostOnce'
    BY <2>6 DEF IInv
  <2> QED
    BY <2>7, <2>8, <2>9, <2>10 DEF IInv
<1>3. CASE FailedCall
  BY <1>3 DEF IInv, FailedCall, Purged, Expired
<1>4. CASE ControlPlaneRestart
  BY <1>4 DEF IInv, ControlPlaneRestart
<1>5. ASSUME NEW d \in Devices, NEW S \in SUBSET Programs, Reconfigure(d, S) PROVE IInv'
  BY <1>5 DEF IInv, Reconfigure, AllowedUntil
<1>6. ASSUME NEW b \in Devices, NEW n \in Nonces, Validate(b, n) PROVE IInv'
  BY <1>6 DEF IInv, Validate, LocallyValid
<1>7. ASSUME NEW b \in Devices, Consume(b) PROVE IInv'
  BY <1>7, StallAssumption DEF IInv, Consume, Record, Remembered
<1>8. ASSUME NEW b \in Devices, ConsumeRefused(b) PROVE IInv'
  BY <1>8 DEF IInv, ConsumeRefused
<1>9. ASSUME NEW b \in Devices, Start(b) PROVE IInv'
  <2>1. /\ handling[b] \in Nonces /\ ticketOf[handling[b]] # None
        /\ TicketAction(handling[b]).device = b
        /\ handling[b] \in replay[b] /\ runs[handling[b]] = 0
    BY <1>9 DEF IInv, Start
  <2>2. runs' = [runs EXCEPT ![handling[b]] = 1]
    BY <1>9, <2>1 DEF Start
  <2>3. /\ phase' = [phase EXCEPT ![b] = "idle"]
        /\ UNCHANGED <<now, targetVars, approvalVars, ticketVars, handling, readAt, replay,
                       allowedAt>>
    BY <1>9 DEF Start
  <2>4. Bookkeeping' /\ TicketJustified'
    BY <2>1, <2>2, <2>3 DEF IInv
  <2>5. \A c \in Devices : c # b /\ phase[c] # "idle" => handling[c] # handling[b]
    BY <2>1 DEF IInv
  <2>6. BrokersOK'
    BY <2>1, <2>2, <2>3, <2>5 DEF IInv
  <2>7. RunsRemembered' /\ RunsAtMostOnce'
    BY <2>1, <2>2, <2>3 DEF IInv
  <2> QED
    BY <2>4, <2>6, <2>7 DEF IInv
<1>10. ASSUME NEW b \in Devices, BrokerRestart(b) PROVE IInv'
  BY <1>10 DEF IInv, BrokerRestart
<1>11. CASE Tick
  <2>1. /\ now' = now + 1
        /\ \A b \in Devices : phase[b] # "idle" => BrokerTime(b) - readAt[b] < MaxStall
        /\ UNCHANGED <<targetVars, approvalVars, ticketVars, brokerVars>>
    BY <1>11 DEF Tick
  <2>2. (TicketJustified /\ RunsAtMostOnce)'
    BY <2>1 DEF IInv
  <2>6. allowedAt' = AllowedUntil(device, allowed, now + 1)
    BY <1>11 DEF Tick
  <2>7. Bookkeeping'
    BY <2>1, <2>6 DEF IInv, AllowedUntil
  <2>3. BrokersOK'
    BY <2>1 DEF IInv
  <2>4. ASSUME NEW n \in Nonces, runs[n] > 0 PROVE TicketAction(n).device \in Devices
    BY <2>4 DEF IInv, Actions
  <2>5. RunsRemembered'
    <3>1. ASSUME NEW n \in Nonces, runs[n] > 0
          PROVE  LET b == action[ticketOf[n]].device
                 IN  n \in replay[b] \/ issuedAt[n] + TicketTtl + Grace < now + 1 + Offset[b]
      <4> DEFINE b == action[ticketOf[n]].device
      <4>1. n \in replay[b] \/ issuedAt[n] + TicketTtl + Grace < now + Offset[b]
        BY <3>1 DEF IInv
      <4>2. Offset[b] \in Int /\ now \in Int /\ issuedAt[n] \in Int
        BY <2>4, <3>1
      <4> QED
        BY <4>1, <4>2
    <3> QED
      BY <2>1, <3>1
  <2> QED
    BY <2>2, <2>3, <2>5, <2>7 DEF IInv
<1>12. CASE UNCHANGED vars
  BY <1>12 DEF IInv, vars
<1> QED
  BY <1>1, <1>2, <1>3, <1>4, <1>5, <1>6, <1>7, <1>8, <1>9, <1>10, <1>11, <1>12 DEF Next

\* The inductive invariant holds of every behaviour.
THEOREM ManagedAdminSafety == Spec => []IInv
  BY InitIInv, SafetyStep, PTL DEF Spec

\* Every variable keeps its type.
THEOREM TypeCorrect == Spec => []TypeOK
  BY ManagedAdminSafety, PTL DEF IInv

\* Every ticket comes from an unexpired approval of the actor who applied it,
\* and no approval yields two tickets.
THEOREM TicketsAreJustified == Spec => []TicketJustified
  BY ManagedAdminSafety, PTL DEF IInv

\* No ticket starts its program twice, as long as no broker stalls between its
\* two clock readings for longer than it remembers expired nonces.
THEOREM TicketsRunAtMostOnce == Spec => []RunsAtMostOnce
  BY ManagedAdminSafety, PTL DEF IInv

-----------------------------------------------------------------------------
(* Only Start changes runs *)

\* Of all the steps only Start changes runs.
LEMMA OnlyStartRuns ==
    ASSUME IInv, [Next]_vars, runs' # runs
    PROVE  \E b \in Devices : Start(b)
  BY DEF Next, vars, Prepare, Apply, FailedCall, ControlPlaneRestart, Reconfigure, Validate,
         Consume, ConsumeRefused, BrokerRestart, Tick, brokerVars

\* A broker about to start a program holds an unexpired ticket of its own,
\* whose approval was prepared by the actor who applied it and whose action the
\* target allowed not long ago.
LEMMA StartJustified ==
    ASSUME IInv, NEW b \in Devices, phase[b] # "idle"
    PROVE  LET a == ticketOf[handling[b]] IN
           /\ handling[b] \in Nonces /\ a \in Approvals
           /\ action[a].device = b /\ action[a].program \in LocalPrograms[b]
           /\ confirmedBy[handling[b]] = actor[a]
           /\ now + Offset[b] <= preparedAt[a] + ApprovalTtl + TicketTtl + MaxStall
           /\ now + Offset[b] <= allowedAt[a] + TicketTtl + MaxStall
<1> DEFINE n == handling[b]
           a == ticketOf[n]
<1>1. n \in Nonces /\ a \in Approvals
  BY DEF IInv, BrokersOK, TypeOK
<1>2. action[a].device = b /\ action[a].program \in LocalPrograms[b]
  BY DEF IInv, BrokersOK, TicketAction
<1>3. now + Offset[b] <= readAt[b] + MaxStall /\ issuedAt[n] + TicketTtl >= readAt[b]
  BY DEF IInv, BrokersOK, BrokerTime, ExpiresAt
<1>4. /\ confirmedBy[n] = actor[a]
      /\ issuedAt[n] <= preparedAt[a] + ApprovalTtl /\ issuedAt[n] <= allowedAt[a]
  BY <1>1 DEF IInv, TicketJustified, Bookkeeping, TypeOK
<1>5. /\ now \in Int /\ Offset[b] \in Int /\ readAt[b] \in Int
      /\ issuedAt[n] \in Int /\ preparedAt[a] \in Int /\ allowedAt[a] \in Int
  BY <1>1 DEF IInv, TypeOK
<1> QED
  BY <1>1, <1>2, <1>3, <1>4, <1>5

\* Programs start only where the broker's allowlist has them, for the actor who
\* prepared them, within the sum of the two lifetimes and the longest stall after
\* the preparation.
THEOREM RunsAreWithinAuthority == Spec => RunsWithinAuthority
<1> DEFINE Timely(n) ==
      LET a == ticketOf[n] IN
      /\ a # None
      /\ confirmedBy[n] = actor[a]
      /\ action[a].program \in LocalPrograms[action[a].device]
      /\ now + Offset[action[a].device] <= preparedAt[a] + ApprovalTtl + TicketTtl + MaxStall
<1>1. ASSUME IInv, [Next]_vars, NEW n \in Nonces, runs'[n] # runs[n] PROVE Timely(n)
  <2>1. PICK b \in Devices : Start(b)
    BY <1>1, OnlyStartRuns
  <2>2. handling[b] \in Nonces /\ n = handling[b] /\ phase[b] # "idle"
    BY <1>1, <2>1, StartJustified DEF Start, IInv, TypeOK
  <2> QED
    BY <1>1, <2>2, StartJustified
<1>2. IInv /\ [Next]_vars => [\A n \in Nonces : runs'[n] # runs[n] => Timely(n)]_vars
  BY <1>1
<1> QED
  BY <1>2, ManagedAdminSafety, PTL DEF Spec, RunsWithinAuthority

\* A target that no longer allows a program stops it within a ticket's lifetime
\* and the longest stall, whatever was under way.
THEOREM WithdrawalsTakeHold == Spec => WithdrawalTakesHold
<1> DEFINE Recent(n) ==
      LET a == ticketOf[n] IN
      /\ a # None
      /\ now + Offset[action[a].device] <= allowedAt[a] + TicketTtl + MaxStall
<1>1. ASSUME IInv, [Next]_vars, NEW n \in Nonces, runs'[n] # runs[n] PROVE Recent(n)
  <2>1. PICK b \in Devices : Start(b)
    BY <1>1, OnlyStartRuns
  <2>2. handling[b] \in Nonces /\ n = handling[b] /\ phase[b] # "idle"
    BY <1>1, <2>1, StartJustified DEF Start, IInv, TypeOK
  <2> QED
    BY <1>1, <2>2, StartJustified
<1>2. IInv /\ [Next]_vars => [\A n \in Nonces : runs'[n] # runs[n] => Recent(n)]_vars
  BY <1>1
<1> QED
  BY <1>2, ManagedAdminSafety, PTL DEF Spec, WithdrawalTakesHold

-----------------------------------------------------------------------------
(* The refinement *)

HasTicket(a) == \E n \in Nonces : ticketOf[n] = a
HasRun(a) == \E n \in Nonces : ticketOf[n] = a /\ runs[n] = 1

\* What the refinement mapping makes of an approval, without cardinalities.
Mapped(a) ==
    /\ StatusOf(a) = IF HasRun(a) THEN "executed"
                     ELSE IF HasTicket(a) THEN "granted"
                     ELSE IF approval[a] = "unused" THEN "none"
                     ELSE IF approval[a] = "open" THEN "prepared" ELSE "dropped"
    /\ Cardinality(StartsOf(a)) = IF HasRun(a) THEN 1 ELSE 0
AllMapped == \A a \in Approvals : Mapped(a)

\* The invariant determines what the refinement mapping yields: an approval has
\* at most one ticket, which ran at most once.
LEMMA MappedAlways == IInv => AllMapped
<1> SUFFICES ASSUME IInv, NEW a \in Approvals PROVE Mapped(a)
  BY DEF AllMapped
<1>0. \A n \in Nonces : runs[n] \in {0, 1}
  BY DEF IInv, TypeOK, RunsAtMostOnce
<1>1. CASE HasRun(a)
  <2>1. PICK n \in Nonces : ticketOf[n] = a /\ runs[n] = 1
    BY <1>1 DEF HasRun
  <2>2. \A m \in Nonces : ticketOf[m] = a => m = n
    BY <2>1 DEF IInv, TicketJustified
  <2>3. StartsOf(a) = {<<n, 1>>}
    BY <1>0, <2>1, <2>2 DEF StartsOf
  <2>4. Cardinality(StartsOf(a)) = 1
    BY <2>3, FS_Singleton
  <2> QED
    BY <1>1, <2>3, <2>4 DEF Mapped, StatusOf
<1>2. CASE ~HasRun(a)
  <2>1. StartsOf(a) = {}
    BY <1>0, <1>2 DEF StartsOf, HasRun
  <2>2. Cardinality(StartsOf(a)) = 0
    BY <2>1, FS_EmptySet
  <2> QED
    BY <1>2, <2>1, <2>2 DEF Mapped, StatusOf, HasTicket
<1> QED
  BY <1>1, <1>2

\* Initial states map to initial states.
LEMMA InitAbstract == Init => Abstract!Init
<1> SUFFICES ASSUME Init PROVE Abstract!Init
  OBVIOUS
<1>1. \A a \in Approvals : Mapped(a)
  BY InitIInv, MappedAlways DEF AllMapped
<1>2. \A a \in Approvals : ~HasRun(a) /\ ~HasTicket(a) /\ approval[a] = "unused"
  BY DEF Init, HasRun, HasTicket
<1> QED
  BY <1>1, <1>2 DEF Abstract!Init, Mapped

\* Steps that leave approvals, tickets and starts alone are stuttering steps.
LEMMA StutterAbstract ==
    ASSUME UNCHANGED <<approval, ticketOf, runs>>
    PROVE  UNCHANGED <<[a \in Approvals |-> StatusOf(a)],
                       [a \in Approvals |-> Cardinality(StartsOf(a))]>>
  BY DEF StatusOf, StartsOf

\* An approval that is unused or open has no ticket yet.
LEMMA OpenHasNoTicket ==
    ASSUME IInv, NEW a \in Approvals, approval[a] \in {"unused", "open"}
    PROVE  ~HasTicket(a) /\ ~HasRun(a)
  BY DEF IInv, Bookkeeping, HasTicket, HasRun

\* Every step of the flow is a step of the abstract specification or none.
LEMMA StepAbstract ==
    ASSUME IInv, AllMapped, AllMapped', [Next]_vars
    PROVE  [Abstract!Next]_<<[a \in Approvals |-> StatusOf(a)],
                             [a \in Approvals |-> Cardinality(StartsOf(a))]>>
<1> DEFINE st == [a \in Approvals |-> StatusOf(a)]
           rn == [a \in Approvals |-> Cardinality(StartsOf(a))]
<1>0. \A a \in Approvals : Mapped(a) /\ Mapped(a)'
  BY DEF AllMapped
<1>1. ASSUME NEW a \in Approvals, NEW u \in Actors, NEW p \in Programs, Prepare(a, u, p)
      PROVE  Abstract!Prepare(a)
  <2>1. \A c \in Approvals : (HasRun(c)' <=> HasRun(c)) /\ (HasTicket(c)' <=> HasTicket(c))
    BY <1>1 DEF Prepare, HasRun, HasTicket, ticketVars, brokerVars
  <2>2. st[a] = "none" /\ ~HasTicket(a) /\ ~HasRun(a)
    BY <1>0, <1>1, OpenHasNoTicket DEF Prepare, Mapped
  <2>3. \A c \in Expired : c \in Approvals /\ c # a /\ st[c] = "prepared"
    BY <1>0, <1>1, OpenHasNoTicket DEF Prepare, Mapped, Expired
  <2>4. \A c \in Approvals : approval'[c] = IF c = a THEN "open" ELSE Purged[c]
    BY <1>1 DEF Prepare, Purged
  <2>5. \A c \in Approvals :
           st'[c] = IF c \in Expired THEN "dropped" ELSE IF c = a THEN "prepared" ELSE st[c]
    BY <1>0, <2>1, <2>2, <2>3, <2>4, OpenHasNoTicket DEF Mapped, Purged, Expired
  <2>6. UNCHANGED rn
    BY <1>0, <2>1 DEF Mapped
  <2>7. st' = [c \in Approvals |-> IF c \in Expired THEN "dropped"
                                    ELSE [st EXCEPT ![a] = "prepared"][c]]
    BY <2>2, <2>3, <2>5
  <2>8. Expired \in SUBSET {c \in Approvals : [st EXCEPT ![a] = "prepared"][c] = "prepared"}
    BY <2>2, <2>3
  <2> QED
    BY <2>2, <2>6, <2>7, <2>8 DEF Abstract!Prepare, Abstract!Dropping
<1>2. ASSUME NEW a \in Approvals, NEW u \in Actors, NEW n \in Nonces, Apply(a, u, n)
      PROVE  Abstract!Grant(a)
  <2>0. approval[a] = "open" /\ a \notin Expired
    BY <1>2 DEF Apply, MayApply, Purged, Expired
  <2>1. ~HasTicket(a) /\ ~HasRun(a) /\ st[a] = "prepared"
    BY <1>0, <2>0, OpenHasNoTicket DEF Mapped
  <2>2. /\ ticketOf' = [ticketOf EXCEPT ![n] = a] /\ ticketOf[n] = None
        /\ runs' = runs /\ runs[n] = 0
    BY <1>2 DEF Apply, brokerVars, IInv, Bookkeeping, TypeOK
  <2>3. ticketOf \in [Nonces -> Approvals \cup {None}]
    BY DEF IInv, TypeOK
  <2>4. \A c \in Approvals : HasRun(c)' <=> HasRun(c)
    BY <2>2, <2>3 DEF HasRun
  <2>5. \A c \in Approvals : HasTicket(c)' <=> (HasTicket(c) \/ c = a)
    BY <2>2, <2>3 DEF HasTicket
  <2>6. \A c \in Expired : c \in Approvals /\ c # a /\ st[c] = "prepared"
    BY <1>0, <2>0, OpenHasNoTicket DEF Mapped, Expired
  <2>7. \A c \in Approvals : approval'[c] = IF c = a THEN "consumed" ELSE Purged[c]
    BY <1>2 DEF Apply, AfterApply, Purged
  <2>8. \A c \in Approvals :
           st'[c] = IF c \in Expired THEN "dropped" ELSE IF c = a THEN "granted" ELSE st[c]
    BY <1>0, <2>1, <2>4, <2>5, <2>6, <2>7, OpenHasNoTicket DEF Mapped, Purged, Expired
  <2>9. UNCHANGED rn
    BY <1>0, <2>4 DEF Mapped
  <2>10. st' = [c \in Approvals |-> IF c \in Expired THEN "dropped"
                                    ELSE [st EXCEPT ![a] = "granted"][c]]
    BY <2>1, <2>6, <2>8
  <2>11. Expired \in SUBSET {c \in Approvals : [st EXCEPT ![a] = "granted"][c] = "prepared"}
    BY <2>1, <2>6
  <2> QED
    BY <2>1, <2>9, <2>10, <2>11 DEF Abstract!Grant, Abstract!Dropping
<1>3. ASSUME NEW S \in SUBSET {a \in Approvals : approval[a] = "open"},
             approval' = [a \in Approvals |-> IF a \in S THEN "dropped" ELSE approval[a]],
             UNCHANGED <<ticketOf, runs>>
      PROVE  Abstract!Drop
  <2>1. \A c \in Approvals : (HasRun(c)' <=> HasRun(c)) /\ (HasTicket(c)' <=> HasTicket(c))
    BY <1>3 DEF HasRun, HasTicket
  <2>2. \A c \in S : c \in Approvals /\ ~HasTicket(c) /\ ~HasRun(c) /\ st[c] = "prepared"
    BY <1>0, OpenHasNoTicket DEF Mapped
  <2>3. \A c \in Approvals : st'[c] = IF c \in S THEN "dropped" ELSE st[c]
    BY <1>0, <1>3, <2>1, <2>2 DEF Mapped
  <2>4. UNCHANGED rn
    BY <1>0, <2>1 DEF Mapped
  <2> QED
    BY <2>2, <2>3, <2>4 DEF Abstract!Drop, Abstract!Dropping
<1>4. CASE FailedCall
  BY <1>3, <1>4 DEF FailedCall, Purged, Expired, ticketVars, brokerVars, Abstract!Next
<1>5. CASE ControlPlaneRestart
  <2> DEFINE S == {a \in Approvals : approval[a] = "open"}
  <2>1. approval' = [a \in Approvals |-> IF a \in S THEN "dropped" ELSE approval[a]]
    BY <1>5 DEF ControlPlaneRestart
  <2> QED
    BY <1>3, <1>5, <2>1 DEF ControlPlaneRestart, ticketVars, brokerVars, Abstract!Next
<1>6. ASSUME NEW b \in Devices, Start(b),
             NEW n \in Nonces, n = handling[b], NEW a \in Approvals, a = ticketOf[n]
      PROVE  Abstract!Run(a)
  <2>1. runs[n] = 0
    BY <1>6 DEF Start, IInv, BrokersOK
  <2>2. runs' = [runs EXCEPT ![n] = 1] /\ UNCHANGED <<approval, ticketOf>>
    BY <1>6, <2>1 DEF Start, approvalVars, ticketVars
  <2>3. \A m \in Nonces : ticketOf[m] = a => m = n
    BY <1>6 DEF IInv, TicketJustified
  <2>4. runs \in [Nonces -> 0 .. 2]
    BY DEF IInv, TypeOK
  <2>5. ~HasRun(a) /\ HasTicket(a) /\ HasRun(a)'
    BY <1>6, <2>1, <2>2, <2>3, <2>4 DEF HasRun, HasTicket
  <2>6. \A c \in Approvals : HasTicket(c)' <=> HasTicket(c)
    BY <2>2 DEF HasTicket
  <2>7. \A c \in Approvals \ {a} : HasRun(c)' <=> HasRun(c)
    BY <1>6, <2>2, <2>4 DEF HasRun
  <2>8. st[a] = "granted" /\ st' = [st EXCEPT ![a] = "executed"]
    <3>1. st[a] = "granted" /\ st'[a] = "executed"
      BY <1>0, <2>5 DEF Mapped
    <3>2. \A c \in Approvals \ {a} : st'[c] = st[c]
      BY <1>0, <2>2, <2>6, <2>7 DEF Mapped
    <3>3. st = [c \in Approvals |-> st[c]] /\ st' = [c \in Approvals |-> st'[c]]
      OBVIOUS
    <3> HIDE DEF st
    <3> QED
      BY <3>1, <3>2, <3>3
  <2>9. rn' = [rn EXCEPT ![a] = @ + 1]
    <3>1. rn[a] = 0 /\ rn'[a] = 1
      BY <1>0, <2>5 DEF Mapped
    <3>2. \A c \in Approvals \ {a} : rn'[c] = rn[c]
      BY <1>0, <2>7 DEF Mapped
    <3>3. rn = [c \in Approvals |-> rn[c]] /\ rn' = [c \in Approvals |-> rn'[c]]
      OBVIOUS
    <3> HIDE DEF rn
    <3> QED
      BY <3>1, <3>2, <3>3
  <2> QED
    BY <2>8, <2>9 DEF Abstract!Run
<1>7. ASSUME NEW b \in Devices, Start(b)
      PROVE  handling[b] \in Nonces /\ ticketOf[handling[b]] \in Approvals
  BY <1>7, StartJustified DEF Start
<1>8. ASSUME UNCHANGED <<approval, ticketOf, runs>> PROVE UNCHANGED <<st, rn>>
  BY <1>8, StutterAbstract
<1> QED
  BY <1>1, <1>2, <1>4, <1>5, <1>6, <1>7, <1>8
     DEF Next, Abstract!Next, vars, Reconfigure, Validate, Consume, ConsumeRefused,
         BrokerRestart, Tick, approvalVars, ticketVars, brokerVars

\* The control plane, the tickets and the brokers together implement the
\* abstract single-use approval.
THEOREM FlowImplementsSingleUse == Spec => ImplementsSingleUse
<1>1. IInv => AllMapped
  BY MappedAlways
<1>2. IInv /\ AllMapped /\ AllMapped' /\ [Next]_vars
        => [Abstract!Next]_<<[a \in Approvals |-> StatusOf(a)],
                             [a \in Approvals |-> Cardinality(StartsOf(a))]>>
  BY StepAbstract
<1> QED
  BY <1>1, <1>2, InitAbstract, ManagedAdminSafety, PTL
     DEF Spec, ImplementsSingleUse, Abstract!Spec
=============================================================================
