------------------------------ MODULE ManagedAdmin ------------------------------
(***************************************************************************)
(* Root actions with human approval: prepare and apply in the control      *)
(* plane (config/managed-admin-approvals.ts, tools/index.ts), the signed   *)
(* ticket, and the root broker of a device with its replay file            *)
(* (privileged/managed-admin-broker.ts).                                   *)
(*                                                                         *)
(* One target is modelled: the device it points at and the programs it     *)
(* allows can change at any time.  A ticket, once issued, may reach a      *)
(* broker never, late, several times or at the wrong device; its signature *)
(* is sound, so brokers see only tickets that were issued.  Arguments,     *)
(* directories and output are left out.                                    *)
(***************************************************************************)
EXTENDS Integers, FiniteSets

CONSTANTS Actors, Devices, Programs,
          Approvals,      \* approval ids
          Nonces,         \* ticket nonces
          None,
          LocalPrograms,  \* per device, the broker's own allowlist without the hard-denied
          Offset,         \* per device, broker clock minus control plane clock
          ApprovalTtl,    \* APPROVAL_TTL_MS (10 min)
          TicketTtl,      \* TICKET_TTL_MS (90 s)
          ClockSkew,      \* CLOCK_SKEW_MS (30 s)
          Grace,          \* how long a broker remembers an expired nonce (60 s)
          MaxStall,       \* longest pause of a broker between its two clock readings
          MaxTime         \* bound on the clock

Actions == [device : Devices, program : Programs]

ASSUME NoneAssumption == None \notin Approvals \cup Nonces \cup Actors \cup Actions
ASSUME TimesAssumption ==
    /\ ApprovalTtl \in Nat /\ TicketTtl \in Nat /\ ClockSkew \in Nat /\ Grace \in Nat
    /\ MaxStall \in Nat /\ MaxTime \in Nat
    /\ Offset \in [Devices -> Int]
    /\ LocalPrograms \in [Devices -> SUBSET Programs]
ASSUME StallAssumption == MaxStall <= Grace

VARIABLES now,
          \* The target, as the registry and the device store describe it
          device,     \* the device it points at
          allowed,    \* programs it allows; empty if it is disabled or not live
          \* The map approvals of the control plane
          approval,   \* "unused", "open", "consumed" or "dropped"
          actor, action, preparedAt,
          \* Tickets issued
          ticketOf,   \* the approval a nonce was drawn for
          issuedAt,
          \* Brokers
          phase,      \* "idle", "validated" or "consumed"
          handling,   \* the nonce being handled
          readAt,     \* the clock reading of validateLocalAuthority
          replay,     \* nonces in the replay file
          runs,       \* starts of the program, per nonce (2 for more)
          \* History variables, read by properties only
          confirmedBy,  \* the actor who applied
          allowedAt     \* the last time, while an approval was open, at which the
                        \* target allowed its action

targetVars == <<device, allowed>>
approvalVars == <<approval, actor, action, preparedAt>>
ticketVars == <<ticketOf, issuedAt, confirmedBy>>
brokerVars == <<phase, handling, readAt, replay, runs>>
vars == <<now, targetVars, approvalVars, ticketVars, brokerVars, allowedAt>>

-----------------------------------------------------------------------------
BrokerTime(b) == now + Offset[b]

ExpiresAt(n) == issuedAt[n] + TicketTtl

TicketAction(n) == action[ticketOf[n]]

\* purge(): open approvals whose expiresAt has passed.
Expired == {a \in Approvals : approval[a] = "open" /\ preparedAt[a] + ApprovalTtl < now}

Purged == [a \in Approvals |-> IF a \in Expired THEN "dropped" ELSE approval[a]]

\* A target of programs S that points at device d allows the action.
Allows(d, S, act) == act.device = d /\ act.program \in S

\* What the target, being d and S from now on, makes of allowedAt at time t.
AllowedUntil(d, S, t) ==
    [a \in Approvals |->
        IF approval[a] = "open" /\ Allows(d, S, action[a]) THEN t ELSE allowedAt[a]]

\* Mutant of StillAllowed: the target is not consulted again.
StillAllowedAsPrepared(a) == TRUE

\* What apply checks again: the target still points at the device of the
\* approval, is enabled and live, and allows the program.
StillAllowed(a) == Allows(device, allowed, action[a])

-----------------------------------------------------------------------------
Init ==
    /\ now = 0
    /\ device \in Devices
    /\ allowed \in SUBSET Programs
    /\ approval = [a \in Approvals |-> "unused"]
    /\ actor = [a \in Approvals |-> None]
    /\ action = [a \in Approvals |-> None]
    /\ preparedAt = [a \in Approvals |-> 0]
    /\ ticketOf = [n \in Nonces |-> None]
    /\ issuedAt = [n \in Nonces |-> 0]
    /\ confirmedBy = [n \in Nonces |-> None]
    /\ allowedAt = [a \in Approvals |-> 0]
    /\ phase = [b \in Devices |-> "idle"]
    /\ handling = [b \in Devices |-> None]
    /\ readAt = [b \in Devices |-> 0]
    /\ replay = [b \in Devices |-> {}]
    /\ runs = [n \in Nonces |-> 0]

-----------------------------------------------------------------------------
(* The control plane *)

\* host_admin_prepare.
Prepare(a, u, p) ==
    /\ approval[a] = "unused"
    /\ p \in allowed
    /\ approval' = [Purged EXCEPT ![a] = "open"]
    /\ actor' = [actor EXCEPT ![a] = u]
    /\ action' = [action EXCEPT ![a] = [device |-> device, program |-> p]]
    /\ preparedAt' = [preparedAt EXCEPT ![a] = now]
    /\ allowedAt' = [allowedAt EXCEPT ![a] = now]
    /\ UNCHANGED <<now, targetVars, ticketVars, brokerVars>>

\* Mutant of AfterApply: the approval is kept.
KeptAfterApply(a) == Purged

\* The map approvals after the ticket has been issued.
AfterApply(a) == [Purged EXCEPT ![a] = "consumed"]

\* The approval is there, unexpired, and belongs to the caller.
MayApply(a, u) == Purged[a] = "open" /\ actor[a] = u

\* host_admin_apply with the right confirmation: the approval is deleted and a
\* ticket with a fresh nonce is signed and sent.
Apply(a, u, n) ==
    /\ MayApply(a, u)
    /\ StillAllowed(a)
    /\ ticketOf[n] = None
    /\ approval' = AfterApply(a)
    /\ ticketOf' = [ticketOf EXCEPT ![n] = a]
    /\ issuedAt' = [issuedAt EXCEPT ![n] = now]
    /\ confirmedBy' = [confirmedBy EXCEPT ![n] = u]
    /\ UNCHANGED <<now, targetVars, actor, action, preparedAt, brokerVars, allowedAt>>

\* A call of either tool that fails still purges.
FailedCall ==
    /\ Expired # {}
    /\ approval' = Purged
    /\ UNCHANGED <<now, targetVars, actor, action, preparedAt, ticketVars, brokerVars,
                   allowedAt>>

\* The map approvals is lost with the process.
ControlPlaneRestart ==
    /\ approval' = [a \in Approvals |-> IF approval[a] = "open" THEN "dropped" ELSE approval[a]]
    /\ UNCHANGED <<now, targetVars, actor, action, preparedAt, ticketVars, brokerVars,
                   allowedAt>>

\* The registry or the device store changes: another device, other programs,
\* disabled, revoked or offline.
Reconfigure(d, S) ==
    /\ device' = d
    /\ allowed' = S
    /\ allowedAt' = AllowedUntil(d, S, now)
    /\ UNCHANGED <<now, approvalVars, ticketVars, brokerVars>>

-----------------------------------------------------------------------------
(* The broker of a device *)

\* Mutant of LocallyValid: expiry is left to the control plane.
LocallyValidForever(b, n) ==
    /\ TicketAction(n).device = b
    /\ issuedAt[n] <= BrokerTime(b) + ClockSkew
    /\ TicketAction(n).program \in LocalPrograms[b]

\* validateLocalAuthority.
LocallyValid(b, n) ==
    /\ TicketAction(n).device = b
    /\ issuedAt[n] <= BrokerTime(b) + ClockSkew
    /\ ExpiresAt(n) >= BrokerTime(b)
    /\ TicketAction(n).program \in LocalPrograms[b]

\* A request with a ticket arrives and passes validation.  The broker is one
\* thread: it takes the next request only after it has started the program.
Validate(b, n) ==
    /\ phase[b] = "idle"
    /\ ticketOf[n] # None
    /\ LocallyValid(b, n)
    /\ phase' = [phase EXCEPT ![b] = "validated"]
    /\ handling' = [handling EXCEPT ![b] = n]
    /\ readAt' = [readAt EXCEPT ![b] = BrokerTime(b)]
    /\ UNCHANGED <<now, targetVars, approvalVars, ticketVars, replay, runs, allowedAt>>

\* Mutant of Remembered: nonces are forgotten when their ticket expires.
RememberedUntilExpiry(b) == {n \in replay[b] : ExpiresAt(n) > BrokerTime(b)}

\* loadReplay: the nonces of the file, without those expired for longer than
\* the grace period.
Remembered(b) == {n \in replay[b] : ~(ExpiresAt(n) < BrokerTime(b) - Grace)}

\* persistReplay with the nonce added.
Record(b) == replay' = [replay EXCEPT ![b] = Remembered(b) \cup {handling[b]}]

\* consumeNonce of a new nonce.
Consume(b) ==
    /\ phase[b] = "validated"
    /\ handling[b] \notin Remembered(b)
    /\ Record(b)
    /\ phase' = [phase EXCEPT ![b] = "consumed"]
    /\ UNCHANGED <<now, targetVars, approvalVars, ticketVars, handling, readAt, runs,
                   allowedAt>>

\* consumeNonce throws: the nonce is known, or the file cannot be written.
ConsumeRefused(b) ==
    /\ phase[b] = "validated"
    /\ phase' = [phase EXCEPT ![b] = "idle"]
    /\ UNCHANGED <<now, targetVars, approvalVars, ticketVars, handling, readAt, replay, runs,
                   allowedAt>>

\* spawn.
Start(b) ==
    /\ phase[b] = "consumed"
    /\ phase' = [phase EXCEPT ![b] = "idle"]
    /\ runs' = [runs EXCEPT ![handling[b]] = IF @ = 2 THEN 2 ELSE @ + 1]
    /\ UNCHANGED <<now, targetVars, approvalVars, ticketVars, handling, readAt, replay,
                   allowedAt>>

\* The broker process dies between any two of these steps and starts again.
BrokerRestart(b) ==
    /\ phase[b] # "idle"
    /\ phase' = [phase EXCEPT ![b] = "idle"]
    /\ UNCHANGED <<now, targetVars, approvalVars, ticketVars, handling, readAt, replay, runs,
                   allowedAt>>

\* Time passes, but no broker is stalled inside a request for longer than
\* MaxStall.
Tick ==
    /\ now < MaxTime
    /\ \A b \in Devices : phase[b] # "idle" => BrokerTime(b) - readAt[b] < MaxStall
    /\ now' = now + 1
    /\ allowedAt' = AllowedUntil(device, allowed, now + 1)
    /\ UNCHANGED <<targetVars, approvalVars, ticketVars, brokerVars>>

Next ==
    \/ \E a \in Approvals, u \in Actors, p \in Programs : Prepare(a, u, p)
    \/ \E a \in Approvals, u \in Actors, n \in Nonces : Apply(a, u, n)
    \/ FailedCall
    \/ ControlPlaneRestart
    \/ \E d \in Devices, S \in SUBSET Programs : Reconfigure(d, S)
    \/ \E b \in Devices, n \in Nonces : Validate(b, n)
    \/ \E b \in Devices : Consume(b) \/ ConsumeRefused(b) \/ Start(b) \/ BrokerRestart(b)
    \/ Tick

Spec == Init /\ [][Next]_vars

-----------------------------------------------------------------------------
(* Properties *)

\* The values each variable takes.
TypeOK ==
    /\ now \in Nat
    /\ device \in Devices /\ allowed \subseteq Programs
    /\ approval \in [Approvals -> {"unused", "open", "consumed", "dropped"}]
    /\ actor \in [Approvals -> Actors \cup {None}]
    /\ action \in [Approvals -> Actions \cup {None}]
    /\ preparedAt \in [Approvals -> Nat]
    /\ ticketOf \in [Nonces -> Approvals \cup {None}]
    /\ issuedAt \in [Nonces -> Nat]
    /\ confirmedBy \in [Nonces -> Actors \cup {None}]
    /\ allowedAt \in [Approvals -> Nat]
    /\ phase \in [Devices -> {"idle", "validated", "consumed"}]
    /\ handling \in [Devices -> Nonces \cup {None}]
    /\ readAt \in [Devices -> Int]
    /\ replay \in [Devices -> SUBSET Nonces]
    /\ runs \in [Nonces -> 0 .. 2]

\* Each approval "is actor-bound, single-use and expires if not applied"
\* (docs/OPERATOR_CAPABILITIES.md): a ticket was applied by the actor who
\* prepared the approval, before it expired, and no other ticket exists for it.
TicketJustified ==
    \A n \in Nonces : ticketOf[n] # None =>
        /\ confirmedBy[n] = actor[ticketOf[n]]
        /\ issuedAt[n] <= preparedAt[ticketOf[n]] + ApprovalTtl
        /\ \A m \in Nonces : ticketOf[m] = ticketOf[n] => m = n

\* A ticket starts its program at most once: however often it is delivered,
\* at any distance from its expiry, and whenever the broker dies.
RunsAtMostOnce == \A n \in Nonces : runs[n] <= 1

\* The strengthening that makes these inductive.  A ticket exists only for a
\* consumed approval and was issued no later than the target last allowed its
\* action; a broker in the middle of a request holds a ticket
\* of its own device, read its clock at most MaxStall ago and saw the ticket
\* unexpired; a nonce that ran is in the replay file or long expired.
Bookkeeping ==
    /\ \A a \in Approvals : approval[a] # "unused" => action[a] \in Actions
    /\ \A a \in Approvals :
           approval[a] = "open" /\ Allows(device, allowed, action[a]) => allowedAt[a] = now
    /\ \A n \in Nonces : ticketOf[n] # None =>
           approval[ticketOf[n]] = "consumed" /\ issuedAt[n] <= allowedAt[ticketOf[n]]
    /\ \A n \in Nonces : runs[n] > 0 => ticketOf[n] # None

BrokersOK ==
    \A b \in Devices : phase[b] # "idle" =>
        /\ handling[b] \in Nonces /\ ticketOf[handling[b]] # None
        /\ TicketAction(handling[b]).device = b
        /\ TicketAction(handling[b]).program \in LocalPrograms[b]
        /\ BrokerTime(b) <= readAt[b] + MaxStall
        /\ ExpiresAt(handling[b]) >= readAt[b]
        /\ phase[b] = "consumed" => handling[b] \in replay[b] /\ runs[handling[b]] = 0

RunsRemembered ==
    \A n \in Nonces : runs[n] > 0 =>
        LET b == TicketAction(n).device
        IN  n \in replay[b] \/ ExpiresAt(n) + Grace < BrokerTime(b)

IInv ==
    /\ TypeOK
    /\ Bookkeeping
    /\ TicketJustified
    /\ BrokersOK
    /\ RunsRemembered
    /\ RunsAtMostOnce

\* A program starts only where the broker's own allowlist has it, on the word of
\* the actor who prepared it, and while its approval and its ticket were both in
\* time: the delay since the preparation is bounded, up to the broker's clock.
RunsWithinAuthority ==
    [][\A n \in Nonces : runs'[n] # runs[n] =>
          LET a == ticketOf[n] IN
          /\ a # None
          /\ confirmedBy[n] = actor[a]
          /\ action[a].program \in LocalPrograms[action[a].device]
          /\ now + Offset[action[a].device]
                <= preparedAt[a] + ApprovalTtl + TicketTtl + MaxStall]_vars

\* Withdrawing a program from the target, disabling it or pointing it elsewhere
\* takes hold: whatever has been prepared, granted or sent by then, the program
\* starts no later than a ticket's lifetime and a stall after the last moment at
\* which the target allowed it, up to the broker's clock.
WithdrawalTakesHold ==
    [][\A n \in Nonces : runs'[n] # runs[n] =>
          LET a == ticketOf[n] IN
          /\ a # None
          /\ now + Offset[action[a].device] <= allowedAt[a] + TicketTtl + MaxStall]_vars

\* The starts of an approval's action, over all of its tickets.
StartsOf(a) == {s \in Nonces \X (1 .. 2) : ticketOf[s[1]] = a /\ s[2] <= runs[s[1]]}

\* Where an approval stands in the abstract specification.
StatusOf(a) ==
    IF StartsOf(a) # {} THEN "executed"
    ELSE IF \E n \in Nonces : ticketOf[n] = a THEN "granted"
    ELSE CASE approval[a] = "unused" -> "none"
           [] approval[a] = "open" -> "prepared"
           [] OTHER -> "dropped"

Abstract == INSTANCE SingleUseApproval
    WITH status <- [a \in Approvals |-> StatusOf(a)],
         runs <- [a \in Approvals |-> Cardinality(StartsOf(a))]

\* The whole flow implements single-use approvals: nothing is ever granted
\* that was not prepared or had been dropped, and nothing is run twice.
ImplementsSingleUse == Abstract!Spec
=============================================================================
