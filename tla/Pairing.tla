-------------------------------- MODULE Pairing --------------------------------
(***************************************************************************)
(* Enrolment of devices: the pairings and devices of state/store.ts, as    *)
(* reached from the routes /agent/pair/start, /agent/pair/claim and the    *)
(* admin console.                                                          *)
(*                                                                         *)
(* The store is one object in memory, written whole to the state file by   *)
(* persist() at the end of every mutation.  A write that throws leaves the *)
(* mutation in memory, and the caller gets an error.  A restart reads the  *)
(* last state that was written.                                            *)
(*                                                                         *)
(* What is fixed when a pairing or a device is created (its code, its      *)
(* expiry, the poll token its credential derives from, its creation time)  *)
(* never changes and is kept outside the two copies of the store.  A       *)
(* device token is determined by the device and its pairing's poll token.  *)
(***************************************************************************)
EXTENDS Integers, FiniteSets

CONSTANTS Pairings,         \* pairing ids, each with its poll token
          Devices,          \* device ids
          Codes,            \* pairing codes
          None,             \* no device, no pairing
          Ttl,              \* AGENT_PAIRING_TTL_MINUTES
          UnclaimedGrace,   \* createPairing forgets an unclaimed pairing after this (1 h)
          Retention,        \* purgeState forgets a pairing after this (24 h)
          MaxDevices,       \* AGENT_MAX_DEVICES
          MaxPending,       \* AGENT_MAX_PENDING_PAIRINGS
          MaxTime           \* bound on the clock

ASSUME NoneAssumption == None \notin Pairings /\ None \notin Devices
ASSUME TimesAssumption == Ttl \in Nat /\ UnclaimedGrace \in Nat /\ Retention \in Nat
                          /\ MaxTime \in Nat
ASSUME LimitsAssumption == MaxDevices \in Nat \ {0} /\ MaxPending \in Nat \ {0}
ASSUME FiniteAssumption == IsFiniteSet(Pairings) /\ IsFiniteSet(Devices)

VARIABLES now,
          mem,        \* the store in memory
          disk,       \* the store in the state file
          code,       \* code_hash of a pairing
          expires,    \* expires_at of a pairing
          origin,     \* the pairing a device was created from
          bornAt,     \* created_at of a device, which is claimed_at of its pairing
          \* History variables, read by properties only
          started,    \* pairings ever created
          approvals,  \* pairings an administrator approved before they expired
          granted     \* devices whose credential was returned by the claim that saved them

birthVars == <<code, expires, origin, bornAt>>
historyVars == <<started, approvals, granted>>
vars == <<now, mem, disk, birthVars, historyVars>>

\* The two maps of the store: pairings, with approved_at and device_id, and
\* devices, with revoked_at.  device_id and claimed_at are set together.
Store == [pairings : SUBSET Pairings,
          approved : SUBSET Pairings,
          deviceOf : [Pairings -> Devices \cup {None}],
          devices  : SUBSET Devices,
          revoked  : SUBSET Devices]

EmptyStore == [pairings |-> {}, approved |-> {},
               deviceOf |-> [p \in Pairings |-> None],
               devices |-> {}, revoked |-> {}]

-----------------------------------------------------------------------------
(* Reading the store *)

Unclaimed(s) == {p \in s.pairings : s.deviceOf[p] = None}

\* listPendingPairings, and what createPairing counts against the limit.
PendingPairings(s) == {p \in Unclaimed(s) : expires[p] >= now}

ActiveDevices(s) == s.devices \ s.revoked

\* What createPairing forgets before it counts.
Forgettable(s) == {p \in Unclaimed(s) : expires[p] + UnclaimedGrace < now}

\* claimed_at ?? expires_at
LastEvent(s, p) == IF s.deviceOf[p] = None THEN expires[p] ELSE bornAt[s.deviceOf[p]]

\* What purgeState forgets.
Outdated(s) == {p \in s.pairings : LastEvent(s, p) + Retention < now}

Forget(s, dead) ==
    [s EXCEPT !.pairings = @ \ dead,
              !.approved = @ \ dead,
              !.deviceOf = [p \in Pairings |-> IF p \in dead THEN None ELSE s.deviceOf[p]]]

\* Mutant of Save: the file is written before memory changes.
SaveBefore(saved) == disk' = IF saved THEN mem ELSE disk

\* persist(): writes the store as the action leaves it, or throws.
Save(saved) == disk' = IF saved THEN mem' ELSE disk

-----------------------------------------------------------------------------
Init ==
    /\ now = 0
    /\ mem = EmptyStore
    /\ disk = EmptyStore
    /\ code \in [Pairings -> Codes]
    /\ expires = [p \in Pairings |-> 0]
    /\ origin = [d \in Devices |-> None]
    /\ bornAt = [d \in Devices |-> 0]
    /\ started = {} /\ approvals = {} /\ granted = {}

-----------------------------------------------------------------------------
(* Pairing *)

\* The code generated for p collides with no unclaimed pairing that expires
\* after this moment.
CodeFree(s, p) ==
    \A q \in Unclaimed(s) : code[q] = code[p] => ~(expires[q] > now)

\* Mutant of RoomForPairing: the limit on pending pairings is not checked.
RoomForDevices(s) == Cardinality(ActiveDevices(s)) < MaxDevices

\* The two capacity checks of createPairing.
RoomForPairing(s) ==
    /\ Cardinality(ActiveDevices(s)) < MaxDevices
    /\ Cardinality(PendingPairings(s)) < MaxPending

\* createPairing.  The code is drawn at random until it is free.
CreatePairing(p, saved) ==
    LET kept == Forget(mem, Forgettable(mem)) IN
    /\ p \notin started
    /\ RoomForPairing(kept)
    /\ CodeFree(kept, p)
    /\ mem' = [kept EXCEPT !.pairings = @ \cup {p}]
    /\ expires' = [expires EXCEPT ![p] = now + Ttl]
    /\ started' = started \cup {p}
    /\ Save(saved)
    /\ UNCHANGED <<now, code, origin, bornAt, approvals, granted>>

\* createPairing when it throws: what it forgot stays forgotten in memory.
PairingRefused ==
    LET kept == Forget(mem, Forgettable(mem)) IN
    /\ ~RoomForPairing(kept)
    /\ mem' = kept
    /\ UNCHANGED <<now, disk, birthVars, historyVars>>

\* The pairings approvePairingByCode may find.
Approvable == {p \in Unclaimed(mem) : expires[p] >= now}

\* approvePairingByCode.
Approve(p, saved) ==
    /\ p \in Approvable
    /\ mem' = [mem EXCEPT !.approved = @ \cup {p}]
    /\ approvals' = IF expires[p] >= now THEN approvals \cup {p} ELSE approvals
    /\ Save(saved)
    /\ UNCHANGED <<now, birthVars, started, granted>>

\* The pairings whose claim is neither invalid, expired nor pending.
Claimable == {p \in mem.pairings : expires[p] >= now /\ p \in mem.approved}

\* Mutant of HasDevice: a second claim creates a second device.
NeverHasDevice(p) == FALSE

HasDevice(p) == mem.deviceOf[p] # None /\ mem.deviceOf[p] \in mem.devices

\* claimPairing, the first time: the device is created with a fresh random id.
\* The credential is returned only if persist() did not throw.
Claim(p, d, saved) ==
    /\ p \in Claimable
    /\ ~HasDevice(p)
    /\ origin[d] = None
    /\ mem' = [mem EXCEPT !.devices = @ \cup {d}, !.deviceOf[p] = d]
    /\ origin' = [origin EXCEPT ![d] = p]
    /\ bornAt' = [bornAt EXCEPT ![d] = now]
    /\ granted' = IF saved THEN granted \cup {d} ELSE granted
    /\ Save(saved)
    /\ UNCHANGED <<now, code, expires, started, approvals>>

\* claimPairing again: the same credential is derived and returned, whether or not
\* its device was saved.
ClaimAgain(p) ==
    /\ p \in Claimable
    /\ HasDevice(p)
    /\ UNCHANGED vars

-----------------------------------------------------------------------------
(* Devices, time and failures *)

RevokeDevice(d, saved) ==
    /\ d \in mem.devices
    /\ mem' = [mem EXCEPT !.revoked = @ \cup {d}]
    /\ Save(saved)
    /\ UNCHANGED <<now, birthVars, historyVars>>

\* touchDeviceHeartbeat, or any other mutation of the store that persists.
SaveAll ==
    /\ disk' = mem
    /\ UNCHANGED <<now, mem, birthVars, historyVars>>

\* purgeState from its interval.
PurgeState ==
    /\ Outdated(mem) # {}
    /\ mem' = Forget(mem, Outdated(mem))
    /\ Save(TRUE)
    /\ UNCHANGED <<now, birthVars, historyVars>>

\* The process starts again: initStateStore loads the file and purges without
\* persisting.
Restart ==
    /\ mem' = Forget(disk, Outdated(disk))
    /\ UNCHANGED <<now, disk, birthVars, historyVars>>

Tick ==
    /\ now < MaxTime
    /\ now' = now + 1
    /\ UNCHANGED <<mem, disk, birthVars, historyVars>>

Next ==
    \/ \E p \in Pairings, saved \in BOOLEAN : CreatePairing(p, saved)
    \/ PairingRefused
    \/ \E p \in Pairings, saved \in BOOLEAN : Approve(p, saved)
    \/ \E p \in Pairings, d \in Devices, saved \in BOOLEAN : Claim(p, d, saved)
    \/ \E p \in Pairings : ClaimAgain(p)
    \/ \E d \in Devices, saved \in BOOLEAN : RevokeDevice(d, saved)
    \/ SaveAll
    \/ PurgeState
    \/ Restart
    \/ Tick

Spec == Init /\ [][Next]_vars

-----------------------------------------------------------------------------
(* Properties *)

\* The values each variable takes.
TypeOK ==
    /\ now \in Nat
    /\ mem \in Store /\ disk \in Store
    /\ code \in [Pairings -> Codes]
    /\ expires \in [Pairings -> Nat]
    /\ origin \in [Devices -> Pairings \cup {None}]
    /\ bornAt \in [Devices -> Nat]
    /\ started \subseteq Pairings /\ approvals \subseteq Pairings /\ granted \subseteq Devices

\* Claims do not check AGENT_MAX_DEVICES again, so the number of active
\* devices can pass it, by fewer than AGENT_MAX_PENDING_PAIRINGS: pairings that
\* can still become devices count against the sum of the two limits.
WithinCapacity(s) ==
    Cardinality(ActiveDevices(s)) + Cardinality(PendingPairings(s))
        <= MaxDevices - 1 + MaxPending

CapacityBound == WithinCapacity(mem)

\* A device exists only if an administrator approved its pairing before the
\* pairing expired, and it was claimed before that too.
DeviceWasApproved ==
    \A d \in mem.devices :
        /\ origin[d] \in approvals
        /\ bornAt[d] <= expires[origin[d]]

\* One pairing yields one device, whatever is retried or forgotten.
OneDevicePerPairing ==
    \A d, e \in mem.devices : origin[d] = origin[e] => d = e

\* The code an administrator types designates one pairing: no two unclaimed
\* pairings with one code both expire after this moment.
CodesUniqueIn(s) ==
    \A p, q \in Unclaimed(s) :
        (code[p] = code[q] /\ expires[p] > now /\ expires[q] > now) => p = q

LiveCodesUnique == CodesUniqueIn(mem)

\* A credential returned by the claim that created the device is known to the
\* store for good, across failed writes and restarts.
CredentialDurable == granted \subseteq mem.devices \cap disk.devices

\* What holds of each copy of the store: pairings and devices refer to each
\* other as the claims left them, and a device whose pairing is still known is
\* the one that pairing names.
StoreOK(s) ==
    /\ s.pairings \subseteq started
    /\ s.approved \subseteq s.pairings \cap approvals
    /\ \A p \in Pairings : s.deviceOf[p] # None =>
           /\ p \in s.pairings
           /\ s.deviceOf[p] \in s.devices
           /\ origin[s.deviceOf[p]] = p
    /\ \A d \in s.devices :
           /\ origin[d] \in started \cap approvals
           /\ bornAt[d] <= expires[origin[d]]
           /\ origin[d] \in s.pairings => s.deviceOf[origin[d]] = d
    /\ \A d, e \in s.devices : origin[d] = origin[e] => d = e

\* The inductive invariant: both copies are consistent and within the limits,
\* memory knows all that the file knows, and the file every granted device.
IInv ==
    /\ TypeOK
    /\ StoreOK(mem) /\ StoreOK(disk)
    /\ CodesUniqueIn(mem) /\ CodesUniqueIn(disk)
    /\ WithinCapacity(mem) /\ WithinCapacity(disk)
    /\ disk.devices \subseteq mem.devices /\ disk.revoked \subseteq mem.revoked
    /\ granted \subseteq disk.devices

\* What reached the state file is never lost from it: devices and revocations
\* in the file only grow, though every write replaces the whole file by what
\* memory holds, after any sequence of failed writes, purges and restarts.
SavedDevicesOnlyGrow ==
    [][disk.devices \subseteq disk'.devices /\ disk.revoked \subseteq disk'.revoked]_vars
=============================================================================
