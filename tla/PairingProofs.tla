----------------------------- MODULE PairingProofs -----------------------------
(***************************************************************************)
(* Safety of device enrolment for any numbers of pairings and devices and  *)
(* any limits, under failed writes and restarts.                           *)
(***************************************************************************)
EXTENDS Pairing, FiniteSetTheorems, TLAPS

USE NoneAssumption, TimesAssumption, LimitsAssumption

-----------------------------------------------------------------------------
(* Cardinalities *)

\* Subsets of finite sets are finite and no larger.
LEMMA Monotone ==
    ASSUME NEW T, IsFiniteSet(T), NEW S \in SUBSET T
    PROVE  IsFiniteSet(S) /\ Cardinality(S) <= Cardinality(T)
           /\ Cardinality(S) \in Nat /\ Cardinality(T) \in Nat
  BY FS_Subset, FS_CardinalityType

\* A set with at most one element more has at most one more.
LEMMA AddOne ==
    ASSUME NEW T, IsFiniteSet(T), NEW x, NEW S \in SUBSET (T \cup {x})
    PROVE  /\ Cardinality(S) <= Cardinality(T) + 1
           /\ Cardinality(S) \in Nat /\ Cardinality(T) \in Nat
<1>1. IsFiniteSet(T \cup {x}) /\ Cardinality(T) \in Nat
  BY FS_AddElement, FS_CardinalityType
<1>2. Cardinality(T \cup {x}) <= Cardinality(T) + 1
  BY <1>1, FS_AddElement
<1>3. Cardinality(S) <= Cardinality(T \cup {x}) /\ Cardinality(S) \in Nat
      /\ Cardinality(T \cup {x}) \in Nat
  BY <1>1, Monotone
<1> QED
  BY <1>1, <1>2, <1>3

\* A set without one of the elements has at least one less.
LEMMA RemoveOne ==
    ASSUME NEW T, IsFiniteSet(T), NEW x \in T, NEW S \in SUBSET (T \ {x})
    PROVE  /\ Cardinality(S) <= Cardinality(T) - 1
           /\ Cardinality(S) \in Nat /\ Cardinality(T) \in Nat
<1>1. IsFiniteSet(T \ {x}) /\ Cardinality(T) \in Nat
  BY FS_RemoveElement, FS_CardinalityType
<1>2. Cardinality(T \ {x}) = Cardinality(T) - 1
  BY FS_RemoveElement
<1>3. Cardinality(S) <= Cardinality(T \ {x}) /\ Cardinality(S) \in Nat
  BY <1>1, Monotone
<1> QED
  BY <1>1, <1>2, <1>3

\* The sets the capacity checks count are finite.
LEMMA FiniteParts ==
    ASSUME NEW s \in Store
    PROVE  /\ IsFiniteSet(ActiveDevices(s)) /\ Cardinality(ActiveDevices(s)) \in Nat
           /\ IsFiniteSet(PendingPairings(s)) /\ Cardinality(PendingPairings(s)) \in Nat
<1>1. ActiveDevices(s) \in SUBSET Devices /\ PendingPairings(s) \in SUBSET Pairings
  BY DEF Store, ActiveDevices, PendingPairings, Unclaimed
<1> QED
  BY <1>1, FiniteAssumption, Monotone

\* A store with no more active devices and pending pairings than another one
\* is within capacity if that one is.
LEMMA SmallerWithinCapacity ==
    ASSUME NEW A, NEW B, NEW A1 \in SUBSET A, NEW B1 \in SUBSET B,
           IsFiniteSet(A), IsFiniteSet(B),
           Cardinality(A) + Cardinality(B) <= MaxDevices - 1 + MaxPending
    PROVE  Cardinality(A1) + Cardinality(B1) <= MaxDevices - 1 + MaxPending
<1>1. /\ Cardinality(A1) <= Cardinality(A) /\ Cardinality(B1) <= Cardinality(B)
      /\ Cardinality(A) \in Nat /\ Cardinality(B) \in Nat
      /\ Cardinality(A1) \in Nat /\ Cardinality(B1) \in Nat
  BY Monotone
<1> QED
  BY <1>1

-----------------------------------------------------------------------------
(* Forgetting pairings *)

\* Forget changes pairings only.
LEMMA ForgetType ==
    ASSUME NEW s \in Store, NEW dead
    PROVE  /\ Forget(s, dead) \in Store
           /\ Forget(s, dead).pairings = s.pairings \ dead
           /\ Forget(s, dead).approved = s.approved \ dead
           /\ Forget(s, dead).devices = s.devices
           /\ Forget(s, dead).revoked = s.revoked
           /\ \A p \in Pairings :
                 Forget(s, dead).deviceOf[p] = IF p \in dead THEN None ELSE s.deviceOf[p]
  BY DEF Store, Forget

\* Forgetting pairings keeps a store consistent and within the limits.
LEMMA ForgetOK ==
    ASSUME TypeOK, NEW s \in Store, NEW dead \in SUBSET Pairings,
           StoreOK(s), CodesUniqueIn(s), WithinCapacity(s)
    PROVE  LET k == Forget(s, dead)
           IN  /\ k \in Store /\ StoreOK(k) /\ CodesUniqueIn(k) /\ WithinCapacity(k)
               /\ k.devices = s.devices /\ k.revoked = s.revoked
<1> DEFINE k == Forget(s, dead)
<1>1. /\ k \in Store /\ k.pairings = s.pairings \ dead /\ k.approved = s.approved \ dead
      /\ k.devices = s.devices /\ k.revoked = s.revoked
      /\ \A p \in Pairings : k.deviceOf[p] = IF p \in dead THEN None ELSE s.deviceOf[p]
  BY ForgetType
<1> HIDE DEF k
<1>2. StoreOK(k)
  BY <1>1 DEF StoreOK, Store, TypeOK
<1>3. Unclaimed(k) \subseteq Unclaimed(s)
  BY <1>1 DEF Unclaimed, Store
<1>4. CodesUniqueIn(k)
  BY <1>3 DEF CodesUniqueIn
<1>5. ActiveDevices(k) \in SUBSET ActiveDevices(s) /\ PendingPairings(k) \in SUBSET PendingPairings(s)
  BY <1>1, <1>3 DEF ActiveDevices, PendingPairings
<1>6. WithinCapacity(k)
  BY <1>5, FiniteParts, SmallerWithinCapacity DEF WithinCapacity
<1> QED
  BY <1>1, <1>2, <1>4, <1>6 DEF k

-----------------------------------------------------------------------------
(* Steps *)

\* What the inductive invariant says of one copy of the store.
Good(s) == s \in Store /\ StoreOK(s) /\ CodesUniqueIn(s) /\ WithinCapacity(s)

\* What every step does to the clock, to what is fixed at creation and to the
\* history: nothing that exists changes.
Frame ==
    /\ now \in Nat /\ now' \in Nat /\ now <= now'
    /\ code' = code
    /\ started \subseteq started' /\ approvals \subseteq approvals'
    /\ \A p \in started : expires'[p] = expires[p]
    /\ \A d \in Devices : origin[d] # None => origin'[d] = origin[d] /\ bornAt'[d] = bornAt[d]

\* Every step keeps the types and changes nothing of what is fixed at creation.
LEMMA TypeAndFrame ==
    ASSUME TypeOK, [Next]_vars
    PROVE  TypeOK' /\ Frame
<1> USE DEF TypeOK, Frame, birthVars, historyVars, Save
<1>1. ASSUME NEW p \in Pairings, NEW saved \in BOOLEAN, CreatePairing(p, saved)
      PROVE  TypeOK' /\ Frame
  <2>1. mem' \in Store
    BY <1>1, ForgetType DEF CreatePairing, Store
  <2> QED
    BY <1>1, <2>1 DEF CreatePairing
<1>2. CASE PairingRefused
  BY <1>2, ForgetType DEF PairingRefused
<1>3. ASSUME NEW p \in Pairings, NEW saved \in BOOLEAN, Approve(p, saved)
      PROVE  TypeOK' /\ Frame
  <2>1. mem' \in Store
    BY <1>3 DEF Approve, Store
  <2> QED
    BY <1>3, <2>1 DEF Approve
<1>4. ASSUME NEW p \in Pairings, NEW d \in Devices, NEW saved \in BOOLEAN, Claim(p, d, saved)
      PROVE  TypeOK' /\ Frame
  <2>1. mem' \in Store
    BY <1>4 DEF Claim, Store
  <2> QED
    BY <1>4, <2>1 DEF Claim
<1>5. ASSUME NEW p \in Pairings, ClaimAgain(p) PROVE TypeOK' /\ Frame
  BY <1>5 DEF ClaimAgain, vars
<1>6. ASSUME NEW d \in Devices, NEW saved \in BOOLEAN, RevokeDevice(d, saved)
      PROVE  TypeOK' /\ Frame
  <2>1. mem' \in Store
    BY <1>6 DEF RevokeDevice, Store
  <2> QED
    BY <1>6, <2>1 DEF RevokeDevice
<1>7. CASE SaveAll
  BY <1>7 DEF SaveAll
<1>8. CASE PurgeState
  BY <1>8, ForgetType DEF PurgeState
<1>9. CASE Restart
  BY <1>9, ForgetType DEF Restart
<1>10. CASE Tick
  BY <1>10 DEF Tick
<1>11. CASE UNCHANGED vars
  BY <1>11 DEF vars
<1> QED
  BY <1>1, <1>2, <1>3, <1>4, <1>5, <1>6, <1>7, <1>8, <1>9, <1>10, <1>11 DEF Next

\* A copy of the store that no step touches stays consistent.
LEMMA Stable ==
    ASSUME TypeOK, TypeOK', Frame, NEW s \in Store, Good(s)
    PROVE  Good(s)'
<1>1. StoreOK(s)'
  BY DEF Good, StoreOK, Frame, TypeOK, Store
<1>2. CodesUniqueIn(s)'
  BY DEF Good, CodesUniqueIn, StoreOK, Unclaimed, Frame, TypeOK, Store
<1>3. PendingPairings(s)' \in SUBSET PendingPairings(s) /\ ActiveDevices(s)' = ActiveDevices(s)
  BY DEF Good, StoreOK, PendingPairings, Unclaimed, ActiveDevices, Frame, TypeOK, Store
<1>4. WithinCapacity(s)'
  BY <1>3, FiniteParts, SmallerWithinCapacity DEF Good, WithinCapacity
<1> QED
  BY <1>1, <1>2, <1>4 DEF Good

\* The invariant in terms of Good.
LEMMA IInvMeansGood == IInv <=> /\ TypeOK /\ Good(mem) /\ Good(disk)
                                /\ disk.devices \subseteq mem.devices
                                /\ disk.revoked \subseteq mem.revoked
                                /\ granted \subseteq disk.devices
  BY DEF IInv, Good, TypeOK

\* createPairing leaves a store that is consistent and within the limits.
LEMMA CreateGood ==
    ASSUME IInv, TypeOK', Frame, NEW p \in Pairings, NEW saved \in BOOLEAN,
           CreatePairing(p, saved)
    PROVE  /\ Good(mem)' /\ mem'.devices = mem.devices /\ mem'.revoked = mem.revoked
<1> DEFINE k == Forget(mem, Forgettable(mem))
<1>1. /\ Good(k) /\ k \in Store /\ k.devices = mem.devices /\ k.revoked = mem.revoked
      /\ p \notin started /\ RoomForPairing(k) /\ CodeFree(k, p)
      /\ mem' = [k EXCEPT !.pairings = @ \cup {p}]
      /\ expires' = [expires EXCEPT ![p] = now + Ttl]
      /\ started' = started \cup {p}
      /\ UNCHANGED <<now, code, origin, bornAt, approvals, granted>>
  <2>1. Forgettable(mem) \in SUBSET Pairings
    BY DEF IInv, TypeOK, Store, Forgettable, Unclaimed
  <2> QED
    BY <2>1, ForgetOK DEF IInv, TypeOK, CreatePairing, Good
<1> HIDE DEF k
<1>2. /\ mem'.pairings = k.pairings \cup {p} /\ mem'.approved = k.approved
      /\ mem'.deviceOf = k.deviceOf /\ mem'.devices = k.devices /\ mem'.revoked = k.revoked
  BY <1>1 DEF Store
<1>3. mem' \in Store
  BY DEF TypeOK
<1>4. StoreOK(mem)'
  BY <1>1, <1>2, <1>3 DEF StoreOK, Good, Store, IInv, TypeOK
<1>5. Unclaimed(mem)' \in SUBSET (Unclaimed(k) \cup {p})
  BY <1>1, <1>2 DEF Unclaimed
<1>6. CodesUniqueIn(mem)'
  BY <1>1, <1>5 DEF CodesUniqueIn, CodeFree, Good, StoreOK, Unclaimed, IInv, TypeOK
<1>7. PendingPairings(mem)' \in SUBSET (PendingPairings(k) \cup {p})
      /\ ActiveDevices(mem)' = ActiveDevices(k)
  BY <1>1, <1>2, <1>5 DEF PendingPairings, ActiveDevices, Good, StoreOK, Unclaimed, IInv, TypeOK
<1>8. IsFiniteSet(PendingPairings(k)) /\ Cardinality(ActiveDevices(k)) \in Nat
  BY <1>1, FiniteParts
<1>9. /\ Cardinality(PendingPairings(mem)') <= Cardinality(PendingPairings(k)) + 1
      /\ Cardinality(PendingPairings(mem)') \in Nat
      /\ Cardinality(PendingPairings(k)) \in Nat /\ Cardinality(ActiveDevices(k)) \in Nat
  BY <1>7, <1>8, AddOne
<1>10. WithinCapacity(mem)'
  BY <1>1, <1>7, <1>9 DEF WithinCapacity, RoomForPairing
<1> QED
  BY <1>1, <1>2, <1>3, <1>4, <1>6, <1>10 DEF Good

\* approvePairingByCode does.
LEMMA ApproveGood ==
    ASSUME IInv, TypeOK', Frame, NEW p \in Pairings, NEW saved \in BOOLEAN, Approve(p, saved)
    PROVE  Good(mem)' /\ mem'.devices = mem.devices /\ mem'.revoked = mem.revoked
<1>1. /\ mem'.pairings = mem.pairings /\ mem'.approved = mem.approved \cup {p}
      /\ mem'.deviceOf = mem.deviceOf /\ mem'.devices = mem.devices
      /\ mem'.revoked = mem.revoked
      /\ p \in Unclaimed(mem) /\ approvals' = approvals \cup {p}
      /\ UNCHANGED <<now, birthVars, started, granted>>
  BY DEF Approve, Approvable, Store, IInv, TypeOK
<1>2. StoreOK(mem)'
  BY <1>1 DEF StoreOK, IInv, TypeOK, Store, Unclaimed, birthVars
<1>3. /\ PendingPairings(mem)' = PendingPairings(mem) /\ Unclaimed(mem)' = Unclaimed(mem)
      /\ ActiveDevices(mem)' = ActiveDevices(mem)
  BY <1>1 DEF PendingPairings, Unclaimed, ActiveDevices, birthVars
<1> QED
  BY <1>1, <1>2, <1>3 DEF Good, IInv, TypeOK, CodesUniqueIn, WithinCapacity, birthVars

\* The first claim of a pairing does.
LEMMA ClaimGood ==
    ASSUME IInv, TypeOK', Frame, NEW p \in Pairings, NEW d \in Devices, NEW saved \in BOOLEAN,
           Claim(p, d, saved)
    PROVE  Good(mem)' /\ mem'.devices = mem.devices \cup {d} /\ mem'.revoked = mem.revoked
<1>1. /\ mem'.pairings = mem.pairings /\ mem'.approved = mem.approved
      /\ mem'.deviceOf = [mem.deviceOf EXCEPT ![p] = d]
      /\ mem'.devices = mem.devices \cup {d} /\ mem'.revoked = mem.revoked
      /\ origin[d] = None /\ origin' = [origin EXCEPT ![d] = p]
      /\ bornAt' = [bornAt EXCEPT ![d] = now]
      /\ UNCHANGED <<now, code, expires, started, approvals>>
  BY DEF Claim, Store, IInv, TypeOK
<1>2. p \in PendingPairings(mem) /\ p \in mem.approved
  BY DEF Claim, Claimable, HasDevice, PendingPairings, Unclaimed, IInv, StoreOK
<1>3. d \notin mem.devices /\ (\A e \in mem.devices : origin[e] # p)
  BY <1>1, <1>2 DEF IInv, StoreOK, TypeOK, PendingPairings, Unclaimed, Store
<1>4. StoreOK(mem)'
  BY <1>1, <1>2, <1>3 DEF StoreOK, IInv, TypeOK, Store, PendingPairings, Unclaimed
<1>5. Unclaimed(mem)' \in SUBSET Unclaimed(mem)
  BY <1>1 DEF Unclaimed, IInv, TypeOK, Store
<1>6. CodesUniqueIn(mem)'
  BY <1>1, <1>5 DEF CodesUniqueIn, IInv
<1>7. /\ PendingPairings(mem)' \in SUBSET (PendingPairings(mem) \ {p})
      /\ ActiveDevices(mem)' \in SUBSET (ActiveDevices(mem) \cup {d})
  BY <1>1 DEF PendingPairings, Unclaimed, ActiveDevices, IInv, TypeOK, Store
<1>8. IsFiniteSet(PendingPairings(mem)) /\ IsFiniteSet(ActiveDevices(mem))
  BY FiniteParts DEF IInv, TypeOK
<1>9. /\ Cardinality(PendingPairings(mem)') <= Cardinality(PendingPairings(mem)) - 1
      /\ Cardinality(PendingPairings(mem)') \in Nat /\ Cardinality(PendingPairings(mem)) \in Nat
  BY <1>2, <1>7, <1>8, RemoveOne
<1>11. /\ Cardinality(ActiveDevices(mem)') <= Cardinality(ActiveDevices(mem)) + 1
       /\ Cardinality(ActiveDevices(mem)') \in Nat /\ Cardinality(ActiveDevices(mem)) \in Nat
  BY <1>7, <1>8, AddOne
<1>10. WithinCapacity(mem)'
  BY <1>9, <1>11 DEF WithinCapacity, IInv
<1> QED
  BY <1>1, <1>4, <1>6, <1>10 DEF Good, TypeOK

\* revokeDevice does.
LEMMA RevokeGood ==
    ASSUME IInv, TypeOK', Frame, NEW d \in Devices, NEW saved \in BOOLEAN,
           RevokeDevice(d, saved)
    PROVE  Good(mem)' /\ mem'.devices = mem.devices /\ mem.revoked \subseteq mem'.revoked
<1>1. /\ mem'.pairings = mem.pairings /\ mem'.approved = mem.approved
      /\ mem'.deviceOf = mem.deviceOf /\ mem'.devices = mem.devices
      /\ mem'.revoked = mem.revoked \cup {d}
      /\ UNCHANGED <<now, birthVars, historyVars>>
  BY DEF RevokeDevice, Store, IInv, TypeOK
<1>2. StoreOK(mem)'
  BY <1>1 DEF StoreOK, IInv, birthVars, historyVars
<1>3. /\ PendingPairings(mem)' = PendingPairings(mem) /\ Unclaimed(mem)' = Unclaimed(mem)
      /\ ActiveDevices(mem)' \in SUBSET ActiveDevices(mem)
  BY <1>1 DEF PendingPairings, Unclaimed, ActiveDevices, birthVars
<1>4. WithinCapacity(mem)'
  BY <1>3, FiniteParts, SmallerWithinCapacity DEF WithinCapacity, IInv, TypeOK
<1> QED
  BY <1>1, <1>2, <1>3, <1>4 DEF Good, IInv, TypeOK, CodesUniqueIn, birthVars

\* The store starts in a state of the invariant.
LEMMA InitIInv == Init => IInv
<1> SUFFICES ASSUME Init PROVE IInv
  OBVIOUS
<1>1. TypeOK /\ EmptyStore \in Store
  BY DEF Init, TypeOK, Store, EmptyStore
<1>2. /\ Unclaimed(EmptyStore) = {} /\ PendingPairings(EmptyStore) = {}
      /\ ActiveDevices(EmptyStore) = {}
  BY DEF EmptyStore, Unclaimed, PendingPairings, ActiveDevices
<1>3. WithinCapacity(EmptyStore)
  BY <1>2, FS_EmptySet DEF WithinCapacity
<1>4. StoreOK(EmptyStore) /\ CodesUniqueIn(EmptyStore)
  BY <1>2 DEF StoreOK, EmptyStore, CodesUniqueIn
<1>5. EmptyStore.devices = {} /\ EmptyStore.revoked = {}
  BY DEF EmptyStore
<1> QED
  BY <1>1, <1>3, <1>4, <1>5 DEF IInv, Init

\* How every step treats the two copies: memory stays consistent, and the file
\* is left alone or replaced by the new memory; memory loses a device or a
\* revocation only by going back to the file.
LEMMA StepGood ==
    ASSUME IInv, [Next]_vars
    PROVE  /\ TypeOK' /\ Good(mem)'
           /\ disk' = disk \/ disk' = mem'
           /\ \/ mem.devices \subseteq mem'.devices /\ mem.revoked \subseteq mem'.revoked
              \/ /\ disk' = disk /\ granted' = granted
                 /\ mem'.devices = disk.devices /\ mem'.revoked = disk.revoked
           /\ granted' = granted \/ (disk' = mem' /\ granted' \subseteq granted \cup mem'.devices)
<1>0. TypeOK /\ TypeOK' /\ Frame /\ Good(mem) /\ Good(disk) /\ mem \in Store /\ disk \in Store
  BY TypeAndFrame, IInvMeansGood DEF IInv, TypeOK
<1> USE <1>0 DEF birthVars, historyVars, Save
<1>1. ASSUME NEW p \in Pairings, NEW saved \in BOOLEAN, CreatePairing(p, saved)
      PROVE  /\ Good(mem)' /\ mem'.devices = mem.devices /\ mem'.revoked = mem.revoked
             /\ (disk' = disk \/ disk' = mem') /\ granted' = granted
  BY <1>1, CreateGood DEF CreatePairing
<1>2. ASSUME NEW p \in Pairings, NEW saved \in BOOLEAN, Approve(p, saved)
      PROVE  /\ Good(mem)' /\ mem'.devices = mem.devices /\ mem'.revoked = mem.revoked
             /\ (disk' = disk \/ disk' = mem') /\ granted' = granted
  BY <1>2, ApproveGood DEF Approve
<1>3. ASSUME NEW p \in Pairings, NEW d \in Devices, NEW saved \in BOOLEAN, Claim(p, d, saved)
      PROVE  /\ Good(mem)' /\ mem.devices \subseteq mem'.devices /\ mem'.revoked = mem.revoked
             /\ disk' = disk \/ disk' = mem'
             /\ granted' = granted \/ (disk' = mem' /\ granted' \subseteq granted \cup mem'.devices)
  BY <1>3, ClaimGood DEF Claim
<1>4. ASSUME NEW d \in Devices, NEW saved \in BOOLEAN, RevokeDevice(d, saved)
      PROVE  /\ Good(mem)' /\ mem'.devices = mem.devices /\ mem.revoked \subseteq mem'.revoked
             /\ (disk' = disk \/ disk' = mem') /\ granted' = granted
  BY <1>4, RevokeGood DEF RevokeDevice
<1>5. ASSUME mem' = mem, disk' = disk \/ disk' = mem, granted' = granted
      PROVE  /\ Good(mem)' /\ mem'.devices = mem.devices /\ mem'.revoked = mem.revoked
             /\ (disk' = disk \/ disk' = mem') /\ granted' = granted
  <2>1. \A s \in Store : Good(s) => Good(s)'
    BY Stable
  <2> QED
    BY <1>5, <2>1
<1>6. ASSUME NEW s \in Store, Good(s), NEW dead \in SUBSET Pairings,
             mem' = Forget(s, dead), UNCHANGED <<now, birthVars, historyVars>>
      PROVE  Good(mem)' /\ mem'.devices = s.devices /\ mem'.revoked = s.revoked
  <2> DEFINE k == Forget(s, dead)
  <2>1. k \in Store /\ Good(k) /\ k.devices = s.devices /\ k.revoked = s.revoked
    BY <1>6, ForgetOK DEF Good
  <2> HIDE DEF k
  <2>2. Good(k)'
    BY <2>1, Stable
  <2> QED
    BY <1>6, <2>1, <2>2 DEF k
<1>7. \A s \in Store : Forgettable(s) \in SUBSET Pairings /\ Outdated(s) \in SUBSET Pairings
  BY DEF Store, Forgettable, Unclaimed, Outdated
<1>8. CASE PairingRefused
  BY <1>6, <1>7, <1>8 DEF PairingRefused
<1>9. CASE PurgeState
  BY <1>6, <1>7, <1>9 DEF PurgeState
<1>10. CASE Restart
  BY <1>6, <1>7, <1>10 DEF Restart
<1>11. ASSUME NEW p \in Pairings, ClaimAgain(p)
       PROVE  mem' = mem /\ disk' = disk /\ granted' = granted
  BY <1>11 DEF ClaimAgain, vars, historyVars
<1>12. CASE SaveAll
  BY <1>5, <1>12 DEF SaveAll
<1>13. CASE Tick
  BY <1>5, <1>13 DEF Tick
<1>14. CASE UNCHANGED vars
  BY <1>5, <1>14 DEF vars
<1> QED
  BY <1>1, <1>2, <1>3, <1>4, <1>5, <1>8, <1>9, <1>10, <1>11, <1>12, <1>13, <1>14 DEF Next

\* Every step keeps the invariant.
LEMMA SafetyStep == IInv /\ [Next]_vars => IInv'
<1> SUFFICES ASSUME IInv, [Next]_vars PROVE IInv'
  OBVIOUS
<1>1. Good(disk)'
  <2>1. \A s \in Store : Good(s) => Good(s)'
    BY Stable, TypeAndFrame DEF IInv
  <2>2. disk \in Store /\ Good(disk) /\ Good(mem)' /\ (disk' = disk \/ disk' = mem')
    BY StepGood, IInvMeansGood DEF IInv, TypeOK
  <2> QED
    BY <2>1, <2>2
<1>2. /\ disk'.devices \subseteq mem'.devices /\ disk'.revoked \subseteq mem'.revoked
      /\ granted' \subseteq disk'.devices
  BY StepGood DEF IInv
<1> QED
  BY <1>1, <1>2, StepGood DEF IInv, Good

\* The inductive invariant holds in every reachable state of the store.
THEOREM PairingSafety == Spec => []IInv
  BY InitIInv, SafetyStep, PTL DEF Spec

\* Every variable keeps its type.
THEOREM TypeCorrect == Spec => []TypeOK
  BY PairingSafety, PTL DEF IInv

\* Active devices plus pending pairings never pass the sum of the two limits
\* less one, so claims exceed AGENT_MAX_DEVICES by less than
\* AGENT_MAX_PENDING_PAIRINGS.
THEOREM CapacityIsBounded == Spec => []CapacityBound
  BY PairingSafety, PTL DEF IInv, CapacityBound

\* No device without an approval given, and a claim made, in time.
THEOREM DevicesWereApproved == Spec => []DeviceWasApproved
<1>1. IInv => DeviceWasApproved
  BY DEF IInv, StoreOK, DeviceWasApproved
<1> QED
  BY <1>1, PairingSafety, PTL

\* A pairing never yields two devices.
THEOREM PairingsYieldOneDevice == Spec => []OneDevicePerPairing
<1>1. IInv => OneDevicePerPairing
  BY DEF IInv, StoreOK, OneDevicePerPairing
<1> QED
  BY <1>1, PairingSafety, PTL

\* A code designates at most one live pairing.
THEOREM CodesAreUnique == Spec => []LiveCodesUnique
  BY PairingSafety, PTL DEF IInv, LiveCodesUnique

\* A credential handed out by the claim that saved its device is never lost.
THEOREM CredentialsAreDurable == Spec => []CredentialDurable
<1>1. IInv => CredentialDurable
  BY DEF IInv, CredentialDurable
<1> QED
  BY <1>1, PairingSafety, PTL

\* Devices and revocations in the state file only grow.
THEOREM SavedDevicesGrow == Spec => SavedDevicesOnlyGrow
<1>1. IInv /\ [Next]_vars =>
        [disk.devices \subseteq disk'.devices /\ disk.revoked \subseteq disk'.revoked]_vars
  BY StepGood DEF IInv
<1> QED
  BY <1>1, PairingSafety, PTL DEF Spec, SavedDevicesOnlyGrow
=============================================================================
