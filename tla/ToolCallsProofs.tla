------------------------------ MODULE ToolCallsProofs ------------------------------
(***************************************************************************)
(* For any calls, links, plans and limits: the slots and the pooled link   *)
(* of the SSH pool, and what the console's revocation of a target means.   *)
(***************************************************************************)
EXTENDS ToolCalls, FiniteSetTheorems, FunctionTheorems, TLAPS

------------------------------------------------------------------------------------
(* The pool as a value *)

Pools == [link   : [Links -> {"none", "dialling", "ready", "ending"}],
          pool   : Links \cup {None},
          active : Nat,
          queue  : Seq(Commands),
          job    : [Commands -> [at : Places, on : Links \cup {None}]]]

Holders(st) == {c \in Commands : InSlot(st.job[c].at)}
Waiters(st) == {c \in Commands : st.job[c].at = "queued"}

\* The queue holds these commands, each once.
QueueHolds(st, S) ==
    /\ S = {st.queue[i] : i \in 1 .. Len(st.queue)}
    /\ \A i, j \in 1 .. Len(st.queue) : st.queue[i] = st.queue[j] => i = j

LinkOK(st) == st.pool # None => st.link[st.pool] = "ready"

\* Only a command that holds a slot uses a link.
LinksHeld(st, S) == \A c \in S : st.job[c].on # None => InSlot(st.job[c].at)

\* The invariant of the pool.
PoolOK(st) ==
    /\ st \in Pools
    /\ IsFiniteSet(Holders(st))
    /\ st.active = Cardinality(Holders(st))
    /\ st.active <= MaxActive
    /\ QueueHolds(st, Waiters(st))
    /\ Waiters(st) # {} => st.active = MaxActive
    /\ LinkOK(st)
    /\ LinksHeld(st, Commands)

\* The pool when command c has been given a slot and has not begun.
MayBegin(st, c) ==
    /\ st \in Pools
    /\ IsFiniteSet(Holders(st) \ {c})
    /\ st.active = Cardinality(Holders(st) \ {c}) + 1
    /\ st.active <= MaxActive
    /\ QueueHolds(st, Waiters(st) \ {c})
    /\ Waiters(st) \ {c} # {} => st.active = MaxActive
    /\ LinkOK(st)
    /\ LinksHeld(st, Commands \ {c})

\* The commands other than those in S are where they were.
Others(st, new, S) == \A d \in Commands \ S : new.job[d] = st.job[d]

\* Put changes the job of one command.
LEMMA PutJob ==
    ASSUME NEW st \in Pools, NEW c \in Commands, NEW at \in Places, NEW l \in Links \cup {None},
           NEW new, new = Put(st, c, at, l)
    PROVE  /\ new \in Pools /\ Others(st, new, {c})
           /\ new.job[c].at = at
           /\ new.link = st.link /\ new.pool = st.pool
           /\ new.active = st.active /\ new.queue = st.queue
  BY DEF Put, Pools, Others

LEMMA PutOn ==
    ASSUME NEW st \in Pools, NEW c \in Commands, NEW at \in Places, NEW l \in Links \cup {None},
           NEW new, new = Put(st, c, at, l)
    PROVE  new.job[c].on = l
  BY DEF Put, Pools

\* The same for the queue and for the number of slots taken.
LEMMA PutQueue ==
    ASSUME NEW st \in Pools, NEW q \in Seq(Commands), NEW new, new = [st EXCEPT !.queue = q]
    PROVE  /\ new \in Pools /\ new.queue = q
           /\ new.link = st.link /\ new.pool = st.pool
           /\ new.active = st.active /\ new.job = st.job
  BY DEF Pools

LEMMA PutActive ==
    ASSUME NEW st \in Pools, NEW n \in Nat, NEW new, new = [st EXCEPT !.active = n]
    PROVE  /\ new \in Pools /\ new.active = n
           /\ new.link = st.link /\ new.pool = st.pool
           /\ new.queue = st.queue /\ new.job = st.job
  BY DEF Pools

\* The fields of a pool.
LEMMA PoolFields ==
    ASSUME NEW st \in Pools
    PROVE  /\ st.link \in [Links -> {"none", "dialling", "ready", "ending"}]
           /\ st.pool \in Links \cup {None}
           /\ st.active \in Nat
           /\ st.queue \in Seq(Commands) /\ Len(st.queue) \in Nat
           /\ \A c \in Commands : st.job[c].at \in Places
  BY DEF Pools

\* A command with a slot begins: with the pooled link, one of its own, or not at all.
LEMMA BeginOK ==
    ASSUME NEW st, NEW c \in Commands, MayBegin(st, c), NEW new \in Begin(st, c)
    PROVE  /\ PoolOK(new)
           /\ Others(st, new, {c})
           /\ new.job[c].at \in {"opening", "dialling", "cut"}
<1>0. /\ st \in Pools /\ st.pool \in Links \cup {None} /\ None \in Links \cup {None}
      /\ LinkOK(st)
  BY PoolFields DEF MayBegin
<1>1. /\ new \in Pools /\ new.active = st.active /\ new.queue = st.queue
      /\ new.pool = st.pool /\ LinkOK(new) /\ Others(st, new, {c})
      /\ new.job[c].at \in {"opening", "dialling", "cut"}
  <2>1. CASE st.pool # None
    <3>1. new = Put(st, c, "opening", st.pool)
      BY <2>1 DEF Begin
    <3>2. "opening" \in Places
      BY DEF Places
    <3>3. /\ new \in Pools /\ new.job[c].at = "opening" /\ Others(st, new, {c})
          /\ new.link = st.link /\ new.pool = st.pool
          /\ new.active = st.active /\ new.queue = st.queue
      BY <1>0, <3>1, <3>2, PutJob
    <3> QED
      BY <1>0, <3>3 DEF LinkOK
  <2>2. CASE st.pool = None /\ new = Put(st, c, "cut", None)
    <3>1. "cut" \in Places /\ new = Put(st, c, "cut", None)
      BY <2>2 DEF Places
    <3>2. /\ st \in Pools /\ "cut" \in Places /\ None \in Links \cup {None}
          /\ new = Put(st, c, "cut", None)
      BY <1>0, <3>1
    <3>3. /\ new \in Pools /\ new.job[c].at = "cut" /\ Others(st, new, {c})
          /\ new.link = st.link /\ new.pool = st.pool
          /\ new.active = st.active /\ new.queue = st.queue
      BY <3>2, PutJob
    <3> QED
      BY <1>0, <3>3 DEF LinkOK
  <2>3. CASE st.pool = None /\ new # Put(st, c, "cut", None)
    <3> DEFINE free == {l \in Links : st.link[l] = "none"}
               l == CHOOSE l \in free : TRUE
               dial == [st EXCEPT !.link = [@ EXCEPT ![l] = "dialling"]]
    <3>1. free # {} /\ new = Put(dial, c, "dialling", l)
      BY <2>3 DEF Begin
    <3>2. l \in Links
      BY <3>1
    <3>3. dial \in Pools /\ dial.job = st.job /\ dial.active = st.active
          /\ dial.queue = st.queue /\ dial.pool = st.pool
      BY <3>2 DEF Pools, MayBegin
    <3> HIDE DEF free
    <3>4. "dialling" \in Places
      BY DEF Places
    <3>5. PICK d, k : /\ d = dial /\ k \in Links \cup {None} /\ d \in Pools
                      /\ new = Put(d, c, "dialling", k)
      BY <3>1, <3>2, <3>3
    <3> HIDE DEF dial, l
    <3>6. /\ new \in Pools /\ new.job[c].at = "dialling" /\ Others(d, new, {c})
          /\ new.pool = d.pool /\ new.active = d.active /\ new.queue = d.queue
      BY <3>4, <3>5, PutJob
    <3> QED
      BY <2>3, <3>3, <3>5, <3>6 DEF LinkOK, Others
  <2> QED
    BY <2>1, <2>2, <2>3
<1>2. Holders(new) = (Holders(st) \ {c}) \cup {c}
  BY <1>1 DEF Holders, InSlot, Others
<1>3. Waiters(new) = Waiters(st) \ {c}
  BY <1>1 DEF Waiters, Others
<1>4. IsFiniteSet(Holders(new)) /\ Cardinality(Holders(new)) = st.active
  BY <1>2, FS_AddElement, FS_CardinalityType DEF MayBegin
<1>5. LinksHeld(new, Commands)
  BY <1>1 DEF MayBegin, LinksHeld, Others, InSlot
<1> QED
  BY <1>1, <1>3, <1>4, <1>5 DEF MayBegin, PoolOK, QueueHolds

\* A command that enters gets a slot or goes to the end of the queue.
LEMMA EnteredOK ==
    ASSUME NEW st, NEW c \in Commands, PoolOK(st), c \notin Holders(st) \cup Waiters(st),
           NEW new \in Entered(st, c)
    PROVE  /\ PoolOK(new)
           /\ Others(st, new, {c})
           /\ new.job[c].at \in {"queued", "opening", "dialling", "cut"}
<1>1. /\ st \in Pools /\ st.queue \in Seq(Commands) /\ Len(st.queue) \in Nat
      /\ st.active \in Nat
  BY PoolFields DEF PoolOK
<1>2. CASE st.active >= MaxActive
  <2> DEFINE put == Put(st, c, "queued", None)
  <2>1. new = [put EXCEPT !.queue = Append(@, c)]
    BY <1>2 DEF Entered
  <2>2. /\ put \in Pools /\ put.job[c].at = "queued" /\ put.job[c].on = None
        /\ Others(st, put, {c}) /\ put.link = st.link /\ put.pool = st.pool
        /\ put.active = st.active /\ put.queue = st.queue
    <3>1. "queued" \in Places /\ None \in Links \cup {None}
      BY DEF Places
    <3>2. put.job[c].on = None
      BY <1>1, <3>1, PutOn
    <3>3. /\ put \in Pools /\ put.job[c].at = "queued" /\ Others(st, put, {c})
          /\ put.link = st.link /\ put.pool = st.pool
          /\ put.active = st.active /\ put.queue = st.queue
      BY <1>1, <3>1, PutJob
    <3> QED
      BY <3>2, <3>3
  <2> HIDE DEF put
  <2>3. /\ new \in Pools /\ new.queue = Append(st.queue, c) /\ new.active = st.active
        /\ new.job = put.job /\ new.link = st.link /\ new.pool = st.pool
    <3>0. Append(put.queue, c) \in Seq(Commands)
      BY <1>1, <2>2
    <3>1. PICK q \in Seq(Commands) : q = Append(put.queue, c)
      BY <3>0, Zenon
    <3>2. put \in Pools /\ new = [put EXCEPT !.queue = q]
      BY <2>1, <2>2, <3>1
    <3>3. /\ new \in Pools /\ new.queue = q /\ new.link = put.link
          /\ new.pool = put.pool /\ new.active = put.active /\ new.job = put.job
      BY <3>2, PutQueue
    <3> QED
      BY <2>2, <3>1, <3>3
  <2>4. Holders(new) = Holders(st) /\ Waiters(new) = Waiters(st) \cup {c}
    BY <2>2, <2>3 DEF Holders, Waiters, Others, InSlot
  <2>5. QueueHolds(new, Waiters(new))
    <3>1. /\ Len(new.queue) = Len(st.queue) + 1 /\ Len(st.queue) \in Nat
          /\ \A i \in 1 .. Len(st.queue) : new.queue[i] = st.queue[i]
          /\ new.queue[Len(st.queue) + 1] = c
      BY <1>1, <2>3
    <3>2. \A i \in 1 .. Len(st.queue) : st.queue[i] # c
      BY DEF PoolOK, QueueHolds
    <3>3. QueueHolds(st, Waiters(st))
      BY DEF PoolOK
    <3>4. Waiters(new) = {new.queue[i] : i \in 1 .. Len(new.queue)}
      BY <2>4, <3>1, <3>3 DEF QueueHolds
    <3>5. \A i, j \in 1 .. Len(new.queue) : new.queue[i] = new.queue[j] => i = j
      <4> SUFFICES ASSUME NEW i \in 1 .. Len(new.queue), NEW j \in 1 .. Len(new.queue),
                          new.queue[i] = new.queue[j]
                   PROVE  i = j
        OBVIOUS
      <4>1. CASE i \in 1 .. Len(st.queue) /\ j \in 1 .. Len(st.queue)
        <5>1. st.queue[i] = st.queue[j]
          BY <3>1, <4>1
        <5> QED
          BY <3>3, <4>1, <5>1 DEF QueueHolds
      <4>2. CASE i \notin 1 .. Len(st.queue)
        <5>1. i = Len(st.queue) + 1
          BY <3>1, <4>2
        <5>2. new.queue[j] = c
          BY <3>1, <5>1
        <5> QED
          BY <3>1, <3>2, <5>1, <5>2
      <4>3. CASE j \notin 1 .. Len(st.queue)
        <5>1. j = Len(st.queue) + 1
          BY <3>1, <4>3
        <5>2. new.queue[i] = c
          BY <3>1, <5>1
        <5> QED
          BY <3>1, <3>2, <5>1, <5>2
      <4> QED
        BY <4>1, <4>2, <4>3
    <3> QED
      BY <3>4, <3>5 DEF QueueHolds
  <2>6. st.active = MaxActive
    BY <1>1, <1>2, SshPoolAssumption DEF PoolOK
  <2>7. LinkOK(new) /\ LinksHeld(new, Commands)
    BY <2>2, <2>3 DEF PoolOK, LinkOK, LinksHeld, Others
  <2>8. Others(st, new, {c}) /\ new.job[c].at = "queued"
    BY <2>2, <2>3 DEF Others
  <2> QED
    BY <2>3, <2>4, <2>5, <2>6, <2>7, <2>8 DEF PoolOK
<1>3. CASE ~(st.active >= MaxActive)
  <2> DEFINE got == [st EXCEPT !.active = @ + 1]
  <2>1. new \in Begin(got, c)
    BY <1>3 DEF Entered
  <2>2. /\ got \in Pools /\ got.active = st.active + 1 /\ got.job = st.job
        /\ got.queue = st.queue /\ got.link = st.link /\ got.pool = st.pool
    <3>1. st.active + 1 \in Nat /\ got = [st EXCEPT !.active = st.active + 1]
      BY <1>1
    <3> HIDE DEF got
    <3> QED
      BY <1>1, <3>1, PutActive
  <2> HIDE DEF got
  <2>3. Holders(got) \ {c} = Holders(st) /\ Waiters(got) \ {c} = Waiters(st)
    BY <2>2 DEF Holders, Waiters
  <2>4. Waiters(st) = {} /\ st.active + 1 <= MaxActive
    BY <1>1, <1>3, SshPoolAssumption DEF PoolOK
  <2>5. MayBegin(got, c)
    <3>1. LinkOK(got) /\ QueueHolds(got, Waiters(st)) /\ LinksHeld(got, Commands \ {c})
      BY <2>2 DEF PoolOK, LinkOK, QueueHolds, LinksHeld
    <3> QED
      BY <2>2, <2>3, <2>4, <3>1 DEF MayBegin, PoolOK
  <2>6. PoolOK(new) /\ Others(got, new, {c}) /\ new.job[c].at \in {"opening", "dialling", "cut"}
    BY <2>1, <2>5, BeginOK
  <2> QED
    BY <2>2, <2>6 DEF Others
<1> QED
  BY <1>2, <1>3

\* A command that leaves gives its slot to the head of the queue, or back.
LEMMA LeftOK ==
    ASSUME NEW st, NEW c \in Commands, PoolOK(st), c \in Holders(st),
           NEW at \in {"resolved", "rejected"}, NEW new \in Left(st, c, at)
    PROVE  /\ PoolOK(new)
           /\ new.job[c].at = at
           /\ \A d \in Commands \ {c} :
                 \/ new.job[d] = st.job[d]
                 \/ st.job[d].at = "queued" /\ new.job[d].at \in {"opening", "dialling", "cut"}
<1> DEFINE back == Put(st, c, at, None)
<1>1. /\ st \in Pools /\ st.queue \in Seq(Commands) /\ Len(st.queue) \in Nat
      /\ st.active \in Nat
  BY PoolFields DEF PoolOK
<1>2. /\ back \in Pools /\ back.job[c].at = at /\ back.job[c].on = None
      /\ Others(st, back, {c}) /\ back.link = st.link /\ back.pool = st.pool
      /\ back.active = st.active /\ back.queue = st.queue
  <2>1. at \in Places /\ None \in Links \cup {None}
    BY DEF Places
  <2>2. back.job[c].on = None
    BY <1>1, <2>1, PutOn
  <2>3. /\ back \in Pools /\ back.job[c].at = at
        /\ Others(st, back, {c}) /\ back.link = st.link /\ back.pool = st.pool
        /\ back.active = st.active /\ back.queue = st.queue
    BY <1>1, <2>1, PutJob
  <2> QED
    BY <2>2, <2>3
<1>3. /\ IF st.queue = << >> THEN new = [back EXCEPT !.active = @ - 1]
         ELSE new \in Begin([back EXCEPT !.queue = Tail(@)], Head(st.queue))
  BY DEF Left
<1> HIDE DEF back
<1>4. Holders(back) = Holders(st) \ {c} /\ Waiters(back) = Waiters(st)
  BY <1>2 DEF Holders, Waiters, Others, InSlot
<1>5. /\ IsFiniteSet(Holders(back)) /\ Cardinality(Holders(back)) = st.active - 1
      /\ Cardinality(Holders(back)) \in Nat
  BY <1>4, FS_RemoveElement, FS_CardinalityType DEF PoolOK
<1>0. LinksHeld(back, Commands)
  BY <1>2 DEF PoolOK, LinksHeld, Others
<1>6. CASE st.queue = << >>
  <2>1. /\ new.active = st.active - 1 /\ new.job = back.job /\ new.queue = st.queue
        /\ new.link = st.link /\ new.pool = st.pool /\ new \in Pools
    <3>1. /\ st.active - 1 \in Nat /\ back \in Pools
          /\ new = [back EXCEPT !.active = st.active - 1]
      BY <1>1, <1>2, <1>3, <1>5, <1>6
    <3>2. /\ new \in Pools /\ new.active = st.active - 1 /\ new.link = back.link
          /\ new.pool = back.pool /\ new.queue = back.queue /\ new.job = back.job
      BY <3>1, PutActive
    <3> QED
      BY <1>2, <3>2
  <2>2. Waiters(st) = {}
    BY <1>6 DEF PoolOK, QueueHolds
  <2>3. Holders(new) = Holders(back) /\ Waiters(new) = Waiters(st)
    BY <1>4, <2>1 DEF Holders, Waiters
  <2> QED
    <3>1. LinkOK(new) /\ QueueHolds(new, Waiters(new)) /\ LinksHeld(new, Commands)
      BY <1>0, <2>1, <2>3 DEF PoolOK, LinkOK, QueueHolds, LinksHeld
    <3>2. new.active <= MaxActive
      BY <1>1, <2>1, SshPoolAssumption DEF PoolOK
    <3>3. PoolOK(new)
      BY <1>5, <2>1, <2>2, <2>3, <3>1, <3>2 DEF PoolOK
    <3> QED
      BY <1>2, <2>1, <3>3 DEF Others
<1>7. CASE st.queue # << >>
  <2> DEFINE next == [back EXCEPT !.queue = Tail(@)]
             h == Head(st.queue)
  <2>1. h \in Commands /\ h = st.queue[1] /\ 1 \in 1 .. Len(st.queue)
    BY <1>1, <1>7
  <2>2. /\ next \in Pools /\ next.queue = Tail(st.queue) /\ next.job = back.job
        /\ next.active = st.active /\ next.link = st.link /\ next.pool = st.pool
    <3>0. Tail(st.queue) \in Seq(Commands)
      BY <1>1, <1>7
    <3>1. PICK q \in Seq(Commands) : q = Tail(st.queue)
      BY <3>0, Zenon
    <3>2. back \in Pools /\ next = [back EXCEPT !.queue = q]
      BY <1>2, <3>1
    <3> HIDE DEF next
    <3>3. /\ next \in Pools /\ next.queue = q /\ next.job = back.job
          /\ next.active = back.active /\ next.link = back.link /\ next.pool = back.pool
      BY <3>2, PutQueue
    <3> QED
      BY <1>2, <3>1, <3>3
  <2>3. new \in Begin(next, h)
    BY <1>3, <1>7
  <2> HIDE DEF next, h
  <2>4. h \in Waiters(st) /\ h # c
    BY <2>1 DEF PoolOK, QueueHolds, Waiters, Holders, InSlot
  <2>5. Holders(next) \ {h} = Holders(back) /\ Waiters(next) \ {h} = Waiters(st) \ {h}
    BY <1>4, <2>2, <2>4 DEF Holders, Waiters, InSlot
  <2>6. QueueHolds(next, Waiters(next) \ {h})
    <3>1. /\ Len(next.queue) = Len(st.queue) - 1
          /\ \A i \in 1 .. Len(next.queue) : next.queue[i] = st.queue[i + 1]
      BY <1>1, <1>7, <2>2
    <3>2. \A i \in 1 .. Len(next.queue) : next.queue[i] # h
      BY <1>1, <2>1, <3>1 DEF PoolOK, QueueHolds
    <3>3. \A i \in 1 .. Len(st.queue) : st.queue[i] # h =>
             i - 1 \in 1 .. Len(next.queue) /\ next.queue[i - 1] = st.queue[i]
      BY <1>1, <2>1, <3>1
    <3>4. QueueHolds(st, Waiters(st))
      BY DEF PoolOK
    <3>5. \A d \in Waiters(st) \ {h} : d \in {next.queue[i] : i \in 1 .. Len(next.queue)}
      BY <3>3, <3>4 DEF QueueHolds
    <3>6. \A i \in 1 .. Len(next.queue) : next.queue[i] \in Waiters(st) \ {h}
      BY <1>1, <3>1, <3>2, <3>4 DEF QueueHolds
    <3>7. Waiters(next) \ {h} = {next.queue[i] : i \in 1 .. Len(next.queue)}
      BY <2>5, <3>5, <3>6
    <3>8. \A i, j \in 1 .. Len(next.queue) : next.queue[i] = next.queue[j] => i = j
      <4> SUFFICES ASSUME NEW i \in 1 .. Len(next.queue), NEW j \in 1 .. Len(next.queue),
                          next.queue[i] = next.queue[j]
                   PROVE  i = j
        OBVIOUS
      <4>1. /\ i + 1 \in 1 .. Len(st.queue) /\ j + 1 \in 1 .. Len(st.queue)
            /\ st.queue[i + 1] = st.queue[j + 1]
        BY <1>1, <3>1
      <4>2. i + 1 = j + 1
        BY <3>4, <4>1 DEF QueueHolds
      <4> QED
        BY <4>2
    <3> QED
      BY <3>7, <3>8 DEF QueueHolds
  <2>7. Waiters(st) # {} /\ st.active = MaxActive
    BY <2>4 DEF PoolOK
  <2>8. MayBegin(next, h)
    <3>1. LinkOK(next) /\ LinksHeld(next, Commands \ {h}) /\ st.active <= MaxActive
      BY <1>0, <2>2 DEF PoolOK, LinkOK, LinksHeld
    <3>2. /\ IsFiniteSet(Holders(next) \ {h})
          /\ next.active = Cardinality(Holders(next) \ {h}) + 1
      <4>1. Holders(next) \ {h} = Holders(back) /\ next.active = st.active
        BY <2>2, <2>5
      <4>2. st.active = Cardinality(Holders(back)) + 1
        BY <1>1, <1>5
      <4> QED
        BY <1>5, <4>1, <4>2
    <3> QED
      BY <2>2, <2>6, <2>7, <3>1, <3>2 DEF MayBegin
  <2> QED
    BY <1>2, <2>1, <2>2, <2>3, <2>4, <2>8, BeginOK DEF Others, Waiters
<1> QED
  BY <1>6, <1>7

\* A step that gives no slot away, takes none and leaves the queue alone.
Kept(st, new) ==
    /\ new \in Pools
    /\ new.active = st.active
    /\ new.queue = st.queue
    /\ \A c \in Commands : /\ InSlot(new.job[c].at) <=> InSlot(st.job[c].at)
                           /\ new.job[c].at = "queued" <=> st.job[c].at = "queued"
    /\ LinkOK(new)
    /\ LinksHeld(new, Commands)

LEMMA SameSlots ==
    ASSUME NEW st, NEW new, PoolOK(st), Kept(st, new)
    PROVE  PoolOK(new)
<1>1. Holders(new) = Holders(st)
  BY DEF Kept, Holders
<1>2. Waiters(new) = Waiters(st)
  BY DEF Kept, Waiters
<1> QED
  BY <1>1, <1>2 DEF Kept, PoolOK, QueueHolds

\* Closing the pool ends its link, and every link it had is one of a command.
LEMMA ClosedOK ==
    ASSUME NEW st, PoolOK(st), NEW new, new = PoolClosed(st)
    PROVE  PoolOK(new) /\ new.job = st.job
<1>1. CASE st.pool = None
  BY <1>1 DEF PoolClosed
<1>2. CASE st.pool # None
  <2>1. st \in Pools /\ st.pool \in Links
    BY <1>2, PoolFields DEF PoolOK
  <2>2. /\ new \in Pools /\ new.active = st.active /\ new.queue = st.queue
        /\ new.job = st.job /\ new.pool = None
    BY <1>2, <2>1 DEF PoolClosed, Pools
  <2>3. LinkOK(new) /\ LinksHeld(new, Commands)
    BY <2>2 DEF PoolOK, LinkOK, LinksHeld
  <2>4. Kept(st, new)
    BY <2>2, <2>3 DEF Kept
  <2> QED
    BY <2>2, <2>4, SameSlots
<1> QED
  BY <1>1, <1>2

\* The pool of a process that has just started.
LEMMA EmptyOK == PoolOK(EmptyPool) /\ \A c \in Commands : EmptyPool.job[c].at = "out"
<1>1. /\ EmptyPool \in Pools /\ EmptyPool.active = 0 /\ EmptyPool.queue = << >>
      /\ EmptyPool.pool = None /\ \A c \in Commands : EmptyPool.job[c] = NoJob
  BY DEF EmptyPool, Pools, NoJob, Places
<1>2. Holders(EmptyPool) = {} /\ Waiters(EmptyPool) = {}
  BY <1>1 DEF Holders, Waiters, NoJob, InSlot
<1>3. Cardinality({}) = 0 /\ IsFiniteSet({})
  BY FS_EmptySet
<1>4. LinkOK(EmptyPool) /\ LinksHeld(EmptyPool, Commands) /\ QueueHolds(EmptyPool, {})
  BY <1>1 DEF LinkOK, LinksHeld, QueueHolds, NoJob
<1> QED
  BY <1>1, <1>2, <1>3, <1>4, SshPoolAssumption DEF PoolOK, NoJob

------------------------------------------------------------------------------------
(* The events of the pool *)

\* A command whose command was started, at one time or another.
Begun == {"running", "closing", "severed", "resolved"}

\* Where the commands may go on an event of the pool.
Moves(st, new) ==
    \A c \in Commands :
        /\ new.job[c].at = "out" <=> st.job[c].at = "out"
        /\ new.job[c].at \in Begun => st.job[c].at \in Begun \/ new.job[c].at = "running"

Jobs == [Commands -> [at : Places, on : Links \cup {None}]]

\* A link changes, and with it the entry of the pool and the jobs.
Relink(st, l, p, up, job) ==
    [[st EXCEPT !.pool = p] EXCEPT !.link = [@ EXCEPT ![l] = up], !.job = job]

Relinked(st, l, p, up, job, new) ==
    /\ new \in Pools /\ new.active = st.active /\ new.queue = st.queue
    /\ new.pool = p /\ new.link[l] = up /\ new.job = job
    /\ \A k \in Links \ {l} : new.link[k] = st.link[k]

LEMMA Linked ==
    ASSUME NEW st \in Pools, NEW l \in Links, NEW p \in Links \cup {None},
           NEW up \in {"none", "dialling", "ready", "ending"}, NEW job \in Jobs,
           NEW new, new = Relink(st, l, p, up, job)
    PROVE  Relinked(st, l, p, up, job, new)
  BY DEF Pools, Relink, Relinked, Jobs

\* The jobs after some of them failed or went on.
JobsWith(st, S, at, l) ==
    [c \in Commands |-> IF c \in S THEN [at |-> at, on |-> l] ELSE st.job[c]]

LEMMA JobsChange ==
    ASSUME NEW st \in Pools, NEW S \in SUBSET Commands, NEW at \in Places,
           NEW l \in Links \cup {None}
    PROVE  /\ JobsWith(st, S, at, l) \in Jobs
           /\ \A c \in S : /\ JobsWith(st, S, at, l)[c].at = at
                           /\ JobsWith(st, S, at, l)[c].on = l
           /\ \A c \in Commands \ S : JobsWith(st, S, at, l)[c] = st.job[c]
  BY DEF Pools, Jobs, JobsWith

\* The commands that wait for a link to be up.
Dialling(l) == {c \in Commands : ssh.job[c] = [at |-> "dialling", on |-> l]}

\* What happens to a link keeps every slot where it is.
LEMMA LinkEventOK == PoolOK(ssh) /\ LinkEvent => PoolOK(ssh') /\ Moves(ssh, ssh')
<1> SUFFICES ASSUME PoolOK(ssh), NEW l \in Links,
                    Ready(l) \/ ConnectTimeout(l) \/ LinkError(l) \/ LinkClose(l)
             PROVE  PoolOK(ssh') /\ Moves(ssh, ssh')
  BY DEF LinkEvent
<1>1. /\ ssh \in Pools /\ l # None /\ LinkOK(ssh) /\ LinksHeld(ssh, Commands)
      /\ ssh.link \in [Links -> {"none", "dialling", "ready", "ending"}]
      /\ ssh.pool \in Links \cup {None}
  BY SshPoolAssumption, PoolFields DEF PoolOK
<1>2. Kept(ssh, ssh') /\ Moves(ssh, ssh')
  <2>1. CASE Ready(l)
    <3> DEFINE job == JobsWith(ssh, Dialling(l), "opening", l)
    <3>1. job \in Jobs /\ (\A c \in Dialling(l) : job[c].at = "opening" /\ job[c].on = l)
          /\ \A c \in Commands \ Dialling(l) : job[c] = ssh.job[c]
      <4>1. /\ Dialling(l) \in SUBSET Commands /\ "opening" \in Places /\ "cut" \in Places
            /\ l \in Links \cup {None} /\ None \in Links \cup {None}
        BY DEF Dialling, Places
      <4> QED
        BY <1>1, <4>1, JobsChange
    <3>2. ssh' = Relink(ssh, l, l, "ready", job)
      BY <2>1 DEF Ready, WithPool, Relink, JobsWith, Dialling
    <3> HIDE DEF job
    <3>3. Relinked(ssh, l, l, "ready", job, ssh')
      BY <1>1, <3>1, <3>2, Linked
    <3> QED
      BY <1>1, <3>1, <3>3 DEF Relinked, Dialling, Kept, LinkOK, LinksHeld, Moves, InSlot, Begun
  <2>2. CASE ConnectTimeout(l)
    <3> DEFINE job == JobsWith(ssh, Dialling(l), "cut", None)
    <3>1. job \in Jobs /\ (\A c \in Dialling(l) : job[c].at = "cut" /\ job[c].on = None)
          /\ \A c \in Commands \ Dialling(l) : job[c] = ssh.job[c]
      <4>1. /\ Dialling(l) \in SUBSET Commands /\ "opening" \in Places /\ "cut" \in Places
            /\ l \in Links \cup {None} /\ None \in Links \cup {None}
        BY DEF Dialling, Places
      <4> QED
        BY <1>1, <4>1, JobsChange
    <3>2. ssh' = Relink(ssh, l, ssh.pool, "ending", job)
      BY <1>1, <2>2 DEF ConnectTimeout, WithPool, Relink, JobsWith, Dialling
    <3> HIDE DEF job
    <3>3. Relinked(ssh, l, ssh.pool, "ending", job, ssh')
      BY <1>1, <3>1, <3>2, Linked
    <3> QED
      BY <1>1, <2>2, <3>1, <3>3 DEF ConnectTimeout, Relinked, Dialling, Kept, LinkOK, LinksHeld, Moves, InSlot, Begun
  <2>3. CASE LinkError(l)
    <3> DEFINE job == JobsWith(ssh, Dialling(l), "cut", None)
    <3>1. job \in Jobs /\ (\A c \in Dialling(l) : job[c].at = "cut" /\ job[c].on = None)
          /\ \A c \in Commands \ Dialling(l) : job[c] = ssh.job[c]
      <4>1. /\ Dialling(l) \in SUBSET Commands /\ "opening" \in Places /\ "cut" \in Places
            /\ l \in Links \cup {None} /\ None \in Links \cup {None}
        BY DEF Dialling, Places
      <4> QED
        BY <1>1, <4>1, JobsChange
    <3>2. ssh' = Relink(ssh, l, None, "ending", job)
      BY <1>1, <2>3 DEF LinkError, WithPool, Relink, JobsWith, Dialling
    <3> HIDE DEF job
    <3>3. Relinked(ssh, l, None, "ending", job, ssh')
      BY <1>1, <3>1, <3>2, Linked
    <3> QED
      BY <1>1, <2>3, <3>1, <3>3 DEF LinkError, Relinked, Dialling, Kept, LinkOK, LinksHeld, Moves, InSlot, Begun
  <2>4. CASE LinkClose(l)
    <3>1. /\ ssh' \in Pools /\ ssh'.active = ssh.active /\ ssh'.queue = ssh.queue
          /\ ssh'.pool = None
          /\ \A c \in Commands :
                \/ ssh'.job[c] = ssh.job[c]
                \/ /\ ssh.job[c].on # None
                   /\ \/ ssh.job[c].at = "running" /\ ssh'.job[c].at = "severed"
                      \/ ssh'.job[c].at = "cut"
      BY <1>1, <2>4 DEF LinkClose, WithPool, Pools, Places, At, On
    <3> QED
      BY <1>1, <3>1 DEF Kept, LinkOK, LinksHeld, Moves, InSlot, Begun
  <2> QED
    BY <2>1, <2>2, <2>3, <2>4
<1> QED
  BY <1>1, <1>2, SameSlots

\* A command that goes on in its slot.
LEMMA InSlotOK ==
    ASSUME PoolOK(ssh), NEW c \in Commands, InSlot(At(c)), NEW at \in Places,
           at = "running" \/ (at = "closing" /\ At(c) = "running"),
           ssh' = Put(ssh, c, at, On(c))
    PROVE  PoolOK(ssh') /\ Moves(ssh, ssh')
<1>1. PICK st, new, l : st = ssh /\ new = ssh' /\ l = On(c)
  OBVIOUS
<1>2. /\ ssh' \in Pools /\ Others(ssh, ssh', {c}) /\ ssh'.job[c].at = at
      /\ ssh'.link = ssh.link /\ ssh'.pool = ssh.pool
      /\ ssh'.active = ssh.active /\ ssh'.queue = ssh.queue
  <2>1. st \in Pools /\ at \in Places /\ l \in Links \cup {None} /\ new = Put(st, c, at, l)
    BY <1>1 DEF PoolOK, Pools, Places, On
  <2>2. /\ new \in Pools /\ Others(st, new, {c}) /\ new.job[c].at = at
        /\ new.link = st.link /\ new.pool = st.pool
        /\ new.active = st.active /\ new.queue = st.queue
    BY <2>1, PutJob
  <2> QED
    BY <1>1, <2>2
<1>3. LinkOK(ssh') /\ LinksHeld(ssh', Commands)
  BY <1>2 DEF PoolOK, LinkOK, LinksHeld, Others, InSlot
<1>4. Kept(ssh, ssh')
  BY <1>2, <1>3 DEF Kept, Others, InSlot, At
<1>5. Moves(ssh, ssh')
  BY <1>2 DEF Moves, Others, Begun, At, InSlot
<1> QED
  BY <1>4, <1>5, SameSlots

\* What happens to a command keeps the slots, and one that resolves was started.
LEMMA JobEventOK ==
    ASSUME PoolOK(ssh), NEW c \in Commands, JobEvent(c)
    PROVE  PoolOK(ssh') /\ Moves(ssh, ssh')
<1>1. CASE Open(c)
  <2>1. /\ InSlot(At(c)) /\ "running" \in Places /\ ssh' = Put(ssh, c, "running", On(c))
    BY <1>1 DEF Open, InSlot, Places
  <2> QED
    BY <2>1, InSlotOK
<1>2. CASE CommandTimeout(c)
  <2>1. /\ InSlot(At(c)) /\ "closing" \in Places /\ At(c) = "running"
        /\ ssh' = Put(ssh, c, "closing", On(c))
    BY <1>2 DEF CommandTimeout, InSlot, Places
  <2> QED
    BY <2>1, InSlotOK
<1>3. ASSUME NEW at \in {"resolved", "rejected"}, ssh' \in Left(ssh, c, at), c \in Holders(ssh),
             at = "resolved" => At(c) \in Begun
      PROVE  PoolOK(ssh') /\ Moves(ssh, ssh')
  <2>1. /\ PoolOK(ssh') /\ ssh'.job[c].at = at
        /\ \A d \in Commands \ {c} :
              \/ ssh'.job[d] = ssh.job[d]
              \/ ssh.job[d].at = "queued" /\ ssh'.job[d].at \in {"opening", "dialling", "cut"}
    BY <1>3, LeftOK
  <2> QED
    BY <1>3, <2>1 DEF Moves, Begun, Holders, InSlot, At
<1>4. c \in Holders(ssh) <=> InSlot(At(c))
  BY DEF Holders, At
<1>5. CASE OpenRefused(c) \/ CommandEnds(c) \/ Reject(c) \/ Severed(c)
  BY <1>3, <1>4, <1>5 DEF OpenRefused, CommandEnds, Reject, Severed, InSlot, Begun
<1> QED
  BY <1>1, <1>2, <1>5 DEF JobEvent

LEMMA SshEventOK == PoolOK(ssh) /\ SshEvent => PoolOK(ssh') /\ Moves(ssh, ssh')
<1>1. ASSUME PoolOK(ssh), Sweep PROVE PoolOK(ssh') /\ Moves(ssh, ssh')
  BY <1>1, ClosedOK DEF Sweep, Moves
<1> QED
  BY <1>1, LinkEventOK, JobEventOK DEF SshEvent

------------------------------------------------------------------------------------
(* The console's revocation *)

\* RevokedStaysOff: after an answered revocation the target is off in memory and
\* on disk until it is enabled, over failed writes and crashes (store.ts:241-246).
THEOREM RevocationHolds == Spec => []RevokedStaysOff
<1> DEFINE TypedOff == RevokedStaysOff /\ control \in [mem : BOOLEAN, disk : BOOLEAN]
<1>1. Init => TypedOff
  BY DEF Init, RevokedStaysOff
<1>2. TypedOff /\ [Next]_vars => TypedOff'
  <2> SUFFICES ASSUME TypedOff, [Next]_vars PROVE TypedOff'
    OBVIOUS
  <2>1. ASSUME NEW c \in Callers, NEW answer, Counted(c, answer)
        PROVE  (control' = control) \/ control' = [control EXCEPT !.disk = control.mem]
    BY <2>1 DEF Counted, Written, NotWritten
  <2>2. CASE \E c \in Callers : AnswerAtOnce(c) \/ Refused(c) \/ Finish(c)
    <3>1. /\ told' = told
          /\ (control' = control) \/ control' = [control EXCEPT !.disk = control.mem]
      BY <2>1, <2>2 DEF AnswerAtOnce, Refused, Finish
    <3> QED
      BY <3>1 DEF RevokedStaysOff
  <2>3. CASE Crash \/ \E c \in Callers : ProbeFinish(c)
    <3>1. /\ told' = told
          /\ \/ control' = [control EXCEPT !.disk = control.mem]
             \/ control' = [control EXCEPT !.mem = control.disk]
      BY <2>3 DEF Crash, ProbeFinish, Restarted, Written
    <3> QED
      BY <3>1 DEF RevokedStaysOff
  <2>4. CASE Revoke
    <3>1. \/ control' = [mem |-> FALSE, disk |-> FALSE]
          \/ control' = [control EXCEPT !.mem = FALSE] /\ told' = told
      BY <2>4 DEF Revoke, SetTargetEnabled
    <3>2. /\ control' \in [mem : BOOLEAN, disk : BOOLEAN] /\ ~control'.mem
          /\ \/ ~control'.disk
             \/ control'.disk = control.disk /\ told' = told
      <4>1. CASE control' = [mem |-> FALSE, disk |-> FALSE]
        BY <4>1
      <4>2. CASE control' = [control EXCEPT !.mem = FALSE] /\ told' = told
        <5>1. control' = [mem |-> FALSE, disk |-> control.disk]
          BY <4>2
        <5> QED
          BY <4>2, <5>1
      <4> QED
        BY <3>1, <4>1, <4>2
    <3> QED
      BY <3>2 DEF RevokedStaysOff
  <2>5. CASE Enable
    <3>1. /\ told' = FALSE
          /\ \/ control' = [mem |-> TRUE, disk |-> TRUE]
             \/ control' = [control EXCEPT !.mem = TRUE]
      BY <2>5 DEF Enable, SetTargetEnabled
    <3>2. ~told' /\ control' \in [mem : BOOLEAN, disk : BOOLEAN]
      <4>1. CASE control' = [mem |-> TRUE, disk |-> TRUE]
        BY <3>1, <4>1
      <4>2. CASE control' = [control EXCEPT !.mem = TRUE]
        <5>1. control' = [mem |-> TRUE, disk |-> control.disk]
          BY <4>2
        <5> QED
          BY <3>1, <5>1
      <4> QED
        BY <3>1, <4>1, <4>2
    <3> QED
      BY <3>2 DEF RevokedStaysOff
  <2>6. CASE \/ Ssh \/ Http \/ UNCHANGED vars
             \/ \E c \in Callers : StartSsh(c) \/ StartPortainer(c) \/ NextRound(c)
    <3>1. told' = told /\ control' = control
      BY <2>6 DEF Ssh, Http, vars, StartSsh, StartPortainer, NextRound, StartRound
    <3> QED
      BY <3>1 DEF RevokedStaysOff
  <2> QED
    BY <2>2, <2>3, <2>4, <2>5, <2>6 DEF Next
<1>3. TypedOff => RevokedStaysOff
  OBVIOUS
<1> QED
  BY <1>1, <1>2, <1>3, PTL DEF Spec

------------------------------------------------------------------------------------
(* The requests to Portainer *)

Tokens == {NoKey, "old", "new"}
Steps == {"look", "file", "change"}

HttpCall == [at : {"out", "reading", "waiting", "ok", "denied", "failed"}, step : Steps,
             order : Order, saw : Env, file : Files]

Msg == [by : Callers, step : Steps, order : Order, saw : Env, file : Files, token : Tokens]

\* No request of caller c is on the wire, and Portainer changed nothing for it.
Clean(c, w, ap) == c \notin ap /\ \A m \in w : m.by # c

\* What caller c is at fits the wire and what Portainer did.
CallerOK(h, w, ap, c) ==
    /\ h \in HttpCall
    /\ \A m \in w : m.by = c => m.order = h.order
    /\ h.at \in {"out", "reading", "denied"} => Clean(c, w, ap)
    /\ h.at = "waiting" => c \notin ap /\ \A m, n \in w : m.by = c /\ n.by = c => m = n
    /\ h.at = "ok" /\ h.order.kind # "read" => c \in ap
    /\ h.at = "reading" /\ h.step # "look" => h.order.kind # "read"

MsgOK(m) == m \in Msg /\ (m.step # "look" => m.order.kind # "read")

HttpInv ==
    /\ stacks \in [Stacks -> Stack]
    /\ key \in [cached : Tokens, file : {"old", "new"}, good : {"old", "new"}]
    /\ http \in [Callers -> HttpCall]
    /\ \A m \in wire : MsgOK(m)
    /\ \A c \in Callers : CallerOK(http[c], wire, applied, c)

\* What a step leaves of the calls that are not in S: an order stands, and
\* nothing starts again for a call that is back.
Resting(c, S) ==
    c \notin S =>
        /\ http'[c].at = "out" <=> http[c].at = "out"
        /\ http'[c].order = http[c].order
        /\ http[c].at \notin {"reading", "waiting"} =>
              http'[c] = http[c] /\ (Clean(c, wire, applied) => Clean(c, wire', applied'))

HttpStep(S) ==
    /\ HttpInv'
    /\ applied \subseteq applied'
    /\ \A c \in Callers : Resting(c, S)

\* The rest of Portainer's state after a step of one call.
Typed ==
    /\ stacks' \in [Stacks -> Stack]
    /\ key' \in [cached : Tokens, file : {"old", "new"}, good : {"old", "new"}]

LEMMA HttpFields ==
    ASSUME NEW h \in HttpCall
    PROVE  /\ h.at \in {"out", "reading", "waiting", "ok", "denied", "failed"}
           /\ h.step \in Steps /\ h.order \in Order /\ h.saw \in Env /\ h.file \in Files
  BY DEF HttpCall

LEMMA MsgFields ==
    ASSUME NEW m, MsgOK(m)
    PROVE  /\ m.by \in Callers /\ m.step \in Steps /\ m.order \in Order
           /\ m.saw \in Env /\ m.file \in Files
           /\ m.step # "look" => m.order.kind # "read"
  BY DEF MsgOK, Msg

LEMMA MessageOK ==
    ASSUME NEW c \in Callers, NEW h \in HttpCall, NEW token \in Tokens,
           h.step # "look" => h.order.kind # "read"
    PROVE  /\ MsgOK(Message(c, h, token))
           /\ Message(c, h, token).by = c
           /\ Message(c, h, token).order = h.order
  BY HttpFields DEF MsgOK, Msg, Message

IdleBack(at, o) == [Idle EXCEPT !.at = at, !.order = o]

LEMMA IdleBackOK ==
    ASSUME NEW at \in {"ok", "denied", "failed"}, NEW o \in Order
    PROVE  /\ IdleBack(at, o) \in HttpCall
           /\ IdleBack(at, o).at = at
           /\ IdleBack(at, o).order = o
<1>1. SomeOrder \in Order /\ SomeFile \in Files /\ NoEnv \in Env
  BY PortainerAssumption DEF SomeOrder, SomeFile, NoEnv, Env
<1> DEFINE k == [Idle EXCEPT !.at = at]
<1>2. k = [at |-> at, step |-> "look", order |-> SomeOrder, saw |-> NoEnv, file |-> SomeFile]
  BY DEF Idle
<1>3. IdleBack(at, o) = [k EXCEPT !.order = o]
  BY DEF IdleBack
<1> HIDE DEF k
<1>4. IdleBack(at, o) = [at |-> at, step |-> "look", order |-> o, saw |-> NoEnv, file |-> SomeFile]
  BY <1>2, <1>3
<1> QED
  BY <1>1, <1>4 DEF HttpCall, Steps

LEMMA IdleOK ==
    /\ Idle \in HttpCall /\ Idle.at = "out" /\ Idle.step = "look"
    /\ \A at \in {"ok", "denied", "failed"}, o \in Order :
          /\ IdleBack(at, o) \in HttpCall
          /\ IdleBack(at, o).at = at /\ IdleBack(at, o).order = o
<1>1. SomeOrder \in Order /\ SomeFile \in Files /\ NoEnv \in Env
  BY PortainerAssumption DEF SomeOrder, SomeFile, NoEnv, Env
<1>2. Idle = [at |-> "out", step |-> "look", order |-> SomeOrder, saw |-> NoEnv, file |-> SomeFile]
  BY DEF Idle
<1>3. Idle \in HttpCall /\ Idle.at = "out" /\ Idle.step = "look"
  BY <1>1, <1>2 DEF HttpCall, Steps
<1>4. \A at \in {"ok", "denied", "failed"}, o \in Order :
         /\ IdleBack(at, o) \in HttpCall
         /\ IdleBack(at, o).at = at /\ IdleBack(at, o).order = o
  BY IdleBackOK
<1> QED
  BY <1>3, <1>4, Zenon

Asking(o, step) == [Idle EXCEPT !.order = o, !.step = step]

LEMMA IdleAsks ==
    ASSUME NEW o \in Order, NEW step \in Steps
    PROVE  /\ Asking(o, step) \in HttpCall
           /\ Asking(o, step).order = o /\ Asking(o, step).step = step
<1> DEFINE k == [Idle EXCEPT !.order = o]
<1>1. SomeOrder \in Order /\ SomeFile \in Files /\ NoEnv \in Env
  BY PortainerAssumption DEF SomeOrder, SomeFile, NoEnv, Env
<1>2. k = [at |-> "out", step |-> "look", order |-> o, saw |-> NoEnv, file |-> SomeFile]
  BY DEF Idle
<1>3. Asking(o, step) = [k EXCEPT !.step = step]
  BY DEF Asking
<1> HIDE DEF k
<1>4. Asking(o, step) = [at |-> "out", step |-> step, order |-> o, saw |-> NoEnv, file |-> SomeFile]
  BY <1>2, <1>3
<1> QED
  BY <1>1, <1>4 DEF HttpCall

\* A call is put at h, its requests off the wire or replaced by one.
PutCall(c, h, w, S) ==
    /\ c \in Callers /\ h \in HttpCall
    /\ http' = [http EXCEPT ![c] = h]
    /\ \A m \in wire' : MsgOK(m) /\ (m \in w \/ m.by = c)
    /\ w \subseteq wire /\ w \subseteq wire'
    /\ \A m \in wire \ w : m.by = c
    /\ \A d \in Callers \ {c} : d \in applied' <=> d \in applied
    /\ applied \subseteq applied'
    /\ CallerOK(h, wire', applied', c)
    /\ c \in S \/ (/\ http[c].at \in {"reading", "waiting"}
                   /\ h.at # "out" /\ h.order = http[c].order)

LEMMA PutCallOK ==
    ASSUME HttpInv, Typed, NEW c, NEW h, NEW w, NEW S, PutCall(c, h, w, S)
    PROVE  HttpStep(S)
<1>1. /\ c \in Callers /\ h \in HttpCall /\ http \in [Callers -> HttpCall]
      /\ http' \in [Callers -> HttpCall] /\ http'[c] = h
      /\ \A d \in Callers \ {c} : http'[d] = http[d]
  BY DEF PutCall, HttpInv
<1>2. \A m : \A d \in Callers \ {c} : m.by = d => (m \in wire' <=> m \in wire)
  BY DEF PutCall
<1>3. \A d \in Callers : CallerOK(http'[d], wire', applied', d)
  <2> SUFFICES ASSUME NEW d \in Callers, d # c
               PROVE  CallerOK(http[d], wire', applied', d)
    BY <1>1 DEF PutCall
  <2>1. CallerOK(http[d], wire, applied, d) /\ (d \in applied' <=> d \in applied)
    BY DEF HttpInv, PutCall
  <2> QED
    BY <1>2, <2>1 DEF CallerOK, Clean
<1>4. \A d \in Callers : Resting(d, S)
  <2> SUFFICES ASSUME NEW d \in Callers, d \notin S PROVE Resting(d, S)
    BY DEF Resting
  <2>1. CASE d = c
    <3>1. /\ http[d].at \in {"reading", "waiting"} /\ http'[d] = h
          /\ h.at # "out" /\ h.order = http[d].order
      BY <1>1, <2>1 DEF PutCall
    <3> QED
      BY <3>1 DEF Resting
  <2>2. CASE d # c
    <3>1. http'[d] = http[d] /\ (d \in applied' <=> d \in applied)
      BY <1>1, <2>2 DEF PutCall
    <3>2. Clean(d, wire, applied) => Clean(d, wire', applied')
      BY <1>2, <2>2, <3>1 DEF Clean
    <3> QED
      BY <3>1, <3>2 DEF Resting
  <2> QED
    BY <2>1, <2>2
<1> QED
  BY <1>1, <1>3, <1>4 DEF Typed, HttpInv, HttpStep, PutCall

\* A request is sent, or waits for the access token.
LEMMA RequestOK ==
    ASSUME HttpInv, Typed, NEW c \in Callers, NEW h \in HttpCall, NEW w, NEW S,
           w \subseteq wire, \A m \in wire \ w : m.by = c, Clean(c, w, applied),
           h.step # "look" => h.order.kind # "read",
           c \in S \/ (http[c].at = "waiting" /\ h.order = http[c].order),
           Request(c, h, w), applied' = applied
    PROVE  HttpStep(S)
<1>1. ASSUME NEW at \in {"waiting", "reading"}
      PROVE  LET k == [h EXCEPT !.at = at]
             IN k \in HttpCall /\ k.at = at /\ k.order = h.order /\ k.step = h.step
  BY DEF HttpCall
<1>2. CASE key.cached # NoKey
  <2> DEFINE k == [h EXCEPT !.at = "waiting"]
             m == Message(c, h, key.cached)
  <2>1. k \in HttpCall /\ k.at = "waiting" /\ k.order = h.order
    BY <1>1
  <2>2. http' = [http EXCEPT ![c] = k] /\ wire' = w \cup {m}
    BY <1>2 DEF Request
  <2>3. MsgOK(m) /\ m.by = c /\ m.order = h.order
    <3>1. key.cached \in Tokens
      BY DEF HttpInv
    <3> QED
      BY <3>1, MessageOK
  <2> HIDE DEF k, m
  <2>4. CallerOK(k, wire', applied', c)
    BY <2>1, <2>2, <2>3 DEF CallerOK, Clean
  <2>5. PutCall(c, k, w, S)
    BY <2>1, <2>2, <2>3, <2>4 DEF PutCall, HttpInv
  <2> QED
    BY <2>5, PutCallOK
<1>3. CASE key.cached = NoKey
  <2> DEFINE k == [h EXCEPT !.at = "reading"]
  <2>1. k \in HttpCall /\ k.at = "reading" /\ k.order = h.order /\ k.step = h.step
    BY <1>1
  <2>2. http' = [http EXCEPT ![c] = k] /\ wire' = w
    BY <1>3 DEF Request
  <2> HIDE DEF k
  <2>3. CallerOK(k, wire', applied', c)
    BY <2>1, <2>2 DEF CallerOK, Clean
  <2>4. PutCall(c, k, w, S)
    BY <2>1, <2>2, <2>3 DEF PutCall, HttpInv
  <2> QED
    BY <2>4, PutCallOK
<1> QED
  BY <1>2, <1>3

\* A call is back.
LEMMA BackOK ==
    ASSUME HttpInv, Typed, NEW c \in Callers, NEW at \in {"ok", "denied", "failed"}, NEW w,
           w \subseteq wire, \A m \in wire \ w : m.by = c,
           http[c].at \in {"reading", "waiting"}, Back(c, at, w),
           applied' = applied \/ applied' = applied \cup {c},
           at = "denied" => Clean(c, w, applied'),
           at = "ok" /\ http[c].order.kind # "read" => c \in applied'
    PROVE  HttpStep({})
<1> DEFINE k == [Idle EXCEPT !.at = at, !.order = http[c].order]
<1>1. http[c] \in HttpCall /\ http[c].order \in Order
  BY HttpFields DEF HttpInv
<1>2. k \in HttpCall /\ k.at = at /\ k.order = http[c].order
  <2>1. k = IdleBack(at, http[c].order)
    BY DEF IdleBack
  <2>2. /\ IdleBack(at, http[c].order) \in HttpCall
        /\ IdleBack(at, http[c].order).at = at
        /\ IdleBack(at, http[c].order).order = http[c].order
    BY <1>1, IdleBackOK
  <2> HIDE DEF k
  <2> QED
    BY <2>1, <2>2
<1>3. http' = [http EXCEPT ![c] = k] /\ wire' = w
  BY DEF Back
<1> HIDE DEF k
<1>4. CallerOK(k, wire', applied', c)
  <2>1. \A m \in w : m.by = c => m.order = http[c].order
    BY DEF HttpInv, CallerOK
  <2> QED
    BY <1>2, <1>3, <2>1 DEF CallerOK
<1>5. PutCall(c, k, w, {})
  BY <1>2, <1>3, <1>4 DEF PutCall, HttpInv
<1> QED
  BY <1>5, PutCallOK

\* A request leaves the wire and nobody is told: it is lost, or its call is back.
LEMMA UnheardOK ==
    ASSUME HttpInv, Typed, NEW m \in wire, wire' = wire \ {m}, http' = http,
           \/ applied' = applied
           \/ applied' = applied \cup {m.by} /\ http[m.by].at # "waiting"
    PROVE  HttpStep({})
<1>1. m.by \in Callers /\ (applied' # applied => http[m.by].at \in {"ok", "failed"})
  <2>1. m.by \in Callers
    BY MsgFields DEF HttpInv
  <2>2. http[m.by].at \notin {"out", "reading", "denied"}
    BY <2>1 DEF HttpInv, CallerOK, Clean
  <2> QED
    BY <2>1, <2>2, HttpFields DEF HttpInv
<1>2. \A c \in Callers : CallerOK(http[c], wire', applied', c)
  <2> SUFFICES ASSUME NEW c \in Callers PROVE CallerOK(http[c], wire', applied', c)
    OBVIOUS
  <2>1. CallerOK(http[c], wire, applied, c)
    BY DEF HttpInv
  <2> QED
    BY <1>1, <2>1 DEF CallerOK, Clean
<1>3. \A c \in Callers : Resting(c, {})
  BY DEF Resting, Clean
<1> QED
  BY <1>2, <1>3 DEF Typed, HttpInv, HttpStep

\* What the call that a message is from waits for.
LEMMA Waited ==
    ASSUME HttpInv, NEW m \in wire
    PROVE  /\ MsgOK(m) /\ m.by \in Callers /\ m.order = http[m.by].order
           /\ http[m.by] \in HttpCall
           /\ http[m.by].at \in {"waiting", "ok", "failed"}
           /\ Waiting(m) => Clean(m.by, wire \ {m}, applied)
<1>1. MsgOK(m) /\ m.by \in Callers
  BY MsgFields DEF HttpInv
<1>2. CallerOK(http[m.by], wire, applied, m.by)
  BY <1>1 DEF HttpInv
<1>3. http[m.by] \in HttpCall /\ http[m.by].at \in {"waiting", "ok", "failed"}
  BY <1>1, <1>2, HttpFields DEF CallerOK, Clean
<1>4. Waiting(m) => Clean(m.by, wire \ {m}, applied)
  BY <1>2 DEF CallerOK, Clean, Waiting
<1>5. m.order = http[m.by].order
  BY <1>2 DEF CallerOK
<1> QED
  BY <1>1, <1>3, <1>4, <1>5

\* An answer, whether its call still waits for it or not.
LEMMA AnswerOK ==
    ASSUME HttpInv, Typed, NEW m \in wire, NEW at \in {"ok", "denied", "failed"},
           Answer(m, at), applied' = applied,
           at = "ok" => m.order.kind = "read"
    PROVE  HttpStep({})
<1>1. CASE Waiting(m)
  <2>1. Back(m.by, at, wire \ {m})
    BY <1>1 DEF Answer
  <2>2. /\ m.by \in Callers /\ http[m.by].at \in {"reading", "waiting"}
        /\ Clean(m.by, wire \ {m}, applied') /\ m.order = http[m.by].order
    BY <1>1, Waited DEF Waiting
  <2>3. wire \ {m} \subseteq wire /\ \A n \in wire \ (wire \ {m}) : n.by = m.by
    OBVIOUS
  <2> QED
    BY <2>1, <2>2, <2>3, BackOK
<1>2. CASE ~Waiting(m)
  BY <1>2, UnheardOK DEF Answer
<1> QED
  BY <1>1, <1>2

\* The change is made, and the call hears of it or is long gone.
LEMMA AppliedOK ==
    ASSUME HttpInv, Typed, NEW m \in wire, NEW at \in {"ok", "failed"},
           Answer(m, at), applied' = applied \cup {m.by}
    PROVE  HttpStep({})
<1>1. CASE Waiting(m)
  <2>1. Back(m.by, at, wire \ {m})
    BY <1>1 DEF Answer
  <2>2. m.by \in Callers /\ http[m.by].at \in {"reading", "waiting"} /\ m.by \in applied'
    BY <1>1, Waited DEF Waiting
  <2>3. wire \ {m} \subseteq wire /\ \A n \in wire \ (wire \ {m}) : n.by = m.by
    OBVIOUS
  <2> QED
    BY <2>1, <2>2, <2>3, BackOK
<1>2. CASE ~Waiting(m)
  BY <1>2, UnheardOK DEF Answer, Waiting
<1> QED
  BY <1>1, <1>2

\* The next request of a call whose request was served.
LEMMA NextRequest ==
    ASSUME HttpInv, NEW m \in wire, Waiting(m), m.order.kind # "read",
           NEW h \in HttpCall, h.order = http[m.by].order, Request(m.by, h, wire \ {m}),
           UNCHANGED <<stacks, key, applied, edits>>
    PROVE  HttpStep({})
<1>1. PICK c \in Callers : c = m.by
  BY Waited
<1>2. PICK w : w = wire \ {m}
  OBVIOUS
<1>3. /\ w \subseteq wire /\ (\A n \in wire \ w : n.by = c) /\ Clean(c, w, applied)
      /\ http[c].at = "waiting" /\ h.order = http[c].order /\ h.order.kind # "read"
      /\ Request(c, h, w)
  BY <1>1, <1>2, Waited DEF Waiting
<1>4. Typed /\ applied' = applied
  BY DEF Typed, HttpInv
<1> QED
  BY <1>3, <1>4, RequestOK

\* Merged and Changed give what Portainer may keep.
LEMMA MergedOK ==
    ASSUME NEW o \in Order, NEW e \in Env
    PROVE  Merged(o, e) \in Env
<1>1. o.set \in Env
  BY DEF Order
<1> QED
  BY <1>1 DEF Merged, Env

LEMMA ChangedOK ==
    ASSUME HttpInv, NEW m, MsgOK(m), m.step = "change"
    PROVE  /\ m.order.stack \in Stacks /\ Changed(m) \in Stack
           /\ m.order.kind \in {"update", "redeploy"} =>
                 /\ Changed(m).env = Merged(m.order, m.saw)
                 /\ Changed(m).file =
                       IF stacks[m.order.stack].git THEN stacks[m.order.stack].file ELSE m.file
<1>1. /\ m.order \in Order /\ m.saw \in Env /\ m.file \in Files
      /\ m.order.kind # "read"
  BY MsgFields
<1>2. /\ m.order.stack \in Stacks /\ m.order.set \in Env
      /\ m.order.kind \in {"create", "update", "redeploy", "start", "stop", "delete"}
  BY <1>1 DEF Order, Kinds
<1>3. stacks[m.order.stack] \in Stack /\ Merged(m.order, m.saw) \in Env
  BY <1>1, <1>2, MergedOK DEF HttpInv
<1> HIDE DEF HttpInv
<1>4. CASE m.order.kind \in {"update", "redeploy"}
  BY <1>1, <1>2, <1>3, <1>4 DEF Changed, Stack
<1>5. CASE m.order.kind = "create"
  BY <1>1, <1>2, <1>3, <1>5 DEF Changed, Stack
<1>6. CASE m.order.kind \in {"start", "stop", "delete"}
  BY <1>1, <1>2, <1>3, <1>6 DEF Changed, Stack
<1> QED
  BY <1>2, <1>4, <1>5, <1>6

LEMMA ServeOK ==
    ASSUME HttpInv, NEW m \in wire, Serve(m)
    PROVE  HttpStep({})
<1>1. CASE ServeBadToken(m)
  <2>1. Typed /\ applied' = applied /\ Answer(m, "denied")
    BY <1>1 DEF ServeBadToken, Typed, HttpInv, Tokens
  <2> QED
    BY <2>1, AnswerOK
<1>2. CASE ServeLook(m)
  <2>1. /\ Typed /\ applied' = applied
        /\ UNCHANGED <<stacks, key, applied, edits>>
    BY <1>2 DEF ServeLook, Typed, HttpInv
  <2>2. CASE Answer(m, "failed") \/ Answer(m, "denied")
    BY <2>1, <2>2, AnswerOK
  <2>3. CASE Answer(m, "ok") /\ m.order.kind = "read"
    BY <2>1, <2>3, AnswerOK
  <2>4. CASE ~Answer(m, "failed") /\ ~Answer(m, "denied")
             /\ ~(Answer(m, "ok") /\ m.order.kind = "read")
    <3> DEFINE o == m.order
               st == stacks[o.stack]
               h == [http[m.by] EXCEPT !.saw = st.env,
                                       !.step = IF o.kind = "update" /\ ~st.git
                                                THEN "file" ELSE "change"]
    <3>1. Waiting(m) /\ o.kind # "read" /\ Request(m.by, h, wire \ {m})
      BY <1>2, <2>4 DEF ServeLook
    <3>2. st.env \in Env
      <4>1. o \in Order
        BY Waited, MsgFields
      <4>2. o.stack \in Stacks
        BY <4>1 DEF Order
      <4> QED
        BY <4>2 DEF HttpInv, Stack
    <3>3. h \in HttpCall /\ h.order = http[m.by].order
      <4>1. http[m.by] \in HttpCall /\ "file" \in Steps /\ "change" \in Steps
        BY Waited DEF Steps
      <4> QED
        BY <3>2, <4>1 DEF HttpCall
    <3> QED
      BY <2>1, <3>1, <3>3, NextRequest
  <2> QED
    BY <2>2, <2>3, <2>4
<1>3. CASE ServeFile(m)
  <2>1. /\ Typed /\ applied' = applied /\ m.order.kind # "read"
        /\ UNCHANGED <<stacks, key, applied, edits>>
    BY <1>3, Waited DEF ServeFile, Typed, HttpInv, MsgOK
  <2>2. CASE Answer(m, "failed")
    BY <2>1, <2>2, AnswerOK
  <2>3. CASE ~Answer(m, "failed")
    <3> DEFINE st == stacks[m.order.stack]
               h == [http[m.by] EXCEPT !.file = st.file, !.step = "change"]
    <3>1. Waiting(m) /\ Request(m.by, h, wire \ {m})
      BY <1>3, <2>3 DEF ServeFile
    <3>2. st.file \in Files
      <4>1. m.order \in Order
        BY Waited, MsgFields
      <4>2. m.order.stack \in Stacks
        BY <4>1 DEF Order
      <4> QED
        BY <4>2 DEF HttpInv, Stack
    <3>3. h \in HttpCall /\ h.order = http[m.by].order
      <4>1. http[m.by] \in HttpCall /\ "change" \in Steps
        BY Waited DEF Steps
      <4> QED
        BY <3>2, <4>1 DEF HttpCall
    <3> QED
      BY <2>1, <3>1, <3>3, NextRequest
  <2> QED
    BY <2>2, <2>3
<1>4. CASE ServeChange(m)
  <2>1. CASE Answer(m, "failed") /\ UNCHANGED <<stacks, applied>>
    <3>1. Typed /\ applied' = applied
      BY <1>4, <2>1 DEF ServeChange, Typed, HttpInv
    <3> QED
      BY <2>1, <3>1, AnswerOK
  <2>2. CASE ~(Answer(m, "failed") /\ UNCHANGED <<stacks, applied>>)
    <3>1. /\ stacks' = [stacks EXCEPT ![m.order.stack] = Changed(m)] /\ key' = key
          /\ applied' = applied \cup {m.by} /\ m.step = "change"
          /\ Answer(m, "ok") \/ Answer(m, "failed")
      BY <1>4, <2>2 DEF ServeChange
    <3>2. m.order.stack \in Stacks /\ Changed(m) \in Stack
      BY <3>1, Waited, ChangedOK
    <3>3. Typed
      BY <3>1, <3>2 DEF Typed, HttpInv
    <3> QED
      BY <3>1, <3>3, AppliedOK
  <2> QED
    BY <2>1, <2>2
<1> QED
  BY <1>1, <1>2, <1>3, <1>4 DEF Serve

LEMMA KeyReadOK ==
    ASSUME HttpInv, NEW c \in Callers, KeyRead(c)
    PROVE  HttpStep({})
<1> DEFINE k == [http[c] EXCEPT !.at = "waiting"]
           m == Message(c, http[c], key.file)
<1>1. /\ http[c] \in HttpCall /\ http[c].at = "reading" /\ Clean(c, wire, applied)
      /\ http[c].step # "look" => http[c].order.kind # "read"
      /\ key.file \in Tokens
  BY DEF KeyRead, HttpInv, CallerOK, Tokens
<1>2. k \in HttpCall /\ k.at = "waiting" /\ k.order = http[c].order
  BY <1>1 DEF HttpCall
<1>3. MsgOK(m) /\ m.by = c /\ m.order = http[c].order
  BY <1>1, MessageOK
<1>4. http' = [http EXCEPT ![c] = k] /\ wire' = wire \cup {m} /\ applied' = applied
  BY DEF KeyRead
<1>5. Typed
  BY DEF KeyRead, Typed, HttpInv, Tokens
<1> HIDE DEF k, m
<1>6. CallerOK(k, wire', applied', c)
  BY <1>1, <1>2, <1>3, <1>4 DEF CallerOK, Clean
<1>7. PutCall(c, k, wire, {})
  BY <1>1, <1>2, <1>3, <1>4, <1>6 DEF PutCall, HttpInv
<1> QED
  BY <1>5, <1>7, PutCallOK

\* The client's other events, and those of Portainer itself.
LEMMA PortainerEventOK ==
    ASSUME HttpInv, PortainerEvent
    PROVE  HttpStep({})
<1>1. ASSUME NEW c \in Callers, KeyUnreadable(c) \/ GiveUp(c) PROVE HttpStep({})
  <2>1. /\ Typed /\ applied' = applied /\ wire \subseteq wire
        /\ \A m \in wire \ wire : m.by = c
    BY <1>1 DEF KeyUnreadable, GiveUp, Typed, HttpInv
  <2>2. CASE KeyUnreadable(c)
    <3>1. http[c].at = "reading" /\ Back(c, "denied", wire) /\ Clean(c, wire, applied')
      BY <2>1, <2>2 DEF KeyUnreadable, HttpInv, CallerOK
    <3> QED
      BY <2>1, <3>1, BackOK
  <2>3. CASE GiveUp(c)
    <3>1. http[c].at = "waiting" /\ Back(c, "failed", wire)
      BY <2>3 DEF GiveUp
    <3> QED
      BY <2>1, <3>1, BackOK
  <2> QED
    BY <1>1, <2>2, <2>3
<1>2. ASSUME NEW m \in wire, Lose(m) PROVE HttpStep({})
  <2>1. /\ Typed /\ applied' = applied /\ http' = http /\ wire' = wire \ {m}
    BY <1>2 DEF Lose, Typed, HttpInv
  <2> QED
    BY <2>1, UnheardOK
<1>3. CASE RotateKey \/ \E s \in Stacks : EditOutside(s)
  <2>1. http' = http /\ wire' = wire /\ applied' = applied
    BY <1>3 DEF RotateKey, EditOutside
  <2>2. Typed
    <3>1. CASE RotateKey
      BY <3>1 DEF RotateKey, Typed, HttpInv
    <3>2. ASSUME NEW s \in Stacks, EditOutside(s) PROVE Typed
      <4>1. stacks[s] \in Stack
        BY DEF HttpInv
      <4>2. \A n \in Names, v \in Values : [stacks[s] EXCEPT !.env[n] = v] \in Stack
        BY <4>1 DEF Stack, Env
      <4>3. \A f \in Files : [stacks[s] EXCEPT !.file = f] \in Stack
        BY <4>1 DEF Stack
      <4>4. PICK st \in Stack : stacks' = [stacks EXCEPT ![s] = st]
        BY <3>2, <4>2, <4>3 DEF EditOutside
      <4> QED
        BY <3>2, <4>4 DEF EditOutside, Typed, HttpInv
    <3> QED
      BY <1>3, <3>1, <3>2
  <2>3. \A c \in Callers : CallerOK(http'[c], wire', applied', c) /\ Resting(c, {})
    BY <2>1 DEF HttpInv, Resting
  <2> QED
    BY <2>1, <2>2, <2>3 DEF HttpStep, HttpInv, Typed
<1> QED
  BY <1>1, <1>2, <1>3, ServeOK, KeyReadOK DEF PortainerEvent

\* A call asks.
LEMMA AskOK ==
    ASSUME HttpInv, NEW c \in Callers, NEW o \in Orders, Ask(c, o)
    PROVE  HttpStep({c}) /\ http'[c].at # "out"
<1>1. PICK h : h = [Idle EXCEPT !.order = o,
                                !.step = IF o.kind = "create" THEN "change" ELSE "look"]
  OBVIOUS
<1>2. /\ h \in HttpCall /\ h.order = o
      /\ h.step # "look" => h.order.kind # "read"
  <2>1. o \in Order /\ "change" \in Steps /\ "look" \in Steps
    BY PortainerAssumption DEF Steps
  <2>2. CASE o.kind = "create"
    <3>1. h = Asking(o, "change")
      BY <1>1, <2>2 DEF Asking
    <3>2. h \in HttpCall /\ h.order = o
      BY <2>1, <3>1, IdleAsks
    <3> QED
      BY <2>2, <3>2
  <2>3. CASE o.kind # "create"
    <3>1. h = Asking(o, "look")
      BY <1>1, <2>3 DEF Asking
    <3>2. h \in HttpCall /\ h.order = o /\ h.step = "look"
      BY <2>1, <3>1, IdleAsks
    <3> QED
      BY <3>2
  <2> QED
    BY <2>2, <2>3
<1>3. /\ Request(c, h, wire) /\ applied' = applied /\ Typed
      /\ Clean(c, wire, applied)
  BY <1>1 DEF Ask, Typed, HttpInv, CallerOK
<1>4. PICK w, S : w = wire /\ S = {c}
  OBVIOUS
<1>5. HttpStep(S)
  <2>1. /\ w \subseteq wire /\ (\A m \in wire \ w : m.by = c) /\ Clean(c, w, applied)
        /\ c \in S /\ Request(c, h, w)
    BY <1>3, <1>4
  <2> QED
    BY <1>2, <1>3, <2>1, RequestOK
<1>6. http'[c].at # "out"
  BY <1>2, <1>3 DEF Request, HttpInv, HttpCall
<1> QED
  BY <1>4, <1>5, <1>6

LEMMA RestartOK ==
    ASSUME HttpInv, PortainerRestart
    PROVE  /\ HttpInv' /\ applied' = applied /\ wire' = wire
           /\ \A c \in Callers : /\ http'[c].at = "out" <=> http[c].at = "out"
                                 /\ http'[c].at \in {"out", "failed"}
                                 /\ http'[c].order = http[c].order
<1>1. ASSUME NEW c \in Callers
      PROVE  /\ http'[c] \in HttpCall /\ http'[c].order = http[c].order
             /\ IF http[c].at = "out" THEN http'[c] = http[c] ELSE http'[c].at = "failed"
  <2>1. http[c].order \in Order /\ http[c] \in HttpCall
    BY HttpFields DEF HttpInv
  <2>2. CASE http[c].at = "out"
    BY <2>1, <2>2 DEF PortainerRestart
  <2>3. CASE http[c].at # "out"
    <3>1. http'[c] = IdleBack("failed", http[c].order)
      BY <2>3 DEF PortainerRestart, IdleBack
    <3>2. PICK o \in Order : o = http[c].order
      BY <2>1
    <3>3. /\ IdleBack("failed", o) \in HttpCall
          /\ IdleBack("failed", o).at = "failed" /\ IdleBack("failed", o).order = o
      BY IdleOK
    <3> QED
      BY <2>3, <3>1, <3>2, <3>3
  <2> QED
    BY <2>2, <2>3
<1>2. /\ wire' = wire /\ applied' = applied /\ stacks' = stacks
      /\ key' \in [cached : Tokens, file : {"old", "new"}, good : {"old", "new"}]
      /\ http' \in [Callers -> HttpCall]
  BY <1>1 DEF PortainerRestart, HttpInv, Tokens
<1>3. \A c \in Callers : CallerOK(http'[c], wire', applied', c)
  BY <1>1, <1>2 DEF HttpInv, CallerOK
<1> QED
  BY <1>1, <1>2, <1>3 DEF HttpInv

------------------------------------------------------------------------------------
(* What is lost in Portainer *)

\* A step that changes a stack.
StaleOnly ==
    \A m \in wire \ wire' : m.step = "change" /\ m.order.kind \in {"update", "redeploy"} =>
        LET old == stacks[m.order.stack]
            new == stacks'[m.order.stack]
        IN /\ m.saw = old.env /\ ~m.order.all =>
                \A n \in Names : new.env[n] # old.env[n] =>
                    n \in m.order.unset \/ m.order.set[n] # Unset
           /\ m.saw = old.env =>
                \A n \in Names : m.order.set[n] # Unset /\ new # old => new.env[n] = m.order.set[n]
           /\ m.file = old.file => new.file = old.file

LEMMA SameStacks == stacks' = stacks => StaleOnly
  BY DEF StaleOnly

LEMMA ChangeIsStaleOnly ==
    ASSUME HttpInv, NEW m \in wire, ServeChange(m)
    PROVE  StaleOnly
<1>1. CASE stacks' = stacks
  BY <1>1, SameStacks
<1>2. CASE stacks' # stacks
  <2>1. /\ stacks' = [stacks EXCEPT ![m.order.stack] = Changed(m)]
        /\ m.step = "change" /\ wire' = wire \ {m}
    BY <1>2 DEF ServeChange, Answer, Back
  <2>2. SUFFICES ASSUME m.order.kind \in {"update", "redeploy"} PROVE StaleOnly
    BY <2>1 DEF StaleOnly
  <2> DEFINE old == stacks[m.order.stack]
             new == stacks'[m.order.stack]
  <2>3. /\ new = Changed(m)
        /\ new.env = Merged(m.order, m.saw)
        /\ new.file = IF old.git THEN old.file ELSE m.file
    BY <2>1, <2>2, Waited, ChangedOK DEF HttpInv
  <2>4. \A n \in Names :
           /\ m.order.set[n] # Unset => new.env[n] = m.order.set[n]
           /\ m.order.set[n] = Unset /\ ~m.order.all /\ n \notin m.order.unset =>
                 new.env[n] = m.saw[n]
    BY <2>3 DEF Merged
  <2> HIDE DEF old, new
  <2> QED
    BY <2>1, <2>3, <2>4 DEF StaleOnly, old, new
<1> QED
  BY <1>1, <1>2

LEMMA PortainerStaleOnly ==
    ASSUME HttpInv, PortainerEvent
    PROVE  StaleOnly
<1>1. ASSUME NEW m \in wire, Serve(m) \/ Lose(m) PROVE StaleOnly
  BY <1>1, ChangeIsStaleOnly, SameStacks
     DEF Serve, ServeBadToken, ServeLook, ServeFile, Lose
<1>2. ASSUME NEW c \in Callers, KeyRead(c) \/ KeyUnreadable(c) \/ GiveUp(c) PROVE StaleOnly
  BY <1>2, SameStacks DEF KeyRead, KeyUnreadable, GiveUp, Back
<1>3. CASE RotateKey \/ \E s \in Stacks : EditOutside(s)
  BY <1>3 DEF RotateKey, EditOutside, StaleOnly
<1> QED
  BY <1>1, <1>2, <1>3 DEF PortainerEvent

------------------------------------------------------------------------------------
(* The answers *)

\* How often a call is counted.
CountsOK(r) ==
    /\ r.at \in {"new", "running", "lost"} \/ r.tool = "probe" => r.oks = 0 /\ r.others = 0
    /\ r.at = "ok" /\ r.tool # "probe" => r.oks = 1 /\ r.others = 0
    /\ r.at \notin {"new", "running", "lost"} /\ ~r.failedWrite =>
          \/ r.oks = 0 /\ r.others = 0
          \/ r.oks = 1 /\ r.others = 0
          \/ r.oks = 0 /\ r.others = 1
    /\ r.at = "denied" =>
          \/ r.oks = 0 /\ r.others = 0
          \/ r.oks = 0 /\ r.others = 1

\* A command that nobody has asked for yet.
Unasked(job, started, x) == job[x].at = "out" /\ x \notin started

\* Where a call is among its rounds: nothing of the later ones was asked for, what it
\* could not do without was started, and it is denied at the start or for an output.
RoundsOK(r, job, started) ==
    /\ r.at = "new" \/ r.tool = "portainer" => r.round = 0
    /\ r.round # 0 => r.round \in DOMAIN r.rounds
    /\ r.at = "running" /\ r.tool # "portainer" => r.round # 0
    /\ \A i \in DOMAIN r.rounds : i > r.round =>
          \A x \in CommandsOf(r.rounds[i]) : Unasked(job, started, x)
    /\ \A i \in DOMAIN r.rounds : Needed(r.rounds[i]) =>
          (i < r.round \/ (r.at = "ok" /\ r.tool # "portainer")
              => CommandsOf(r.rounds[i]) \subseteq started)
    /\ r.at = "denied" /\ r.round # 0 => r.rounds[r.round].reads = "allowed"

\* ... and where its request to Portainer stands.
OrderOK(r, c, h, w, ap) ==
    /\ r.at = "new" \/ r.tool # "portainer" => h.at = "out"
    /\ r.at = "denied" => h.at \notin {"reading", "waiting"} /\ Clean(c, w, ap)
    /\ r.at = "ok" /\ r.tool = "portainer" /\ h.order.kind # "read" => c \in ap

\* The rounds of the calls are those of a plan.
Planned(f) == \E plan \in Plans : \A c \in Callers : f[c].rounds = plan[c].rounds

\* A command that was begun is known to have been started.
BegunKnown(job, started) == \A x \in Commands : job[x].at \in Begun => x \in started

HonestInv ==
    /\ PoolOK(ssh)
    /\ HttpInv
    /\ call \in [Callers -> Calling]
    /\ Planned(call)
    /\ BegunKnown(ssh.job, ran)
    /\ \A c \in Callers : /\ CountsOK(call[c])
                          /\ RoundsOK(call[c], ssh.job, ran)
                          /\ OrderOK(call[c], c, http[c], wire, applied)

LEMMA CallFields ==
    ASSUME NEW r \in Calling
    PROVE  /\ r.at \in {"new", "running", "ok", "denied", "error", "lost"}
           /\ r.tool \in Tools /\ r.oks \in Nat /\ r.others \in Nat
           /\ r.rounds \in Seq(Round) /\ r.round \in Nat
           /\ Len(r.rounds) \in Nat /\ DOMAIN r.rounds = 1 .. Len(r.rounds)
           /\ \A i \in DOMAIN r.rounds : r.rounds[i] \in Round
<1>1. r.rounds \in Seq(Round)
  BY DEF Calling
<1> QED
  BY <1>1 DEF Calling

LEMMA RoundFields ==
    ASSUME NEW r \in Round
    PROVE  /\ r.one \in Commands /\ r.other \in Commands \cup {None}
           /\ CommandsOf(r) = IF r.other = None THEN {r.one} ELSE {r.one, r.other}
           /\ CommandsOf(r) \subseteq Commands
  BY SshPoolAssumption DEF Round, CommandsOf

\* A command is in one place of one call.
LEMMA RoundsApart ==
    ASSUME call \in [Callers -> Calling], Planned(call),
           NEW c \in Callers, NEW i \in DOMAIN call[c].rounds
    PROVE  /\ call[c].rounds[i].one # call[c].rounds[i].other
           /\ \A d \in Callers : \A j \in DOMAIN call[d].rounds :
                 c # d \/ i # j =>
                    CommandsOf(call[c].rounds[i]) \cap CommandsOf(call[d].rounds[j]) = {}
<1>1. PICK plan \in Plans : \A d \in Callers : call[d].rounds = plan[d].rounds
  BY DEF Planned
<1> QED
  BY <1>1, CommandsAssumption

\* The commands of a round enter the pool together.
LEMMA EnteredRoundOK ==
    ASSUME NEW st, PoolOK(st), NEW r \in Round, r.one # r.other,
           \A x \in CommandsOf(r) : st.job[x].at = "out",
           NEW new \in EnteredRound(st, r)
    PROVE  /\ PoolOK(new)
           /\ \A d \in Commands \ CommandsOf(r) : new.job[d] = st.job[d]
           /\ \A x \in CommandsOf(r) :
                 new.job[x].at \in {"queued", "opening", "dialling", "cut"}
<1>0. /\ r.one \in Commands /\ r.other \in Commands \cup {None}
      /\ CommandsOf(r) = IF r.other = None THEN {r.one} ELSE {r.one, r.other}
  BY RoundFields
<1>1. ASSUME NEW one, PoolOK(one), NEW x \in Commands, one.job[x].at = "out",
             NEW two \in Entered(one, x)
      PROVE  /\ PoolOK(two) /\ Others(one, two, {x})
             /\ two.job[x].at \in {"queued", "opening", "dialling", "cut"}
  <2>1. x \notin Holders(one) \cup Waiters(one)
    BY <1>1 DEF Holders, Waiters, InSlot
  <2> QED
    BY <1>1, <2>1, EnteredOK
<1>2. CASE r.other = None
  <2>1. new \in Entered(st, r.one)
    BY <1>2 DEF EnteredRound
  <2> QED
    BY <1>0, <1>1, <1>2, <2>1 DEF Others
<1>3. CASE r.other # None
  <2>1. PICK between \in Entered(st, r.one) : new \in Entered(between, r.other)
    BY <1>3 DEF EnteredRound
  <2>2. /\ PoolOK(between) /\ Others(st, between, {r.one})
        /\ between.job[r.one].at \in {"queued", "opening", "dialling", "cut"}
    BY <1>0, <1>1
  <2>3. r.other \in Commands /\ between.job[r.other] = st.job[r.other]
    BY <1>0, <1>3, <2>2 DEF Others
  <2>4. /\ PoolOK(new) /\ Others(between, new, {r.other})
        /\ new.job[r.other].at \in {"queued", "opening", "dialling", "cut"}
    BY <1>0, <1>1, <1>3, <2>1, <2>2, <2>3
  <2> QED
    BY <1>0, <1>3, <2>2, <2>4 DEF Others
<1> QED
  BY <1>2, <1>3

\* An answer is counted.
LEMMA CountedOK ==
    ASSUME call \in [Callers -> Calling], NEW c \in Callers, CountsOK(call[c]),
           call[c].at \in {"new", "running"}, call[c].tool # "probe",
           NEW answer \in {"ok", "denied", "error"}, Counted(c, answer)
    PROVE  \E q \in Calling :
              /\ call' = [call EXCEPT ![c] = q]
              /\ q.tool = call[c].tool /\ q.rounds = call[c].rounds /\ q.round = call[c].round
              /\ q.at \in {answer, "error"} /\ CountsOK(q)
<1>1. /\ call[c] \in Calling /\ call[c].oks = 0 /\ call[c].others = 0
  BY DEF CountsOK
<1> DEFINE one == IF answer = "ok" THEN [call[c] EXCEPT !.oks = @ + 1]
                  ELSE [call[c] EXCEPT !.others = @ + 1]
<1>2. /\ one \in Calling /\ one.tool = call[c].tool
      /\ one.rounds = call[c].rounds /\ one.round = call[c].round
      /\ one.oks = IF answer = "ok" THEN 1 ELSE 0
      /\ one.others = IF answer = "ok" THEN 0 ELSE 1
  <2>1. CASE answer = "ok"
    <3>1. one = [call[c] EXCEPT !.oks = 1]
      BY <1>1, <2>1
    <3> HIDE DEF one
    <3> QED
      BY <1>1, <2>1, <3>1 DEF Calling
  <2>2. CASE answer # "ok"
    <3>1. one = [call[c] EXCEPT !.others = 1]
      BY <1>1, <2>2
    <3> HIDE DEF one
    <3> QED
      BY <1>1, <2>2, <3>1 DEF Calling
  <2> QED
    BY <2>1, <2>2
<1>3. \/ call' = [call EXCEPT ![c] = [one EXCEPT !.at = answer]]
      \/ call' = [call EXCEPT ![c] =
                    [one EXCEPT !.at = "error", !.failedWrite = TRUE,
                                !.others = one.others + (IF answer = "ok" THEN 1 ELSE 0)]]
  BY DEF Counted
<1> HIDE DEF one
<1>4. CASE call' = [call EXCEPT ![c] = [one EXCEPT !.at = answer]]
  <2> DEFINE q == [one EXCEPT !.at = answer]
  <2>1. /\ q \in Calling /\ q.tool = call[c].tool /\ q.at = answer
        /\ q.rounds = call[c].rounds /\ q.round = call[c].round
        /\ q.oks = one.oks /\ q.others = one.others
    BY <1>2 DEF Calling
  <2>2. CountsOK(q)
    BY <1>2, <2>1 DEF CountsOK
  <2> QED
    BY <1>4, <2>1, <2>2
<1>5. CASE call' = [call EXCEPT ![c] =
                    [one EXCEPT !.at = "error", !.failedWrite = TRUE,
                                !.others = one.others + (IF answer = "ok" THEN 1 ELSE 0)]]
  <2>1. PICK n \in Nat : n = one.others + (IF answer = "ok" THEN 1 ELSE 0)
    BY <1>2
  <2> DEFINE q == [one EXCEPT !.at = "error", !.failedWrite = TRUE, !.others = n]
  <2>2. /\ q \in Calling /\ q.tool = call[c].tool /\ q.at = "error" /\ q.failedWrite
        /\ q.rounds = call[c].rounds /\ q.round = call[c].round
    BY <1>2 DEF Calling
  <2>3. CountsOK(q)
    BY <2>2 DEF CountsOK
  <2> QED
    BY <1>5, <2>1, <2>2, <2>3
<1> QED
  BY <1>3, <1>4, <1>5

LEMMA SshHonest == HonestInv /\ Ssh => HonestInv'
<1> SUFFICES ASSUME HonestInv, Ssh PROVE HonestInv'
  OBVIOUS
<1>1. PoolOK(ssh') /\ Moves(ssh, ssh')
  BY SshEventOK DEF HonestInv, Ssh
<1>2. /\ UNCHANGED <<pvars, call>>
      /\ \A x \in Commands : x \in ran' <=> x \in ran \/ ssh'.job[x].at = "running"
      /\ ran \subseteq ran'
  BY DEF Ssh
<1>3. HttpInv'
  BY <1>2 DEF HonestInv, HttpInv, pvars
<1>4. BegunKnown(ssh'.job, ran')
  BY <1>1, <1>2 DEF HonestInv, BegunKnown, Moves
<1>5. \A x \in Commands : Unasked(ssh.job, ran, x) => Unasked(ssh'.job, ran', x)
  BY <1>1, <1>2 DEF Moves, Unasked
<1>6. \A c \in Callers : RoundsOK(call[c], ssh'.job, ran')
  <2> SUFFICES ASSUME NEW c \in Callers PROVE RoundsOK(call[c], ssh'.job, ran')
    OBVIOUS
  <2>1. /\ RoundsOK(call[c], ssh.job, ran)
        /\ \A i \in DOMAIN call[c].rounds : CommandsOf(call[c].rounds[i]) \subseteq Commands
    <3>1. call[c] \in Calling /\ RoundsOK(call[c], ssh.job, ran)
      BY DEF HonestInv
    <3> QED
      BY <3>1, CallFields, RoundFields
  <2> QED
    BY <1>2, <1>5, <2>1 DEF RoundsOK
<1> QED
  BY <1>1, <1>2, <1>3, <1>4, <1>6 DEF HonestInv, Planned, pvars

\* What a step of Portainer, or of call b, leaves of the others' orders.
LEMMA OrdersKept ==
    ASSUME HonestInv, NEW S, HttpStep(S), NEW c \in Callers, c \notin S
    PROVE  OrderOK(call[c], c, http'[c], wire', applied')
<1>1. OrderOK(call[c], c, http[c], wire, applied)
  BY DEF HonestInv
<1>2. Resting(c, S) /\ applied \subseteq applied'
  BY DEF HttpStep
<1> QED
  BY <1>1, <1>2 DEF OrderOK, Resting

LEMMA HttpHonest == HonestInv /\ Http => HonestInv'
<1> SUFFICES ASSUME HonestInv, Http PROVE HonestInv'
  OBVIOUS
<1>1. HttpStep({}) /\ UNCHANGED <<ssh, call, ran>>
  BY PortainerEventOK DEF Http, HonestInv
<1>2. \A c \in Callers : OrderOK(call[c], c, http'[c], wire', applied')
  BY <1>1, OrdersKept
<1>3. HttpInv'
  BY <1>1 DEF HttpStep
<1> QED
  BY <1>1, <1>2, <1>3 DEF HonestInv, Planned

\* One call goes on, and the pool and Portainer leave the others where they are.
LEMMA OneCall ==
    ASSUME HonestInv, NEW c \in Callers, NEW q \in Calling,
           call' = [call EXCEPT ![c] = q], q.rounds = call[c].rounds, ran' = ran,
           PoolOK(ssh'), HttpInv', BegunKnown(ssh'.job, ran),
           \A d \in Callers \ {c} : RoundsOK(call[d], ssh'.job, ran)
                                 /\ OrderOK(call[d], d, http'[d], wire', applied'),
           CountsOK(q), RoundsOK(q, ssh'.job, ran),
           OrderOK(q, c, http'[c], wire', applied')
    PROVE  HonestInv'
<1>1. /\ call \in [Callers -> Calling] /\ call' \in [Callers -> Calling] /\ call'[c] = q
      /\ \A d \in Callers \ {c} : call'[d] = call[d]
  BY DEF HonestInv
<1>2. \A d \in Callers : /\ CountsOK(call'[d])
                         /\ RoundsOK(call'[d], ssh'.job, ran')
                         /\ OrderOK(call'[d], d, http'[d], wire', applied')
  <2> SUFFICES ASSUME NEW d \in Callers
               PROVE  /\ CountsOK(call'[d])
                      /\ RoundsOK(call'[d], ssh'.job, ran')
                      /\ OrderOK(call'[d], d, http'[d], wire', applied')
    OBVIOUS
  <2>1. CASE d = c
    BY <1>1, <2>1
  <2>2. CASE d # c
    <3>1. CountsOK(call[d])
      BY DEF HonestInv
    <3> QED
      BY <1>1, <2>2, <3>1
  <2> QED
    BY <2>1, <2>2
<1>3. Planned(call')
  <2>1. \A d \in Callers : call'[d].rounds = call[d].rounds
    BY <1>1
  <2> QED
    BY <2>1 DEF HonestInv, Planned
<1> QED
  BY <1>1, <1>2, <1>3 DEF HonestInv

\* The commands of a round are queued or begun.
LEMMA StartHonest == HonestInv /\ (\E c \in Callers : StartSsh(c) \/ NextRound(c)) => HonestInv'
<1> SUFFICES ASSUME HonestInv, NEW c \in Callers, StartSsh(c) \/ NextRound(c)
             PROVE  HonestInv'
  OBVIOUS
<1>1. /\ call \in [Callers -> Calling] /\ call[c] \in Calling /\ CountsOK(call[c])
      /\ RoundsOK(call[c], ssh.job, ran) /\ OrderOK(call[c], c, http[c], wire, applied)
      /\ PoolOK(ssh) /\ Planned(call) /\ BegunKnown(ssh.job, ran)
  BY DEF HonestInv
<1>2. PICK i : i = call[c].round + 1
  OBVIOUS
<1>3. /\ StartRound(c, i) /\ call[c].at \in {"new", "running"}
      /\ call[c].tool \in {"ssh", "probe"}
      /\ call[c].round = 0 \/ (Settled(c) /\ ~Threw(c))
  BY <1>1, <1>2 DEF StartSsh, NextRound, RoundsOK
<1>4. /\ i \in DOMAIN call[c].rounds /\ i \in Nat /\ call[c].round \in Nat
      /\ call[c].rounds[i] \in Round
      /\ \A x \in CommandsOf(call[c].rounds[i]) : ssh.job[x].at = "out"
      /\ ssh' \in EnteredRound(ssh, call[c].rounds[i])
      /\ call' = [call EXCEPT ![c].at = "running", ![c].round = i]
      /\ UNCHANGED <<pvars, ran>>
  BY <1>1, <1>2, <1>3, CallFields DEF StartRound, At
<1>5. /\ PoolOK(ssh')
      /\ \A x \in Commands \ CommandsOf(call[c].rounds[i]) : ssh'.job[x] = ssh.job[x]
      /\ \A x \in CommandsOf(call[c].rounds[i]) :
            ssh'.job[x].at \in {"queued", "opening", "dialling", "cut"}
  <2>1. call[c].rounds[i].one # call[c].rounds[i].other
    BY <1>1, <1>4, RoundsApart
  <2> QED
    BY <1>1, <1>4, <2>1, EnteredRoundOK
<1>6. BegunKnown(ssh'.job, ran)
  BY <1>1, <1>5 DEF BegunKnown, Begun
<1>7. ASSUME NEW d \in Callers, NEW j \in DOMAIN call[d].rounds, c # d \/ i # j,
             NEW x \in CommandsOf(call[d].rounds[j]), Unasked(ssh.job, ran, x)
      PROVE  Unasked(ssh'.job, ran, x)
  <2>1. call[d] \in Calling
    BY <1>1
  <2>2. x \in Commands
    BY <2>1, <1>7, CallFields, RoundFields
  <2>3. x \notin CommandsOf(call[c].rounds[i])
    BY <1>1, <1>4, <1>7, RoundsApart
  <2> QED
    BY <1>5, <1>7, <2>2, <2>3 DEF Unasked
<1>8. PICK q : q = [call[c] EXCEPT !.at = "running", !.round = i]
  OBVIOUS
<1>9. /\ q \in Calling /\ q.at = "running" /\ q.tool = call[c].tool /\ q.round = i
      /\ q.rounds = call[c].rounds /\ q.oks = call[c].oks /\ q.others = call[c].others
      /\ call' = [call EXCEPT ![c] = q]
  BY <1>1, <1>4, <1>8 DEF Calling
<1>10. RoundsOK(q, ssh'.job, ran)
  <2>1. ASSUME NEW j \in DOMAIN call[c].rounds, j > i,
               NEW x \in CommandsOf(call[c].rounds[j])
        PROVE  Unasked(ssh'.job, ran, x)
    <3>1. j \in Nat /\ i # j /\ j > call[c].round
      BY <1>1, <1>2, <1>4, <2>1, CallFields
    <3> QED
      BY <1>1, <1>7, <2>1, <3>1 DEF RoundsOK
  <2>2. ASSUME NEW j \in DOMAIN call[c].rounds, j < i, Needed(call[c].rounds[j])
        PROVE  CommandsOf(call[c].rounds[j]) \subseteq ran
    <3>1. j \in Nat /\ (j < call[c].round \/ j = call[c].round) /\ j # 0
      BY <1>1, <1>2, <1>4, <2>2, CallFields
    <3>2. CASE j < call[c].round
      BY <1>1, <2>2, <3>2 DEF RoundsOK
    <3>3. CASE j = call[c].round
      <4>1. \A x \in CommandsOf(call[c].rounds[j]) : ssh.job[x].at = "resolved"
        BY <1>3, <2>2, <3>1, <3>3 DEF Settled, Threw, Current, At
      <4>2. CommandsOf(call[c].rounds[j]) \subseteq Commands
        BY <1>1, <2>2, CallFields, RoundFields
      <4> QED
        BY <1>1, <4>1, <4>2 DEF BegunKnown, Begun
    <3> QED
      BY <3>1, <3>2, <3>3
  <2>3. i # 0
    BY <1>2, <1>4
  <2>4. \A j \in DOMAIN q.rounds : j > q.round =>
           \A x \in CommandsOf(q.rounds[j]) : Unasked(ssh'.job, ran, x)
    BY <1>9, <2>1
  <2>5. \A j \in DOMAIN q.rounds : Needed(q.rounds[j]) =>
           (j < q.round \/ (q.at = "ok" /\ q.tool # "portainer")
               => CommandsOf(q.rounds[j]) \subseteq ran)
    BY <1>9, <2>2
  <2> QED
    BY <1>3, <1>4, <1>9, <2>3, <2>4, <2>5 DEF RoundsOK
<1>11. CountsOK(q) /\ OrderOK(q, c, http'[c], wire', applied')
  BY <1>1, <1>3, <1>4, <1>9 DEF CountsOK, OrderOK, pvars
<1>12. \A d \in Callers \ {c} : RoundsOK(call[d], ssh'.job, ran)
                             /\ OrderOK(call[d], d, http'[d], wire', applied')
  <2> SUFFICES ASSUME NEW d \in Callers \ {c}
               PROVE  RoundsOK(call[d], ssh'.job, ran)
                      /\ OrderOK(call[d], d, http'[d], wire', applied')
    OBVIOUS
  <2>1. RoundsOK(call[d], ssh.job, ran) /\ OrderOK(call[d], d, http[d], wire, applied)
    BY DEF HonestInv
  <2> QED
    BY <1>4, <1>7, <2>1 DEF RoundsOK, pvars
<1>13. HttpInv'
  BY <1>4 DEF HonestInv, HttpInv, pvars
<1> QED
  BY <1>4, <1>5, <1>6, <1>9, <1>10, <1>11, <1>12, <1>13, OneCall

\* A call is answered, and nothing else changes.
LEMMA AnswerHonest ==
    ASSUME HonestInv, NEW c \in Callers, NEW q \in Calling, call' = [call EXCEPT ![c] = q],
           q.rounds = call[c].rounds, UNCHANGED <<ssh, pvars, ran>>,
           CountsOK(q), RoundsOK(q, ssh.job, ran), OrderOK(q, c, http[c], wire, applied)
    PROVE  HonestInv'
<1>1. /\ PoolOK(ssh') /\ HttpInv' /\ BegunKnown(ssh'.job, ran)
      /\ \A d \in Callers \ {c} : RoundsOK(call[d], ssh'.job, ran)
                               /\ OrderOK(call[d], d, http'[d], wire', applied')
  BY DEF HonestInv, HttpInv, pvars
<1> QED
  BY <1>1, OneCall DEF pvars

\* A call that is answered before anything was asked for.
LEMMA NothingAskedHonest ==
    ASSUME HonestInv, NEW c \in Callers, call[c].at = "new", call[c].tool \in {"ssh", "probe"},
           UNCHANGED <<ssh, pvars, ran>>,
           NEW q \in Calling, call' = [call EXCEPT ![c] = q], q.tool = call[c].tool,
           q.rounds = call[c].rounds, q.round = call[c].round, CountsOK(q),
           q.at \in {"denied", "error"} \/ (q.at = "ok" /\ q.rounds = <<>>)
    PROVE  HonestInv'
<1>1. /\ RoundsOK(call[c], ssh.job, ran) /\ OrderOK(call[c], c, http[c], wire, applied)
      /\ CallerOK(http[c], wire, applied, c)
  BY DEF HonestInv, HttpInv
<1>2. RoundsOK(q, ssh.job, ran)
  BY <1>1 DEF RoundsOK
<1>3. OrderOK(q, c, http[c], wire, applied)
  BY <1>1 DEF OrderOK, CallerOK
<1> QED
  BY <1>2, <1>3, AnswerHonest

LEMMA AtOnceHonest ==
    HonestInv /\ (\E c \in Callers : AnswerAtOnce(c) \/ Refused(c)) => HonestInv'
<1> SUFFICES ASSUME HonestInv, NEW c \in Callers, AnswerAtOnce(c) \/ Refused(c)
             PROVE  HonestInv'
  OBVIOUS
<1>1. /\ call \in [Callers -> Calling] /\ call[c] \in Calling /\ CountsOK(call[c])
  BY DEF HonestInv
<1>2. /\ call[c].at = "new" /\ call[c].tool \in {"ssh", "probe"}
      /\ UNCHANGED <<ssh, pvars, ran>>
  BY DEF AnswerAtOnce, Refused
<1>3. PICK q \in Calling : /\ call' = [call EXCEPT ![c] = q]
                           /\ q.tool = call[c].tool /\ CountsOK(q)
                           /\ q.rounds = call[c].rounds /\ q.round = call[c].round
                           /\ q.at \in {"denied", "error"} \/ (q.at = "ok" /\ q.rounds = <<>>)
  <2>1. CASE call[c].tool = "probe"
    <3>1. call' = [call EXCEPT ![c] = [call[c] EXCEPT !.at = "denied"]]
      BY <2>1 DEF Refused, AnswerAtOnce
    <3> DEFINE q == [call[c] EXCEPT !.at = "denied"]
    <3>2. /\ q \in Calling /\ q.tool = call[c].tool /\ q.at = "denied"
          /\ q.rounds = call[c].rounds /\ q.round = call[c].round
          /\ q.oks = call[c].oks /\ q.others = call[c].others
      BY <1>1 DEF Calling
    <3> HIDE DEF q
    <3>3. CountsOK(q)
      BY <1>1, <2>1, <3>2 DEF CountsOK
    <3> QED
      BY <3>1, <3>2, <3>3 DEF q
  <2>2. CASE call[c].tool # "probe"
    <3>1. PICK answer \in {"ok", "denied", "error"} :
             Counted(c, answer) /\ (answer = "ok" => call[c].rounds = <<>>)
      BY <2>2 DEF Refused, AnswerAtOnce
    <3> QED
      BY <1>1, <1>2, <2>2, <3>1, CountedOK
  <2> QED
    BY <2>1, <2>2
<1> QED
  BY <1>2, <1>3, NothingAskedHonest

LEMMA AskHonest == HonestInv /\ (\E c \in Callers : StartPortainer(c)) => HonestInv'
<1> SUFFICES ASSUME HonestInv, NEW c \in Callers, StartPortainer(c) PROVE HonestInv'
  OBVIOUS
<1>1. /\ call \in [Callers -> Calling] /\ call[c] \in Calling /\ CountsOK(call[c])
      /\ RoundsOK(call[c], ssh.job, ran) /\ HttpInv /\ BegunKnown(ssh.job, ran)
  BY DEF HonestInv
<1>2. call[c].at = "new" /\ call[c].tool = "portainer" /\ UNCHANGED <<ssh, ran>>
  BY DEF StartPortainer
<1>3. HttpStep({c})
  BY <1>1, AskOK DEF StartPortainer
<1>4. PICK q : q = [call[c] EXCEPT !.at = "running"] /\ call' = [call EXCEPT ![c] = q]
  BY DEF StartPortainer
<1>5. /\ q \in Calling /\ q.at = "running" /\ q.tool = "portainer"
      /\ q.rounds = call[c].rounds /\ q.round = call[c].round
      /\ q.oks = call[c].oks /\ q.others = call[c].others
  BY <1>1, <1>2, <1>4 DEF Calling
<1>6. /\ CountsOK(q) /\ RoundsOK(q, ssh'.job, ran)
      /\ OrderOK(q, c, http'[c], wire', applied')
  BY <1>1, <1>2, <1>5 DEF CountsOK, RoundsOK, OrderOK
<1>7. \A d \in Callers \ {c} : RoundsOK(call[d], ssh'.job, ran)
                            /\ OrderOK(call[d], d, http'[d], wire', applied')
  BY <1>2, <1>3, OrdersKept DEF HonestInv
<1>8. PoolOK(ssh') /\ HttpInv'
  BY <1>2, <1>3 DEF HonestInv, HttpStep
<1> QED
  BY <1>1, <1>2, <1>4, <1>5, <1>6, <1>7, <1>8, OneCall

\* What the rounds of a call allow it to be answered.
LEMMA AnswersOK ==
    ASSUME HonestInv, NEW c \in Callers, call[c].at = "running",
           call[c].tool \in {"ssh", "probe"}, NEW answer \in Answers(c),
           NEW q, q.tool = call[c].tool, q.rounds = call[c].rounds,
           q.round = call[c].round, q.at \in {answer, "error"}
    PROVE  /\ answer \in {"ok", "denied", "error"}
           /\ RoundsOK(q, ssh.job, ran) /\ OrderOK(q, c, http[c], wire, applied)
<1>1. /\ call[c] \in Calling /\ RoundsOK(call[c], ssh.job, ran)
      /\ OrderOK(call[c], c, http[c], wire, applied)
      /\ CallerOK(http[c], wire, applied, c) /\ BegunKnown(ssh.job, ran)
  BY DEF HonestInv, HttpInv
<1>2. call[c].tool # "portainer" /\ call[c].round # 0
      /\ call[c].round \in DOMAIN call[c].rounds
  BY <1>1 DEF RoundsOK
<1>3. /\ answer \in {"ok", "denied", "error"}
      /\ answer = "ok" => Settled(c) /\ ~Threw(c) /\ Last(c)
      /\ answer = "denied" => call[c].rounds[call[c].round].reads = "allowed"
  BY <1>2 DEF Answers, Verdicts, Thrown, Current
<1>4. ASSUME answer = "ok", NEW i \in DOMAIN call[c].rounds,
             Needed(call[c].rounds[i])
      PROVE  CommandsOf(call[c].rounds[i]) \subseteq ran
  <2>1. /\ call[c].round = Len(call[c].rounds) /\ i \in 1 .. Len(call[c].rounds)
        /\ Len(call[c].rounds) \in Nat
    BY <1>1, <1>3, <1>4, CallFields DEF Last
  <2>2. CASE i < call[c].round
    BY <1>1, <1>4, <2>2 DEF RoundsOK
  <2>3. CASE i = call[c].round
    <3>1. \A x \in CommandsOf(call[c].rounds[i]) : ssh.job[x].at = "resolved"
      BY <1>3, <1>4, <2>3 DEF Settled, Threw, Current, At
    <3>2. CommandsOf(call[c].rounds[i]) \subseteq Commands
      BY <1>1, <1>4, CallFields, RoundFields
    <3> QED
      BY <1>1, <3>1, <3>2 DEF BegunKnown, Begun
  <2> QED
    BY <2>1, <2>2, <2>3
<1>5. RoundsOK(q, ssh.job, ran)
  BY <1>1, <1>2, <1>3, <1>4 DEF RoundsOK
<1>6. OrderOK(q, c, http[c], wire, applied)
  BY <1>1, <1>2 DEF OrderOK, CallerOK
<1> QED
  BY <1>3, <1>5, <1>6

LEMMA FinishHonest == HonestInv /\ (\E c \in Callers : Finish(c)) => HonestInv'
<1> SUFFICES ASSUME HonestInv, NEW c \in Callers, Finish(c) PROVE HonestInv'
  OBVIOUS
<1>1. /\ call \in [Callers -> Calling] /\ call[c] \in Calling /\ CountsOK(call[c])
      /\ RoundsOK(call[c], ssh.job, ran) /\ OrderOK(call[c], c, http[c], wire, applied)
      /\ CallerOK(http[c], wire, applied, c)
  BY DEF HonestInv, HttpInv
<1>2. /\ call[c].at = "running" /\ call[c].tool \in {"ssh", "portainer"}
      /\ UNCHANGED <<ssh, pvars, ran>>
  BY DEF Finish
<1>3. PICK answer \in Answers(c) : Counted(c, answer)
  BY DEF Finish
<1>4. ASSUME answer \in {"ok", "denied", "error"}
      PROVE  \E q \in Calling :
                /\ call' = [call EXCEPT ![c] = q]
                /\ q.tool = call[c].tool /\ q.rounds = call[c].rounds
                /\ q.round = call[c].round /\ q.at \in {answer, "error"} /\ CountsOK(q)
  <2>1. call[c].tool # "probe" /\ call[c].at \in {"new", "running"}
    BY <1>2
  <2> QED
    BY <1>1, <1>3, <1>4, <2>1, CountedOK
<1>5. CASE call[c].tool = "ssh"
  <2>0. call[c].tool \in {"ssh", "probe"}
    BY <1>5
  <2>1. answer \in {"ok", "denied", "error"}
    <3>1. PICK q : q = [call[c] EXCEPT !.at = "error"]
      OBVIOUS
    <3>2. /\ q.tool = call[c].tool /\ q.rounds = call[c].rounds
          /\ q.round = call[c].round /\ q.at \in {answer, "error"}
      BY <1>1, <3>1 DEF Calling
    <3> QED
      BY <1>2, <2>0, <3>2, AnswersOK
  <2>2. PICK q \in Calling :
                /\ call' = [call EXCEPT ![c] = q]
                /\ q.tool = call[c].tool /\ q.rounds = call[c].rounds
                /\ q.round = call[c].round /\ q.at \in {answer, "error"} /\ CountsOK(q)
    BY <1>4, <2>1
  <2>3. RoundsOK(q, ssh.job, ran) /\ OrderOK(q, c, http[c], wire, applied)
    BY <1>2, <2>0, <2>2, AnswersOK
  <2> QED
    BY <1>2, <2>2, <2>3, AnswerHonest
<1>6. CASE call[c].tool = "portainer"
  <2>1. /\ answer \in {"ok", "denied", "error"}
        /\ answer = "ok" => http[c].at = "ok"
        /\ answer = "denied" => http[c].at = "denied"
    BY <1>6 DEF Answers
  <2>2. PICK q \in Calling :
                /\ call' = [call EXCEPT ![c] = q]
                /\ q.tool = call[c].tool /\ q.rounds = call[c].rounds
                /\ q.round = call[c].round /\ q.at \in {answer, "error"} /\ CountsOK(q)
    BY <1>4, <2>1
  <2>3. OrderOK(q, c, http[c], wire, applied)
    BY <1>1, <1>6, <2>1, <2>2 DEF OrderOK, CallerOK
  <2>4. RoundsOK(q, ssh.job, ran)
    <3>1. call[c].round = 0
      BY <1>1, <1>2, <1>6 DEF RoundsOK
    <3> QED
      BY <1>1, <1>6, <2>2, <3>1 DEF RoundsOK
  <2> QED
    BY <1>2, <2>2, <2>3, <2>4, AnswerHonest
<1> QED
  BY <1>2, <1>5, <1>6

\* The process ends: what was under way is lost, what was answered stands.
LEMMA RestartHonest == HonestInv /\ Restarted => HonestInv'
<1> SUFFICES ASSUME HonestInv, Restarted PROVE HonestInv'
  OBVIOUS
<1>1. /\ PoolOK(ssh') /\ \A x \in Commands : ssh'.job[x].at = "out"
  BY EmptyOK DEF Restarted
<1>2. /\ HttpInv' /\ applied' = applied /\ wire' = wire
      /\ \A c \in Callers : /\ http'[c].at = "out" <=> http[c].at = "out"
                            /\ http'[c].at \in {"out", "failed"}
                            /\ http'[c].order = http[c].order
  BY RestartOK DEF Restarted, HonestInv
<1>3. /\ ran' = ran /\ call \in [Callers -> Calling]
      /\ call' = [c \in Callers |-> IF call[c].at = "running" THEN [call[c] EXCEPT !.at = "lost"]
                                    ELSE call[c]]
  BY DEF Restarted, HonestInv
<1>4. BegunKnown(ssh'.job, ran)
  BY <1>1 DEF BegunKnown, Begun
<1>5. \A c \in Callers : /\ call'[c] \in Calling /\ CountsOK(call'[c])
                         /\ call'[c].rounds = call[c].rounds
                         /\ RoundsOK(call'[c], ssh'.job, ran)
                         /\ OrderOK(call'[c], c, http'[c], wire', applied')
  <2> SUFFICES ASSUME NEW c \in Callers
               PROVE  /\ call'[c] \in Calling /\ CountsOK(call'[c])
                      /\ call'[c].rounds = call[c].rounds
                      /\ RoundsOK(call'[c], ssh'.job, ran)
                      /\ OrderOK(call'[c], c, http'[c], wire', applied')
    OBVIOUS
  <2>1. /\ call[c] \in Calling /\ CountsOK(call[c]) /\ RoundsOK(call[c], ssh.job, ran)
        /\ OrderOK(call[c], c, http[c], wire, applied)
    BY DEF HonestInv
  <2>2. RoundsOK(call[c], ssh'.job, ran)
    <3>1. ASSUME NEW i \in DOMAIN call[c].rounds, i > call[c].round,
                 NEW x \in CommandsOf(call[c].rounds[i])
          PROVE  Unasked(ssh'.job, ran, x)
      <4>1. x \in Commands
        BY <2>1, <3>1, CallFields, RoundFields
      <4>2. Unasked(ssh.job, ran, x)
        BY <2>1, <3>1 DEF RoundsOK
      <4> QED
        BY <1>1, <4>1, <4>2 DEF Unasked
    <3> QED
      BY <2>1, <3>1 DEF RoundsOK
  <2>3. CASE call[c].at = "running"
    <3>1. call'[c] = [call[c] EXCEPT !.at = "lost"]
      BY <1>3, <2>3
    <3>2. /\ call'[c] \in Calling /\ call'[c].at = "lost" /\ call'[c].tool = call[c].tool
          /\ call'[c].rounds = call[c].rounds /\ call'[c].round = call[c].round
          /\ call'[c].oks = call[c].oks /\ call'[c].others = call[c].others
      BY <2>1, <3>1 DEF Calling
    <3>3. RoundsOK(call'[c], ssh'.job, ran)
      BY <2>2, <3>2 DEF RoundsOK
    <3> QED
      BY <1>2, <2>1, <2>3, <3>2, <3>3 DEF CountsOK, OrderOK
  <2>4. CASE call[c].at # "running"
    <3>1. call'[c] = call[c]
      BY <1>3, <2>4
    <3> QED
      BY <1>2, <2>1, <2>2, <3>1 DEF OrderOK
  <2> QED
    BY <2>3, <2>4
<1>6. call' \in [Callers -> Calling] /\ Planned(call')
  <2>1. call' \in [Callers -> Calling]
    BY <1>3, <1>5
  <2>2. Planned(call)
    BY DEF HonestInv
  <2> QED
    BY <1>5, <2>1, <2>2 DEF Planned
<1> QED
  BY <1>1, <1>2, <1>3, <1>4, <1>5, <1>6 DEF HonestInv

LEMMA ProbeHonest == HonestInv /\ (\E c \in Callers : ProbeFinish(c)) => HonestInv'
<1> SUFFICES ASSUME HonestInv, NEW c \in Callers, ProbeFinish(c), ~Restarted PROVE HonestInv'
  BY RestartHonest
<1>1. /\ call \in [Callers -> Calling] /\ call[c] \in Calling /\ CountsOK(call[c])
  BY DEF HonestInv
<1>2. /\ call[c].at = "running" /\ call[c].tool = "probe" /\ UNCHANGED <<ssh, pvars, ran>>
  BY DEF ProbeFinish
<1>3. PICK answer \in Answers(c) : call' = [call EXCEPT ![c].at = answer]
  BY DEF ProbeFinish
<1>4. PICK q : q = [call[c] EXCEPT !.at = answer]
  OBVIOUS
<1>5. /\ q.at = answer /\ q.tool = "probe"
      /\ q.rounds = call[c].rounds /\ q.round = call[c].round
      /\ q.oks = call[c].oks /\ q.others = call[c].others
      /\ call' = [call EXCEPT ![c] = q]
  BY <1>1, <1>2, <1>3, <1>4 DEF Calling
<1>6. /\ answer \in {"ok", "denied", "error"}
      /\ RoundsOK(q, ssh.job, ran) /\ OrderOK(q, c, http[c], wire, applied)
  BY <1>2, <1>3, <1>5, AnswersOK
<1>7. q \in Calling /\ CountsOK(q)
  <2>1. q \in Calling
    BY <1>1, <1>4, <1>6 DEF Calling
  <2> QED
    BY <1>1, <1>2, <1>5, <2>1 DEF CountsOK
<1> QED
  BY <1>2, <1>5, <1>6, <1>7, AnswerHonest

\* The console closes the pool, or opens the target again.
LEMMA ConsoleHonest == HonestInv /\ (Revoke \/ Enable) => HonestInv'
<1> SUFFICES ASSUME HonestInv, Revoke \/ Enable PROVE HonestInv'
  OBVIOUS
<1>1. UNCHANGED <<pvars, call, ran>> /\ PoolOK(ssh') /\ ssh'.job = ssh.job
  BY ClosedOK DEF Revoke, Enable, HonestInv
<1>2. HttpInv'
  BY <1>1 DEF HonestInv, HttpInv, pvars
<1> QED
  BY <1>1, <1>2 DEF HonestInv, Planned, pvars

LEMMA HonestInit == Init => HonestInv
<1> SUFFICES ASSUME Init PROVE HonestInv
  OBVIOUS
<1>1. PoolOK(ssh) /\ \A x \in Commands : ssh.job[x].at = "out"
  BY EmptyOK DEF Init, SshInit
<1>2. HttpInv
  <2>1. /\ stacks \in [Stacks -> Stack] /\ wire = {} /\ applied = {}
        /\ http = [c \in Callers |-> Idle]
        /\ key \in [cached : Tokens, file : {"old", "new"}, good : {"old", "new"}]
    BY PortainerAssumption DEF Init, PortainerInit, Tokens
  <2>2. Idle \in HttpCall /\ Idle.at = "out"
    BY IdleOK
  <2> QED
    BY <2>1, <2>2 DEF HttpInv, CallerOK, Clean
<1>3. PICK plan \in Plans :
         call = [c \in Callers |-> [at |-> "new", tool |-> plan[c].tool,
                                   rounds |-> plan[c].rounds, round |-> 0,
                                   oks |-> 0, others |-> 0, failedWrite |-> FALSE]]
  BY DEF Init
<1>4. ASSUME NEW c \in Callers
      PROVE  /\ call[c] \in Calling /\ call[c].at = "new" /\ call[c].round = 0
             /\ call[c].rounds = plan[c].rounds
             /\ call[c].oks = 0 /\ call[c].others = 0
  <2>1. plan[c].tool \in Tools /\ plan[c].rounds \in Seq(Round)
    BY ToolCallsAssumption
  <2> QED
    BY <1>3, <2>1 DEF Calling
<1>5. ran = {} /\ \A c \in Callers : http[c].at = "out"
  BY IdleOK DEF Init, PortainerInit
<1>6. BegunKnown(ssh.job, ran)
  BY <1>1 DEF BegunKnown, Begun
<1>7. ASSUME NEW c \in Callers
      PROVE  /\ CountsOK(call[c]) /\ RoundsOK(call[c], ssh.job, ran)
             /\ OrderOK(call[c], c, http[c], wire, applied)
  <2>1. \A i \in DOMAIN call[c].rounds : i > 0 /\ CommandsOf(call[c].rounds[i]) \subseteq Commands
    BY <1>4, CallFields, RoundFields
  <2>2. \A i \in DOMAIN call[c].rounds : \A x \in CommandsOf(call[c].rounds[i]) :
           Unasked(ssh.job, ran, x)
    BY <1>1, <1>5, <2>1 DEF Unasked
  <2>3. RoundsOK(call[c], ssh.job, ran)
    BY <1>4, <2>1, <2>2, CallFields DEF RoundsOK
  <2> QED
    BY <1>4, <1>5, <2>3 DEF CountsOK, OrderOK
<1>8. call \in [Callers -> Calling] /\ Planned(call)
  BY <1>3, <1>4 DEF Planned
<1> QED
  BY <1>1, <1>2, <1>6, <1>7, <1>8 DEF HonestInv

LEMMA HonestNext == HonestInv /\ [Next]_vars => HonestInv'
<1>1. HonestInv /\ UNCHANGED vars => HonestInv'
  BY DEF HonestInv, HttpInv, Planned, vars, pvars
<1> QED
  BY <1>1, SshHonest, HttpHonest, StartHonest, AtOnceHonest, AskHonest, FinishHonest,
     ProbeHonest, RestartHonest, ConsoleHonest DEF Next, Crash

LEMMA HonestAlways == Spec => []HonestInv
  BY HonestInit, HonestNext, PTL DEF Spec

\* A queue that holds a set, each of it once, is as long as the set is large.
LEMMA QueueLength ==
    ASSUME NEW q \in Seq(Commands), NEW S, S = {q[i] : i \in 1 .. Len(q)},
           \A i, j \in 1 .. Len(q) : q[i] = q[j] => i = j
    PROVE  IsFiniteSet(S) /\ Cardinality(S) = Len(q)
<1> DEFINE f == [i \in 1 .. Len(q) |-> q[i]]
<1>1. /\ f \in [1 .. Len(q) -> S]
      /\ \A i, j \in 1 .. Len(q) : f[i] = f[j] => i = j
      /\ \A x \in S : \E i \in 1 .. Len(q) : f[i] = x
  OBVIOUS
<1>2. ExistsBijection(1 .. Len(q), S)
  BY <1>1, Fun_IsBij DEF ExistsBijection
<1>3. IsFiniteSet(1 .. Len(q)) /\ Cardinality(1 .. Len(q)) = Len(q) /\ Len(q) \in Nat
  <2>1. Len(q) \in Nat /\ 1 \in Int /\ Len(q) \in Int
    OBVIOUS
  <2>2. /\ IsFiniteSet(1 .. Len(q))
        /\ Cardinality(1 .. Len(q)) = IF 1 > Len(q) THEN 0 ELSE Len(q) - 1 + 1
    BY <2>1, FS_Interval
  <2> QED
    BY <2>1, <2>2
<1> QED
  BY <1>2, <1>3, FS_Bijection

\* SlotsAccounted: the semaphore counts the commands that hold a slot, the queue
\* those that wait, and nobody waits while a slot is free (pool.ts:15), with
\* revocations, sweeps, failed writes and crashes in between.
THEOREM SlotsAreAccounted == Spec => []SlotsAccounted
<1>1. HonestInv => SlotsAccounted
  <2> SUFFICES ASSUME PoolOK(ssh) PROVE SlotsAccounted
    BY DEF HonestInv
  <2>1. SshInSlot = Holders(ssh) /\ SshQueued = Waiters(ssh)
    BY DEF SshInSlot, SshQueued, Holders, Waiters, At
  <2>2. QueueHolds(ssh, Waiters(ssh)) /\ ssh.queue \in Seq(Commands)
    BY PoolFields DEF PoolOK
  <2>3. Len(ssh.queue) = Cardinality(Waiters(ssh))
    BY <2>2, QueueLength DEF QueueHolds
  <2> QED
    BY <2>1, <2>2, <2>3 DEF PoolOK, QueueHolds, SlotsAccounted
<1> QED
  BY <1>1, HonestAlways, PTL

\* PooledLinkIsUp: the pool never hands out a link that is closed or closing
\* (pool.ts:19-20, 22).
THEOREM PooledLinkStaysUp == Spec => []PooledLinkIsUp
<1>1. HonestInv => PooledLinkIsUp
  BY DEF HonestInv, PoolOK, LinkOK, PooledLinkIsUp
<1> QED
  BY <1>1, HonestAlways, PTL

\* AnswersAreHonest: what a call is answered is no more than what was done on
\* the target and in Portainer: an ok had every command started that the tool cannot
\* do without, a denial came before anything was started or for what a command said,
\* and a call is counted once unless a write failed
\* (mcp.ts:34-46, store.ts:250-266, paths.ts:13-20, client.ts:71-78).
THEOREM AnswersStayHonest == Spec => []AnswersAreHonest
<1>1. HonestInv => AnswersAreHonest
  <2> SUFFICES ASSUME HonestInv, NEW c \in Callers
               PROVE  LET r == call[c] IN
                      /\ r.at = "ok" /\ r.tool \in {"ssh", "probe"} =>
                            \A i \in DOMAIN r.rounds :
                               Needed(r.rounds[i]) => CommandsOf(r.rounds[i]) \subseteq ran
                      /\ r.at = "ok" /\ r.tool = "portainer" /\ http[c].order.kind # "read"
                            => c \in applied
                      /\ r.at = "ok" /\ r.tool # "probe" => r.oks = 1 /\ r.others = 0
                      /\ r.at = "denied" =>
                            /\ c \notin applied
                            /\ \A i \in DOMAIN r.rounds :
                                  CommandsOf(r.rounds[i]) \cap ran # {} =>
                                     i <= r.round /\ r.rounds[r.round].reads = "allowed"
                      /\ r.oks + r.others > 1 => r.at = "error" /\ r.failedWrite
    BY DEF AnswersAreHonest
  <2>1. /\ call[c] \in Calling /\ CountsOK(call[c]) /\ RoundsOK(call[c], ssh.job, ran)
        /\ OrderOK(call[c], c, http[c], wire, applied)
    BY DEF HonestInv
  <2>2. call[c].oks + call[c].others > 1 => call[c].at = "error" /\ call[c].failedWrite
    BY <2>1, CallFields DEF CountsOK
  <2>3. ASSUME call[c].at = "ok", call[c].tool \in {"ssh", "probe"},
               NEW i \in DOMAIN call[c].rounds, Needed(call[c].rounds[i])
        PROVE  CommandsOf(call[c].rounds[i]) \subseteq ran
    BY <2>1, <2>3 DEF RoundsOK
  <2>4. ASSUME call[c].at = "denied", NEW i \in DOMAIN call[c].rounds,
               CommandsOf(call[c].rounds[i]) \cap ran # {}
        PROVE  i <= call[c].round /\ call[c].rounds[call[c].round].reads = "allowed"
    <3>1. i \in Nat /\ i # 0 /\ call[c].round \in Nat
      BY <2>1, <2>4, CallFields
    <3>2. ~(i > call[c].round)
      BY <2>1, <2>4 DEF RoundsOK, Unasked
    <3>3. i <= call[c].round /\ call[c].round # 0
      BY <3>1, <3>2
    <3> QED
      BY <2>1, <2>4, <3>3 DEF RoundsOK
  <2>5. call[c].at = "denied" => c \notin applied
    BY <2>1 DEF OrderOK, Clean
  <2> QED
    BY <2>1, <2>2, <2>3, <2>4, <2>5 DEF CountsOK, OrderOK
<1> QED
  BY <1>1, HonestAlways, PTL

\* LostOnlyToStaleRead: an update or a redeploy undoes somebody else's change
\* only if that change came between its read and its write
\* (client.ts:221-231, 249-270, 306-317).
THEOREM OnlyStaleReadsLose == Spec => LostOnlyToStaleRead
<1>1. HonestInv /\ [Next]_vars => [StaleOnly]_pvars
  <2> SUFFICES ASSUME HonestInv, [Next]_vars, pvars' # pvars PROVE StaleOnly
    OBVIOUS
  <2>1. CASE Http
    BY <2>1, PortainerStaleOnly DEF Http, HonestInv
  <2>2. ASSUME NEW c \in Callers, NEW o, Ask(c, o) PROVE StaleOnly
    BY <2>2, SameStacks DEF Ask
  <2>3. CASE Restarted
    BY <2>3, SameStacks DEF Restarted, PortainerRestart
  <2> QED
    BY <2>1, <2>2, <2>3
       DEF Next, Ssh, StartSsh, AnswerAtOnce, Refused, StartPortainer, NextRound, StartRound,
           Finish, ProbeFinish, Crash, Revoke, Enable, vars
<1>2. [][StaleOnly]_pvars => LostOnlyToStaleRead
  BY DEF StaleOnly, LostOnlyToStaleRead
<1> QED
  BY <1>1, <1>2, HonestAlways, PTL DEF Spec

\* TypeOK: what the pool, the calls and the target's control may hold.
THEOREM TypeCorrect == Spec => []TypeOK
<1> DEFINE Rest == /\ control \in [mem : BOOLEAN, disk : BOOLEAN]
                   /\ told \in BOOLEAN /\ ran \subseteq Commands /\ faults \in 0 .. MaxFaults
<1>1. Init => Rest
  <2> SUFFICES ASSUME Init PROVE Rest
    OBVIOUS
  <2>1. faults \in 0 .. MaxFaults
    BY ToolCallsAssumption DEF Init
  <2>2. control \in [mem : BOOLEAN, disk : BOOLEAN]
    BY DEF Init
  <2> QED
    BY <2>1, <2>2 DEF Init
<1>2. Rest /\ [Next]_vars => Rest'
  <2> SUFFICES ASSUME Rest, [Next]_vars PROVE Rest'
    OBVIOUS
  <2>0. MaxFaults \in Nat
    BY ToolCallsAssumption
  <2>1. ASSUME NEW c \in Callers, NEW answer, Counted(c, answer), UNCHANGED <<told, ran>>
        PROVE  Rest'
    BY <2>0, <2>1 DEF Counted, Written, NotWritten
  <2>2. CASE \E c \in Callers : AnswerAtOnce(c) \/ Refused(c) \/ Finish(c)
    BY <2>1, <2>2 DEF AnswerAtOnce, Refused, Finish
  <2>3. CASE Crash \/ \E c \in Callers : ProbeFinish(c)
    BY <2>0, <2>3 DEF Crash, ProbeFinish, Restarted, Written
  <2>4. CASE Revoke \/ Enable
    <3>1. \/ control' = [mem |-> FALSE, disk |-> FALSE] \/ control' = [mem |-> TRUE, disk |-> TRUE]
          \/ control' = [control EXCEPT !.mem = FALSE]
          \/ control' = [control EXCEPT !.mem = TRUE]
      BY <2>4 DEF Revoke, Enable, SetTargetEnabled
    <3>2. /\ [control EXCEPT !.mem = FALSE] \in [mem : BOOLEAN, disk : BOOLEAN]
          /\ [control EXCEPT !.mem = TRUE] \in [mem : BOOLEAN, disk : BOOLEAN]
          /\ [mem |-> FALSE, disk |-> FALSE] \in [mem : BOOLEAN, disk : BOOLEAN]
          /\ [mem |-> TRUE, disk |-> TRUE] \in [mem : BOOLEAN, disk : BOOLEAN]
      OBVIOUS
    <3>3. control' \in [mem : BOOLEAN, disk : BOOLEAN]
      BY <3>1, <3>2, Zenon
    <3>4. told' \in BOOLEAN /\ ran' = ran
      BY <2>4 DEF Revoke, Enable
    <3>5. faults' \in 0 .. MaxFaults
      <4>1. faults' = faults \/ (faults < MaxFaults /\ faults' = faults + 1)
        BY <2>4 DEF Revoke, Enable
      <4> QED
        BY <2>0, <4>1
    <3> QED
      BY <3>3, <3>4, <3>5
  <2>5. CASE \/ Ssh \/ Http \/ UNCHANGED vars
             \/ \E c \in Callers : StartSsh(c) \/ StartPortainer(c) \/ NextRound(c)
    BY <2>5 DEF Ssh, Http, vars, StartSsh, StartPortainer, NextRound, StartRound
  <2> QED
    BY <2>2, <2>3, <2>4, <2>5 DEF Next
<1>3. HonestInv /\ Rest => TypeOK
  BY DEF HonestInv, PoolOK, Pools, TypeOK, SshType
<1> QED
  BY <1>1, <1>2, <1>3, HonestAlways, PTL DEF Spec

====================================================================================
