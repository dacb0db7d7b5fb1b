------------------------------ MODULE OAuthProofs ------------------------------
(***************************************************************************)
(* Safety of the OAuth server for any numbers of clients, codes, sessions  *)
(* and tokens, under failed writes and restarts.  The invariant says of    *)
(* the state in memory and of the state in the file the same things        *)
(* (Good), so that a restart, which replaces one by the other, and a       *)
(* write, which does the converse, both preserve it.                       *)
(***************************************************************************)
EXTENDS OAuth, TLAPS

USE OAuthAssumption

\* In state st the client of session s can go on with its n-th token.
Keeps(st, s, n) == st.refresh[s] = n /\ s \notin st.revoked /\ ClientLive(st, Owner[s])

\* What holds of a state, in memory or in the file.
Good(st) ==
    /\ st \in Store
    /\ st.clients \subseteq drawn
    /\ st.codes \subseteq drawn
    /\ st.revoked \subseteq drawn
    /\ Stored(st) \subseteq drawn
    /\ \A k \in st.codes : spent[k] = {}
    /\ \A s \in Stored(st) : st.refresh[s] <= minted[s]
    /\ \A s \in Stored(st), n \in 1 .. MaxTokens : <<s, n>> \in sent => n <= st.refresh[s]
    /\ \A s \in Sessions \ upset, n \in 1 .. MaxTokens : Holds(s, n) => Keeps(st, s, n)
    /\ \A c \in confirmed \cap Clients : ~ClientLive(st, c)
    /\ \A s \in confirmed \cap Sessions : s \notin Stored(st) \ st.revoked

\* What holds of the history.
History ==
    /\ confirmed \subseteq drawn
    /\ \A k \in Codes \ drawn : spent[k] = {}
    /\ \A s \in Sessions, n \in 1 .. MaxTokens :
          <<s, n>> \in sent => s \in drawn /\ n <= minted[s]

IInv == TypeOK /\ CodesAreOneTime /\ History /\ Good(mem) /\ Good(disk)

-----------------------------------------------------------------------------
\* Forgetting clients, sessions and codes keeps a state good.
LEMMA PurgedGood ==
    ASSUME NEW st, Good(st), NEW new \in Purged(st)
    PROVE  Good(new)
<1>1. PICK old \in SUBSET NeverActivated(st), gone \in SUBSET Stale(st) :
         new = Without(st, old, expired, gone)
  BY DEF Purged
<1> DEFINE rev == st.revoked \ (old \cup gone)
           ref == [s \in Sessions |-> IF s \in gone THEN 0 ELSE st.refresh[s]]
<1>2. old \subseteq Clients /\ gone \subseteq Sessions /\ st \in Store
  BY DEF Good, Store, NeverActivated, Stale, Stored
<1>3. new = [clients |-> st.clients \ old, revoked |-> rev, seen |-> st.seen,
             codes |-> st.codes \ expired, refresh |-> ref]
  BY <1>1 DEF Without
<1>4. new \in Store
  BY <1>2, <1>3 DEF Store
<1>5. /\ new.clients = st.clients \ old /\ new.codes = st.codes \ expired
      /\ new.refresh = ref /\ new.revoked = rev
  BY <1>3
<1>6. Stored(new) = Stored(st) \ gone
  BY <1>5, <1>2 DEF Stored
<1>7. \A s \in Stored(new) : new.refresh[s] = st.refresh[s]
  BY <1>5, <1>6 DEF Stored
<1>8. \A c \in confirmed \cap Clients : ~ClientLive(new, c)
  BY <1>2, <1>5 DEF Good, ClientLive
<1>9. \A s \in confirmed \cap Sessions : s \notin Stored(new) \ new.revoked
  BY <1>2, <1>5, <1>6 DEF Good
<1>10. ASSUME NEW s \in Sessions, NEW n \in 1 .. MaxTokens, Holds(s, n), Keeps(st, s, n)
       PROVE  Keeps(new, s, n)
  <2>1. s \in Stored(st) /\ <<s, st.refresh[s]>> \notin expired /\ s \notin st.revoked
    BY <1>10 DEF Keeps, Holds, Stored
  <2>2. s \notin gone /\ Owner[s] \notin old
    BY <2>1 DEF Stale, NeverActivated
  <2> QED
    BY <1>2, <1>5, <1>10, <2>2 DEF Keeps, ClientLive
<1>11. rev \subseteq drawn
  BY DEF Good
<1> HIDE DEF rev, ref
<1> QED
  BY <1>4, <1>5, <1>6, <1>7, <1>8, <1>9, <1>10, <1>11 DEF Good

-----------------------------------------------------------------------------
(* Steps *)

\* A state that a step leaves alone stays good, if the step only adds to the
\* history and neither sends a token nor uses one of the state's codes.
LEMMA Stable ==
    ASSUME NEW st, Good(st), drawn \subseteq drawn', upset \subseteq upset',
           expired \subseteq expired', confirmed' = confirmed,
           \A k \in st.codes : spent'[k] = {},
           \A s \in Stored(st) : minted[s] \in Nat /\ minted'[s] \in Nat /\ minted[s] <= minted'[s],
           \A s \in Sessions, n \in 1 .. MaxTokens : <<s, n>> \in sent' <=> <<s, n>> \in sent
    PROVE  Good(st)'
<1>1. \A s \in Stored(st) : st.refresh[s] \in Nat /\ s \in Sessions
  BY DEF Good, Store, Stored
<1>2. \A s \in Sessions, n \in 1 .. MaxTokens : Holds(s, n)' => Holds(s, n)
  BY DEF Holds
<1> QED
  BY <1>1, <1>2 DEF Good, Keeps, Stored, ClientLive

\* With the history unchanged.
LEMMA Unmoved ==
    ASSUME NEW st, Good(st), expired \subseteq expired', upset \subseteq upset',
           UNCHANGED <<drawn, minted, sent, spent, confirmed>>
    PROVE  Good(st)'
<1>1. \A s \in Sessions, n \in 1 .. MaxTokens : Holds(s, n)' => Holds(s, n)
  BY DEF Holds
<1> QED
  BY <1>1 DEF Good, Keeps, Stored, ClientLive

\* The invariant holds initially.
LEMMA InitIInv == Init => IInv
<1> SUFFICES ASSUME Init PROVE IInv
  OBVIOUS
<1>1. EmptyState \in Store /\ Stored(EmptyState) = {}
  BY DEF EmptyState, Store, Stored
<1>2. TypeOK
  BY <1>1 DEF Init, TypeOK
<1>3. Good(EmptyState)
  BY <1>1, <1>2 DEF Good, Holds, Init, EmptyState
<1> QED
  BY <1>2, <1>3 DEF IInv, Init, CodesAreOneTime, History

\* Registration: what is left of the clients, and one that was never drawn.
LEMMA RegisterStep ==
    ASSUME IInv, NEW c \in Clients, Register(c)
    PROVE  IInv'
<1> USE DEF IInv
<1>0. PICK st, file : st = mem /\ file = disk
  OBVIOUS
<1>1. PICK old \in SUBSET NeverActivated(st) :
         LET kept == Without(st, old, {}, {})
             new == [kept EXCEPT !.clients = @ \cup {c}]
         IN  mem' = new /\ (disk' = new \/ disk' = file)
  BY <1>0 DEF Register, Save, SaveFails
<1> DEFINE kept == Without(st, old, {}, {})
           new == [kept EXCEPT !.clients = @ \cup {c}]
<1>2. Good(st) /\ Good(file) /\ st \in Store /\ old \subseteq Clients
  BY <1>0 DEF Good, NeverActivated, Store
<1>3. kept \in Store /\ Good(kept)
  <2>1. kept = [clients |-> st.clients \ old, revoked |-> st.revoked \ old, seen |-> st.seen,
                codes |-> st.codes, refresh |-> st.refresh]
    <3>1. [s \in Sessions |-> IF s \in {} THEN 0 ELSE st.refresh[s]] = st.refresh
      BY <1>2 DEF Store
    <3>2. old \cup {} = old /\ st.codes \ {} = st.codes
      OBVIOUS
    <3> QED
      BY <3>1, <3>2 DEF Without
  <2>2. kept \in Store
    BY <1>2, <2>1 DEF Store
  <2>3. Stored(kept) = Stored(st)
    BY <2>1 DEF Stored
  <2>4. \A x \in Clients : ~ClientLive(st, x) => ~ClientLive(kept, x)
    BY <2>1 DEF ClientLive
  <2>5. \A s \in Sessions : s \notin old
    BY <1>2
  <2>6. kept.clients \subseteq st.clients /\ kept.codes = st.codes /\ kept.refresh = st.refresh
    BY <2>1
  <2>7. \A s \in Sessions : s \in st.revoked => s \in kept.revoked
    BY <2>1, <2>5
  <2>8. ASSUME NEW s \in Sessions, NEW n \in 1 .. MaxTokens, Keeps(st, s, n)
        PROVE  Keeps(kept, s, n)
    <3>1. Owner[s] \notin old
      BY <2>8 DEF Keeps, NeverActivated, Stored
    <3> QED
      BY <2>1, <2>8, <3>1 DEF Keeps, ClientLive
  <2>9. kept.revoked \subseteq drawn
    BY <1>2, <2>1 DEF Good
  <2> HIDE DEF kept
  <2> QED
    BY <1>2, <2>2, <2>3, <2>4, <2>6, <2>7, <2>8, <2>9 DEF Good
<1>4. c \notin confirmed /\ drawn' = drawn \cup {c} /\ drawn \subseteq drawn'
  BY DEF Register, History
<1>5. UNCHANGED <<minted, sent, expired, spent, confirmed, upset>>
  BY DEF Register
<1>6. /\ new \in Store /\ new.refresh = kept.refresh /\ new.revoked = kept.revoked
      /\ new.codes = kept.codes /\ new.clients = kept.clients \cup {c}
  BY <1>3 DEF Store
<1>7. ASSUME NEW x, Good(x) PROVE Good(x)'
  <2>1. \A s \in Sessions : minted[s] \in Nat
    BY DEF TypeOK
  <2>2. \A k \in x.codes : spent'[k] = {}
    BY <1>5, <1>7 DEF Good
  <2> QED
    BY <1>4, <1>5, <1>7, <2>1, <2>2, Stable DEF Stored
<1>8. Good(new)'
  <2> HIDE DEF kept, new
  <2>1. Good(kept)' /\ Stored(new) = Stored(kept)
    BY <1>3, <1>6, <1>7 DEF Stored
  <2>2. \A s \in Sessions, n \in 1 .. MaxTokens : Keeps(kept, s, n) => Keeps(new, s, n)
    BY <1>6 DEF Keeps, ClientLive
  <2>3. c \notin confirmed'
    BY <1>4, <1>5
  <2> QED
    BY <1>4, <1>6, <2>1, <2>2, <2>3 DEF Good, ClientLive
<1>9. Good(file)'
  BY <1>2, <1>7
<1>10. Good(mem)' /\ Good(disk)'
  <2>1. mem' = new /\ (disk' = new \/ disk' = file)
    BY <1>1
  <2> HIDE DEF new
  <2> QED
    BY <2>1, <1>8, <1>9
<1>11. TypeOK'
  BY <1>4, <1>5, <1>10 DEF TypeOK, Good
<1> QED
  BY <1>4, <1>5, <1>10, <1>11 DEF CodesAreOneTime, History

\* A code is added.
LEMMA AuthorizeStep ==
    ASSUME IInv, NEW k \in Codes, Authorize(k)
    PROVE  IInv'
<1> USE DEF IInv
<1>0. PICK st, file : st = mem /\ file = disk
  OBVIOUS
<1> DEFINE new == [st EXCEPT !.codes = @ \cup {k}]
<1>1. /\ drawn' = drawn \cup {k} /\ k \notin drawn /\ (sent' = sent \cup {k} \/ sent' = sent)
      /\ UNCHANGED <<minted, expired, spent, confirmed, upset>>
  BY DEF Authorize
<1>2. Good(st) /\ Good(file) /\ st \in Store
  BY <1>0 DEF Good
<1>3. mem' = new /\ (disk' = new \/ disk' = file)
  BY <1>0 DEF Authorize, Save, SaveFails
<1>4. /\ new \in Store /\ new.clients = st.clients /\ new.revoked = st.revoked
      /\ new.codes = st.codes \cup {k} /\ new.refresh = st.refresh
  BY <1>2 DEF Store
<1>5. \A s \in Sessions, n \in 1 .. MaxTokens : <<s, n>> \in sent' <=> <<s, n>> \in sent
  BY <1>1
<1>6. spent[k] = {} /\ drawn \subseteq drawn' /\ Stored(st) \subseteq Sessions
  BY <1>1 DEF History, Stored
<1>7. ASSUME NEW x, Good(x) PROVE Good(x)'
  <2>1. \A s \in Stored(x) : minted[s] \in Nat /\ minted[s] <= minted[s]
    BY DEF TypeOK, Stored
  <2>2. \A y \in x.codes : spent'[y] = {}
    BY <1>1, <1>7 DEF Good
  <2> QED
    BY <1>1, <1>5, <1>6, <1>7, <2>1, <2>2, Stable
<1>8. Good(new)' /\ Good(file)'
  <2> HIDE DEF new
  <2>1. Good(st)' /\ Good(file)' /\ Stored(new) = Stored(st)
    BY <1>2, <1>4, <1>7 DEF Stored
  <2>2. \A s \in Sessions, n \in 1 .. MaxTokens : Keeps(st, s, n) => Keeps(new, s, n)
    BY <1>4 DEF Keeps, ClientLive
  <2> QED
    BY <1>1, <1>4, <1>6, <2>1, <2>2 DEF Good, ClientLive
<1>9. Good(mem)' /\ Good(disk)'
  <2> HIDE DEF new
  <2> QED
    BY <1>3, <1>8
<1>10. TypeOK'
  BY <1>1, <1>9 DEF TypeOK, Good
<1>11. CodesAreOneTime'
  BY <1>1 DEF CodesAreOneTime
<1>12. History'
  BY <1>1, <1>5, <1>6 DEF History, TypeOK
<1> QED
  BY <1>9, <1>10, <1>11, <1>12

\* A code is consumed, and perhaps a session opened with it.
LEMMA TakenGood ==
    ASSUME NEW st, Good(st), NEW k \in Codes
    PROVE  LET new == [st EXCEPT !.codes = @ \ {k}]
           IN  /\ Good(new) /\ new.codes = st.codes \ {k} /\ new.refresh = st.refresh
               /\ new.clients = st.clients /\ new.revoked = st.revoked
<1> DEFINE new == [st EXCEPT !.codes = @ \ {k}]
<1>1. /\ new \in Store /\ new.clients = st.clients /\ new.revoked = st.revoked
      /\ new.codes = st.codes \ {k} /\ new.refresh = st.refresh
  BY DEF Good, Store
<1>2. Good(new)
  <2> HIDE DEF new
  <2> QED
    BY <1>1 DEF Good, Keeps, Stored, ClientLive
<1> QED
  BY <1>1, <1>2

\* A refused exchange and a call change one state and nothing of the history.
LEMMA QuietStep ==
    ASSUME IInv, NEW new, Good(new), mem' = new, disk' = new \/ disk' = disk,
           UNCHANGED <<drawn, minted, sent, expired, spent, confirmed, upset>>
    PROVE  IInv'
<1> USE DEF IInv
<1>0. PICK file : file = disk
  OBVIOUS
<1>1. Good(new)' /\ Good(file)'
  BY <1>0, Unmoved
<1>2. Good(mem)' /\ Good(disk)'
  BY <1>0, <1>1
<1>3. TypeOK'
  BY <1>2 DEF TypeOK, Good
<1> QED
  BY <1>2, <1>3 DEF CodesAreOneTime, History

\* A session that was never drawn is opened with a code that was not used.
LEMMA ExchangeStep ==
    ASSUME IInv, NEW k \in Codes, NEW s \in Sessions, Exchange(k, s)
    PROVE  IInv'
<1> USE DEF IInv
<1>0. PICK st, file : st = mem /\ file = disk
  OBVIOUS
<1> DEFINE taken == [st EXCEPT !.codes = @ \ {k}]
           new == [taken EXCEPT !.refresh[s] = 1]
<1>1. /\ s \notin drawn /\ drawn' = drawn \cup {s} /\ drawn \subseteq drawn'
      /\ minted' = [minted EXCEPT ![s] = 1] /\ spent' = [spent EXCEPT ![k] = @ \cup {s}]
      /\ UNCHANGED <<expired, confirmed, upset>> /\ k \in mem.codes
  BY DEF Exchange
<1>2. /\ mem' = new
      /\ \/ disk' = new /\ sent' = sent \cup {<<s, 1>>}
         \/ disk' = taken /\ sent' = sent
  BY <1>0 DEF Exchange, SessionOpened, CodeTaken
<1>3. /\ Good(taken) /\ taken.codes = st.codes \ {k} /\ taken.refresh = st.refresh
      /\ taken.clients = st.clients /\ taken.revoked = st.revoked
  BY <1>0, TakenGood
<1> HIDE DEF taken
<1>4. /\ new \in Store /\ new.clients = taken.clients /\ new.revoked = taken.revoked
      /\ new.codes = taken.codes /\ new.refresh = [taken.refresh EXCEPT ![s] = 1]
  BY <1>3 DEF Good, Store
<1>5. /\ s \notin Stored(taken) /\ spent[k] = {} /\ minted' \in [Sessions -> 0 .. MaxTokens]
      /\ minted \in [Sessions -> 0 .. MaxTokens] /\ spent' \in [Codes -> SUBSET Sessions]
      /\ spent \in [Codes -> SUBSET Sessions]
  BY <1>0, <1>1, <1>3 DEF Good, TypeOK
<1>6. /\ sent \subseteq sent' /\ (<<s, 1>> \in sent' \/ sent' = sent)
      /\ \A n \in 1 .. MaxTokens : <<s, n>> \in sent' => n = 1
      /\ \A u \in Sessions \ {s}, n \in 1 .. MaxTokens : <<u, n>> \in sent' <=> <<u, n>> \in sent
  BY <1>1, <1>2 DEF History
<1>7. ASSUME sent' = sent PROVE Good(taken)'
  <2>1. \A x \in taken.codes : spent'[x] = {}
    BY <1>1, <1>3, <1>5 DEF Good, Store
  <2>2. Stored(taken) \subseteq Sessions \ {s}
    BY <1>5 DEF Stored
  <2>3. \A u \in Stored(taken) : minted'[u] = minted[u] /\ minted[u] \in Nat
    BY <1>1, <1>5, <2>2
  <2> QED
    BY <1>1, <1>3, <1>7, <2>1, <2>3, Stable
<1>8. Stored(new) = Stored(taken) \cup {s} /\ \A u \in Stored(taken) : new.refresh[u] = taken.refresh[u]
  BY <1>3, <1>4, <1>5 DEF Stored, Good, Store
<1>9. new.refresh[s] = 1 /\ minted'[s] = 1 /\ s \notin confirmed
  BY <1>1, <1>3, <1>4, <1>5 DEF Good, Store, History
<1>10. ASSUME NEW u \in Sessions \ upset', NEW n \in 1 .. MaxTokens, Holds(u, n)'
       PROVE  Keeps(new, u, n)
  <2> HIDE DEF new
  <2>1. CASE u = s
    <3>1. n = 1
      BY <1>6, <1>10, <2>1 DEF Holds
    <3>2. s \notin taken.revoked /\ ClientLive(taken, Owner[s])
      BY <1>0, <1>1, <1>3 DEF Good, Exchange, ClientLive
    <3> QED
      BY <1>4, <1>9, <2>1, <3>1, <3>2 DEF Keeps, ClientLive
  <2>2. CASE u # s
    <3>1. Holds(u, n)
      BY <1>1, <1>6, <1>10, <2>2 DEF Holds
    <3>2. Keeps(taken, u, n)
      BY <1>1, <1>3, <1>10, <3>1 DEF Good
    <3> QED
      BY <1>3, <1>4, <2>2, <3>2 DEF Keeps, ClientLive, Good, Store
  <2> QED
    BY <2>1, <2>2
<1>11. Good(new)'
  <2> HIDE DEF new
  <2>1. (new \in Store)'
    BY <1>4
  <2>2. /\ new.clients \subseteq drawn' /\ new.codes \subseteq drawn' /\ Stored(new) \subseteq drawn'
        /\ new.revoked \subseteq drawn'
        /\ \A x \in new.codes : spent'[x] = {}
    BY <1>1, <1>3, <1>4, <1>5, <1>8 DEF Good, Store
  <2>3. \A u \in Stored(new) : new.refresh[u] <= minted'[u]
    BY <1>1, <1>3, <1>5, <1>8, <1>9 DEF Good, Stored
  <2>4. \A u \in Stored(new), n \in 1 .. MaxTokens : <<u, n>> \in sent' => n <= new.refresh[u]
    BY <1>3, <1>5, <1>6, <1>8, <1>9 DEF Good, Stored
  <2>5. \A c \in confirmed' \cap Clients : ~ClientLive(new, c)
    BY <1>1, <1>3, <1>4 DEF Good, ClientLive
  <2>6. \A u \in confirmed' \cap Sessions : u \notin Stored(new) \ new.revoked
    BY <1>1, <1>3, <1>4, <1>8, <1>9 DEF Good, Stored
  <2> QED
    BY <1>10, <2>1, <2>2, <2>3, <2>4, <2>5, <2>6 DEF Good, Stored, ClientLive
<1>12. mem' = new /\ (disk' = new \/ (disk' = taken /\ sent' = sent))
  BY <1>2
<1>13. Good(mem)' /\ Good(disk)'
  <2> HIDE DEF new
  <2> QED
    BY <1>7, <1>11, <1>12
<1>14. TypeOK'
  <2>1. sent' \subseteq Codes \cup Tokens /\ expired' \subseteq sent'
    BY <1>1, <1>2 DEF TypeOK, Tokens
  <2> QED
    BY <1>1, <1>5, <1>13, <2>1 DEF TypeOK, Good
<1>15. CodesAreOneTime'
  BY <1>1, <1>5 DEF CodesAreOneTime
<1>16. History'
  <2>1. k \in drawn
    BY <1>0, <1>1 DEF Good
  <2>2. \A x \in Codes \ drawn' : spent'[x] = {}
    BY <1>1, <1>5, <2>1 DEF History
  <2>3. \A u \in Sessions, n \in 1 .. MaxTokens : <<u, n>> \in sent' => u \in drawn' /\ n <= minted'[u]
    BY <1>1, <1>5, <1>6, <1>9 DEF History
  <2> QED
    BY <1>1, <2>2, <2>3 DEF History
<1> QED
  BY <1>13, <1>14, <1>15, <1>16

\* The token of a session is replaced by a new one, answered or not.
LEMMA RefreshStep ==
    ASSUME IInv, NEW s \in Sessions, Refresh(s)
    PROVE  IInv'
<1> USE DEF IInv
<1>0. PICK st, file, m : st = mem /\ file = disk /\ m = minted[s] + 1
  OBVIOUS
<1> DEFINE new == [st EXCEPT !.refresh[s] = m]
<1>1. /\ minted' = [minted EXCEPT ![s] = @ + 1] /\ minted[s] < MaxTokens
      /\ UNCHANGED <<drawn, expired, spent, confirmed>> /\ s \in Stored(st) \ st.revoked
  BY <1>0 DEF Refresh, Presented
<1>2. /\ mem' = new
      /\ \/ disk' = new /\ sent' = sent \cup {<<s, m>>} /\ upset' = upset
         \/ (disk' = new \/ disk' = file) /\ upset' = upset \cup {s} /\ sent' = sent
  BY <1>0 DEF Refresh, Rotated, Save, SaveFails
<1>3. /\ Good(st) /\ Good(file) /\ minted \in [Sessions -> 0 .. MaxTokens]
      /\ minted[s] \in Nat /\ m \in 1 .. MaxTokens
      /\ minted' \in [Sessions -> 0 .. MaxTokens] /\ minted'[s] = m
      /\ upset \subseteq upset' /\ sent \subseteq sent'
  BY <1>0, <1>1, <1>2 DEF TypeOK
<1>4. /\ new \in Store /\ new.clients = st.clients /\ new.revoked = st.revoked
      /\ new.codes = st.codes /\ new.refresh = [st.refresh EXCEPT ![s] = m]
  BY <1>3 DEF Good, Store
<1>5. /\ \A n \in 1 .. MaxTokens : <<s, n>> \in sent' => n <= m
      /\ \A u \in Sessions \ {s}, n \in 1 .. MaxTokens : <<u, n>> \in sent' <=> <<u, n>> \in sent
  BY <1>0, <1>2, <1>3 DEF History
<1>6. Stored(new) = Stored(st) /\ \A u \in Stored(st) \ {s} : new.refresh[u] = st.refresh[u]
  BY <1>1, <1>3, <1>4 DEF Stored, Good, Store
<1>7. new.refresh[s] = m
  BY <1>3, <1>4 DEF Good, Store
<1>8. ASSUME NEW u \in Sessions \ upset', NEW n \in 1 .. MaxTokens, Holds(u, n)'
      PROVE  Keeps(new, u, n)
  <2> HIDE DEF new
  <2>1. CASE u = s
    <3>1. n = m
      <4>1. <<s, m>> \in sent'
        BY <1>2, <1>8, <2>1
      <4>2. n <= m /\ m <= n
        BY <1>3, <1>5, <1>8, <2>1, <4>1 DEF Holds
      <4> QED
        BY <1>3, <4>2
    <3>2. s \notin st.revoked /\ ClientLive(st, Owner[s])
      BY <1>0, <1>1 DEF Refresh, Presented
    <3> QED
      BY <1>4, <1>7, <2>1, <3>1, <3>2 DEF Keeps, ClientLive
  <2>2. CASE u # s
    <3>1. Holds(u, n)
      BY <1>1, <1>5, <1>8, <2>2 DEF Holds
    <3>2. Keeps(st, u, n)
      BY <1>3, <1>8, <3>1 DEF Good
    <3> QED
      BY <1>3, <1>4, <2>2, <3>2 DEF Keeps, ClientLive, Good, Store
  <2> QED
    BY <2>1, <2>2
<1>9. \A u \in Sessions \ {s} : minted'[u] = minted[u]
  BY <1>1, <1>3
<1>10. Good(new)'
  <2> HIDE DEF new
  <2>1. /\ new.clients \subseteq drawn' /\ new.codes \subseteq drawn' /\ Stored(new) \subseteq drawn'
        /\ new.revoked \subseteq drawn'
        /\ \A x \in new.codes : spent'[x] = {}
    BY <1>1, <1>3, <1>4, <1>6 DEF Good
  <2>2. \A u \in Stored(new) : new.refresh[u] <= minted'[u]
    BY <1>3, <1>6, <1>7, <1>9 DEF Good, Stored
  <2>3. \A u \in Stored(new), n \in 1 .. MaxTokens : <<u, n>> \in sent' => n <= new.refresh[u]
    BY <1>3, <1>5, <1>6, <1>7 DEF Good, Stored
  <2>4. \A c \in confirmed' \cap Clients : ~ClientLive(new, c)
    BY <1>1, <1>3, <1>4 DEF Good, ClientLive
  <2>5. \A u \in confirmed' \cap Sessions : u \notin Stored(new) \ new.revoked
    BY <1>1, <1>3, <1>4, <1>6 DEF Good
  <2> QED
    BY <1>4, <1>8, <2>1, <2>2, <2>3, <2>4, <2>5 DEF Good, Stored, ClientLive
<1>11. ASSUME disk' = file PROVE Good(file)'
  <2>1. CASE sent' = sent
    <3>1. \A u \in Stored(file) : minted[u] \in Nat /\ minted'[u] \in Nat /\ minted[u] <= minted'[u]
      BY <1>1, <1>3 DEF Stored
    <3>2. \A x \in file.codes : spent'[x] = {}
      BY <1>1, <1>3 DEF Good
    <3> QED
      BY <1>1, <1>3, <2>1, <3>1, <3>2, Stable
  <2>2. CASE file = new
    BY <1>10, <2>2
  <2> QED
    BY <1>2, <1>11, <2>1, <2>2
<1>12. Good(mem)' /\ Good(disk)'
  <2> HIDE DEF new
  <2> QED
    BY <1>2, <1>10, <1>11
<1>13. TypeOK'
  <2>1. sent' \subseteq Codes \cup Tokens /\ expired' \subseteq sent' /\ upset' \subseteq Sessions
    BY <1>1, <1>2, <1>3 DEF TypeOK, Tokens
  <2> QED
    BY <1>1, <1>3, <1>12, <2>1 DEF TypeOK, Good
<1>14. CodesAreOneTime'
  BY <1>1 DEF CodesAreOneTime
<1>15. s \in drawn
  BY <1>1, <1>3 DEF Good
<1>16. \A u \in Sessions, n \in 1 .. MaxTokens : <<u, n>> \in sent' => u \in drawn' /\ n <= minted'[u]
  BY <1>1, <1>3, <1>5, <1>9, <1>15 DEF History
<1>17. History'
  BY <1>1, <1>16 DEF History
<1> QED
  BY <1>12, <1>13, <1>14, <1>17

\* Clients and sessions are revoked; if the write fails nothing is confirmed.
LEMMA RevokeStep ==
    ASSUME IInv, NEW cs \in SUBSET Clients, NEW ss \in SUBSET Sessions,
           cs \subseteq mem.clients, ss \subseteq Stored(mem), RevokeThem(cs, ss),
           \A s \in Stored(mem) : Owner[s] \in cs => s \in ss
    PROVE  IInv'
<1> USE DEF IInv
<1>0. PICK st, file : st = mem /\ file = disk
  OBVIOUS
<1> DEFINE new == [st EXCEPT !.revoked = @ \cup cs \cup ss]
<1>1. UNCHANGED <<drawn, minted, sent, expired, spent>> /\ upset' = upset \cup ss
  BY DEF RevokeThem
<1>2. /\ mem' = new
      /\ \/ disk' = new /\ confirmed' = confirmed \cup cs \cup ss
         \/ disk' = file /\ confirmed' = confirmed
  BY <1>0 DEF RevokeThem, Revoked, Save, SaveFails
<1>3. Good(st) /\ Good(file) /\ cs \subseteq drawn /\ ss \subseteq drawn
  BY <1>0 DEF Good
<1>4. /\ new \in Store /\ new.clients = st.clients /\ new.revoked = st.revoked \cup cs \cup ss
      /\ new.codes = st.codes /\ new.refresh = st.refresh
  BY <1>3 DEF Good, Store
<1>5. /\ \A c \in (confirmed \cup cs \cup ss) \cap Clients : ~ClientLive(new, c)
      /\ \A s \in (confirmed \cup cs \cup ss) \cap Sessions : s \notin Stored(new) \ new.revoked
  <2> HIDE DEF new
  <2>1. Stored(new) = Stored(st)
    BY <1>4 DEF Stored
  <2> QED
    BY <1>3, <1>4, <2>1 DEF Good, ClientLive
<1>6. Good(new)'
  <2> HIDE DEF new
  <2>1. Stored(new) = Stored(st) /\ new.revoked \subseteq drawn
    BY <1>3, <1>4 DEF Stored, Good
  <2>2. ASSUME NEW s \in Sessions \ upset', NEW n \in 1 .. MaxTokens, Holds(s, n)'
        PROVE  Keeps(new, s, n)
    <3>1. Keeps(st, s, n)
      BY <1>1, <1>3, <2>2 DEF Holds, Good
    <3>2. s \in Stored(st) /\ s \notin ss
      BY <1>1, <2>2, <3>1 DEF Keeps, Stored
    <3>3. Owner[s] \notin cs
      BY <1>0, <3>2
    <3> QED
      BY <1>4, <3>1, <3>2, <3>3 DEF Keeps, ClientLive
  <2>3. /\ \A c \in confirmed' \cap Clients : ~ClientLive(new, c)
        /\ \A s \in confirmed' \cap Sessions : s \notin Stored(new) \ new.revoked
    BY <1>2, <1>3, <1>4, <1>5, <2>1 DEF Good, ClientLive
  <2> QED
    BY <1>1, <1>3, <1>4, <2>1, <2>2, <2>3 DEF Good, Stored, ClientLive
<1>7. ASSUME disk' = file PROVE Good(file)'
  <2>1. CASE confirmed' = confirmed
    BY <1>1, <1>3, <2>1, Unmoved
  <2>2. CASE file = new
    BY <1>6, <2>2
  <2> QED
    BY <1>2, <1>7, <2>1, <2>2
<1>8. Good(mem)' /\ Good(disk)'
  <2> HIDE DEF new
  <2> QED
    BY <1>2, <1>6, <1>7
<1>9. TypeOK' /\ confirmed' \subseteq drawn'
  BY <1>1, <1>2, <1>3, <1>8 DEF TypeOK, Good, History
<1> QED
  BY <1>1, <1>8, <1>9 DEF CodesAreOneTime, History

\* Every step keeps the invariant.
LEMMA SafetyStep == IInv /\ [Next]_vars => IInv'
<1> SUFFICES ASSUME IInv, [Next]_vars PROVE IInv'
  OBVIOUS
<1>0. Good(mem) /\ Good(disk) /\ mem \in Store
  BY DEF IInv, Good
<1>1. ASSUME NEW k \in Codes, NEW c \in Clients, ExchangeRefused(c, k) PROVE IInv'
  BY <1>0, <1>1, TakenGood, QuietStep DEF ExchangeRefused, CodeTaken, Save, SaveFails
<1>2. ASSUME NEW s \in Sessions, Call(s) PROVE IInv'
  <2>1. PICK st : st = mem
    OBVIOUS
  <2> DEFINE new == [st EXCEPT !.seen = @ \cup {Owner[s]}]
  <2>2. /\ new \in Store /\ new.clients = st.clients /\ new.revoked = st.revoked
        /\ new.codes = st.codes /\ new.refresh = st.refresh
    BY <1>0, <2>1 DEF Store
  <2>3. Good(new)
    <3> HIDE DEF new
    <3> QED
      BY <1>0, <2>1, <2>2 DEF Good, Stored, Keeps, ClientLive
  <2>4. /\ mem' = new /\ (disk' = new \/ disk' = disk)
        /\ UNCHANGED <<drawn, minted, sent, expired, spent, confirmed, upset>>
    BY <1>2, <2>1 DEF Call, Save, SaveFails
  <2> HIDE DEF new
  <2> QED
    BY <2>3, <2>4, QuietStep
<1>3. ASSUME NEW c \in Clients, RevokeClient(c) PROVE IInv'
  <2> DEFINE ss == {s \in Stored(mem) : Owner[s] = c}
  <2>1. ss \subseteq Stored(mem) /\ ss \in SUBSET Sessions /\ {c} \in SUBSET Clients
        /\ {c} \subseteq mem.clients /\ RevokeThem({c}, ss)
        /\ \A s \in Stored(mem) : Owner[s] \in {c} => s \in ss
    BY <1>3 DEF RevokeClient, Stored
  <2> HIDE DEF ss
  <2> QED
    BY <2>1, RevokeStep
<1>4. CASE RevokeAllClients
  BY <1>0, <1>4, RevokeStep DEF RevokeAllClients, Stored, Store
<1>5. ASSUME NEW s \in Sessions, RevokeSession(s) PROVE IInv'
  BY <1>0, <1>5, RevokeStep DEF RevokeSession, Stored, Store
<1>6. CASE PurgeState
  <2>1. PICK new \in Purged(mem) : Save(new)
    BY <1>6 DEF PurgeState
  <2> QED
    BY <1>0, <1>6, <2>1, PurgedGood, QuietStep DEF PurgeState, Save
<1>7. CASE Restart
  <2>1. PICK new \in Purged(disk) : mem' = new
    BY <1>7 DEF Restart
  <2> QED
    BY <1>0, <1>7, <2>1, PurgedGood, QuietStep DEF Restart
<1>8. CASE Expires
  <2>1. PICK st, file : st = mem /\ file = disk
    OBVIOUS
  <2>2. Good(st)' /\ Good(file)'
    BY <1>0, <1>8, <2>1, Unmoved DEF Expires, IInv
  <2>3. Good(mem)' /\ Good(disk)'
    BY <1>8, <2>1, <2>2 DEF Expires
  <2> QED
    BY <1>8, <2>3 DEF Expires, IInv, TypeOK, CodesAreOneTime, History, Good
<1>9. CASE UNCHANGED vars
  <2>1. PICK st, file : st = mem /\ file = disk
    OBVIOUS
  <2>2. Good(st)' /\ Good(file)'
    BY <1>0, <1>9, <2>1, Unmoved DEF vars, IInv
  <2>3. Good(mem)' /\ Good(disk)'
    BY <1>9, <2>1, <2>2 DEF vars
  <2> QED
    BY <1>9, <2>3 DEF vars, IInv, TypeOK, CodesAreOneTime, History
<1> QED
  BY <1>1, <1>2, <1>3, <1>4, <1>5, <1>6, <1>7, <1>8, <1>9,
     RegisterStep, AuthorizeStep, ExchangeStep, RefreshStep DEF Next

-----------------------------------------------------------------------------
(* Theorems *)

\* The inductive invariant holds in every reachable state of the server.
THEOREM OAuthSafety == Spec => []IInv
  BY InitIInv, SafetyStep, PTL DEF Spec

\* The variables keep their types, in memory and in the file.
THEOREM TypeCorrect == Spec => []TypeOK
<1>1. IInv => TypeOK
  BY DEF IInv
<1> QED
  BY <1>1, OAuthSafety, PTL

\* No authorization code opens two sessions, whatever write fails and whenever
\* the server restarts.
THEOREM OneSessionPerCode == Spec => []CodesAreOneTime
<1>1. IInv => CodesAreOneTime
  BY DEF IInv
<1> QED
  BY <1>1, OAuthSafety, PTL

\* A refresh token that was replaced in an answer is never accepted again.
THEOREM RotatedTokensStayDead == Spec => []RotatedTokenDead
<1>1. IInv => RotatedTokenDead
  BY DEF IInv, RotatedTokenDead, Good
<1> QED
  BY <1>1, OAuthSafety, PTL

\* A client goes on with its session as long as its last token is in time, no refresh
\* of its own failed and nobody asked the console to revoke it.
THEOREM ClientsKeepTheirSessions == Spec => []ClientKeepsSession
<1>1. IInv => ClientKeepsSession
  BY DEF IInv, ClientKeepsSession, Good, Keeps
<1> QED
  BY <1>1, OAuthSafety, PTL

\* A confirmed revocation holds for good.
THEOREM RevocationsHold == Spec => []RevokedStaysOut
<1>1. IInv => RevokedStaysOut
  BY DEF IInv, RevokedStaysOut, Good, Active, ClientLive
<1> QED
  BY <1>1, OAuthSafety, PTL

-----------------------------------------------------------------------------
(* The server implements SessionLife *)

\* The sessions that a code opened were drawn then.
Opened == \A k \in Codes : spent[k] \subseteq drawn

LEMMA OpenedStep == TypeOK /\ Opened /\ [Next]_vars => Opened'
<1> SUFFICES ASSUME TypeOK, Opened, [Next]_vars PROVE Opened'
  OBVIOUS
<1>1. ASSUME NEW k \in Codes, NEW s \in Sessions, Exchange(k, s) PROVE Opened'
  BY <1>1 DEF Exchange, Opened, TypeOK
<1>2. CASE ~(\E k \in Codes, s \in Sessions : Exchange(k, s))
  <2>1. spent' = spent /\ drawn \subseteq drawn'
    BY <1>2 DEF Next, vars, Register, RevokeClient, Authorize, ExchangeRefused, Refresh, Call,
                RevokeSession, RevokeAllClients, RevokeThem, PurgeState, Restart, Expires
  <2> QED
    BY <2>1 DEF Opened
<1> QED
  BY <1>1, <1>2

\* A token that was answered is one of its session's tokens, and no code.
LEMMA GivenFacts ==
    ASSUME TypeOK
    PROVE  /\ sent \ Codes = sent \cap Tokens
           /\ \A s \in Sessions, n \in 1 .. MaxTokens : <<s, n>> \notin Codes
  BY DEF TypeOK, Tokens

\* Only the newest token of a session is accepted, and nobody whose revocation was
\* confirmed gets through.
LEMMA AccessHolds == IInv => Life!Access
<1> SUFFICES ASSUME IInv PROVE Life!Access
  OBVIOUS
<1>1. TypeOK /\ Good(mem) /\ mem \in Store
  BY DEF IInv, Good
<1>2. ASSUME NEW s \in Sessions, Active(mem, s)
      PROVE  Life!Entitled(s)
  <2>1. s \notin confirmed /\ Owner[s] \notin confirmed
    BY <1>1, <1>2 DEF Good, Active, ClientLive
  <2> QED
    BY <2>1 DEF Life!Entitled
<1>3. ASSUME NEW t \in Accepted
      PROVE  Life!Newest(t) /\ Life!Entitled(t[1])
  <2>1. PICK s \in Sessions : Presented(s) /\ t = TokenOf(mem, s)
    BY <1>3 DEF Accepted
  <2>2. /\ s \in Stored(mem) /\ mem.refresh[s] \in 1 .. MaxTokens
        /\ t = <<s, mem.refresh[s]>> /\ t \in sent \ Codes
    BY <1>1, <2>1, GivenFacts DEF Presented, TokenOf, Stored, Store
  <2>3. ASSUME NEW u \in sent \ Codes, u[1] = t[1]
        PROVE  u[2] <= t[2]
    <3>1. PICK n \in 1 .. MaxTokens : u = <<s, n>>
      BY <1>1, <2>2, <2>3, GivenFacts DEF Tokens
    <3> QED
      BY <1>1, <2>2, <3>1 DEF Good
  <2>4. Life!Newest(t)
    BY <2>2, <2>3 DEF Life!Newest
  <2>5. Active(mem, s)
    BY <2>1 DEF Presented, Active
  <2> QED
    BY <1>2, <2>2, <2>4, <2>5
<1>4. ASSUME NEW s \in Through
      PROVE  Life!Entitled(s) /\ \E t \in sent \ Codes : t[1] = s
  <2>1. s \in Sessions /\ Active(mem, s)
    BY <1>4 DEF Through
  <2>2. PICK n \in 1 .. MaxTokens : <<s, n>> \in sent
    BY <1>4 DEF Through
  <2>3. <<s, n>> \in sent \ Codes /\ <<s, n>>[1] = s
    BY <1>1, <2>1, <2>2, GivenFacts
  <2> QED
    BY <1>2, <2>1, <2>3
<1> QED
  BY <1>3, <1>4 DEF Life!Access

\* An exchange that succeeds opens the only session of its code.
LEMMA ExchangeOpens ==
    ASSUME IInv, Opened, NEW k \in Codes, NEW s \in Sessions, Exchange(k, s)
    PROVE  Life!Open(k, s)
<1>1. TypeOK /\ Good(mem)
  BY DEF IInv
<1>2. /\ Owner[s] = CodeClient[k] /\ ClientLive(mem, CodeClient[k]) /\ k \in mem.codes
      /\ s \notin drawn
      /\ spent' = [spent EXCEPT ![k] = @ \cup {s}]
      /\ sent' = sent \cup {<<s, 1>>} \/ sent' = sent
      /\ confirmed' = confirmed
  BY DEF Exchange
<1>3. spent[k] = {} /\ CodeClient[k] \notin confirmed
  BY <1>1, <1>2 DEF Good
<1>4. \A j \in Codes : s \notin spent[j]
  BY <1>2 DEF Opened
<1>5. spent' = [spent EXCEPT ![k] = {s}]
  BY <1>1, <1>2, <1>3 DEF TypeOK
<1>6. <<s, 1>> \notin Codes
  BY <1>1, GivenFacts
<1>7. sent' \ Codes \in {sent \ Codes, (sent \ Codes) \cup {<<s, 1>>}}
  BY <1>2, <1>6
<1> QED
  BY <1>2, <1>3, <1>4, <1>5, <1>7 DEF Life!Open

\* A refresh answers a newer token to the one that presented the newest, or none.
LEMMA RefreshRenews ==
    ASSUME IInv, NEW s \in Sessions, Refresh(s)
    PROVE  Life!Renew \/ Life!Bar
<1> DEFINE m == minted[s] + 1
           t == TokenOf(mem, s)
           u == <<s, m>>
<1>1. TypeOK /\ Good(mem) /\ mem \in Store
  BY DEF IInv, Good
<1>2. /\ Presented(s) /\ minted[s] < MaxTokens
      /\ spent' = spent /\ confirmed' = confirmed
      /\ sent' = sent \cup {u} \/ sent' = sent
  BY DEF Refresh
<1>3. CASE sent' = sent
  BY <1>2, <1>3 DEF Life!Bar
<1>4. CASE sent' = sent \cup {u}
  <2>1. t \in Accepted /\ t[1] = s /\ t[2] = mem.refresh[s]
    BY <1>2 DEF Accepted, TokenOf
  <2>2. minted[s] \in 0 .. MaxTokens /\ m \in 1 .. MaxTokens /\ mem.refresh[s] \in 0 .. MaxTokens
    BY <1>1, <1>2 DEF TypeOK, Store
  <2>3. mem.refresh[s] <= minted[s]
    BY <1>1, <1>2 DEF Presented, Good
  <2>4. u \notin Codes
    BY <1>1, <2>2, GivenFacts
  <2>5. sent' \ Codes = (sent \ Codes) \cup {u} /\ u \in sent' \ Codes
    BY <1>4, <2>4
  <2>6. u[1] = t[1] /\ u[2] > t[2]
    BY <2>1, <2>2, <2>3
  <2> QED
    BY <1>2, <2>1, <2>5, <2>6 DEF Life!Renew
<1> QED
  BY <1>2, <1>3, <1>4

\* What the other steps leave alone.
LEMMA OthersBar ==
    ASSUME TypeOK, [Next]_vars,
           ~(\E k \in Codes, s \in Sessions : Exchange(k, s)), ~(\E s \in Sessions : Refresh(s))
    PROVE  Life!Bar
<1>1. spent' = spent /\ confirmed \subseteq confirmed'
  BY DEF Next, vars, Register, RevokeClient, Authorize, ExchangeRefused, Refresh, Call,
         RevokeSession, RevokeAllClients, RevokeThem, PurgeState, Restart, Expires
<1>2. sent' = sent \/ \E k \in Codes : sent' = sent \cup {k}
  BY DEF Next, vars, Register, RevokeClient, Authorize, ExchangeRefused, Refresh, Call,
         RevokeSession, RevokeAllClients, RevokeThem, PurgeState, Restart, Expires
<1>3. sent' \ Codes = sent \ Codes
  BY <1>2
<1> QED
  BY <1>1, <1>3 DEF Life!Bar

\* What the answers of the server show is the life of sessions that SessionLife promises,
\* whatever write fails and whenever the server restarts.
THEOREM OAuthImplementsSessionLife == Spec => ImplementsSessionLife
<1>1. Init => Opened /\ Life!Init
  <2> SUFFICES ASSUME Init PROVE Opened /\ Life!Init
    OBVIOUS
  <2>1. Accepted = {}
    BY DEF Init, EmptyState, Accepted, Presented, Stored
  <2>2. Through = {}
    BY DEF Init, Through
  <2> QED
    BY <2>1, <2>2 DEF Init, Opened, Life!Init
<1>2. Spec => []Opened
  <2>1. IInv => TypeOK
    BY DEF IInv
  <2> QED
    BY <1>1, <2>1, OpenedStep, OAuthSafety, PTL DEF Spec
<1>3. IInv' => Life!Access'
  BY AccessHolds, PTL
<1>4. IInv /\ IInv' /\ Opened /\ [Next]_vars => Life!Next
  <2> SUFFICES ASSUME IInv, IInv', Opened, [Next]_vars PROVE Life!Next
    OBVIOUS
  <2>1. (\E k \in Codes, s \in Sessions : Life!Open(k, s)) \/ Life!Renew \/ Life!Bar
    <3>1. CASE \E k \in Codes, s \in Sessions : Exchange(k, s)
      BY <3>1, ExchangeOpens
    <3>2. CASE \E s \in Sessions : Refresh(s)
      BY <3>2, RefreshRenews
    <3>3. TypeOK
      BY DEF IInv
    <3> QED
      BY <3>1, <3>2, <3>3, OthersBar
  <2> QED
    BY <1>3, <2>1 DEF Life!Next
<1> QED
  BY <1>1, <1>2, <1>4, OAuthSafety, PTL DEF Spec, ImplementsSessionLife, Life!Spec

=============================================================================
