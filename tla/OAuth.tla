--------------------------------- MODULE OAuth ---------------------------------
(***************************************************************************)
(* The OAuth server (auth/oauth.ts) and the part of the state store it     *)
(* writes (state/store.ts): registered clients, authorization codes and    *)
(* sessions with their rotating refresh token.                             *)
(*                                                                         *)
(* Every handler changes the state in memory first and then calls          *)
(* persist(), which writes the whole state to disk or throws.  A throw     *)
(* leaves memory ahead of the disk and turns the answer into a 500; the    *)
(* next write that succeeds saves the change all the same, and a crash     *)
(* loses it.                                                               *)
(*                                                                         *)
(* Ids, codes and tokens are random, hence never drawn twice.  The n-th    *)
(* refresh token of session s is <<s, n>>; only tokens that some answer    *)
(* carried ("sent") can be presented.  Deadlines are not counted: a code   *)
(* or a token expires at any moment, and stays expired.                    *)
(***************************************************************************)
EXTENDS Naturals, FiniteSets

CONSTANTS
    Clients,    \* client ids that may be drawn
    Codes,      \* authorization codes that may be drawn
    Sessions,   \* session ids that may be drawn
    CodeClient, \* the client a code is issued for
    Owner,      \* the client a session is opened for
    MaxClients, \* OAUTH_MAX_CLIENTS
    MaxTokens   \* bound: refresh tokens minted per session

ASSUME OAuthAssumption ==
    /\ CodeClient \in [Codes -> Clients]
    /\ Owner \in [Sessions -> Clients]
    /\ MaxClients \in Nat
    /\ MaxTokens \in Nat \ {0}
    /\ Clients \cap Codes = {} /\ Clients \cap Sessions = {} /\ Codes \cap Sessions = {}
    /\ Codes \cap (Sessions \X (1 .. MaxTokens)) = {}

VARIABLES
    mem,       \* the state in memory
    disk,      \* the state file
    drawn,     \* client ids, codes and session ids drawn so far
    minted,    \* how many refresh tokens were minted for a session
    sent,      \* codes and refresh tokens that an answer carried
    expired,   \* codes and refresh tokens past their deadline
    spent,     \* the sessions opened with a code
    confirmed, \* clients and sessions whose revocation was answered
    upset      \* sessions a refresh of which failed after the rotation, and those
               \* the console was asked to revoke, whether or not it could

vars == <<mem, disk, drawn, minted, sent, expired, spent, confirmed, upset>>

Tokens == Sessions \X (1 .. MaxTokens)

\* PersistentState.  refresh[s] = 0 stands for a session that is not stored.
Store == [clients : SUBSET Clients, revoked : SUBSET (Clients \cup Sessions),
          seen : SUBSET Clients, codes : SUBSET Codes,
          refresh : [Sessions -> 0 .. MaxTokens]]

EmptyState == [clients |-> {}, revoked |-> {}, seen |-> {}, codes |-> {},
               refresh |-> [s \in Sessions |-> 0]]

Stored(st) == {s \in Sessions : st.refresh[s] # 0}

ClientLive(st, c) == c \in st.clients \ st.revoked

\* sessionIsActive
Active(st, s) ==
    /\ s \in Stored(st) \ st.revoked
    /\ <<s, st.refresh[s]>> \notin expired
    /\ ClientLive(st, Owner[s])

\* Mutant of NeverActivated: a client that has not called yet is pruned in spite
\* of its session.
NeverSeen(st) == st.clients \ st.seen

\* prunePendingClients: the candidates, of which those older than the TTL go.
NeverActivated(st) ==
    {c \in st.clients \ st.seen : \A s \in Stored(st) : Owner[s] # c}

\* purgeState: sessions that may be past their retention.
Stale(st) == {s \in Stored(st) : s \in st.revoked \/ <<s, st.refresh[s]>> \in expired}

Without(st, oldClients, oldCodes, oldSessions) ==
    [clients |-> st.clients \ oldClients,
     revoked |-> st.revoked \ (oldClients \cup oldSessions),
     seen    |-> st.seen,
     codes   |-> st.codes \ oldCodes,
     refresh |-> [s \in Sessions |-> IF s \in oldSessions THEN 0 ELSE st.refresh[s]]]

\* What purgeState may make of a state, given how old its entries are.
Purged(st) ==
    {Without(st, old, expired, gone) : old \in SUBSET NeverActivated(st), gone \in SUBSET Stale(st)}

\* persist() succeeds, or throws after the change in memory.
Save(new) == mem' = new /\ disk' = new
SaveFails(new) == mem' = new /\ disk' = disk

--------------------------------------------------------------------------------
Init ==
    /\ mem = EmptyState /\ disk = EmptyState
    /\ drawn = {} /\ sent = {} /\ expired = {} /\ confirmed = {} /\ upset = {}
    /\ minted = [s \in Sessions |-> 0]
    /\ spent = [k \in Codes |-> {}]

\* POST /register: pending clients past their TTL are pruned first; at the limit
\* the request is refused.  (There, pruning leaves room: it saves nothing then.)
Register(c) ==
    /\ c \notin drawn
    /\ \E old \in SUBSET NeverActivated(mem) :
         LET kept == Without(mem, old, {}, {})
             new == [kept EXCEPT !.clients = @ \cup {c}]
         IN  /\ Cardinality(kept.clients) < MaxClients
             /\ Save(new) \/ SaveFails(new)
    /\ drawn' = drawn \cup {c}
    /\ UNCHANGED <<minted, sent, expired, spent, confirmed, upset>>

\* POST /authorize/submit with the right password.
Authorize(k) ==
    LET new == [mem EXCEPT !.codes = @ \cup {k}]
    IN  /\ k \notin drawn
        /\ ClientLive(mem, CodeClient[k])
        /\ drawn' = drawn \cup {k}
        /\ \/ Save(new) /\ sent' = sent \cup {k}
           \/ SaveFails(new) /\ UNCHANGED sent
        /\ UNCHANGED <<minted, expired, spent, confirmed, upset>>

\* Mutant of CodeTaken: the code stays stored.
CodeKept(k) == mem

\* consumeAuthCode
CodeTaken(k) == [mem EXCEPT !.codes = @ \ {k}]

\* POST /token, authorization_code: the code is consumed before anything about
\* the request is compared with it, so a refused exchange burns the code.
ExchangeRefused(c, k) ==
    /\ ClientLive(mem, c)
    /\ k \in sent \cap mem.codes
    /\ Save(CodeTaken(k)) \/ SaveFails(CodeTaken(k))
    /\ UNCHANGED <<drawn, minted, sent, expired, spent, confirmed, upset>>

\* The exchange that succeeds in memory: two writes, the deletion of the code and
\* the new session; the answer is sent if both succeed.
SessionOpened(k, s) == [CodeTaken(k) EXCEPT !.refresh[s] = 1]

Exchange(k, s) ==
    /\ Owner[s] = CodeClient[k]
    /\ ClientLive(mem, CodeClient[k])
    /\ k \in (sent \cap mem.codes) \ expired
    /\ s \notin drawn
    /\ drawn' = drawn \cup {s}
    /\ minted' = [minted EXCEPT ![s] = 1]
    /\ spent' = [spent EXCEPT ![k] = @ \cup {s}]
    /\ mem' = SessionOpened(k, s)
    /\ \/ disk' = SessionOpened(k, s) /\ sent' = sent \cup {<<s, 1>>}
       \/ disk' = CodeTaken(k) /\ UNCHANGED sent
    /\ UNCHANGED <<expired, confirmed, upset>>

\* Mutant of Rotated: the new token is not stored.
RotatedKept(s) == mem

\* POST /token, refresh_token: the stored token is replaced and saved before the
\* resource of the request is checked, and a refusal then answers no token.
Rotated(s) == [mem EXCEPT !.refresh[s] = minted[s] + 1]

Presented(s) ==
    /\ s \in Stored(mem) \ mem.revoked
    /\ <<s, mem.refresh[s]>> \in sent \ expired
    /\ ClientLive(mem, Owner[s])

Refresh(s) ==
    /\ Presented(s)
    /\ minted[s] < MaxTokens
    /\ minted' = [minted EXCEPT ![s] = @ + 1]
    /\ \/ Save(Rotated(s)) /\ sent' = sent \cup {<<s, minted[s] + 1>>} /\ UNCHANGED upset
       \/ /\ Save(Rotated(s)) \/ SaveFails(Rotated(s))
          /\ upset' = upset \cup {s} /\ UNCHANGED sent
    /\ UNCHANGED <<drawn, expired, spent, confirmed>>

\* The sessions a token of which passes requireBearer.
Through == {s \in Sessions : Active(mem, s) /\ \E n \in 1 .. MaxTokens : <<s, n>> \in sent}

\* requireBearer: a token of an active session passes, and touchSession, unless
\* it did so less than a minute ago, marks the client as seen.
Call(s) ==
    LET new == [mem EXCEPT !.seen = @ \cup {Owner[s]}]
    IN  /\ s \in Through
        /\ Save(new) \/ SaveFails(new)
        /\ UNCHANGED <<drawn, minted, sent, expired, spent, confirmed, upset>>

--------------------------------------------------------------------------------
\* The revocations of the admin console.  The notice is shown if the save works.
Revoked(cs, ss) == [mem EXCEPT !.revoked = @ \cup cs \cup ss]

\* Mutant of RevokeThem: the notice does not wait for the save.
RevokeUnsaved(cs, ss) ==
    /\ Save(Revoked(cs, ss)) \/ SaveFails(Revoked(cs, ss))
    /\ confirmed' = confirmed \cup cs \cup ss
    /\ upset' = upset \cup ss
    /\ UNCHANGED <<drawn, minted, sent, expired, spent>>

RevokeThem(cs, ss) ==
    /\ \/ Save(Revoked(cs, ss)) /\ confirmed' = confirmed \cup cs \cup ss
       \/ SaveFails(Revoked(cs, ss)) /\ UNCHANGED confirmed
    /\ upset' = upset \cup ss
    /\ UNCHANGED <<drawn, minted, sent, expired, spent>>

RevokeClient(c) ==
    c \in mem.clients /\ RevokeThem({c}, {s \in Stored(mem) : Owner[s] = c})

RevokeAllClients == RevokeThem(mem.clients, Stored(mem))

RevokeSession(s) == s \in Stored(mem) /\ RevokeThem({}, {s})

--------------------------------------------------------------------------------
\* The purge timer; a save that throws there ends the process (see Restart).
PurgeState ==
    /\ \E new \in Purged(mem) : new # mem /\ Save(new)
    /\ UNCHANGED <<drawn, minted, sent, expired, spent, confirmed, upset>>

\* A crash, and initStateStore: the file is loaded and purged, not saved.
Restart ==
    /\ mem' \in Purged(disk)
    /\ UNCHANGED <<disk, drawn, minted, sent, expired, spent, confirmed, upset>>

Expires ==
    /\ \E x \in sent : expired' = expired \cup {x}
    /\ UNCHANGED <<mem, disk, drawn, minted, sent, spent, confirmed, upset>>

Next ==
    \/ \E c \in Clients : Register(c) \/ RevokeClient(c)
    \/ \E k \in Codes : Authorize(k)
    \/ \E c \in Clients, k \in Codes : ExchangeRefused(c, k)
    \/ \E k \in Codes, s \in Sessions : Exchange(k, s)
    \/ \E s \in Sessions : Refresh(s) \/ Call(s) \/ RevokeSession(s)
    \/ RevokeAllClients
    \/ PurgeState
    \/ Restart
    \/ Expires

Spec == Init /\ [][Next]_vars
--------------------------------------------------------------------------------
(* Properties *)

\* The variables keep their types.
TypeOK ==
    /\ mem \in Store /\ disk \in Store
    /\ drawn \subseteq Clients \cup Codes \cup Sessions
    /\ minted \in [Sessions -> 0 .. MaxTokens]
    /\ sent \subseteq Codes \cup Tokens
    /\ expired \subseteq sent
    /\ spent \in [Codes -> SUBSET Sessions]
    /\ confirmed \subseteq Clients \cup Sessions
    /\ upset \subseteq Sessions

\* No authorization code opens two sessions, whichever of the two writes of an
\* exchange fails and wherever a crash comes (consumeAuthCode saves the deletion
\* before issueNewSession).
CodesAreOneTime ==
    \A k \in Codes : \A s, t \in spent[k] : s = t

\* The token a session is stored with.
TokenOf(st, s) == <<s, st.refresh[s]>>

\* A refresh token that an answer replaced is never good again, in memory or
\* after a restart from the file (rotateRefreshToken saves before the answer).
RotatedTokenDead ==
    \A st \in {mem, disk} : \A s \in Stored(st) :
        \A n \in 1 .. MaxTokens : <<s, n>> \in sent => n <= st.refresh[s]

\* The client of session s was given its n-th refresh token last, and in time.
Holds(s, n) ==
    /\ <<s, n>> \in sent \ expired
    /\ \A m \in 1 .. MaxTokens : <<s, m>> \in sent => m <= n

\* A client that holds a session's last token can go on with it, now and after a
\* restart from the file: the session is stored with that token, and neither it
\* nor its client is revoked, purged or pruned.  Only a refresh of its own that
\* failed after the rotation costs a client the session, or the console: no crash,
\* no failed write and no other handler does.
ClientKeepsSession ==
    \A s \in Sessions \ upset, n \in 1 .. MaxTokens : Holds(s, n) =>
        \A st \in {mem, disk} :
            st.refresh[s] = n /\ s \notin st.revoked /\ ClientLive(st, Owner[s])

\* What the console has confirmed revoked stays without access, in memory and
\* after a restart from the file: for a client, also through sessions opened or
\* refreshed afterwards.
RevokedStaysOut ==
    \A st \in {mem, disk} : \A s \in Sessions :
        Active(st, s) => s \notin confirmed /\ Owner[s] \notin confirmed

\* The tokens that a refresh would accept now.
Accepted == {TokenOf(mem, s) : s \in {u \in Sessions : Presented(u)}}

\* What the answers show of a session, over failed writes and restarts, is the life
\* that SessionLife promises (auth/oauth.ts, the handlers of /token and requireBearer).
Life == INSTANCE SessionLife WITH
    uses <- spent,
    given <- sent \ Codes,
    barred <- confirmed,
    accepted <- Accepted,
    through <- Through

ImplementsSessionLife == Life!Spec

================================================================================
