------------------------------ MODULE SessionLife ------------------------------
(***************************************************************************)
(* What the OAuth server promises of its sessions: a code opens one        *)
(* session, of the client it was issued for; a refresh token is answered   *)
(* for the newest one of its session, and is newer; only the newest one is *)
(* accepted; and whoever the owner was told is revoked gets neither a      *)
(* token nor through, for good.                                            *)
(***************************************************************************)
EXTENDS Naturals

CONSTANTS Codes, Sessions,
          CodeClient,  \* the client of a code
          Owner        \* the client of a session

VARIABLES uses,      \* the sessions that were opened with a code
          given,     \* the refresh tokens that were answered: <<session, number>>
          barred,    \* the clients and sessions that the owner was told are revoked
          accepted,  \* the refresh tokens that would be accepted
          through    \* the sessions that would get through

Entitled(s) == s \notin barred /\ Owner[s] \notin barred

Newest(t) == t \in given /\ \A u \in given : u[1] = t[1] => u[2] <= t[2]

\* Access may end and come back, of a session that expired or of one whose revocation
\* was never confirmed, but only to these.
Access ==
    /\ \A t \in accepted : Newest(t) /\ Entitled(t[1])
    /\ \A s \in through : Entitled(s) /\ \E t \in given : t[1] = s

Init ==
    /\ uses = [k \in Codes |-> {}]
    /\ given = {} /\ barred = {} /\ accepted = {} /\ through = {}

\* The answer with the first token may be lost.
Open(k, s) ==
    /\ uses[k] = {}
    /\ \A j \in Codes : s \notin uses[j]
    /\ Owner[s] = CodeClient[k]
    /\ CodeClient[k] \notin barred
    /\ uses' = [uses EXCEPT ![k] = {s}]
    /\ given' \in {given, given \cup {<<s, 1>>}}
    /\ UNCHANGED barred

Renew ==
    /\ \E t \in accepted, u \in given' :
         u[1] = t[1] /\ u[2] > t[2] /\ given' = given \cup {u}
    /\ UNCHANGED <<uses, barred>>

Bar == barred \subseteq barred' /\ UNCHANGED <<uses, given>>

Next ==
    /\ \/ \E k \in Codes, s \in Sessions : Open(k, s)
       \/ Renew
       \/ Bar
    /\ Access'

Spec == Init /\ [][Next]_<<uses, given, barred, accepted, through>>
================================================================================
