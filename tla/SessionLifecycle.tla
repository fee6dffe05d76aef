--------------------------- MODULE SessionLifecycle ---------------------------
(***************************************************************************)
(* What a refresh session promises, with no requests, no row locks and no  *)
(* clock: it is opened once with a token nobody has seen, every exchange   *)
(* spends the current token for good and replaces it by a new one, and a   *)
(* revoked session never changes again.                                    *)
(*                                                                         *)
(* docs/DEVELOPMENT.md:76 states this contract; RefreshSessions.tla is the *)
(* implementation and is checked, and proved, to refine it.                *)
(***************************************************************************)
CONSTANTS
  Sessions,   \* user_sessions.id
  Tokens,     \* refresh tokens, each identified with its SHA-256 hash
  None

VARIABLES
  current,    \* the token a session can be continued with
  spent,      \* which session a replaced token belonged to
  revoked     \* the sessions that are over

vars == <<current, spent, revoked>>

-----------------------------------------------------------------------------
Opened == {s \in Sessions : current[s] # None}

Unseen == {t \in Tokens : spent[t] = None /\ \A s \in Sessions : current[s] # t}

Init ==
  /\ current = [s \in Sessions |-> None]
  /\ spent   = [t \in Tokens |-> None]
  /\ revoked = {}

Open(s, t) ==
  /\ current[s] = None
  /\ t \in Unseen
  /\ current' = [current EXCEPT ![s] = t]
  /\ UNCHANGED <<spent, revoked>>

Exchange(s, t) ==
  /\ s \in Opened \ revoked
  /\ t \in Unseen
  /\ spent'   = [spent EXCEPT ![current[s]] = s]
  /\ current' = [current EXCEPT ![s] = t]
  /\ UNCHANGED revoked

Revoke(S) ==
  /\ S \subseteq Opened \ revoked
  /\ revoked' = revoked \cup S
  /\ UNCHANGED <<current, spent>>

Next ==
  \/ \E s \in Sessions, t \in Tokens : Open(s, t) \/ Exchange(s, t)
  \/ \E S \in SUBSET Sessions : Revoke(S)

Spec == Init /\ [][Next]_vars
=============================================================================
