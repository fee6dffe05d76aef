------------------------------ MODULE Credential ------------------------------
(***************************************************************************)
(* What the password of an account promises, with no requests, no row      *)
(* locks and no clock (docs/DEVELOPMENT.md:62 and :78): sessions are opened *)
(* and ended by it, at most one reset token is live, and a recovery spends *)
(* that token, sets the password and ends every session, all at once.      *)
(*                                                                         *)
(* PasswordRecovery.tla is the implementation and is checked to refine it. *)
(***************************************************************************)
CONSTANTS
  Passwords,
  First,      \* the password the account was registered with
  Sessions,
  Tokens,     \* password reset tokens
  None

VARIABLES
  password,
  setBy,      \* how it was set: "register", "change" or "reset"
  active,     \* the account is
  live,       \* the reset token that can be spent, or None
  spent,      \* the reset tokens that cannot be spent any more
  open,       \* the sessions that are not over
  ended       \* those that are

vars == <<password, setBy, active, live, spent, open, ended>>

-----------------------------------------------------------------------------
Init ==
  /\ password = First
  /\ setBy = "register"
  /\ active \in BOOLEAN
  /\ live = None
  /\ spent = {}
  /\ open = {}
  /\ ended = {}

\* An operator blocks the account or lets it in again.
Administer ==
  /\ active' = ~ active
  /\ UNCHANGED <<password, setBy, live, spent, open, ended>>

Open(s) ==
  /\ s \notin open \cup ended
  /\ open' = open \cup {s}
  /\ UNCHANGED <<password, setBy, active, live, spent, ended>>

\* A change ends the sessions S: those that its request can have found.
Change(new, S) ==
  /\ S \subseteq open
  /\ password' = new /\ setBy' = "change"
  /\ open' = open \ S
  /\ ended' = ended \cup S
  /\ UNCHANGED <<active, live, spent>>

\* A new token takes the place of the live one.
Issue(t) ==
  /\ active
  /\ t \notin spent \cup {live}
  /\ live' = t
  /\ spent' = spent \cup ({live} \ {None})
  /\ UNCHANGED <<password, setBy, active, open, ended>>

Recover(new) ==
  /\ active
  /\ live # None
  /\ password' = new /\ setBy' = "reset"
  /\ live' = None
  /\ spent' = spent \cup {live}
  /\ open' = {}
  /\ ended' = ended \cup open
  /\ UNCHANGED active

Next ==
  \/ Administer
  \/ \E s \in Sessions : Open(s)
  \/ \E t \in Tokens : Issue(t)
  \/ \E new \in Passwords : Recover(new) \/ \E S \in SUBSET Sessions : Change(new, S)

Spec == Init /\ [][Next]_vars
=============================================================================
