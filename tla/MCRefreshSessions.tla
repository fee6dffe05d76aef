--------------------------- MODULE MCRefreshSessions ---------------------------
(* Small instances of RefreshSessions for TLC.                             *)
EXTENDS RefreshSessions, TLC

\* Requests, users, sessions and tokens other than Forged are interchangeable.
Symmetry ==
  Permutations(Requests) \cup Permutations(Sessions)
    \cup Permutations(Tokens \ {Forged}) \cup Permutations(Users)
=============================================================================
