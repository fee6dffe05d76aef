--------------------------- MODULE MCPasswordRecovery --------------------------
(* Small instances of PasswordRecovery for TLC.                            *)
EXTENDS PasswordRecovery, TLC

\* Requests and passwords other than First are interchangeable.
Symmetry == Permutations(Requests) \cup Permutations(Passwords \ {First})
=============================================================================
