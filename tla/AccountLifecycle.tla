---------------------------- MODULE AccountLifecycle ---------------------------
(***************************************************************************)
(* What an account promises, with no requests, no index entries, no locks  *)
(* and no clock: an address belongs to one account at a time, an account   *)
(* is there as a whole or not at all, and its link verifies it once,       *)
(* whatever has become of its standing, unless it was deleted.             *)
(*                                                                         *)
(* Registration.tla is the implementation and is checked, and proved, to   *)
(* refine it.                                                              *)
(***************************************************************************)
CONSTANTS
  Accounts,
  Addresses,
  None

VARIABLES
  standing,   \* "none" before the account exists
  holds,      \* the address of an account
  verified,   \* the accounts whose link was followed
  gone        \* those that were deleted

vars == <<standing, holds, verified, gone>>

-----------------------------------------------------------------------------
Exists(q) == standing[q] # "none"

Init ==
  /\ standing = [q \in Accounts |-> "none"]
  /\ holds = [q \in Accounts |-> None]
  /\ verified = {}
  /\ gone = {}

Open(q, a) ==
  /\ ~ Exists(q)
  /\ \A p \in Accounts \ gone : holds[p] # a
  /\ standing' = [standing EXCEPT ![q] = "pending"]
  /\ holds' = [holds EXCEPT ![q] = a]
  /\ UNCHANGED <<verified, gone>>

Verify(q) ==
  /\ Exists(q)
  /\ q \notin verified \cup gone
  /\ standing' = [standing EXCEPT ![q] = "active"]
  /\ verified' = verified \cup {q}
  /\ UNCHANGED <<holds, gone>>

\* An operator blocks an account or deletes it.
Block(q) ==
  /\ Exists(q)
  /\ standing' = [standing EXCEPT ![q] = "blocked"]
  /\ UNCHANGED <<holds, verified, gone>>

Delete(q) ==
  /\ Exists(q)
  /\ gone' = gone \cup {q}
  /\ UNCHANGED <<standing, holds, verified>>

Next ==
  \E q \in Accounts :
    \/ \E a \in Addresses : Open(q, a)
    \/ Verify(q) \/ Block(q) \/ Delete(q)

Spec == Init /\ [][Next]_vars
=============================================================================
