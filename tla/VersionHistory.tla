---------------------------- MODULE VersionHistory -----------------------------
(***************************************************************************)
(* What the migrations of a database promise, with no processes, no lock    *)
(* and no failures (docs/DEVELOPMENT.md:45-49): the migrations that are     *)
(* applied become a whole release that has them all, or lose their newest.  *)
(*                                                                         *)
(* Migrations.tla is the implementation and is checked, and proved, to     *)
(* refine it.                                                              *)
(***************************************************************************)
EXTENDS Integers, FiniteSets

CONSTANTS Releases, MaxSteps

VARIABLE applied

Init == applied = {}

Upgrade(release) ==
  /\ applied \subseteq release
  /\ applied' = release

\* The newest n go, or all; the release has to know those that stay, too.
Rollback(release, n) ==
  /\ applied \subseteq release
  /\ applied' \in SUBSET applied
  /\ \A m \in applied \ applied', k \in applied' : k.version < m.version
  /\ Cardinality(applied \ applied') = n \/ applied' = {}

Next ==
  \E release \in Releases :
    Upgrade(release) \/ \E n \in 1..MaxSteps : Rollback(release, n)

Spec == Init /\ [][Next]_applied
=============================================================================
