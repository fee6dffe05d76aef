---------------------------- MODULE MCSessionRaces ----------------------------
(* RefreshSessions from the state after one undisturbed login, so that     *)
(* every other request races on a live session: r0 logged u1 in, opening   *)
(* s1, and received t0.                                                    *)
EXTENDS RefreshSessions, TLC

CONSTANTS r0, s1, t0, u1

LoggedIn ==
  /\ clock = 0
  /\ active = [u \in Users |-> TRUE]
  /\ owner = [s \in Sessions |-> IF s = s1 THEN u1 ELSE None]
  /\ current = [s \in Sessions |-> IF s = s1 THEN t0 ELSE None]
  /\ createdAt = [s \in Sessions |-> 0]
  /\ lastUsedAt = [s \in Sessions |-> 0]
  /\ expiresAt = [s \in Sessions |-> IF s = s1 THEN Deadline(0) ELSE 0]
  /\ revokedAt = [s \in Sessions |-> None]
  /\ used = [t \in Tokens |-> None]
  /\ sessionLock = [s \in Sessions |-> None]
  /\ userLock = [u \in Users |-> None]
  /\ pc = [r \in Requests |-> IF r = r0 THEN "done" ELSE "idle"]
  /\ op = [r \in Requests |-> IF r = r0 THEN "login" ELSE "none"]
  /\ who = [r \in Requests |-> IF r = r0 THEN u1 ELSE None]
  /\ token = [r \in Requests |-> None]
  /\ fresh = [r \in Requests |-> IF r = r0 THEN t0 ELSE None]
  /\ at = [r \in Requests |-> 0]
  /\ target = [r \in Requests |-> None]
  /\ seen = [r \in Requests |-> {}]
  /\ reply = [r \in Requests |-> IF r = r0 THEN "ok" ELSE "none"]
  /\ before = [r \in Requests |-> {}]

LoggedInSpec == LoggedIn /\ [][Next]_vars

LoggedInSymmetry ==
  Permutations(Requests \ {r0}) \cup Permutations(Tokens \ {t0, Forged})
=============================================================================
