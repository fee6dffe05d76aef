------------------------------ MODULE Migrations ------------------------------
(***************************************************************************)
(* Migration commands of several releases on one database                  *)
(* (migrations/runner.go, cmd/migrate/main.go): up, down and version.      *)
(*                                                                         *)
(* A migration is its version with its name and checksum, merged into one  *)
(* stamp; a release is the set of migrations compiled into the command,    *)
(* one for each of its versions (migrations/loader.go).  PostgreSQL rolls  *)
(* DDL back, so the statements of a transaction appear in its commit.      *)
(***************************************************************************)
EXTENDS Integers, FiniteSets

CONSTANTS
  Commands,   \* runs of cmd/migrate, each of which happens at most once
  Releases,   \* sets of migrations
  MaxSteps,   \* bound on the steps of a down
  None

Migration == [version : Nat \ {0}, stamp : Nat]

\* At most one migration for each version.
Consistent(rows) ==
  /\ IsFiniteSet(rows) /\ rows \subseteq Migration
  /\ \A m, n \in rows : m.version = n.version => m = n

ASSUME NoneAssumption == None \notin Commands
ASSUME ReleasesAssumption == \A rows \in Releases : Consistent(rows)
ASSUME StepsAssumption == MaxSteps \in Nat \ {0}

VARIABLES
  applied,    \* the rows of schema_migrations
  schema,     \* how many times each version's objects are there: Up minus Down
  advisory,   \* who holds the advisory lock
  pc, op,
  release,    \* the migrations a command knows
  steps,      \* how many it is to undo
  read,       \* the rows it has read
  reply,
  current     \* the version it reports

database == <<applied, schema>>
params   == <<op, release, steps>>
vars     == <<database, advisory, params, pc, read, reply, current>>

-----------------------------------------------------------------------------
Versions == {m.version : m \in UNION Releases}

Init ==
  /\ applied = {}
  /\ schema = [v \in Versions |-> 0]
  /\ advisory = None
  /\ pc = [c \in Commands |-> "idle"]
  /\ op = [c \in Commands |-> "none"]
  /\ release = [c \in Commands |-> {}]
  /\ steps = [c \in Commands |-> 0]
  /\ read = [c \in Commands |-> {}]
  /\ reply = [c \in Commands |-> "none"]
  /\ current = [c \in Commands |-> 0]

Goto(c, from, to) == pc[c] = from /\ pc' = [pc EXCEPT ![c] = to]

Answer(c, from, answer) ==
  /\ Goto(c, from, "answered")
  /\ reply' = [reply EXCEPT ![c] = answer]

Release(c) == advisory' = IF advisory = c THEN None ELSE advisory

Call(c, o, known, n) ==
  /\ Goto(c, "idle", "begin")
  /\ op' = [op EXCEPT ![c] = o]
  /\ release' = [release EXCEPT ![c] = known]
  /\ steps' = [steps EXCEPT ![c] = n]
  /\ UNCHANGED <<database, advisory, read, reply, current>>

-----------------------------------------------------------------------------
(* inLockedTransaction: the lock first, then every other statement, each   *)
(* of which sees what was committed before it.                             *)

\* Mutant: without pg_advisory_xact_lock.
BeginOnly(c) ==
  /\ Goto(c, "begin", "load")
  /\ UNCHANGED <<database, advisory, params, read, reply, current>>

AcquireLock(c) ==
  /\ Goto(c, "begin", "load")
  /\ advisory = None
  /\ advisory' = c
  /\ UNCHANGED <<database, params, read, reply, current>>

\* A failing statement, a cancelled context, a lost connection: rolled back.
Fail(c) ==
  /\ pc[c] \in {"begin", "load", "run"}
  /\ Answer(c, pc[c], "failed")
  /\ Release(c)
  /\ UNCHANGED <<database, params, read, current>>

\* validateApplied: a version is known, with the name and checksum it has.
\* Mutant: the checksum is not compared.
VersionsKnown(c) ==
  \A m \in applied : \E n \in release[c] : n.version = m.version

Valid(c) == applied \subseteq release[c]

\* Mutant: a refused command does not roll back.
LoadWithoutRollback(c) ==
  /\ op[c] \in {"up", "down"}
  /\ \/ Valid(c) /\ Goto(c, "load", "run") /\ UNCHANGED reply
     \/ ~ Valid(c) /\ Answer(c, "load", "refused")
  /\ read' = [read EXCEPT ![c] = applied]
  /\ UNCHANGED <<database, advisory, params, current>>

LoadApplied(c) ==
  /\ op[c] \in {"up", "down"}
  /\ \/ /\ Valid(c) /\ Goto(c, "load", "run")
        /\ UNCHANGED <<advisory, reply>>
     \/ ~ Valid(c) /\ Answer(c, "load", "refused") /\ Release(c)
  /\ read' = [read EXCEPT ![c] = applied]
  /\ UNCHANGED <<database, params, current>>

Highest(rows) ==
  IF rows = {} THEN 0
  ELSE CHOOSE v \in {m.version : m \in rows} : \A m \in rows : m.version <= v

CurrentVersion(c) ==
  /\ op[c] = "version"
  /\ Answer(c, "load", "ok")
  /\ current' = [current EXCEPT ![c] = Highest(applied)]
  /\ Release(c)
  /\ UNCHANGED <<database, params, read>>

-----------------------------------------------------------------------------
\* What Up has to apply.
Pending(c) == {m \in release[c] : m.version \notin {n.version : n \in read[c]}}

\* Mutant: by ascending version.
Oldest(c) ==
  {m \in read[c] :
     Cardinality({n \in read[c] : n.version < m.version}) < steps[c]}

\* What Down has to undo: the first `steps` rows of read[c] by descending version.
Newest(c) ==
  {m \in read[c] :
     Cardinality({n \in read[c] : n.version > m.version}) < steps[c]}

\* The answer to COMMIT may be lost with the connection.
Committed(c) == \E answer \in {"ok", "failed"} : Answer(c, "run", answer)

CommitUp(c) ==
  /\ op[c] = "up"
  /\ Committed(c)
  /\ applied' = applied \cup Pending(c)
  /\ schema' = [v \in Versions |->
                  schema[v] + Cardinality({m \in Pending(c) : m.version = v})]
  /\ Release(c)
  /\ UNCHANGED <<params, read, current>>

CommitDown(c) ==
  /\ op[c] = "down"
  /\ Committed(c)
  /\ applied' = applied \ Newest(c)
  /\ schema' = [v \in Versions |->
                  schema[v] - Cardinality({m \in Newest(c) : m.version = v})]
  /\ Release(c)
  /\ UNCHANGED <<params, read, current>>

-----------------------------------------------------------------------------
Work(c) ==
  \/ AcquireLock(c) \/ LoadApplied(c) \/ CurrentVersion(c)
  \/ CommitUp(c) \/ CommitDown(c)

Next ==
  \E c \in Commands :
    \/ \E known \in Releases :
         \/ Call(c, "up", known, 0)
         \/ \E n \in 1..MaxSteps : Call(c, "down", known, n)
         \/ Call(c, "version", known, 0)
    \/ Work(c)
    \/ Fail(c)

Spec == Init /\ [][Next]_vars

\* The database executes the statements of every command and grants the lock once
\* it is free.
FairSpec == Spec /\ \A c \in Commands : WF_vars(Work(c))

-----------------------------------------------------------------------------
\* Every variable stays in its domain.
TypeOK ==
  /\ applied \subseteq UNION Releases
  /\ schema \in [Versions -> Nat]
  /\ advisory \in Commands \cup {None}
  /\ pc \in [Commands -> {"idle", "begin", "load", "run", "answered"}]
  /\ op \in [Commands -> {"none", "up", "down", "version"}]
  /\ release \in [Commands -> Releases \cup {{}}]
  /\ steps \in [Commands -> 0..MaxSteps]
  /\ read \in [Commands -> SUBSET UNION Releases]
  /\ reply \in [Commands -> {"none", "ok", "refused", "failed"}]
  /\ current \in [Commands -> Nat]

\* docs/DEVELOPMENT.md:49, "concurrent migration processes cannot apply schema
\* versions at the same time": a version's objects are there once if
\* schema_migrations has its row, and not at all otherwise.
RecordsMatchSchema ==
  \A v \in Versions :
    schema[v] = Cardinality({m \in applied : m.version = v})

\* A command that answers ok has done all its work, whatever was there and
\* whatever ran at the same time: an Up has left exactly its release applied
\* (runner.go:70-96), a Down has undone the newest versions, as many as it was
\* asked for or all (runner.go:136-144).
SuccessIsComplete ==
  [][\A c \in Commands :
       reply'[c] = "ok" /\ reply[c] # "ok" =>
         /\ op[c] = "up" => applied' = release[c]
         /\ op[c] = "down" =>
              /\ applied' \subseteq applied
              /\ \A m \in applied \ applied', n \in applied' :
                   n.version < m.version
              /\ \/ Cardinality(applied \ applied') = steps[c]
                 \/ applied' = {}]_vars

\* docs/DEVELOPMENT.md:47, "protected by a checksum": no command changes a
\* database with a migration that it does not know or that was edited since.
ForeignIsRefused ==
  [][\A c \in Commands :
       applied' # applied /\ advisory = c => applied \subseteq release[c]]_vars

\* What is applied goes forward to a whole release or back by its newest, however
\* commands run at once and fail (runner.go:65-144, docs/DEVELOPMENT.md:45-49).
History == INSTANCE VersionHistory

HistorySpec == History!Spec

\* The lock is a transaction's: however commands fail or are refused, the next one
\* gets it and every command ends (runner.go:202-218).
CommandsEnd == \A c \in Commands : pc[c] = "begin" ~> pc[c] = "answered"
=============================================================================
