--------------------------------- MODULE Loader -------------------------------
(***************************************************************************)
(* Load of migrations/loader.go: the files of a directory, in the order of *)
(* their names, become the migrations of a release.                        *)
(*                                                                         *)
(* A migration's file is named by its digits, its label and its direction; *)
(* several spellings may stand for one number.  Entries that do not end in *)
(* .sql and directories are skipped and left out here.                     *)
(***************************************************************************)
EXTENDS Integers, Sequences, FiniteSets

CONSTANTS
  Digits,    \* spellings of versions, in the order of file names
  Number,    \* what ParseInt makes of each
  Labels,    \* in the order of file names
  Bodies,
  MaxFiles,  \* bound on the files of a directory
  Empty      \* the body of an empty file

ASSUME DigitsAssumption == Digits \in Seq(DOMAIN Number)
ASSUME NumberAssumption == Number \in [DOMAIN Number -> Int]
ASSUME LabelsAssumption == Labels \in Seq(STRING)

Directions == <<"down", "up">>

\* File names, as positions in the three orders.
FileNames == (DOMAIN Digits) \X (DOMAIN Labels) \X (DOMAIN Directions)

Version(n)   == Number[Digits[n[1]]]
Label(n)     == Labels[n[2]]
Direction(n) == Directions[n[3]]

Before(n, m) ==
  \E i \in 1..3 : n[i] < m[i] /\ \A j \in 1..(i - 1) : n[j] = m[j]

VARIABLES
  directory,   \* the bodies of its files
  stray,       \* there is a .sql file that is not named like a migration
  unread,
  parts,       \* partsByVersion
  outcome,     \* "reading", "done" or "error"
  migrations   \* the result

loadVars == <<directory, stray, unread, parts, outcome, migrations>>

LoadInit ==
  /\ \E files \in SUBSET FileNames :
       /\ Cardinality(files) <= MaxFiles
       /\ directory \in [files -> Bodies \cup {Empty}]
       /\ unread = files
  /\ stray \in BOOLEAN
  /\ parts = [v \in {} |-> Empty]
  /\ outcome = "reading"
  /\ migrations = <<>>

Refuse ==
  /\ outcome' = "error"
  /\ UNCHANGED <<directory, stray, unread, parts, migrations>>

\* The next entry is n.
Following(n) ==
  /\ outcome = "reading"
  /\ n \in unread
  /\ \A m \in unread \ {n} : Before(n, m)

Known(n) == Version(n) \in DOMAIN parts

RefuseStray == outcome = "reading" /\ stray /\ Refuse

Positive(n) == Version(n) > 0

RefuseVersion(n) == Following(n) /\ ~ Positive(n) /\ Refuse

\* Mutant: the labels of a version's files are not compared.
Mixed(n) == FALSE

Inconsistent(n) == Known(n) /\ parts[Version(n)].name # Label(n)

\* Mutant: a later file replaces an earlier one.
Replaced(n) == FALSE

Duplicate(n) == Known(n) /\ parts[Version(n)][Direction(n)] # Empty

RefuseFile(n) ==
  /\ Following(n)
  /\ Positive(n)
  /\ Inconsistent(n) \/ Duplicate(n)
  /\ Refuse

ReadFile(n) ==
  /\ Following(n)
  /\ Positive(n)
  /\ ~ Inconsistent(n) /\ ~ Duplicate(n)
  /\ LET old == IF Known(n) THEN parts[Version(n)]
                ELSE [name |-> Label(n), up |-> Empty, down |-> Empty]
         new == [old EXCEPT ![Direction(n)] = directory[n]]
     IN parts' = [v \in DOMAIN parts \cup {Version(n)} |->
                    IF v = Version(n) THEN new ELSE parts[v]]
  /\ unread' = unread \ {n}
  /\ UNCHANGED <<directory, stray, outcome, migrations>>

Complete(part) == part.up # Empty /\ part.down # Empty

\* Mutant: the order of the file names.
InFileOrder(v, w) ==
  \E n, m \in DOMAIN directory :
    Version(n) = v /\ Version(m) = w /\ Before(n, m)
    /\ \A k \in DOMAIN directory : Version(k) = w => Before(n, k)

\* The less function of sort.Slice.
Less(v, w) == v < w

\* Where sort.Slice puts v: after the versions that are less.
Position(v) == 1 + Cardinality({w \in DOMAIN parts : Less(w, v)})

Sorted ==
  [i \in 1..Cardinality(DOMAIN parts) |->
     LET v == CHOOSE v \in DOMAIN parts : Position(v) = i
     IN [version |-> v, name |-> parts[v].name,
         up |-> parts[v].up, down |-> parts[v].down]]

Finish ==
  /\ outcome = "reading"
  /\ unread = {} /\ ~ stray
  /\ IF \A v \in DOMAIN parts : Complete(parts[v])
     THEN outcome' = "done" /\ migrations' = Sorted
     ELSE outcome' = "error" /\ UNCHANGED migrations
  /\ UNCHANGED <<directory, stray, unread, parts>>

LoadNext ==
  \/ RefuseStray \/ Finish
  \/ \E n \in FileNames : RefuseVersion(n) \/ RefuseFile(n) \/ ReadFile(n)

LoadSpec == LoadInit /\ [][LoadNext]_loadVars /\ WF_loadVars(LoadNext)

-----------------------------------------------------------------------------
\* The statements of every file that has any are in the migration of its version,
\* under its name: no file is dropped, replaced by another spelling of its version
\* or mixed into a migration of another name (loader.go:62-84).
NoFileLost ==
  outcome = "done" =>
    \A n \in DOMAIN directory :
      directory[n] # Empty =>
        \E i \in DOMAIN migrations :
          /\ migrations[i].version = Version(n)
          /\ migrations[i].name = Label(n)
          /\ migrations[i][Direction(n)] = directory[n]

\* What Runner.Up and Down build on (runner.go:65, :136): versions ascend as
\* numbers, though 10 comes before 2 in the directory (loader.go:105).
VersionsAscend ==
  \A i, j \in DOMAIN migrations :
    i < j => migrations[i].version < migrations[j].version

\* Files that are in order: each version has one label and, of each direction, one
\* file with statements; before that, not after it, there may be empty ones of
\* other spellings, which Load takes for missing ones.
InOrder ==
  /\ ~ stray
  /\ \A n \in DOMAIN directory : Version(n) > 0
  /\ \A n, m \in DOMAIN directory :
       Version(n) = Version(m) =>
         /\ Label(n) = Label(m)
         /\ Direction(n) = Direction(m) /\ Before(n, m) => directory[n] = Empty
  /\ \A n \in DOMAIN directory, d \in {"down", "up"} :
       \E m \in DOMAIN directory :
         Version(m) = Version(n) /\ Direction(m) = d /\ directory[m] # Empty

\* Load ends, with migrations for exactly the directories in order.
LoadsWhatIsInOrder == <>(outcome = IF InOrder THEN "done" ELSE "error")
=============================================================================
