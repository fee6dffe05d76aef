--------------------------- MODULE MigrationsProofs ---------------------------
(***************************************************************************)
(* Theorems about Migrations, for any number of commands, any releases and *)
(* any bound on the steps of a down, and about Loader, for any directory:  *)
(* what Load returns is a release as Migrations takes it (LoadsARelease).  *)
(*                                                                         *)
(* First Migrations: the inductive invariant, what Pending and Newest are  *)
(* (Newest by counting: the rank of a row is a bijection), a lemma for     *)
(* each conjunct, the theorems.  Then Loader: its invariant, a lemma for   *)
(* each action, what sorting does (by ranks again), the theorems.          *)
(***************************************************************************)
EXTENDS Loader, Migrations, FiniteSetTheorems, TLAPS

USE NoneAssumption, StepsAssumption

-----------------------------------------------------------------------------
Of(rows, v) == {m \in rows : m.version = v}

\* What a command may rely on: it is alone from its lock to its commit, and what it
\* has read is there and known to it.
LockInv ==
  \A c \in Commands :
    /\ pc[c] # "idle" => release[c] \in Releases
    /\ pc[c] \in {"load", "run"} => advisory = c
    /\ pc[c] = "run" => read[c] = applied /\ applied \subseteq release[c]
    /\ op[c] = "down" => steps[c] \in Nat \ {0}
    /\ pc[c] # "answered" => reply[c] = "none"

IInv == TypeOK /\ LockInv /\ Consistent(applied) /\ RecordsMatchSchema

-----------------------------------------------------------------------------
(* Data.                                                                   *)

\* A release is consistent, and so is a part of it.
LEMMA ReleaseConsistent ==
  ASSUME NEW rel \in Releases, NEW rows \in SUBSET rel
  PROVE  Consistent(rows)
BY ReleasesAssumption, FS_Subset DEF Consistent

\* With what is applied and known, Up has the whole release applied, and adds no
\* version that was there.
LEMMA PendingIs ==
  ASSUME NEW c \in Commands, release[c] \in Releases,
         read[c] \subseteq release[c]
  PROVE  /\ read[c] \cup Pending(c) = release[c]
         /\ \A v : Of(read[c], v) = {} \/ Of(Pending(c), v) = {}
<1>1. \A m, n \in release[c] : m.version = n.version => m = n
  BY ReleasesAssumption DEF Consistent
<1>2. \A m \in release[c] : m \in read[c] \/ m \in Pending(c)
  BY <1>1 DEF Pending
<1> QED
  BY <1>2 DEF Pending, Of

\* What comes before m by its key.
Below(S, key, m) == {n \in S : key[n] < key[m]}

\* The rank of an element is below the number of elements, and a smaller key has a
\* smaller rank.
LEMMA Ranks ==
  ASSUME NEW S, IsFiniteSet(S), NEW key \in [S -> Int]
  PROVE  /\ \A m \in S :
              /\ Cardinality(Below(S, key, m)) \in Nat
              /\ Cardinality(Below(S, key, m)) < Cardinality(S)
         /\ \A m, n \in S : key[m] < key[n] =>
              Cardinality(Below(S, key, m)) < Cardinality(Below(S, key, n))
<1>1. ASSUME NEW m \in S
      PROVE  /\ IsFiniteSet(Below(S, key, m))
             /\ Cardinality(Below(S, key, m)) \in Nat
             /\ Cardinality(Below(S, key, m)) < Cardinality(S)
  <2>1. Below(S, key, m) \in SUBSET S
    BY DEF Below
  <2>2. m \notin Below(S, key, m)
    BY DEF Below
  <2>3. /\ IsFiniteSet(Below(S, key, m))
        /\ Cardinality(Below(S, key, m)) <= Cardinality(S)
        /\ Cardinality(Below(S, key, m)) # Cardinality(S)
    BY <2>1, <2>2, FS_Subset
  <2>4. Cardinality(Below(S, key, m)) \in Nat /\ Cardinality(S) \in Nat
    BY <2>3, FS_CardinalityType
  <2> QED
    BY <2>3, <2>4
<1>2. ASSUME NEW m \in S, NEW n \in S, key[m] < key[n]
      PROVE  Cardinality(Below(S, key, m)) < Cardinality(Below(S, key, n))
  <2>1. Below(S, key, m) \in SUBSET Below(S, key, n)
    BY <1>2 DEF Below
  <2>2. m \in Below(S, key, n) /\ m \notin Below(S, key, m)
    BY <1>2 DEF Below
  <2>3. /\ Cardinality(Below(S, key, m)) <= Cardinality(Below(S, key, n))
        /\ Cardinality(Below(S, key, m)) # Cardinality(Below(S, key, n))
    BY <1>1, <2>1, <2>2, FS_Subset
  <2> QED
    BY <1>1, <2>3
<1> QED
  BY <1>1, <1>2

\* With a key of its own for each element, every rank is taken once.
LEMMA RankBijection ==
  ASSUME NEW S, IsFiniteSet(S), NEW key \in [S -> Int],
         \A m, n \in S : key[m] = key[n] => m = n
  PROVE  [m \in S |-> Cardinality(Below(S, key, m))]
           \in Bijection(S, 0..(Cardinality(S) - 1))
<1> DEFINE rank == [m \in S |-> Cardinality(Below(S, key, m))]
           size == Cardinality(S)
<1>1. size \in Nat
  BY FS_CardinalityType
<1>2. rank \in [S -> 0..(size - 1)]
  BY <1>1, Ranks
<1>3. ASSUME NEW m \in S, NEW n \in S, m # n PROVE rank[m] # rank[n]
  <2>1. key[m] < key[n] \/ key[n] < key[m]
    BY <1>3
  <2> QED
    BY <2>1, Ranks
<1>4. rank \in Injection(S, 0..(size - 1))
  BY <1>2, <1>3 DEF Injection, IsInjective
<1>5. IsFiniteSet(0..(size - 1)) /\ Cardinality(0..(size - 1)) = size
  BY <1>1, FS_Interval
<1>6. rank \in Surjection(S, 0..(size - 1))
  BY <1>4, <1>5, FS_Injection
<1> QED
  BY <1>4, <1>6 DEF Bijection

Above(rows, m) == {n \in rows : n.version > m.version}

\* Rows ranked by descending version.
LEMMA RowRanks ==
  ASSUME NEW rows, Consistent(rows)
  PROVE  /\ \A m \in rows :
              /\ Cardinality(Above(rows, m)) \in Nat
              /\ Cardinality(Above(rows, m)) < Cardinality(rows)
         /\ \A m, n \in rows : m.version > n.version =>
              Cardinality(Above(rows, m)) < Cardinality(Above(rows, n))
         /\ [m \in rows |-> Cardinality(Above(rows, m))]
              \in Bijection(rows, 0..(Cardinality(rows) - 1))
<1> DEFINE key == [m \in rows |-> 0 - m.version]
<1>1. /\ IsFiniteSet(rows)
      /\ \A m \in rows : m.version \in Nat
      /\ \A m, n \in rows : m.version = n.version => m = n
  BY ReleasesAssumption DEF Consistent, Migration
<1>2. key \in [rows -> Int] /\ \A m, n \in rows : key[m] = key[n] => m = n
  BY <1>1
<1>3. \A m, n \in rows : key[m] < key[n] <=> m.version > n.version
  BY <1>1
<1>4. \A m \in rows : Above(rows, m) = Below(rows, key, m)
  BY <1>3 DEF Above, Below
<1> HIDE DEF key
<1>5. [m \in rows |-> Cardinality(Above(rows, m))]
        = [m \in rows |-> Cardinality(Below(rows, key, m))]
  BY <1>4
<1>6. /\ \A m \in rows :
           /\ Cardinality(Above(rows, m)) \in Nat
           /\ Cardinality(Above(rows, m)) < Cardinality(rows)
      /\ \A m, n \in rows : key[m] < key[n] =>
           Cardinality(Above(rows, m)) < Cardinality(Above(rows, n))
  BY <1>1, <1>2, <1>4, Ranks
<1>7. [m \in rows |-> Cardinality(Below(rows, key, m))]
        \in Bijection(rows, 0..(Cardinality(rows) - 1))
  BY <1>1, <1>2, RankBijection
<1> QED
  BY <1>3, <1>5, <1>6, <1>7

First(rows, k) == {m \in rows : Cardinality(Above(rows, m)) < k}

\* The rows of the first k ranks are the newest, and they are k, or all.
LEMMA FirstRanks ==
  ASSUME NEW rows, Consistent(rows), NEW k \in Nat
  PROVE  /\ \A m \in First(rows, k), n \in rows \ First(rows, k) :
              n.version < m.version
         /\ Cardinality(First(rows, k)) = k \/ First(rows, k) = rows
<1> DEFINE first == First(rows, k)
           rank == [m \in rows |-> Cardinality(Above(rows, m))]
           size == Cardinality(rows)
<1> USE DEF First
<1>1. /\ IsFiniteSet(rows) /\ size \in Nat
      /\ \A m \in rows : m.version \in Nat
      /\ \A m, n \in rows : m.version = n.version => m = n
  BY FS_CardinalityType DEF Consistent, Migration
<1>2. /\ \A m \in rows :
           /\ Cardinality(Above(rows, m)) \in Nat
           /\ Cardinality(Above(rows, m)) < Cardinality(rows)
      /\ \A m, n \in rows : m.version > n.version =>
           Cardinality(Above(rows, m)) < Cardinality(Above(rows, n))
  BY RowRanks
<1>3. \A m \in first, n \in rows \ first : n.version < m.version
  <2> SUFFICES ASSUME NEW m \in first, NEW n \in rows \ first,
                      ~ (n.version < m.version)
               PROVE  FALSE
    OBVIOUS
  <2>1. n.version > m.version
    BY <1>1
  <2>2. Cardinality(Above(rows, n)) < Cardinality(Above(rows, m))
    BY <1>2, <2>1
  <2> QED
    BY <1>2, <2>2
<1>4. rank \in Bijection(rows, 0..(size - 1))
  BY RowRanks
<1>5. CASE k >= size
  <2>1. first = rows
    BY <1>1, <1>2, <1>5
  <2> QED
    BY <1>3, <2>1
<1>6. CASE k < size
  <2> DEFINE low == [m \in first |-> rank[m]]
  <2>1. low \in [first -> 0..(k - 1)]
    BY <1>2
  <2>2. \A m, n \in first : low[m] = low[n] => m = n
    BY <1>4 DEF Bijection, Injection, IsInjective
  <2>3. \A i \in 0..(k - 1) : \E m \in first : low[m] = i
    <3>1. SUFFICES ASSUME NEW i \in 0..(k - 1)
                   PROVE  \E m \in first : low[m] = i
      OBVIOUS
    <3>2. i \in 0..(size - 1)
      BY <1>1, <1>6
    <3>3. PICK m \in rows : rank[m] = i
      BY <1>4, <3>2 DEF Bijection, Surjection
    <3> QED
      BY <3>3
  <2>4. low \in Bijection(first, 0..(k - 1))
    BY <2>1, <2>2, <2>3 DEF Bijection, Injection, Surjection, IsInjective
  <2>5. IsFiniteSet(first)
    BY <1>1, FS_Subset
  <2>6. Cardinality(0..(k - 1)) = Cardinality(first)
    BY <2>4, <2>5, FS_Bijection DEF ExistsBijection
  <2>7. Cardinality(0..(k - 1)) = k
    BY FS_Interval
  <2> QED
    BY <1>3, <2>6, <2>7
<1> QED
  BY <1>1, <1>5, <1>6

\* The objects of each version after an Up.
LEMMA UpCounts ==
  ASSUME IInv, NEW c \in Commands, CommitUp(c)
  PROVE  /\ applied' = release[c] /\ Consistent(applied)'
         /\ schema' \in [Versions -> Nat] /\ RecordsMatchSchema'
<1>1. /\ read[c] = applied /\ applied \subseteq release[c]
      /\ release[c] \in Releases /\ applied' = applied \cup Pending(c)
  BY DEF IInv, LockInv, CommitUp, Committed, Answer, Goto
<1>2. applied' = release[c]
  BY <1>1, PendingIs
<1>3. Consistent(release[c]) /\ Consistent(applied)
  BY <1>1, ReleaseConsistent DEF IInv
<1>4. ASSUME NEW v \in Versions
      PROVE  schema'[v] \in Nat /\ schema'[v] = Cardinality(Of(release[c], v))
  <2> DEFINE old == Of(applied, v)
             new == Of(Pending(c), v)
  <2>1. /\ schema[v] = Cardinality(old)
        /\ schema'[v] = Cardinality(old) + Cardinality(new)
    BY <1>4 DEF IInv, RecordsMatchSchema, CommitUp, Of
  <2>2. Of(release[c], v) = old \cup new
    BY <1>1, <1>2 DEF Of
  <2>3. old = {} \/ new = {}
    BY <1>1, PendingIs
  <2>4. old \in SUBSET release[c] /\ new \in SUBSET release[c]
    BY <1>1 DEF Of, Pending
  <2>5. /\ IsFiniteSet(old) /\ Cardinality(old) \in Nat
        /\ IsFiniteSet(new) /\ Cardinality(new) \in Nat
    BY <1>3, <2>4, FS_Subset, FS_CardinalityType DEF Consistent
  <2> HIDE DEF old, new
  <2>6. CASE old = {}
    BY <2>1, <2>2, <2>5, <2>6, FS_EmptySet
  <2>7. CASE new = {}
    BY <2>1, <2>2, <2>5, <2>7, FS_EmptySet
  <2> QED
    BY <2>3, <2>6, <2>7
<1>5. schema' = [v \in Versions |-> schema'[v]]
  BY DEF CommitUp
<1>6. schema' \in [Versions -> Nat]
  BY <1>4, <1>5
<1>7. RecordsMatchSchema'
  BY <1>2, <1>4 DEF RecordsMatchSchema, Of
<1>8. Consistent(applied)'
  BY <1>2, <1>3 DEF Consistent
<1> QED
  BY <1>2, <1>6, <1>7, <1>8

\* And after a Down.
LEMMA DownCounts ==
  ASSUME IInv, NEW c \in Commands, CommitDown(c)
  PROVE  /\ applied' = applied \ Newest(c) /\ Consistent(applied)'
         /\ schema' \in [Versions -> Nat] /\ RecordsMatchSchema'
<1>1. Consistent(applied) /\ read[c] = applied
  BY DEF IInv, LockInv, CommitDown, Committed, Answer, Goto
<1>2. applied' = applied \ Newest(c) /\ Newest(c) \in SUBSET applied
  BY <1>1 DEF CommitDown, Newest
<1>3. Consistent(applied)'
  BY <1>1, <1>2, FS_Subset DEF Consistent
<1>4. ASSUME NEW v \in Versions
      PROVE  schema'[v] \in Nat /\ schema'[v] = Cardinality(Of(applied', v))
  <2> DEFINE old  == Of(applied, v)
             gone == Of(Newest(c), v)
  <2>1. /\ schema[v] = Cardinality(old)
        /\ schema'[v] = Cardinality(old) - Cardinality(gone)
    BY <1>4 DEF IInv, RecordsMatchSchema, CommitDown, Of
  <2>2. Of(applied', v) = old \ gone /\ old \cap gone = gone
    BY <1>2 DEF Of
  <2>3. old \in SUBSET applied
    BY DEF Of
  <2>4. IsFiniteSet(old)
    BY <1>1, <2>3, FS_Subset DEF Consistent
  <2> HIDE DEF old, gone
  <2>5. /\ IsFiniteSet(old \ gone)
        /\ Cardinality(old \ gone) = Cardinality(old) - Cardinality(old \cap gone)
    BY <2>4, FS_Difference
  <2>6. Cardinality(old \ gone) \in Nat
    BY <2>5, FS_CardinalityType
  <2> QED
    BY <2>1, <2>2, <2>5, <2>6
<1>5. schema' = [v \in Versions |-> schema'[v]]
  BY DEF CommitDown
<1>6. schema' \in [Versions -> Nat]
  BY <1>4, <1>5
<1>7. RecordsMatchSchema'
  BY <1>4 DEF RecordsMatchSchema, Of
<1> QED
  BY <1>2, <1>3, <1>6, <1>7

\* A Down undoes the newest versions, as many as it was asked for or all.
LEMMA DownIsComplete ==
  ASSUME IInv, NEW c \in Commands, CommitDown(c)
  PROVE  /\ applied' \subseteq applied
         /\ \A m \in applied \ applied', n \in applied' : n.version < m.version
         /\ Cardinality(applied \ applied') = steps[c] \/ applied' = {}
<1>1. /\ Consistent(applied) /\ read[c] = applied /\ steps[c] \in Nat
      /\ applied' = applied \ Newest(c)
  BY DEF IInv, LockInv, CommitDown, Committed, Answer, Goto
<1> DEFINE first == First(applied, steps[c])
<1>2. Newest(c) = first
  BY <1>1 DEF Newest, Above, First
<1>3. /\ \A m \in first, n \in applied \ first : n.version < m.version
      /\ Cardinality(first) = steps[c] \/ first = applied
  BY <1>1, FirstRanks
<1>4. first \subseteq applied
  BY DEF First
<1> HIDE DEF first
<1>5. applied \ applied' = first
  BY <1>1, <1>2, <1>4
<1> QED
  BY <1>1, <1>2, <1>3, <1>5

-----------------------------------------------------------------------------
\* Every conjunct holds on an empty database.
LEMMA InitInv == Init => IInv
<1> SUFFICES ASSUME Init PROVE IInv
  OBVIOUS
<1> USE DEF Init
<1>1. TypeOK
  BY DEF TypeOK
<1>2. LockInv
  BY DEF LockInv
<1>3. Consistent(applied)
  BY FS_EmptySet DEF Consistent
<1>4. RecordsMatchSchema
  <2>1. \A v \in Versions : {m \in applied : m.version = v} = {}
    OBVIOUS
  <2> QED
    BY <2>1, FS_EmptySet DEF RecordsMatchSchema
<1> QED
  BY <1>1, <1>2, <1>3, <1>4 DEF IInv

\* Whoever goes on from the lock to the commit is alone.
LEMMA LockStep ==
  ASSUME IInv, [Next]_vars
  PROVE  LockInv'
<1> USE DEF database, params, Goto, Committed, Answer, Release, IInv, TypeOK, LockInv
<1>1. CASE UNCHANGED vars
  BY <1>1 DEF vars
<1>2. ASSUME NEW c \in Commands, NEW known \in Releases, NEW n \in 0..MaxSteps,
             \/ Call(c, "up", known, n) \/ Call(c, "version", known, n)
             \/ n \in 1..MaxSteps /\ Call(c, "down", known, n)
      PROVE  LockInv'
  BY <1>2 DEF Call
<1>3. ASSUME NEW c \in Commands, AcquireLock(c) PROVE LockInv'
  BY <1>3 DEF AcquireLock
<1>4. ASSUME NEW c \in Commands, LoadApplied(c) PROVE LockInv'
  BY <1>4 DEF LoadApplied, Valid
<1>5. ASSUME NEW c \in Commands, CurrentVersion(c) PROVE LockInv'
  BY <1>5 DEF CurrentVersion
<1>6. ASSUME NEW c \in Commands, CommitUp(c) PROVE LockInv'
  BY <1>6 DEF CommitUp
<1>7. ASSUME NEW c \in Commands, CommitDown(c) PROVE LockInv'
  BY <1>7 DEF CommitDown
<1>8. ASSUME NEW c \in Commands, Fail(c) PROVE LockInv'
  BY <1>8 DEF Fail
<1> QED
  BY <1>1, <1>2, <1>3, <1>4, <1>5, <1>6, <1>7, <1>8 DEF Next, Work

\* Only the two commits write to the database.
LEMMA TableStep ==
  ASSUME IInv, [Next]_vars, ~ UNCHANGED database
  PROVE  \E c \in Commands : CommitUp(c) \/ CommitDown(c)
BY DEF Next, Work, vars, params, Call, AcquireLock, LoadApplied, CurrentVersion,
       Fail

\* The version that is reported is that of the newest row, or zero.
LEMMA HighestIs ==
  ASSUME Consistent(applied)
  PROVE  Highest(applied) \in Nat
<1>1. CASE applied = {}
  BY <1>1 DEF Highest
<1>2. CASE applied # {}
  <2> DEFINE first == First(applied, 1)
  <2>1. Cardinality(first) = 1 \/ first = applied
    BY FirstRanks
  <2>2. first # {}
    <3> HIDE DEF first
    <3>1. SUFFICES ASSUME first = {} PROVE FALSE
      OBVIOUS
    <3>2. Cardinality(first) = 0
      BY <3>1, FS_EmptySet
    <3> QED
      BY <1>2, <2>1, <3>1, <3>2
  <2>3. PICK m \in applied : Cardinality(Above(applied, m)) < 1
    BY <2>2 DEF First
  <2>4. Above(applied, m) \in SUBSET applied /\ IsFiniteSet(applied)
    BY DEF Above, Consistent
  <2>5. IsFiniteSet(Above(applied, m))
    BY <2>4, FS_Subset
  <2>6. Cardinality(Above(applied, m)) \in Nat
    BY <2>5, FS_CardinalityType
  <2>7. Above(applied, m) = {}
    BY <2>3, <2>5, <2>6, FS_EmptySet
  <2>8. \A n \in applied : n.version \in Nat
    BY DEF Consistent, Migration
  <2>9. \A n \in applied : n.version <= m.version
    BY <2>7, <2>8 DEF Above
  <2>10. \E v \in {n.version : n \in applied} : \A n \in applied : n.version <= v
    BY <2>9
  <2> QED
    BY <1>2, <2>8, <2>10 DEF Highest
<1> QED
  BY <1>1, <1>2

\* TypeOK rests on what has been read and on the counts.
LEMMA TypeStep ==
  ASSUME IInv, [Next]_vars
  PROVE  TypeOK'
<1> USE DEF database, params, Goto, Committed, Answer, Release, IInv, TypeOK
<1>1. CASE UNCHANGED vars
  BY <1>1 DEF vars
<1>2. ASSUME NEW c \in Commands, NEW known \in Releases, NEW n \in 0..MaxSteps,
             NEW o \in {"up", "down", "version"}, Call(c, o, known, n)
      PROVE  TypeOK'
  BY <1>2 DEF Call
<1>3. ASSUME NEW c \in Commands, AcquireLock(c) PROVE TypeOK'
  BY <1>3 DEF AcquireLock
<1>4. ASSUME NEW c \in Commands, LoadApplied(c) PROVE TypeOK'
  BY <1>4 DEF LoadApplied
<1>5. ASSUME NEW c \in Commands, CurrentVersion(c) PROVE TypeOK'
  BY <1>5, HighestIs DEF CurrentVersion
<1>6. ASSUME NEW c \in Commands, CommitUp(c) PROVE TypeOK'
  <2>1. applied' \subseteq UNION Releases /\ schema' \in [Versions -> Nat]
    BY <1>6, UpCounts DEF LockInv, CommitUp
  <2> QED
    BY <1>6, <2>1 DEF CommitUp
<1>7. ASSUME NEW c \in Commands, CommitDown(c) PROVE TypeOK'
  <2>1. applied' \subseteq UNION Releases /\ schema' \in [Versions -> Nat]
    BY <1>7, DownCounts
  <2> QED
    BY <1>7, <2>1 DEF CommitDown
<1>8. ASSUME NEW c \in Commands, Fail(c) PROVE TypeOK'
  BY <1>8 DEF Fail
<1>9. 0 \in 0..MaxSteps /\ 1..MaxSteps \subseteq 0..MaxSteps
  OBVIOUS
<1> QED
  BY <1>1, <1>2, <1>3, <1>4, <1>5, <1>6, <1>7, <1>8, <1>9 DEF Next, Work

\* All conjuncts together.
LEMMA IndStep == IInv /\ [Next]_vars => IInv'
<1> SUFFICES ASSUME IInv, [Next]_vars PROVE IInv'
  OBVIOUS
<1>1. TypeOK' /\ LockInv'
  BY TypeStep, LockStep
<1>2. Consistent(applied)' /\ RecordsMatchSchema'
  <2>1. CASE UNCHANGED database
    BY <2>1 DEF IInv, database, Consistent, RecordsMatchSchema
  <2>2. CASE ~ UNCHANGED database
    BY <2>2, TableStep, UpCounts, DownCounts
  <2> QED
    BY <2>1, <2>2
<1> QED
  BY <1>1, <1>2 DEF IInv

-----------------------------------------------------------------------------
\* Who commits has the lock, which is nobody else's, and has found every row known.
LEMMA KnownWhenWritten ==
  ASSUME IInv, [Next]_vars, NEW c \in Commands, applied' # applied, advisory = c
  PROVE  applied \subseteq release[c]
<1>1. PICK d \in Commands : CommitUp(d) \/ CommitDown(d)
  BY TableStep DEF database
<1>2. pc[d] = "run"
  BY <1>1 DEF CommitUp, CommitDown, Committed, Answer, Goto
<1> QED
  BY <1>2 DEF IInv, LockInv

WorkDone(c) ==
  /\ op[c] = "up" => applied' = release[c]
  /\ op[c] = "down" =>
       /\ applied' \subseteq applied
       /\ \A m \in applied \ applied', n \in applied' : n.version < m.version
       /\ \/ Cardinality(applied \ applied') = steps[c]
          \/ applied' = {}

\* Only a commit answers ok to an Up or a Down.
LEMMA CompleteWhenAnswered ==
  ASSUME IInv, [Next]_vars, NEW c \in Commands, reply'[c] = "ok", reply[c] # "ok"
  PROVE  WorkDone(c)
<1> USE DEF params, Committed, Answer, Goto
<1>1. ASSUME NEW d \in Commands, CommitUp(d), c = d PROVE WorkDone(c)
  BY <1>1, UpCounts DEF WorkDone, CommitUp
<1>2. ASSUME NEW d \in Commands, CommitDown(d), c = d PROVE WorkDone(c)
  BY <1>2, DownIsComplete DEF WorkDone, CommitDown
<1>3. ASSUME NEW d \in Commands, CurrentVersion(d), c = d PROVE WorkDone(c)
  BY <1>3 DEF WorkDone, CurrentVersion
<1>4. ASSUME NEW d \in Commands, d # c,
             CommitUp(d) \/ CommitDown(d) \/ CurrentVersion(d)
      PROVE  FALSE
  BY <1>4 DEF CommitUp, CommitDown, CurrentVersion, IInv, TypeOK
<1>5. ASSUME NEW d \in Commands, LoadApplied(d) \/ Fail(d) PROVE FALSE
  BY <1>5 DEF LoadApplied, Fail, IInv, TypeOK
<1>6. ASSUME UNCHANGED reply PROVE FALSE
  BY <1>6
<1>7. \A d \in Commands : AcquireLock(d) => UNCHANGED reply
  BY DEF AcquireLock
<1>8. \A d \in Commands, o \in {"up", "down", "version"}, known \in Releases,
         n \in Nat :
        Call(d, o, known, n) => UNCHANGED reply
  BY DEF Call
<1> QED
  BY <1>1, <1>2, <1>3, <1>4, <1>5, <1>6, <1>7, <1>8 DEF Next, Work, vars

-----------------------------------------------------------------------------
\* The inductive invariant holds in every reachable state.
THEOREM Invariance == Spec => []IInv
BY InitInv, IndStep, PTL DEF Spec

\* Every variable stays in its domain.
THEOREM TypeCorrect == Spec => []TypeOK
<1>1. IInv => TypeOK
  BY DEF IInv
<1> QED
  BY <1>1, Invariance, PTL

\* However many processes migrate at once, a version's objects are there once if
\* schema_migrations has its row and not at all otherwise (docs/DEVELOPMENT.md:49).
THEOREM RecordsMatch == Spec => []RecordsMatchSchema
<1>1. IInv => RecordsMatchSchema
  BY DEF IInv
<1> QED
  BY <1>1, Invariance, PTL

\* No command changes a database with a migration that it does not know or that was
\* edited since (docs/DEVELOPMENT.md:47, runner.go:240-259).
THEOREM RefusesForeign == Spec => ForeignIsRefused
<1>1. IInv /\ [Next]_vars
        => [\A c \in Commands :
              applied' # applied /\ advisory = c
                => applied \subseteq release[c]]_vars
  BY KnownWhenWritten
<1> QED
  BY <1>1, Invariance, PTL DEF Spec, ForeignIsRefused

\* A command that answers ok has done all its work (runner.go:70-96, :136-144).
THEOREM CompletesOrFails == Spec => SuccessIsComplete
<1>1. IInv /\ [Next]_vars
        => [\A c \in Commands :
              reply'[c] = "ok" /\ reply[c] # "ok" =>
                /\ op[c] = "up" => applied' = release[c]
                /\ op[c] = "down" =>
                     /\ applied' \subseteq applied
                     /\ \A m \in applied \ applied', n \in applied' :
                          n.version < m.version
                     /\ \/ Cardinality(applied \ applied') = steps[c]
                        \/ applied' = {}]_vars
  BY CompleteWhenAnswered DEF WorkDone
<1> QED
  BY <1>1, Invariance, PTL DEF Spec, SuccessIsComplete

\* The table of applied migrations implements the history of versions: every commit
\* is an upgrade or a rollback, by a release that knows all of it.
THEOREM Refinement == Spec => HistorySpec
<1>1. Init => History!Init
  BY DEF Init, History!Init
<1>2. IInv /\ [Next]_vars => [History!Next]_applied
  <2> SUFFICES ASSUME IInv, [Next]_vars, applied' # applied
               PROVE  History!Next
    OBVIOUS
  <2>1. PICK c \in Commands : CommitUp(c) \/ CommitDown(c)
    BY TableStep DEF database
  <2>2. pc[c] = "run"
    BY <2>1 DEF CommitUp, CommitDown, Committed, Answer, Goto
  <2>3. applied \subseteq release[c] /\ release[c] \in Releases
    BY <2>2 DEF IInv, LockInv
  <2>4. CASE CommitUp(c)
    <3>1. applied' = release[c]
      BY <2>4, UpCounts
    <3> QED
      BY <2>3, <3>1 DEF History!Next, History!Upgrade
  <2>5. CASE CommitDown(c)
    <3>1. steps[c] \in 1..MaxSteps
      BY <2>5 DEF CommitDown, IInv, LockInv, TypeOK
    <3>2. /\ applied' \subseteq applied
          /\ \A m \in applied \ applied', n \in applied' : n.version < m.version
          /\ Cardinality(applied \ applied') = steps[c] \/ applied' = {}
      BY <2>5, DownIsComplete
    <3>3. History!Cardinality(applied \ applied') = Cardinality(applied \ applied')
      BY DEF Cardinality, History!Cardinality
    <3>4. History!Rollback(release[c], steps[c])
      BY <2>3, <3>2, <3>3 DEF History!Rollback
    <3> QED
      BY <2>3, <3>1, <3>4 DEF History!Next
  <2> QED
    BY <2>1, <2>4, <2>5
<1> QED
  BY <1>1, <1>2, Invariance, PTL DEF Spec, HistorySpec, History!Spec

-----------------------------------------------------------------------------
(* Load.  What it has read is in parts, and it has read in order.          *)

Taken == DOMAIN directory \ unread

Part == [name : STRING, up : Bodies \cup {Empty}, down : Bodies \cup {Empty}]

\* The parts are those of the files that are read.
Gathered ==
  /\ DOMAIN parts = {Version(n) : n \in Taken}
  /\ parts \in [DOMAIN parts -> Part]
  /\ \A n \in Taken :
       /\ Positive(n)
       /\ parts[Version(n)].name = Label(n)
       /\ directory[n] # Empty =>
            parts[Version(n)][Direction(n)] = directory[n]
  /\ \A v \in DOMAIN parts, d \in {"down", "up"} :
       parts[v][d] # Empty =>
         \E n \in Taken :
           Version(n) = v /\ Direction(n) = d /\ directory[n] # Empty

\* Of the files of one version and direction, only the last has statements.
Spelled ==
  \A n, m \in Taken :
    /\ Version(n) = Version(m) /\ Direction(n) = Direction(m)
    /\ Before(n, m)
    => directory[n] = Empty

LoadInv ==
  /\ DOMAIN directory \subseteq FileNames /\ unread \subseteq DOMAIN directory
  /\ directory \in [DOMAIN directory -> Bodies \cup {Empty}]
  /\ stray \in BOOLEAN
  /\ outcome \in {"reading", "done", "error"}
  /\ \A n \in Taken, m \in unread : Before(n, m)
  /\ Gathered /\ Spelled
  /\ outcome = "done" =>
       /\ unread = {} /\ ~ stray
       /\ \A v \in DOMAIN parts : Complete(parts[v])
       /\ migrations = Sorted
  /\ outcome # "done" => migrations = <<>>
  /\ outcome = "error" => ~ InOrder

\* What a file's name says.
LEMMA NameParts ==
  ASSUME NEW n \in FileNames
  PROVE  /\ Version(n) \in Int /\ Label(n) \in STRING
         /\ Direction(n) \in {"down", "up"}
BY DigitsAssumption, NumberAssumption, LabelsAssumption
   DEF FileNames, Version, Label, Direction, Directions

\* No two names come before each other.
LEMMA BeforeIsAsymmetric ==
  ASSUME NEW n \in FileNames, NEW m \in FileNames, Before(n, m)
  PROVE  ~ Before(m, n)
<1>1. /\ n[1] \in Int /\ n[2] \in Int /\ n[3] \in Int
      /\ m[1] \in Int /\ m[2] \in Int /\ m[3] \in Int
  BY DigitsAssumption, LabelsAssumption DEF FileNames, Directions
<1>2. \A a \in FileNames, b \in FileNames :
        Before(a, b) <=>
          \/ a[1] < b[1]
          \/ a[1] = b[1] /\ a[2] < b[2]
          \/ a[1] = b[1] /\ a[2] = b[2] /\ a[3] < b[3]
  BY DEF Before
<1> QED
  BY <1>1, <1>2

\* Nothing is read at first.
LEMMA LoadInitInv == LoadInit => LoadInv
<1> SUFFICES ASSUME LoadInit PROVE LoadInv
  OBVIOUS
<1>1. PICK files \in SUBSET FileNames :
        directory \in [files -> Bodies \cup {Empty}] /\ unread = files
  BY DEF LoadInit
<1>2. DOMAIN directory = files /\ Taken = {}
  BY <1>1 DEF Taken
<1>3. /\ stray \in BOOLEAN /\ DOMAIN parts = {} /\ parts \in [{} -> Part]
      /\ outcome = "reading" /\ migrations = <<>>
  BY DEF LoadInit
<1> QED
  BY <1>1, <1>2, <1>3 DEF LoadInv, Gathered, Spelled

\* A file that is accepted is added to its version's part.
LEMMA ReadFileStep ==
  ASSUME LoadInv, NEW n \in FileNames, ReadFile(n)
  PROVE  LoadInv'
<1> DEFINE v == Version(n)
           d == Direction(n)
           old == IF Known(n) THEN parts[v]
                  ELSE [name |-> Label(n), up |-> Empty, down |-> Empty]
           new == [old EXCEPT ![d] = directory[n]]
<1>1. /\ outcome = "reading" /\ n \in unread /\ Positive(n)
      /\ \A m \in unread \ {n} : Before(n, m)
      /\ Known(n) => parts[v].name = Label(n) /\ parts[v][d] = Empty
      /\ parts' = [w \in DOMAIN parts \cup {v} |-> IF w = v THEN new ELSE parts[w]]
      /\ unread' = unread \ {n}
      /\ UNCHANGED <<directory, stray, outcome, migrations>>
  BY DEF ReadFile, Following, Inconsistent, Duplicate
<1>2. /\ n \in DOMAIN directory /\ directory[n] \in Bodies \cup {Empty}
      /\ Label(n) \in STRING /\ d \in {"down", "up"}
  BY <1>1, NameParts DEF LoadInv
<1>3. old \in Part /\ old.name = Label(n) /\ old[d] = Empty
  BY <1>1, <1>2 DEF LoadInv, Gathered, Known, Part
<1>4. /\ new \in Part /\ new.name = Label(n) /\ new[d] = directory[n]
      /\ \A e \in {"down", "up"} \ {d} : new[e] = old[e]
  <2> HIDE DEF old
  <2>1. CASE d = "up"
    BY <1>2, <1>3, <2>1 DEF Part
  <2>2. CASE d = "down"
    BY <1>2, <1>3, <2>2 DEF Part
  <2> QED
    BY <1>2, <2>1, <2>2
<1> HIDE DEF new
<1>5. /\ DOMAIN parts' = DOMAIN parts \cup {v} /\ parts'[v] = new
      /\ \A w \in DOMAIN parts : w # v => parts'[w] = parts[w]
  BY <1>1
<1>6. Taken' = Taken \cup {n} /\ n \notin Taken
  BY <1>1, <1>2 DEF Taken
<1>7. Gathered'
  <2>1. DOMAIN parts' = {Version(m) : m \in Taken'}
    BY <1>5, <1>6 DEF LoadInv, Gathered
  <2>2. parts' \in [DOMAIN parts' -> Part]
    BY <1>1, <1>4, <1>5 DEF LoadInv, Gathered
  <2>3. ASSUME NEW m \in Taken'
        PROVE  /\ Positive(m)
               /\ parts'[Version(m)].name = Label(m)
               /\ directory[m] # Empty =>
                    parts'[Version(m)][Direction(m)] = directory[m]
    <3>1. CASE m = n
      BY <1>1, <1>4, <1>5, <3>1
    <3>2. CASE m # n
      <4>1. /\ m \in Taken /\ Version(m) \in DOMAIN parts /\ Positive(m)
            /\ parts[Version(m)].name = Label(m)
            /\ directory[m] # Empty =>
                 parts[Version(m)][Direction(m)] = directory[m]
            /\ Direction(m) \in {"down", "up"}
        BY <1>6, <3>2, NameParts DEF LoadInv, Gathered, Taken
      <4>2. CASE Version(m) # v
        BY <1>5, <4>1, <4>2
      <4>3. CASE Version(m) = v
        <5>1. Known(n) /\ old = parts[v]
          BY <4>1, <4>3 DEF Known
        <5>2. Label(m) = Label(n)
          BY <1>1, <4>1, <4>3, <5>1
        <5>3. CASE Direction(m) = d
          BY <1>1, <1>4, <1>5, <4>1, <4>3, <5>1, <5>2, <5>3
        <5>4. CASE Direction(m) # d
          <6>1. new[Direction(m)] = parts[v][Direction(m)]
            BY <1>4, <4>1, <5>1, <5>4
          <6> QED
            BY <1>4, <1>5, <4>1, <4>3, <5>2, <6>1
        <5> QED
          BY <5>3, <5>4
      <4> QED
        BY <4>2, <4>3
    <3> QED
      BY <3>1, <3>2
  <2>4. ASSUME NEW w \in DOMAIN parts', NEW e \in {"down", "up"},
               parts'[w][e] # Empty
        PROVE  \E m \in Taken' :
                 Version(m) = w /\ Direction(m) = e /\ directory[m] # Empty
    <3>1. CASE w # v
      BY <1>5, <1>6, <2>4, <3>1 DEF LoadInv, Gathered
    <3>2. CASE w = v /\ e = d
      BY <1>4, <1>5, <1>6, <2>4, <3>2
    <3>3. CASE w = v /\ e # d
      <4>1. old[e] # Empty
        BY <1>4, <1>5, <2>4, <3>3
      <4>2. Known(n) /\ old = parts[v]
        BY <4>1
      <4> QED
        BY <1>6, <3>3, <4>1, <4>2 DEF LoadInv, Gathered, Known
    <3> QED
      BY <3>1, <3>2, <3>3
  <2>5. directory' = directory
    BY <1>1
  <2> HIDE DEF v, d, old
  <2> QED
    BY <2>1, <2>2, <2>3, <2>4, <2>5 DEF Gathered
<1>8. Spelled'
  <2> SUFFICES ASSUME NEW k \in Taken', NEW m \in Taken', Version(k) = Version(m),
                      Direction(k) = Direction(m), Before(k, m)
               PROVE  directory[k] = Empty
    BY <1>1 DEF Spelled
  <2>1. k \in FileNames /\ m \in FileNames
    BY <1>6 DEF LoadInv, Taken
  <2>2. CASE k # n /\ m # n
    BY <1>6, <2>2 DEF LoadInv, Spelled
  <2>3. CASE k # n /\ m = n
    <3>1. k \in Taken /\ Version(k) \in DOMAIN parts
      BY <1>6, <2>3 DEF LoadInv, Gathered
    <3>2. parts[v][d] = Empty
      BY <1>1, <2>3, <3>1 DEF Known
    <3> QED
      BY <2>3, <3>1, <3>2 DEF LoadInv, Gathered
  <2>4. CASE k = n
    <3>1. m # n
      BY <2>1, <2>4, BeforeIsAsymmetric
    <3>2. Before(m, n)
      BY <1>1, <1>6, <3>1 DEF LoadInv
    <3> QED
      BY <2>1, <2>4, <3>2, BeforeIsAsymmetric
  <2> QED
    BY <2>2, <2>3, <2>4
<1>9. \A k \in Taken', m \in unread' : Before(k, m)
  BY <1>1, <1>6 DEF LoadInv
<1> QED
  BY <1>1, <1>7, <1>8, <1>9 DEF LoadInv

\* A refusal has its reason in the directory.
LEMMA RefusalIsRight ==
  ASSUME LoadInv, RefuseStray \/ \E n \in FileNames : RefuseVersion(n) \/ RefuseFile(n)
  PROVE  ~ InOrder
<1>1. CASE RefuseStray
  BY <1>1 DEF RefuseStray, InOrder
<1>2. ASSUME NEW n \in FileNames, RefuseVersion(n) PROVE ~ InOrder
  BY <1>2 DEF RefuseVersion, Following, Positive, InOrder, LoadInv
<1>3. ASSUME NEW n \in FileNames, RefuseFile(n) PROVE ~ InOrder
  <2>1. n \in unread /\ n \in DOMAIN directory
    BY <1>3 DEF RefuseFile, Following, LoadInv
  <2>2. CASE Inconsistent(n)
    <3>1. PICK m \in Taken : Version(m) = Version(n)
      BY <2>2 DEF Inconsistent, Known, LoadInv, Gathered
    <3>2. m \in DOMAIN directory /\ Label(m) # Label(n)
      BY <2>2, <3>1 DEF Inconsistent, LoadInv, Gathered, Taken
    <3> QED
      BY <2>1, <3>1, <3>2 DEF InOrder
  <2>3. CASE Duplicate(n)
    <3>1. Direction(n) \in {"down", "up"}
      BY NameParts
    <3>2. PICK m \in Taken :
            /\ Version(m) = Version(n) /\ Direction(m) = Direction(n)
            /\ directory[m] # Empty
      BY <2>3, <3>1 DEF Duplicate, Known, LoadInv, Gathered
    <3>3. m \in DOMAIN directory /\ Before(m, n)
      BY <2>1, <3>2 DEF LoadInv, Taken
    <3> QED
      BY <2>1, <3>2, <3>3 DEF InOrder
  <2> QED
    BY <1>3, <2>2, <2>3 DEF RefuseFile
<1> QED
  BY <1>1, <1>2, <1>3

\* So has the refusal of a version that lacks a direction.
LEMMA FinishStep ==
  ASSUME LoadInv, Finish
  PROVE  LoadInv'
<1>1. /\ unread = {} /\ ~ stray /\ outcome = "reading"
      /\ UNCHANGED <<directory, stray, unread, parts>>
  BY DEF Finish
<1>2. Taken = DOMAIN directory
  BY <1>1 DEF Taken
<1>3. CASE \A v \in DOMAIN parts : Complete(parts[v])
  <2>1. outcome' = "done" /\ migrations' = Sorted /\ Sorted' = Sorted
    BY <1>1, <1>3 DEF Finish, Sorted, Position
  <2>2. Gathered' /\ Spelled' /\ Taken' = Taken
    BY <1>1 DEF LoadInv, Gathered, Spelled, Taken
  <2> QED
    BY <1>1, <1>3, <2>1, <2>2 DEF LoadInv
<1>4. CASE ~ \A v \in DOMAIN parts : Complete(parts[v])
  <2>1. PICK v \in DOMAIN parts : ~ Complete(parts[v])
    BY <1>4
  <2>2. PICK d \in {"down", "up"} : parts[v][d] = Empty
    BY <2>1 DEF Complete
  <2>3. PICK n \in DOMAIN directory : Version(n) = v
    BY <1>2 DEF LoadInv, Gathered
  <2>4. \A m \in DOMAIN directory :
          Version(m) = v /\ Direction(m) = d => directory[m] = Empty
    BY <1>2, <2>2 DEF LoadInv, Gathered
  <2>5. ~ InOrder
    BY <2>3, <2>4 DEF InOrder
  <2>6. outcome' = "error" /\ UNCHANGED migrations
    BY <1>4 DEF Finish
  <2> QED
    BY <1>1, <2>5, <2>6 DEF LoadInv, Gathered, Spelled, Taken, InOrder
<1> QED
  BY <1>3, <1>4

\* All steps together.
LEMMA LoadIndStep == LoadInv /\ [LoadNext]_loadVars => LoadInv'
<1> SUFFICES ASSUME LoadInv, [LoadNext]_loadVars PROVE LoadInv'
  OBVIOUS
<1>1. CASE UNCHANGED loadVars
  <2>1. Gathered' /\ Spelled' /\ Taken' = Taken
    BY <1>1 DEF loadVars, LoadInv, Gathered, Spelled, Taken
  <2>2. Sorted' = Sorted /\ InOrder' = InOrder
    BY <1>1 DEF loadVars, Sorted, Position, InOrder
  <2> QED
    BY <1>1, <2>1, <2>2 DEF loadVars, LoadInv
<1>2. CASE RefuseStray \/ \E n \in FileNames : RefuseVersion(n) \/ RefuseFile(n)
  <2>1. ~ InOrder
    BY <1>2, RefusalIsRight
  <2>2. outcome = "reading" /\ Refuse
    BY <1>2 DEF RefuseStray, RefuseVersion, RefuseFile, Following
  <2> QED
    BY <2>1, <2>2 DEF Refuse, LoadInv, Gathered, Spelled, Taken, InOrder
<1> QED
  BY <1>1, <1>2, ReadFileStep, FinishStep DEF LoadNext

\* The values of a function with a finite domain are finitely many.
LEMMA ImageIsFinite ==
  ASSUME NEW S, IsFiniteSet(S), NEW T, NEW f \in [S -> T]
  PROVE  IsFiniteSet({f[x] : x \in S})
<1>1. f \in Surjection(S, {f[x] : x \in S})
  BY DEF Surjection
<1> QED
  BY <1>1, FS_Surjection

\* However many files there are, they are of finitely many versions.
LEMMA FinitelyManyVersions ==
  ASSUME LoadInv
  PROVE  IsFiniteSet(DOMAIN parts) /\ DOMAIN parts \subseteq Nat \ {0}
<1> DEFINE f == [i \in DOMAIN Digits |-> Number[Digits[i]]]
           image == {f[i] : i \in DOMAIN Digits}
<1>1. DOMAIN Digits = 1..Len(Digits) /\ Len(Digits) \in Nat
  BY DigitsAssumption
<1>2. IsFiniteSet(DOMAIN Digits)
  BY <1>1, FS_Interval
<1>3. f \in [DOMAIN Digits -> Int]
  BY DigitsAssumption, NumberAssumption
<1>4. IsFiniteSet(image)
  <2> HIDE DEF f
  <2> QED
    BY <1>2, <1>3, ImageIsFinite
<1>5. \A n \in Taken : Version(n) \in image /\ Version(n) \in Nat \ {0}
  <2> SUFFICES ASSUME NEW n \in Taken
               PROVE  Version(n) \in image /\ Version(n) \in Nat \ {0}
    OBVIOUS
  <2>1. n \in FileNames /\ Version(n) > 0
    BY DEF LoadInv, Gathered, Positive, Taken
  <2>2. n[1] \in DOMAIN Digits /\ Version(n) = f[n[1]]
    BY <2>1 DEF FileNames, Version
  <2>3. Version(n) \in Int
    BY <2>1, NameParts
  <2> HIDE DEF f
  <2> QED
    BY <2>1, <2>2, <2>3
<1> HIDE DEF image
<1>6. DOMAIN parts \in SUBSET image /\ DOMAIN parts \subseteq Nat \ {0}
  BY <1>5 DEF LoadInv, Gathered
<1> QED
  BY <1>4, <1>6, FS_Subset

\* Sorting puts every version in one position, and later those that are greater.
LEMMA SortedIs ==
  ASSUME LoadInv
  PROVE  /\ \A v \in DOMAIN parts :
              Position(v) \in DOMAIN Sorted /\ Sorted[Position(v)].version = v
         /\ \A i \in DOMAIN Sorted :
              LET v == Sorted[i].version
              IN  /\ v \in DOMAIN parts /\ Position(v) = i
                  /\ Sorted[i] = [version |-> v, name |-> parts[v].name,
                                  up |-> parts[v].up, down |-> parts[v].down]
         /\ \A v, w \in DOMAIN parts : v < w => Position(v) < Position(w)
<1> DEFINE S    == DOMAIN parts
           N    == Cardinality(S)
           key  == [v \in S |-> v]
           rank == [v \in S |-> Cardinality(Below(S, key, v))]
<1>1. IsFiniteSet(S) /\ S \subseteq Nat \ {0} /\ N \in Nat
  BY FinitelyManyVersions, FS_CardinalityType
<1>2. \A v \in S : Position(v) = 1 + rank[v]
  <2>1. \A v \in S : Below(S, key, v) = {w \in S : Less(w, v)}
    BY DEF Below, Less
  <2> QED
    BY <2>1 DEF Position
<1>3. /\ key \in [S -> Int]
      /\ \A v, w \in S : (key[v] = key[w] => v = w) /\ (v < w => key[v] < key[w])
  BY <1>1
<1> HIDE DEF key
<1>4. rank \in Bijection(S, 0..(N - 1))
  BY <1>1, <1>3, RankBijection
<1>5. \A v, w \in S : v < w => rank[v] < rank[w]
  BY <1>1, <1>3, Ranks
<1> HIDE DEF rank
<1>6. \A v \in S : rank[v] \in 0..(N - 1)
  BY <1>4 DEF Bijection, Injection
<1>7. \A v, w \in S : rank[v] = rank[w] => v = w
  BY <1>4 DEF Bijection, Injection, IsInjective
<1>8. \A i \in 0..(N - 1) : \E v \in S : rank[v] = i
  BY <1>4 DEF Bijection, Surjection
<1>9. ASSUME NEW i \in 1..N
      PROVE  \E v \in S :
               /\ Position(v) = i
               /\ Sorted[i] = [version |-> v, name |-> parts[v].name,
                               up |-> parts[v].up, down |-> parts[v].down]
  <2>1. i - 1 \in 0..(N - 1)
    BY <1>1
  <2>2. PICK v \in S : rank[v] = i - 1
    BY <1>8, <2>1
  <2>3. Position(v) = i
    BY <1>2, <2>2
  <2> QED
    BY <2>3 DEF Sorted
<1>10. DOMAIN Sorted = 1..N
  BY DEF Sorted
<1>11. ASSUME NEW v \in S
       PROVE  Position(v) \in 1..N /\ Sorted[Position(v)].version = v
  <2>1. Position(v) \in 1..N
    BY <1>1, <1>2, <1>6
  <2>2. PICK w \in S :
          /\ Position(w) = Position(v)
          /\ Sorted[Position(v)] = [version |-> w, name |-> parts[w].name,
                                    up |-> parts[w].up, down |-> parts[w].down]
    BY <1>9, <2>1
  <2>3. rank[w] = rank[v]
    BY <1>1, <1>2, <1>6, <2>2
  <2> QED
    BY <1>7, <2>1, <2>2, <2>3
<1>12. \A v, w \in S : v < w => Position(v) < Position(w)
  BY <1>1, <1>2, <1>5, <1>6
<1>13. \A i \in DOMAIN Sorted :
         LET v == Sorted[i].version
         IN  /\ v \in S /\ Position(v) = i
             /\ Sorted[i] = [version |-> v, name |-> parts[v].name,
                             up |-> parts[v].up, down |-> parts[v].down]
  BY <1>9, <1>10
<1> QED
  BY <1>10, <1>11, <1>12, <1>13

\* The inductive invariant of Load.
THEOREM LoadInvariance == LoadSpec => []LoadInv
BY LoadInitInv, LoadIndStep, PTL DEF LoadSpec

\* The statements of every file that has any are in the migration of its version,
\* under its name (loader.go:62-84), for any directory.
THEOREM LosesNoFile == LoadSpec => []NoFileLost
<1>1. ASSUME LoadInv PROVE NoFileLost
  <2> SUFFICES ASSUME outcome = "done", NEW n \in DOMAIN directory,
                      directory[n] # Empty
               PROVE  \E i \in DOMAIN migrations :
                        /\ migrations[i].version = Version(n)
                        /\ migrations[i].name = Label(n)
                        /\ migrations[i][Direction(n)] = directory[n]
    BY DEF NoFileLost
  <2>1. n \in Taken /\ n \in FileNames /\ migrations = Sorted
    BY <1>1 DEF LoadInv, Taken
  <2>2. /\ Version(n) \in DOMAIN parts /\ Direction(n) \in {"down", "up"}
        /\ parts[Version(n)].name = Label(n)
        /\ parts[Version(n)][Direction(n)] = directory[n]
    BY <1>1, <2>1, NameParts DEF LoadInv, Gathered
  <2>3. PICK i \in DOMAIN Sorted :
          Sorted[i] = [version |-> Version(n), name |-> parts[Version(n)].name,
                       up |-> parts[Version(n)].up, down |-> parts[Version(n)].down]
    BY <1>1, <2>2, SortedIs
  <2>4. Sorted[i][Direction(n)] = parts[Version(n)][Direction(n)]
    BY <2>2, <2>3
  <2> QED
    BY <2>1, <2>2, <2>3, <2>4
<1> QED
  BY <1>1, LoadInvariance, PTL

\* Versions ascend as numbers, whatever the order of their files (loader.go:105).
THEOREM Ascending == LoadSpec => []VersionsAscend
<1>1. ASSUME LoadInv PROVE VersionsAscend
  <2>1. CASE migrations = <<>>
    BY <2>1 DEF VersionsAscend
  <2>2. CASE migrations = Sorted
    <3> SUFFICES ASSUME NEW i \in DOMAIN Sorted, NEW j \in DOMAIN Sorted, i < j
                 PROVE  Sorted[i].version < Sorted[j].version
      BY <2>2 DEF VersionsAscend
    <3> DEFINE v == Sorted[i].version
               w == Sorted[j].version
    <3>1. /\ v \in DOMAIN parts /\ Position(v) = i
          /\ w \in DOMAIN parts /\ Position(w) = j
      BY <1>1, SortedIs
    <3> HIDE DEF v, w
    <3>2. v \in Nat /\ w \in Nat /\ i \in Nat /\ j \in Nat
      BY <1>1, <3>1, FinitelyManyVersions DEF Sorted
    <3>3. ~ (w < v) /\ w # v
      BY <1>1, <3>1, <3>2, SortedIs
    <3>4. v < w
      BY <3>2, <3>3
    <3> QED
      BY <3>4 DEF v, w
  <2> QED
    BY <1>1, <2>1, <2>2 DEF LoadInv
<1> QED
  BY <1>1, LoadInvariance, PTL

\* Load has migrations only for a directory in order, and refuses no such directory
\* (the safety half of LoadsWhatIsInOrder).
THEOREM RightVerdict ==
  LoadSpec => [](/\ outcome = "done" => InOrder
                 /\ outcome = "error" => ~ InOrder)
<1>1. ASSUME LoadInv, outcome = "done" PROVE InOrder
  <2>1. /\ Taken = DOMAIN directory /\ ~ stray
        /\ \A v \in DOMAIN parts : Complete(parts[v])
    BY <1>1 DEF LoadInv, Taken
  <2>2. \A n \in DOMAIN directory : Version(n) > 0
    BY <1>1, <2>1 DEF LoadInv, Gathered, Positive
  <2>3. \A n, m \in DOMAIN directory :
          Version(n) = Version(m) =>
            /\ Label(n) = Label(m)
            /\ Direction(n) = Direction(m) /\ Before(n, m) => directory[n] = Empty
    BY <1>1, <2>1 DEF LoadInv, Gathered, Spelled
  <2>4. ASSUME NEW n \in DOMAIN directory, NEW d \in {"down", "up"}
        PROVE  \E m \in DOMAIN directory :
                 Version(m) = Version(n) /\ Direction(m) = d /\ directory[m] # Empty
    <3>1. Version(n) \in DOMAIN parts /\ parts[Version(n)][d] # Empty
      BY <1>1, <2>1 DEF LoadInv, Gathered, Complete
    <3> QED
      BY <1>1, <2>1, <3>1 DEF LoadInv, Gathered
  <2> QED
    BY <2>1, <2>2, <2>3, <2>4 DEF InOrder
<1>2. LoadInv /\ outcome = "error" => ~ InOrder
  BY DEF LoadInv
<1> QED
  BY <1>1, <1>2, LoadInvariance, PTL

\* What the runner takes for granted of a release: whatever names and checksums are
\* made of their stamps, the migrations that Load returns have a version each.
THEOREM LoadsARelease ==
  ASSUME NEW stamp \in [STRING \X (Bodies \cup {Empty}) \X (Bodies \cup {Empty})
                          -> Nat]
  PROVE  LoadSpec =>
           [](outcome = "done" =>
                Consistent({[version |-> migrations[i].version,
                             stamp |-> stamp[<<migrations[i].name, migrations[i].up,
                                               migrations[i].down>>]]
                            : i \in DOMAIN migrations}))
<1> DEFINE row(i) == [version |-> migrations[i].version,
                      stamp |-> stamp[<<migrations[i].name, migrations[i].up,
                                        migrations[i].down>>]]
           rows == {row(i) : i \in DOMAIN migrations}
<1>1. ASSUME LoadInv, outcome = "done" PROVE Consistent(rows)
  <2>1. migrations = Sorted
    BY <1>1 DEF LoadInv
  <2>2. ASSUME NEW i \in DOMAIN Sorted PROVE row(i) \in Migration
    <3> DEFINE v == Sorted[i].version
    <3>1. /\ v \in DOMAIN parts
          /\ Sorted[i] = [version |-> v, name |-> parts[v].name,
                          up |-> parts[v].up, down |-> parts[v].down]
      BY <1>1, SortedIs
    <3> HIDE DEF v
    <3>2. parts[v] \in Part /\ v \in Nat \ {0}
      BY <1>1, <3>1, FinitelyManyVersions DEF LoadInv, Gathered
    <3> QED
      BY <2>1, <3>1, <3>2 DEF Part, Migration
  <2>3. ASSUME NEW i \in DOMAIN Sorted, NEW j \in DOMAIN Sorted,
               row(i).version = row(j).version
        PROVE  row(i) = row(j)
    <3>1. i = j
      BY <1>1, <2>1, <2>3, SortedIs
    <3> QED
      BY <3>1
  <2>4. IsFiniteSet(rows)
    <3> DEFINE f == [i \in DOMAIN Sorted |-> row(i)]
    <3>1. IsFiniteSet(DOMAIN Sorted)
      BY <1>1, FinitelyManyVersions, FS_CardinalityType, FS_Interval DEF Sorted
    <3>2. f \in [DOMAIN Sorted -> Migration]
      BY <2>2
    <3>3. rows = {f[i] : i \in DOMAIN Sorted}
      BY <2>1
    <3> HIDE DEF f, rows
    <3>4. IsFiniteSet({f[i] : i \in DOMAIN Sorted})
      BY <3>1, <3>2, ImageIsFinite
    <3> QED
      BY <3>3, <3>4
  <2> HIDE DEF row
  <2> QED
    BY <2>1, <2>2, <2>3, <2>4 DEF Consistent
<1> QED
  BY <1>1, LoadInvariance, PTL
=============================================================================
