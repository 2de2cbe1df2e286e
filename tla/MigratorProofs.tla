--------------------------- MODULE MigratorProofs ---------------------------
(***************************************************************************)
(* Proofs about Migrator, for any number of files, contents and processes. *)
(***************************************************************************)
EXTENDS Migrator, TLAPS

\* The files 1 .. n of p are in the database as its directory has them.
Settled(p, n) ==
  \A i \in Ids : i <= n => process[p].files[i] # None /\ rows[i] = process[p].files[i]

\* What p may rely on of the rows it has read, although others write rows since: rows
\* are never changed or removed, and the row p is about to insert is its own to insert.
ProcessOK(p) ==
  /\ Release(process[p].files)
  /\ \A i \in Ids : process[p].applied[i] # None => rows[i] = process[p].applied[i]
  /\ process[p].at \in {"new", "select"} => process[p].id = 0
  /\ process[p].at = "loop" => Settled(p, process[p].id)
  /\ process[p].at = "insert" =>
       /\ process[p].id \in Ids
       /\ process[p].files[process[p].id] # None
       /\ rows[process[p].id] = None
       /\ Settled(p, process[p].id - 1)
  /\ process[p].at = "done" =>
       \A i \in Ids : process[p].files[i] # None => rows[i] = process[p].files[i]

\* Two transactions never insert the same row: the second one waits.
OneInserter ==
  \A p, q \in Processes :
    process[p].at = "insert" /\ process[q].at = "insert" /\ process[p].id = process[q].id
      => p = q

MigratorInv ==
  /\ TypeOK
  /\ AppliedInOrder
  /\ OneInserter
  /\ \A p \in Processes : ProcessOK(p)

Locals == [at : Stages, files : Directory, applied : Directory, id : 0 .. LastId]

-----------------------------------------------------------------------------
LEMMA InitMigrator == Init => MigratorInv
<1> SUFFICES ASSUME Init PROVE MigratorInv
  OBVIOUS
<1>1. Nothing \in Directory /\ \A i \in Ids : Nothing[i] = None
  BY DEF Nothing, Directory
<1>2. [at |-> "new", files |-> Nothing, applied |-> Nothing, id |-> 0] \in Locals
  BY <1>1, MigratorAssumption DEF Locals, Stages
<1>3. TypeOK
  BY <1>1, <1>2 DEF Init, TypeOK, Locals
<1>4. AppliedInOrder
  BY <1>1 DEF Init, AppliedInOrder
<1>5. \A p \in Processes : ProcessOK(p)
  BY <1>1 DEF Init, ProcessOK, Release
<1>6. QED BY <1>3, <1>4, <1>5 DEF Init, MigratorInv, OneInserter

\* A step of p that writes no row is safe if what it leaves p with is.
LEMMA OwnStep ==
  ASSUME MigratorInv, NEW p \in Processes, UNCHANGED <<rows, schema>>,
         NEW l \in Locals, process' = [process EXCEPT ![p] = l],
         ProcessOK(p)',
         l.at = "insert" =>
           \A q \in Processes : process[q].at = "insert" => process[q].id # l.id
  PROVE  MigratorInv'
<1> USE DEF MigratorInv
<1>1. process'[p] = l /\ \A q \in Processes \ {p} : process'[q] = process[q]
  BY DEF TypeOK
<1>2. TypeOK'
  BY DEF TypeOK, Locals
<1>3. AppliedInOrder'
  BY DEF AppliedInOrder
<1>4. OneInserter'
  BY <1>1 DEF OneInserter
<1>5. \A q \in Processes \ {p} : ProcessOK(q)'
  BY <1>1 DEF ProcessOK, Settled
<1>6. QED BY <1>2, <1>3, <1>4, <1>5

LEMMA ReadDirectoryStep ==
  ASSUME MigratorInv, NEW p \in Processes, ReadDirectory(p)
  PROVE  MigratorInv'
<1> USE DEF MigratorInv
<1>1. PICK files \in Directory :
        /\ Release(files)
        /\ process' = [process EXCEPT ![p].files = files,
             ![p].at = IF files = Nothing THEN "done" ELSE "select"]
  BY DEF ReadDirectory
<1>2. process[p] \in Locals /\ process[p].at = "new" /\ ProcessOK(p)
  BY DEF ReadDirectory, TypeOK, Locals
<1> DEFINE l == [process[p] EXCEPT !.files = files,
                                   !.at = IF files = Nothing THEN "done" ELSE "select"]
<1>3. process' = [process EXCEPT ![p] = l]
  BY <1>1
<1>4. /\ l \in Locals /\ l.files = files /\ l.at \in {"done", "select"}
      /\ l.at = "done" => files = Nothing
      /\ l.applied = process[p].applied /\ l.id = process[p].id
  BY <1>2 DEF Locals, Stages
<1> HIDE DEF l
<1>5. process'[p] = l /\ UNCHANGED <<rows, schema>>
  BY <1>3 DEF ReadDirectory, TypeOK
<1>6. ProcessOK(p)'
  <2>1. Release(process[p].files)'
    BY <1>1, <1>4, <1>5 DEF Release
  <2>2. l.at = "done" => \A i \in Ids : files[i] = None
    BY <1>4 DEF Nothing
  <2>3. \A i \in Ids : process[p].applied[i] # None => rows[i] = process[p].applied[i]
    BY <1>2 DEF ProcessOK
  <2>4. process[p].id = 0
    BY <1>2 DEF ProcessOK
  <2>5. QED BY <1>4, <1>5, <2>1, <2>2, <2>3, <2>4 DEF ProcessOK
<1>7. QED BY <1>3, <1>4, <1>5, <1>6, OwnStep

LEMMA SelectAppliedStep ==
  ASSUME MigratorInv, NEW p \in Processes, SelectApplied(p)
  PROVE  MigratorInv'
<1> USE DEF MigratorInv
<1>1. process[p] \in Locals /\ process[p].at = "select" /\ ProcessOK(p)
  BY DEF SelectApplied, TypeOK, Locals
<1> DEFINE l == [process[p] EXCEPT !.at = "loop", !.applied = rows]
<1>2. process' = [process EXCEPT ![p] = l]
  BY DEF SelectApplied
<1>3. /\ l \in Locals /\ l.at = "loop" /\ l.files = process[p].files
      /\ l.applied = rows /\ l.id = 0
  BY <1>1 DEF Locals, Stages, TypeOK, ProcessOK
<1> HIDE DEF l
<1>4. process'[p] = l /\ UNCHANGED <<rows, schema>>
  BY <1>2 DEF SelectApplied, TypeOK
<1>5. ProcessOK(p)'
  BY <1>1, <1>3, <1>4 DEF ProcessOK, Settled, Ids
<1>6. QED BY <1>2, <1>3, <1>4, <1>5, OwnStep

LEMMA NextFileStep ==
  ASSUME MigratorInv, NEW p \in Processes, NextFile(p)
  PROVE  MigratorInv'
<1> USE DEF MigratorInv
<1> DEFINE i == process[p].id + 1
           last == IF i \in Ids THEN process[p].files[i] = None ELSE TRUE
<1>1. /\ process[p] \in Locals /\ process[p].at = "loop" /\ ProcessOK(p)
      /\ Settled(p, process[p].id) /\ UNCHANGED <<rows, schema>>
      /\ process[p].id \in Nat
  BY DEF NextFile, TypeOK, Locals, ProcessOK
<1>2. CASE last /\ Goto(p, "done")
  <2> DEFINE l == [process[p] EXCEPT !.at = "done"]
  <2>1. process' = [process EXCEPT ![p] = l]
    BY <1>2 DEF Goto
  <2>2. /\ l \in Locals /\ l.at = "done" /\ l.files = process[p].files
        /\ l.applied = process[p].applied
    BY <1>1 DEF Locals, Stages
  <2> HIDE DEF l
  <2>3. process'[p] = l
    BY <2>1 DEF TypeOK
  <2>4. ASSUME NEW j \in Ids, process[p].files[j] # None
        PROVE  rows[j] = process[p].files[j]
    <3>1. j <= process[p].id
      <4>1. SUFFICES ASSUME j > process[p].id PROVE FALSE
        BY <1>1 DEF Ids
      <4>2. i \in Ids /\ j >= i
        BY <1>1, <4>1, MigratorAssumption DEF Ids
      <4>3. process[p].files[i] = None
        BY <1>2, <4>2
      <4>4. j > i
        BY <1>1, <2>4, <4>2, <4>3 DEF Ids
      <4>5. QED BY <1>1, <2>4, <4>2, <4>3, <4>4 DEF ProcessOK, Release
    <3>2. QED BY <1>1, <3>1 DEF Settled
  <2>5. ProcessOK(p)'
    BY <1>1, <2>2, <2>3, <2>4 DEF ProcessOK
  <2>6. QED BY <1>1, <2>1, <2>2, <2>5, OwnStep
<1>3. CASE /\ ~ last /\ process[p].applied[i] # None /\ Unedited(p, i)
           /\ process' = [process EXCEPT ![p].id = i]
  <2> DEFINE l == [process[p] EXCEPT !.id = i]
  <2>1. process' = [process EXCEPT ![p] = l] /\ i \in Ids /\ process[p].files[i] # None
    BY <1>3
  <2>2. /\ l \in Locals /\ l.at = "loop" /\ l.files = process[p].files
        /\ l.applied = process[p].applied /\ l.id = i
    BY <1>1, <2>1, MigratorAssumption DEF Locals, Ids
  <2>3. rows[i] = process[p].files[i]
    BY <1>1, <1>3, <2>1 DEF ProcessOK, Unedited
  <2> HIDE DEF l
  <2>4. process'[p] = l
    BY <2>1 DEF TypeOK
  <2>5. \A j \in Ids : j <= i => process[p].files[j] # None /\ rows[j] = process[p].files[j]
    BY <1>1, <2>1, <2>3 DEF Settled, Ids
  <2>6. ProcessOK(p)'
    <3> HIDE DEF i
    <3>1. QED BY <1>1, <2>2, <2>4, <2>5 DEF ProcessOK, Settled, Release
  <2>7. QED BY <1>1, <2>1, <2>2, <2>6, OwnStep
<1>4. ASSUME Goto(p, "failed")
      PROVE  MigratorInv'
  <2> DEFINE l == [process[p] EXCEPT !.at = "failed"]
  <2>1. process' = [process EXCEPT ![p] = l]
    BY <1>4 DEF Goto
  <2>2. /\ l \in Locals /\ l.at = "failed" /\ l.files = process[p].files
        /\ l.applied = process[p].applied
    BY <1>1 DEF Locals, Stages
  <2> HIDE DEF l
  <2>3. process'[p] = l
    BY <2>1 DEF TypeOK
  <2>4. ProcessOK(p)'
    BY <1>1, <2>2, <2>3 DEF ProcessOK
  <2>5. QED BY <1>1, <2>1, <2>2, <2>4, OwnStep
<1>5. CASE /\ ~ last /\ process[p].applied[i] = None
           /\ \A q \in Processes : process[q].at = "insert" => process[q].id # i
           /\ process' = [process EXCEPT ![p].id = i,
                ![p].at = IF rows[i] = None THEN "insert" ELSE "failed"]
  <2> DEFINE stage == IF rows[i] = None THEN "insert" ELSE "failed"
             l == [process[p] EXCEPT !.id = i, !.at = stage]
  <2>1. process' = [process EXCEPT ![p] = l] /\ i \in Ids /\ process[p].files[i] # None
    BY <1>5
  <2>2. stage \in {"insert", "failed"} /\ (stage = "insert" => rows[i] = None)
    OBVIOUS
  <2> HIDE DEF stage
  <2>3. i \in 0 .. LastId
    BY <2>1, MigratorAssumption DEF Ids
  <2>4. /\ l \in Locals /\ l.at = stage /\ l.files = process[p].files
        /\ l.applied = process[p].applied /\ l.id = i
    <3> HIDE DEF i
    <3>1. QED BY <1>1, <2>2, <2>3 DEF Locals, Stages
  <2> HIDE DEF l
  <2>5. process'[p] = l
    BY <2>1 DEF TypeOK
  <2>6. \A j \in Ids : j <= i - 1 =>
          process[p].files[j] # None /\ rows[j] = process[p].files[j]
    <3>1. i - 1 = process[p].id
      BY <1>1
    <3>2. QED BY <1>1, <3>1 DEF Settled
  <2>7. ProcessOK(p)'
    <3> HIDE DEF i
    <3>1. Release(process[p].files)' /\ Release(process[p].files)
      BY <1>1, <2>4, <2>5 DEF ProcessOK, Release
    <3>2. \A j \in Ids : process[p].applied[j] # None => rows[j] = process[p].applied[j]
      BY <1>1 DEF ProcessOK
    <3>3. UNCHANGED rows
      BY <1>1
    <3>4. QED
      BY <2>1, <2>4, <2>5, <2>6, <2>2, <3>1, <3>2, <3>3 DEF ProcessOK, Settled
  <2>8. \A q \in Processes : process[q].at = "insert" => process[q].id # l.id
    BY <1>5, <2>4
  <2>9. QED BY <1>1, <2>1, <2>4, <2>7, <2>8, OwnStep
<1>6. QED BY <1>2, <1>3, <1>4, <1>5 DEF NextFile

\* The row a process inserts is the next one: it has seen all before it, and who says
\* which rows there are is schema.
LEMMA CommitStep ==
  ASSUME MigratorInv, NEW p \in Processes, Commit(p)
  PROVE  MigratorInv'
<1> USE DEF MigratorInv
<1> DEFINE i == process[p].id
           file == [id |-> i, content |-> process[p].files[i]]
           l == [process[p] EXCEPT !.at = "loop", !.id = i]
<1>1. /\ process[p] \in Locals /\ process[p].at = "insert" /\ ProcessOK(p)
      /\ i \in Ids /\ i \in Nat /\ process[p].files[i] \in Contents /\ rows[i] = None
      /\ process[p].files[i] # None
      /\ Settled(p, i - 1)
  <2>1. process[p] \in Locals /\ process[p].at = "insert" /\ ProcessOK(p)
    BY DEF Commit, TypeOK, Locals
  <2>2. /\ i \in Ids /\ process[p].files[i] # None /\ rows[i] = None
        /\ Settled(p, i - 1)
    BY <2>1 DEF ProcessOK
  <2>3. process[p].files \in [Ids -> Contents \cup {None}] /\ i \in Nat
    BY <2>1, <2>2 DEF Locals, Directory, Ids
  <2>4. QED BY <2>1, <2>2, <2>3
<1>2. /\ rows' = [rows EXCEPT ![i] = process[p].files[i]]
      /\ schema' = Append(schema, file)
      /\ process' = [process EXCEPT ![p] = l]
  BY DEF Commit, After
<1>3. l \in Locals /\ l.at = "loop" /\ l.id = i /\ l.files = process[p].files
        /\ l.applied = process[p].applied
  BY <1>1 DEF Locals, Stages
<1>4. /\ process'[p] = l /\ \A q \in Processes \ {p} : process'[q] = process[q]
      /\ rows'[i] = process[p].files[i] /\ \A j \in Ids \ {i} : rows'[j] = rows[j]
  BY <1>1, <1>2 DEF TypeOK, Directory
<1>5. /\ Len(schema) \in Nat /\ DOMAIN schema = 1 .. Len(schema)
      /\ Len(schema') = Len(schema) + 1 /\ DOMAIN schema' = 1 .. Len(schema')
      /\ schema'[Len(schema) + 1] = file
      /\ \A n \in 1 .. Len(schema) : schema'[n] = schema[n]
  BY <1>2 DEF TypeOK
<1>6. i = Len(schema) + 1
  <2>1. i > Len(schema)
    BY <1>1, <1>5 DEF AppliedInOrder, Ids
  <2>2. i - 1 <= Len(schema)
    <3>1. CASE i = 1
      BY <1>5, <3>1
    <3>2. CASE i # 1
      <4>1. i - 1 \in Ids
        BY <1>1, <3>2, MigratorAssumption DEF Ids
      <4>2. rows[i - 1] # None
        BY <1>1, <4>1 DEF Settled, Ids
      <4>3. QED BY <1>5, <4>1, <4>2 DEF AppliedInOrder
    <3>3. QED BY <3>1, <3>2
  <2>3. QED BY <1>1, <1>5, <2>1, <2>2
<1> HIDE DEF l
<1>7. TypeOK'
  <2>1. schema' \in Seq([id : Ids, content : Contents])
    BY <1>1, <1>2 DEF TypeOK
  <2>2. rows' \in Directory /\ process' \in [Processes -> Locals]
    BY <1>1, <1>2, <1>3 DEF TypeOK, Directory, Locals
  <2>3. QED BY <2>1, <2>2 DEF TypeOK, Locals
<1>8. AppliedInOrder'
  <2>1. ASSUME NEW n \in DOMAIN schema'
        PROVE  schema'[n] = [id |-> n, content |-> rows'[n]]
    <3>1. CASE n = i
      BY <1>4, <1>5, <1>6, <3>1
    <3>2. CASE n # i
      <4>1. n \in 1 .. Len(schema) /\ n \in Ids
        <5> HIDE DEF i
        <5>1. n \in Nat /\ 1 <= n /\ n <= i
          BY <1>1, <1>5, <1>6
        <5>2. QED BY <1>1, <1>5, <1>6, <3>2, <5>1, MigratorAssumption DEF Ids
      <4>2. schema[n] = [id |-> n, content |-> rows[n]] /\ rows'[n] = rows[n]
        BY <1>4, <1>5, <3>2, <4>1 DEF AppliedInOrder
      <4>3. QED BY <1>5, <4>1, <4>2
    <3>3. QED BY <3>1, <3>2
  <2>2. ASSUME NEW j \in Ids
        PROVE  rows'[j] # None <=> j \in DOMAIN schema'
    <3>1. CASE j = i
      BY <1>1, <1>4, <1>5, <1>6, <3>1
    <3>2. CASE j # i
      BY <1>4, <1>5, <1>6, <3>2 DEF AppliedInOrder, Ids
    <3>3. QED BY <3>1, <3>2
  <2>3. QED BY <2>1, <2>2 DEF AppliedInOrder
<1>9. OneInserter'
  BY <1>3, <1>4 DEF OneInserter
<1>10. \A j \in Ids : j <= i => process[p].files[j] # None /\ rows'[j] = process[p].files[j]
  BY <1>1, <1>4 DEF Settled, Ids
<1>11. ASSUME NEW q \in Processes
       PROVE  ProcessOK(q)'
  <2>1. CASE q = p
    <3> HIDE DEF i, file
    <3>1. \A j \in Ids : process[p].applied[j] # None => j # i
      BY <1>1 DEF ProcessOK
    <3>2. QED BY <1>1, <1>3, <1>4, <1>10, <2>1, <3>1 DEF ProcessOK, Settled, Release
  <2>2. CASE q # p
    <3>1. ProcessOK(q) /\ process'[q] = process[q] /\ process[q] \in Locals
      BY <1>4, <2>2 DEF TypeOK, Locals
    <3>2. \A n : Settled(q, n) => Settled(q, n)'
      BY <1>1, <1>4, <3>1 DEF Settled
    <3>3. process[q].at = "insert" => process[q].id # i
      BY <1>1, <2>2 DEF OneInserter
    <3>4. QED BY <1>1, <1>4, <3>1, <3>2, <3>3 DEF ProcessOK
  <2>3. QED BY <2>1, <2>2
<1>12. QED BY <1>7, <1>8, <1>9, <1>11

LEMMA CrashStep ==
  ASSUME MigratorInv, NEW p \in Processes, Crash(p)
  PROVE  MigratorInv'
<1> USE DEF MigratorInv
<1> DEFINE l == [process[p] EXCEPT !.at = "failed"]
<1>1. process' = [process EXCEPT ![p] = l] /\ UNCHANGED <<rows, schema>>
  BY DEF Crash, Goto
<1>2. /\ l \in Locals /\ l.at = "failed" /\ l.files = process[p].files
      /\ l.applied = process[p].applied
  BY DEF TypeOK, Locals, Stages
<1> HIDE DEF l
<1>3. process'[p] = l
  BY <1>1 DEF TypeOK
<1>4. ProcessOK(p)'
  BY <1>1, <1>2, <1>3 DEF ProcessOK
<1>5. QED BY <1>1, <1>2, <1>4, OwnStep

\* No process inserts a row another one inserts, and none goes on past a file that the
\* database does not have as the process's own directory says.
THEOREM MigratorInvariant == Spec => []MigratorInv
<1>1. MigratorInv /\ [Next]_vars => MigratorInv'
  <2> SUFFICES ASSUME MigratorInv, [Next]_vars PROVE MigratorInv'
    OBVIOUS
  <2>1. CASE UNCHANGED vars
    BY <2>1 DEF vars, MigratorInv, TypeOK, AppliedInOrder, OneInserter, ProcessOK, Settled
  <2>2. QED
    BY <2>1, ReadDirectoryStep, SelectAppliedStep, NextFileStep, CommitStep, CrashStep
    DEF Next
<1>2. QED BY <1>1, InitMigrator, PTL DEF Spec

-----------------------------------------------------------------------------
\* Whatever processes of whatever releases run and die at the same time, the database
\* executes each migration once, in the order of the ids, and _migrations is the record
\* of it (migrator.ts, the loop and its transaction).
THEOREM MigrationsAreInOrder == Spec => []AppliedInOrder
<1>1. MigratorInv => AppliedInOrder
  BY DEF MigratorInv
<1>2. QED BY <1>1, MigratorInvariant, PTL

\* A process that reports success has found or made the database as its own directory
\* says: the map it read before the loop may be stale, but what it misses makes the
\* INSERT fail, and what it has seen applied is compared by its hash.
THEOREM SuccessMeansItsFiles == Spec => []EndsWithItsFiles
<1>1. MigratorInv => EndsWithItsFiles
  BY DEF MigratorInv, ProcessOK, EndsWithItsFiles
<1>2. QED BY <1>1, MigratorInvariant, PTL
=============================================================================
