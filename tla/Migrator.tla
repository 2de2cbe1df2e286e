------------------------------ MODULE Migrator ------------------------------
(***************************************************************************)
(* The migrator (src/infrastructure/db/migrator.ts): processes, each with  *)
(* the migrations directory of its own release, migrate one database at    *)
(* the same time.                                                          *)
(*                                                                         *)
(* Applying a file is a transaction of two statements, the file's own and  *)
(* the INSERT of its row.  Postgres makes it atomic and rolls it back when *)
(* the process dies; a transaction that touches what another uncommitted   *)
(* one does, the same file or the same row, waits for the other to end.    *)
(***************************************************************************)
EXTENDS Naturals, Sequences

CONSTANTS
  LastId,    \* the ids of migrations are 1 .. LastId
  Contents,  \* what a file may say; its hash stands for it
  Processes, \* runs of migrate
  None       \* no row, no file

ASSUME MigratorAssumption ==
  /\ LastId \in Nat
  /\ None \notin Contents

VARIABLES
  rows,    \* _migrations: id -> hash
  schema,  \* the files the database has executed for good, in order
  process  \* what each process does, its directory and its locals

vars == <<rows, schema, process>>

Ids == 1 .. LastId
Directory == [Ids -> Contents \cup {None}]
Stages == {"new", "select", "loop", "insert", "done", "failed"}

TypeOK ==
  /\ rows \in Directory
  /\ schema \in Seq([id : Ids, content : Contents])
  /\ process \in [Processes ->
       [at : Stages, files : Directory, applied : Directory, id : 0 .. LastId]]

Nothing == [i \in Ids |-> None]

Init ==
  /\ rows = Nothing
  /\ schema = <<>>
  /\ process = [p \in Processes |->
       [at |-> "new", files |-> Nothing, applied |-> Nothing, id |-> 0]]

-----------------------------------------------------------------------------
Goto(p, stage) == process' = [process EXCEPT ![p].at = stage]

\* readdir.  Releases only add files, after those of the releases before them, but
\* may say something else in a file.
Release(files) ==
  \A i \in Ids : files[i] = None => \A j \in Ids : j > i => files[j] = None

ReadDirectory(p) ==
  /\ process[p].at = "new"
  /\ \E files \in Directory :
       /\ Release(files)
       /\ process' = [process EXCEPT ![p].files = files,
            ![p].at = IF files = Nothing THEN "done" ELSE "select"]
  /\ UNCHANGED <<rows, schema>>

\* The map applied is read once, before the loop.
SelectApplied(p) ==
  /\ process[p].at = "select"
  /\ process' = [process EXCEPT ![p].at = "loop", ![p].applied = rows]
  /\ UNCHANGED <<rows, schema>>

\* Whether an applied file is what it was; the variant does not ask.
UneditedUnasked(p, i) == TRUE
Unedited(p, i) == process[p].applied[i] = process[p].files[i]

\* One turn of the loop up to the first statement of the transaction.
NextFile(p) ==
  LET i == process[p].id + 1
      last == IF i \in Ids THEN process[p].files[i] = None ELSE TRUE
  IN /\ process[p].at = "loop"
     /\ \/ last /\ Goto(p, "done")
        \/ /\ ~ last /\ process[p].applied[i] # None /\ Unedited(p, i)
           /\ process' = [process EXCEPT ![p].id = i]
        \/ /\ ~ last /\ process[p].applied[i] # None /\ ~ Unedited(p, i)
           /\ Goto(p, "failed")
        \/ /\ ~ last /\ process[p].applied[i] = None
           /\ \A q \in Processes : process[q].at = "insert" => process[q].id # i
           /\ process' = [process EXCEPT ![p].id = i,
                ![p].at = IF rows[i] = None THEN "insert" ELSE "failed"]
     /\ UNCHANGED <<rows, schema>>

\* Where the loop goes on after a file.  The variant skips one.
AfterNext(i) == i + 1
After(i) == i

\* The INSERT and the COMMIT.
Commit(p) ==
  LET i == process[p].id
  IN /\ process[p].at = "insert"
     /\ rows' = [rows EXCEPT ![i] = process[p].files[i]]
     /\ schema' = Append(schema, [id |-> i, content |-> process[p].files[i]])
     /\ process' = [process EXCEPT ![p].at = "loop", ![p].id = After(i)]

Crash(p) ==
  /\ process[p].at \in {"select", "loop", "insert"}
  /\ Goto(p, "failed")
  /\ UNCHANGED <<rows, schema>>

Next == \E p \in Processes :
  ReadDirectory(p) \/ SelectApplied(p) \/ NextFile(p) \/ Commit(p) \/ Crash(p)

Spec == Init /\ [][Next]_vars

-----------------------------------------------------------------------------
\* The database has executed each migration once and in the order of their ids, and
\* _migrations says so, whatever processes raced or died on the way.
AppliedInOrder ==
  /\ \A n \in DOMAIN schema : schema[n] = [id |-> n, content |-> rows[n]]
  /\ \A i \in Ids : rows[i] # None <=> i \in DOMAIN schema

\* A process that ends well leaves a database that has executed the files of its
\* directory as they are: none is missing, and none was applied in another version,
\* by itself or by a process it raced with.
EndsWithItsFiles ==
  \A p \in Processes, i \in Ids :
    process[p].at = "done" /\ process[p].files[i] # None => rows[i] = process[p].files[i]
=============================================================================
