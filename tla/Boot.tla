-------------------------------- MODULE Boot --------------------------------
(***************************************************************************)
(* What a server process does before it serves: the boot lock, the schema, *)
(* and the full-text index with its triggers (server/lib/db.js), over one  *)
(* database file that other processes may be using.                        *)
(*                                                                         *)
(* Every system call on the lock file and every SQL statement is a step:   *)
(* db.exec runs the statements of a script one by one, each in a           *)
(* transaction of its own.  That the file is a minute old is the value     *)
(* "old"; that a process has waited for a minute is the choice between     *)
(* trying again and going on without the lock.  Tables other than products *)
(* are left out but for the added column; a row is its name, and a process *)
(* that dies leaves the lock file and what it has executed.  A build of    *)
(* SQLite without FTS5, where every search uses LIKE, is left out.         *)
(***************************************************************************)
EXTENDS Naturals, Sequences, FiniteSets

CONSTANTS Procs,       \* server processes, of any worker
          Ids, Texts   \* products and their names

ASSUME BootAssumption == {"unused", "gone", "none"} \cap Texts = {}

VARIABLES
  lock,      \* the file .boot.lock: "none", "fresh" or "old"
  column,    \* users.session_epoch exists
  version,   \* PRAGMA user_version
  product,   \* products: id -> name
  table,     \* products_fts exists
  index,     \* products_fts: id -> name
  trigger,   \* the triggers there are on products
  stage,     \* where each process is
  todo,      \* the statements of the index script each process has left
  fts,       \* ftsEnabled
  disturbed, \* the lock was taken or removed by somebody not holding it
  writes,    \* bound: statements of requests on products still to come
  failed     \* a process died of an error in its own start

files == <<lock, disturbed>>
schema == <<column, version, table, index, trigger>>
bootVars == <<lock, column, version, product, table, index, trigger, stage,
              todo, fts, disturbed, writes, failed>>

Triggers == {"ai", "ad", "au"}
SCHEMA_VERSION == 2

Building == {"look", "alter", "schema", "index"}
Booting == Building \cup {"lock", "break", "admin", "hash", "listen"}
Stages == Booting \cup {"serve", "closing", "exited", "off"}

Goto(p, s) == stage' = [stage EXCEPT ![p] = s]

(* What the index should hold.                                             *)
Indexed == [i \in Ids |-> IF product[i] \in Texts THEN product[i] ELSE "none"]
Empty == [i \in Ids |-> "none"]

----------------------------------------------------------------------------
(* acquireBootLock *)

(* Faulty variant: the file is opened for writing whether it exists or not.*)
TryLockAnyway(p) ==
  /\ stage[p] = "lock"
  /\ lock' = "fresh" /\ Goto(p, "look")
  /\ UNCHANGED <<schema, product, todo, fts, disturbed, writes, failed>>

(* openSync(.., "wx") succeeds if there is no file; an old file is to be   *)
(* removed; else a tenth of a second passes and it is tried again.         *)
TryLock(p) ==
  /\ stage[p] = "lock"
  /\ \/ lock = "none" /\ lock' = "fresh" /\ Goto(p, "look")
     \/ lock = "old" /\ Goto(p, "break") /\ UNCHANGED lock
  /\ UNCHANGED <<schema, product, todo, fts, disturbed, writes, failed>>

(* unlinkSync of a file found old: it may be another one by now.  The      *)
(* attempt may be the last of a minute: then on without a lock.            *)
BreakLock(p) ==
  /\ stage[p] = "break"
  /\ lock' = "none" /\ disturbed' = TRUE
  /\ Goto(p, "lock") \/ Goto(p, "look")
  /\ UNCHANGED <<schema, product, todo, fts, writes, failed>>

(* An attempt has failed, the last of a minute: on without the lock.       *)
GiveUpWaiting(p) ==
  /\ stage[p] = "lock" /\ lock # "none"
  /\ Goto(p, "look") /\ disturbed' = TRUE
  /\ UNCHANGED <<lock, schema, product, todo, fts, writes, failed>>

(* releaseBootLock: unlinks whatever file there is.                        *)
ReleaseLock(p) ==
  /\ stage[p] = "index" /\ todo[p] = <<>>
  /\ lock' = "none" /\ Goto(p, "admin")
  /\ UNCHANGED <<schema, product, todo, fts, disturbed, writes, failed>>

(* The clock.                                                              *)
LockAges ==
  /\ lock = "fresh" /\ lock' = "old"
  /\ UNCHANGED <<schema, product, stage, todo, fts, disturbed, writes, failed>>

----------------------------------------------------------------------------
(* The schema.  Creating what exists already is no error, except for the   *)
(* column, the table of a rebuild, and a trigger.                          *)

(* A process that ends: what it had left to do is gone; its `exit' hook    *)
(* unlinks the lock file, whoever took it.                                 *)
Die(p) ==
  /\ Goto(p, "exited")
  /\ todo' = [todo EXCEPT ![p] = <<>>] /\ fts' = [fts EXCEPT ![p] = FALSE]
ExitHook == lock' = "none" /\ disturbed' = (disturbed \/ lock # "none")

(* ensureColumn: is the column there?                                      *)
LookForColumn(p) ==
  /\ stage[p] = "look"
  /\ Goto(p, IF column THEN "schema" ELSE "alter")
  /\ UNCHANGED <<files, schema, product, todo, fts, writes, failed>>

(* ALTER TABLE ... ADD COLUMN; a second one raises, and nobody catches it: *)
(* the process ends, with its `exit' hook.                                 *)
AlterTable(p) ==
  /\ stage[p] = "alter"
  /\ IF column
     THEN Die(p) /\ ExitHook /\ failed' = TRUE /\ UNCHANGED column
     ELSE Goto(p, "schema") /\ column' = TRUE /\ UNCHANGED <<files, todo, fts, failed>>
  /\ UNCHANGED <<writes, version, table, index, trigger, product>>

Rebuild ==
  <<<<"dropTable">>, <<"createTable">>,
    <<"drop", "ai">>, <<"create", "ai">>, <<"drop", "ad">>, <<"create", "ad">>,
    <<"drop", "au">>, <<"create", "au">>, <<"fill">>, <<"mark">>>>
Ensure ==
  <<<<"ensureTable">>, <<"drop", "ai">>, <<"create", "ai">>, <<"drop", "ad">>,
    <<"create", "ad">>, <<"drop", "au">>, <<"create", "au">>>>

(* Faulty variant: the version is written before the index is filled.      *)
ReadVersionMarkFirst(p) ==
  /\ stage[p] = "schema"
  /\ todo' = [todo EXCEPT ![p] = IF version < SCHEMA_VERSION
       THEN SubSeq(Rebuild, 1, 8) \o <<<<"mark">>, <<"fill">>>>
       ELSE Ensure]
  /\ fts' = [fts EXCEPT ![p] = TRUE]
  /\ Goto(p, "index")
  /\ UNCHANGED <<files, schema, product, writes, failed>>

(* The script depends on the version found.                                *)
ReadVersion(p) ==
  /\ stage[p] = "schema"
  /\ todo' = [todo EXCEPT ![p] = IF version < SCHEMA_VERSION THEN Rebuild ELSE Ensure]
  /\ fts' = [fts EXCEPT ![p] = TRUE]
  /\ Goto(p, "index")
  /\ UNCHANGED <<files, schema, product, writes, failed>>

(* One statement of the script; an error skips the rest and leaves the     *)
(* process with ftsEnabled = false.                                        *)
Statement(p, s) == stage[p] = "index" /\ todo[p] # <<>> /\ Head(todo[p]) = s
Succeed(p) == todo' = [todo EXCEPT ![p] = Tail(@)] /\ UNCHANGED fts
Fail(p) == todo' = [todo EXCEPT ![p] = <<>>] /\ fts' = [fts EXCEPT ![p] = FALSE]
ScriptOnly == UNCHANGED <<files, column, product, stage, writes, failed>>

DropTable(p) ==
  /\ Statement(p, <<"dropTable">>)
  /\ table' = FALSE /\ index' = Empty /\ Succeed(p) /\ UNCHANGED <<version, trigger>> /\ ScriptOnly

CreateTable(p) ==
  /\ Statement(p, <<"createTable">>)
  /\ table' = TRUE
  /\ IF table THEN Fail(p) ELSE Succeed(p)
  /\ UNCHANGED <<version, index, trigger>> /\ ScriptOnly

EnsureTable(p) ==
  /\ Statement(p, <<"ensureTable">>)
  /\ table' = TRUE
  /\ Succeed(p) /\ UNCHANGED <<version, index, trigger>> /\ ScriptOnly

DropTrigger(p, t) ==
  /\ Statement(p, <<"drop", t>>)
  /\ trigger' = trigger \ {t}
  /\ Succeed(p) /\ UNCHANGED <<version, table, index>> /\ ScriptOnly

CreateTrigger(p, t) ==
  /\ Statement(p, <<"create", t>>)
  /\ trigger' = trigger \cup {t}
  /\ IF t \in trigger THEN Fail(p) ELSE Succeed(p)
  /\ UNCHANGED <<version, table, index>> /\ ScriptOnly

(* INSERT INTO products_fts SELECT: a row already there is an error.       *)
Fill(p) ==
  /\ Statement(p, <<"fill">>)
  /\ IF table /\ \A i \in Ids : index[i] = "none" \/ Indexed[i] = "none"
     THEN /\ index' = [i \in Ids |-> IF Indexed[i] = "none" THEN index[i] ELSE Indexed[i]]
          /\ Succeed(p)
     ELSE Fail(p) /\ UNCHANGED index
  /\ UNCHANGED <<version, table, trigger>> /\ ScriptOnly

MarkVersion(p) ==
  /\ Statement(p, <<"mark">>)
  /\ version' = SCHEMA_VERSION /\ Succeed(p) /\ UNCHANGED <<table, index, trigger>> /\ ScriptOnly

BootStep(p) ==
  \/ TryLock(p) \/ BreakLock(p) \/ ReleaseLock(p)
  \/ LookForColumn(p) \/ AlterTable(p) \/ ReadVersion(p)
  \/ DropTable(p) \/ CreateTable(p) \/ EnsureTable(p) \/ Fill(p) \/ MarkVersion(p)
  \/ \E t \in Triggers : DropTrigger(p, t) \/ CreateTrigger(p, t)

----------------------------------------------------------------------------
(* Requests of the processes that serve.  A trigger writes the index in    *)
(* the statement that fires it; if the index is missing, or already has    *)
(* the row, the statement fails as a whole.                                *)
Put(i, name) == index' = [index EXCEPT ![i] = name]
Write(p) ==
  /\ stage[p] \in {"serve", "closing"} /\ writes > 0 /\ writes' = writes - 1
  /\ UNCHANGED <<files, column, version, table, trigger, stage, todo, fts, failed>>

InsertProduct(p, i, name) ==
  /\ Write(p) /\ product[i] = "unused" /\ \A j \in Ids : j < i => product[j] # "unused"
  /\ product' = [product EXCEPT ![i] = name]
  /\ IF "ai" \in trigger THEN table /\ index[i] = "none" /\ Put(i, name)
                         ELSE UNCHANGED index

UpdateProduct(p, i, name) ==
  /\ Write(p) /\ product[i] \in Texts \ {name}
  /\ product' = [product EXCEPT ![i] = name]
  /\ IF "au" \in trigger THEN table /\ Put(i, name) ELSE UNCHANGED index

DeleteProduct(p, i) ==
  /\ Write(p) /\ product[i] \in Texts
  /\ product' = [product EXCEPT ![i] = "gone"]
  /\ IF "ad" \in trigger THEN table /\ Put(i, "none") ELSE UNCHANGED index
=============================================================================
