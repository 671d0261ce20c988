------------------------------ MODULE Lifecycle ------------------------------
(***************************************************************************)
(* The life of a server process after its boot (server/index.js: the first *)
(* administrator, listening, the soft stop), the primary of a cluster that *)
(* forks, replaces and stops workers (server/cluster.js), and the desktop  *)
(* shell that runs one server for its window (desktop/main.js).            *)
(*                                                                         *)
(* A signal is recorded in `told' and delivered later.  A process that has *)
(* not installed its handlers yet is killed by the signal, without running *)
(* its `exit' hook; so is one killed from outside.  HTTP requests appear   *)
(* as the writes of module Boot and as the connections a stop waits for.   *)
(* Remote mode of the shell, where nothing is forked, is left out.         *)
(***************************************************************************)
EXTENDS Boot

CONSTANTS Retries,     \* waitForServer: attempts at /healthz
          Scenarios    \* what is started, over which database

(* workers: WORKERS of the cluster, or 0 for the desktop application.      *)
(* products: those of a database of an earlier version (a new one has      *)
(* none).  crashes, starts, writes: bounds on processes that die by         *)
(* themselves, openings of the desktop application, writes to products.    *)
ScenarioType ==
  [workers: 0..Cardinality(Procs),
   earlier: BOOLEAN, products: [Ids -> Texts \cup {"unused", "gone"}],
   crashes: Nat, starts: Nat, writes: Nat]

ASSUME LifeAssumption ==
  IsFiniteSet(Procs) /\ Procs # {} /\ Retries \in Nat /\ Scenarios \subseteq ScenarioType

VARIABLES
  users,     \* the table: empty, or the first administrator
  host,      \* "cluster" or "desktop"
  slots,     \* the workers of the cluster
  parent,    \* cluster: "up", "stopping", "gone"; desktop: "waiting", "window", "gone"
  server,    \* desktop: the process forked last
  left,      \* desktop: attempts left
  told,      \* processes sent a SIGTERM they have not received
  crashes, starts  \* what is left of these bounds

lifeVars == <<users, host, slots, parent, server, left, told, crashes, starts>>
vars == <<bootVars, lifeVars>>

rows == <<schema, product>>
process == <<todo, fts>>
Running == {p \in Procs : stage[p] \notin {"exited", "off"}}
Start(p) == Goto(p, "lock") /\ told' = told \ {p}

----------------------------------------------------------------------------
(* bootstrapAdmin: nobody is created if there is a user.  Hashing the      *)
(* password is awaited.  The configuration is taken to allow it, and the   *)
(* first users are the administrator: another user would do as well.       *)
CountUsers(p) ==
  /\ stage[p] = "admin"
  /\ Goto(p, IF users = {} THEN "hash" ELSE "listen")
  /\ UNCHANGED <<files, rows, process, writes, failed, lifeVars>>

(* Faulty variant: a plain INSERT, which may meet the name's UNIQUE.       *)
CreateAdminAnyway(p) ==
  /\ stage[p] = "hash"
  /\ users' = users \cup {"admin"}
  /\ IF "admin" \in users THEN Die(p) /\ failed' = TRUE /\ ExitHook
                          ELSE Goto(p, "listen") /\ UNCHANGED <<files, process, failed>>
  /\ UNCHANGED <<rows, writes, host, slots, parent, server, left, told, crashes, starts>>

(* INSERT OR IGNORE ... WHERE NOT EXISTS (SELECT 1 FROM users)             *)
CreateAdmin(p) ==
  /\ stage[p] = "hash"
  /\ users' = (IF users = {} THEN {"admin"} ELSE users)
  /\ Goto(p, "listen")
  /\ UNCHANGED <<files, rows, process, writes, failed, host, slots, parent, server, left, told,
                 crashes, starts>>

(* Workers of a cluster share the port; a second server of its own on the  *)
(* port dies of EADDRINUSE.                                                *)
Listen(p) ==
  /\ stage[p] = "listen"
  /\ IF host = "desktop" /\ \E q \in Procs : stage[q] = "serve"
     THEN Die(p) /\ ExitHook
     ELSE Goto(p, "serve") /\ UNCHANGED <<files, process>>
  /\ UNCHANGED <<rows, writes, failed, lifeVars>>

----------------------------------------------------------------------------
(* Ends                                                                    *)

(* SIGTERM: shutdown() once the handlers are there, death before.          *)
Terminate(p) ==
  /\ p \in told /\ p \in Running
  /\ told' = told \ {p}
  /\ IF stage[p] \in {"serve", "closing"} THEN Goto(p, "closing") /\ UNCHANGED process
                                         ELSE Die(p)
  /\ UNCHANGED <<files, rows, writes, failed, users, host, slots, parent, server, left,
                 crashes, starts>>

(* server.close calls back when the last connection is gone: checkpoint,   *)
(* closeDb, exit.                                                          *)
Close(p) ==
  /\ stage[p] = "closing" /\ Die(p) /\ ExitHook
  /\ UNCHANGED <<rows, writes, failed, lifeVars>>

(* Faulty variant: no timer; a connection kept open keeps the process.     *)
NeverForced(p) == FALSE /\ Close(p)

(* The timer of ten seconds, when a connection stays.                      *)
ForceExit(p) == Close(p)

(* A worker whose primary is gone is disconnected, and exits.              *)
Orphan(p) ==
  /\ host = "cluster" /\ parent = "gone"
  /\ stage[p] \in {"hash", "serve", "closing"}
  /\ Die(p) /\ ExitHook
  /\ UNCHANGED <<rows, writes, failed, lifeVars>>

(* Killed from outside, at any point; or by an exception of a request.     *)
Crash(p) ==
  /\ p \in Running /\ crashes > 0 /\ crashes' = crashes - 1
  /\ Die(p)
  /\ UNCHANGED files \/ (stage[p] = "serve" /\ ExitHook)
  /\ UNCHANGED <<rows, writes, failed, users, host, slots, parent, server, left, told, starts>>

----------------------------------------------------------------------------
(* The primary of a cluster                                                *)

(* Faulty variant: the worker is not replaced.                             *)
WorkerExitedUnnoticed(p) ==
  /\ host = "cluster" /\ stage[p] = "exited" /\ Goto(p, "off")
  /\ UNCHANGED <<files, rows, process, writes, failed, lifeVars>>

(* cluster.on("exit"): a new worker, unless stopping.                      *)
WorkerExited(p) ==
  /\ host = "cluster" /\ stage[p] = "exited"
  /\ IF parent = "up" THEN Start(p)
                      ELSE Goto(p, "off") /\ UNCHANGED told
  /\ UNCHANGED <<files, rows, process, writes, failed, users, host, slots, parent, server, left, crashes, starts>>

(* stop(): told whoever there is.  Signals after the first do nothing.     *)
Stop ==
  /\ host = "cluster" /\ parent = "up"
  /\ parent' = "stopping" /\ told' = told \cup Running
  /\ UNCHANGED <<bootVars, users, host, slots, server, left, crashes, starts>>

(* Nothing keeps the primary once its workers are gone; the timer of       *)
(* twelve seconds ends it in any case.                                     *)
PrimaryEnds ==
  /\ host = "cluster" /\ parent = "stopping" /\ parent' = "gone"
  /\ UNCHANGED <<bootVars, users, host, slots, server, left, told, crashes, starts>>

----------------------------------------------------------------------------
(* The desktop shell.  Opening it again while an old server still closes   *)
(* is possible: only the shell is a single instance.                       *)

OpenApp(p) ==
  /\ host = "desktop" /\ parent = "gone" /\ stage[p] = "off" /\ starts > 0
  /\ starts' = starts - 1 /\ parent' = "waiting" /\ server' = p /\ left' = Retries
  /\ Start(p)
  /\ UNCHANGED <<files, rows, process, writes, failed, users, host, slots, crashes>>

(* app.quit: before-quit sends SIGTERM to the server, if it has one.       *)
Quit == parent' = "gone" /\ told' = told \cup ({server} \cap Running)

(* Faulty variant: the attempts are not counted down to an end.            *)
AskHealthForever ==
  /\ host = "desktop" /\ parent = "waiting"
  /\ IF \E p \in Procs : stage[p] = "serve"
     THEN parent' = "window" /\ UNCHANGED left
     ELSE left' = left - 1 /\ UNCHANGED parent
  /\ UNCHANGED <<bootVars, users, host, slots, server, told, crashes, starts>>

(* One attempt of waitForServer: any process on the port answers.          *)
AskHealth ==
  /\ host = "desktop" /\ parent = "waiting"
  /\ IF \E p \in Procs : stage[p] = "serve"
     THEN parent' = "window" /\ UNCHANGED <<left, told>>
     ELSE IF left = 0 THEN Quit /\ UNCHANGED left
          ELSE left' = left - 1 /\ UNCHANGED <<parent, told>>
  /\ UNCHANGED <<bootVars, users, host, slots, server, crashes, starts>>

(* The window is closed, or the application is quit.                       *)
QuitApp ==
  /\ host = "desktop" /\ parent \in {"waiting", "window"} /\ Quit
  /\ UNCHANGED <<bootVars, users, host, slots, server, left, crashes, starts>>

(* serverProcess.on("exit"): a message, and the application quits.         *)
ServerExited(p) ==
  /\ host = "desktop" /\ stage[p] = "exited" /\ Goto(p, "off")
  /\ parent' = (IF p = server THEN "gone" ELSE parent)
  /\ UNCHANGED <<files, rows, process, writes, failed, users, host, slots, server, left, told,
                 crashes, starts>>

----------------------------------------------------------------------------
Init ==
  /\ lock = "none" /\ disturbed = FALSE /\ failed = FALSE
  /\ \E s \in Scenarios :
       /\ version = (IF s.earlier THEN 1 ELSE 0)
       /\ table = s.earlier /\ trigger = (IF s.earlier THEN Triggers ELSE {})
       /\ users = (IF s.earlier THEN {"admin"} ELSE {})
       /\ product = (IF s.earlier THEN s.products ELSE [i \in Ids |-> "unused"])
       /\ index = Indexed
       /\ host = (IF s.workers = 0 THEN "desktop" ELSE "cluster")
       /\ slots = CHOOSE S \in SUBSET Procs : Cardinality(S) = s.workers
       /\ crashes = s.crashes /\ starts = s.starts /\ writes = s.writes
  /\ column = FALSE
  /\ parent = (IF host = "cluster" THEN "up" ELSE "gone")
  /\ stage = [p \in Procs |-> IF p \in slots THEN "lock" ELSE "off"]
  /\ todo = [p \in Procs |-> <<>>] /\ fts = [p \in Procs |-> FALSE]
  /\ server = CHOOSE p \in Procs : TRUE
  /\ left = 0 /\ told = {}

Proceed(p) == \/ BootStep(p) /\ UNCHANGED lifeVars
              \/ CountUsers(p) \/ CreateAdmin(p) \/ Listen(p)
End(p) == Terminate(p) \/ ForceExit(p) \/ Orphan(p) \/ WorkerExited(p) \/ ServerExited(p)
Serve(p) ==
  /\ \E i \in Ids : \/ DeleteProduct(p, i)
                    \/ \E name \in Texts : InsertProduct(p, i, name) \/ UpdateProduct(p, i, name)
  /\ UNCHANGED lifeVars
Patience(p) == GiveUpWaiting(p) /\ UNCHANGED lifeVars
Clock == LockAges /\ UNCHANGED lifeVars

Next ==
  \/ \E p \in Procs : Proceed(p) \/ End(p) \/ Serve(p) \/ Crash(p) \/ OpenApp(p) \/ Patience(p)
  \/ Clock \/ Stop \/ PrimaryEnds \/ AskHealth \/ QuitApp

(* A process that can go on does; timers fire; a parent hears of an exit.  *)
(* Nobody is obliged to send requests, to crash, to open or to quit.       *)
Fairness ==
  /\ \A p \in Procs : WF_vars(Proceed(p)) /\ WF_vars(End(p))
                      /\ SF_vars(Patience(p))
  /\ WF_vars(PrimaryEnds) /\ WF_vars(AskHealth)

Spec == Init /\ [][Next]_vars /\ Fairness

----------------------------------------------------------------------------
(* Properties                                                              *)

TypeOK ==
  /\ lock \in {"none", "fresh", "old"} /\ {column, table, disturbed, failed} \subseteq BOOLEAN
  /\ version \in 0..SCHEMA_VERSION /\ trigger \subseteq Triggers
  /\ product \in [Ids -> Texts \cup {"unused", "gone"}] /\ index \in [Ids -> Texts \cup {"none"}]
  /\ stage \in [Procs -> Stages] /\ told \subseteq Procs
  /\ fts \in [Procs -> BOOLEAN]
  /\ users \subseteq {"admin"} /\ host \in {"cluster", "desktop"} /\ slots \subseteq Procs
  /\ parent \in {"up", "stopping", "gone", "waiting", "window"}
  /\ server \in Procs /\ left \in 0..Retries /\ crashes \in Nat /\ starts \in Nat /\ writes \in Nat

(* Two processes are inside the schema at once only after the lock file    *)
(* was taken for a dead process's, a wait lasted a minute, or a process    *)
(* that ended removed the file of another (acquireBootLock and the `exit'  *)
(* hook of db.js).                                                         *)
BuildersAlone ==
  ~disturbed => \A p, q \in Procs : stage[p] \in Building /\ stage[q] \in Building => p = q

(* Under the same condition no process dies of the schema or of creating   *)
(* the first administrator, however many start together on a new database; *)
(* the condition is the state before, as the process that dies takes the   *)
(* lock file along.                                                        *)
BootSurvives == [][failed' => failed \/ disturbed]_vars

(* With one worker the index holds exactly the products whenever requests  *)
(* are served by it, whatever statement the process died at before.        *)
IndexComplete ==
  host = "cluster" /\ Cardinality(slots) = 1
    => \A p \in Procs : stage[p] \in {"serve", "closing"} /\ fts[p] => table /\ index = Indexed

(* The same with any number of workers, as long as the lock did its work:  *)
(* what bench/crud-fts-test.mjs asks of the index after every write.       *)
IndexFollows ==
  ~disturbed =>
    \A p \in Procs : stage[p] \in {"serve", "closing"} /\ fts[p] => table /\ index = Indexed

(* Until it is stopped, a cluster comes to serve with every worker, and a  *)
(* worker that died is replaced.                                           *)
ClusterRecovers ==
  [](host = "cluster" =>
     <>(parent # "up" \/ \A p \in slots : stage[p] = "serve"))

(* After the application is quit, or the cluster stopped, its processes    *)
(* end: no connection, wait or boot keeps one.                             *)
StopEnds ==
  [](parent \in {"gone", "stopping"} =>
     <>(parent \notin {"gone", "stopping"} \/ \A p \in Procs : stage[p] = "off"))
=============================================================================
