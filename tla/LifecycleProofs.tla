--------------------------- MODULE LifecycleProofs ---------------------------
(* The boot lock of module Boot, for any number of processes: as long as   *)
(* nobody takes or removes it who does not hold it, one process at a time  *)
(* is inside the schema, and none dies there.  And the full-text index of  *)
(* a cluster of one worker, whatever statement a worker dies at.           *)
EXTENDS Lifecycle, FiniteSetTheorems, SequenceTheorems, TLAPS

(* A process inside holds the file.                                        *)
HeldInside == \A p \in Procs : stage[p] \in Building => lock # "none"

(* Whoever found no column is still right.                                 *)
ColumnAwaited == \A p \in Procs : stage[p] = "alter" => ~column

Inside == \A p, q \in Procs : stage[p] \in Building /\ stage[q] \in Building => p = q

LockInv ==
  /\ stage \in [Procs -> Stages]
  /\ ~disturbed => HeldInside /\ Inside /\ ColumnAwaited

(* A step that leaves the file, the column and whoever is inside alone, or *)
(* lets p leave from inside while the file stays.                          *)
LEMMA Aside ==
  ASSUME LockInv, NEW p \in Procs, NEW s \in Stages \ Building,
         stage' = [stage EXCEPT ![p] = s],
         UNCHANGED <<lock, column, disturbed>>
  PROVE  LockInv'
BY DEF LockInv, HeldInside, Inside, ColumnAwaited, Building

(* A process ends and its hook removes the file, whoever holds it.         *)
LEMMA Hooked ==
  ASSUME LockInv, NEW p \in Procs, Die(p), ExitHook, UNCHANGED column
  PROVE  LockInv'
BY DEF LockInv, HeldInside, Inside, ColumnAwaited, Building, Die, ExitHook, Goto, Stages, Booting

(* The same without the hook.                                              *)
LEMMA Killed ==
  ASSUME LockInv, NEW p \in Procs, Die(p), UNCHANGED <<lock, column, disturbed>>
  PROVE  LockInv'
BY Aside DEF Die, Goto, Stages, Booting, Building

(* A step that touches none of these.                                      *)
LEMMA Elsewhere ==
  ASSUME LockInv, UNCHANGED <<stage, lock, column, disturbed>>
  PROVE  LockInv'
BY DEF LockInv, HeldInside, Inside, ColumnAwaited

(* The steps of a boot.                                                    *)
LEMMA BootStepKeeps ==
  ASSUME LockInv, NEW p \in Procs, BootStep(p)
  PROVE  LockInv' /\ (failed' => failed \/ disturbed)
<1> USE DEF Goto, Stages, Booting, Building, files, schema
<1>1. CASE TryLock(p)
  BY <1>1 DEF TryLock, LockInv, HeldInside, Inside, ColumnAwaited
<1>2. CASE BreakLock(p)
  BY <1>2 DEF BreakLock, LockInv
<1>3. CASE ReleaseLock(p)
  BY <1>3 DEF ReleaseLock, LockInv, HeldInside, Inside, ColumnAwaited
<1>4. CASE LookForColumn(p)
  BY <1>4 DEF LookForColumn, LockInv, HeldInside, Inside, ColumnAwaited
<1>5. CASE AlterTable(p)
  <2>1. CASE column
    <3>1. Die(p) /\ ExitHook /\ UNCHANGED column
      BY <1>5, <2>1 DEF AlterTable
    <3>2. disturbed
      BY <1>5, <2>1 DEF AlterTable, LockInv, ColumnAwaited
    <3> QED
      BY <3>1, <3>2, Hooked
  <2>2. CASE ~column
    BY <1>5, <2>2 DEF AlterTable, LockInv, HeldInside, Inside, ColumnAwaited
  <2> QED
    BY <2>1, <2>2
<1>6. CASE ReadVersion(p)
  BY <1>6 DEF ReadVersion, LockInv, HeldInside, Inside, ColumnAwaited
<1>7. CASE DropTable(p) \/ CreateTable(p) \/ EnsureTable(p) \/ Fill(p) \/ MarkVersion(p)
  <2>1. ScriptOnly
    BY <1>7 DEF DropTable, CreateTable, EnsureTable, Fill, MarkVersion
  <2> QED
    BY <2>1, Elsewhere DEF ScriptOnly
<1>8. CASE \E t \in Triggers : DropTrigger(p, t) \/ CreateTrigger(p, t)
  <2>1. ScriptOnly
    BY <1>8 DEF DropTrigger, CreateTrigger
  <2> QED
    BY <2>1, Elsewhere DEF ScriptOnly
<1> QED
  BY <1>1, <1>2, <1>3, <1>4, <1>5, <1>6, <1>7, <1>8 DEF BootStep

(* The ways a process ends, and what its parent does of it.                *)
LEMMA EndKeeps ==
  ASSUME LockInv, NEW p \in Procs, End(p)
  PROVE  LockInv' /\ UNCHANGED failed
<1> USE DEF files, rows, schema, process
<1>1. CASE Terminate(p)
  <2>1. CASE stage[p] \in {"serve", "closing"}
    BY <1>1, <2>1, Aside DEF Terminate, Goto, Stages, Booting, Building
  <2>2. CASE stage[p] \notin {"serve", "closing"}
    BY <1>1, <2>2, Killed DEF Terminate
  <2> QED
    BY <2>1, <2>2
<1>2. CASE ForceExit(p)
  BY <1>2, Hooked DEF ForceExit, Close
<1>3. CASE Orphan(p)
  BY <1>3, Hooked DEF Orphan
<1>4. CASE WorkerExited(p)
  BY <1>4, Aside DEF WorkerExited, Start, Goto, Stages, Booting, Building
<1>5. CASE ServerExited(p)
  BY <1>5, Aside DEF ServerExited, Goto, Stages, Booting, Building
<1> QED
  BY <1>1, <1>2, <1>3, <1>4, <1>5 DEF End

(* Between the schema and the port.                                        *)
LEMMA RestKeeps ==
  ASSUME LockInv, NEW p \in Procs, CountUsers(p) \/ CreateAdmin(p) \/ Listen(p)
  PROVE  LockInv' /\ UNCHANGED failed
<1> USE DEF files, rows, schema, process
<1>1. CASE CountUsers(p)
  BY <1>1, Aside DEF CountUsers, Goto, Stages, Booting, Building
<1>2. CASE CreateAdmin(p)
  BY <1>2, Aside DEF CreateAdmin, Goto, Stages, Booting, Building
<1>3. CASE Listen(p)
  <2>1. CASE host = "desktop" /\ \E q \in Procs : stage[q] = "serve"
    BY <1>3, <2>1, Hooked DEF Listen
  <2>2. CASE ~(host = "desktop" /\ \E q \in Procs : stage[q] = "serve")
    BY <1>3, <2>2, Aside DEF Listen, Goto, Stages, Booting, Building
  <2> QED
    BY <2>1, <2>2
<1> QED
  BY <1>1, <1>2, <1>3

(* Every step keeps the invariant, and none undisturbed lets a boot fail.  *)
LEMMA StepKeeps ==
  ASSUME LockInv, [Next]_vars
  PROVE  LockInv' /\ (failed' => failed \/ disturbed)
<1> USE DEF files, rows, schema, process
<1>1. ASSUME NEW p \in Procs, Proceed(p)
      PROVE  LockInv' /\ (failed' => failed \/ disturbed)
  BY <1>1, BootStepKeeps, RestKeeps DEF Proceed
<1>2. ASSUME NEW p \in Procs, End(p)
      PROVE  LockInv' /\ (failed' => failed \/ disturbed)
  BY <1>2, EndKeeps
<1>3. ASSUME NEW p \in Procs, Serve(p)
      PROVE  LockInv' /\ (failed' => failed \/ disturbed)
  BY <1>3, Elsewhere DEF Serve, Write, InsertProduct, UpdateProduct, DeleteProduct
<1>4. ASSUME NEW p \in Procs, Crash(p)
      PROVE  LockInv' /\ (failed' => failed \/ disturbed)
  BY <1>4, Hooked, Killed DEF Crash
<1>5. ASSUME NEW p \in Procs, OpenApp(p)
      PROVE  LockInv' /\ (failed' => failed \/ disturbed)
  BY <1>5, Aside DEF OpenApp, Start, Goto, Stages, Booting, Building
<1>6. ASSUME NEW p \in Procs, Patience(p)
      PROVE  LockInv' /\ (failed' => failed \/ disturbed)
  BY <1>6 DEF Patience, GiveUpWaiting, LockInv, Goto, Stages, Booting, Building
<1>7. CASE Clock
  BY <1>7 DEF Clock, LockAges, LockInv, HeldInside, Inside, ColumnAwaited
<1>8. CASE Stop \/ PrimaryEnds \/ AskHealth \/ QuitApp \/ UNCHANGED vars
  BY <1>8, Elsewhere DEF Stop, PrimaryEnds, AskHealth, QuitApp, bootVars, vars
<1> QED
  BY <1>1, <1>2, <1>3, <1>4, <1>5, <1>6, <1>7, <1>8 DEF Next

(* Nobody is inside at the start.                                          *)
LEMMA InitHolds == ASSUME Init PROVE LockInv
BY DEF Init, LockInv, HeldInside, Inside, ColumnAwaited, Stages, Booting, Building

(* Unless the lock is disturbed, one process at a time is inside the       *)
(* schema (acquireBootLock), for any number of processes.                  *)
THEOREM OneBuilder == Spec => []BuildersAlone
<1>1. LockInv => BuildersAlone
  BY DEF LockInv, Inside, BuildersAlone
<1>2. Init => LockInv
  BY InitHolds
<1>3. LockInv /\ [Next]_vars => LockInv'
  BY StepKeeps
<1> QED
  BY <1>1, <1>2, <1>3, PTL DEF Spec

(* Nor does a process die of the schema or of the first administrator.     *)
THEOREM BootsSurvive == Spec => BootSurvives
<1>1. LockInv /\ [Next]_vars => [failed' => failed \/ disturbed]_vars
  BY StepKeeps
<1>2. Init => LockInv
  BY InitHolds
<1>3. LockInv /\ [Next]_vars => LockInv'
  BY StepKeeps
<1> QED
  BY <1>1, <1>2, <1>3, PTL DEF Spec, BootSurvives
----------------------------------------------------------------------------
(* The full-text index of one worker, from statement to statement.         *)

Statements == {<<"dropTable">>, <<"createTable">>, <<"ensureTable">>, <<"fill">>, <<"mark">>}
  \cup {<<"drop", t>> : t \in Triggers} \cup {<<"create", t>> : t \in Triggers}

Alone == host = "cluster" /\ Cardinality(slots) = 1
SlotsOnly == host = "cluster" => \A p \in Procs : stage[p] # "off" => p \in slots

(* A script from its statement k on.                                       *)
Rest(script, k) == SubSeq(script, k, Len(script))
Whole == table /\ index = Indexed

(* What is known of the triggers before the j-th of the six statements on  *)
(* them.                                                                   *)
TriggersTo(j) ==
  /\ j = 2 => "ai" \notin trigger
  /\ j >= 3 => "ai" \in trigger
  /\ j = 4 => "ad" \notin trigger
  /\ j >= 5 => "ad" \in trigger
  /\ j = 6 => "au" \notin trigger
  /\ j >= 7 => "au" \in trigger

(* What is known before statement k of either script.                      *)
RebuiltTo(k) ==
  /\ IF k <= 10 THEN version < SCHEMA_VERSION ELSE version = SCHEMA_VERSION
  /\ k = 2 => ~table
  /\ k >= 3 => table
  /\ k \in 2..9 => index = Empty
  /\ k >= 10 => index = Indexed
  /\ TriggersTo(k - 2)

EnsuredTo(k) == version = SCHEMA_VERSION /\ TriggersTo(k - 1)

Progress(p) ==
  \/ \E k \in 1..11 : todo[p] = Rest(Rebuild, k) /\ RebuiltTo(k)
  \/ \E k \in 1..8 : todo[p] = Rest(Ensure, k) /\ EnsuredTo(k)

Sound(p) ==
  /\ stage[p] = "index" => fts[p] /\ Progress(p)
  /\ stage[p] \in {"admin", "hash", "listen", "serve", "closing"} =>
       fts[p] /\ version = SCHEMA_VERSION /\ trigger = Triggers

(* The version is only ever written over a whole index: that is what makes *)
(* a death at any statement harmless to the next process.                  *)
IndexInv ==
  /\ todo \in [Procs -> Seq(Statements)]
  /\ SlotsOnly
  /\ Alone => (version = SCHEMA_VERSION => Whole) /\ \A p \in Procs : Sound(p)

----------------------------------------------------------------------------
(* The scripts, statement by statement. *)

(* A script of a rebuild. *)
LEMMA RebuildIs ==
  /\ Rebuild \in Seq(Statements) /\ Len(Rebuild) = 10
  /\ Rebuild[1] = <<"dropTable">> /\ Rebuild[2] = <<"createTable">>
  /\ Rebuild[3] = <<"drop", "ai">> /\ Rebuild[4] = <<"create", "ai">>
  /\ Rebuild[5] = <<"drop", "ad">> /\ Rebuild[6] = <<"create", "ad">>
  /\ Rebuild[7] = <<"drop", "au">> /\ Rebuild[8] = <<"create", "au">>
  /\ Rebuild[9] = <<"fill">> /\ Rebuild[10] = <<"mark">>
<1> DEFINE S == Statements
<1>1. {<<"dropTable">>, <<"createTable">>, <<"drop", "ai">>, <<"create", "ai">>, <<"drop", "ad">>,
       <<"create", "ad">>, <<"drop", "au">>, <<"create", "au">>, <<"fill">>, <<"mark">>} \subseteq S
  BY DEF Statements, Triggers
<1> HIDE DEF S
<1>2. ASSUME NEW a \in S, NEW b \in S, NEW c \in S, NEW d \in S, NEW e \in S, NEW f \in S,
             NEW g \in S, NEW h \in S, NEW i \in S, NEW j \in S
      PROVE  <<a, b, c, d, e, f, g, h, i, j>> \in Seq(S)
  OBVIOUS
<1>3. Rebuild \in Seq(S)
  BY <1>1, <1>2 DEF Rebuild
<1>4. QED
  BY <1>3 DEF Rebuild, S

(* The script over an index of this version. *)
LEMMA EnsureIs ==
  /\ Ensure \in Seq(Statements) /\ Len(Ensure) = 7
  /\ Ensure[1] = <<"ensureTable">>
  /\ Ensure[2] = <<"drop", "ai">> /\ Ensure[3] = <<"create", "ai">>
  /\ Ensure[4] = <<"drop", "ad">> /\ Ensure[5] = <<"create", "ad">>
  /\ Ensure[6] = <<"drop", "au">> /\ Ensure[7] = <<"create", "au">>
<1> DEFINE S == Statements
<1>1. {<<"ensureTable">>, <<"drop", "ai">>, <<"create", "ai">>, <<"drop", "ad">>,
       <<"create", "ad">>, <<"drop", "au">>, <<"create", "au">>} \subseteq S
  BY DEF Statements, Triggers
<1> HIDE DEF S
<1>2. ASSUME NEW a \in S, NEW b \in S, NEW c \in S, NEW d \in S, NEW e \in S, NEW f \in S,
             NEW g \in S
      PROVE  <<a, b, c, d, e, f, g>> \in Seq(S)
  OBVIOUS
<1>3. Ensure \in Seq(S)
  BY <1>1, <1>2 DEF Ensure
<1>4. QED
  BY <1>3 DEF Ensure, S

(* Statements differ. *)
LEMMA Distinct ==
  ASSUME NEW t, NEW u
  PROVE  /\ <<"drop", t>> = <<"drop", u>> => t = u
         /\ <<"create", t>> = <<"create", u>> => t = u
         /\ <<"drop", t>> # <<"create", u>>
         /\ \A w \in {<<"dropTable">>, <<"createTable">>, <<"ensureTable">>, <<"fill">>, <<"mark">>} :
              w # <<"drop", t>> /\ w # <<"create", t>>
         /\ <<"dropTable">> # <<"createTable">> /\ <<"dropTable">> # <<"fill">>
         /\ <<"dropTable">> # <<"mark">> /\ <<"createTable">> # <<"fill">>
         /\ <<"createTable">> # <<"mark">> /\ <<"fill">> # <<"mark">>
         /\ \A w \in {<<"dropTable">>, <<"createTable">>, <<"fill">>, <<"mark">>} : w # <<"ensureTable">>
  OBVIOUS

(* The triggers have their statements every second place from the first.   *)
AtTrigger(t, k, first) ==
  \/ t = "ai" /\ k = first
  \/ t = "ad" /\ k = first + 2
  \/ t = "au" /\ k = first + 4

(* Where a process is in its script, by its statement. *)
LEMMA PlaceInRebuild ==
  ASSUME NEW k \in 1..10, NEW s, Rebuild[k] = s
  PROVE  /\ s = <<"dropTable">> => k = 1
         /\ s = <<"createTable">> => k = 2
         /\ s = <<"fill">> => k = 9
         /\ s = <<"mark">> => k = 10
         /\ s # <<"ensureTable">>
         /\ \A t \in Triggers :
              /\ s = <<"drop", t>> => AtTrigger(t, k, 3)
              /\ s = <<"create", t>> => AtTrigger(t, k, 4)
<1>1. k \in {1, 2, 3, 4, 5, 6, 7, 8, 9, 10}
  OBVIOUS
<1>2. CASE k = 1
  <2>1. s = <<"dropTable">>
    BY <1>2, RebuildIs, Zenon
  <2>2. QED
    BY <1>2, <2>1, Distinct DEF AtTrigger
<1>3. CASE k = 2
  <2>1. s = <<"createTable">>
    BY <1>3, RebuildIs, Zenon
  <2>2. QED
    BY <1>3, <2>1, Distinct DEF AtTrigger
<1>4. CASE k = 3
  <2>1. s = <<"drop", "ai">>
    BY <1>4, RebuildIs, Zenon
  <2>2. QED
    BY <1>4, <2>1, Distinct DEF AtTrigger
<1>5. CASE k = 4
  <2>1. s = <<"create", "ai">>
    BY <1>5, RebuildIs, Zenon
  <2>2. QED
    BY <1>5, <2>1, Distinct DEF AtTrigger
<1>6. CASE k = 5
  <2>1. s = <<"drop", "ad">>
    BY <1>6, RebuildIs, Zenon
  <2>2. QED
    BY <1>6, <2>1, Distinct DEF AtTrigger
<1>7. CASE k = 6
  <2>1. s = <<"create", "ad">>
    BY <1>7, RebuildIs, Zenon
  <2>2. QED
    BY <1>7, <2>1, Distinct DEF AtTrigger
<1>8. CASE k = 7
  <2>1. s = <<"drop", "au">>
    BY <1>8, RebuildIs, Zenon
  <2>2. QED
    BY <1>8, <2>1, Distinct DEF AtTrigger
<1>9. CASE k = 8
  <2>1. s = <<"create", "au">>
    BY <1>9, RebuildIs, Zenon
  <2>2. QED
    BY <1>9, <2>1, Distinct DEF AtTrigger
<1>10. CASE k = 9
  <2>1. s = <<"fill">>
    BY <1>10, RebuildIs, Zenon
  <2>2. QED
    BY <1>10, <2>1, Distinct DEF AtTrigger
<1>11. CASE k = 10
  <2>1. s = <<"mark">>
    BY <1>11, RebuildIs, Zenon
  <2>2. QED
    BY <1>11, <2>1, Distinct DEF AtTrigger
<1>12. QED
  BY <1>1, <1>2, <1>3, <1>4, <1>5, <1>6, <1>7, <1>8, <1>9, <1>10, <1>11

(* The same in the other script. *)
LEMMA PlaceInEnsure ==
  ASSUME NEW k \in 1..7, NEW s, Ensure[k] = s
  PROVE  /\ s = <<"ensureTable">> => k = 1
         /\ s \notin {<<"dropTable">>, <<"createTable">>, <<"fill">>, <<"mark">>}
         /\ \A t \in Triggers :
              /\ s = <<"drop", t>> => AtTrigger(t, k, 2)
              /\ s = <<"create", t>> => AtTrigger(t, k, 3)
<1>1. k \in {1, 2, 3, 4, 5, 6, 7}
  OBVIOUS
<1>2. CASE k = 1
  <2>1. s = <<"ensureTable">>
    BY <1>2, EnsureIs, Zenon
  <2>2. QED
    BY <1>2, <2>1, Distinct DEF AtTrigger
<1>3. CASE k = 2
  <2>1. s = <<"drop", "ai">>
    BY <1>3, EnsureIs, Zenon
  <2>2. QED
    BY <1>3, <2>1, Distinct DEF AtTrigger
<1>4. CASE k = 3
  <2>1. s = <<"create", "ai">>
    BY <1>4, EnsureIs, Zenon
  <2>2. QED
    BY <1>4, <2>1, Distinct DEF AtTrigger
<1>5. CASE k = 4
  <2>1. s = <<"drop", "ad">>
    BY <1>5, EnsureIs, Zenon
  <2>2. QED
    BY <1>5, <2>1, Distinct DEF AtTrigger
<1>6. CASE k = 5
  <2>1. s = <<"create", "ad">>
    BY <1>6, EnsureIs, Zenon
  <2>2. QED
    BY <1>6, <2>1, Distinct DEF AtTrigger
<1>7. CASE k = 6
  <2>1. s = <<"drop", "au">>
    BY <1>7, EnsureIs, Zenon
  <2>2. QED
    BY <1>7, <2>1, Distinct DEF AtTrigger
<1>8. CASE k = 7
  <2>1. s = <<"create", "au">>
    BY <1>8, EnsureIs, Zenon
  <2>2. QED
    BY <1>8, <2>1, Distinct DEF AtTrigger
<1>9. QED
  BY <1>1, <1>2, <1>3, <1>4, <1>5, <1>6, <1>7, <1>8

(* The statement a process executes is the next of its script, and leaves  *)
(* the rest.                                                               *)
LEMMA NextStatement ==
  ASSUME NEW p \in Procs, NEW s, Statement(p, s), NEW script \in {Rebuild, Ensure},
         NEW k \in 1..(Len(script) + 1), todo[p] = Rest(script, k)
  PROVE  /\ k \in 1..Len(script) /\ script[k] = s
         /\ Tail(todo[p]) = Rest(script, k + 1)
<1>1. script \in Seq(Statements) /\ Len(script) \in Nat
  <2>1. Rebuild \in Seq(Statements) /\ Len(Rebuild) \in Nat
    <3>1. Rebuild \in Seq(Statements)
      BY RebuildIs, Zenon
    <3>2. QED
      BY <3>1
  <2>2. Ensure \in Seq(Statements) /\ Len(Ensure) \in Nat
    <3>1. Ensure \in Seq(Statements)
      BY EnsureIs, Zenon
    <3>2. QED
      BY <3>1
  <2>3. QED
    BY <2>1, <2>2, Zenon
<1>2. k # Len(script) + 1
  BY <1>1, SubSeqEmpty DEF Statement, Rest
<1>3. k \in 1..Len(script) /\ Len(script) \in k..Len(script)
  BY <1>1, <1>2
<1>4. /\ Head(SubSeq(script, k, Len(script))) = script[k]
      /\ Tail(SubSeq(script, k, Len(script))) = SubSeq(script, k + 1, Len(script))
  BY <1>1, <1>3, HeadTailOfSubSeq
<1>5. QED
  BY <1>3, <1>4 DEF Statement, Rest
----------------------------------------------------------------------------
(* Types. *)

(* The index as it should be is one. *)
LEMMA IndexedTyped ==
  /\ Indexed \in [Ids -> Texts \cup {"none"}]
  /\ Empty \in [Ids -> Texts \cup {"none"}]
BY DEF Indexed, Empty

(* A process moves on to another stage. *)
LEMMA StageTyped ==
  ASSUME TypeOK, NEW p \in Procs, NEW s \in Stages, Goto(p, s)
  PROVE  stage' \in [Procs -> Stages]
BY DEF TypeOK, Goto

(* What a process that ends leaves. *)
LEMMA DieTyped ==
  ASSUME TypeOK, NEW p \in Procs, Die(p)
  PROVE  stage' \in [Procs -> Stages] /\ fts' \in [Procs -> BOOLEAN]
BY DEF TypeOK, Die, Goto, Stages

(* The file its hook leaves. *)
LEMMA HookTyped ==
  ASSUME TypeOK, ExitHook
  PROVE  lock' \in {"none", "fresh", "old"} /\ disturbed' \in BOOLEAN
BY DEF TypeOK, ExitHook

(* A step that changes neither stages nor what the boot keeps. *)
LEMMA BootTyped ==
  ASSUME TypeOK, NEW p \in Procs, BootStep(p), UNCHANGED lifeVars
  PROVE  TypeOK'
<1> USE DEF files, schema, lifeVars, Goto, Stages, Booting, Building
<1>1. CASE TryLock(p)
  BY <1>1 DEF TryLock, TypeOK
<1>2. CASE BreakLock(p)
  BY <1>2 DEF BreakLock, TypeOK
<1>3. CASE ReleaseLock(p)
  BY <1>3 DEF ReleaseLock, TypeOK
<1>4. CASE LookForColumn(p)
  BY <1>4 DEF LookForColumn, TypeOK
<1>5. CASE AlterTable(p)
  <2>1. CASE column
    <3>1. /\ Die(p) /\ ExitHook /\ failed' = TRUE
          /\ UNCHANGED <<column, writes, version, table, index, trigger, product>>
      BY <1>5, <2>1 DEF AlterTable
    <3>2. QED
      BY <3>1, DieTyped, HookTyped DEF TypeOK
  <2>2. CASE ~column
    BY <1>5, <2>2 DEF AlterTable, TypeOK
  <2> QED
    BY <2>1, <2>2
<1>6. CASE ReadVersion(p)
  BY <1>6 DEF ReadVersion, TypeOK
<1>7. ASSUME ScriptOnly, Succeed(p) \/ Fail(p),
             table' \in BOOLEAN, version' \in 0..SCHEMA_VERSION, trigger' \subseteq Triggers,
             index' \in [Ids -> Texts \cup {"none"}]
      PROVE  TypeOK'
  BY <1>7 DEF ScriptOnly, Succeed, Fail, TypeOK
<1>8. CASE DropTable(p)
  BY <1>7, <1>8, IndexedTyped DEF DropTable, TypeOK
<1>9. CASE CreateTable(p)
  BY <1>7, <1>9 DEF CreateTable, TypeOK
<1>10. CASE EnsureTable(p)
  BY <1>7, <1>10 DEF EnsureTable, TypeOK
<1>11. CASE Fill(p)
  <2>1. index \in [Ids -> Texts \cup {"none"}]
    BY DEF TypeOK
  <2>2. index' \in [Ids -> Texts \cup {"none"}]
    BY <1>11, <2>1, IndexedTyped DEF Fill
  <2>3. ScriptOnly /\ (Succeed(p) \/ Fail(p)) /\ UNCHANGED <<version, table, trigger>>
    BY <1>11 DEF Fill
  <2>4. QED
    BY <1>7, <2>2, <2>3 DEF TypeOK
<1>12. CASE MarkVersion(p)
  BY <1>7, <1>12 DEF MarkVersion, TypeOK, SCHEMA_VERSION
<1>13. CASE \E t \in Triggers : DropTrigger(p, t) \/ CreateTrigger(p, t)
  BY <1>7, <1>13 DEF DropTrigger, CreateTrigger, TypeOK
<1> QED
  BY <1>1, <1>2, <1>3, <1>4, <1>5, <1>6, <1>8, <1>9, <1>10, <1>11, <1>12, <1>13 DEF BootStep

(* The rest of a start. *)
LEMMA StartTyped ==
  ASSUME TypeOK, NEW p \in Procs, CountUsers(p) \/ CreateAdmin(p) \/ Listen(p)
  PROVE  TypeOK'
<1> USE DEF files, rows, schema, process, lifeVars, Goto, Stages, Booting, Building
<1>1. CASE CountUsers(p)
  BY <1>1 DEF CountUsers, TypeOK
<1>2. CASE CreateAdmin(p)
  BY <1>2 DEF CreateAdmin, TypeOK
<1>3. CASE Listen(p)
  <2>1. CASE host = "desktop" /\ \E q \in Procs : stage[q] = "serve"
    <3>1. Die(p) /\ ExitHook /\ UNCHANGED <<rows, writes, failed, lifeVars>>
      BY <1>3, <2>1 DEF Listen
    <3>2. QED
      BY <3>1, DieTyped, HookTyped DEF TypeOK
  <2>2. CASE ~(host = "desktop" /\ \E q \in Procs : stage[q] = "serve")
    BY <1>3, <2>2 DEF Listen, TypeOK
  <2> QED
    BY <2>1, <2>2
<1> QED
  BY <1>1, <1>2, <1>3

(* The ways a process ends. *)
LEMMA EndTyped ==
  ASSUME TypeOK, NEW p \in Procs, End(p) \/ Crash(p)
  PROVE  TypeOK'
<1> USE DEF files, rows, schema, process, lifeVars
<1>1. CASE Terminate(p)
  <2>1. stage' \in [Procs -> Stages] /\ fts' \in [Procs -> BOOLEAN]
    <3>1. CASE stage[p] \in {"serve", "closing"}
      BY <1>1, <3>1 DEF Terminate, Goto, Stages, TypeOK
    <3>2. CASE stage[p] \notin {"serve", "closing"}
      BY <1>1, <3>2, DieTyped DEF Terminate
    <3> QED
      BY <3>1, <3>2
  <2>2. QED
    BY <1>1, <2>1 DEF Terminate, TypeOK
<1>2. CASE ForceExit(p)
  BY <1>2, DieTyped, HookTyped DEF ForceExit, Close, TypeOK
<1>3. CASE Orphan(p)
  BY <1>3, DieTyped, HookTyped DEF Orphan, TypeOK
<1>4. CASE WorkerExited(p)
  BY <1>4 DEF WorkerExited, Start, Goto, Stages, Booting, TypeOK
<1>5. CASE ServerExited(p)
  BY <1>5 DEF ServerExited, Goto, Stages, TypeOK
<1>6. CASE Crash(p)
  <2>1. Die(p) /\ (UNCHANGED files \/ ExitHook) /\ crashes > 0 /\ crashes' = crashes - 1
    BY <1>6 DEF Crash
  <2>2. lock' \in {"none", "fresh", "old"} /\ disturbed' \in BOOLEAN
    BY <2>1, HookTyped DEF TypeOK
  <2>3. QED
    BY <1>6, <2>1, <2>2, DieTyped DEF Crash, TypeOK
<1> QED
  BY <1>1, <1>2, <1>3, <1>4, <1>5, <1>6 DEF End

(* Requests. *)
LEMMA ServeTyped ==
  ASSUME TypeOK, NEW p \in Procs, Serve(p)
  PROVE  TypeOK'
<1> USE DEF files, lifeVars, Write, Put
<1>1. PICK i \in Ids : \/ DeleteProduct(p, i)
                       \/ \E name \in Texts : InsertProduct(p, i, name) \/ UpdateProduct(p, i, name)
  BY DEF Serve
<1>2. CASE DeleteProduct(p, i)
  BY <1>2 DEF DeleteProduct, TypeOK, Serve
<1>3. CASE \E name \in Texts : InsertProduct(p, i, name)
  BY <1>3 DEF InsertProduct, TypeOK, Serve
<1>4. CASE \E name \in Texts : UpdateProduct(p, i, name)
  BY <1>4 DEF UpdateProduct, TypeOK, Serve
<1> QED
  BY <1>1, <1>2, <1>3, <1>4

(* The parents, the clock and impatience. *)
LEMMA ParentTyped ==
  ASSUME TypeOK,
         Stop \/ PrimaryEnds \/ AskHealth \/ QuitApp \/ Clock \/ \E p \in Procs : OpenApp(p) \/ Patience(p)
  PROVE  TypeOK'
<1> USE DEF files, rows, schema, process, lifeVars, bootVars
<1>1. CASE Stop
  BY <1>1 DEF Stop, Running, TypeOK
<1>2. CASE PrimaryEnds
  BY <1>2 DEF PrimaryEnds, TypeOK
<1>3. CASE AskHealth
  <2>1. /\ parent' \in {"up", "stopping", "gone", "waiting", "window"}
        /\ told' \subseteq Procs /\ left' \in 0..Retries
    <3>1. CASE \E p \in Procs : stage[p] = "serve"
      BY <1>3, <3>1 DEF AskHealth, TypeOK
    <3>2. CASE ~(\E p \in Procs : stage[p] = "serve") /\ left = 0
      BY <1>3, <3>2 DEF AskHealth, Quit, Running, TypeOK
    <3>3. CASE ~(\E p \in Procs : stage[p] = "serve") /\ left # 0
      <4>1. left' = left - 1 /\ UNCHANGED <<parent, told>>
        BY <1>3, <3>3 DEF AskHealth
      <4>2. left \in 0..Retries /\ Retries \in Nat
        BY LifeAssumption DEF TypeOK
      <4>3. left' \in 0..Retries
        BY <3>3, <4>1, <4>2
      <4>4. QED
        BY <4>1, <4>3 DEF TypeOK
    <3>4. QED
      BY <3>1, <3>2, <3>3
  <2>2. UNCHANGED <<bootVars, users, host, slots, server, crashes, starts>>
    BY <1>3 DEF AskHealth
  <2>3. QED
    BY <2>1, <2>2 DEF TypeOK
<1>4. CASE QuitApp
  BY <1>4 DEF QuitApp, Quit, Running, TypeOK
<1>5. CASE Clock
  BY <1>5 DEF Clock, LockAges, TypeOK
<1>6. ASSUME NEW p \in Procs, OpenApp(p)
      PROVE  TypeOK'
  BY <1>6, LifeAssumption DEF OpenApp, Start, Goto, Stages, Booting, TypeOK
<1>7. ASSUME NEW p \in Procs, Patience(p)
      PROVE  TypeOK'
  BY <1>7 DEF Patience, GiveUpWaiting, Goto, Stages, Booting, Building, TypeOK
<1> QED
  BY <1>1, <1>2, <1>3, <1>4, <1>5, <1>6, <1>7

(* There are as many workers as asked for, of the processes there are. *)
LEMMA SlotsExist ==
  ASSUME NEW n \in 0..Cardinality(Procs)
  PROVE  \E S \in SUBSET Procs : Cardinality(S) = n
<1> DEFINE N == Cardinality(Procs)
<1>1. IsFiniteSet(Procs) /\ N \in Nat
  BY LifeAssumption, FS_CardinalityType
<1>2. PICK f : f \in Bijection(1..N, Procs)
  BY LifeAssumption, FS_CardinalityType DEF ExistsBijection
<1>3. n \in Nat /\ 1..n \subseteq 1..N
  BY <1>1
<1> DEFINE S == {f[i] : i \in 1..n}
<1>4. f \in [1..N -> Procs] /\ \A i, j \in 1..N : f[i] = f[j] => i = j
  BY <1>2 DEF Bijection, Injection, IsInjective
<1>5. S \subseteq Procs
  BY <1>3, <1>4
<1>6. [i \in 1..n |-> f[i]] \in Bijection(1..n, S)
  BY <1>3, <1>4 DEF Bijection, Injection, Surjection, IsInjective
<1>7. IsFiniteSet(1..n) /\ Cardinality(1..n) = n
  BY <1>3, FS_Interval
<1>8. Cardinality(S) = n
  BY <1>6, <1>7, FS_Bijection DEF ExistsBijection
<1>9. QED
  BY <1>5, <1>8

(* The types at the start. *)
LEMMA InitTyped == Init => TypeOK
<1> SUFFICES ASSUME Init PROVE TypeOK
  OBVIOUS
<1>1. PICK s \in Scenarios :
       /\ version = (IF s.earlier THEN 1 ELSE 0)
       /\ table = s.earlier /\ trigger = (IF s.earlier THEN Triggers ELSE {})
       /\ users = (IF s.earlier THEN {"admin"} ELSE {})
       /\ product = (IF s.earlier THEN s.products ELSE [i \in Ids |-> "unused"])
       /\ index = Indexed
       /\ host = (IF s.workers = 0 THEN "desktop" ELSE "cluster")
       /\ slots = CHOOSE S \in SUBSET Procs : Cardinality(S) = s.workers
       /\ crashes = s.crashes /\ starts = s.starts /\ writes = s.writes
  BY DEF Init
<1>2. s \in ScenarioType
  BY LifeAssumption
<1>3. slots \subseteq Procs
  <2>1. s.workers \in 0..Cardinality(Procs)
    BY <1>2 DEF ScenarioType
  <2>2. PICK S \in SUBSET Procs : Cardinality(S) = s.workers
    BY <2>1, SlotsExist
  <2>3. QED
    BY <1>1, <2>2
<1>4. stage \in [Procs -> Stages] /\ fts \in [Procs -> BOOLEAN]
  BY DEF Init, Stages, Booting
<1>5. server \in Procs
  <2>1. \E p \in Procs : TRUE
    BY LifeAssumption
  <2>2. QED
    BY <2>1 DEF Init
<1>6. product \in [Ids -> Texts \cup {"unused", "gone"}]
  BY <1>1, <1>2 DEF ScenarioType
<1>7. s.earlier \in BOOLEAN /\ s.crashes \in Nat /\ s.starts \in Nat /\ s.writes \in Nat
  BY <1>2 DEF ScenarioType
<1>8. index \in [Ids -> Texts \cup {"none"}] /\ left \in 0..Retries /\ told \subseteq Procs
  BY <1>1, IndexedTyped, LifeAssumption DEF Init
<1>9. /\ table \in BOOLEAN /\ version \in 0..SCHEMA_VERSION /\ trigger \subseteq Triggers
      /\ users \subseteq {"admin"} /\ host \in {"cluster", "desktop"}
      /\ crashes \in Nat /\ starts \in Nat /\ writes \in Nat
  BY <1>1, <1>7 DEF SCHEMA_VERSION
<1>10. /\ lock \in {"none", "fresh", "old"} /\ {column, disturbed, failed} \subseteq BOOLEAN
       /\ parent \in {"up", "stopping", "gone", "waiting", "window"}
  BY DEF Init
<1>11. QED
  BY <1>3, <1>4, <1>5, <1>6, <1>8, <1>9, <1>10 DEF TypeOK

(* A step of the system. *)
LEMMA NextTyped == TypeOK /\ [Next]_vars => TypeOK'
<1> SUFFICES ASSUME TypeOK, [Next]_vars PROVE TypeOK'
  OBVIOUS
<1>1. ASSUME NEW p \in Procs, Proceed(p)
      PROVE  TypeOK'
  BY <1>1, BootTyped, StartTyped DEF Proceed
<1>2. ASSUME NEW p \in Procs, End(p) \/ Crash(p) \/ Serve(p)
      PROVE  TypeOK'
  BY <1>2, EndTyped, ServeTyped
<1>3. CASE UNCHANGED vars
  BY <1>3 DEF vars, bootVars, lifeVars, TypeOK
<1> QED
  BY <1>1, <1>2, <1>3, ParentTyped DEF Next

(* The variables have their types. *)
THEOREM TypesStay == Spec => []TypeOK
<1>1. QED
  BY InitTyped, NextTyped, PTL DEF Spec

----------------------------------------------------------------------------
(* One worker and its index. *)

(* With one worker, no other process does anything. *)
LEMMA OthersOff ==
  ASSUME TypeOK, IndexInv, Alone, NEW p \in Procs, stage[p] # "off"
  PROVE  \A q \in Procs : q # p => stage[q] = "off"
<1>1. IsFiniteSet(slots)
  BY LifeAssumption, FS_Subset DEF TypeOK
<1>2. PICK x : slots = {x}
  BY <1>1, FS_Singleton DEF Alone
<1>3. QED
  BY <1>2 DEF IndexInv, SlotsOnly, Alone

(* A process goes from one stage to another and leaves the index alone. *)
LEMMA Moves ==
  ASSUME TypeOK, IndexInv, NEW p \in Procs, NEW s \in Stages, Goto(p, s),
         host = "cluster" => stage[p] # "off",
         todo' \in [Procs -> Seq(Statements)],
         UNCHANGED <<version, table, index, trigger, product, host, slots>>,
         Alone => Sound(p)'
  PROVE  IndexInv'
<1>1. stage' = [stage EXCEPT ![p] = s] /\ stage \in [Procs -> Stages]
  BY DEF Goto, TypeOK
<1>2. SlotsOnly'
  BY <1>1 DEF IndexInv, SlotsOnly
<1>3. Alone' <=> Alone
  BY DEF Alone
<1>4. ASSUME Alone
      PROVE  (version = SCHEMA_VERSION => Whole)'
  BY <1>4 DEF IndexInv, Whole, Indexed
<1>5. ASSUME Alone, NEW q \in Procs, q # p, stage[p] # "off"
      PROVE  Sound(q)'
  <2>1. stage'[q] = "off"
    BY <1>1, <1>5, OthersOff
  <2>2. QED
    BY <2>1 DEF Sound
<1>6. Alone => stage[p] # "off"
  BY DEF Alone
<1>7. QED
  BY <1>2, <1>3, <1>4, <1>5, <1>6 DEF IndexInv

(* A process ends. *)
LEMMA Ends ==
  ASSUME TypeOK, IndexInv, NEW p \in Procs, Die(p), host = "cluster" => stage[p] # "off",
         UNCHANGED <<version, table, index, trigger, product, host, slots>>
  PROVE  IndexInv'
<1>1. todo' \in [Procs -> Seq(Statements)]
  BY DEF Die, IndexInv
<1>2. stage'[p] = "exited"
  BY DEF Die, Goto, TypeOK
<1>3. Sound(p)'
  BY <1>2 DEF Sound
<1>4. Goto(p, "exited") /\ "exited" \in Stages
  BY DEF Die, Stages
<1>5. QED
  BY <1>1, <1>3, <1>4, Moves

(* A process goes on before or after its script, with nothing else done. *)
LEMMA GoesOn ==
  ASSUME TypeOK, IndexInv, NEW p \in Procs, NEW s \in Stages, Goto(p, s), stage[p] # "off",
         UNCHANGED <<version, table, index, trigger, product, host, slots, todo, fts>>,
         s # "index", s \in {"admin", "hash", "listen", "serve", "closing"} =>
                        stage[p] \in {"admin", "hash", "listen", "serve", "closing"}
  PROVE  IndexInv'
<1>1. stage'[p] = s
  BY DEF Goto, TypeOK
<1>2. ASSUME Alone
      PROVE  Sound(p)'
  BY <1>1, <1>2 DEF IndexInv, Sound
<1>3. todo' \in [Procs -> Seq(Statements)]
  BY DEF IndexInv
<1>4. QED
  BY <1>2, <1>3, Moves

(* One of these. *)
LEMMA Untouched ==
  ASSUME IndexInv,
         UNCHANGED <<version, table, index, trigger, product, host, slots, stage, todo, fts>>
  PROVE  IndexInv'
BY DEF IndexInv, SlotsOnly, Alone, Whole, Indexed, Sound, Progress, RebuiltTo, EnsuredTo, TriggersTo

(* A statement of the script leaves the rest of the script, if it is alone *)
(* and knows what came before.                                             *)
LEMMA Advances ==
  ASSUME TypeOK, IndexInv, NEW p \in Procs, NEW s, Statement(p, s), ScriptOnly, UNCHANGED lifeVars,
         Succeed(p) \/ Fail(p),
         Alone => /\ UNCHANGED fts
                  /\ Progress(p)' /\ (version = SCHEMA_VERSION => Whole)'
  PROVE  IndexInv'
<1>1. stage[p] = "index" /\ todo[p] # <<>>
  BY DEF Statement
<1>2. UNCHANGED <<stage, product, host, slots>>
  BY DEF ScriptOnly, lifeVars
<1>3. todo' \in [Procs -> Seq(Statements)]
  <2>1. todo \in [Procs -> Seq(Statements)]
    BY DEF IndexInv
  <2>2. Tail(todo[p]) \in Seq(Statements) /\ <<>> \in Seq(Statements)
    BY <1>1, <2>1
  <2>3. QED
    BY <2>1, <2>2 DEF Succeed, Fail
<1>4. SlotsOnly' /\ (Alone' <=> Alone)
  BY <1>2 DEF IndexInv, SlotsOnly, Alone
<1>5. ASSUME Alone
      PROVE  Sound(p)'
  <2>1. stage'[p] = "index" /\ fts'[p]
    BY <1>1, <1>2, <1>5 DEF IndexInv, Sound
  <2>2. QED
    BY <1>5, <2>1 DEF Sound
<1>6. ASSUME Alone, NEW q \in Procs, q # p
      PROVE  Sound(q)'
  <2>1. stage'[q] = "off"
    BY <1>1, <1>2, <1>6, OthersOff
  <2>2. QED
    BY <2>1 DEF Sound
<1>7. QED
  BY <1>3, <1>4, <1>5, <1>6 DEF IndexInv

(* Where the process is.                                                   *)
LEMMA Place ==
  ASSUME TypeOK, IndexInv, Alone, NEW p \in Procs, NEW s, Statement(p, s)
  PROVE  \/ \E k \in 1..10 : /\ Rebuild[k] = s /\ RebuiltTo(k)
                            /\ Tail(todo[p]) = Rest(Rebuild, k + 1)
         \/ \E k \in 1..7 : /\ Ensure[k] = s /\ EnsuredTo(k)
                           /\ Tail(todo[p]) = Rest(Ensure, k + 1)
<1>1. Progress(p)
  BY DEF IndexInv, Sound, Statement
<1>2. Len(Rebuild) = 10 /\ Len(Ensure) = 7
  BY RebuildIs, EnsureIs, Zenon
<1>3. ASSUME NEW k \in 1..11, todo[p] = Rest(Rebuild, k), RebuiltTo(k)
      PROVE  k \in 1..10 /\ Rebuild[k] = s /\ Tail(todo[p]) = Rest(Rebuild, k + 1)
  <2>1. k \in 1..(Len(Rebuild) + 1)
    BY <1>2
  <2>2. k \in 1..Len(Rebuild) /\ Rebuild[k] = s /\ Tail(todo[p]) = Rest(Rebuild, k + 1)
    BY <1>3, <2>1, NextStatement
  <2>3. QED
    BY <1>2, <2>2
<1>4. ASSUME NEW k \in 1..8, todo[p] = Rest(Ensure, k), EnsuredTo(k)
      PROVE  k \in 1..7 /\ Ensure[k] = s /\ Tail(todo[p]) = Rest(Ensure, k + 1)
  <2>1. k \in 1..(Len(Ensure) + 1)
    BY <1>2
  <2>2. k \in 1..Len(Ensure) /\ Ensure[k] = s /\ Tail(todo[p]) = Rest(Ensure, k + 1)
    BY <1>4, <2>1, NextStatement
  <2>3. QED
    BY <1>2, <2>2
<1>5. QED
  BY <1>1, <1>3, <1>4 DEF Progress

(* Further by one in either script.                                        *)
LEMMA Further ==
  ASSUME IndexInv, NEW p \in Procs, Succeed(p)
  PROVE  /\ \A k \in 1..10 : Tail(todo[p]) = Rest(Rebuild, k + 1) /\ RebuiltTo(k + 1)' => Progress(p)'
         /\ \A k \in 1..7 : Tail(todo[p]) = Rest(Ensure, k + 1) /\ EnsuredTo(k + 1)' => Progress(p)'
<1>1. todo'[p] = Tail(todo[p]) /\ UNCHANGED fts
  BY DEF IndexInv, Succeed
<1>2. ASSUME NEW k \in 1..10, Tail(todo[p]) = Rest(Rebuild, k + 1), RebuiltTo(k + 1)'
      PROVE  Progress(p)'
  <2>1. \A n : n = k + 1 => n \in 1..11 /\ todo'[p] = Rest(Rebuild, n) /\ RebuiltTo(n)'
    BY <1>1, <1>2
  <2>2. QED
    BY <2>1 DEF Progress, Rest, Rebuild
<1>3. ASSUME NEW k \in 1..7, Tail(todo[p]) = Rest(Ensure, k + 1), EnsuredTo(k + 1)'
      PROVE  Progress(p)'
  <2>1. \A n : n = k + 1 => n \in 1..8 /\ todo'[p] = Rest(Ensure, n) /\ EnsuredTo(n)'
    BY <1>1, <1>3
  <2>2. QED
    BY <2>1 DEF Progress, Rest, Ensure
<1>4. QED
  BY <1>2, <1>3

(* The statements one by one. *)
LEMMA DropTableSound ==
  ASSUME TypeOK, IndexInv, NEW p \in Procs, DropTable(p), UNCHANGED lifeVars
  PROVE  IndexInv'
<1>1. Statement(p, <<"dropTable">>) /\ Succeed(p) /\ ScriptOnly
  BY DEF DropTable
<1>2. ASSUME Alone
      PROVE  Progress(p)' /\ (version = SCHEMA_VERSION => Whole)'
  <2>1. Tail(todo[p]) = Rest(Rebuild, 2) /\ version < SCHEMA_VERSION
    BY <1>1, <1>2, Place, PlaceInRebuild, PlaceInEnsure DEF RebuiltTo
  <2>2. RebuiltTo(1 + 1)'
    BY <2>1 DEF DropTable, RebuiltTo, TriggersTo
  <2>3. Progress(p)'
    BY <1>1, <2>1, <2>2, Further
  <2>4. QED
    BY <2>1, <2>3 DEF DropTable, SCHEMA_VERSION
<1>3. QED
  BY <1>1, <1>2, Advances DEF Succeed

(* The table is never there when it is created: nothing fails.             *)
LEMMA CreateTableSound ==
  ASSUME TypeOK, IndexInv, NEW p \in Procs, CreateTable(p), UNCHANGED lifeVars
  PROVE  IndexInv'
<1>1. Statement(p, <<"createTable">>) /\ (Succeed(p) \/ Fail(p)) /\ ScriptOnly
  BY DEF CreateTable
<1>2. ASSUME Alone
      PROVE  Progress(p)' /\ (version = SCHEMA_VERSION => Whole)' /\ UNCHANGED fts
  <2>1. Tail(todo[p]) = Rest(Rebuild, 2 + 1) /\ RebuiltTo(2)
    BY <1>1, <1>2, Place, PlaceInRebuild, PlaceInEnsure
  <2>2. version < SCHEMA_VERSION /\ ~table /\ index = Empty
    BY <2>1 DEF RebuiltTo
  <2>3. RebuiltTo(2 + 1)' /\ Succeed(p)
    BY <2>2 DEF CreateTable, RebuiltTo, TriggersTo, Empty
  <2>4. Progress(p)'
    BY <2>1, <2>3, Further
  <2>5. QED
    BY <2>2, <2>3, <2>4 DEF CreateTable, SCHEMA_VERSION, Succeed
<1>3. QED
  BY <1>1, <1>2, Advances

(* Over a database of this version, the table is kept as it is.            *)
LEMMA EnsureTableSound ==
  ASSUME TypeOK, IndexInv, NEW p \in Procs, EnsureTable(p), UNCHANGED lifeVars
  PROVE  IndexInv'
<1>1. Statement(p, <<"ensureTable">>) /\ Succeed(p) /\ ScriptOnly
  BY DEF EnsureTable
<1>2. ASSUME Alone
      PROVE  Progress(p)' /\ (version = SCHEMA_VERSION => Whole)'
  <2>1. Tail(todo[p]) = Rest(Ensure, 1 + 1) /\ EnsuredTo(1)
    BY <1>1, <1>2, Place, PlaceInRebuild, PlaceInEnsure
  <2>2. version = SCHEMA_VERSION /\ Whole
    BY <1>2, <2>1 DEF EnsuredTo, IndexInv
  <2>3. EnsuredTo(1 + 1)'
    BY <2>2 DEF EnsureTable, EnsuredTo, TriggersTo
  <2>4. Progress(p)'
    BY <1>1, <2>1, <2>3, Further
  <2>5. Whole'
    BY <2>2 DEF EnsureTable, ScriptOnly, Whole, Indexed
  <2>6. QED
    BY <2>4, <2>5
<1>3. QED
  BY <1>1, <1>2, Advances DEF Succeed

(* The index is filled from empty, with nobody writing products meanwhile. *)
LEMMA FillSound ==
  ASSUME TypeOK, IndexInv, NEW p \in Procs, Fill(p), UNCHANGED lifeVars
  PROVE  IndexInv'
<1>1. Statement(p, <<"fill">>) /\ (Succeed(p) \/ Fail(p)) /\ ScriptOnly
  BY DEF Fill
<1>2. ASSUME Alone
      PROVE  Progress(p)' /\ (version = SCHEMA_VERSION => Whole)' /\ UNCHANGED fts
  <2>1. Tail(todo[p]) = Rest(Rebuild, 9 + 1) /\ RebuiltTo(9)
    BY <1>1, <1>2, Place, PlaceInRebuild, PlaceInEnsure
  <2>2. version < SCHEMA_VERSION /\ table /\ index = Empty /\ TriggersTo(7)
    BY <2>1 DEF RebuiltTo
  <2>3. \A i \in Ids : index[i] = "none"
    BY <2>2 DEF Empty
  <2>4. Succeed(p) /\ index' = [i \in Ids |-> IF Indexed[i] = "none" THEN index[i] ELSE Indexed[i]]
    BY <2>2, <2>3 DEF Fill
  <2>5. index' = Indexed
    BY <2>3, <2>4 DEF Indexed
  <2>6. UNCHANGED <<product, version, table, trigger>>
    BY DEF Fill, ScriptOnly
  <2>7. index' = Indexed'
    BY <2>5, <2>6 DEF Indexed
  <2>8. RebuiltTo(9 + 1)'
    BY <2>2, <2>6, <2>7 DEF RebuiltTo, TriggersTo
  <2>9. Progress(p)'
    BY <2>1, <2>4, <2>8, Further
  <2>10. QED
    BY <2>2, <2>4, <2>6, <2>9 DEF SCHEMA_VERSION, Succeed
<1>3. QED
  BY <1>1, <1>2, Advances

(* The version is written once the index is filled.                        *)
LEMMA MarkSound ==
  ASSUME TypeOK, IndexInv, NEW p \in Procs, MarkVersion(p), UNCHANGED lifeVars
  PROVE  IndexInv'
<1>1. Statement(p, <<"mark">>) /\ Succeed(p) /\ ScriptOnly
  BY DEF MarkVersion
<1>2. ASSUME Alone
      PROVE  Progress(p)' /\ (version = SCHEMA_VERSION => Whole)'
  <2>1. Tail(todo[p]) = Rest(Rebuild, 10 + 1) /\ RebuiltTo(10)
    BY <1>1, <1>2, Place, PlaceInRebuild, PlaceInEnsure
  <2>2. table /\ index = Indexed /\ TriggersTo(8)
    BY <2>1 DEF RebuiltTo
  <2>3. Whole'
    BY <2>2 DEF MarkVersion, ScriptOnly, Whole, Indexed
  <2>4. RebuiltTo(10 + 1)'
    BY <2>2, <2>3 DEF MarkVersion, RebuiltTo, TriggersTo, Whole
  <2>5. Progress(p)'
    BY <1>1, <2>1, <2>4, Further
  <2>6. QED
    BY <2>3, <2>5
<1>3. QED
  BY <1>1, <1>2, Advances DEF Succeed

(* A trigger dropped or created, at its place.                             *)
LEMMA TriggerTurns ==
  ASSUME NEW t \in Triggers, NEW j \in 1..6, TriggersTo(j), trigger \subseteq Triggers
  PROVE  /\ AtTrigger(t, j, 1) /\ trigger' = trigger \ {t} => TriggersTo(j + 1)'
         /\ AtTrigger(t, j, 2) => t \notin trigger
         /\ AtTrigger(t, j, 2) /\ trigger' = trigger \cup {t} => TriggersTo(j + 1)'
<1>1. CASE t = "ai"
  BY <1>1 DEF TriggersTo, AtTrigger
<1>2. CASE t = "ad"
  BY <1>2 DEF TriggersTo, AtTrigger
<1>3. CASE t = "au"
  BY <1>3 DEF TriggersTo, AtTrigger
<1>4. QED
  BY <1>1, <1>2, <1>3 DEF Triggers

(* The place of a trigger's statement, in either script.                   *)
LEMMA TriggerPlace ==
  ASSUME TypeOK, IndexInv, Alone, NEW p \in Procs, NEW t \in Triggers, NEW n \in {1, 2},
         Statement(p, IF n = 1 THEN <<"drop", t>> ELSE <<"create", t>>)
  PROVE  \E j \in 1..6 :
           /\ AtTrigger(t, j, n) /\ TriggersTo(j)
           /\ \/ Tail(todo[p]) = Rest(Rebuild, (j + 2) + 1) /\ RebuiltTo(j + 2)
              \/ Tail(todo[p]) = Rest(Ensure, (j + 1) + 1) /\ EnsuredTo(j + 1)
<1> DEFINE s == IF n = 1 THEN <<"drop", t>> ELSE <<"create", t>>
<1>1. \/ \E k \in 1..10 : /\ Rebuild[k] = s /\ RebuiltTo(k)
                          /\ Tail(todo[p]) = Rest(Rebuild, k + 1)
      \/ \E k \in 1..7 : /\ Ensure[k] = s /\ EnsuredTo(k)
                         /\ Tail(todo[p]) = Rest(Ensure, k + 1)
  <2>1. Statement(p, s)
    OBVIOUS
  <2> HIDE DEF s
  <2>2. QED
    BY <2>1, Place
<1>2. ASSUME NEW k \in 1..10, Rebuild[k] = s, RebuiltTo(k), Tail(todo[p]) = Rest(Rebuild, k + 1)
      PROVE  \E j \in 1..6 :
               /\ AtTrigger(t, j, n) /\ TriggersTo(j)
               /\ Tail(todo[p]) = Rest(Rebuild, (j + 2) + 1) /\ RebuiltTo(j + 2)
  <2>1. AtTrigger(t, k, n + 2)
    BY <1>2, PlaceInRebuild
  <2>2. \A j : j = k - 2 => j \in 1..6 /\ AtTrigger(t, j, n) /\ j + 2 = k
    BY <2>1 DEF AtTrigger
  <2>3. TriggersTo(k - 2)
    BY <1>2 DEF RebuiltTo
  <2>4. QED
    BY <1>2, <2>2, <2>3
<1>3. ASSUME NEW k \in 1..7, Ensure[k] = s, EnsuredTo(k), Tail(todo[p]) = Rest(Ensure, k + 1)
      PROVE  \E j \in 1..6 :
               /\ AtTrigger(t, j, n) /\ TriggersTo(j)
               /\ Tail(todo[p]) = Rest(Ensure, (j + 1) + 1) /\ EnsuredTo(j + 1)
  <2>1. AtTrigger(t, k, n + 1)
    BY <1>3, PlaceInEnsure
  <2>2. \A j : j = k - 1 => j \in 1..6 /\ AtTrigger(t, j, n) /\ j + 1 = k
    BY <2>1 DEF AtTrigger
  <2>3. TriggersTo(k - 1)
    BY <1>3 DEF EnsuredTo
  <2>4. QED
    BY <1>3, <2>2, <2>3
<1>4. QED
  BY <1>1, <1>2, <1>3

(* What follows from it in either script.                                  *)
LEMMA TriggerAdvances ==
  ASSUME TypeOK, IndexInv, Alone, NEW p \in Procs, NEW j \in 1..6, Succeed(p), TriggersTo(j + 1)',
         UNCHANGED <<version, table, index, product>>,
         \/ Tail(todo[p]) = Rest(Rebuild, (j + 2) + 1) /\ RebuiltTo(j + 2)
         \/ Tail(todo[p]) = Rest(Ensure, (j + 1) + 1) /\ EnsuredTo(j + 1)
  PROVE  Progress(p)' /\ (version = SCHEMA_VERSION => Whole)'
<1>1. (version = SCHEMA_VERSION => Whole)'
  BY DEF IndexInv, Whole, Indexed
<1>2. ASSUME Tail(todo[p]) = Rest(Rebuild, (j + 2) + 1), RebuiltTo(j + 2)
      PROVE  Progress(p)'
  <2>1. version < SCHEMA_VERSION /\ table /\ (j + 3 <= 9 => index = Empty)
    BY <1>2 DEF RebuiltTo
  <2>2. /\ version' < SCHEMA_VERSION /\ table' /\ (j + 3 <= 9 => index' = Empty')
    BY <2>1 DEF Empty
  <2>3. (j + 3) \in 4..9 /\ (j + 3) - 2 = j + 1 /\ (j + 2) + 1 = j + 3
    OBVIOUS
  <2>4. \A n : n = j + 3 => RebuiltTo(n)'
    BY <2>2, <2>3 DEF RebuiltTo
  <2>5. \A k \in 1..10 : k = j + 2 => Tail(todo[p]) = Rest(Rebuild, k + 1) /\ RebuiltTo(k + 1)'
    BY <1>2, <2>4
  <2>6. QED
    BY <2>5, Further
<1>3. ASSUME Tail(todo[p]) = Rest(Ensure, (j + 1) + 1), EnsuredTo(j + 1)
      PROVE  Progress(p)'
  <2>1. version' = SCHEMA_VERSION
    BY <1>3 DEF EnsuredTo
  <2>2. \A n : n = (j + 1) + 1 => EnsuredTo(n)'
    BY <2>1 DEF EnsuredTo
  <2>3. \A k \in 1..7 : k = j + 1 => Tail(todo[p]) = Rest(Ensure, k + 1) /\ EnsuredTo(k + 1)'
    BY <1>3, <2>2
  <2>4. QED
    BY <2>3, Further
<1>4. QED
  BY <1>1, <1>2, <1>3

(* A trigger is dropped.                                                   *)
LEMMA DropTriggerSound ==
  ASSUME TypeOK, IndexInv, NEW p \in Procs, NEW t \in Triggers, DropTrigger(p, t), UNCHANGED lifeVars
  PROVE  IndexInv'
<1>1. /\ Statement(p, <<"drop", t>>) /\ Succeed(p) /\ ScriptOnly
      /\ UNCHANGED <<version, table, index, product>> /\ trigger' = trigger \ {t}
  BY DEF DropTrigger, ScriptOnly
<1>2. ASSUME Alone
      PROVE  Progress(p)' /\ (version = SCHEMA_VERSION => Whole)'
  <2>1. PICK j \in 1..6 :
           /\ AtTrigger(t, j, 1) /\ TriggersTo(j)
           /\ \/ Tail(todo[p]) = Rest(Rebuild, (j + 2) + 1) /\ RebuiltTo(j + 2)
              \/ Tail(todo[p]) = Rest(Ensure, (j + 1) + 1) /\ EnsuredTo(j + 1)
    <3>1. Statement(p, IF 1 = 1 THEN <<"drop", t>> ELSE <<"create", t>>) /\ 1 \in {1, 2}
      BY <1>1
    <3>2. QED
      BY <1>2, <3>1, TriggerPlace
  <2>2. TriggersTo(j + 1)'
    BY <1>1, <2>1, TriggerTurns DEF TypeOK
  <2>3. QED
    BY <1>1, <1>2, <2>1, <2>2, TriggerAdvances
<1>3. QED
  BY <1>1, <1>2, Advances DEF Succeed

(* It is created again; it is not there.                                   *)
LEMMA CreateTriggerSound ==
  ASSUME TypeOK, IndexInv, NEW p \in Procs, NEW t \in Triggers, CreateTrigger(p, t), UNCHANGED lifeVars
  PROVE  IndexInv'
<1>1. /\ Statement(p, <<"create", t>>) /\ (Succeed(p) \/ Fail(p)) /\ ScriptOnly
      /\ UNCHANGED <<version, table, index, product>> /\ trigger' = trigger \cup {t}
  BY DEF CreateTrigger, ScriptOnly
<1>2. ASSUME Alone
      PROVE  Progress(p)' /\ (version = SCHEMA_VERSION => Whole)' /\ UNCHANGED fts
  <2>1. PICK j \in 1..6 :
           /\ AtTrigger(t, j, 2) /\ TriggersTo(j)
           /\ \/ Tail(todo[p]) = Rest(Rebuild, (j + 2) + 1) /\ RebuiltTo(j + 2)
              \/ Tail(todo[p]) = Rest(Ensure, (j + 1) + 1) /\ EnsuredTo(j + 1)
    <3>1. Statement(p, IF 2 = 1 THEN <<"drop", t>> ELSE <<"create", t>>) /\ 2 \in {1, 2}
      BY <1>1
    <3>2. QED
      BY <1>2, <3>1, TriggerPlace
  <2>2. TriggersTo(j + 1)' /\ t \notin trigger
    BY <1>1, <2>1, TriggerTurns DEF TypeOK
  <2>3. Succeed(p)
    BY <2>2 DEF CreateTrigger
  <2>4. QED
    BY <1>1, <1>2, <2>1, <2>2, <2>3, TriggerAdvances DEF Succeed
<1>3. QED
  BY <1>1, <1>2, Advances

(* The script is chosen.                                                   *)
LEMMA ReadVersionSound ==
  ASSUME TypeOK, IndexInv, NEW p \in Procs, ReadVersion(p), UNCHANGED lifeVars
  PROVE  IndexInv'
<1>1. /\ stage[p] = "schema" /\ Goto(p, "index")
      /\ UNCHANGED <<version, table, index, trigger, product, host, slots>>
      /\ todo' = [todo EXCEPT ![p] = IF version < SCHEMA_VERSION THEN Rebuild ELSE Ensure]
      /\ fts' = [fts EXCEPT ![p] = TRUE]
  BY DEF ReadVersion, schema, lifeVars
<1>2. Rebuild \in Seq(Statements) /\ Len(Rebuild) = 10 /\ Ensure \in Seq(Statements) /\ Len(Ensure) = 7
  BY RebuildIs, EnsureIs, Zenon
<1>3. /\ todo' \in [Procs -> Seq(Statements)] /\ fts'[p]
      /\ todo'[p] = IF version < SCHEMA_VERSION THEN Rebuild ELSE Ensure
  BY <1>1, <1>2 DEF IndexInv, TypeOK
<1>4. Rest(Rebuild, 1) = Rebuild /\ Rest(Ensure, 1) = Ensure
  <2> DEFINE a == Rebuild
             b == Ensure
  <2>1. a \in Seq(Statements) /\ b \in Seq(Statements)
    BY <1>2
  <2> HIDE DEF a, b
  <2>2. SubSeq(a, 1, Len(a)) = a /\ SubSeq(b, 1, Len(b)) = b
    BY <2>1, SubSeqFull
  <2>3. QED
    BY <2>2 DEF Rest, a, b
<1>5. Progress(p)'
  <2>1. CASE version < SCHEMA_VERSION
    <3>1. RebuiltTo(1)' /\ todo'[p] = Rest(Rebuild, 1)
      BY <1>1, <1>3, <1>4, <2>1 DEF RebuiltTo, TriggersTo
    <3>2. 1 \in 1..11
      OBVIOUS
    <3>3. QED
      BY <3>1, <3>2 DEF Progress, Rest, Rebuild
  <2>2. CASE ~(version < SCHEMA_VERSION)
    <3>1. version = SCHEMA_VERSION
      BY <2>2 DEF TypeOK, SCHEMA_VERSION
    <3>2. EnsuredTo(1)' /\ todo'[p] = Rest(Ensure, 1)
      BY <1>1, <1>3, <1>4, <2>2, <3>1 DEF EnsuredTo, TriggersTo
    <3>3. 1 \in 1..8
      OBVIOUS
    <3>4. QED
      BY <3>2, <3>3 DEF Progress, Rest, Ensure
  <2>3. QED
    BY <2>1, <2>2
<1>6. stage'[p] = "index"
  BY <1>1 DEF Goto, TypeOK
<1>7. Sound(p)'
  BY <1>3, <1>5, <1>6 DEF Sound
<1>8. "index" \in Stages
  BY DEF Stages, Booting, Building
<1>9. QED
  BY <1>1, <1>3, <1>7, <1>8, Moves

(* The script is done: the version is written, the triggers are there.     *)
LEMMA ReleaseSound ==
  ASSUME TypeOK, IndexInv, NEW p \in Procs, ReleaseLock(p), UNCHANGED lifeVars
  PROVE  IndexInv'
<1>1. /\ stage[p] = "index" /\ todo[p] = <<>> /\ Goto(p, "admin")
      /\ UNCHANGED <<version, table, index, trigger, product, host, slots, todo, fts>>
  BY DEF ReleaseLock, schema, lifeVars
<1>2. Rebuild \in Seq(Statements) /\ Len(Rebuild) = 10 /\ Ensure \in Seq(Statements) /\ Len(Ensure) = 7
  BY RebuildIs, EnsureIs, Zenon
<1>3. /\ \A k \in 1..11 : Rest(Rebuild, k) = <<>> => k = 11
      /\ \A k \in 1..8 : Rest(Ensure, k) = <<>> => k = 8
  <2> DEFINE a == Rebuild
             b == Ensure
  <2>1. a \in Seq(Statements) /\ b \in Seq(Statements) /\ Len(a) = 10 /\ Len(b) = 7
    BY <1>2
  <2> HIDE DEF a, b
  <2>2. ASSUME NEW k \in 1..10 PROVE Len(SubSeq(a, k, 10)) # 0
    BY <2>1
  <2>3. ASSUME NEW k \in 1..7 PROVE Len(SubSeq(b, k, 7)) # 0
    BY <2>1
  <2>4. Len(<<>>) = 0
    OBVIOUS
  <2>5. ASSUME NEW k \in 1..11, Rest(a, k) = <<>>
        PROVE  k = 11
    <3>1. SubSeq(a, k, 10) = <<>>
      BY <2>1, <2>5 DEF Rest
    <3>2. Len(SubSeq(a, k, 10)) = 0
      BY <2>4, <3>1, Zenon
    <3>3. k \notin 1..10
      BY <2>2, <3>2, Zenon
    <3>4. QED
      BY <3>3
  <2>6. ASSUME NEW k \in 1..8, Rest(b, k) = <<>>
        PROVE  k = 8
    <3>1. SubSeq(b, k, 7) = <<>>
      BY <2>1, <2>6 DEF Rest
    <3>2. Len(SubSeq(b, k, 7)) = 0
      BY <2>4, <3>1, Zenon
    <3>3. k \notin 1..7
      BY <2>3, <3>2, Zenon
    <3>4. QED
      BY <3>3
  <2>7. QED
    BY <2>5, <2>6 DEF a, b
<1>4. ASSUME Alone
      PROVE  fts[p] /\ version = SCHEMA_VERSION /\ trigger = Triggers
  <2>1. fts[p] /\ Progress(p)
    BY <1>1, <1>4 DEF IndexInv, Sound
  <2>2. RebuiltTo(11) \/ EnsuredTo(8)
    BY <1>1, <1>3, <2>1 DEF Progress
  <2>3. version = SCHEMA_VERSION /\ Triggers \subseteq trigger
    BY <2>2 DEF RebuiltTo, EnsuredTo, TriggersTo, Triggers
  <2>4. QED
    BY <2>1, <2>3 DEF TypeOK
<1>5. stage'[p] = "admin" /\ "admin" \in Stages
  BY <1>1 DEF Goto, TypeOK, Stages, Booting
<1>6. Alone => Sound(p)'
  BY <1>1, <1>4, <1>5 DEF Sound
<1>7. todo' \in [Procs -> Seq(Statements)]
  BY <1>1 DEF IndexInv
<1>8. QED
  BY <1>1, <1>5, <1>6, <1>7, Moves

(* A step of the boot. *)
LEMMA BootSound ==
  ASSUME TypeOK, IndexInv, NEW p \in Procs, BootStep(p), UNCHANGED lifeVars
  PROVE  IndexInv'
<1> USE DEF files, schema, lifeVars, Stages, Booting, Building
<1>1. CASE TryLock(p)
  <2>1. PICK s \in {"look", "break"} : Goto(p, s)
    BY <1>1 DEF TryLock
  <2>2. QED
    BY <1>1, <2>1, GoesOn DEF TryLock
<1>2. CASE BreakLock(p)
  <2>1. PICK s \in {"lock", "look"} : Goto(p, s)
    BY <1>2 DEF BreakLock
  <2>2. QED
    BY <1>2, <2>1, GoesOn DEF BreakLock
<1>3. CASE LookForColumn(p)
  <2>1. PICK s \in {"schema", "alter"} : Goto(p, s)
    BY <1>3 DEF LookForColumn
  <2>2. QED
    BY <1>3, <2>1, GoesOn DEF LookForColumn
<1>4. CASE AlterTable(p)
  <2>1. CASE column
    BY <1>4, <2>1, Ends DEF AlterTable
  <2>2. CASE ~column
    BY <1>4, <2>2, GoesOn DEF AlterTable
  <2>3. QED
    BY <2>1, <2>2
<1>5. CASE \E t \in Triggers : DropTrigger(p, t) \/ CreateTrigger(p, t)
  BY <1>5, DropTriggerSound, CreateTriggerSound
<1>6. QED
  BY <1>1, <1>2, <1>3, <1>4, <1>5, ReadVersionSound, ReleaseSound, DropTableSound, CreateTableSound,
     EnsureTableSound, FillSound, MarkSound DEF BootStep

(* The rest of a start. *)
LEMMA StartSound ==
  ASSUME TypeOK, IndexInv, NEW p \in Procs, CountUsers(p) \/ CreateAdmin(p) \/ Listen(p)
  PROVE  IndexInv'
<1> USE DEF files, rows, schema, process, lifeVars, Stages, Booting, Building
<1>1. CASE CountUsers(p)
  <2>1. PICK s \in {"hash", "listen"} : Goto(p, s)
    BY <1>1 DEF CountUsers
  <2>2. QED
    BY <1>1, <2>1, GoesOn DEF CountUsers
<1>2. CASE CreateAdmin(p)
  BY <1>2, GoesOn DEF CreateAdmin
<1>3. CASE Listen(p)
  <2>1. CASE host = "desktop" /\ \E q \in Procs : stage[q] = "serve"
    BY <1>3, <2>1, Ends DEF Listen
  <2>2. CASE ~(host = "desktop" /\ \E q \in Procs : stage[q] = "serve")
    BY <1>3, <2>2, GoesOn DEF Listen
  <2>3. QED
    BY <2>1, <2>2
<1>4. QED
  BY <1>1, <1>2, <1>3

(* The ends, and the starts that follow. *)
LEMMA EndSound ==
  ASSUME TypeOK, IndexInv, NEW p \in Procs, End(p) \/ Crash(p) \/ OpenApp(p) \/ Patience(p)
  PROVE  IndexInv'
<1> USE DEF files, rows, schema, process, lifeVars
<1>1. CASE Terminate(p)
  <2>1. stage[p] # "off" /\ UNCHANGED <<version, table, index, trigger, product, host, slots>>
    BY <1>1 DEF Terminate, Running
  <2>2. CASE stage[p] \in {"serve", "closing"}
    BY <1>1, <2>1, <2>2, GoesOn DEF Terminate, Stages, Booting
  <2>3. CASE stage[p] \notin {"serve", "closing"}
    BY <1>1, <2>1, <2>3, Ends DEF Terminate
  <2>4. QED
    BY <2>2, <2>3
<1>2. CASE ForceExit(p)
  BY <1>2, Ends DEF ForceExit, Close
<1>3. CASE Orphan(p)
  BY <1>3, Ends DEF Orphan
<1>4. CASE WorkerExited(p)
  <2>1. PICK s \in {"lock", "off"} : Goto(p, s)
    BY <1>4 DEF WorkerExited, Start
  <2>2. QED
    BY <1>4, <2>1, GoesOn DEF WorkerExited, Stages, Booting
<1>5. CASE ServerExited(p)
  BY <1>5, GoesOn DEF ServerExited, Stages, Booting
<1>6. CASE Crash(p)
  <2>1. stage[p] # "off" /\ Die(p) /\ UNCHANGED <<version, table, index, trigger, product, host, slots>>
    BY <1>6 DEF Crash, Running
  <2>2. QED
    BY <2>1, Ends
<1>7. CASE OpenApp(p)
  <2>1. /\ Goto(p, "lock") /\ host = "desktop" /\ "lock" \in Stages
        /\ UNCHANGED <<version, table, index, trigger, product, host, slots, todo, fts>>
    BY <1>7 DEF OpenApp, Start, Stages, Booting
  <2>2. ~Alone /\ todo' \in [Procs -> Seq(Statements)]
    BY <2>1 DEF Alone, IndexInv
  <2>3. QED
    BY <2>1, <2>2, Moves
<1>8. CASE Patience(p)
  BY <1>8, GoesOn DEF Patience, GiveUpWaiting, Stages, Booting, Building
<1>9. QED
  BY <1>1, <1>2, <1>3, <1>4, <1>5, <1>6, <1>7, <1>8 DEF End

(* Requests: the triggers of the process that serves keep the index.       *)
LEMMA ServeSound ==
  ASSUME TypeOK, IndexInv, NEW p \in Procs, Serve(p)
  PROVE  IndexInv'
<1> USE DEF lifeVars
<1>1. PICK i \in Ids : \/ DeleteProduct(p, i)
                       \/ \E name \in Texts : InsertProduct(p, i, name) \/ UpdateProduct(p, i, name)
  BY DEF Serve
<1>2. /\ stage[p] \in {"serve", "closing"}
      /\ UNCHANGED <<version, table, trigger, stage, todo, fts, host, slots>>
  BY <1>1 DEF Serve, DeleteProduct, InsertProduct, UpdateProduct, Write
<1>3. product \in [Ids -> Texts \cup {"unused", "gone"}]
  BY DEF TypeOK
<1>4. ASSUME Alone
      PROVE  Whole'
  <2>1. version = SCHEMA_VERSION /\ trigger = Triggers /\ table /\ index = Indexed
    BY <1>2, <1>4 DEF IndexInv, Sound, Whole
  <2>2. CASE DeleteProduct(p, i)
    <3>1. product' = [product EXCEPT ![i] = "gone"] /\ index' = [index EXCEPT ![i] = "none"]
      BY <2>1, <2>2 DEF DeleteProduct, Triggers, Put
    <3>2. "gone" \notin Texts
      BY BootAssumption
    <3>3. QED
      BY <1>2, <1>3, <2>1, <3>1, <3>2 DEF Whole, Indexed
  <2>3. ASSUME NEW name \in Texts, InsertProduct(p, i, name) \/ UpdateProduct(p, i, name)
        PROVE  Whole'
    <3>1. product' = [product EXCEPT ![i] = name] /\ index' = [index EXCEPT ![i] = name]
      BY <2>1, <2>3 DEF InsertProduct, UpdateProduct, Triggers, Put
    <3>2. QED
      BY <1>2, <1>3, <2>1, <3>1 DEF Whole, Indexed
  <2>4. QED
    BY <1>1, <2>2, <2>3
<1>5. ASSUME Alone, NEW q \in Procs
      PROVE  Sound(q)'
  <2>1. CASE q = p
    BY <1>2, <1>5, <2>1 DEF IndexInv, Sound
  <2>2. CASE q # p
    <3>1. stage[q] = "off"
      BY <1>2, <1>5, <2>2, OthersOff
    <3>2. QED
      BY <1>2, <3>1 DEF Sound
  <2>3. QED
    BY <2>1, <2>2
<1>6. SlotsOnly' /\ (Alone' <=> Alone) /\ todo' \in [Procs -> Seq(Statements)]
  BY <1>2 DEF IndexInv, SlotsOnly, Alone
<1>7. QED
  BY <1>4, <1>5, <1>6 DEF IndexInv

(* At the start. *)
LEMMA InitSound == Init => IndexInv
<1> SUFFICES ASSUME Init PROVE IndexInv
  OBVIOUS
<1>1. todo \in [Procs -> Seq(Statements)]
  BY DEF Init
<1>2. \A p \in Procs : stage[p] = (IF p \in slots THEN "lock" ELSE "off")
  BY DEF Init
<1>3. index = Indexed /\ version # SCHEMA_VERSION
  BY DEF Init, SCHEMA_VERSION
<1>4. QED
  BY <1>1, <1>2, <1>3 DEF IndexInv, SlotsOnly, Sound

(* A step of the system. *)
LEMMA NextSound == TypeOK /\ IndexInv /\ [Next]_vars => IndexInv'
<1> SUFFICES ASSUME TypeOK, IndexInv, [Next]_vars PROVE IndexInv'
  OBVIOUS
<1>1. ASSUME NEW p \in Procs, Proceed(p) \/ End(p) \/ Serve(p) \/ Crash(p) \/ OpenApp(p) \/ Patience(p)
      PROVE  IndexInv'
  BY <1>1, BootSound, StartSound, EndSound, ServeSound DEF Proceed
<1>2. CASE Clock \/ Stop \/ PrimaryEnds \/ AskHealth \/ QuitApp \/ UNCHANGED vars
  <2>1. UNCHANGED <<version, table, index, trigger, product, host, slots, stage, todo, fts>>
    BY <1>2 DEF Clock, LockAges, Stop, PrimaryEnds, AskHealth, QuitApp, vars, bootVars, lifeVars, schema
  <2>2. QED
    BY <2>1, Untouched
<1>3. QED
  BY <1>1, <1>2 DEF Next

(* Whoever serves alone has what the invariant says. *)
LEMMA IndexInvImplies == IndexInv => IndexComplete
BY DEF IndexInv, IndexComplete, Alone, Sound, Whole

(* With one worker the full-text index holds exactly the products whenever *)
(* the worker serves, whatever statement of its script an earlier one died *)
(* at: openDb marks the version after the index is filled, and every       *)
(* trigger is there from then on (server/lib/db.js).                       *)
THEOREM IndexStaysComplete == Spec => []IndexComplete
<1>1. TypeOK /\ IndexInv /\ [Next]_vars => (TypeOK /\ IndexInv)'
  BY NextTyped, NextSound
<1>2. Init => TypeOK /\ IndexInv
  BY InitTyped, InitSound
<1>3. QED
  BY <1>1, <1>2, IndexInvImplies, PTL DEF Spec
=============================================================================
