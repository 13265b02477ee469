----------------------- MODULE FortigateUpdate_proofs -----------------------
(***************************************************************************)
(* Proofs about FortigateUpdate, for any set of updates, any versions, any *)
(* answers of the portal and any number of edits.                          *)
(***************************************************************************)
EXTENDS FortigateUpdate, TLAPS

USE VersionsAssumption, RouteAssumption, BoundAssumption, NoneAssumption

----------------------------------------------------------------------------
(***************************************************************************)
(* Types.                                                                  *)
(***************************************************************************)

\* What the worker may become when it gives up or goes on is well typed.
LEMMA AnsweredType ==
  ASSUME TypeOK, worker # Idle, NEW next \in Task \cup {Idle}, Answered(next)
  PROVE  worker' \in Task \cup {Idle} /\ queue' \subseteq Updates
  BY DEF TypeOK, Answered, GiveUp, Task

\* A worker at some phase other than idle holds a task.
LEMMA AtTask ==
  ASSUME TypeOK, NEW p \in Phases, At(p)
  PROVE  worker \in Task /\ worker # Idle
  BY DEF TypeOK, At, Idle, Phases

\* Somebody else's write leaves the worker a task like the one it had.
LEMMA OutdatedType ==
  ASSUME TypeOK, NEW u \in Updates, Outdated(u)
  PROVE  worker' \in Task \cup {Idle} /\ latest' \subseteq Updates
<1>1. worker \in Task => [worker EXCEPT !.fresh = FALSE] \in Task
  BY DEF Task
<1> QED
  BY <1>1 DEF TypeOK, Outdated

\* Every action of the reconciler, of the rest of the cluster and of a restart
\* keeps each variable within its type.
LEMMA TypeStep == TypeOK /\ [Next]_vars => TypeOK'
<1> SUFFICES ASSUME TypeOK, [Next]_vars PROVE TypeOK'
  OBVIOUS
<1>1. ASSUME NEW u \in Updates, NEW v \in Versions, EditSpec(u, v)
      PROVE  TypeOK'
  <2>1. obj' \in [Updates -> Object]
    <3>1. obj[u] \in Object /\ obj[u].gen + 1 \in 0..MaxEdits
      BY <1>1 DEF TypeOK, EditSpec, Object
    <3>2. [obj[u] EXCEPT !.target = v, !.gen = @ + 1] \in Object
      BY <3>1 DEF Object
    <3> QED
      BY <1>1, <3>2 DEF TypeOK, EditSpec
  <2>2. worker' \in Task \cup {Idle} /\ latest' \subseteq Updates
    BY <1>1, OutdatedType DEF EditSpec
  <2> QED
    BY <1>1, <2>1, <2>2 DEF TypeOK, EditSpec, pathObjects, snapshots, bucket
<1>2. ASSUME NEW u \in Updates, DeleteUpdate(u)
      PROVE  TypeOK'
  <2>1. obj' \in [Updates -> Object]
    <3>1. obj[u] \in Object
      BY DEF TypeOK
    <3>2. [obj[u] EXCEPT !.live = FALSE] \in Object
      BY <3>1 DEF Object
    <3> QED
      BY <1>2, <3>2 DEF TypeOK, DeleteUpdate
  <2>2. worker' \in Task \cup {Idle} /\ latest' \subseteq Updates
    BY <1>2, OutdatedType DEF DeleteUpdate
  <2> QED
    BY <1>2, <2>1, <2>2 DEF TypeOK, DeleteUpdate, pathObjects, snapshots, bucket
<1>3. ASSUME NEW u \in Updates, SyncUpdate(u)
      PROVE  TypeOK'
  BY <1>3 DEF TypeOK, SyncUpdate, pathObjects, snapshots, bucket
<1>4. CASE SyncPaths \/ SyncSnapshots \/ FirewallProgress
  BY <1>4 DEF TypeOK, SyncPaths, SyncSnapshots, FirewallProgress, objects,
              pathObjects, snapshots, bucket
<1>5. ASSUME NEW r \in Ranges, PathPublished(r)
      PROVE  TypeOK'
  BY <1>5 DEF TypeOK, PathPublished, PathState, objects, snapshots, bucket
<1>6. CASE Booted
  BY <1>6 DEF TypeOK, Booted, Device, objects, pathObjects, snapshots, bucket
<1>7. ASSUME NEW u \in Updates, BeginGone(u)
      PROVE  TypeOK'
  BY <1>7 DEF TypeOK, BeginGone, objects, pathObjects, snapshots, bucket
<1>8. ASSUME NEW u \in Updates, Begin(u)
      PROVE  TypeOK'
  <2>1. worker' \in Task
    BY <1>8 DEF TypeOK, Begin, Task, Phases, Object, BackupName
  <2> QED
    BY <1>8, <2>1 DEF TypeOK, Begin, objects, pathObjects, snapshots, bucket
<1>9. CASE AskVersion
  <2>1. worker' \in Task
    BY <1>9, AtTask DEF TypeOK, AskVersion, Task, Phases, Device
  <2> QED
    BY <1>9, <2>1 DEF TypeOK, AskVersion, objects, pathObjects, snapshots, bucket
<1>10. CASE ChoosePath
  <2>1. PICK r \in Ranges :
          worker' = [worker EXCEPT !.pc = "backup", !.steps = StepsOf(r)]
    BY <1>10 DEF ChoosePath, Candidates
  <2>2. StepsOf(r) \in Seq(Versions)
    BY DEF StepsOf, Ranges
  <2>3. worker' \in Task
    BY <1>10, <2>1, <2>2, AtTask DEF ChoosePath, Task, Phases
  <2> QED
    BY <1>10, <2>3 DEF TypeOK, ChoosePath, objects, pathObjects, snapshots, bucket
<1>11. CASE RequestPath
  <2>1. worker \in Task
    BY <1>11, AtTask DEF RequestPath, Phases
  <2>2. paths' \in [Ranges -> PathState]
    BY <1>11 DEF TypeOK, RequestPath, PathState
  <2> QED
    BY <1>11, <2>1, <2>2 DEF TypeOK, RequestPath, GiveUp, Task, objects,
                             snapshots, bucket
<1>12. CASE TakeBackup
  <2>1. worker \in Task /\ worker # Idle
    BY <1>12, AtTask DEF TakeBackup, Phases
  <2>2. CurrentConfig \in Config
    BY DEF TypeOK, CurrentConfig, Config, Device
  <2>3. [worker EXCEPT !.pc = "record", !.name = CurrentConfig] \in Task
    BY <2>1, <2>2 DEF Task, Phases, BackupName
  <2>4. worker' \in Task \cup {Idle} /\ queue' \subseteq Updates
    BY <1>12, <2>1, <2>3, AnsweredType DEF TakeBackup
  <2> QED
    BY <1>12, <2>2, <2>4 DEF TypeOK, TakeBackup, objects, pathObjects, snapshots
<1>13. CASE KeepBackup
  <2>1. worker \in Task
    BY <1>13, AtTask DEF KeepBackup, Phases
  <2>2. worker' \in Task
    BY <1>13, <2>1 DEF KeepBackup, Task, Phases, Object
  <2>3. blank' \subseteq BackupName
    BY <1>13, <2>1 DEF TypeOK, KeepBackup, Task, Object
  <2> QED
    BY <1>13, <2>2, <2>3 DEF TypeOK, KeepBackup, objects, pathObjects, snapshots
<1>14. ASSUME NEW p \in Phases, NEW q \in Phases, At(p), StatusUpdate,
              Answered(Written(q)) \/ Answered(Idle),
              UNCHANGED <<fw, pathObjects, snapshots, dev, bucket>>
       PROVE  TypeOK'
  <2>1. worker \in Task /\ worker # Idle
    BY <1>14, AtTask
  <2>2. Written(q) \in Task
    BY <1>14, <2>1 DEF Written, Task, Object
  <2>3. worker' \in Task \cup {Idle} /\ queue' \subseteq Updates
    BY <1>14, <2>1, <2>2, AnsweredType
  <2>4. obj' \in [Updates -> Object]
    <3>1. obj[worker.u] \in Object /\ worker.name \in BackupName
      BY <2>1 DEF TypeOK, Task
    <3>2. [obj[worker.u] EXCEPT !.backup = worker.name, !.available = TRUE] \in Object
      BY <3>1 DEF Object
    <3> QED
      BY <1>14, <2>1, <3>2 DEF TypeOK, StatusUpdate, Task
  <2> QED
    BY <1>14, <2>3, <2>4 DEF TypeOK, StatusUpdate, pathObjects, snapshots, bucket
<1>15. CASE RecordBackup
  BY <1>14, <1>15 DEF RecordBackup, Phases
<1>16. CASE ConfirmStatus
  BY <1>14, <1>16 DEF ConfirmStatus, Phases
<1>17. CASE Finish
  BY <1>14, <1>17 DEF Finish, Phases
<1>18. CASE SnapshotFound \/ StepsDone
  <2>1. worker' \in Task
    BY <1>18, AtTask DEF SnapshotFound, StepsDone, Task, Phases
  <2> QED
    BY <1>18, <2>1 DEF TypeOK, SnapshotFound, StepsDone, objects, pathObjects,
                       snapshots, bucket
<1>19. CASE CreateSnapshot
  <2>1. worker \in Task /\ worker # Idle
    BY <1>19, AtTask DEF CreateSnapshot, Phases
  <2>2. [worker EXCEPT !.pc = "confirm"] \in Task
    BY <2>1 DEF Task, Phases
  <2>3. worker' \in Task \cup {Idle} /\ queue' \subseteq Updates
    BY <1>19, <2>1, <2>2, AnsweredType DEF CreateSnapshot
  <2>4. worker.inst.target \in Versions
    BY <2>1 DEF Task, Object
  <2> QED
    BY <1>19, <2>3, <2>4 DEF TypeOK, CreateSnapshot, objects, pathObjects, bucket
<1>20. CASE PostFirmware
  <2>1. worker \in Task /\ worker # Idle
    BY <1>20, AtTask DEF PostFirmware, Phases
  <2>2. [worker EXCEPT !.pc = "unsnap"] \in Task
    BY <2>1 DEF Task, Phases
  <2>3. worker' \in Task \cup {Idle} /\ queue' \subseteq Updates
    BY <1>20, <2>1, <2>2, AnsweredType DEF PostFirmware
  <2>4. worker.steps[worker.hop] \in Versions /\ worker.u \in Updates
    BY <1>20, <2>1 DEF PostFirmware, Task
  <2>5. dev' \in Device
    BY <1>20, <2>4 DEF TypeOK, PostFirmware, Device
  <2> QED
    BY <1>20, <2>3, <2>5 DEF TypeOK, PostFirmware, objects, pathObjects,
                             snapshots, bucket
<1>21. CASE DeleteSnapshot
  <2>1. worker \in Task /\ worker # Idle
    BY <1>21, AtTask DEF DeleteSnapshot, Phases
  <2>2. [worker EXCEPT !.pc = "hop", !.hop = @ + 1] \in Task
    <3>1. worker.hop + 1 \in Nat \ {0, 1}
      BY <2>1 DEF Task
    <3> QED
      BY <2>1, <3>1 DEF Task, Phases
  <2>3. worker' \in Task \cup {Idle} /\ queue' \subseteq Updates
    BY <1>21, <2>1, <2>2, AnsweredType DEF DeleteSnapshot
  <2> QED
    BY <1>21, <2>3 DEF TypeOK, DeleteSnapshot, objects, pathObjects, bucket
<1>22. CASE CallFails
  <2>1. worker \in Task
    BY <1>22 DEF TypeOK, CallFails
  <2> QED
    BY <1>22, <2>1 DEF TypeOK, CallFails, GiveUp, Task, objects, pathObjects,
                       snapshots, bucket
<1>23. CASE Restart
  BY <1>23 DEF TypeOK, Restart, bucket
<1>24. CASE UNCHANGED vars
  BY <1>24 DEF TypeOK, vars, objects, pathObjects, snapshots, bucket
<1> QED
  BY <1>1, <1>2, <1>3, <1>4, <1>5, <1>6, <1>7, <1>8, <1>9, <1>10, <1>11, <1>12,
     <1>13, <1>15, <1>16, <1>17, <1>18, <1>19, <1>20, <1>21, <1>22, <1>23, <1>24
     DEF Next, Environment, Reconcile

\* The reconciler is well typed for every instance: TypeOK is inductive as it
\* stands.
THEOREM TypeCorrect == Spec => []TypeOK
<1>1. Init => TypeOK
  BY DEF Init, TypeOK, Object, BackupName, Device, PathState, Idle, Ranges
<1> QED
  BY <1>1, TypeStep, PTL DEF Spec

----------------------------------------------------------------------------
(***************************************************************************)
(* The inductive invariant.  BackupBeforeUpgrade is not inductive: a worker *)
(* that acts on an old copy must be kept from replacing the backup, so the *)
(* invariant says what a copy may hold (CacheInv, CopyInv), what name the  *)
(* worker carries at each phase (NameInv), what a recorded name stands for *)
(* (RecordedInv), and that a firmware is posted with a record (FlashInv).  *)
(***************************************************************************)

CacheInv ==
  \A u \in Updates :
    /\ seen[u].backup \in {None, obj[u].backup}
    /\ u \in latest => seen[u].backup = obj[u].backup

CopyInv ==
  worker # Idle =>
    /\ worker.inst.backup \in {None, obj[worker.u].backup}
    /\ worker.fresh => worker.inst.backup = obj[worker.u].backup

NameInv ==
  worker # Idle =>
    /\ worker.pc # "record" => worker.name = worker.inst.backup
    /\ worker.pc \in {"snapshot", "confirm", "hop", "unsnap"} => worker.name # None
    /\ worker.pc = "record" =>
         /\ worker.name # None
         /\ worker.name \in saved
         /\ worker.inst.backup # None => worker.name = worker.inst.backup
         /\ worker.inst.backup = None => /\ worker.name = CurrentConfig
                                         /\ dev.installing = None

RecordedInv ==
  \A u \in Updates :
    obj[u].backup # None => obj[u].backup \in saved /\ u \notin obj[u].backup.by

FlashInv == \A u \in dev.by : obj[u].backup # None

Inv == TypeOK /\ CacheInv /\ CopyInv /\ NameInv /\ RecordedInv /\ FlashInv /\ blank = {}

\* What a status write does to the recorded backups: the object under
\* reconciliation gets the worker's name, which is the one it has if it has one.
LEMMA WriteNames ==
  ASSUME Inv, worker \in Task, worker # Idle, StatusUpdate
  PROVE  /\ \A u \in Updates \ {worker.u} : obj'[u].backup = obj[u].backup
         /\ obj'[worker.u].backup = worker.name
         /\ obj[worker.u].backup # None => worker.name = obj[worker.u].backup
<1>1. obj[worker.u] \in Object /\ worker.u \in Updates
  BY DEF Inv, TypeOK, Task
<1>2. worker.inst.backup = obj[worker.u].backup
  BY DEF Inv, CopyInv, StatusUpdate, Writable
<1>3. obj[worker.u].backup # None => worker.name = obj[worker.u].backup
  BY <1>2 DEF Inv, NameInv
<1> QED
  BY <1>1, <1>3 DEF StatusUpdate, Inv, TypeOK, Object

\* A status write keeps the invariant, wherever in Reconcile it is made.
LEMMA WriteKeeps ==
  ASSUME Inv, TypeOK', worker \in Task, worker # Idle, StatusUpdate,
         NEW q \in Phases \ {"record"},
         q = "final" \/ worker.name # None,
         Answered(Written(q)) \/ Answered(Idle),
         UNCHANGED <<dev, bucket>>
  PROVE  Inv'
<1>1. worker' = Idle \/ worker' = Written(q)
  BY DEF Answered, GiveUp
<1>2. CacheInv'
  BY WriteNames DEF Inv, CacheInv, StatusUpdate
<1>3. CopyInv'
  <2>1. Written(q).inst.backup = worker.name /\ Written(q).u = worker.u
    BY DEF Written, Task, Object
  <2> QED
    BY <1>1, <2>1, WriteNames DEF CopyInv
<1>4. NameInv'
  <2>1. /\ Written(q).inst.backup = worker.name /\ Written(q).name = worker.name
        /\ Written(q).pc = q
    BY DEF Written, Task, Object
  <2> QED
    BY <1>1, <2>1 DEF NameInv
<1>5. ASSUME obj[worker.u].backup = None, worker.name # None
      PROVE  worker.name \in saved /\ worker.u \notin worker.name.by
  <2>1. worker.pc = "record" /\ worker.inst.backup = None
    BY <1>5 DEF Inv, NameInv, CopyInv, StatusUpdate, Writable
  <2>2. worker.name = CurrentConfig /\ worker.name \in saved
    BY <2>1 DEF Inv, NameInv
  <2> QED
    BY <1>5, <2>2 DEF Inv, FlashInv, CurrentConfig
<1>6. RecordedInv'
  BY <1>5, WriteNames DEF Inv, RecordedInv, bucket
<1>7. FlashInv'
  BY WriteNames DEF Inv, FlashInv, TypeOK, Device
<1> QED
  BY <1>2, <1>3, <1>4, <1>6, <1>7 DEF Inv, bucket

\* A step that moves the worker on, or ends its task, keeps the invariant when
\* it leaves the objects, the bucket and the firewall alone and the worker's
\* copy and name as they are.
LEMMA MoveKeeps ==
  ASSUME Inv, TypeOK', UNCHANGED <<objects, bucket, dev>>,
         \/ worker' = Idle
         \/ /\ worker # Idle
            /\ worker'.u = worker.u /\ worker'.inst = worker.inst
            /\ worker'.fresh = worker.fresh /\ worker'.name = worker.name
            /\ worker.pc # "record" /\ worker'.pc # "record"
            /\ worker'.pc \in {"snapshot", "confirm", "hop", "unsnap"} => worker.name # None
  PROVE  Inv'
<1>1. CopyInv'
  BY DEF Inv, CopyInv, objects
<1>2. NameInv'
  BY DEF Inv, NameInv
<1> QED
  BY <1>1, <1>2 DEF Inv, CacheInv, RecordedInv, FlashInv, objects, bucket

\* Every action keeps what the caches, the worker and the objects say of
\* backups consistent.
LEMMA InvStep == Inv /\ [Next]_vars => Inv'
<1> SUFFICES ASSUME Inv, [Next]_vars PROVE Inv'
  OBVIOUS
<1> USE DEF Inv
<1>t. TypeOK'
  BY TypeStep
<1>1. ASSUME NEW u \in Updates, NEW v \in Versions, EditSpec(u, v)
      PROVE  Inv'
  <2>1. \A w \in Updates : obj'[w].backup = obj[w].backup
    BY <1>1 DEF EditSpec, TypeOK, Object
  <2>2. CopyInv' /\ NameInv'
    BY <1>1, <2>1 DEF EditSpec, Outdated, CopyInv, NameInv, TypeOK, Task,
           CurrentConfig, bucket
  <2> QED
    BY <1>t, <1>1, <2>1, <2>2 DEF EditSpec, Outdated, CacheInv, RecordedInv,
           FlashInv, bucket, TypeOK, Device
<1>2. ASSUME NEW u \in Updates, DeleteUpdate(u)
      PROVE  Inv'
  <2>1. \A w \in Updates : obj'[w].backup = obj[w].backup
    BY <1>2 DEF DeleteUpdate, TypeOK, Object
  <2>2. CopyInv' /\ NameInv'
    BY <1>2, <2>1 DEF DeleteUpdate, Outdated, CopyInv, NameInv, TypeOK, Task,
           CurrentConfig, bucket
  <2> QED
    BY <1>t, <1>2, <2>1, <2>2 DEF DeleteUpdate, Outdated, CacheInv, RecordedInv,
           FlashInv, bucket, TypeOK, Device
<1>3. ASSUME NEW u \in Updates, SyncUpdate(u)
      PROVE  Inv'
  <2>1. CacheInv'
    BY <1>3 DEF SyncUpdate, CacheInv, TypeOK
  <2> QED
    BY <1>t, <1>3, <2>1 DEF SyncUpdate, CopyInv, NameInv, RecordedInv, FlashInv,
                           bucket, CurrentConfig
<1>4. CASE SyncPaths \/ SyncSnapshots \/ FirewallProgress
  BY <1>t, <1>4 DEF SyncPaths, SyncSnapshots, FirewallProgress, CacheInv, CopyInv,
       NameInv, RecordedInv, FlashInv, objects, bucket, CurrentConfig
<1>5. ASSUME NEW r \in Ranges, PathPublished(r)
      PROVE  Inv'
  BY <1>t, <1>5 DEF PathPublished, CacheInv, CopyInv,
       NameInv, RecordedInv, FlashInv, objects, bucket, CurrentConfig
<1>6. CASE Booted
  BY <1>t, <1>6 DEF Booted, CacheInv, CopyInv,
       NameInv, RecordedInv, FlashInv, objects, bucket, TypeOK, Device
<1>7. ASSUME NEW u \in Updates, BeginGone(u)
      PROVE  Inv'
  BY <1>t, <1>7 DEF BeginGone, CacheInv, CopyInv,
       NameInv, RecordedInv, FlashInv, objects, bucket, CurrentConfig
<1>8. ASSUME NEW u \in Updates, Begin(u)
      PROVE  Inv'
  BY <1>t, <1>8 DEF Begin, CacheInv, CopyInv,
       NameInv, RecordedInv, FlashInv, objects, bucket
<1>9. CASE AskVersion
  <2>1. worker \in Task /\ worker # Idle /\ worker.pc = "ask"
    BY <1>9, AtTask DEF AskVersion, Phases, At
  <2>2. /\ worker'.u = worker.u /\ worker'.inst = worker.inst
        /\ worker'.fresh = worker.fresh /\ worker'.name = worker.name
        /\ worker'.pc \in {"final", "choose"}
    BY <1>9, <2>1 DEF AskVersion, Task
  <2> QED
    BY <1>t, <1>9, <2>1, <2>2, MoveKeeps DEF AskVersion
<1>10. CASE ChoosePath
  <2>1. worker \in Task /\ worker # Idle /\ worker.pc = "choose"
    BY <1>10, AtTask DEF ChoosePath, Phases, At
  <2>2. PICK steps : worker' = [worker EXCEPT !.pc = "backup", !.steps = steps]
    BY <1>10 DEF ChoosePath
  <2>3. /\ worker'.u = worker.u /\ worker'.inst = worker.inst
        /\ worker'.fresh = worker.fresh /\ worker'.name = worker.name
        /\ worker'.pc = "backup"
    BY <2>1, <2>2 DEF Task
  <2> QED
    BY <1>t, <1>10, <2>1, <2>3, MoveKeeps DEF ChoosePath
<1>11. CASE RequestPath \/ CallFails
  BY <1>t, <1>11, MoveKeeps DEF RequestPath, CallFails, GiveUp
<1>12a. CASE TakeBackup
  <2>1. /\ worker \in Task /\ worker # Idle /\ worker.inst.backup = None
        /\ dev.installing = None /\ CurrentConfig \in saved'
    BY <1>12a, AtTask DEF TakeBackup, Phases, At
  <2>2. CurrentConfig # None
    BY <2>1, NoneAssumption DEF TypeOK, CurrentConfig, Config, Device
  <2>3. worker' \in {Idle, [worker EXCEPT !.pc = "record", !.name = CurrentConfig]}
    BY <1>12a DEF TakeBackup, Answered, GiveUp
  <2>4. CopyInv'
    BY <1>12a, <2>1, <2>3 DEF TakeBackup, CopyInv, Task, objects
  <2>5. NameInv'
    BY <1>12a, <2>1, <2>2, <2>3 DEF TakeBackup, NameInv, Task, CurrentConfig
  <2> QED
    BY <1>t, <1>12a, <2>4, <2>5 DEF TakeBackup, CacheInv, RecordedInv, FlashInv,
                                  objects
<1>12b. CASE KeepBackup
  <2>1. /\ worker \in Task /\ worker # Idle /\ worker.inst.backup # None
        /\ worker' = [worker EXCEPT !.pc = "record", !.name = worker.inst.backup]
    BY <1>12b, AtTask DEF KeepBackup, Phases, At
  <2>2. worker.u \in Updates /\ obj[worker.u].backup = worker.inst.backup
    BY <2>1 DEF CopyInv, Task
  <2>3. worker.inst.backup \in saved
    BY <2>1, <2>2 DEF RecordedInv
  <2>4. blank' = {} /\ CopyInv'
    BY <1>12b, <2>1, <2>3 DEF KeepBackup, CopyInv, Task, objects
  <2>5. NameInv'
    BY <1>12b, <2>1, <2>3 DEF KeepBackup, NameInv, Task
  <2> QED
    BY <1>t, <1>12b, <2>4, <2>5 DEF KeepBackup, CacheInv, RecordedInv, FlashInv,
                                  objects
<1>13. CASE RecordBackup
  <2>1. worker \in Task /\ worker # Idle /\ worker.name # None
    BY <1>13, AtTask DEF RecordBackup, Phases, At, NameInv
  <2> QED
    BY <1>t, <1>13, <2>1, WriteKeeps DEF RecordBackup, Phases
<1>14. CASE ConfirmStatus
  <2>1. worker \in Task /\ worker # Idle /\ worker.name # None
    BY <1>14, AtTask DEF ConfirmStatus, Phases, At, NameInv
  <2> QED
    BY <1>t, <1>14, <2>1, WriteKeeps DEF ConfirmStatus, Phases
<1>15. CASE Finish
  <2>1. worker \in Task /\ worker # Idle
    BY <1>15, AtTask DEF Finish, Phases
  <2> QED
    BY <1>t, <1>15, <2>1, WriteKeeps DEF Finish, Phases
<1>16. CASE SnapshotFound \/ CreateSnapshot
  <2>1. worker \in Task /\ worker # Idle /\ worker.pc = "snapshot" /\ worker.name # None
    BY <1>16, AtTask DEF SnapshotFound, CreateSnapshot, Phases, At, NameInv
  <2>2. worker' \in {Idle, [worker EXCEPT !.pc = "confirm"]}
    BY <1>16 DEF SnapshotFound, CreateSnapshot, Answered, GiveUp
  <2>3. CASE worker' = [worker EXCEPT !.pc = "confirm"]
    <3>1. /\ worker'.u = worker.u /\ worker'.inst = worker.inst
          /\ worker'.fresh = worker.fresh /\ worker'.name = worker.name
          /\ worker'.pc = "confirm"
      BY <2>1, <2>3 DEF Task
    <3> QED
      BY <1>t, <1>16, <2>1, <3>1, MoveKeeps DEF SnapshotFound, CreateSnapshot
  <2> QED
    BY <1>t, <1>16, <2>2, <2>3, MoveKeeps DEF SnapshotFound, CreateSnapshot
<1>17a. CASE DeleteSnapshot
  <2>1. worker \in Task /\ worker # Idle /\ worker.pc = "unsnap" /\ worker.name # None
    BY <1>17a, AtTask DEF DeleteSnapshot, Phases, At, NameInv
  <2>2. worker' \in {Idle, [worker EXCEPT !.pc = "hop", !.hop = @ + 1]}
    BY <1>17a DEF DeleteSnapshot, Answered, GiveUp
  <2>3. CASE worker' = [worker EXCEPT !.pc = "hop", !.hop = @ + 1]
    <3>1. /\ worker'.u = worker.u /\ worker'.inst = worker.inst
          /\ worker'.fresh = worker.fresh /\ worker'.name = worker.name
          /\ worker'.pc = "hop"
      BY <2>1, <2>3 DEF Task
    <3> QED
      BY <1>t, <1>17a, <2>1, <3>1, MoveKeeps DEF DeleteSnapshot
  <2> QED
    BY <1>t, <1>17a, <2>2, <2>3, MoveKeeps DEF DeleteSnapshot
<1>17b. CASE StepsDone
  <2>1. worker \in Task /\ worker # Idle /\ worker.pc = "hop"
    BY <1>17b, AtTask DEF StepsDone, Phases, At
  <2>2. /\ worker'.u = worker.u /\ worker'.inst = worker.inst
        /\ worker'.fresh = worker.fresh /\ worker'.name = worker.name
        /\ worker'.pc = "final"
    BY <1>17b, <2>1 DEF StepsDone, Task
  <2> QED
    BY <1>t, <1>17b, <2>1, <2>2, MoveKeeps DEF StepsDone
<1>18. CASE PostFirmware
  <2>1. /\ worker \in Task /\ worker # Idle /\ worker.pc = "hop"
        /\ worker' \in {Idle, [worker EXCEPT !.pc = "unsnap"]}
    BY <1>18, AtTask DEF PostFirmware, Phases, At, Answered, GiveUp
  <2>2. obj[worker.u].backup # None
    BY <2>1 DEF NameInv, CopyInv
  <2>3. FlashInv'
    BY <1>18, <2>2 DEF PostFirmware, FlashInv, objects, TypeOK, Device
  <2>4. CopyInv' /\ NameInv'
    BY <1>18, <2>1 DEF PostFirmware, CopyInv, NameInv, Task, objects, bucket
  <2> QED
    BY <1>t, <1>18, <2>3, <2>4 DEF PostFirmware, CacheInv, RecordedInv, objects, bucket
<1>19. CASE Restart
  BY <1>t, <1>19 DEF Restart, CacheInv, CopyInv, NameInv, RecordedInv, FlashInv, bucket
<1>20. CASE UNCHANGED vars
  BY <1>t, <1>20 DEF CacheInv, CopyInv, NameInv, RecordedInv, FlashInv, vars,
         objects, bucket, CurrentConfig
<1> QED
  BY <1>1, <1>2, <1>3, <1>4, <1>5, <1>6, <1>7, <1>8, <1>9, <1>10, <1>11, <1>12a,
     <1>12b, <1>13, <1>14, <1>15, <1>16, <1>17a, <1>17b, <1>18, <1>19, <1>20
     DEF Next, Environment, Reconcile

\* Inv is an invariant of the reconciler.
THEOREM InvCorrect == Spec => []Inv
<1>1. Init => Inv
  <2> SUFFICES ASSUME Init PROVE Inv
    OBVIOUS
  <2>1. TypeOK
    BY DEF Init, TypeOK, Object, BackupName, Device, PathState, Idle, Ranges
  <2>2. \A u \in Updates : obj[u].backup = None /\ seen[u] = obj[u]
    BY DEF Init
  <2> QED
    BY <2>1, <2>2 DEF Init, Inv, CacheInv, CopyInv, NameInv, RecordedInv, FlashInv
<1> QED
  BY <1>1, InvStep, PTL DEF Spec

----------------------------------------------------------------------------
(***************************************************************************)
(* What it gives.                                                          *)
(***************************************************************************)

\* Whatever was flashed was flashed with a backup recorded, whole, and older:
\* for any number of updates, edits, stale reads, lost answers and restarts.
THEOREM BackedUp == Spec => []BackupBeforeUpgrade
<1>1. Inv => BackupBeforeUpgrade
  BY DEF Inv, BackupBeforeUpgrade, FlashInv, RecordedInv, TypeOK, Device
<1> QED
  BY <1>1, InvCorrect, PTL

\* The empty content of a repeated backup is never written.
THEOREM NothingBlank == Spec => []NoEmptyBackup
<1>1. Inv => NoEmptyBackup
  BY DEF Inv, NoEmptyBackup
<1> QED
  BY <1>1, InvCorrect, PTL

\* Only a status write changes the recorded backups, and it writes the worker's
\* name where there was none; every other step leaves them as they are.
LEMMA BackupsChange ==
  ASSUME Inv, [Next]_vars
  PROVE  \/ \A u \in Updates : obj'[u].backup = obj[u].backup
         \/ /\ RecordBackup
            /\ worker \in Task /\ worker # Idle
            /\ StatusUpdate
<1>1. ASSUME NEW u \in Updates, NEW v \in Versions, EditSpec(u, v)
      PROVE  \A w \in Updates : obj'[w].backup = obj[w].backup
  BY <1>1 DEF EditSpec, Inv, TypeOK, Object
<1>2. ASSUME NEW u \in Updates, DeleteUpdate(u)
      PROVE  \A w \in Updates : obj'[w].backup = obj[w].backup
  BY <1>2 DEF DeleteUpdate, Inv, TypeOK, Object
<1>3. CASE RecordBackup
  BY <1>3, AtTask DEF RecordBackup, Phases, Inv
<1>4. CASE ConfirmStatus \/ Finish
  <2>1. /\ worker \in Task /\ worker # Idle /\ StatusUpdate
        /\ worker.pc # "record"
    BY <1>4, AtTask DEF ConfirmStatus, Finish, Phases, At, Inv
  <2>2. worker.name = obj[worker.u].backup
    BY <2>1 DEF Inv, NameInv, CopyInv, StatusUpdate, Writable
  <2> QED
    BY <2>1, <2>2, WriteNames
<1>5. CASE UNCHANGED obj
  BY <1>5
<1>6. \/ \E u \in Updates, v \in Versions : EditSpec(u, v)
      \/ \E u \in Updates : DeleteUpdate(u)
      \/ RecordBackup \/ ConfirmStatus \/ Finish
      \/ UNCHANGED obj
  BY DEF Next, Environment, Reconcile, vars, objects, SyncUpdate, SyncPaths,
         SyncSnapshots, FirewallProgress, PathPublished, Booted, BeginGone, Begin,
         AskVersion, ChoosePath, RequestPath, TakeBackup, KeepBackup, SnapshotFound,
         CreateSnapshot, PostFirmware, DeleteSnapshot, StepsDone, CallFails, Restart
<1> QED
  BY <1>1, <1>2, <1>3, <1>4, <1>5, <1>6

\* A backup once recorded stays the recorded one.
THEOREM NamesStable == Spec => BackupNameStable
<1>1. Inv /\ [Next]_vars =>
        [\A u \in Updates : obj[u].backup # None => obj'[u].backup = obj[u].backup]_vars
  BY BackupsChange, WriteNames
<1> QED
  BY <1>1, InvCorrect, PTL DEF Spec, BackupNameStable

----------------------------------------------------------------------------
(***************************************************************************)
(* Refinement: FortigateUpdate implements SafeUpgrade.                     *)
(***************************************************************************)

Secured == [u \in Updates |-> obj[u].backup]

\* The step that records a first backup is Secure.
LEMMA RecordSecures ==
  ASSUME Inv, worker \in Task, worker # Idle, StatusUpdate, UNCHANGED <<saved, dev>>
  PROVE  (\E u \in Updates : Safe!Secure(u)) \/ UNCHANGED Safe!promise
<1>1. worker.u \in Updates
  BY DEF Task
<1>2. CASE obj[worker.u].backup # None
  <2>1. Secured' = Secured
    BY <1>2, WriteNames DEF Secured
  <2> QED
    BY <2>1 DEF Safe!promise, Secured
<1>3. CASE obj[worker.u].backup = None /\ worker.name = None
  <2>1. Secured' = Secured
    BY <1>3, WriteNames DEF Secured
  <2> QED
    BY <2>1 DEF Safe!promise, Secured
<1>4. CASE obj[worker.u].backup = None /\ worker.name # None
  <2>1. worker.pc = "record" /\ worker.inst.backup = None
    BY <1>4 DEF Inv, NameInv, CopyInv, StatusUpdate, Writable
  <2>2. worker.name = CurrentConfig /\ worker.name \in saved
    BY <2>1 DEF Inv, NameInv
  <2>3. worker.u \notin dev.by
    BY <1>4 DEF Inv, FlashInv
  <2>4. Secured' = [Secured EXCEPT ![worker.u] = CurrentConfig]
    BY <1>1, <2>2, WriteNames DEF Secured
  <2>5. PICK u \in Updates : u = worker.u
    BY <1>1
  <2>6. Safe!Secure(u)
    BY <1>4, <2>2, <2>3, <2>4, <2>5 DEF Safe!Secure, Safe!Running,
           CurrentConfig, Secured
  <2> QED
    BY <2>6
<1> QED
  BY <1>2, <1>3, <1>4

\* The firmware a worker posts is a Flash.
LEMMA PostFlashes ==
  ASSUME Inv, PostFirmware
  PROVE  \E u \in Updates, v \in Versions : Safe!Flash(u, v)
<1>1. worker \in Task /\ worker # Idle /\ worker.pc = "hop"
  BY AtTask DEF PostFirmware, Phases, At, Inv
<1>2. worker.u \in Updates /\ worker.steps[worker.hop] \in Versions
  BY <1>1 DEF PostFirmware, Task
<1>3. obj[worker.u].backup # None
  BY <1>1 DEF Inv, NameInv, CopyInv
<1>4. Safe!Flash(worker.u, worker.steps[worker.hop])
  BY <1>2, <1>3 DEF PostFirmware, Safe!Flash, objects, bucket
<1> QED
  BY <1>2, <1>4

\* Every step is a step of SafeUpgrade or changes nothing it speaks of.
LEMMA StepSimulates ==
  ASSUME Inv, [Next]_vars
  PROVE  [Safe!Next]_(Safe!promise)
<1>1. CASE PostFirmware
  BY <1>1, PostFlashes DEF Safe!Next
<1>2. CASE TakeBackup
  <2>1. Safe!Archive
    BY <1>2 DEF TakeBackup, Safe!Archive, Safe!Running, CurrentConfig, objects
  <2> QED
    BY <2>1 DEF Safe!Next
<1>3. CASE Booted
  <2>1. Safe!Boot
    BY <1>3 DEF Booted, Safe!Boot, objects, bucket
  <2> QED
    BY <2>1 DEF Safe!Next
<1>4. CASE RecordBackup
  <2>1. worker \in Task /\ worker # Idle /\ StatusUpdate /\ UNCHANGED <<saved, dev>>
    BY <1>4, AtTask DEF RecordBackup, Phases, Inv, bucket
  <2> QED
    BY <2>1, RecordSecures DEF Safe!Next
<1>5. CASE ~RecordBackup /\ UNCHANGED <<saved, dev>>
  <2>1. Secured' = Secured
    BY <1>5, BackupsChange DEF Secured
  <2> QED
    BY <1>5, <2>1 DEF Safe!promise, Secured
<1>6. PostFirmware \/ TakeBackup \/ Booted \/ UNCHANGED <<saved, dev>>
  BY DEF Next, Environment, Reconcile, vars, bucket, EditSpec, DeleteUpdate,
         SyncUpdate, SyncPaths, SyncSnapshots, FirewallProgress, PathPublished,
         BeginGone, Begin, AskVersion, ChoosePath, RequestPath, KeepBackup,
         RecordBackup, SnapshotFound, CreateSnapshot, ConfirmStatus, DeleteSnapshot,
         StepsDone, Finish, CallFails, Restart
<1> QED
  BY <1>1, <1>2, <1>3, <1>4, <1>5, <1>6

\* The reconciler, with its caches, conflicts, retries and restarts, implements
\* SafeUpgrade.
THEOREM Refines == Spec => ImplementsSafeUpgrade
<1>1. Init => Safe!Init
  BY DEF Init, Safe!Init
<1> QED
  BY <1>1, StepSimulates, InvCorrect, PTL DEF Spec, ImplementsSafeUpgrade, Safe!Spec

----------------------------------------------------------------------------
(***************************************************************************)
(* FirstFirmwareUnderSnapshot.  A snapshot is named after the target, so   *)
(* an update is safe from the snapshots of others only if no two are ever  *)
(* asked for the same version.  Then the cache may show a snapshot that is *)
(* gone, but only one of an update that has flashed already.               *)
(***************************************************************************)

\* The versions u is ever asked for.
Own(u) == Targets[u] \cup {FirstTarget[u]}

DistinctTargets ==
  \A u, w \in Updates : u # w => Own(u) \cap Own(w) = {}

TargetInv ==
  /\ \A u \in Updates : obj[u].target \in Own(u) /\ seen[u].target \in Own(u)
  /\ worker # Idle => worker.inst.target \in Own(worker.u)

\* A snapshot that only the cache still shows was for a firmware flashed since.
GhostInv ==
  \A u \in Updates : \A v \in Own(u) : v \in snapSeen \ snap => u \in dev.by

\* Before the first firmware the snapshot is there; it is deleted after it.
GuardInv ==
  worker # Idle =>
    /\ worker.pc \in {"confirm", "hop"} /\ worker.u \notin dev.by
         => worker.inst.target \in snap
    /\ worker.pc = "unsnap" => worker.u \in dev.by

SnapshotInv == TypeOK /\ TargetInv /\ GhostInv /\ GuardInv

\* The worker goes on with the same update and the same target.
Continues ==
  /\ worker # Idle /\ worker' # Idle
  /\ worker'.u = worker.u /\ worker'.inst.target = worker.inst.target

\* How the worker comes to the phases around the firmware.
LEMMA WorkerMoves ==
  ASSUME TypeOK, [Next]_vars
  PROVE  \/ worker' = Idle
         \/ \E u \in Updates : Begin(u)
         \/ /\ Continues
            /\ \/ worker'.pc \notin {"confirm", "hop", "unsnap"}
               \/ worker'.pc = worker.pc
               \/ worker'.pc = "confirm" /\ (SnapshotFound \/ CreateSnapshot)
               \/ worker'.pc = "hop" /\ worker.pc \in {"confirm", "unsnap"}
               \/ worker'.pc = "unsnap" /\ PostFirmware
<1> DEFINE Goal == \/ worker' = Idle
                   \/ \E u \in Updates : Begin(u)
                   \/ /\ Continues
                      /\ \/ worker'.pc \notin {"confirm", "hop", "unsnap"}
                         \/ worker'.pc = worker.pc
                         \/ worker'.pc = "confirm" /\ (SnapshotFound \/ CreateSnapshot)
                         \/ worker'.pc = "hop" /\ worker.pc \in {"confirm", "unsnap"}
                         \/ worker'.pc = "unsnap" /\ PostFirmware
<1>1. ASSUME NEW u \in Updates, Outdated(u)
      PROVE  Goal
  <2>1. CASE worker = Idle
    BY <1>1, <2>1 DEF Outdated
  <2>2. CASE worker # Idle
    <3>1. worker \in Task
      BY <2>2 DEF TypeOK
    <3>2. /\ worker'.pc = worker.pc /\ worker'.u = worker.u
          /\ worker'.inst = worker.inst
      BY <1>1, <3>1 DEF Outdated, Task
    <3>3. worker' # Idle
      BY <3>1, <3>2 DEF Idle, Task, Phases
    <3> QED
      BY <2>2, <3>2, <3>3 DEF Continues
  <2> QED
    BY <2>1, <2>2
<1>2. CASE UNCHANGED worker
  BY <1>2 DEF Continues
<1>3. CASE AskVersion \/ ChoosePath \/ TakeBackup \/ KeepBackup \/ StepsDone
  <2>1. worker \in Task /\ worker # Idle
    BY <1>3, AtTask DEF AskVersion, ChoosePath, TakeBackup, KeepBackup, StepsDone, Phases
  <2>2. \/ worker' = Idle
        \/ /\ worker'.u = worker.u /\ worker'.inst = worker.inst
           /\ worker'.pc \in {"final", "choose", "backup", "record"}
    BY <1>3, <2>1
       DEF AskVersion, ChoosePath, TakeBackup, KeepBackup, StepsDone, Answered, GiveUp, Task
  <2> QED
    BY <2>1, <2>2 DEF Continues, Idle
<1>4. CASE RequestPath \/ CallFails \/ Finish \/ Restart
  BY <1>4 DEF RequestPath, CallFails, Finish, Restart, Answered, GiveUp
<1>5. CASE RecordBackup \/ ConfirmStatus
  <2>1. worker \in Task /\ worker # Idle
    BY <1>5, AtTask DEF RecordBackup, ConfirmStatus, Phases
  <2>2. \A q \in Phases : /\ Written(q).u = worker.u /\ Written(q).pc = q
                          /\ Written(q).inst.target = worker.inst.target
    BY <2>1 DEF Written, Task, Object
  <2>3. CASE RecordBackup
    BY <2>1, <2>2, <2>3 DEF RecordBackup, Answered, GiveUp, Continues, Idle, Phases
  <2>4. CASE ConfirmStatus
    BY <2>1, <2>2, <2>4 DEF ConfirmStatus, Answered, GiveUp, Continues, Idle, Phases, At
  <2> QED
    BY <1>5, <2>3, <2>4
<1>6. CASE SnapshotFound \/ CreateSnapshot
  <2>1. worker \in Task /\ worker # Idle
    BY <1>6, AtTask DEF SnapshotFound, CreateSnapshot, Phases
  <2>2. \/ worker' = Idle
        \/ /\ worker'.u = worker.u /\ worker'.inst = worker.inst
           /\ worker'.pc = "confirm"
    BY <1>6, <2>1 DEF SnapshotFound, CreateSnapshot, Answered, GiveUp, Task
  <2> QED
    BY <1>6, <2>1, <2>2 DEF Continues, Idle
<1>7. CASE PostFirmware
  <2>1. worker \in Task /\ worker # Idle
    BY <1>7, AtTask DEF PostFirmware, Phases
  <2>2. \/ worker' = Idle
        \/ /\ worker'.u = worker.u /\ worker'.inst = worker.inst
           /\ worker'.pc = "unsnap"
    BY <1>7, <2>1 DEF PostFirmware, Answered, GiveUp, Task
  <2> QED
    BY <1>7, <2>1, <2>2 DEF Continues, Idle
<1>8. CASE DeleteSnapshot
  <2>1. worker \in Task /\ worker # Idle /\ worker.pc = "unsnap"
    BY <1>8, AtTask DEF DeleteSnapshot, Phases, At
  <2>2. \/ worker' = Idle
        \/ /\ worker'.u = worker.u /\ worker'.inst = worker.inst
           /\ worker'.pc = "hop"
    BY <1>8, <2>1 DEF DeleteSnapshot, Answered, GiveUp, Task
  <2> QED
    BY <2>1, <2>2 DEF Continues, Idle
<1>9. CASE \E u \in Updates, v \in Versions : EditSpec(u, v)
  BY <1>1, <1>9 DEF EditSpec
<1>10. CASE \E u \in Updates : DeleteUpdate(u)
  BY <1>1, <1>10 DEF DeleteUpdate
<1>11. CASE \/ \E u \in Updates : SyncUpdate(u) \/ BeginGone(u)
            \/ SyncPaths \/ SyncSnapshots \/ FirewallProgress
            \/ \E r \in Ranges : PathPublished(r)
            \/ Booted
            \/ UNCHANGED vars
  BY <1>2, <1>11
     DEF SyncUpdate, BeginGone, SyncPaths, SyncSnapshots, FirewallProgress,
         PathPublished, Booted, vars
<1> QED
  BY <1>3, <1>4, <1>5, <1>6, <1>7, <1>8, <1>9, <1>10, <1>11
     DEF Next, Environment, Reconcile

\* Firmwares are flashed for good; snapshots go only in DeleteSnapshot; the
\* cache shows what there was or what there is.
LEMMA SnapshotsChange ==
  ASSUME TypeOK, [Next]_vars
  PROVE  /\ dev.by \subseteq dev'.by
         /\ dev'.by # dev.by => PostFirmware
         /\ PostFirmware => dev'.by = dev.by \cup {worker.u}
         /\ snap \subseteq snap' \/ DeleteSnapshot
         /\ snapSeen' = snapSeen \/ (snapSeen' = snap /\ snap' = snap)
<1>1. PostFirmware => dev'.by = dev.by \cup {worker.u}
  BY DEF PostFirmware, TypeOK, Device
<1>2. Booted => dev'.by = dev.by
  BY DEF Booted, TypeOK, Device
<1>3. CASE PostFirmware
  BY <1>1, <1>3 DEF PostFirmware, snapshots
<1>4. CASE ~PostFirmware
  <2>1. dev' = dev \/ Booted
    BY <1>4 DEF Next, Environment, Reconcile, vars, EditSpec, DeleteUpdate, SyncUpdate,
         SyncPaths, SyncSnapshots, FirewallProgress, PathPublished, BeginGone, Begin,
         AskVersion, ChoosePath, RequestPath, TakeBackup, KeepBackup, RecordBackup,
         SnapshotFound, CreateSnapshot, ConfirmStatus, DeleteSnapshot, StepsDone, Finish,
         CallFails, Restart
  <2>2. \/ UNCHANGED snapshots
        \/ SyncSnapshots \/ CreateSnapshot \/ DeleteSnapshot \/ Restart
    BY <1>4 DEF Next, Environment, Reconcile, vars, EditSpec, DeleteUpdate, SyncUpdate,
         SyncPaths, FirewallProgress, PathPublished, Booted, BeginGone, Begin,
         AskVersion, ChoosePath, RequestPath, TakeBackup, KeepBackup, RecordBackup,
         SnapshotFound, ConfirmStatus, StepsDone, Finish, CallFails
  <2>3. /\ snap \subseteq snap' \/ DeleteSnapshot
        /\ snapSeen' = snapSeen \/ (snapSeen' = snap /\ snap' = snap)
    BY <2>2 DEF snapshots, SyncSnapshots, CreateSnapshot, DeleteSnapshot, Restart
  <2> QED
    BY <1>2, <1>4, <2>1, <2>3
<1> QED
  BY <1>3, <1>4

\* Users ask an update for its own versions only, and copies are copies of that.
LEMMA TargetStep ==
  ASSUME TypeOK, TargetInv, [Next]_vars
  PROVE  TargetInv'
<1>1. \A u \in Updates : obj'[u].target \in Own(u)
  <2>1. ASSUME NEW u \in Updates, NEW v \in Versions, EditSpec(u, v)
        PROVE  \A w \in Updates : obj'[w].target \in Own(w)
    BY <2>1 DEF EditSpec, TypeOK, Object, TargetInv, Own
  <2>2. ASSUME NEW u \in Updates, DeleteUpdate(u)
        PROVE  \A w \in Updates : obj'[w].target \in Own(w)
    BY <2>2 DEF DeleteUpdate, TypeOK, Object, TargetInv
  <2>3. StatusUpdate => \A w \in Updates : obj'[w].target \in Own(w)
    BY DEF StatusUpdate, TypeOK, Object, TargetInv
  <2>4. \/ \E u \in Updates, v \in Versions : EditSpec(u, v)
        \/ \E u \in Updates : DeleteUpdate(u)
        \/ StatusUpdate
        \/ UNCHANGED obj
    BY DEF Next, Environment, Reconcile, vars, objects, SyncUpdate, SyncPaths,
         SyncSnapshots, FirewallProgress, PathPublished, Booted, BeginGone, Begin,
         AskVersion, ChoosePath, RequestPath, TakeBackup, KeepBackup, RecordBackup,
         SnapshotFound, CreateSnapshot, ConfirmStatus, PostFirmware, DeleteSnapshot,
         StepsDone, Finish, CallFails, Restart
  <2> QED
    BY <2>1, <2>2, <2>3, <2>4 DEF TargetInv
<1>2. \A u \in Updates : seen'[u].target \in Own(u)
  <2>1. \A u \in Updates : seen'[u] \in {seen[u], obj[u]}
    <3>1. ASSUME NEW u \in Updates, SyncUpdate(u)
          PROVE  \A w \in Updates : seen'[w] \in {seen[w], obj[w]}
      BY <3>1 DEF SyncUpdate, TypeOK
    <3>2. Restart => \A w \in Updates : seen'[w] \in {seen[w], obj[w]}
      BY DEF Restart
    <3>3. (\E u \in Updates : SyncUpdate(u)) \/ Restart \/ UNCHANGED seen
      BY DEF Next, Environment, Reconcile, vars, objects, EditSpec, DeleteUpdate,
         SyncPaths, SyncSnapshots, FirewallProgress, PathPublished, Booted, BeginGone,
         Begin, AskVersion, ChoosePath, RequestPath, TakeBackup, KeepBackup,
         RecordBackup, SnapshotFound, CreateSnapshot, ConfirmStatus, PostFirmware,
         DeleteSnapshot, StepsDone, Finish, CallFails, StatusUpdate
    <3> QED
      BY <3>1, <3>2, <3>3
  <2> QED
    BY <2>1 DEF TargetInv
<1>3. worker' # Idle => worker'.inst.target \in Own(worker'.u)
  <2>1. ASSUME NEW u \in Updates, Begin(u)
        PROVE  worker'.inst.target \in Own(worker'.u)
    BY <2>1 DEF Begin, TargetInv
  <2> QED
    BY <2>1, WorkerMoves DEF Continues, TargetInv
<1> QED
  BY <1>1, <1>2, <1>3 DEF TargetInv

\* The deletion of one update's snapshot leaves no other update a ghost.
LEMMA GhostStep ==
  ASSUME DistinctTargets, SnapshotInv, [Next]_vars
  PROVE  GhostInv'
<1> USE DEF SnapshotInv
<1>1. SUFFICES ASSUME NEW u \in Updates, NEW v \in Own(u), v \in snapSeen' \ snap'
               PROVE  u \in dev'.by
  BY DEF GhostInv, Own
<1>2. v \in snapSeen /\ snapSeen' = snapSeen
  BY <1>1, SnapshotsChange
<1>3. CASE v \notin snap
  BY <1>2, <1>3, SnapshotsChange DEF GhostInv
<1>4. CASE v \in snap
  <2>1. DeleteSnapshot
    BY <1>1, <1>4, SnapshotsChange
  <2>2. worker \in Task /\ worker # Idle /\ worker.pc = "unsnap"
    BY <2>1, AtTask DEF DeleteSnapshot, Phases, At
  <2>3. v = worker.inst.target
    BY <1>1, <1>4, <2>1 DEF DeleteSnapshot
  <2>4. v \in Own(worker.u) /\ worker.u \in Updates
    BY <2>2, <2>3 DEF TargetInv, Task
  <2>5. u = worker.u
    BY <2>4 DEF DistinctTargets
  <2> QED
    BY <2>2, <2>5, SnapshotsChange DEF GuardInv
<1> QED
  BY <1>3, <1>4

\* A snapshot is found, or made, before the first firmware, and stays until it.
LEMMA GuardStep ==
  ASSUME SnapshotInv, [Next]_vars
  PROVE  GuardInv'
<1> USE DEF SnapshotInv
<1>1. CASE worker' = Idle
  BY <1>1 DEF GuardInv
<1>2. ASSUME NEW u \in Updates, Begin(u)
      PROVE  GuardInv'
  BY <1>2 DEF Begin, GuardInv
<1>3. CASE DeleteSnapshot
  <2>1. worker # Idle /\ worker.pc = "unsnap"
    BY <1>3, AtTask DEF DeleteSnapshot, Phases, At
  <2>2. worker.u \in dev'.by
    BY <2>1, SnapshotsChange DEF GuardInv
  <2>3. worker' = Idle \/ worker'.u = worker.u
    BY <1>3, <2>1, WorkerMoves DEF Continues, Begin
  <2> QED
    BY <2>2, <2>3 DEF GuardInv
<1>4. CASE Continues /\ ~DeleteSnapshot
  <2>1. worker.inst.target \in snap => worker'.inst.target \in snap'
    BY <1>4, SnapshotsChange DEF Continues
  <2>2. worker.u \in dev.by => worker'.u \in dev'.by
    BY <1>4, SnapshotsChange DEF Continues
  <2>3. CASE SnapshotFound \/ CreateSnapshot
    <3>1. worker \in Task /\ worker # Idle
      BY <2>3, AtTask DEF SnapshotFound, CreateSnapshot, Phases
    <3>2. worker.u \in Updates /\ worker.inst.target \in Own(worker.u)
      BY <3>1 DEF Task, TargetInv
    <3>3. SnapshotFound => worker.inst.target \in snap \/ worker.u \in dev.by
      BY <3>2 DEF SnapshotFound, GhostInv
    <3>4. CreateSnapshot => worker.inst.target \in snap'
      BY DEF CreateSnapshot
    <3>5. worker' = Idle \/ worker'.pc = "confirm"
      BY <2>3, <3>1 DEF SnapshotFound, CreateSnapshot, Answered, GiveUp, Task
    <3> QED
      BY <1>4, <2>1, <2>2, <2>3, <3>3, <3>4, <3>5 DEF GuardInv, Continues
  <2>4. CASE PostFirmware
    <3>1. worker'.u \in dev'.by
      BY <1>4, <2>4, SnapshotsChange DEF Continues
    <3> QED
      BY <3>1 DEF GuardInv
  <2>5. CASE ~(SnapshotFound \/ CreateSnapshot \/ PostFirmware)
    <3>1. \/ worker'.pc \notin {"confirm", "hop", "unsnap"}
          \/ worker'.pc = worker.pc
          \/ worker'.pc = "hop" /\ worker.pc \in {"confirm", "unsnap"}
      BY <1>4, <2>5, WorkerMoves DEF Continues, Begin
    <3> QED
      BY <1>4, <2>1, <2>2, <3>1 DEF GuardInv, Continues
  <2> QED
    BY <2>3, <2>4, <2>5
<1> QED
  BY <1>1, <1>2, <1>3, <1>4, WorkerMoves

\* FirstFirmwareUnderSnapshot: for updates that are never asked for the same
\* version, the first firmware of each is accepted under the snapshot of its
\* target, whatever the cache shows, whatever is edited, lost or restarted.
THEOREM UnderSnapshot ==
  ASSUME DistinctTargets
  PROVE  Spec => FirstFirmwareUnderSnapshot
<1>1. Init => SnapshotInv
  <2> SUFFICES ASSUME Init PROVE SnapshotInv
    OBVIOUS
  <2>1. TypeOK
    BY DEF Init, TypeOK, Object, BackupName, Device, PathState, Idle, Ranges
  <2>2. TargetInv
    BY DEF Init, TargetInv, Own
  <2> QED
    BY <2>1, <2>2 DEF Init, SnapshotInv, GhostInv, GuardInv
<1>2. SnapshotInv /\ [Next]_vars => SnapshotInv'
  BY TypeStep, TargetStep, GhostStep, GuardStep DEF SnapshotInv
<1>3. SnapshotInv /\ [Next]_vars
        => [dev'.by # dev.by => worker.inst.target \in snap]_vars
  <2> SUFFICES ASSUME SnapshotInv, [Next]_vars, dev'.by # dev.by
               PROVE  worker.inst.target \in snap
    OBVIOUS
  <2>1. PostFirmware /\ worker.u \notin dev.by
    BY SnapshotsChange DEF SnapshotInv
  <2>2. worker # Idle /\ worker.pc = "hop"
    BY <2>1, AtTask DEF PostFirmware, Phases, At, SnapshotInv
  <2> QED
    BY <2>1, <2>2 DEF SnapshotInv, GuardInv
<1> QED
  BY <1>1, <1>2, <1>3, PTL DEF Spec, FirstFirmwareUnderSnapshot

=============================================================================
