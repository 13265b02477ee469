-------------------------- MODULE FortigateUpdate --------------------------
(***************************************************************************)
(* The firmware upgrade of one FortiGate firewall, as the reconciler of    *)
(* FortigateUpdate drives it (fortigateupdate_controller.go,               *)
(* upgrade_firewall.go, upgrade_firewall_ssh.go, send_api_request.go).     *)
(*                                                                         *)
(* Actors: the single worker of the controller, the API server, the        *)
(* informer caches the worker reads through, the users who edit and delete *)
(* FortigateUpdate objects, the FortigateUpdatePath controller, the        *)
(* firewall itself and the S3 bucket.  Every object is read from a cache   *)
(* that may lag; every status write carries the resourceVersion that was   *)
(* read and fails when the object has changed since.                       *)
(***************************************************************************)
EXTENDS Integers, Sequences, FiniteSets

CONSTANTS
  Updates,        \* the FortigateUpdate objects, all naming the same firewall
  Versions,       \* firmware versions, ordered as semver orders them
  FirstVersion,   \* the version the firewall runs at the start
  FirstTarget,    \* FirstTarget[u]: spec.newVersion when u is created
  Targets,        \* Targets[u]: the versions its users ever ask u for
  UserPaths,      \* upgrade paths <<start, new>> a user has already published
  Route,          \* Route[<<start, new>>]: the portal's answer, current version first
  MaxEdits,       \* bound on the edits of each spec
  None            \* an empty status.backupName; nothing being installed

ASSUME VersionsAssumption ==
  /\ Versions \subseteq Nat
  /\ FirstVersion \in Versions
  /\ FirstTarget \in [Updates -> Versions]
  /\ Targets \in [Updates -> SUBSET Versions]

ASSUME RouteAssumption ==
  /\ UserPaths \subseteq Versions \X Versions
  /\ Route \in [Versions \X Versions -> Seq(Versions)]

ASSUME BoundAssumption == MaxEdits \in Nat

\* A configuration the firewall can be asked for: the version it was saved
\* under and the updates that had flashed a firmware by then.
Config == [version : Versions, by : SUBSET Updates]

ASSUME NoneAssumption == None \notin Config \cup Versions

Ranges == Versions \X Versions

VARIABLES
  obj,       \* the FortigateUpdate objects in the API server
  seen,      \* the copies of them in the informer's cache
  latest,    \* the updates whose cached copy has the current resourceVersion
  queue,     \* the controller's work queue
  worker,    \* the local variables of the Reconcile in progress
  fw,        \* the FortigateFirewall object: absent, without a token, with one
  paths,     \* the FortigateUpdatePath objects, by range
  pathSeen,  \* the copies of them in the informer's cache
  snap,      \* the VirtualMachineSnapshot objects, by the version in their name
  snapSeen,  \* the copies of them in the informer's cache
  dev,       \* the firewall
  saved,     \* the configurations stored whole in the bucket
  blank      \* the backup names under which an empty file was stored

objects == <<obj, seen, latest>>
pathObjects == <<paths, pathSeen>>
snapshots == <<snap, snapSeen>>
bucket == <<saved, blank>>
vars == <<objects, queue, worker, fw, pathObjects, snapshots, dev, bucket>>

(***************************************************************************)
(* A backup file is named after the firewall and the second it was taken   *)
(* in, so a name stands for one configuration: the model names a backup by *)
(* the configuration that was captured under that name.                    *)
(***************************************************************************)
BackupName == Config \cup {None}

Object == [target : Versions, gen : 0..MaxEdits, backup : BackupName,
           available : BOOLEAN, live : BOOLEAN]

Idle == [pc |-> "idle"]

Phases == {"ask", "choose", "backup", "record", "snapshot", "confirm", "hop",
           "unsnap", "final"}

\* u: the object under reconciliation; inst: its in-memory copy; fresh: that
\* copy's resourceVersion is the current one; hop: the step to post next, the
\* first of the path being the version already there; name: the BackupName of
\* statusInfo.
Task == [pc : Phases, u : Updates, inst : Object, fresh : BOOLEAN,
         version : Versions \cup {None}, steps : Seq(Versions), hop : Nat \ {0, 1},
         name : BackupName]

PathState == {"absent", "pending", "valid"}

Device == [version : Versions, installing : Versions \cup {None},
           by : SUBSET Updates]

\* Every variable holds a value of its kind: in particular the recorded
\* backup is a configuration some firewall state had, and each step of the
\* path in memory is a version.
TypeOK ==
  /\ obj \in [Updates -> Object]
  /\ seen \in [Updates -> Object]
  /\ latest \subseteq Updates
  /\ queue \subseteq Updates
  /\ worker \in Task \cup {Idle}
  /\ fw \in {"absent", "tokenless", "ready"}
  /\ paths \in [Ranges -> PathState]
  /\ pathSeen \in [Ranges -> PathState]
  /\ snap \subseteq Versions
  /\ snapSeen \subseteq Versions
  /\ dev \in Device
  /\ saved \subseteq Config
  /\ blank \subseteq BackupName

Init ==
  /\ obj = [u \in Updates |->
              [target |-> FirstTarget[u], gen |-> 0, backup |-> None,
               available |-> FALSE, live |-> TRUE]]
  /\ seen = obj
  /\ latest = Updates
  /\ queue = Updates
  /\ worker = Idle
  /\ fw = "absent"
  /\ paths = [r \in Ranges |-> IF r \in UserPaths THEN "valid" ELSE "absent"]
  /\ pathSeen = paths
  /\ snap = {}
  /\ snapSeen = {}
  /\ dev = [version |-> FirstVersion, installing |-> None, by |-> {}]
  /\ saved = {}
  /\ blank = {}

----------------------------------------------------------------------------
(***************************************************************************)
(* The rest of the cluster.                                                *)
(***************************************************************************)

\* A write of u by somebody else leaves the cache and the worker's copy behind.
Outdated(u) ==
  /\ latest' = latest \ {u}
  /\ worker' = IF worker # Idle /\ worker.u = u
               THEN [worker EXCEPT !.fresh = FALSE] ELSE worker

EditSpec(u, v) ==
  /\ obj[u].live
  /\ obj[u].gen < MaxEdits
  /\ v \in Targets[u]
  /\ v # obj[u].target
  /\ obj' = [obj EXCEPT ![u].target = v, ![u].gen = @ + 1]
  /\ Outdated(u)
  /\ UNCHANGED <<seen, queue, fw, pathObjects, snapshots, dev, bucket>>

DeleteUpdate(u) ==
  /\ obj[u].live
  /\ obj' = [obj EXCEPT ![u].live = FALSE]
  /\ Outdated(u)
  /\ UNCHANGED <<seen, queue, fw, pathObjects, snapshots, dev, bucket>>

\* The informer delivers u.  GenerationChangedPredicate lets an edit or a
\* deletion through to the queue and drops the operator's own status writes.
SyncUpdate(u) ==
  /\ u \notin latest
  /\ seen' = [seen EXCEPT ![u] = obj[u]]
  /\ latest' = latest \cup {u}
  /\ queue' = IF seen[u].gen # obj[u].gen \/ seen[u].live # obj[u].live
              THEN queue \cup {u} ELSE queue
  /\ UNCHANGED <<obj, worker, fw, pathObjects, snapshots, dev, bucket>>

SyncPaths ==
  /\ pathSeen # paths
  /\ pathSeen' = paths
  /\ UNCHANGED <<objects, queue, worker, fw, paths, snapshots, dev, bucket>>

SyncSnapshots ==
  /\ snapSeen # snap
  /\ snapSeen' = snap
  /\ UNCHANGED <<objects, queue, worker, fw, pathObjects, snap, dev, bucket>>

\* The FortigateFirewall controller creates the firewall and, once it has
\* talked to it, stores the API token in status.token.
FirewallProgress ==
  /\ \/ fw = "absent" /\ fw' = "tokenless"
     \/ fw = "tokenless" /\ fw' = "ready"
  /\ UNCHANGED <<objects, queue, worker, pathObjects, snapshots, dev, bucket>>

\* The FortigateUpdatePath controller stores the portal's answer in the status.
PathPublished(r) ==
  /\ paths[r] = "pending"
  /\ paths' = [paths EXCEPT ![r] = "valid"]
  /\ UNCHANGED <<objects, queue, worker, fw, pathSeen, snapshots, dev, bucket>>

\* The firewall has rebooted into the firmware it accepted.
Booted ==
  /\ dev.installing # None
  /\ dev' = [dev EXCEPT !.version = dev.installing, !.installing = None]
  /\ UNCHANGED <<objects, queue, worker, fw, pathObjects, snapshots, bucket>>

----------------------------------------------------------------------------
(***************************************************************************)
(* The worker.  A Reconcile ends by an error (GiveUp: the rate limiter     *)
(* puts the object back), by RequeueAfter (the same), or without either.   *)
(* A call over the network may take effect and still report an error.      *)
(***************************************************************************)

At(p) == worker.pc = p

\* Mutant of GiveUp: the error is swallowed, the object not put back.
GiveUpForGood ==
  /\ worker' = Idle
  /\ UNCHANGED queue

GiveUp ==
  /\ worker' = Idle
  /\ queue' = queue \cup {worker.u}

\* The call took effect: the worker learns of it and goes on, or its answer
\* is lost and the worker sees an error.
Answered(next) ==
  \/ worker' = next /\ UNCHANGED queue
  \/ GiveUp

\* Any call may fail without effect: every "return err" of the handlers.
CallFails ==
  /\ worker # Idle
  /\ GiveUp
  /\ UNCHANGED <<objects, fw, pathObjects, snapshots, dev, bucket>>

\* A deleted object is not found: IgnoreNotFound.
BeginGone(u) ==
  /\ worker = Idle /\ u \in queue
  /\ ~seen[u].live
  /\ queue' = queue \ {u}
  /\ UNCHANGED <<objects, worker, fw, pathObjects, snapshots, dev, bucket>>

\* The update is read from the cache.  While the firewall or its token is
\* missing the object only goes back to the queue.
Begin(u) ==
  /\ worker = Idle /\ u \in queue
  /\ seen[u].live
  /\ fw = "ready"
  /\ queue' = queue \ {u}
  /\ worker' = [pc |-> "ask", u |-> u, inst |-> seen[u], fresh |-> u \in latest,
                version |-> None, steps |-> <<>>, hop |-> 2,
                name |-> seen[u].backup]
  /\ UNCHANGED <<objects, fw, pathObjects, snapshots, dev, bucket>>

\* GETFWMODEL and GETFWVERSION; a rebooting firewall does not answer.
AskVersion ==
  /\ At("ask")
  /\ dev.installing = None
  /\ worker' = [worker EXCEPT !.version = dev.version,
                  !.pc = IF dev.version = worker.inst.target
                         THEN "final" ELSE "choose"]
  /\ UNCHANGED <<objects, queue, fw, pathObjects, snapshots, dev, bucket>>

\* GetStatusByParams takes the first cached path whose range holds the target:
\* neither the current version nor PathStatusValid is looked at.
InRange(v, r) == r[1] <= v /\ v <= r[2]

Candidates(v) == {r \in Ranges : pathSeen[r] # "absent" /\ InRange(v, r)}

StepsOf(r) == IF pathSeen[r] = "valid" THEN Route[r] ELSE <<>>

ChoosePath ==
  /\ At("choose")
  /\ \E r \in Candidates(worker.inst.target) :
       worker' = [worker EXCEPT !.pc = "backup", !.steps = StepsOf(r)]
  /\ UNCHANGED <<objects, queue, fw, pathObjects, snapshots, dev, bucket>>

\* No path in the cache: it is created (or found to exist already), and the
\* update comes back after a minute.
RequestPath ==
  /\ At("choose")
  /\ Candidates(worker.inst.target) = {}
  /\ LET r == <<worker.version, worker.inst.target>>
     IN  paths' = IF paths[r] = "absent"
                  THEN [paths EXCEPT ![r] = "pending"] ELSE paths
  /\ GiveUp
  /\ UNCHANGED <<objects, fw, pathSeen, snapshots, dev, bucket>>

\* Mutant of CurrentConfig: the backup is filed under the version about to run.
NextConfig == [version |-> dev.installing, by |-> dev.by]

CurrentConfig == [version |-> dev.version, by |-> dev.by]

\* Mutant of TakeBackup: the test of the recorded name is dropped.
TakeBackupAgain ==
  /\ At("backup")
  /\ dev.installing = None
  /\ saved' = saved \cup {CurrentConfig}
  /\ Answered([worker EXCEPT !.pc = "record", !.name = CurrentConfig])
  /\ UNCHANGED <<objects, fw, pathObjects, snapshots, dev, blank>>

\* Mutant of TakeBackup: a failed PutObject is not reported.
TakeBackupUnsaved ==
  /\ At("backup")
  /\ worker.inst.backup = None
  /\ dev.installing = None
  /\ \E stored \in {{}, {CurrentConfig}} : saved' = saved \cup stored
  /\ Answered([worker EXCEPT !.pc = "record", !.name = CurrentConfig])
  /\ UNCHANGED <<objects, fw, pathObjects, snapshots, dev, blank>>

\* backupFortigateConfig and saveBackupToS3 when no backup is recorded.
TakeBackup ==
  /\ At("backup")
  /\ worker.inst.backup = None
  /\ dev.installing = None
  /\ saved' = saved \cup {CurrentConfig}
  /\ Answered([worker EXCEPT !.pc = "record", !.name = CurrentConfig])
  /\ UNCHANGED <<objects, fw, pathObjects, snapshots, dev, blank>>

\* The same with a backup recorded: its name is kept, the content is the empty
\* string, and writeS3Data (overwrite = false) skips a name that exists.
KeepBackup ==
  /\ At("backup")
  /\ worker.inst.backup # None
  /\ blank' = IF worker.inst.backup \in saved THEN blank
              ELSE blank \cup {worker.inst.backup}
  /\ worker' = [worker EXCEPT !.pc = "record", !.name = worker.inst.backup]
  /\ UNCHANGED <<objects, queue, fw, pathObjects, snapshots, dev, saved>>

\* Mutant of Writable: the status is patched without a resourceVersion.
WritableAlways == TRUE

\* The API server takes a status write made on the current resourceVersion only.
Writable == worker.fresh

\* updateFortigateUpgradeStatus: Available = True and the backup's name.
StatusUpdate ==
  /\ Writable
  /\ obj' = [obj EXCEPT ![worker.u].backup = worker.name,
                        ![worker.u].available = TRUE]
  /\ latest' = latest \ {worker.u}
  /\ UNCHANGED seen

Written(p) ==
  [worker EXCEPT !.pc = p, !.inst.backup = worker.name, !.inst.available = TRUE]

\* The status is written when the backup is in the bucket.
RecordBackup ==
  /\ At("record")
  /\ StatusUpdate
  /\ Answered(Written("snapshot"))
  /\ UNCHANGED <<fw, pathObjects, snapshots, dev, bucket>>

\* Mutant of SnapshotFound: any error of the lookup counts as "it exists".
SnapshotAssumed ==
  /\ At("snapshot")
  /\ worker' = [worker EXCEPT !.pc = "confirm"]
  /\ UNCHANGED <<objects, queue, fw, pathObjects, snapshots, dev, bucket>>

\* triggerKubeVirtVMSnapshot: the cache says the snapshot exists.
SnapshotFound ==
  /\ At("snapshot")
  /\ worker.inst.target \in snapSeen
  /\ worker' = [worker EXCEPT !.pc = "confirm"]
  /\ UNCHANGED <<objects, queue, fw, pathObjects, snapshots, dev, bucket>>

\* The cache says it does not: Create, which fails (CallFails) if it does.
CreateSnapshot ==
  /\ At("snapshot")
  /\ worker.inst.target \notin snapSeen \cup snap
  /\ snap' = snap \cup {worker.inst.target}
  /\ Answered([worker EXCEPT !.pc = "confirm"])
  /\ UNCHANGED <<objects, fw, pathObjects, snapSeen, dev, bucket>>

\* doReconcile writes the status again before the first firmware.
ConfirmStatus ==
  /\ At("confirm")
  /\ StatusUpdate
  /\ Answered(Written("hop"))
  /\ UNCHANGED <<fw, pathObjects, snapshots, dev, bucket>>

\* upgradeFortigateFirmware posts the image of the next step; the firewall
\* accepts it, or refuses it (CallFails).  The next step does not wait for the
\* reboot.
PostFirmware ==
  /\ At("hop")
  /\ worker.hop <= Len(worker.steps)
  /\ dev.installing = None
  /\ dev' = [dev EXCEPT !.installing = worker.steps[worker.hop],
                        !.by = @ \cup {worker.u}]
  /\ Answered([worker EXCEPT !.pc = "unsnap"])
  /\ UNCHANGED <<objects, fw, pathObjects, snapshots, bucket>>

\* deleteKubeVirtVMSnapshot, inside the loop; NotFound counts as success.
DeleteSnapshot ==
  /\ At("unsnap")
  /\ snap' = snap \ {worker.inst.target}
  /\ Answered([worker EXCEPT !.pc = "hop", !.hop = @ + 1])
  /\ UNCHANGED <<objects, fw, pathObjects, snapSeen, dev, bucket>>

StepsDone ==
  /\ At("hop")
  /\ worker.hop > Len(worker.steps)
  /\ worker' = [worker EXCEPT !.pc = "final"]
  /\ UNCHANGED <<objects, queue, fw, pathObjects, snapshots, dev, bucket>>

\* The status is written a last time and Reconcile returns without requeue.
Finish ==
  /\ At("final")
  /\ StatusUpdate
  /\ Answered(Idle)
  /\ UNCHANGED <<fw, pathObjects, snapshots, dev, bucket>>

\* The manager restarts: the work in progress is gone, every object is listed
\* and queued again; the list may itself come from an apiserver's old cache.
Restart ==
  /\ \E fresh \in SUBSET Updates :
       /\ seen' = [u \in Updates |-> IF u \in fresh THEN obj[u] ELSE seen[u]]
       /\ latest' = latest \cup fresh
       /\ queue' = Updates
  /\ worker' = Idle
  /\ pathSeen' = paths
  /\ snapSeen' = snap
  /\ UNCHANGED <<obj, fw, paths, snap, dev, bucket>>

----------------------------------------------------------------------------
Environment ==
  \/ \E u \in Updates, v \in Versions : EditSpec(u, v)
  \/ \E u \in Updates : DeleteUpdate(u) \/ SyncUpdate(u)
  \/ SyncPaths \/ SyncSnapshots
  \/ FirewallProgress
  \/ \E r \in Ranges : PathPublished(r)
  \/ Booted

Reconcile ==
  \/ \E u \in Updates : BeginGone(u) \/ Begin(u)
  \/ AskVersion \/ ChoosePath \/ RequestPath
  \/ TakeBackup \/ KeepBackup \/ RecordBackup
  \/ SnapshotFound \/ CreateSnapshot \/ ConfirmStatus
  \/ PostFirmware \/ DeleteSnapshot \/ StepsDone
  \/ Finish
  \/ CallFails

Next == Environment \/ Reconcile \/ Restart

Spec == Init /\ [][Next]_vars
----------------------------------------------------------------------------
(***************************************************************************)
(* Safety.                                                                 *)
(***************************************************************************)

\* Once any firmware was flashed for an update, its status names a backup that
\* is whole in the bucket and was taken before that firmware: whatever stale
\* copy, conflict, retry or restart came in between (the comment at
\* send_api_request.go:220-223, "wherever the procedure stops, I will have the
\* backup").
BackupBeforeUpgrade ==
  \A u \in dev.by : /\ obj[u].backup # None
                    /\ obj[u].backup \in saved
                    /\ u \notin obj[u].backup.by

\* A recorded backup is never replaced, not even by a worker that read the
\* object before it was recorded and has taken a second backup since.
BackupNameStable ==
  [][\A u \in Updates : obj[u].backup # None => obj'[u].backup = obj[u].backup]_vars

\* The empty string that stands for "a backup exists already" is never what
\* ends up in the bucket: a name reaches the status only after its file.
NoEmptyBackup == blank = {}

\* The first firmware flashed for an update is accepted while the snapshot of
\* the virtual machine made for it exists.  (It holds for updates with
\* different targets; the later firmwares of the same path are flashed without
\* one, because the snapshot is deleted inside the loop.)
FirstFirmwareUnderSnapshot ==
  [][dev'.by # dev.by => worker.inst.target \in snap]_vars

Safe == INSTANCE SafeUpgrade WITH
          secured <- [u \in Updates |-> obj[u].backup],
          archive <- saved,
          device <- dev

\* The reconciler does what SafeUpgrade promises, and everything else it does
\* (stale reads, second backups, conflicts, repeated posts) is a stutter there.
ImplementsSafeUpgrade == Safe!Spec

----------------------------------------------------------------------------
(***************************************************************************)
(* Liveness.  The rate limiter retries without end and faults pass: each   *)
(* call that is tried again and again succeeds in the end (SF, on the      *)
(* outcome in which the worker goes on), and none hangs (WF of CallFails,  *)
(* which is how a conflict or a timeout comes back); informers, the other  *)
(* controllers and the reboot of the firewall make progress (WF).  Nothing *)
(* is assumed of users and of Restart; SteadySpec adds that the manager    *)
(* stops being restarted.                                                  *)
(***************************************************************************)

GoesOn(A) == A /\ worker' # Idle

WorkerFairness ==
  /\ \A u \in Updates : WF_vars(BeginGone(u)) /\ SF_vars(Begin(u))
  /\ SF_vars(AskVersion)
  /\ SF_vars(ChoosePath) /\ SF_vars(RequestPath)
  /\ SF_vars(GoesOn(TakeBackup)) /\ SF_vars(KeepBackup)
  /\ SF_vars(GoesOn(RecordBackup))
  /\ SF_vars(SnapshotFound) /\ SF_vars(GoesOn(CreateSnapshot))
  /\ SF_vars(GoesOn(ConfirmStatus))
  /\ \A v \in Versions :
       SF_vars(GoesOn(PostFirmware) /\ worker.steps[worker.hop] = v)
  /\ SF_vars(GoesOn(DeleteSnapshot))
  /\ SF_vars(StepsDone)
  /\ SF_vars(Finish)
  /\ WF_vars(CallFails)

EnvironmentFairness ==
  /\ \A u \in Updates : WF_vars(SyncUpdate(u))
  /\ WF_vars(SyncPaths) /\ WF_vars(SyncSnapshots)
  /\ WF_vars(FirewallProgress)
  /\ \A r \in Ranges : WF_vars(PathPublished(r))
  /\ WF_vars(Booted)

FairSpec == Spec /\ WorkerFairness /\ EnvironmentFairness

SteadySpec == FairSpec /\ <>[][Environment \/ Reconcile]_vars

Served(u) == obj[u].available /\ dev.version = obj[u].target

\* An update that is not deleted gets the firewall to run spec.newVersion, and
\* it stays there ("make the cluster state reflect the state specified by the
\* user", fortigateupdate_controller.go:56-57).  True of a published path of
\* one hop; false of a path with a stop on the way.
UpgradeCompletes == \A u \in Updates : <>[](obj[u].live => Served(u))

\* An update that reports Available, "applied successfully to Fortigate"
\* (fortigateupdate_controller.go:275-278), and for which nothing is left to
\* do, has its version running or being installed.  False: see the run.
AvailableMeansApplied ==
  \A u \in Updates :
    /\ obj[u].available /\ obj[u].live
    /\ u \in latest /\ u \notin queue /\ worker = Idle
    => obj[u].target \in {dev.version, dev.installing}

=============================================================================
