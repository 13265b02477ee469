------------------------- MODULE FortigateFirewall -------------------------
(***************************************************************************)
(* The life of one FortigateFirewall object: its finalizer, the disks, the *)
(* KubeVirt machine and the Service made for it, the API token taken from  *)
(* the running firewall, and the cleanup when it is deleted                *)
(* (fortigatefirewall_controller.go, create_fortios_vm.go, clone_pvc.go,   *)
(* wait_firewall_ready.go, get_token_api.go).                              *)
(*                                                                         *)
(* The object and the VirtualMachine are read through caches that may lag; *)
(* claims are read and written at the API server; KubeVirt starts and      *)
(* stops machines in its own time.                                         *)
(***************************************************************************)
EXTENDS Integers

CONSTANTS
  Versions,      \* values of spec.fortigateVersion
  Layouts,       \* values of spec.ports
  FirstVersion,  \* spec.fortigateVersion at creation
  FirstLayout,   \* spec.ports at creation
  Uploaded,      \* claims somebody uploaded by hand, as <<kind, version>>
  MaxEdits,      \* bound on the edits of the spec
  MaxKeys,       \* bound on the API keys the firewall generates
  None           \* no token; no machine

Kinds == {"clone", "cloud-init", "fgt"}

ASSUME SpecAssumption ==
  /\ FirstVersion \in Versions
  /\ FirstLayout \in Layouts
  /\ None \notin Layouts \cup Nat
  /\ Uploaded \subseteq Kinds \X Versions

ASSUME BoundAssumption == MaxEdits \in Nat /\ MaxKeys \in Nat

VARIABLES
  obj,      \* the FortigateFirewall object in the API server
  seen,     \* its copy in the informer's cache
  latest,   \* that copy has the current resourceVersion
  queue,    \* the object waits in the work queue
  worker,   \* the local variables of the Reconcile in progress
  claims,   \* the PersistentVolumeClaims of this firewall
  vm,       \* the VirtualMachine object
  vmSeen,   \* its copy in the informer's cache
  vmi,      \* the NICs of the running VirtualMachineInstance
  svc,      \* the versions whose <name>-<version>-ssh-gui Service exists
  key       \* the API key the firewall accepts: how many it has generated

object == <<obj, seen, latest>>
machine == <<vm, vmSeen, vmi>>
vars == <<object, queue, worker, claims, machine, svc, key>>

Keys == 0..MaxKeys

Object == [version : Versions, ports : Layouts, gen : 0..(MaxEdits + 1),
           finalizer : BOOLEAN, deleting : BOOLEAN, live : BOOLEAN,
           token : Keys \cup {None}, available : BOOLEAN]

Machine == [ports : Layouts, version : Versions, stopping : BOOLEAN]

Idle == [pc |-> "idle"]

Phases == {"finalizer", "reread", "clone", "machine", "restart", "service",
           "ready", "token", "status",
           "rm-vm", "rm-vmi", "rm-svc", "rm-fgt", "rm-cloud-init", "unfinalize"}

\* inst: the copy in memory; fresh: its resourceVersion is the current one;
\* token: statusInfo.Token.
Task == [pc : Phases, inst : Object, fresh : BOOLEAN, token : Keys \cup {None}]

\* Every variable holds a value of its kind.
TypeOK ==
  /\ obj \in Object /\ seen \in Object
  /\ latest \in BOOLEAN /\ queue \in BOOLEAN
  /\ worker \in Task \cup {Idle}
  /\ claims \subseteq Kinds \X Versions
  /\ vm \in Machine \cup {None} /\ vmSeen \in Machine \cup {None}
  /\ vmi \in Layouts \cup {None}
  /\ svc \subseteq Versions
  /\ key \in Keys

Init ==
  /\ obj = [version |-> FirstVersion, ports |-> FirstLayout, gen |-> 0,
            finalizer |-> FALSE, deleting |-> FALSE, live |-> TRUE,
            token |-> None, available |-> FALSE]
  /\ seen = obj /\ latest = TRUE /\ queue = TRUE
  /\ worker = Idle
  /\ claims = Uploaded
  /\ vm = None /\ vmSeen = None /\ vmi = None
  /\ svc = {}
  /\ key = 0

----------------------------------------------------------------------------
(***************************************************************************)
(* Users, informers, KubeVirt and the garbage collector.                   *)
(***************************************************************************)

\* A write by somebody else leaves the cache and the worker's copy behind.
Outdated ==
  /\ latest' = FALSE
  /\ worker' = IF worker = Idle THEN Idle ELSE [worker EXCEPT !.fresh = FALSE]

\* The generations that come from edits: a deletion counts as one, too.
Edits == IF obj.deleting THEN obj.gen - 1 ELSE obj.gen

\* The spec may be edited even while the object waits for its finalizer.
EditSpec(v, p) ==
  /\ obj.live
  /\ Edits < MaxEdits
  /\ <<v, p>> # <<obj.version, obj.ports>>
  /\ obj' = [obj EXCEPT !.version = v, !.ports = p, !.gen = @ + 1]
  /\ Outdated
  /\ UNCHANGED <<seen, queue, claims, machine, svc, key>>

\* With a finalizer the object only gets its deletionTimestamp, which counts
\* as a new generation.
DeleteFirewall ==
  /\ obj.live /\ ~obj.deleting
  /\ obj' = IF obj.finalizer
            THEN [obj EXCEPT !.deleting = TRUE, !.gen = @ + 1]
            ELSE [obj EXCEPT !.live = FALSE]
  /\ Outdated
  /\ UNCHANGED <<seen, queue, claims, machine, svc, key>>

\* GenerationChangedPredicate drops the operator's own status writes.
SyncFirewall ==
  /\ ~latest
  /\ seen' = obj /\ latest' = TRUE
  /\ queue' = (queue \/ seen.gen # obj.gen \/ seen.live # obj.live)
  /\ UNCHANGED <<obj, worker, claims, machine, svc, key>>

SyncMachine ==
  /\ vmSeen # vm
  /\ vmSeen' = vm
  /\ UNCHANGED <<object, queue, worker, claims, vm, vmi, svc, key>>

\* RunStrategyAlways: KubeVirt starts the machine when the claims it mounts
\* exist, with the NICs its specification has by then.
MachineStarts ==
  /\ vm # None /\ vmi = None
  /\ ~vm.stopping
  /\ {<<"fgt", vm.version>>, <<"cloud-init", vm.version>>} \subseteq claims
  /\ vmi' = vm.ports
  /\ UNCHANGED <<object, queue, worker, claims, vm, vmSeen, svc, key>>

MachineStops ==
  /\ vm # None /\ vmi # None
  /\ vm.stopping
  /\ vmi' = None
  /\ UNCHANGED <<object, queue, worker, claims, vm, vmSeen, svc, key>>

MachineGone ==
  /\ vm # None /\ vmi = None
  /\ vm.stopping
  /\ vm' = None
  /\ UNCHANGED <<object, queue, worker, claims, vmSeen, vmi, svc, key>>

\* The Services are owned by the object; claims and machine are not.
CollectGarbage ==
  /\ ~obj.live /\ svc # {}
  /\ svc' = {}
  /\ UNCHANGED <<object, queue, worker, claims, machine, key>>

----------------------------------------------------------------------------
(***************************************************************************)
(* The worker.  An error puts the object back into the queue; a call may   *)
(* take effect and still report an error.                                  *)
(***************************************************************************)

At(p) == worker.pc = p

GoTo(p) == [worker EXCEPT !.pc = p]

\* Mutant of GiveUp: the error is swallowed, the object not put back.
GiveUpForGood == worker' = Idle /\ UNCHANGED queue

GiveUp == worker' = Idle /\ queue' = TRUE

Answered(next) ==
  \/ worker' = next /\ UNCHANGED queue
  \/ GiveUp

\* Every "return err": the call had no effect.
CallFails ==
  /\ worker # Idle
  /\ GiveUp
  /\ UNCHANGED <<object, claims, machine, svc, key>>

\* The object is not found: IgnoreNotFound.
BeginGone ==
  /\ worker = Idle /\ queue
  /\ ~seen.live
  /\ queue' = FALSE
  /\ UNCHANGED <<object, worker, claims, machine, svc, key>>

\* Mutant of Entry: the finalizer is never added.
EntryWithoutFinalizer(o) == IF o.deleting THEN "rm-vm" ELSE "reread"

\* Where Reconcile goes with the object it has read.
Entry(o) ==
  IF o.deleting THEN "rm-vm"
  ELSE IF o.finalizer THEN "reread" ELSE "finalizer"

Begin ==
  /\ worker = Idle /\ queue
  /\ seen.live
  /\ queue' = FALSE
  /\ worker' = [pc |-> Entry(seen), inst |-> seen, fresh |-> latest, token |-> None]
  /\ UNCHANGED <<object, claims, machine, svc, key>>

\* Mutant of Writable: writes carry no resourceVersion.
WritableAlways == obj.live

\* The API server takes a write made on the current resourceVersion only.
Writable == worker.fresh

AddFinalizer ==
  /\ At("finalizer")
  /\ Writable
  /\ obj' = [obj EXCEPT !.finalizer = TRUE]
  /\ latest' = FALSE
  /\ Answered([GoTo("reread") EXCEPT !.fresh = FALSE])
  /\ UNCHANGED <<seen, claims, machine, svc, key>>

\* The object is read a second time, from the same cache: it need not show the
\* finalizer just added, nor a deletion that came meanwhile.
Reread ==
  /\ At("reread")
  /\ seen.live
  /\ worker' = [GoTo("clone") EXCEPT !.inst = seen, !.fresh = latest]
  /\ UNCHANGED <<object, queue, claims, machine, svc, key>>

\* A claim is cloned from the golden image unless it is there already.
Cloned(kinds) == claims \cup (kinds \X {worker.inst.version})

\* createPVC: two clones, each tried once; their errors are dropped.
CloneClaims ==
  /\ At("clone")
  /\ \E kinds \in SUBSET {"clone", "cloud-init"} : claims' = Cloned(kinds)
  /\ worker' = GoTo("machine")
  /\ UNCHANGED <<object, queue, machine, svc, key>>

\* Mutant of CreateMachine: the manifest is built without the NICs.
CreateBareMachine ==
  /\ At("machine")
  /\ vmSeen = None /\ vm = None
  /\ vm' = [ports |-> None, version |-> worker.inst.version, stopping |-> FALSE]
  /\ Answered(GoTo("service"))
  /\ UNCHANGED <<object, claims, vmSeen, vmi, svc, key>>

\* No machine in the cache: Create, which fails (CallFails) if there is one.
CreateMachine ==
  /\ At("machine")
  /\ vmSeen = None /\ vm = None
  /\ vm' = [ports |-> worker.inst.ports, version |-> worker.inst.version,
            stopping |-> FALSE]
  /\ Answered(GoTo("service"))
  /\ UNCHANGED <<object, claims, vmSeen, vmi, svc, key>>

\* The cached machine has the NICs of the spec: nothing is written.
KeepMachine ==
  /\ At("machine")
  /\ vmSeen # None
  /\ vmSeen.ports = worker.inst.ports
  /\ worker' = GoTo("service")
  /\ UNCHANGED <<object, queue, claims, machine, svc, key>>

\* It has not: the networks and the interfaces, and only these, are patched.
PatchMachine ==
  /\ At("machine")
  /\ vmSeen # None /\ vm # None
  /\ vmSeen.ports # worker.inst.ports
  /\ vm' = [vm EXCEPT !.ports = worker.inst.ports]
  /\ Answered(GoTo("restart"))
  /\ UNCHANGED <<object, claims, vmSeen, vmi, svc, key>>

\* restartFortigateVM: KubeVirt refuses (CallFails) when nothing is running.
RestartMachine ==
  /\ At("restart")
  /\ vm # None /\ vmi # None
  /\ vmi' = None
  /\ Answered(GoTo("service"))
  /\ UNCHANGED <<object, claims, vm, vmSeen, svc, key>>

CreateService ==
  /\ At("service")
  /\ svc' = svc \cup {worker.inst.version}
  /\ Answered(GoTo("ready"))
  /\ UNCHANGED <<object, claims, machine, key>>

\* An SSH session goes through the Service of the version in the spec.
Reachable == vmi # None /\ worker.inst.version \in svc

\* GetFirewallReady, and the licence: up to twenty tries, then an error.
WaitReady ==
  /\ At("ready")
  /\ Reachable
  /\ worker' = GoTo("token")
  /\ UNCHANGED <<object, queue, claims, machine, svc, key>>

KeepToken ==
  /\ At("token")
  /\ worker.inst.token # None
  /\ worker' = [GoTo("status") EXCEPT !.token = worker.inst.token]
  /\ UNCHANGED <<object, queue, claims, machine, svc, key>>

\* GETTOKEN generates a key, and the key it replaces stops working.  An error
\* is not returned: Reconcile goes on without a token, whether or not the key
\* was generated.
GetToken ==
  /\ At("token")
  /\ worker.inst.token = None
  /\ \/ /\ Reachable /\ key < MaxKeys
        /\ key' = key + 1
        /\ \E t \in {key', None} : worker' = [GoTo("status") EXCEPT !.token = t]
     \/ /\ worker' = GoTo("status")
        /\ UNCHANGED key
  /\ UNCHANGED <<object, queue, claims, machine, svc>>

\* The templates are copied to the bucket (an error returns), then the status
\* is written: Available, and the token.
WriteStatus ==
  /\ At("status")
  /\ Writable
  /\ obj' = [obj EXCEPT !.available = TRUE, !.token = worker.token]
  /\ latest' = FALSE
  /\ Answered(Idle)
  /\ UNCHANGED <<seen, claims, machine, svc, key>>

(* Deletion.  Each call fails with NotFound (CallFails) if there is nothing *)
(* to delete, and the object comes back to the queue.                       *)

DeleteMachine ==
  /\ At("rm-vm")
  /\ vm # None
  /\ vm' = [vm EXCEPT !.stopping = TRUE]
  /\ Answered(GoTo("rm-vmi"))
  /\ UNCHANGED <<object, claims, vmSeen, vmi, svc, key>>

DeleteInstance ==
  /\ At("rm-vmi")
  /\ vmi # None
  /\ vmi' = None
  /\ Answered(GoTo("rm-svc"))
  /\ UNCHANGED <<object, claims, vm, vmSeen, svc, key>>

DeleteService ==
  /\ At("rm-svc")
  /\ worker.inst.version \in svc
  /\ svc' = svc \ {worker.inst.version}
  /\ Answered(GoTo("rm-fgt"))
  /\ UNCHANGED <<object, claims, machine, key>>

\* DeleteFirewallPVC: first the -fgt claim of the spec's version, then its
\* -cloud-init claim; the clone without a suffix is not in the list.
DeleteClaim(k, here, next) ==
  /\ At(here)
  /\ <<k, worker.inst.version>> \in claims
  /\ claims' = claims \ {<<k, worker.inst.version>>}
  /\ Answered(GoTo(next))
  /\ UNCHANGED <<object, machine, svc, key>>

DeleteClaims ==
  \/ DeleteClaim("fgt", "rm-fgt", "rm-cloud-init")
  \/ DeleteClaim("cloud-init", "rm-cloud-init", "unfinalize")

RemoveFinalizer ==
  /\ At("unfinalize")
  /\ Writable
  /\ obj' = [obj EXCEPT !.finalizer = FALSE, !.live = FALSE]
  /\ latest' = FALSE
  /\ Answered(Idle)
  /\ UNCHANGED <<seen, claims, machine, svc, key>>

\* The manager restarts; the list it starts from may be the old copy.
Restart ==
  /\ worker' = Idle
  /\ \/ seen' = obj /\ latest' = TRUE
     \/ UNCHANGED <<seen, latest>>
  /\ queue' = TRUE
  /\ vmSeen' = vm
  /\ UNCHANGED <<obj, claims, vm, vmi, svc, key>>

----------------------------------------------------------------------------
Environment ==
  \/ \E v \in Versions, p \in Layouts : EditSpec(v, p)
  \/ DeleteFirewall
  \/ SyncFirewall \/ SyncMachine
  \/ MachineStarts \/ MachineStops \/ MachineGone
  \/ CollectGarbage

Provide ==
  \/ AddFinalizer \/ Reread \/ CloneClaims
  \/ CreateMachine \/ KeepMachine \/ PatchMachine \/ RestartMachine
  \/ CreateService \/ WaitReady
  \/ KeepToken \/ GetToken \/ WriteStatus

Cleanup ==
  \/ DeleteMachine \/ DeleteInstance \/ DeleteService \/ DeleteClaims
  \/ RemoveFinalizer

Reconcile == BeginGone \/ Begin \/ Provide \/ Cleanup \/ CallFails

Next == Environment \/ Reconcile \/ Restart

Spec == Init /\ [][Next]_vars
----------------------------------------------------------------------------
(***************************************************************************)
(* Safety.                                                                 *)
(***************************************************************************)

\* A machine that KubeVirt keeps running belongs to an object that exists and
\* holds the finalizer: no order of edits, deletions, retries and restarts
\* leaves behind a machine nobody will delete (the finalizer is added before
\* anything is created, fortigatefirewall_controller.go:74-82).
NoOrphanMachine ==
  vm # None /\ ~vm.stopping => obj.live /\ obj.finalizer

\* The token in the status is never replaced or lost while the object exists,
\* though a worker with an older copy may have generated another key.
TokenKept ==
  [][obj.token # None /\ obj'.live => obj'.token = obj.token]_vars

\* When the object disappears with its finalizer, the claims and the Service of
\* the version the spec ends with are gone: an edit that comes between the
\* deletions and the removal of the finalizer sends the worker back.
CleanWhenGone ==
  [][obj.finalizer /\ ~obj'.live =>
       /\ obj.version \notin svc
       /\ {<<"fgt", obj.version>>, <<"cloud-init", obj.version>>} \cap claims = {}]_vars

----------------------------------------------------------------------------
(***************************************************************************)
(* Liveness.  As in FortigateUpdate: the rate limiter retries without end, *)
(* a call that is tried again and again succeeds in the end (SF), none     *)
(* hangs (WF of CallFails), informers, KubeVirt and the garbage collector  *)
(* make progress (WF).  Each run asks for the fairness of the half of the  *)
(* handler its property is about.                                          *)
(***************************************************************************)

GoesOn(A) == A /\ worker' # Idle

Own == {"clone", "cloud-init"} \X {worker.inst.version}

EnvironmentFairness ==
  /\ WF_vars(SyncFirewall) /\ WF_vars(SyncMachine)
  /\ WF_vars(MachineStarts) /\ WF_vars(MachineStops) /\ WF_vars(MachineGone)
  /\ WF_vars(CollectGarbage)
  /\ WF_vars(BeginGone) /\ SF_vars(Begin)
  /\ WF_vars(CallFails)

ProvideFairness ==
  /\ SF_vars(GoesOn(AddFinalizer)) /\ SF_vars(Reread)
  /\ SF_vars(CloneClaims /\ Own \subseteq claims')
  /\ SF_vars(GoesOn(CreateMachine \/ KeepMachine \/ PatchMachine))
  /\ SF_vars(GoesOn(RestartMachine))
  /\ SF_vars(GoesOn(CreateService)) /\ SF_vars(WaitReady)
  /\ SF_vars(KeepToken \/ GetToken)
  /\ SF_vars(WriteStatus)

CleanupFairness ==
  /\ SF_vars(GoesOn(DeleteMachine)) /\ SF_vars(GoesOn(DeleteInstance))
  /\ SF_vars(GoesOn(DeleteService)) /\ SF_vars(GoesOn(DeleteClaims))
  /\ SF_vars(RemoveFinalizer)

ProvideSpec == Spec /\ EnvironmentFairness /\ ProvideFairness

CleanupSpec == Spec /\ EnvironmentFairness /\ CleanupFairness

\* A firewall that is not deleted becomes Available.  True when the -fgt claim
\* of its version was uploaded by hand; false otherwise, because the disk the
\* operator clones has another name than the one the machine mounts.
BecomesAvailable == <>[](obj.live /\ ~obj.deleting => obj.available)

\* A deleted firewall disappears ("Riconciliazione finita, l'oggetto sparirà
\* dal cluster", fortigatefirewall_controller.go:101).  False: a cleanup that
\* is repeated stops at the machine it has already deleted.
DeletionCompletes == obj.deleting ~> ~obj.live

=============================================================================
