---------------------------- MODULE VyosFirewall ----------------------------
(***************************************************************************)
(* The generic Firewall controller (firewall_controller.go,                *)
(* create_vyos_vm.go, clone_pvc.go): claims cloned and waited for, a       *)
(* machine, a Service.  It differs from FortigateFirewall in what it does  *)
(* about errors, which it drops once the finalizer is stored, in having no *)
(* cleanup, and in being woken by every change of the object, its own      *)
(* included.                                                               *)
(*                                                                         *)
(* Users edit the object, delete it, and create it anew under its name,    *)
(* while what was made for its earlier life is still there.                *)
(***************************************************************************)
EXTENDS Integers

CONSTANTS
  Versions,     \* values of spec.version
  Layouts,      \* values of spec.ports
  NoPorts,      \* the layout without ports
  FirstVersion, FirstLayout,  \* the spec at the first creation
  HasCloudInit, \* spec.hasCloudInit
  Immediate,    \* the storage class binds a claim before anything mounts it
  MaxEdits,     \* bound on the edits of the spec
  MaxLives,     \* bound on the times the object is created
  None          \* no machine

ASSUME SpecAssumption ==
  /\ FirstVersion \in Versions /\ FirstLayout \in Layouts
  /\ None \notin Layouts
  /\ HasCloudInit \in BOOLEAN /\ Immediate \in BOOLEAN

ASSUME BoundAssumption == MaxEdits \in Nat /\ MaxLives \in Nat \ {0}

VARIABLES
  obj,      \* the Firewall object in the API server
  seen,     \* its copy in the informer's cache
  latest,   \* that copy has the current resourceVersion
  queue,    \* the object waits in the work queue
  worker,   \* the local variables of the Reconcile in progress
  claims,   \* the PersistentVolumeClaims, as <<kind, version>>
  bound,    \* those that are Bound
  vm,       \* the VirtualMachine object
  vmSeen,   \* its copy in the informer's cache
  vmi,      \* the NICs of the running VirtualMachineInstance
  svc,      \* svc[v]: the life that owns the Service <name>-v-ssh-gui; 0: no Service
  edits,    \* how often the spec was edited
  dropped   \* history: the last Reconcile dropped an error of createFirewall

object == <<obj, seen, latest>>
machine == <<vm, vmSeen, vmi>>
volumes == <<claims, bound>>
vars == <<object, queue, worker, volumes, machine, svc, edits, dropped>>

Kinds == IF HasCloudInit THEN {"os", "cloud-init"} ELSE {"os"}

Claims == Kinds \X Versions

Lives == 1..MaxLives

\* uid: which life of the name this is.
Object == [version : Versions, ports : Layouts, uid : Lives,
           finalizer : BOOLEAN, deleting : BOOLEAN, live : BOOLEAN]

Machine == [ports : Layouts, version : Versions]

ASSUME MachineAssumption == None \notin Machine

Idle == [pc |-> "idle"]

\* The calls of createFirewall; "os" and "cloud-init" wait for the claim.
Building == {"clone", "os", "cloud-init", "machine", "restart", "service"}

Phases == {"finalizer", "unfinalize"} \cup Building

\* fresh: the resourceVersion of inst is the current one.
Task == [pc : Phases, inst : Object, fresh : BOOLEAN]

\* Every variable holds a value of its kind, and only claims are bound.
TypeOK ==
  /\ obj \in Object /\ seen \in Object
  /\ latest \in BOOLEAN /\ queue \in BOOLEAN /\ dropped \in BOOLEAN
  /\ worker \in Task \cup {Idle}
  /\ claims \subseteq Claims /\ bound \subseteq claims
  /\ vm \in Machine \cup {None} /\ vmSeen \in Machine \cup {None}
  /\ vmi \in Layouts \cup {None}
  /\ svc \in [Versions -> Lives \cup {0}]
  /\ edits \in 0..MaxEdits

Born(n, v, p) == [version |-> v, ports |-> p, uid |-> n,
                  finalizer |-> FALSE, deleting |-> FALSE, live |-> TRUE]

Init ==
  /\ obj = Born(1, FirstVersion, FirstLayout)
  /\ seen = obj /\ latest = TRUE /\ queue = TRUE
  /\ worker = Idle
  /\ claims = {} /\ bound = {}
  /\ vm = None /\ vmSeen = None /\ vmi = None
  /\ svc = [v \in Versions |-> 0]
  /\ edits = 0
  /\ dropped = FALSE

----------------------------------------------------------------------------
(* Users, informers, storage, KubeVirt and the garbage collector.          *)

Outdated ==
  /\ latest' = FALSE
  /\ worker' = IF worker = Idle THEN Idle ELSE [worker EXCEPT !.fresh = FALSE]

EditSpec(v, p) ==
  /\ obj.live
  /\ edits < MaxEdits
  /\ <<v, p>> # <<obj.version, obj.ports>>
  /\ obj' = [obj EXCEPT !.version = v, !.ports = p]
  /\ edits' = edits + 1
  /\ Outdated
  /\ UNCHANGED <<seen, queue, volumes, machine, svc, dropped>>

DeleteFirewall ==
  /\ obj.live /\ ~obj.deleting
  /\ obj' = IF obj.finalizer THEN [obj EXCEPT !.deleting = TRUE]
                             ELSE [obj EXCEPT !.live = FALSE]
  /\ Outdated
  /\ UNCHANGED <<seen, queue, volumes, machine, svc, edits, dropped>>

\* The name is used again; its machine and claims may be those of the last life.
CreateAgain(v, p) ==
  /\ ~obj.live /\ obj.uid < MaxLives
  /\ obj' = Born(obj.uid + 1, v, p)
  /\ Outdated
  /\ UNCHANGED <<seen, queue, volumes, machine, svc, edits, dropped>>

\* For() without a predicate: every change wakes the controller.
SyncFirewall ==
  /\ ~latest
  /\ seen' = obj /\ latest' = TRUE
  /\ queue' = TRUE
  /\ UNCHANGED <<obj, worker, volumes, machine, svc, edits, dropped>>

SyncMachine ==
  /\ vmSeen # vm
  /\ vmSeen' = vm
  /\ UNCHANGED <<object, queue, worker, volumes, vm, vmi, svc, edits, dropped>>

Mounts == IF vm = None THEN {} ELSE Kinds \X {vm.version}

\* A class with volumeBindingMode WaitForFirstConsumer binds a claim when a
\* machine that mounts it is to be started.
Bind(c) ==
  /\ c \in claims \ bound
  /\ Immediate \/ c \in Mounts
  /\ bound' = bound \cup {c}
  /\ UNCHANGED <<object, queue, worker, claims, machine, svc, edits, dropped>>

MachineStarts ==
  /\ vm # None /\ vmi = None
  /\ Mounts \subseteq claims
  /\ vmi' = vm.ports
  /\ UNCHANGED <<object, queue, worker, volumes, vm, vmSeen, svc, edits, dropped>>

Owned(v) == obj.live /\ svc[v] = obj.uid

\* The Service goes with the life that owns it.
CollectService(v) ==
  /\ svc[v] # 0 /\ ~Owned(v)
  /\ svc' = [svc EXCEPT ![v] = 0]
  /\ UNCHANGED <<object, queue, worker, volumes, machine, edits, dropped>>

----------------------------------------------------------------------------
(* The worker.  Reconcile returns the errors of its writes of the object   *)
(* (GiveUp); those of createFirewall it drops (Drop).  A call may take     *)
(* effect and still report an error.                                       *)

At(q) == worker.pc = q

GoTo(q) == [worker EXCEPT !.pc = q]

\* Mutant of GiveUp: the error of the finalizer's write is dropped as well.
GiveUpForGood == worker' = Idle /\ UNCHANGED <<queue, dropped>>

GiveUp == worker' = Idle /\ queue' = TRUE /\ UNCHANGED dropped

Drop == worker' = Idle /\ dropped' = TRUE /\ UNCHANGED queue

Proceed(next) == worker' = next /\ UNCHANGED <<queue, dropped>>

\* The finalizer's write fails.
WriteFails ==
  /\ At("finalizer") \/ At("unfinalize")
  /\ GiveUp
  /\ UNCHANGED <<object, volumes, machine, svc, edits>>

\* A call of createFirewall fails without effect; not the waits, which return
\* no error: the storage class is missing, the type is not supported, there are
\* no ports, the machine exists though the cache does not show it, ...
CallFails ==
  /\ worker.pc \in {"clone", "machine", "restart", "service"}
  /\ Drop
  /\ UNCHANGED <<object, volumes, machine, svc, edits>>

BeginGone ==
  /\ worker = Idle /\ queue
  /\ ~seen.live
  /\ queue' = FALSE
  /\ UNCHANGED <<object, worker, volumes, machine, svc, edits, dropped>>

\* Mutant of Entry: the finalizer is not added.
EntryWithoutFinalizer(o) == IF o.deleting THEN "unfinalize" ELSE "clone"

\* Where Reconcile goes with the object it has read.
Entry(o) ==
  IF o.deleting THEN "unfinalize"
  ELSE IF o.finalizer THEN "clone" ELSE "finalizer"

Begin ==
  /\ worker = Idle /\ queue
  /\ seen.live
  /\ queue' = FALSE
  /\ dropped' = FALSE
  /\ worker' = [pc |-> Entry(seen), inst |-> seen, fresh |-> latest]
  /\ UNCHANGED <<object, volumes, machine, svc, edits>>

Writable == worker.fresh

\* Stored, the write may still be reported as failed.
AddFinalizer ==
  /\ At("finalizer")
  /\ Writable
  /\ obj' = [obj EXCEPT !.finalizer = TRUE]
  /\ latest' = FALSE
  /\ \/ Proceed([GoTo("clone") EXCEPT !.inst = obj', !.fresh = FALSE])
     \/ GiveUp
  /\ UNCHANGED <<seen, volumes, machine, svc, edits>>

\* The cleanup is commented out.
RemoveFinalizer ==
  /\ At("unfinalize")
  /\ Writable
  /\ obj' = [obj EXCEPT !.finalizer = FALSE, !.live = FALSE]
  /\ latest' = FALSE
  /\ Proceed(Idle) \/ GiveUp
  /\ UNCHANGED <<seen, volumes, machine, svc, edits>>

\* createPVC: each claim is cloned once, its error dropped.
CloneClaims ==
  /\ At("clone")
  /\ \E kinds \in SUBSET Kinds : claims' = claims \cup (kinds \X {worker.inst.version})
  /\ Proceed(GoTo("os"))
  /\ UNCHANGED <<object, bound, machine, svc, edits>>

AfterWait(k) == IF k = "os" /\ HasCloudInit THEN "cloud-init" ELSE "machine"

\* Mutant of WaitEnds: the claim is waited for even if there is none.
WaitEndsBound(k) == <<k, worker.inst.version>> \in bound

\* CheckFirewallPVC polls until the claim is Bound; without a claim the Get
\* fails, which ends the wait.
WaitEnds(k) == <<k, worker.inst.version>> \notin claims \ bound

AwaitClaim(k) ==
  /\ At(k)
  /\ WaitEnds(k)
  /\ Proceed(GoTo(AfterWait(k)))
  /\ UNCHANGED <<object, volumes, machine, svc, edits>>

\* So does any other error of the Get.
WaitBroken(k) ==
  /\ At(k)
  /\ Proceed(GoTo(AfterWait(k)))
  /\ UNCHANGED <<object, volumes, machine, svc, edits>>

\* Mutant of CreateMachine: the manifest is built without the NICs.
CreateBareMachine ==
  /\ At("machine")
  /\ vmSeen = None /\ vm = None
  /\ vm' = [ports |-> None, version |-> worker.inst.version]
  /\ Proceed(GoTo("service")) \/ Drop
  /\ UNCHANGED <<object, volumes, vmSeen, vmi, svc, edits>>

\* createManifest gives nothing to create if there are no ports.
CreateMachine ==
  /\ At("machine")
  /\ vmSeen = None /\ vm = None
  /\ worker.inst.ports # NoPorts
  /\ vm' = [ports |-> worker.inst.ports, version |-> worker.inst.version]
  /\ Proceed(GoTo("service")) \/ Drop
  /\ UNCHANGED <<object, volumes, vmSeen, vmi, svc, edits>>

KeepMachine ==
  /\ At("machine")
  /\ vmSeen # None
  /\ worker.inst.ports # NoPorts
  /\ vmSeen.ports = worker.inst.ports
  /\ Proceed(GoTo("service"))
  /\ UNCHANGED <<object, volumes, machine, svc, edits>>

\* Of an existing machine only the NICs are compared and patched: it keeps the
\* claims of the version it was created with.
PatchMachine ==
  /\ At("machine")
  /\ vmSeen # None /\ vm # None
  /\ worker.inst.ports # NoPorts
  /\ vmSeen.ports # worker.inst.ports
  /\ vm' = [vm EXCEPT !.ports = worker.inst.ports]
  /\ Proceed(GoTo("restart")) \/ Drop
  /\ UNCHANGED <<object, volumes, vmSeen, vmi, svc, edits>>

\* KubeVirt refuses (CallFails) when nothing is running.
RestartMachine ==
  /\ At("restart")
  /\ vmi # None
  /\ vmi' = None
  /\ Proceed(GoTo("service")) \/ Drop
  /\ UNCHANGED <<object, volumes, vm, vmSeen, svc, edits>>

\* SetControllerReference refuses a Service that another life controls.
CreateService ==
  /\ At("service")
  /\ svc[worker.inst.version] \in {0, worker.inst.uid}
  /\ svc' = [svc EXCEPT ![worker.inst.version] = worker.inst.uid]
  /\ Proceed(Idle) \/ Drop
  /\ UNCHANGED <<object, volumes, machine, edits>>

\* The manager restarts; the list it starts from may be the old copy.
Restart ==
  /\ worker' = Idle
  /\ \/ seen' = obj /\ latest' = TRUE
     \/ UNCHANGED <<seen, latest>>
  /\ queue' = seen'.live
  /\ vmSeen' = vm
  /\ UNCHANGED <<obj, volumes, vm, vmi, svc, edits, dropped>>

----------------------------------------------------------------------------
Users ==
  \/ \E v \in Versions, p \in Layouts : EditSpec(v, p) \/ CreateAgain(v, p)
  \/ DeleteFirewall

Cluster ==
  \/ SyncFirewall \/ SyncMachine
  \/ \E c \in Claims : Bind(c)
  \/ MachineStarts
  \/ \E v \in Versions : CollectService(v)

\* Every step of Reconcile but the end of a wait.
Step ==
  \/ BeginGone \/ Begin
  \/ AddFinalizer \/ RemoveFinalizer \/ WriteFails
  \/ CloneClaims \/ CreateMachine \/ KeepMachine \/ PatchMachine
  \/ RestartMachine \/ CreateService \/ CallFails

Waiting == \E k \in Kinds : AwaitClaim(k) \/ WaitBroken(k)

Next == Users \/ Cluster \/ Step \/ Waiting \/ Restart

Spec == Init /\ [][Next]_vars
----------------------------------------------------------------------------
(***************************************************************************)
(* Safety.                                                                 *)
(***************************************************************************)

\* This step makes or changes something for the firewall.
Makes ==
  \/ claims' # claims \/ vm' # vm
  \/ \E v \in Versions : svc'[v] \notin {svc[v], 0}

\* Whatever is made or changed for a firewall, claims, machine or Service, is
\* made while the object exists, in the life that asked for it, and holds the
\* finalizer: the finalizer is stored first (firewall_controller.go:66-71), and
\* no stale copy, retry or restart starts on the machine of a life that is over.
MadeUnderFinalizer ==
  [][Makes => obj.live /\ obj.finalizer /\ worker.inst.uid = obj.uid]_vars

Quiet == worker = Idle /\ ~queue /\ latest

Provided == obj.finalizer /\ vm # None /\ Owned(obj.version)

\* When nothing is left to do for a live firewall, and the last pass dropped no
\* error, then it has its finalizer, a machine, and the Service of its version,
\* owned by this life and not by an earlier one of the same name: an edit, a
\* conflict or a restart in mid-pass always leads to another pass.
QuietMeansProvided ==
  Quiet /\ obj.live /\ ~obj.deleting /\ ~dropped => Provided

----------------------------------------------------------------------------
(***************************************************************************)
(* Liveness.  The worker takes its next step, the informers deliver and    *)
(* storage binds what it may bind (WF); a write of the object on a current *)
(* copy succeeds if it is tried again and again (SF); nobody breaks a wait *)
(* for the worker's sake, and the manager stops being restarted.           *)
(***************************************************************************)

Fairness ==
  /\ WF_vars(SyncFirewall)
  /\ WF_vars(\E c \in Claims : Bind(c))
  /\ WF_vars(Step)
  /\ WF_vars(\E k \in Kinds : AwaitClaim(k))
  /\ SF_vars(RemoveFinalizer)

SteadySpec == Spec /\ Fairness /\ <>[][Users \/ Cluster \/ Step \/ Waiting]_vars

\* A deleted firewall disappears ("Riconciliazione finita, l'oggetto sparirà
\* dal cluster", firewall_controller.go:90), even if the only worker waits for a
\* claim of it at that moment: provided the class binds at once, the wait ends.
DeletionCompletes == obj.deleting ~> ~obj.live

=============================================================================
