----------------------- MODULE FortigateFirewall_proofs -----------------------
(***************************************************************************)
(* Proofs about FortigateFirewall, for any versions, any layouts of NICs,  *)
(* any claims uploaded by hand and any number of edits.                    *)
(***************************************************************************)
EXTENDS FortigateFirewall, TLAPS

USE SpecAssumption, BoundAssumption

----------------------------------------------------------------------------
(***************************************************************************)
(* Types.                                                                  *)
(***************************************************************************)

\* A worker at some phase other than idle holds a task.
LEMMA AtTask ==
  ASSUME TypeOK, NEW p \in Phases, At(p)
  PROVE  worker \in Task /\ worker # Idle
  BY DEF TypeOK, At, Idle, Phases

\* A task that moves on to another phase is still a task, with the same copy.
LEMMA GoToType ==
  ASSUME worker \in Task, NEW p \in Phases
  PROVE  /\ GoTo(p) \in Task /\ GoTo(p) # Idle
         /\ GoTo(p).pc = p /\ GoTo(p).inst = worker.inst
         /\ GoTo(p).fresh = worker.fresh /\ GoTo(p).token = worker.token
<1>1. /\ GoTo(p) \in Task
      /\ GoTo(p).pc = p /\ GoTo(p).inst = worker.inst
      /\ GoTo(p).fresh = worker.fresh /\ GoTo(p).token = worker.token
  BY DEF GoTo, Task
<1>2. GoTo(p) # Idle
  BY <1>1 DEF Idle, Phases
<1> QED
  BY <1>1, <1>2

\* What the worker may become when it gives up or goes on is well typed.
LEMMA AnsweredType ==
  ASSUME TypeOK, NEW next \in Task \cup {Idle}, Answered(next)
  PROVE  worker' \in Task \cup {Idle} /\ queue' \in BOOLEAN
  BY DEF TypeOK, Answered, GiveUp

\* Only the deletion takes the generation past the bound of the edits, and it
\* comes once: TypeOK needs this to be inductive.
GenerationInv == ~obj.deleting => obj.gen <= MaxEdits

\* Every action keeps each variable within its type.
LEMMA TypeStep == TypeOK /\ GenerationInv /\ [Next]_vars => TypeOK'
<1> SUFFICES ASSUME TypeOK, GenerationInv, [Next]_vars PROVE TypeOK'
  OBVIOUS
<1>1. ASSUME NEW v \in Versions, NEW p \in Layouts, EditSpec(v, p)
      PROVE  TypeOK'
  <2>1. obj.gen + 1 \in 0..(MaxEdits + 1)
    BY <1>1 DEF TypeOK, EditSpec, Edits, Object
  <2>2. obj' \in Object
    BY <1>1, <2>1 DEF TypeOK, EditSpec, Object
  <2>3. worker' \in Task \cup {Idle} /\ latest' \in BOOLEAN
    BY <1>1 DEF TypeOK, EditSpec, Outdated, Task
  <2> QED
    BY <1>1, <2>2, <2>3 DEF TypeOK, EditSpec, machine
<1>2. CASE DeleteFirewall
  <2>1. obj.gen + 1 \in 0..(MaxEdits + 1)
    BY <1>2 DEF TypeOK, DeleteFirewall, Object, GenerationInv
  <2>2. obj' \in Object
    BY <1>2, <2>1 DEF TypeOK, DeleteFirewall, Object
  <2>3. worker' \in Task \cup {Idle} /\ latest' \in BOOLEAN
    BY <1>2 DEF TypeOK, DeleteFirewall, Outdated, Task
  <2> QED
    BY <1>2, <2>2, <2>3 DEF TypeOK, DeleteFirewall, machine
<1>3. CASE SyncFirewall \/ SyncMachine \/ MachineStarts \/ MachineStops
           \/ MachineGone \/ CollectGarbage
  BY <1>3 DEF TypeOK, SyncFirewall, SyncMachine, MachineStarts, MachineStops,
              MachineGone, CollectGarbage, Machine, object, machine
<1>4. CASE BeginGone \/ CallFails \/ Restart
  BY <1>4 DEF TypeOK, BeginGone, CallFails, Restart, GiveUp, object, machine
<1>5. CASE Begin
  <2>1. worker' \in Task
    BY <1>5 DEF TypeOK, Begin, Entry, Task, Phases
  <2> QED
    BY <1>5, <2>1 DEF TypeOK, Begin, object, machine
<1>6. CASE AddFinalizer
  <2>1. worker \in Task
    BY <1>6, AtTask DEF AddFinalizer, Phases
  <2>2. [GoTo("reread") EXCEPT !.fresh = FALSE] \in Task
    BY <2>1 DEF GoTo, Task, Phases
  <2>3. worker' \in Task \cup {Idle} /\ queue' \in BOOLEAN
    BY <1>6, <2>2, AnsweredType DEF AddFinalizer
  <2>4. obj' \in Object
    BY <1>6 DEF TypeOK, AddFinalizer, Object
  <2> QED
    BY <1>6, <2>3, <2>4 DEF TypeOK, AddFinalizer, machine
<1>7. CASE Reread
  <2>1. worker \in Task
    BY <1>7, AtTask DEF Reread, Phases
  <2>2. worker' \in Task
    BY <1>7, <2>1 DEF TypeOK, Reread, GoTo, Task, Phases
  <2> QED
    BY <1>7, <2>2 DEF TypeOK, Reread, object, machine
<1>8. CASE CloneClaims
  <2>1. worker \in Task
    BY <1>8, AtTask DEF CloneClaims, Phases
  <2>2. worker' \in Task
    BY <1>8, <2>1, GoToType DEF CloneClaims, Phases
  <2>3. claims' \subseteq Kinds \X Versions
    <3>1. PICK kinds \in SUBSET {"clone", "cloud-init"} : claims' = Cloned(kinds)
      BY <1>8 DEF CloneClaims
    <3>2. worker.inst.version \in Versions
      BY <2>1 DEF Task, Object
    <3> QED
      BY <3>1, <3>2 DEF TypeOK, Cloned, Kinds
  <2> QED
    BY <1>8, <2>2, <2>3 DEF TypeOK, CloneClaims, object, machine
<1>9. CASE CreateMachine \/ PatchMachine
  <2>1. worker \in Task
    BY <1>9, AtTask DEF CreateMachine, PatchMachine, Phases
  <2>2. GoTo("service") \in Task /\ GoTo("restart") \in Task
    BY <2>1, GoToType DEF Phases
  <2>3. worker' \in Task \cup {Idle} /\ queue' \in BOOLEAN
    BY <1>9, <2>2, AnsweredType DEF CreateMachine, PatchMachine
  <2>4. vm' \in Machine
    <3>1. worker.inst \in Object
      BY <2>1 DEF Task
    <3>2. worker.inst.ports \in Layouts /\ worker.inst.version \in Versions
      BY <3>1 DEF Object
    <3>3. CASE CreateMachine
      BY <3>2, <3>3 DEF CreateMachine, Machine
    <3>4. CASE PatchMachine
      BY <3>2, <3>4 DEF TypeOK, PatchMachine, Machine
    <3> QED
      BY <1>9, <3>3, <3>4
  <2> QED
    BY <1>9, <2>3, <2>4 DEF TypeOK, CreateMachine, PatchMachine, object
<1>10. CASE KeepMachine \/ WaitReady
  <2>1. worker' \in Task
    BY <1>10, AtTask, GoToType DEF KeepMachine, WaitReady, Phases
  <2> QED
    BY <1>10, <2>1 DEF TypeOK, KeepMachine, WaitReady, object, machine
<1>11. CASE RestartMachine
  <2>1. GoTo("service") \in Task
    BY <1>11, AtTask, GoToType DEF RestartMachine, Phases
  <2>2. worker' \in Task \cup {Idle} /\ queue' \in BOOLEAN
    BY <1>11, <2>1, AnsweredType DEF RestartMachine
  <2> QED
    BY <1>11, <2>2 DEF TypeOK, RestartMachine, object
<1>12. CASE CreateService \/ DeleteService
  <2>1. worker \in Task
    BY <1>12, AtTask DEF CreateService, DeleteService, Phases
  <2>2. GoTo("ready") \in Task /\ GoTo("rm-fgt") \in Task
    BY <2>1, GoToType DEF Phases
  <2>3. worker' \in Task \cup {Idle} /\ queue' \in BOOLEAN
    BY <1>12, <2>2, AnsweredType DEF CreateService, DeleteService
  <2>4. worker.inst.version \in Versions
    BY <2>1 DEF Task, Object
  <2> QED
    BY <1>12, <2>3, <2>4
       DEF TypeOK, CreateService, DeleteService, object, machine
<1>13. CASE KeepToken
  <2>1. worker' \in Task
    BY <1>13, AtTask DEF KeepToken, GoTo, Task, Object, Phases
  <2> QED
    BY <1>13, <2>1 DEF TypeOK, KeepToken, object, machine
<1>14. CASE GetToken
  <2>1. worker \in Task
    BY <1>14, AtTask DEF GetToken, Phases
  <2>2. key' \in Keys
    BY <1>14 DEF TypeOK, GetToken, Keys
  <2>3. worker' \in Task
    <3>1. GoTo("status") \in Task
      BY <2>1, GoToType DEF Phases
    <3> QED
      BY <1>14, <2>2, <3>1 DEF GetToken, Task
  <2> QED
    BY <1>14, <2>2, <2>3 DEF TypeOK, GetToken, object, machine
<1>15. CASE WriteStatus \/ RemoveFinalizer
  <2>1. worker \in Task
    BY <1>15, AtTask DEF WriteStatus, RemoveFinalizer, Phases
  <2>2. worker' \in Task \cup {Idle} /\ queue' \in BOOLEAN
    BY <1>15, AnsweredType DEF WriteStatus, RemoveFinalizer
  <2>3. obj' \in Object
    <3>1. obj \in Object /\ worker.token \in Keys \cup {None}
      BY <2>1 DEF TypeOK, Task
    <3> QED
      BY <1>15, <3>1 DEF WriteStatus, RemoveFinalizer, Object
  <2> QED
    BY <1>15, <2>2, <2>3 DEF TypeOK, WriteStatus, RemoveFinalizer, machine
<1>16. CASE DeleteMachine \/ DeleteInstance
  <2>1. worker \in Task
    BY <1>16, AtTask DEF DeleteMachine, DeleteInstance, Phases
  <2>2. GoTo("rm-vmi") \in Task /\ GoTo("rm-svc") \in Task
    BY <2>1, GoToType DEF Phases
  <2>3. worker' \in Task \cup {Idle} /\ queue' \in BOOLEAN
    BY <1>16, <2>2, AnsweredType DEF DeleteMachine, DeleteInstance
  <2>4. vm' \in Machine \cup {None}
    BY <1>16 DEF TypeOK, DeleteMachine, DeleteInstance, Machine
  <2> QED
    BY <1>16, <2>3, <2>4 DEF TypeOK, DeleteMachine, DeleteInstance, object
<1>17. CASE DeleteClaims
  <2>1. worker \in Task
    BY <1>17, AtTask DEF DeleteClaims, DeleteClaim, Phases
  <2>2. GoTo("rm-cloud-init") \in Task /\ GoTo("unfinalize") \in Task
    BY <2>1, GoToType DEF Phases
  <2>3. worker' \in Task \cup {Idle} /\ queue' \in BOOLEAN
    BY <1>17, <2>2, AnsweredType DEF DeleteClaims, DeleteClaim
  <2> QED
    BY <1>17, <2>3 DEF TypeOK, DeleteClaims, DeleteClaim, object, machine
<1>18. CASE UNCHANGED vars
  BY <1>18 DEF TypeOK, vars, object, machine
<1> QED
  BY <1>1, <1>2, <1>3, <1>4, <1>5, <1>6, <1>7, <1>8, <1>9, <1>10, <1>11, <1>12,
     <1>13, <1>14, <1>15, <1>16, <1>17, <1>18
     DEF Next, Environment, Reconcile, Provide, Cleanup

\* The steps that write the object in the API server.
LEMMA ObjectSteps ==
  ASSUME [Next]_vars
  PROVE  \/ \E v \in Versions, p \in Layouts : EditSpec(v, p)
         \/ DeleteFirewall \/ AddFinalizer \/ WriteStatus \/ RemoveFinalizer
         \/ UNCHANGED obj
  BY DEF Next, Environment, Reconcile, Provide, Cleanup, SyncFirewall,
         SyncMachine, MachineStarts, MachineStops, MachineGone, CollectGarbage,
         BeginGone, Begin, CallFails, Reread, CloneClaims, CreateMachine,
         KeepMachine, PatchMachine, RestartMachine, CreateService, WaitReady,
         KeepToken, GetToken, DeleteMachine, DeleteInstance, DeleteService,
         DeleteClaims, DeleteClaim, Restart, object, vars

\* An edit stops at the bound, a deletion is made once, and the operator's own
\* writes leave the generation alone.
LEMMA GenerationStep == TypeOK /\ GenerationInv /\ [Next]_vars => GenerationInv'
<1> SUFFICES ASSUME TypeOK, GenerationInv, [Next]_vars PROVE GenerationInv'
  OBVIOUS
<1> USE DEF GenerationInv
<1>1. ASSUME NEW v \in Versions, NEW p \in Layouts, EditSpec(v, p)
      PROVE  GenerationInv'
  <2>1. obj'.gen = obj.gen + 1 /\ obj'.deleting = obj.deleting
    BY <1>1 DEF EditSpec, TypeOK, Object
  <2>2. obj.gen \in Nat /\ (~obj.deleting => obj.gen < MaxEdits)
    BY <1>1 DEF EditSpec, Edits, TypeOK, Object
  <2> QED
    BY <2>1, <2>2
<1>2. CASE DeleteFirewall
  BY <1>2 DEF DeleteFirewall, TypeOK, Object
<1>3. CASE AddFinalizer \/ WriteStatus \/ RemoveFinalizer
  BY <1>3 DEF AddFinalizer, WriteStatus, RemoveFinalizer, TypeOK, Object
<1>4. CASE UNCHANGED obj
  BY <1>4
<1> QED
  BY <1>1, <1>2, <1>3, <1>4, ObjectSteps

\* The model is well typed for every instance.
THEOREM TypeCorrect == Spec => []TypeOK
<1>1. Init => TypeOK /\ GenerationInv
  BY DEF Init, TypeOK, GenerationInv, Object, Keys
<1> QED
  BY <1>1, TypeStep, GenerationStep, PTL DEF Spec

----------------------------------------------------------------------------
(***************************************************************************)
(* The inductive invariant.  A machine is created on a copy of the object  *)
(* that may be old, so that it has an owner depends on what the copies may *)
(* still show (HoldInv, FreshInv), and on where the worker can be while    *)
(* the object is there, or is being deleted, or is gone (PhaseInv).        *)
(***************************************************************************)

Providing == {"reread", "clone", "machine", "restart", "service", "ready",
              "token", "status"}

Removing == {"rm-vm", "rm-vmi", "rm-svc", "rm-fgt", "rm-cloud-init",
             "unfinalize"}

\* The finalizer is on the object before any copy shows it and as long as the
\* object exists; a copy of an object that is gone does not pass for one that
\* is held and not deleted.
HoldInv ==
  /\ obj.live /\ (obj.deleting \/ seen.finalizer \/ seen.deleting)
       => obj.finalizer
  /\ obj.live /\ seen.deleting => obj.deleting
  /\ ~obj.live => ~obj.finalizer
  /\ ~obj.live => ~seen.live \/ seen.deleting \/ ~seen.finalizer

\* A copy with the current resourceVersion is the object.
FreshInv ==
  /\ latest => seen = obj
  /\ worker # Idle /\ worker.fresh => worker.inst = obj /\ obj.live

Owned == obj.live /\ obj.finalizer

BeingDeleted == /\ seen.deleting \/ ~seen.live
                /\ obj.live => obj.deleting

Stopped == vm # None => vm.stopping

\* The worker provides only for an object that is held, removes only for one
\* that is being deleted, and has removed what comes before its phase.
PhaseInv ==
  worker # Idle =>
    /\ worker.pc \in Providing => Owned
    /\ worker.pc \in Removing => BeingDeleted
    /\ worker.pc \in Removing \ {"rm-vm"} => Stopped
    /\ worker.pc \in {"rm-fgt", "rm-cloud-init", "unfinalize"}
         => worker.inst.version \notin svc
    /\ worker.pc \in {"rm-cloud-init", "unfinalize"}
         => <<"fgt", worker.inst.version>> \notin claims
    /\ worker.pc = "unfinalize"
         => <<"cloud-init", worker.inst.version>> \notin claims
    /\ worker.pc = "status" /\ worker.inst.token # None
         => worker.token = worker.inst.token

Inv == TypeOK /\ GenerationInv /\ HoldInv /\ FreshInv /\ PhaseInv
         /\ NoOrphanMachine

\* A write by somebody else leaves the worker where it is, with a copy that is
\* no longer fresh.
OutdatedOnly ==
  \/ worker = Idle /\ worker' = Idle
  \/ /\ worker # Idle /\ worker' # Idle
     /\ worker'.pc = worker.pc /\ worker'.inst = worker.inst
     /\ worker'.token = worker.token /\ ~worker'.fresh

LEMMA OutdatedWorker == TypeOK /\ Outdated => OutdatedOnly
<1> SUFFICES ASSUME TypeOK, Outdated, worker # Idle PROVE OutdatedOnly
  BY DEF Outdated, OutdatedOnly
<1>1. worker \in Task /\ worker' = [worker EXCEPT !.fresh = FALSE]
  BY DEF TypeOK, Outdated
<1>2. /\ worker'.pc = worker.pc /\ worker'.inst = worker.inst
      /\ worker'.token = worker.token
      /\ worker.pc # "idle" /\ ~worker'.fresh
  BY <1>1 DEF Task, Phases
<1>3. worker' # Idle
  BY <1>2 DEF Idle
<1> QED
  BY <1>2, <1>3 DEF OutdatedOnly

\* The worker goes on to p with the copy it has, or gives up.
Moved(p) ==
  \/ worker' = Idle
  \/ /\ worker'.pc = p /\ worker'.inst = worker.inst
     /\ worker'.fresh = worker.fresh

LEMMA AnsweredMoves ==
  ASSUME worker \in Task, NEW p \in Phases, Answered(GoTo(p))
  PROVE  Moved(p)
  BY GoToType DEF Answered, GiveUp, Moved

\* A step of the worker that leaves the object and its copy alone keeps what
\* is said of them.
LEMMA ObjectKept ==
  ASSUME Inv, UNCHANGED object, worker # Idle, NEW p \in Phases, Moved(p)
  PROVE  HoldInv' /\ FreshInv'
  BY DEF Inv, HoldInv, FreshInv, Moved, object

\* Every action keeps the finalizer, the copies, the machine and what the
\* cleanup has removed consistent.
LEMMA InvStep == Inv /\ [Next]_vars => Inv'
<1> SUFFICES ASSUME Inv, [Next]_vars PROVE Inv'
  OBVIOUS
<1>i. TypeOK /\ GenerationInv /\ HoldInv /\ FreshInv /\ PhaseInv /\ NoOrphanMachine
  BY DEF Inv
<1>t. TypeOK' /\ GenerationInv'
  BY <1>i, TypeStep, GenerationStep
<1>s. SUFFICES HoldInv' /\ FreshInv' /\ PhaseInv' /\ NoOrphanMachine'
  BY <1>t DEF Inv
<1>1. ASSUME NEW v \in Versions, NEW p \in Layouts, EditSpec(v, p)
      PROVE  HoldInv' /\ FreshInv' /\ PhaseInv' /\ NoOrphanMachine'
  <2>1. /\ obj'.live = obj.live /\ obj'.deleting = obj.deleting
        /\ obj'.finalizer = obj.finalizer
    BY <1>1, <1>i DEF EditSpec, TypeOK, Object
  <2>2. ~latest' /\ OutdatedOnly
    BY <1>1, <1>i, OutdatedWorker DEF EditSpec, Outdated
  <2>3. UNCHANGED <<seen, vm, svc, claims>>
    BY <1>1 DEF EditSpec, machine
  <2>4. HoldInv' /\ FreshInv' /\ NoOrphanMachine'
    BY <1>i, <2>1, <2>2, <2>3
       DEF OutdatedOnly, HoldInv, FreshInv, NoOrphanMachine
  <2>5. PhaseInv'
    BY <1>i, <2>1, <2>2, <2>3
       DEF OutdatedOnly, PhaseInv, Owned, BeingDeleted, Stopped
  <2> QED
    BY <2>4, <2>5
<1>2. CASE DeleteFirewall
  <2>1. \/ ~obj'.live /\ ~obj'.finalizer /\ ~obj.finalizer
        \/ /\ obj'.live = obj.live /\ obj'.finalizer = obj.finalizer
           /\ obj.finalizer /\ obj'.deleting
    BY <1>2, <1>i DEF DeleteFirewall, TypeOK, Object
  <2>2. ~latest' /\ OutdatedOnly
    BY <1>2, <1>i, OutdatedWorker DEF DeleteFirewall, Outdated
  <2>3. obj.live /\ UNCHANGED <<seen, vm, svc, claims>>
    BY <1>2 DEF DeleteFirewall, machine
  <2>4. HoldInv' /\ FreshInv' /\ NoOrphanMachine'
    BY <1>i, <2>1, <2>2, <2>3
       DEF OutdatedOnly, HoldInv, FreshInv, NoOrphanMachine
  <2>5. PhaseInv'
    BY <1>i, <2>1, <2>2, <2>3
       DEF OutdatedOnly, PhaseInv, Owned, BeingDeleted, Stopped
  <2> QED
    BY <2>4, <2>5
<1>3. CASE SyncFirewall
  BY <1>i, <1>3 DEF SyncFirewall, HoldInv, FreshInv, PhaseInv, NoOrphanMachine,
                    Owned, BeingDeleted, Stopped, machine
<1>4. CASE SyncMachine \/ MachineStarts \/ MachineStops \/ MachineGone
           \/ CollectGarbage
  BY <1>i, <1>4 DEF SyncMachine, MachineStarts, MachineStops, MachineGone,
                    CollectGarbage, HoldInv, FreshInv, PhaseInv, NoOrphanMachine,
                    Owned, BeingDeleted, Stopped, object, machine
<1>5. CASE BeginGone \/ CallFails \/ Restart
  BY <1>i, <1>5 DEF BeginGone, CallFails, Restart, GiveUp, HoldInv, FreshInv,
                    PhaseInv, NoOrphanMachine, Owned, BeingDeleted, Stopped,
                    object, machine
<1>6. CASE Begin
  <2>1. /\ worker'.pc = Entry(seen) /\ worker'.inst = seen
        /\ worker'.fresh = latest
    BY <1>6 DEF Begin
  <2>2. CASE seen.deleting
    BY <1>6, <1>i, <2>1, <2>2
       DEF Begin, Entry, HoldInv, FreshInv, PhaseInv, NoOrphanMachine, Providing,
           Owned, BeingDeleted, object, machine
  <2>3. CASE ~seen.deleting
    BY <1>6, <1>i, <2>1, <2>3
       DEF Begin, Entry, HoldInv, FreshInv, PhaseInv, NoOrphanMachine, Providing,
           Removing, Owned, object, machine
  <2> QED
    BY <2>2, <2>3
<1>7. CASE AddFinalizer
  <2>1. worker \in Task /\ worker # Idle
    BY <1>7, <1>i, AtTask DEF AddFinalizer, Phases
  <2>2. /\ [GoTo("reread") EXCEPT !.fresh = FALSE].pc = "reread"
        /\ ~[GoTo("reread") EXCEPT !.fresh = FALSE].fresh
    BY <2>1 DEF GoTo, Task
  <2>3. worker' = Idle \/ (worker'.pc = "reread" /\ ~worker'.fresh)
    BY <1>7, <2>2 DEF AddFinalizer, Answered, GiveUp
  <2>4. obj.live
    BY <1>7, <1>i, <2>1 DEF AddFinalizer, Writable, FreshInv
  <2>5. /\ obj'.live = obj.live /\ obj'.finalizer
        /\ obj'.deleting = obj.deleting
    BY <1>7, <1>i DEF AddFinalizer, TypeOK, Object
  <2> QED
    BY <1>7, <1>i, <2>3, <2>4, <2>5
       DEF AddFinalizer, HoldInv, FreshInv, PhaseInv, NoOrphanMachine, Removing,
           Owned
<1>8. CASE Reread
  <2>1. worker \in Task /\ worker # Idle /\ worker.pc = "reread"
    BY <1>8, <1>i, AtTask DEF Reread, At, Phases
  <2>2. /\ worker'.pc = "clone" /\ worker'.inst = seen
        /\ worker'.fresh = latest
    BY <1>8, <2>1 DEF Reread, GoTo, Task
  <2>3. Owned
    BY <1>i, <2>1 DEF PhaseInv, Providing
  <2> QED
    BY <1>8, <1>i, <2>2, <2>3
       DEF Reread, HoldInv, FreshInv, PhaseInv, NoOrphanMachine, Removing, Owned,
           object, machine
<1>9. ASSUME NEW p \in Providing \ {"status"}, NEW q \in Providing \ {"status"},
             At(p), Moved(q), UNCHANGED object
      PROVE  HoldInv' /\ FreshInv' /\ PhaseInv' /\ NoOrphanMachine'
  <2>1. worker # Idle /\ worker.pc = p
    BY <1>9, <1>i, AtTask DEF At, Providing, Phases
  <2>2. Owned /\ Owned'
    BY <1>9, <1>i, <2>1 DEF PhaseInv, Owned, object
  <2>3. HoldInv' /\ FreshInv'
    BY <1>9, <2>1, ObjectKept DEF Providing, Phases
  <2>4. PhaseInv'
    BY <1>9, <2>2 DEF Moved, PhaseInv, Providing, Removing
  <2>5. NoOrphanMachine'
    BY <2>2 DEF NoOrphanMachine, Owned
  <2> QED
    BY <2>3, <2>4, <2>5
<1>10. CASE CloneClaims \/ KeepMachine \/ WaitReady
  <2>1. worker \in Task /\ UNCHANGED object
    BY <1>10, <1>i, AtTask DEF CloneClaims, KeepMachine, WaitReady, Phases
  <2>2. Moved("machine") \/ Moved("service") \/ Moved("token")
    BY <1>10, <2>1, GoToType
       DEF CloneClaims, KeepMachine, WaitReady, Moved, Phases
  <2> QED
    BY <1>9, <1>10, <2>1, <2>2 DEF CloneClaims, KeepMachine, WaitReady, Providing
<1>11. CASE CreateMachine \/ PatchMachine \/ RestartMachine \/ CreateService
  <2>1. worker \in Task /\ UNCHANGED object
    BY <1>11, <1>i, AtTask
       DEF CreateMachine, PatchMachine, RestartMachine, CreateService, Phases
  <2>2. Moved("service") \/ Moved("restart") \/ Moved("ready")
    BY <1>11, <2>1, AnsweredMoves
       DEF CreateMachine, PatchMachine, RestartMachine, CreateService, Phases
  <2> QED
    BY <1>9, <1>11, <2>1, <2>2
       DEF CreateMachine, PatchMachine, RestartMachine, CreateService, Providing
<1>12. CASE KeepToken \/ GetToken
  <2>1. worker \in Task /\ worker # Idle /\ worker.pc = "token"
    BY <1>12, <1>i, AtTask DEF KeepToken, GetToken, At, Phases
  <2>2. UNCHANGED object
    BY <1>12 DEF KeepToken, GetToken
  <2>3. /\ Moved("status")
        /\ worker.inst.token # None => worker'.token = worker.inst.token
        /\ worker'.inst = worker.inst
    <3>1. \E t : /\ worker' = [GoTo("status") EXCEPT !.token = t]
                 /\ worker.inst.token # None => t = worker.inst.token
      <4>1. CASE KeepToken
        BY <4>1 DEF KeepToken
      <4>2. GoTo("status") = [GoTo("status") EXCEPT !.token = worker.token]
        BY <2>1 DEF GoTo, Task
      <4>3. CASE GetToken
        BY <4>2, <4>3 DEF GetToken
      <4> QED
        BY <1>12, <4>1, <4>3
    <3> QED
      BY <2>1, <3>1 DEF GoTo, Task, Moved
  <2>4. HoldInv' /\ FreshInv'
    BY <2>1, <2>2, <2>3, ObjectKept DEF Phases
  <2>5. Owned /\ Owned'
    BY <1>i, <2>1, <2>2 DEF PhaseInv, Owned, Providing, object
  <2>6. PhaseInv'
    BY <2>3, <2>5 DEF Moved, PhaseInv, Removing
  <2> QED
    BY <2>4, <2>5, <2>6 DEF NoOrphanMachine, Owned
<1>13. CASE WriteStatus
  <2>1. /\ obj'.live = obj.live /\ obj'.deleting = obj.deleting
        /\ obj'.finalizer = obj.finalizer
    BY <1>13, <1>i DEF WriteStatus, TypeOK, Object
  <2>2. worker' = Idle
    BY <1>13 DEF WriteStatus, Answered, GiveUp
  <2> QED
    BY <1>13, <1>i, <2>1, <2>2
       DEF WriteStatus, HoldInv, FreshInv, PhaseInv, NoOrphanMachine, machine
<1>14. ASSUME NEW p \in Removing, NEW q \in Removing \ {"rm-vm"},
              At(p), Moved(q), UNCHANGED object, Stopped',
              vm' # None => vm # None, svc' \subseteq svc, claims' \subseteq claims,
              /\ q \in {"rm-fgt", "rm-cloud-init", "unfinalize"}
                   => worker.inst.version \notin svc'
              /\ q \in {"rm-cloud-init", "unfinalize"}
                   => <<"fgt", worker.inst.version>> \notin claims'
              /\ q = "unfinalize"
                   => <<"cloud-init", worker.inst.version>> \notin claims'
       PROVE  HoldInv' /\ FreshInv' /\ PhaseInv' /\ NoOrphanMachine'
  <2>1. worker # Idle /\ worker.pc = p
    BY <1>14, <1>i, AtTask DEF At, Removing, Phases
  <2>2. BeingDeleted'
    BY <1>14, <1>i, <2>1 DEF PhaseInv, BeingDeleted, object
  <2>3. HoldInv' /\ FreshInv'
    BY <1>14, <2>1, ObjectKept DEF Removing, Phases
  <2>4. PhaseInv'
    BY <1>14, <2>2 DEF Moved, PhaseInv, Providing, Removing
  <2>5. NoOrphanMachine'
    BY <1>14 DEF NoOrphanMachine, Stopped
  <2> QED
    BY <2>3, <2>4, <2>5
<1>15. CASE DeleteMachine
  <2>1. worker \in Task
    BY <1>15, <1>i, AtTask DEF DeleteMachine, Phases
  <2>2. Moved("rm-vmi")
    BY <1>15, <2>1, AnsweredMoves DEF DeleteMachine, Phases
  <2>3. Stopped' /\ vm # None
    BY <1>15, <1>i DEF DeleteMachine, Stopped, TypeOK, Machine
  <2> QED
    BY <1>14, <1>15, <2>2, <2>3 DEF DeleteMachine, Removing
<1>16. CASE DeleteInstance
  <2>1. worker \in Task /\ worker # Idle /\ worker.pc = "rm-vmi"
    BY <1>16, <1>i, AtTask DEF DeleteInstance, At, Phases
  <2>2. Moved("rm-svc")
    BY <1>16, <2>1, AnsweredMoves DEF DeleteInstance, Phases
  <2>3. Stopped'
    BY <1>16, <1>i, <2>1 DEF DeleteInstance, Stopped, PhaseInv, Removing
  <2> QED
    BY <1>14, <1>16, <2>2, <2>3 DEF DeleteInstance, Removing
<1>17. CASE DeleteService
  <2>1. worker \in Task /\ worker # Idle /\ worker.pc = "rm-svc"
    BY <1>17, <1>i, AtTask DEF DeleteService, At, Phases
  <2>2. Moved("rm-fgt")
    BY <1>17, <2>1, AnsweredMoves DEF DeleteService, Phases
  <2>3. Stopped'
    BY <1>17, <1>i, <2>1 DEF DeleteService, Stopped, PhaseInv, Removing, machine
  <2> QED
    BY <1>14, <1>17, <2>2, <2>3 DEF DeleteService, Removing, machine
<1>18. CASE DeleteClaim("fgt", "rm-fgt", "rm-cloud-init")
  <2>1. worker \in Task /\ worker # Idle /\ worker.pc = "rm-fgt"
    BY <1>18, <1>i, AtTask DEF DeleteClaim, At, Phases
  <2>2. Moved("rm-cloud-init")
    BY <1>18, <2>1, AnsweredMoves DEF DeleteClaim, Phases
  <2>3. Stopped' /\ worker.inst.version \notin svc'
    BY <1>18, <1>i, <2>1 DEF DeleteClaim, Stopped, PhaseInv, Removing, machine
  <2> QED
    BY <1>14, <1>18, <2>2, <2>3 DEF DeleteClaim, Removing, machine
<1>19. CASE DeleteClaim("cloud-init", "rm-cloud-init", "unfinalize")
  <2>1. worker \in Task /\ worker # Idle /\ worker.pc = "rm-cloud-init"
    BY <1>19, <1>i, AtTask DEF DeleteClaim, At, Phases
  <2>2. Moved("unfinalize")
    BY <1>19, <2>1, AnsweredMoves DEF DeleteClaim, Phases
  <2>3. /\ Stopped' /\ worker.inst.version \notin svc'
        /\ <<"fgt", worker.inst.version>> \notin claims'
    BY <1>19, <1>i, <2>1 DEF DeleteClaim, Stopped, PhaseInv, Removing, machine
  <2> QED
    BY <1>14, <1>19, <2>2, <2>3 DEF DeleteClaim, Removing, machine
<1>20. CASE RemoveFinalizer
  <2>1. worker \in Task /\ worker # Idle /\ worker.pc = "unfinalize"
    BY <1>20, <1>i, AtTask DEF RemoveFinalizer, At, Phases
  <2>2. ~obj'.live /\ ~obj'.finalizer
    BY <1>20, <1>i DEF RemoveFinalizer, TypeOK, Object
  <2>3. worker' = Idle
    BY <1>20 DEF RemoveFinalizer, Answered, GiveUp
  <2>4. BeingDeleted /\ Stopped
    BY <1>i, <2>1 DEF PhaseInv, Removing
  <2> QED
    BY <1>20, <2>2, <2>3, <2>4
       DEF RemoveFinalizer, HoldInv, FreshInv, PhaseInv, NoOrphanMachine,
           BeingDeleted, Stopped, machine
<1>21. CASE UNCHANGED vars
  BY <1>i, <1>21 DEF vars, object, machine, HoldInv, FreshInv, PhaseInv,
                     NoOrphanMachine, Owned, BeingDeleted, Stopped
<1> QED
  BY <1>1, <1>2, <1>3, <1>4, <1>5, <1>6, <1>7, <1>8, <1>10, <1>11, <1>12, <1>13,
     <1>15, <1>16, <1>17, <1>18, <1>19, <1>20, <1>21
     DEF Next, Environment, Reconcile, Provide, Cleanup, DeleteClaims

\* The invariant holds in every reachable state.
THEOREM InvCorrect == Spec => []Inv
<1>1. Init => Inv
  BY DEF Init, Inv, TypeOK, GenerationInv, HoldInv, FreshInv, PhaseInv,
         NoOrphanMachine, Object, Keys
<1> QED
  BY <1>1, InvStep, PTL DEF Spec

\* NoOrphanMachine: a machine that KubeVirt keeps running has an object that
\* exists and holds the finalizer.
THEOREM NoOrphan == Spec => []NoOrphanMachine
<1>1. Inv => NoOrphanMachine
  BY DEF Inv
<1> QED
  BY <1>1, InvCorrect, PTL

\* TokenKept: a status write is made on the current copy, and the worker keeps
\* the token of its copy.
THEOREM TokenStays == Spec => TokenKept
<1>1. ASSUME Inv, [Next]_vars, obj.token # None, obj'.live
      PROVE  obj'.token = obj.token
  <2>1. CASE WriteStatus
    <3>1. worker \in Task /\ worker # Idle /\ worker.pc = "status"
      BY <1>1, <2>1, AtTask DEF WriteStatus, At, Phases, Inv
    <3>2. worker.inst = obj
      BY <1>1, <2>1, <3>1 DEF WriteStatus, Writable, Inv, FreshInv
    <3>3. worker.token = obj.token
      BY <1>1, <3>1, <3>2 DEF Inv, PhaseInv
    <3> QED
      BY <1>1, <2>1, <3>3 DEF WriteStatus, Inv, TypeOK, Object
  <2>2. CASE obj'.token = obj.token
    BY <2>2
  <2>3. DeleteFirewall \/ AddFinalizer \/ RemoveFinalizer => obj'.token = obj.token
    BY <1>1 DEF DeleteFirewall, AddFinalizer, RemoveFinalizer, Inv, TypeOK, Object
  <2>4. (\E v \in Versions, p \in Layouts : EditSpec(v, p)) => obj'.token = obj.token
    BY <1>1 DEF EditSpec, Inv, TypeOK, Object
  <2> QED
    BY <1>1, <2>1, <2>2, <2>3, <2>4, ObjectSteps
<1>2. Inv /\ [Next]_vars
        => [obj.token # None /\ obj'.live => obj'.token = obj.token]_vars
  BY <1>1
<1> QED
  BY <1>2, InvCorrect, PTL DEF Spec, TokenKept

\* CleanWhenGone: only RemoveFinalizer makes a held object disappear, on the
\* current version of its spec, after everything of that version is removed.
THEOREM Clean == Spec => CleanWhenGone
<1>1. ASSUME Inv, [Next]_vars, obj.finalizer, ~obj'.live
      PROVE  /\ obj.version \notin svc
             /\ {<<"fgt", obj.version>>, <<"cloud-init", obj.version>>} \cap claims = {}
  <2>1. obj.live
    BY <1>1 DEF Inv, HoldInv
  <2>2. CASE RemoveFinalizer
    <3>1. worker \in Task /\ worker # Idle /\ worker.pc = "unfinalize"
      BY <1>1, <2>2, AtTask DEF RemoveFinalizer, At, Phases, Inv
    <3>2. worker.inst = obj
      BY <1>1, <2>2, <3>1 DEF RemoveFinalizer, Writable, Inv, FreshInv
    <3> QED
      BY <1>1, <3>1, <3>2 DEF Inv, PhaseInv
  <2>3. DeleteFirewall \/ AddFinalizer \/ WriteStatus => obj'.live = obj.live
    BY <1>1 DEF DeleteFirewall, AddFinalizer, WriteStatus, Inv, TypeOK, Object
  <2>4. (\E v \in Versions, p \in Layouts : EditSpec(v, p)) => obj'.live = obj.live
    BY <1>1 DEF EditSpec, Inv, TypeOK, Object
  <2> QED
    BY <1>1, <2>1, <2>2, <2>3, <2>4, ObjectSteps
<1>2. Inv /\ [Next]_vars
        => [obj.finalizer /\ ~obj'.live =>
              /\ obj.version \notin svc
              /\ {<<"fgt", obj.version>>, <<"cloud-init", obj.version>>} \cap claims
                   = {}]_vars
  BY <1>1
<1> QED
  BY <1>2, InvCorrect, PTL DEF Spec, CleanWhenGone

=============================================================================
