------------------------ MODULE VyosFirewall_proofs ------------------------
(***************************************************************************)
(* Proofs about VyosFirewall, for any versions, layouts, edits and lives,  *)
(* and for both binding modes of the storage class.                        *)
(***************************************************************************)
EXTENDS VyosFirewall, TLAPS

USE SpecAssumption, BoundAssumption

\* A step of the worker finds it at one of its phases.
LEMMA AtTask ==
  ASSUME TypeOK, NEW q \in Phases, At(q)
  PROVE  worker \in Task /\ worker # Idle
  BY DEF TypeOK, At, Idle, Phases, Building

LEMMA GoToTask ==
  ASSUME worker \in Task, NEW q \in Phases
  PROVE  /\ GoTo(q) \in Task /\ GoTo(q) # Idle
         /\ GoTo(q).pc = q /\ GoTo(q).inst = worker.inst
         /\ GoTo(q).fresh = worker.fresh
  BY DEF GoTo, Task, Idle, Phases, Building

LEMMA BornObject ==
  ASSUME NEW n \in Lives, NEW v \in Versions, NEW p \in Layouts
  PROVE  /\ Born(n, v, p) \in Object
         /\ Born(n, v, p).live /\ ~Born(n, v, p).finalizer
  BY DEF Born, Object

LEMMA OutdatedType ==
  ASSUME TypeOK, Outdated
  PROVE  latest' \in BOOLEAN /\ worker' \in Task \cup {Idle}
  BY DEF TypeOK, Outdated, Task

\* The kinds of claims are phases of the worker.
LEMMA KindPhases ==
  /\ \A k \in Kinds : k \in Building /\ AfterWait(k) \in Building
  /\ "os" \in Kinds
  /\ Building \subseteq Phases
  BY DEF Kinds, AfterWait, Building, Phases

----------------------------------------------------------------------------
(* How the calls of createFirewall move the worker.                        *)

\* To the next call, or, with an error, out of Reconcile.
Moves ==
  \/ \E q \in Building : worker' = GoTo(q) /\ UNCHANGED <<queue, dropped>>
  \/ worker' = Idle /\ dropped' = TRUE /\ UNCHANGED queue

\* The calls, except for the end of the last one.
Calls ==
  \/ CloneClaims \/ Waiting \/ CreateMachine \/ KeepMachine \/ PatchMachine
  \/ RestartMachine \/ CallFails

LEMMA CallsMove ==
  ASSUME TypeOK, Calls
  PROVE  /\ worker.pc \in Building /\ worker \in Task
         /\ Moves
         /\ UNCHANGED <<object, svc, edits>>
<1>1. CASE CloneClaims
  BY <1>1, AtTask, KindPhases DEF CloneClaims, Proceed, Moves, At, Building
<1>2. CASE Waiting
  <2>1. PICK k \in Kinds : AwaitClaim(k) \/ WaitBroken(k)
    BY <1>2 DEF Waiting
  <2>2. /\ At(k) /\ Proceed(GoTo(AfterWait(k)))
        /\ UNCHANGED <<object, volumes, machine, svc, edits>>
    BY <2>1 DEF AwaitClaim, WaitBroken
  <2> QED
    BY <2>2, AtTask, KindPhases DEF Proceed, Moves, At
<1>3. CASE CreateMachine
  BY <1>3, AtTask, KindPhases DEF CreateMachine, Proceed, Drop, Moves, At, Building
<1>4. CASE KeepMachine
  BY <1>4, AtTask, KindPhases DEF KeepMachine, Proceed, Moves, At, Building
<1>5. CASE PatchMachine
  BY <1>5, AtTask, KindPhases DEF PatchMachine, Proceed, Drop, Moves, At, Building
<1>6. CASE RestartMachine
  BY <1>6, AtTask, KindPhases DEF RestartMachine, Proceed, Drop, Moves, At, Building
<1>7. CASE CallFails
  <2>1. worker.pc \in Building
    BY <1>7 DEF CallFails, Building
  <2>2. At(worker.pc)
    BY DEF At
  <2> QED
    BY <1>7, <2>1, <2>2, AtTask, KindPhases DEF CallFails, Drop, Moves
<1> QED
  BY <1>1, <1>2, <1>3, <1>4, <1>5, <1>6, <1>7 DEF Calls

LEMMA MovesType ==
  ASSUME TypeOK, worker \in Task, Moves
  PROVE  worker' \in Task \cup {Idle} /\ queue' \in BOOLEAN /\ dropped' \in BOOLEAN
  BY GoToTask, KindPhases DEF Moves, TypeOK

\* The last call either completes the pass or drops an error as well.
LEMMA ServiceMoves ==
  ASSUME TypeOK, CreateService
  PROVE  /\ worker.pc = "service" /\ worker \in Task /\ worker' = Idle
         /\ dropped' \in {dropped, TRUE}
         /\ svc' = [svc EXCEPT ![worker.inst.version] = worker.inst.uid]
         /\ UNCHANGED <<object, queue, volumes, machine, edits>>
  BY AtTask DEF CreateService, Proceed, Drop, At, Building, Phases

----------------------------------------------------------------------------
(* Types.                                                                  *)

\* Every action keeps each variable within its type.
LEMMA TypeStep == TypeOK /\ [Next]_vars => TypeOK'
<1> SUFFICES ASSUME TypeOK, [Next]_vars PROVE TypeOK'
  OBVIOUS
<1>1. ASSUME NEW v \in Versions, NEW p \in Layouts, EditSpec(v, p)
      PROVE  TypeOK'
  <2>1. obj' \in Object
    BY <1>1 DEF EditSpec, TypeOK, Object
  <2>2. edits' \in 0..MaxEdits
    BY <1>1 DEF EditSpec, TypeOK
  <2> QED
    BY <1>1, <2>1, <2>2, OutdatedType DEF EditSpec, TypeOK, volumes, machine
<1>2. ASSUME NEW v \in Versions, NEW p \in Layouts, CreateAgain(v, p)
      PROVE  TypeOK'
  <2>1. obj.uid + 1 \in Lives
    BY <1>2 DEF CreateAgain, TypeOK, Object, Lives
  <2>2. obj' \in Object
    BY <1>2, <2>1, BornObject DEF CreateAgain
  <2> QED
    BY <1>2, <2>2, OutdatedType DEF CreateAgain, TypeOK, volumes, machine
<1>3. CASE DeleteFirewall
  <2>1. obj' \in Object
    BY <1>3 DEF DeleteFirewall, TypeOK, Object
  <2> QED
    BY <1>3, <2>1, OutdatedType DEF DeleteFirewall, TypeOK, volumes, machine
<1>4. CASE SyncFirewall \/ SyncMachine
  BY <1>4 DEF SyncFirewall, SyncMachine, TypeOK, volumes, machine, object
<1>5. ASSUME NEW c \in Claims, Bind(c)
      PROVE  TypeOK'
  BY <1>5 DEF Bind, TypeOK, object, machine
<1>6. CASE MachineStarts
  BY <1>6 DEF MachineStarts, TypeOK, object, volumes, Machine
<1>7. ASSUME NEW v \in Versions, CollectService(v)
      PROVE  TypeOK'
  BY <1>7 DEF CollectService, TypeOK, object, volumes, machine
<1>8. CASE WriteFails
  BY <1>8 DEF WriteFails, GiveUp, TypeOK, object, volumes, machine
<1>9. CASE BeginGone
  BY <1>9 DEF BeginGone, TypeOK, object, volumes, machine
<1>10. CASE Begin
  <2>1. Entry(seen) \in Phases
    BY DEF Entry, Phases, Building
  <2>2. worker' \in Task
    BY <1>10, <2>1 DEF Begin, TypeOK, Task
  <2> QED
    BY <1>10, <2>2 DEF Begin, TypeOK, object, volumes, machine
<1>11. CASE AddFinalizer
  <2>1. obj' \in Object
    BY <1>11 DEF AddFinalizer, TypeOK, Object
  <2>2. worker \in Task
    BY <1>11, AtTask DEF AddFinalizer, Phases
  <2>3. [GoTo("clone") EXCEPT !.inst = obj', !.fresh = FALSE] \in Task
    <3>1. "clone" \in Phases
      BY DEF Phases, Building
    <3>2. GoTo("clone") \in Task
      BY <2>2, <3>1, GoToTask
    <3> QED
      BY <2>1, <3>2 DEF Task
  <2>4. /\ worker' \in Task \cup {Idle} /\ queue' \in BOOLEAN /\ dropped' = dropped
    BY <1>11, <2>3 DEF AddFinalizer, Proceed, GiveUp, TypeOK
  <2> QED
    BY <1>11, <2>1, <2>4 DEF AddFinalizer, TypeOK, volumes, machine
<1>12. CASE RemoveFinalizer
  <2>1. obj' \in Object
    BY <1>12 DEF RemoveFinalizer, TypeOK, Object
  <2>2. worker' = Idle /\ queue' \in BOOLEAN /\ dropped' = dropped
    BY <1>12 DEF RemoveFinalizer, Proceed, GiveUp, TypeOK
  <2> QED
    BY <1>12, <2>1, <2>2 DEF RemoveFinalizer, TypeOK, volumes, machine
<1>13. CASE Calls
  <2>1. /\ worker \in Task /\ Moves
        /\ UNCHANGED <<object, svc, edits>>
    BY <1>13, CallsMove
  <2>2. worker' \in Task \cup {Idle} /\ queue' \in BOOLEAN /\ dropped' \in BOOLEAN
    BY <2>1, MovesType
  <2>3. worker.inst \in Object
    BY <2>1 DEF Task
  <2>4. claims' \subseteq Claims /\ bound' \subseteq claims'
    <3>1. CASE CloneClaims
      <4>1. worker.inst.version \in Versions
        BY <2>3 DEF Object
      <4>2. PICK kinds \in SUBSET Kinds :
              claims' = claims \cup (kinds \X {worker.inst.version})
        BY <3>1 DEF CloneClaims
      <4>3. kinds \X {worker.inst.version} \subseteq Claims
        BY <4>1 DEF Claims
      <4> QED
        BY <3>1, <4>2, <4>3 DEF CloneClaims, TypeOK
    <3>2. CASE Calls /\ ~CloneClaims
      <4>1. UNCHANGED volumes
        BY <3>2 DEF Calls, Waiting, AwaitClaim, WaitBroken, CreateMachine,
           KeepMachine, PatchMachine, RestartMachine, CallFails
      <4> QED
        BY <4>1 DEF volumes, TypeOK
    <3> QED
      BY <1>13, <3>1, <3>2
  <2>5. /\ vm' \in Machine \cup {None} /\ vmSeen' \in Machine \cup {None}
        /\ vmi' \in Layouts \cup {None}
    <3>1. CASE CreateMachine
      BY <3>1, <2>3 DEF CreateMachine, TypeOK, Machine, Object
    <3>2. CASE PatchMachine
      BY <3>2, <2>3 DEF PatchMachine, TypeOK, Machine, Object
    <3>3. CASE CloneClaims \/ Waiting \/ KeepMachine \/ RestartMachine \/ CallFails
      BY <3>3 DEF CloneClaims, Waiting, AwaitClaim, WaitBroken, KeepMachine,
         RestartMachine, CallFails, machine, TypeOK
    <3> QED
      BY <1>13, <3>1, <3>2, <3>3 DEF Calls
  <2> QED
    BY <2>1, <2>2, <2>4, <2>5 DEF TypeOK, object
<1>14. CASE CreateService
  <2>1. svc' \in [Versions -> Lives \cup {0}]
    BY <1>14, ServiceMoves DEF TypeOK, Task, Object
  <2> QED
    BY <1>14, <2>1, ServiceMoves DEF TypeOK, object, volumes, machine
<1>15. CASE Restart
  BY <1>15 DEF Restart, TypeOK, volumes, Object
<1>16. CASE UNCHANGED vars
  BY <1>16 DEF vars, object, volumes, machine, TypeOK
<1>17. Users => TypeOK'
  BY <1>1, <1>2, <1>3 DEF Users
<1>18. Cluster => TypeOK'
  BY <1>4, <1>5, <1>6, <1>7 DEF Cluster
<1>19. Step \/ Waiting => TypeOK'
  BY <1>8, <1>9, <1>10, <1>11, <1>12, <1>13, <1>14 DEF Step, Calls
<1> QED
  BY <1>15, <1>16, <1>17, <1>18, <1>19 DEF Next

LEMMA InitType == Init => TypeOK
<1> SUFFICES ASSUME Init PROVE TypeOK
  OBVIOUS
<1>1. 1 \in Lives
  BY DEF Lives
<1>2. obj \in Object
  BY <1>1, BornObject DEF Init
<1>3. svc \in [Versions -> Lives \cup {0}] /\ edits \in 0..MaxEdits
  BY DEF Init
<1> QED
  BY <1>2, <1>3 DEF Init, TypeOK

\* Every variable keeps its type.
THEOREM TypeCorrect == Spec => []TypeOK
<1> QED
  BY InitType, TypeStep, PTL DEF Spec

----------------------------------------------------------------------------
(***************************************************************************)
(* The invariant.  A copy that says "finalizer, not deleting" can be old,  *)
(* but what it says still holds of that life (SeenInv): only the worker    *)
(* takes the finalizer away, on a current copy that says the contrary.     *)
(***************************************************************************)

\* Life n of the name exists and holds the finalizer.
Holds(n) == obj.live /\ obj.finalizer /\ obj.uid = n

CacheInv == latest => seen = obj

SeenInv == seen.live /\ seen.finalizer /\ ~seen.deleting => Holds(seen.uid)

\* A copy the worker may write on is the one in the cache.
CopyInv ==
  /\ worker.pc \in {"finalizer", "unfinalize"} =>
       /\ worker.inst.live
       /\ worker.inst.deleting <=> worker.pc = "unfinalize"
       /\ worker.fresh => latest /\ worker.inst = seen

BuildInv == worker.pc \in Building => Holds(worker.inst.uid)

\* Nobody deletes the machine.
MachineInv ==
  /\ vmSeen # None => vm # None
  /\ worker.pc \in {"restart", "service"} => vm # None

\* If nothing is queued the worker has the current copy, or has had it.
ServedInv ==
  latest /\ ~queue =>
    /\ worker # Idle => worker.inst = seen
    /\ worker = Idle /\ seen.live /\ ~seen.deleting /\ ~dropped =>
         seen.finalizer /\ vm # None /\ svc[seen.version] = seen.uid

Inv ==
  TypeOK /\ CacheInv /\ SeenInv /\ CopyInv /\ BuildInv /\ MachineInv /\ ServedInv

LEMMA InitInv == Init => Inv
<1> SUFFICES ASSUME Init PROVE Inv
  OBVIOUS
<1>1. TypeOK
  BY InitType
<1>2. ~seen.finalizer /\ worker.pc = "idle"
  BY DEF Init, Born, Idle
<1> QED
  BY <1>1, <1>2 DEF Init, Inv, CacheInv, SeenInv, CopyInv, BuildInv, MachineInv, ServedInv,
     Building

\* A worker that is at work is not idle.
LEMMA Busy ==
  ASSUME TypeOK
  PROVE  worker.pc \in Phases <=> worker # Idle
  BY DEF TypeOK, Task, Idle, Phases, Building

\* What a user writes leaves every copy behind.
LEMMA OutdatedKeeps ==
  ASSUME Inv, Outdated
  PROVE  /\ ~latest' /\ worker'.pc = worker.pc
         /\ worker # Idle => worker'.inst = worker.inst /\ ~worker'.fresh
  BY DEF Inv, TypeOK, Outdated, Task

\* The parts of the invariant that a step leaves alone.
LEMMA ViewKept ==
  ASSUME Inv, UNCHANGED object
  PROVE  CacheInv' /\ SeenInv'
  BY DEF object, Inv, CacheInv, SeenInv, Holds

LEMMA DoneKept ==
  ASSUME Inv, worker' = Idle, vmSeen' \in {vmSeen, vm}, vm' = vm
  PROVE  CopyInv' /\ BuildInv' /\ MachineInv'
<1>1. worker'.pc = "idle"
  BY DEF Idle
<1> QED
  BY <1>1 DEF Inv, CopyInv, BuildInv, Building, MachineInv

LEMMA WorkerKept ==
  ASSUME Inv, UNCHANGED <<object, worker>>
  PROVE  CopyInv' /\ BuildInv'
<1>1. CopyInv'
  BY DEF object, Inv, CopyInv
<1>2. BuildInv'
  BY DEF object, Inv, BuildInv, Holds
<1> QED
  BY <1>1, <1>2

LEMMA ServedKept ==
  ASSUME Inv, UNCHANGED <<object, queue, worker, vm, svc, dropped>>
  PROVE  ServedInv'
  BY DEF object, Inv, ServedInv

\* All of the invariant but the types.
Rest == CacheInv /\ SeenInv /\ CopyInv /\ BuildInv /\ MachineInv /\ ServedInv

\* A user's write: the lives that hold the finalizer still do.
LEMMA UserStep ==
  ASSUME Inv, Outdated, UNCHANGED <<seen, queue, machine>>,
         \A n : Holds(n) => Holds(n)'
  PROVE  Rest'
<1>1. /\ ~latest' /\ worker'.pc = worker.pc
      /\ worker # Idle => worker'.inst = worker.inst /\ ~worker'.fresh
  BY OutdatedKeeps
<1>2. worker.pc \in Phases <=> worker # Idle
  BY Busy DEF Inv
<1>3. SeenInv'
  BY DEF Inv, SeenInv
<1>4. BuildInv'
  BY <1>1, <1>2, KindPhases DEF Inv, BuildInv
<1>5. CopyInv'
  BY <1>1, <1>2 DEF Inv, CopyInv, Phases
<1>6. MachineInv'
  BY <1>1 DEF Inv, MachineInv, machine
<1> QED
  BY <1>1, <1>3, <1>4, <1>5, <1>6 DEF Rest, CacheInv, ServedInv

LEMMA UsersKeep ==
  ASSUME Inv, Users
  PROVE  Rest'
<1>t. TypeOK
  BY DEF Inv
<1>1. ASSUME NEW v \in Versions, NEW p \in Layouts, EditSpec(v, p)
      PROVE  Rest'
  <2>1. obj'.live = obj.live /\ obj'.finalizer = obj.finalizer /\ obj'.uid = obj.uid
    BY <1>1, <1>t DEF EditSpec, TypeOK, Object
  <2> QED
    BY <1>1, <2>1, UserStep DEF EditSpec, Holds
<1>2. ASSUME NEW v \in Versions, NEW p \in Layouts, CreateAgain(v, p)
      PROVE  Rest'
  BY <1>2, UserStep DEF CreateAgain, Holds
<1>3. CASE DeleteFirewall
  <2>1. CASE obj.finalizer
    <3>1. obj'.live = obj.live /\ obj'.finalizer = obj.finalizer /\ obj'.uid = obj.uid
      BY <1>3, <1>t, <2>1 DEF DeleteFirewall, TypeOK, Object
    <3> QED
      BY <1>3, <3>1, UserStep DEF DeleteFirewall, Holds
  <2>2. CASE ~obj.finalizer
    BY <1>3, <2>2, UserStep DEF DeleteFirewall, Holds
  <2> QED
    BY <2>1, <2>2
<1> QED
  BY <1>1, <1>2, <1>3 DEF Users

LEMMA ClusterKeeps ==
  ASSUME Inv, Cluster
  PROVE  Rest'
<1>t. TypeOK
  BY DEF Inv
<1>1. CASE SyncFirewall
  <2>1. /\ UNCHANGED <<obj, worker, vm, vmSeen>>
        /\ ~latest /\ seen' = obj /\ queue' = TRUE
    BY <1>1 DEF SyncFirewall, machine
  <2>2. CacheInv' /\ SeenInv'
    BY <2>1 DEF CacheInv, SeenInv, Holds
  <2>3. CopyInv'
    BY <2>1 DEF Inv, CopyInv
  <2>4. BuildInv' /\ MachineInv'
    BY <2>1 DEF Inv, BuildInv, Holds, MachineInv
  <2>5. ServedInv'
    BY <2>1 DEF ServedInv
  <2> QED
    BY <2>2, <2>3, <2>4, <2>5 DEF Rest
<1>2. CASE SyncMachine
  <2>1. MachineInv'
    BY <1>2 DEF SyncMachine, Inv, MachineInv
  <2> QED
    BY <1>2, <2>1, ViewKept, WorkerKept, ServedKept DEF SyncMachine, Rest
<1>3. ASSUME UNCHANGED <<object, queue, worker, vm, vmSeen, svc, dropped>>
      PROVE  Rest'
  <2>1. MachineInv'
    BY <1>3 DEF Inv, MachineInv
  <2> QED
    BY <1>3, <2>1, ViewKept, WorkerKept, ServedKept DEF Rest
<1>4. ASSUME NEW c \in Claims, Bind(c)
      PROVE  Rest'
  BY <1>3, <1>4 DEF Bind, machine
<1>5. CASE MachineStarts
  BY <1>3, <1>5 DEF MachineStarts
<1>6. ASSUME NEW v \in Versions, CollectService(v)
      PROVE  Rest'
  <2>1. UNCHANGED <<object, queue, worker, vm, vmSeen, dropped>>
    BY <1>6 DEF CollectService, machine
  <2>2. ASSUME latest, seen.live, svc[seen.version] = seen.uid
        PROVE  svc'[seen.version] = seen.uid
    <3>1. v # seen.version
      BY <1>6, <2>2 DEF CollectService, Owned, Inv, CacheInv
    <3> QED
      BY <1>6, <1>t, <2>2, <3>1 DEF CollectService, TypeOK, Object
  <2>3. MachineInv'
    BY <2>1 DEF Inv, MachineInv
  <2>4. ServedInv'
    BY <2>1, <2>2 DEF object, Inv, ServedInv
  <2> QED
    BY <2>1, <2>3, <2>4, ViewKept, WorkerKept DEF Rest
<1> QED
  BY <1>1, <1>2, <1>4, <1>5, <1>6 DEF Cluster

\* The beginning of Reconcile, and the writes of the object.
LEMMA FinalizerKeeps ==
  ASSUME Inv, BeginGone \/ Begin \/ AddFinalizer \/ RemoveFinalizer \/ WriteFails
  PROVE  Rest'
<1>t. TypeOK
  BY DEF Inv
<1>1. CASE WriteFails
  <2>1. UNCHANGED <<object, vm, vmSeen>> /\ worker' = Idle /\ queue' = TRUE
    BY <1>1 DEF WriteFails, GiveUp, machine
  <2>2. ServedInv'
    BY <2>1 DEF ServedInv
  <2> QED
    BY <2>1, <2>2, ViewKept, DoneKept DEF Rest
<1>2. CASE BeginGone
  <2>1. UNCHANGED <<object, worker, vm, vmSeen>> /\ worker = Idle /\ ~seen.live
    BY <1>2 DEF BeginGone, machine
  <2>2. ServedInv'
    BY <2>1 DEF object, ServedInv
  <2> QED
    BY <2>1, <2>2, ViewKept, DoneKept DEF Rest
<1>3. CASE Begin
  <2>1. /\ UNCHANGED <<object, vm, vmSeen>>
        /\ seen.live
        /\ worker'.pc = Entry(seen) /\ worker'.inst = seen /\ worker'.fresh = latest
    BY <1>3 DEF Begin, machine
  <2>2. worker' # Idle
    BY <2>1 DEF Entry, Idle
  <2>3. CopyInv'
    <3>1. CASE seen.deleting
      BY <2>1, <3>1 DEF CopyInv, Entry, object
    <3>2. CASE ~seen.deleting /\ seen.finalizer
      BY <2>1, <3>2 DEF CopyInv, Entry, object
    <3>3. CASE ~seen.deleting /\ ~seen.finalizer
      BY <2>1, <3>3 DEF CopyInv, Entry, object
    <3> QED
      BY <3>1, <3>2, <3>3
  <2>4. BuildInv'
    <3>1. Entry(seen) \in Building => seen.finalizer /\ ~seen.deleting
      BY DEF Entry, Building
    <3> QED
      BY <2>1, <3>1 DEF BuildInv, Holds, Inv, SeenInv, object
  <2>5. MachineInv'
    BY <2>1 DEF MachineInv, Entry, Inv
  <2>6. ServedInv'
    BY <2>1, <2>2 DEF ServedInv, object
  <2> QED
    BY <2>1, <2>3, <2>4, <2>5, <2>6, ViewKept DEF Rest
<1>4. CASE AddFinalizer
  <2>1. /\ UNCHANGED <<seen, vm, vmSeen>>
        /\ At("finalizer") /\ worker.fresh /\ ~latest'
        /\ obj' = [obj EXCEPT !.finalizer = TRUE]
        /\ \/ worker' = [GoTo("clone") EXCEPT !.inst = obj', !.fresh = FALSE]
           \/ worker' = Idle
    BY <1>4 DEF AddFinalizer, Writable, Proceed, GiveUp, machine
  <2>2. seen = obj /\ obj.live
    BY <2>1 DEF Inv, CopyInv, CacheInv, At
  <2>3. obj'.live /\ obj'.finalizer /\ obj'.uid = obj.uid
    BY <2>1, <2>2, <1>t DEF TypeOK, Object
  <2>4. \/ worker'.pc = "clone" /\ worker'.inst = obj'
        \/ worker'.pc = "idle"
    <3>1. worker \in Task /\ GoTo("clone") \in Task /\ GoTo("clone").pc = "clone"
      BY <2>1, <1>t, AtTask, GoToTask DEF Phases, Building
    <3>2. LET t == [GoTo("clone") EXCEPT !.inst = obj', !.fresh = FALSE]
          IN  t.pc = "clone" /\ t.inst = obj'
      BY <3>1 DEF Task
    <3>3. Idle.pc = "idle"
      BY DEF Idle
    <3> QED
      BY <2>1, <3>2, <3>3
  <2>5. SeenInv'
    BY <2>1, <2>2, <2>3 DEF SeenInv, Holds
  <2>6. CopyInv' /\ BuildInv'
    BY <2>3, <2>4 DEF CopyInv, BuildInv, Building, Holds
  <2>7. MachineInv'
    BY <2>1, <2>4 DEF Inv, MachineInv
  <2> QED
    BY <2>1, <2>5, <2>6, <2>7 DEF Rest, CacheInv, ServedInv
<1>5. CASE RemoveFinalizer
  <2>1. /\ UNCHANGED <<seen, vm, vmSeen>>
        /\ At("unfinalize") /\ worker.fresh /\ ~latest' /\ worker' = Idle
    BY <1>5 DEF RemoveFinalizer, Writable, Proceed, GiveUp, machine
  <2>2. seen.deleting
    BY <2>1 DEF Inv, CopyInv, At
  <2>3. SeenInv'
    BY <2>1, <2>2 DEF SeenInv
  <2> QED
    BY <2>1, <2>3, DoneKept DEF Rest, CacheInv, ServedInv
<1> QED
  BY <1>1, <1>2, <1>3, <1>4, <1>5

\* Once there is a machine, there is one.
LEMMA MachineStays ==
  ASSUME TypeOK, Calls, vm # None
  PROVE  vm' # None
<1>1. CASE PatchMachine
  <2>1. vm \in Machine /\ worker.inst.ports \in Layouts
    BY <1>1, AtTask DEF PatchMachine, TypeOK, Phases, Building, Task, Object
  <2>2. vm' \in Machine
    BY <1>1, <2>1 DEF PatchMachine, Machine
  <2> QED
    BY <2>2, MachineAssumption
<1>2. CASE CreateMachine
  BY <1>2 DEF CreateMachine
<1>3. CASE CloneClaims \/ Waiting \/ KeepMachine \/ RestartMachine \/ CallFails
  BY <1>3 DEF CloneClaims, Waiting, AwaitClaim, WaitBroken, KeepMachine,
     RestartMachine, CallFails, machine
<1> QED
  BY <1>1, <1>2, <1>3 DEF Calls

LEMMA CallsKeep ==
  ASSUME Inv, Calls
  PROVE  Rest'
<1>t. TypeOK
  BY DEF Inv
<1>1. /\ worker.pc \in Building /\ worker \in Task
      /\ Moves
      /\ UNCHANGED object /\ UNCHANGED svc
  BY <1>t, CallsMove
<1>2. \/ /\ worker'.pc \in Building /\ worker'.inst = worker.inst
         /\ worker # Idle /\ worker' # Idle
         /\ UNCHANGED <<queue, dropped>>
      \/ worker'.pc = "idle" /\ worker' = Idle /\ dropped' = TRUE /\ UNCHANGED queue
  <2>1. CASE \E q \in Building : worker' = GoTo(q) /\ UNCHANGED <<queue, dropped>>
    <3>1. PICK q \in Building : worker' = GoTo(q) /\ UNCHANGED <<queue, dropped>>
      BY <2>1
    <3>2. worker # Idle
      BY <1>1, <1>t, Busy, KindPhases
    <3> QED
      BY <1>1, <3>1, <3>2, GoToTask, KindPhases
  <2>2. CASE worker' = Idle /\ dropped' = TRUE /\ UNCHANGED queue
    BY <2>2 DEF Idle
  <2> QED
    BY <1>1, <2>1, <2>2 DEF Moves
<1>3. CopyInv'
  BY <1>2 DEF CopyInv, Building
<1>4. BuildInv'
  BY <1>1, <1>2 DEF object, Inv, BuildInv, Building, Holds
<1>5. MachineInv'
  <2>1. CASE CreateMachine
    <3>1. worker.inst.ports \in Layouts /\ worker.inst.version \in Versions
      BY <1>1 DEF Task, Object
    <3>2. vm' \in Machine
      BY <2>1, <3>1 DEF CreateMachine, Machine
    <3> QED
      BY <3>2, MachineAssumption DEF MachineInv
  <2>2. CASE PatchMachine
    <3>1. vm' # None
      BY <2>2, <1>t, MachineStays DEF PatchMachine, Calls
    <3> QED
      BY <3>1 DEF MachineInv
  <2>3. CASE KeepMachine
    BY <2>3 DEF KeepMachine, machine, Inv, MachineInv
  <2>4. CASE RestartMachine
    BY <2>4 DEF RestartMachine, At, Inv, MachineInv
  <2>5. CASE CallFails
    BY <2>5 DEF CallFails, Drop, machine, Inv, MachineInv, Idle
  <2>6. CASE CloneClaims
    <3>1. worker'.pc = "os" /\ UNCHANGED machine
      BY <2>6, <1>1, GoToTask DEF CloneClaims, Proceed, Phases, Building
    <3> QED
      BY <3>1 DEF machine, Inv, MachineInv
  <2>7. CASE Waiting
    <3>1. PICK k \in Kinds : worker' = GoTo(AfterWait(k)) /\ UNCHANGED machine
      BY <2>7 DEF Waiting, AwaitClaim, WaitBroken, Proceed
    <3>2. worker'.pc = AfterWait(k)
      BY <3>1, <1>1, GoToTask, KindPhases
    <3> QED
      BY <3>1, <3>2 DEF AfterWait, machine, Inv, MachineInv
  <2> QED
    BY <2>1, <2>2, <2>3, <2>4, <2>5, <2>6, <2>7 DEF Calls
<1>6. ServedInv'
  <2>1. CASE worker' # Idle
    BY <1>1, <1>2, <2>1 DEF object, Inv, ServedInv
  <2>2. CASE worker' = Idle
    BY <1>2, <2>2 DEF ServedInv
  <2> QED
    BY <2>1, <2>2
<1> QED
  BY <1>1, <1>3, <1>4, <1>5, <1>6, ViewKept DEF Rest

LEMMA ServiceKeeps ==
  ASSUME Inv, CreateService
  PROVE  Rest'
<1>t. TypeOK
  BY DEF Inv
<1>1. /\ worker.pc = "service" /\ worker \in Task /\ worker' = Idle
      /\ dropped' \in {dropped, TRUE}
      /\ svc' = [svc EXCEPT ![worker.inst.version] = worker.inst.uid]
      /\ UNCHANGED <<object, queue, vm, vmSeen>>
  BY <1>t, ServiceMoves DEF machine
<1>2. ASSUME latest, ~queue
      PROVE  seen.finalizer /\ vm # None /\ svc'[seen.version] = seen.uid
  <2>1. worker.inst = seen /\ seen = obj
    BY <1>1, <1>2, <1>t, Busy DEF Inv, ServedInv, CacheInv, Phases, Building
  <2>2. Holds(seen.uid) /\ vm # None
    BY <1>1, <2>1 DEF Inv, BuildInv, Building, MachineInv
  <2>3. seen.version \in Versions
    BY <1>t DEF TypeOK, Object
  <2> QED
    BY <1>1, <1>t, <2>1, <2>2, <2>3 DEF Holds, TypeOK
<1>3. ServedInv'
  BY <1>1, <1>2 DEF object, ServedInv
<1> QED
  BY <1>1, <1>3, ViewKept, DoneKept DEF Rest

LEMMA RestartKeeps ==
  ASSUME Inv, Restart
  PROVE  Rest'
<1>1. /\ UNCHANGED <<obj, vm>>
      /\ worker' = Idle /\ vmSeen' = vm
      /\ \/ seen' = obj /\ latest' = TRUE
         \/ UNCHANGED <<seen, latest>>
      /\ queue' = seen'.live
  BY DEF Restart
<1>2. CacheInv'
  BY <1>1 DEF Inv, CacheInv
<1>3. SeenInv'
  BY <1>1 DEF Inv, SeenInv, Holds
<1>4. ServedInv'
  BY <1>1 DEF ServedInv
<1> QED
  BY <1>1, <1>2, <1>3, <1>4, DoneKept DEF Rest

LEMMA InvStep == Inv /\ [Next]_vars => Inv'
<1> SUFFICES ASSUME Inv, [Next]_vars PROVE Inv'
  OBVIOUS
<1>1. TypeOK'
  BY TypeStep DEF Inv
<1>2. UNCHANGED vars => Rest'
  <2> SUFFICES ASSUME UNCHANGED vars PROVE Rest'
    OBVIOUS
  <2>1. UNCHANGED <<object, queue, worker, vm, vmSeen, svc, dropped>>
    BY DEF vars, machine
  <2>2. MachineInv'
    BY <2>1 DEF Inv, MachineInv
  <2> QED
    BY <2>1, <2>2, ViewKept, WorkerKept, ServedKept DEF Rest
<1>3. Rest'
  BY <1>2, UsersKeep, ClusterKeeps, FinalizerKeeps, CallsKeep, ServiceKeeps, RestartKeeps
  DEF Next, Step, Calls
<1> QED
  BY <1>1, <1>3 DEF Inv, Rest

THEOREM InvCorrect == Spec => []Inv
<1> QED
  BY InitInv, InvStep, PTL DEF Spec

\* Whenever nothing is left to do and nothing was dropped, the firewall has its
\* finalizer, its machine and its own Service: by ServedInv.
THEOREM QuietProvided == Spec => []QuietMeansProvided
<1>1. Inv => QuietMeansProvided
  BY DEF Inv, ServedInv, CacheInv, QuietMeansProvided, Quiet, Provided, Owned
<1> QED
  BY <1>1, InvCorrect, PTL

\* Nothing is made for a firewall unless it exists, in the life that asked for
\* it, and holds the finalizer: what is made is made by a call of createFirewall,
\* and BuildInv holds there.
THEOREM MadeHeld == Spec => MadeUnderFinalizer
<1>1. ASSUME Inv, [Next]_vars, Makes
      PROVE  obj.live /\ obj.finalizer /\ worker.inst.uid = obj.uid
  <2>0. TypeOK
    BY <1>1 DEF Inv
  <2>1. worker.pc \in Building
    <3>1. Calls \/ CreateService => worker.pc \in Building
      BY <2>0, CallsMove, ServiceMoves DEF Building
    <3>2. ASSUME NEW v \in Versions, CollectService(v)
          PROVE  ~Makes
      BY <3>2, <2>0 DEF CollectService, Makes, volumes, machine, TypeOK
    <3>3. ASSUME UNCHANGED <<claims, vm, svc>>
          PROVE  ~Makes
      BY <3>3 DEF Makes
    <3>4. Users => UNCHANGED <<claims, vm, svc>>
      BY DEF Users, EditSpec, CreateAgain, DeleteFirewall, volumes, machine
    <3>5. ASSUME NEW c \in Claims, Bind(c)
          PROVE  UNCHANGED <<claims, vm, svc>>
      BY <3>5 DEF Bind, machine
    <3>6. SyncFirewall \/ SyncMachine \/ MachineStarts => UNCHANGED <<claims, vm, svc>>
      BY DEF SyncFirewall, SyncMachine, MachineStarts, volumes, machine
    <3>7. Cluster => ~Makes
      BY <3>2, <3>3, <3>5, <3>6 DEF Cluster
    <3>8. BeginGone \/ Begin \/ AddFinalizer \/ RemoveFinalizer \/ WriteFails \/ Restart
            => UNCHANGED <<claims, vm, svc>>
      BY DEF BeginGone, Begin, AddFinalizer, RemoveFinalizer, WriteFails, Restart,
         volumes, machine
    <3>9. UNCHANGED vars => UNCHANGED <<claims, vm, svc>>
      BY DEF vars, volumes, machine
    <3> QED
      BY <1>1, <3>1, <3>3, <3>4, <3>7, <3>8, <3>9 DEF Next, Step, Calls
  <2> QED
    BY <1>1, <2>1 DEF Inv, BuildInv, Holds
<1>2. Inv /\ [Next]_vars
        => [Makes => obj.live /\ obj.finalizer /\ worker.inst.uid = obj.uid]_vars
  BY <1>1
<1> QED
  BY <1>2, InvCorrect, PTL DEF Spec, MadeUnderFinalizer

=============================================================================
