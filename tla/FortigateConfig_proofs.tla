------------------------ MODULE FortigateConfig_proofs ------------------------
(***************************************************************************)
(* Proofs about FortigateConfig, for any rules, any lists of them and any  *)
(* number of edits.                                                        *)
(***************************************************************************)
EXTENDS FortigateConfig, TLAPS

USE ListsAssumption, BoundAssumption

----------------------------------------------------------------------------
(***************************************************************************)
(* Types.                                                                  *)
(***************************************************************************)

\* A worker at some phase other than idle holds a task.
LEMMA AtTask ==
  ASSUME TypeOK, NEW p \in Phases, At(p)
  PROVE  worker \in Task /\ worker # Idle
  BY DEF TypeOK, At, Idle, Phases

\* A task that moves on to another phase is still a task.
LEMMA GoToType ==
  ASSUME worker \in Task, NEW p \in Phases
  PROVE  GoTo(p) \in Task
  BY DEF GoTo, Task

\* What the worker may become when it gives up or goes on is well typed.
LEMMA AnsweredType ==
  ASSUME TypeOK, NEW next \in Task \cup {Idle}, Answered(next)
  PROVE  worker' \in Task \cup {Idle} /\ queue' \in BOOLEAN
  BY DEF TypeOK, Answered, GiveUp

\* Whatever OpenTofu creates and deletes, what it leaves are rules.
LEMMA ReachType ==
  ASSUME TypeOK, NEW made, NEW gone, made \subseteq Items, Reach(made, gone)
  PROVE  tfstate' \subseteq Items /\ device' \subseteq Items
  BY DEF TypeOK, Reach

\* The files of the directory declare rules.
LEMMA WantedType ==
  ASSUME TypeOK
  PROVE  Wanted \subseteq Items
  BY DEF TypeOK, Wanted, Files

\* Only the deletion takes the generation past the bound of the edits, and it
\* comes once: TypeOK needs this to be inductive.
GenerationInv == ~obj.deleting => obj.gen <= MaxEdits

\* Every action keeps each variable within its type.
LEMMA TypeStep == TypeOK /\ GenerationInv /\ [Next]_vars => TypeOK'
<1> SUFFICES ASSUME TypeOK, GenerationInv, [Next]_vars PROVE TypeOK'
  OBVIOUS
<1>1. ASSUME NEW l \in Lists, EditSpec(l)
      PROVE  TypeOK'
  <2>1. obj.gen + 1 \in 0..(MaxEdits + 1)
    BY <1>1 DEF TypeOK, EditSpec, Edits, Object
  <2>2. obj' \in Object
    BY <1>1, <2>1 DEF TypeOK, EditSpec, Object
  <2>3. worker' \in Task \cup {Idle} /\ latest' \in BOOLEAN
    BY <1>1 DEF TypeOK, EditSpec, Outdated, Task
  <2> QED
    BY <1>1, <2>2, <2>3 DEF TypeOK, EditSpec
<1>2. CASE DeleteConfig
  <2>1. obj.gen + 1 \in 0..(MaxEdits + 1)
    BY <1>2 DEF TypeOK, DeleteConfig, Object, GenerationInv
  <2>2. obj' \in Object
    BY <1>2, <2>1 DEF TypeOK, DeleteConfig, Object
  <2>3. worker' \in Task \cup {Idle} /\ latest' \in BOOLEAN
    BY <1>2 DEF TypeOK, DeleteConfig, Outdated, Task
  <2> QED
    BY <1>2, <2>2, <2>3 DEF TypeOK, DeleteConfig
<1>3. CASE SyncConfig \/ FirewallChanges \/ Restart
  BY <1>3 DEF TypeOK, SyncConfig, FirewallChanges, Restart, NoFiles, object
<1>4. CASE BeginGone \/ CallFails
  BY <1>4 DEF TypeOK, BeginGone, CallFails, GiveUp, object
<1>5. CASE Begin
  <2>1. worker' \in Task
    BY <1>5 DEF TypeOK, Begin, Entry, Task, Phases
  <2> QED
    BY <1>5, <2>1 DEF TypeOK, Begin, object
<1>6. CASE AddFinalizer
  <2>1. worker \in Task
    BY <1>6, AtTask DEF AddFinalizer, Phases
  <2>2. [GoTo("render") EXCEPT !.inst.finalizer = TRUE] \in Task
    BY <2>1 DEF GoTo, Task, Object, Phases
  <2>3. worker' \in Task \cup {Idle} /\ queue' \in BOOLEAN
    BY <1>6, <2>2, AnsweredType DEF AddFinalizer
  <2>4. obj' \in Object
    BY <1>6 DEF TypeOK, AddFinalizer, Object
  <2> QED
    BY <1>6, <2>3, <2>4 DEF TypeOK, AddFinalizer
<1>7. CASE Render
  <2>1. worker \in Task
    BY <1>7, AtTask DEF Render, Phases
  <2>2. worker' \in Task
    BY <1>7, <2>1, GoToType DEF Render, Phases
  <2>3. worker.inst.items \in Seq(Items)
    BY <2>1 DEF Task, Object
  <2>4. dir' \in [Indices -> Items \cup {None}]
    BY <1>7, <2>3 DEF TypeOK, Render, Indices
  <2> QED
    BY <1>7, <2>2, <2>4 DEF TypeOK, Render, object
<1>8. CASE Validate
  <2>1. worker' \in Task
    BY <1>8, AtTask, GoToType DEF Validate, Phases
  <2> QED
    BY <1>8, <2>1 DEF TypeOK, Validate, object
<1>9. CASE ApplyTerraform
  <2>1. worker \in Task
    BY <1>9, AtTask DEF ApplyTerraform, Phases
  <2>2. GoTo("destroy") \in Task /\ GoTo("status") \in Task
    BY <2>1, GoToType DEF Phases
  <2>3. worker' \in Task \cup {Idle} /\ queue' \in BOOLEAN
    BY <1>9, <2>2, AnsweredType DEF ApplyTerraform
  <2>4. tfstate' \subseteq Items /\ device' \subseteq Items
    BY <1>9, ReachType, WantedType DEF ApplyTerraform
  <2> QED
    BY <1>9, <2>3, <2>4 DEF TypeOK, ApplyTerraform, object
<1>10. CASE ApplyInPart
  <2>1. tfstate' \subseteq Items /\ device' \subseteq Items
    BY <1>10, ReachType, WantedType DEF ApplyInPart
  <2> QED
    BY <1>10, <2>1 DEF TypeOK, ApplyInPart, GiveUp, object
<1>11. CASE Destroy
  <2>1. GoTo("unfinalize") \in Task
    BY <1>11, AtTask, GoToType DEF Destroy, Phases
  <2>2. worker' \in Task \cup {Idle} /\ queue' \in BOOLEAN
    BY <1>11, <2>1, AnsweredType DEF Destroy
  <2>3. tfstate' \subseteq Items /\ device' \subseteq Items
    BY <1>11, ReachType DEF Destroy
  <2> QED
    BY <1>11, <2>2, <2>3 DEF TypeOK, Destroy, object
<1>12. CASE DestroyInPart
  <2>1. tfstate' \subseteq Items /\ device' \subseteq Items
    BY <1>12, ReachType DEF DestroyInPart
  <2> QED
    BY <1>12, <2>1 DEF TypeOK, DestroyInPart, GiveUp, object
<1>13. CASE WriteStatus \/ RemoveFinalizer
  <2>1. worker' \in Task \cup {Idle} /\ queue' \in BOOLEAN
    BY <1>13, AnsweredType DEF WriteStatus, RemoveFinalizer
  <2>2. obj' \in Object
    BY <1>13 DEF TypeOK, WriteStatus, RemoveFinalizer, Object
  <2> QED
    BY <1>13, <2>1, <2>2 DEF TypeOK, WriteStatus, RemoveFinalizer
<1>14. CASE UNCHANGED vars
  BY <1>14 DEF TypeOK, vars, object
<1> QED
  BY <1>1, <1>2, <1>3, <1>4, <1>5, <1>6, <1>7, <1>8, <1>9, <1>10, <1>11, <1>12,
     <1>13, <1>14
     DEF Next, Environment, Reconcile

\* An edit stops at the bound, a deletion is made once, and the operator's own
\* writes leave the generation alone.
LEMMA GenerationStep == TypeOK /\ GenerationInv /\ [Next]_vars => GenerationInv'
<1> SUFFICES ASSUME TypeOK, GenerationInv, [Next]_vars PROVE GenerationInv'
  OBVIOUS
<1> USE DEF GenerationInv
<1>1. ASSUME NEW l \in Lists, EditSpec(l)
      PROVE  GenerationInv'
  <2>1. obj'.gen = obj.gen + 1 /\ obj'.deleting = obj.deleting
    BY <1>1 DEF EditSpec, TypeOK, Object
  <2>2. obj.gen \in Nat /\ (~obj.deleting => obj.gen < MaxEdits)
    BY <1>1 DEF EditSpec, Edits, TypeOK, Object
  <2> QED
    BY <2>1, <2>2
<1>2. CASE DeleteConfig
  BY <1>2 DEF DeleteConfig, TypeOK, Object
<1>3. CASE AddFinalizer \/ WriteStatus \/ RemoveFinalizer
  BY <1>3 DEF AddFinalizer, WriteStatus, RemoveFinalizer, TypeOK, Object
<1>4. CASE UNCHANGED obj
  BY <1>4
<1> QED
  BY <1>1, <1>2, <1>3, <1>4
     DEF Next, Environment, Reconcile, SyncConfig, FirewallChanges, BeginGone,
         Begin, CallFails, Render, Validate, ApplyTerraform, ApplyInPart,
         Destroy, DestroyInPart, Restart, object, vars

\* The model is well typed for every instance.
THEOREM TypeCorrect == Spec => []TypeOK
<1>1. Init => TypeOK /\ GenerationInv
  BY DEF Init, TypeOK, GenerationInv, Object, NoFiles, Indices
<1> QED
  BY <1>1, TypeStep, GenerationStep, PTL DEF Spec

----------------------------------------------------------------------------
(***************************************************************************)
(* The inductive invariant.  What keeps a rule from outliving its object   *)
(* is spread over several places: the finalizer of the object, of the copy *)
(* in the cache and of the one in the worker's memory (HoldInv), and, for  *)
(* the cleanup, what OpenTofu knows of the firewall (StateInv) and when    *)
(* the worker may take the finalizer away (CleanInv).                      *)
(***************************************************************************)

\* While the object exists a copy that shows it held, or a worker past the
\* finalizer, is right about it.
HoldInv ==
  obj.live => /\ obj.deleting => obj.finalizer
              /\ seen.finalizer \/ seen.deleting => obj.finalizer
              /\ worker # Idle /\ worker.pc # "finalizer" => obj.finalizer
              /\ device # {} => obj.finalizer

\* OpenTofu's state lists the rules of the firewall.
StateInv == device = tfstate

\* At the removal of the finalizer the destroy is complete.
CleanInv == worker # Idle /\ worker.pc = "unfinalize" => device = {}

\* A write is taken only while the object exists: the copy it was read from is
\* the object, and an object without its finalizer disappears at once.
GoneInv ==
  /\ latest => seen = obj
  /\ worker # Idle /\ worker.fresh => obj.live
  /\ ~obj.live => ~obj.finalizer

Inv == TypeOK /\ GenerationInv /\ HoldInv /\ StateInv /\ CleanInv /\ GoneInv

\* A write by somebody else leaves the worker where it is, with a copy that is
\* no longer fresh.
OutdatedOnly ==
  \/ worker = Idle /\ worker' = Idle
  \/ /\ worker # Idle /\ worker' # Idle
     /\ worker'.pc = worker.pc /\ ~worker'.fresh

LEMMA OutdatedWorker == TypeOK /\ Outdated => OutdatedOnly
<1> SUFFICES ASSUME TypeOK, Outdated, worker # Idle PROVE OutdatedOnly
  BY DEF Outdated, OutdatedOnly
<1>1. worker \in Task /\ worker' = [worker EXCEPT !.fresh = FALSE]
  BY DEF TypeOK, Outdated
<1>2. worker'.pc = worker.pc /\ worker.pc # "idle" /\ ~worker'.fresh
  BY <1>1 DEF Task, Phases
<1>3. worker' # Idle
  BY <1>2 DEF Idle
<1> QED
  BY <1>2, <1>3 DEF OutdatedOnly

\* Every action keeps the finalizer, the copies and the firewall consistent.
LEMMA InvStep == Inv /\ [Next]_vars => Inv'
<1> SUFFICES ASSUME Inv, [Next]_vars PROVE Inv'
  OBVIOUS
<1> USE DEF Inv
<1>t. TypeOK' /\ GenerationInv'
  BY TypeStep, GenerationStep
<1>1. ASSUME NEW l \in Lists, EditSpec(l)
      PROVE  HoldInv' /\ StateInv' /\ CleanInv' /\ GoneInv'
  <2>1. /\ obj'.live = obj.live /\ obj'.deleting = obj.deleting
        /\ obj'.finalizer = obj.finalizer
    BY <1>1 DEF EditSpec, TypeOK, Object
  <2>2. ~latest' /\ OutdatedOnly
    BY <1>1, OutdatedWorker DEF EditSpec, Outdated
  <2> QED
    BY <1>1, <2>1, <2>2
       DEF EditSpec, OutdatedOnly, HoldInv, StateInv, CleanInv, GoneInv
<1>2. ASSUME DeleteConfig
      PROVE  HoldInv' /\ StateInv' /\ CleanInv' /\ GoneInv'
  <2>1. \/ obj'.live = FALSE
        \/ obj'.live = obj.live /\ obj'.finalizer = obj.finalizer /\ obj.finalizer
    BY <1>2 DEF DeleteConfig, TypeOK, Object
  <2>2. ~latest' /\ OutdatedOnly
    BY <1>2, OutdatedWorker DEF DeleteConfig, Outdated
  <2> QED
    BY <1>2, <2>1, <2>2
       DEF DeleteConfig, OutdatedOnly, HoldInv, StateInv, CleanInv, GoneInv
<1>3. CASE SyncConfig \/ FirewallChanges \/ BeginGone
  BY <1>t, <1>3
     DEF SyncConfig, FirewallChanges, BeginGone, HoldInv, StateInv, CleanInv,
         GoneInv, object
<1>4. CASE CallFails \/ Restart
  BY <1>t, <1>4
     DEF CallFails, GiveUp, Restart, HoldInv, StateInv, CleanInv, GoneInv, object
<1>5. CASE Begin
  <2>1. worker' # Idle /\ worker'.pc = Entry(seen) /\ worker'.fresh = latest
    BY <1>5 DEF Begin, Entry, Idle
  <2>2. Entry(seen) # "finalizer" => seen.deleting \/ seen.finalizer
    BY DEF Entry
  <2>3. Entry(seen) # "unfinalize"
    BY DEF Entry
  <2> QED
    BY <1>t, <1>5, <2>1, <2>2, <2>3 DEF Begin, HoldInv, StateInv, CleanInv, GoneInv,
              object
<1>6. CASE AddFinalizer
  <2>1. worker \in Task
    BY <1>6, AtTask DEF AddFinalizer, Phases
  <2>2. [GoTo("render") EXCEPT !.inst.finalizer = TRUE].pc = "render"
    BY <2>1 DEF GoTo, Task
  <2>3. worker' = Idle \/ worker'.pc = "render"
    BY <1>6, <2>2 DEF AddFinalizer, Answered, GiveUp
  <2>5. obj.live
    BY <1>6, <2>1, AtTask DEF AddFinalizer, Writable, GoneInv, Idle, Phases
  <2>4. obj'.live = obj.live /\ obj'.finalizer
    BY <1>6 DEF AddFinalizer, TypeOK, Object
  <2> QED
    BY <1>t, <1>6, <2>3, <2>4, <2>5
       DEF AddFinalizer, HoldInv, StateInv, CleanInv, GoneInv
<1>7. CASE Render \/ Validate
  <2>1. /\ worker \in Task /\ worker # Idle
        /\ worker.pc # "finalizer"
        /\ worker'.pc \in {"validate", "apply"} /\ worker'.fresh = worker.fresh
    BY <1>7, AtTask DEF Render, Validate, At, GoTo, Task, Phases
  <2> QED
    BY <1>t, <1>7, <2>1 DEF Render, Validate, HoldInv, StateInv, CleanInv, GoneInv,
              object
<1>8. CASE ApplyTerraform \/ ApplyInPart
  <2>1. worker \in Task /\ worker # Idle /\ worker.pc = "apply"
    BY <1>8, AtTask DEF ApplyTerraform, ApplyInPart, At, Phases
  <2>2. \/ worker' = Idle
        \/ worker'.pc \in {"destroy", "status"} /\ worker'.fresh = worker.fresh
    BY <1>8, <2>1 DEF ApplyTerraform, ApplyInPart, Answered, GiveUp, GoTo, Task
  <2>3. StateInv'
    BY <1>8 DEF ApplyTerraform, ApplyInPart, Reach, StateInv
  <2>4. obj.live => obj.finalizer
    BY <2>1 DEF HoldInv
  <2> QED
    BY <1>t, <1>8, <2>1, <2>2, <2>3, <2>4
       DEF ApplyTerraform, ApplyInPart, HoldInv, CleanInv, GoneInv, object
<1>9. CASE Destroy \/ DestroyInPart
  <2>1. worker \in Task /\ worker # Idle /\ worker.pc = "destroy"
    BY <1>9, AtTask DEF Destroy, DestroyInPart, At, Phases
  <2>2. \/ worker' = Idle
        \/ /\ worker'.pc = "unfinalize" /\ worker'.fresh = worker.fresh
           /\ device' = {}
    BY <1>9, <2>1 DEF Destroy, DestroyInPart, Answered, GiveUp, GoTo, Task, Reach,
                      StateInv
  <2>3. StateInv'
    BY <1>9 DEF Destroy, DestroyInPart, Reach, StateInv
  <2>4. obj.live => obj.finalizer
    BY <2>1 DEF HoldInv
  <2> QED
    BY <1>t, <1>9, <2>1, <2>2, <2>3, <2>4
       DEF Destroy, DestroyInPart, HoldInv, CleanInv, GoneInv, object
<1>10. CASE WriteStatus
  <2>1. obj'.live = obj.live /\ obj'.deleting = obj.deleting
        /\ obj'.finalizer = obj.finalizer
    BY <1>10 DEF WriteStatus, TypeOK, Object
  <2> QED
    BY <1>t, <1>10, <2>1
       DEF WriteStatus, Answered, GiveUp, HoldInv, StateInv, CleanInv, GoneInv
<1>11. CASE RemoveFinalizer
  <2>1. ~obj'.live
    BY <1>11 DEF RemoveFinalizer, TypeOK, Object
  <2> QED
    BY <1>t, <1>11, <2>1 DEF RemoveFinalizer, Answered, GiveUp, HoldInv, StateInv,
                       CleanInv, GoneInv
<1>12. CASE UNCHANGED vars
  BY <1>t, <1>12 DEF vars, object, HoldInv, StateInv, CleanInv, GoneInv
<1> QED
  BY <1>t, <1>1, <1>2, <1>3, <1>4, <1>5, <1>6, <1>7, <1>8, <1>9, <1>10, <1>11,
     <1>12
     DEF Next, Environment, Reconcile

\* The invariant holds in every reachable state.
THEOREM InvCorrect == Spec => []Inv
<1>1. Init => Inv
  BY DEF Init, Inv, TypeOK, GenerationInv, HoldInv, StateInv, CleanInv, GoneInv,
         Object, NoFiles, Indices
<1> QED
  BY <1>1, InvStep, PTL DEF Spec

\* HeldWhileApplied: an object with a rule on the firewall holds the finalizer,
\* for any lists, edits, partial applies, lost answers and restarts.
THEOREM Held == Spec => []HeldWhileApplied
<1>1. Inv => HeldWhileApplied
  BY DEF Inv, HoldInv, HeldWhileApplied
<1> QED
  BY <1>1, InvCorrect, PTL

\* CleanWhenGone: only RemoveFinalizer makes a held object disappear, and the
\* worker reaches it with the destroy complete.
THEOREM Clean == Spec => CleanWhenGone
<1>1. ASSUME Inv, [Next]_vars, obj.finalizer, ~obj'.live
      PROVE  device = {} /\ tfstate = {}
  <2>1. obj.live
    BY <1>1 DEF Inv, GoneInv
  <2>2. CASE RemoveFinalizer
    BY <1>1, <2>2, AtTask DEF RemoveFinalizer, At, Phases, Inv, CleanInv, StateInv
  <2>3. CASE obj'.live = obj.live
    BY <1>1, <2>1, <2>3
  <2>4. DeleteConfig \/ AddFinalizer \/ WriteStatus => obj'.live = obj.live
    BY <1>1 DEF DeleteConfig, AddFinalizer, WriteStatus, Inv, TypeOK, Object
  <2>5. (\E l \in Lists : EditSpec(l)) => obj'.live = obj.live
    BY <1>1 DEF EditSpec, Inv, TypeOK, Object
  <2> QED
    BY <1>1, <2>2, <2>3, <2>4, <2>5
       DEF Next, Environment, Reconcile, SyncConfig, FirewallChanges, BeginGone,
           Begin, CallFails, Render, Validate, ApplyTerraform, ApplyInPart,
           Destroy, DestroyInPart, Restart, object, vars
<1>2. Inv /\ [Next]_vars
        => [obj.finalizer /\ ~obj'.live => device = {} /\ tfstate = {}]_vars
  BY <1>1
<1> QED
  BY <1>2, InvCorrect, PTL DEF Spec, CleanWhenGone

----------------------------------------------------------------------------
(***************************************************************************)
(* SettledIsApplied.  The operator comes to rest in one way only, by the   *)
(* status write on a current copy, after an apply of the files made from   *)
(* it; every other end of a pass leaves the object in the queue.  An edit  *)
(* that arrives later shows in the generation, even while the cache lags.  *)
(***************************************************************************)

\* The cache is behind, never ahead.
AgeInv ==
  /\ seen.gen <= obj.gen
  /\ obj.live => seen.live

\* What the worker has made of its copy: the files, then the rules.
WorkInv ==
  worker # Idle =>
    /\ worker.fresh => worker.inst.items = obj.items
    /\ worker.pc \in {"validate", "apply"} =>
         \A i \in DOMAIN worker.inst.items : dir[i] = worker.inst.items[i]
    /\ worker.pc = "status" => RulesOf(worker.inst) \subseteq device

\* At rest on the generation in the cache.
DoneInv ==
  /\ worker = Idle /\ ~queue /\ seen.gen = obj.gen
  /\ obj.live /\ ~obj.deleting /\ obj.available
  => RulesOf(obj) \subseteq device

ServedInv == AgeInv /\ WorkInv /\ DoneInv

\* A completed apply puts on the firewall what the files of its copy declare.
LEMMA ApplyReaches ==
  ASSUME Inv, WorkInv, ApplyTerraform
  PROVE  RulesOf(worker.inst) \subseteq device'
<1>1. worker \in Task /\ worker # Idle /\ worker.pc = "apply"
  BY AtTask DEF Inv, ApplyTerraform, At, Phases
<1>2. \A i \in DOMAIN worker.inst.items : dir[i] = worker.inst.items[i]
  BY <1>1 DEF WorkInv
<1>3. ASSUME NEW i \in DOMAIN worker.inst.items
      PROVE  worker.inst.items[i] \in Wanted
  <2>1. worker.inst.items \in Seq(Items) /\ Len(worker.inst.items) <= MaxFiles
    BY <1>1 DEF Task, Object
  <2>2. i \in Indices /\ worker.inst.items[i] \in Items
    BY <2>1 DEF Indices
  <2> QED
    BY <1>2, <2>2 DEF Wanted, Files
<1>4. Wanted \subseteq device'
  BY DEF ApplyTerraform, Reach
<1> QED
  BY <1>3, <1>4 DEF RulesOf

\* A write by a user: the copy of the worker is the same, and no longer fresh.
LEMMA OutdatedKeeps ==
  ASSUME TypeOK, Outdated
  PROVE  \/ worker = Idle /\ worker' = Idle
         \/ /\ worker # Idle /\ worker' # Idle
            /\ worker'.pc = worker.pc /\ worker'.inst = worker.inst /\ ~worker'.fresh
<1>1. CASE worker = Idle
  BY <1>1 DEF Outdated
<1>2. CASE worker # Idle
  <2>1. worker \in Task /\ worker' = [worker EXCEPT !.fresh = FALSE]
    BY <1>2 DEF TypeOK, Outdated
  <2>2. worker'.inst = worker.inst /\ ~worker'.fresh
    BY <2>1 DEF Task
  <2> QED
    BY <1>2, <2>2, OutdatedWorker DEF OutdatedOnly
<1> QED
  BY <1>1, <1>2

LEMMA ServedStep == Inv /\ ServedInv /\ [Next]_vars => ServedInv'
<1> SUFFICES ASSUME Inv, ServedInv, [Next]_vars PROVE ServedInv'
  OBVIOUS
<1> USE DEF ServedInv
<1>t. TypeOK /\ obj.gen \in Nat /\ seen.gen \in Nat
  BY DEF Inv, TypeOK, Object
<1>1. ASSUME NEW l \in Lists, EditSpec(l)
      PROVE  ServedInv'
  <2>1. obj'.gen = obj.gen + 1 /\ obj'.live = obj.live
    BY <1>t, <1>1 DEF EditSpec, TypeOK, Object
  <2>2. AgeInv'
    BY <1>t, <1>1, <2>1 DEF EditSpec, AgeInv
  <2>3. WorkInv'
    BY <1>t, <1>1, OutdatedKeeps DEF EditSpec, WorkInv
  <2>4. DoneInv'
    BY <1>t, <1>1, <2>1 DEF EditSpec, AgeInv, DoneInv
  <2> QED
    BY <2>2, <2>3, <2>4
<1>2. CASE DeleteConfig
  <2>1. /\ obj'.gen \in {obj.gen, obj.gen + 1}
        /\ ~obj'.live \/ (obj'.live = obj.live /\ obj'.deleting)
    BY <1>t, <1>2 DEF DeleteConfig, TypeOK, Object
  <2>2. AgeInv'
    BY <1>t, <1>2, <2>1 DEF DeleteConfig, AgeInv
  <2>3. WorkInv'
    BY <1>t, <1>2, OutdatedKeeps DEF DeleteConfig, WorkInv
  <2>4. DoneInv'
    BY <2>1 DEF DoneInv
  <2> QED
    BY <2>2, <2>3, <2>4
<1>3. CASE SyncConfig
  <2>1. AgeInv' /\ WorkInv'
    BY <1>t, <1>3 DEF SyncConfig, AgeInv, WorkInv
  <2>2. DoneInv'
    BY <1>3 DEF SyncConfig, DoneInv
  <2> QED
    BY <2>1, <2>2
<1>4. CASE FirewallChanges
  BY <1>4 DEF FirewallChanges, object, AgeInv, WorkInv, DoneInv
<1>5. CASE BeginGone
  BY <1>5 DEF BeginGone, object, AgeInv, WorkInv, DoneInv
<1>6. CASE CallFails \/ Restart
  BY <1>t, <1>6 DEF CallFails, Restart, GiveUp, object, AgeInv, WorkInv, DoneInv
<1>7. CASE Begin
  <2>1. /\ worker' # Idle /\ worker'.pc \in {"render", "finalizer"}
        /\ worker'.inst = seen /\ worker'.fresh = latest
    BY <1>7 DEF Begin, Entry, Idle
  <2>2. latest => seen = obj
    BY DEF Inv, GoneInv
  <2> QED
    BY <1>7, <2>1, <2>2 DEF Begin, object, AgeInv, WorkInv, DoneInv
<1>8. CASE AddFinalizer
  <2>1. worker \in Task /\ worker # Idle
    BY <1>t, <1>8, AtTask DEF AddFinalizer, Phases
  <2>2. /\ obj'.gen = obj.gen /\ obj'.live = obj.live /\ obj'.items = obj.items
    BY <1>t, <1>8 DEF AddFinalizer, TypeOK, Object
  <2>3. DEFINE next == [GoTo("render") EXCEPT !.inst.finalizer = TRUE]
  <2>4. /\ next.pc = "render" /\ next.fresh = worker.fresh
        /\ next.inst.items = worker.inst.items
    BY <2>1 DEF GoTo, Task, Object
  <2>5. next # Idle
    BY <2>4 DEF Idle
  <2>6. worker' = next \/ (worker' = Idle /\ queue')
    BY <1>8 DEF AddFinalizer, Answered, GiveUp
  <2> QED
    BY <1>8, <2>1, <2>2, <2>4, <2>5, <2>6
       DEF AddFinalizer, AgeInv, WorkInv, DoneInv
<1>9. CASE Render
  <2>1. worker \in Task /\ worker # Idle
    BY <1>t, <1>9, AtTask DEF Render, Phases
  <2>2. /\ worker'.pc = "validate" /\ worker'.inst = worker.inst
        /\ worker'.fresh = worker.fresh
    BY <1>9, <2>1 DEF Render, GoTo, Task
  <2>3. worker' # Idle
    BY <2>2 DEF Idle
  <2>4. worker.inst.items \in Seq(Items) /\ Len(worker.inst.items) <= MaxFiles
    BY <2>1 DEF Task, Object
  <2>5. \A i \in DOMAIN worker.inst.items : dir'[i] = worker.inst.items[i]
    BY <1>9, <2>4 DEF Render, Indices
  <2> QED
    BY <1>9, <2>1, <2>2, <2>3, <2>5 DEF Render, object, AgeInv, WorkInv, DoneInv
<1>10. CASE Validate
  <2>1. worker \in Task /\ worker # Idle /\ worker.pc = "validate"
    BY <1>t, <1>10, AtTask DEF Validate, At, Phases
  <2>2. /\ worker'.pc = "apply" /\ worker'.inst = worker.inst
        /\ worker'.fresh = worker.fresh
    BY <1>10, <2>1 DEF Validate, GoTo, Task
  <2>3. worker' # Idle
    BY <2>2 DEF Idle
  <2> QED
    BY <1>10, <2>1, <2>2, <2>3 DEF Validate, object, AgeInv, WorkInv, DoneInv
<1>11. CASE ApplyTerraform
  <2>1. worker \in Task /\ worker # Idle
    BY <1>t, <1>11, AtTask DEF ApplyTerraform, Phases
  <2>2. \/ worker' = Idle /\ queue'
        \/ /\ worker' # Idle /\ worker'.pc \in {"destroy", "status"}
           /\ worker'.inst = worker.inst /\ worker'.fresh = worker.fresh
    BY <1>11, <2>1 DEF ApplyTerraform, Answered, GiveUp, GoTo, Task, Idle
  <2>3. RulesOf(worker.inst) \subseteq device'
    BY <1>11, ApplyReaches
  <2> QED
    BY <1>11, <2>1, <2>2, <2>3 DEF ApplyTerraform, object, AgeInv, WorkInv, DoneInv
<1>12. CASE ApplyInPart \/ DestroyInPart
  BY <1>12 DEF ApplyInPart, DestroyInPart, GiveUp, object, AgeInv, WorkInv, DoneInv
<1>13. CASE Destroy
  <2>1. worker \in Task /\ worker # Idle
    BY <1>t, <1>13, AtTask DEF Destroy, Phases
  <2>2. \/ worker' = Idle /\ queue'
        \/ /\ worker' # Idle /\ worker'.pc = "unfinalize"
           /\ worker'.inst = worker.inst /\ worker'.fresh = worker.fresh
    BY <1>13, <2>1 DEF Destroy, Answered, GiveUp, GoTo, Task, Idle
  <2> QED
    BY <1>13, <2>1, <2>2 DEF Destroy, object, AgeInv, WorkInv, DoneInv
<1>14. CASE WriteStatus
  <2>1. worker \in Task /\ worker # Idle /\ worker.pc = "status" /\ worker.fresh
    BY <1>t, <1>14, AtTask DEF WriteStatus, Writable, At, Phases
  <2>2. worker' = Idle
    BY <1>14 DEF WriteStatus, Answered, GiveUp
  <2>3. /\ obj'.gen = obj.gen /\ obj'.live = obj.live /\ obj'.items = obj.items
    BY <1>t, <1>14 DEF WriteStatus, TypeOK, Object
  <2>4. RulesOf(obj') \subseteq device'
    BY <1>14, <2>1, <2>3 DEF WriteStatus, WorkInv, RulesOf
  <2> QED
    BY <1>14, <2>2, <2>3, <2>4 DEF WriteStatus, AgeInv, WorkInv, DoneInv, RulesOf
<1>15. CASE RemoveFinalizer
  <2>1. obj'.gen = obj.gen /\ ~obj'.live
    BY <1>t, <1>15 DEF RemoveFinalizer, TypeOK, Object
  <2>2. worker' = Idle
    BY <1>15 DEF RemoveFinalizer, Answered, GiveUp
  <2> QED
    BY <1>15, <2>1, <2>2 DEF RemoveFinalizer, AgeInv, WorkInv, DoneInv
<1>16. CASE UNCHANGED vars
  BY <1>16 DEF vars, object, AgeInv, WorkInv, DoneInv
<1> QED
  BY <1>1, <1>2, <1>3, <1>4, <1>5, <1>6, <1>7, <1>8, <1>9, <1>10, <1>11, <1>12,
     <1>13, <1>14, <1>15, <1>16
     DEF Next, Environment, Reconcile

\* SettledIsApplied: an Available object that nobody is to look at again has all
\* its rules on the firewall, for any lists, edits, failures and restarts.
THEOREM Settles == Spec => []SettledIsApplied
<1>1. Init => ServedInv
  BY DEF Init, ServedInv, AgeInv, WorkInv, DoneInv
<1>2. ASSUME Inv, ServedInv
      PROVE  SettledIsApplied
  <2>1. latest => seen.gen = obj.gen
    BY <1>2 DEF Inv, GoneInv
  <2> QED
    BY <1>2, <2>1 DEF ServedInv, DoneInv, SettledIsApplied, Settled
<1> QED
  BY <1>1, <1>2, InvCorrect, ServedStep, PTL DEF Spec

=============================================================================
