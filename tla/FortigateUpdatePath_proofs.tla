--------------------- MODULE FortigateUpdatePath_proofs ---------------------
(***************************************************************************)
(* Proofs about FortigateUpdatePath, for any number of paths and ranges    *)
(* and a log of any length.                                                *)
(***************************************************************************)
EXTENDS FortigateUpdatePath, TLAPS

USE AnswersAssumption, AbsentAssumption

\* The current state is a state, and the cache is one.
LEMMA States ==
  ASSUME TypeOK
  PROVE  /\ Len(history) \in Nat \ {0}
         /\ \A n \in 1..Len(history) : history[n] \in State
         /\ obj \in State /\ seen \in State
  BY DEF TypeOK, obj, seen

\* What a write does to the log.
LEMMA WriteLog ==
  ASSUME TypeOK, NEW p \in Paths, NEW o \in Object \cup {Absent}, Write(p, o)
  PROVE  /\ history' \in Seq(State)
         /\ Len(history') = Len(history) + 1
         /\ \A n \in 1..Len(history) : history'[n] = history[n]
         /\ obj' = [obj EXCEPT ![p] = o]
<1> DEFINE next == [obj EXCEPT ![p] = o]
<1>1. next \in State
  BY States DEF State
<1>2. history' = Append(history, next) /\ history \in Seq(State)
  BY DEF Write, TypeOK
<1> HIDE DEF next
<1>3. /\ history' \in Seq(State) /\ Len(history') = Len(history) + 1
      /\ \A n \in 1..Len(history) : history'[n] = history[n]
      /\ history'[Len(history) + 1] = next
  BY <1>1, <1>2
<1> QED
  BY <1>3 DEF obj, next

\* A step of the worker finds it at one of its phases.
LEMMA AtTask ==
  ASSUME TypeOK, NEW q \in Phases, At(q)
  PROVE  worker \in Task /\ worker # Idle
  BY DEF TypeOK, At, Idle, Phases

LEMMA AnsweredType ==
  ASSUME TypeOK, worker \in Task, NEW next \in Task \cup {Idle}, Answered(next)
  PROVE  worker' \in Task \cup {Idle} /\ queue' \subseteq Paths
  BY DEF TypeOK, Answered, GiveUp, Task

\* The objects that are written are objects.
LEMMA Written ==
  ASSUME TypeOK
  PROVE  /\ \A r \in Ranges :
              [range |-> r, born |-> Revision, rev |-> Revision, gen |-> 1,
               leaving |-> FALSE, valid |-> FALSE, steps |-> NoSteps] \in Object
         /\ \A p \in Paths, r \in Ranges : obj[p] # Absent =>
              [obj[p] EXCEPT !.range = r, !.gen = @ + 1, !.rev = Revision] \in Object
         /\ \A p \in Paths : obj[p] # Absent =>
              [obj[p] EXCEPT !.leaving = TRUE, !.gen = @ + 1, !.rev = Revision]
                \in Object
         /\ \A p \in Paths, s \in Answers : obj[p] # Absent =>
              [obj[p] EXCEPT !.valid = TRUE, !.steps = s, !.rev = Revision] \in Object
<1>1. Revision \in Nat
  BY States DEF Revision
<1>2. \A p \in Paths : obj[p] # Absent => obj[p] \in Object
  BY States DEF State
<1>3. ASSUME NEW r \in Ranges
      PROVE  [range |-> r, born |-> Revision, rev |-> Revision, gen |-> 1,
              leaving |-> FALSE, valid |-> FALSE, steps |-> NoSteps] \in Object
  BY <1>1 DEF Object
<1>4. ASSUME NEW o \in Object, NEW r \in Ranges
      PROVE  [o EXCEPT !.range = r, !.gen = @ + 1, !.rev = Revision] \in Object
  <2>1. o.gen + 1 \in Nat \ {0}
    BY DEF Object
  <2> QED
    BY <1>1, <2>1 DEF Object
<1>5. ASSUME NEW o \in Object
      PROVE  [o EXCEPT !.leaving = TRUE, !.gen = @ + 1, !.rev = Revision] \in Object
  <2>1. o.gen + 1 \in Nat \ {0}
    BY DEF Object
  <2> QED
    BY <1>1, <2>1 DEF Object
<1>6. ASSUME NEW o \in Object, NEW s \in Answers
      PROVE  [o EXCEPT !.valid = TRUE, !.steps = s, !.rev = Revision] \in Object
  BY <1>1 DEF Object
<1> QED
  BY <1>2, <1>3, <1>4, <1>5, <1>6

\* Every write of the log is one of an object, a user's or the worker's.
LEMMA UserWrites ==
  ASSUME TypeOK, Users
  PROVE  \E p \in Paths, o \in Object \cup {Absent} : Write(p, o)
<1>1. ASSUME NEW p \in Paths, NEW r \in Ranges, CreatePath(p, r)
      PROVE  \E o \in Object \cup {Absent} : Write(p, o)
  BY <1>1, Written DEF CreatePath
<1>2. ASSUME NEW p \in Paths, NEW r \in Ranges, EditPath(p, r)
      PROVE  \E o \in Object \cup {Absent} : Write(p, o)
  BY <1>2, Written DEF EditPath
<1>3. ASSUME NEW p \in Paths, DeletePath(p) \/ CollectPath(p)
      PROVE  \E o \in Object \cup {Absent} : Write(p, o)
  BY <1>3, Written DEF DeletePath, CollectPath
<1> QED
  BY <1>1, <1>2, <1>3 DEF Users

\* Every action keeps each variable within its type.
LEMMA TypeStep == TypeOK /\ [Next]_vars => TypeOK'
<1> SUFFICES ASSUME TypeOK, [Next]_vars PROVE TypeOK'
  OBVIOUS
<1>1. CASE Users
  <2>1. PICK p \in Paths, o \in Object \cup {Absent} : Write(p, o)
    BY <1>1, UserWrites
  <2>2. history' \in Seq(State) /\ Len(history') = Len(history) + 1
    BY <2>1, WriteLog
  <2>3. UNCHANGED <<cache, queue, worker>>
    BY <1>1 DEF Users, CreatePath, EditPath, DeletePath, CollectPath
  <2> QED
    BY <2>2, <2>3, States DEF TypeOK
<1>2. CASE Sync
  BY <1>2, States DEF TypeOK, Sync
<1>3. ASSUME NEW p \in Paths, BeginGone(p)
      PROVE  TypeOK'
  BY <1>3 DEF TypeOK, BeginGone
<1>4. ASSUME NEW p \in Paths, Begin(p)
      PROVE  TypeOK'
  <2>1. seen[p] \in Object
    BY <1>4, States DEF Begin, Reconcilable, State
  <2>2. worker' \in Task
    BY <1>4, <2>1 DEF Begin, Task, Phases
  <2> QED
    BY <1>4, <2>2 DEF TypeOK, Begin
<1>5. CASE TurnAway
  BY <1>5 DEF TypeOK, TurnAway
<1>6. CASE CheckList \/ GetCookie
  <2>1. worker' \in Task \cup {Idle}
    BY <1>6, AtTask DEF CheckList, GetCookie, Task, Phases
  <2> QED
    BY <1>6, <2>1 DEF TypeOK, CheckList, GetCookie
<1>7. CASE FetchPath
  <2>1. worker \in Task
    BY <1>7, AtTask DEF FetchPath, Phases
  <2>2. Portal[worker.inst.range] \in Answers
    BY <2>1 DEF Task, Object
  <2>3. worker' \in Task
    BY <1>7, <2>1, <2>2 DEF FetchPath, Task, Phases
  <2> QED
    BY <1>7, <2>3 DEF TypeOK, FetchPath
<1>8. CASE Publish
  <2>1. worker \in Task /\ obj[worker.p] # Absent
    BY <1>8, AtTask DEF Publish, Writable, Phases
  <2>2. worker.p \in Paths /\ worker.steps \in Answers
    BY <2>1 DEF Task
  <2>3. history' \in Seq(State) /\ Len(history') = Len(history) + 1
    BY <1>8, <2>1, <2>2, Written, WriteLog DEF Publish
  <2>4. worker' \in Task \cup {Idle} /\ queue' \subseteq Paths
    BY <1>8, <2>1, AnsweredType DEF Publish
  <2> QED
    BY <1>8, <2>3, <2>4, States DEF TypeOK, Publish
<1>9. CASE CallFails
  BY <1>9 DEF TypeOK, CallFails, GiveUp, Task
<1>10. CASE Restart
  BY <1>10 DEF TypeOK, Restart
<1>11. CASE UNCHANGED vars
  BY <1>11 DEF TypeOK, vars
<1> QED
  BY <1>1, <1>2, <1>3, <1>4, <1>5, <1>6, <1>7, <1>8, <1>9, <1>10, <1>11
     DEF Next, Reconcile

\* The reconciler is well typed for every instance.
THEOREM TypeCorrect == Spec => []TypeOK
<1>1. Init => TypeOK
  <2> SUFFICES ASSUME Init PROVE TypeOK
    OBVIOUS
  <2>1. [p \in Paths |-> Absent] \in State
    BY DEF State
  <2> QED
    BY <2>1 DEF Init, TypeOK
<1> QED
  BY <1>1, TypeStep, PTL DEF Spec

----------------------------------------------------------------------------
(***************************************************************************)
(* The inductive invariant.  An object cannot be told from the resource    *)
(* version alone, or a rival be missed, because the log remembers: a       *)
(* revision stands for one state of an object (RevisionInv), an object is  *)
(* in every state since it was created, with the range it was created with *)
(* until it is edited (LifeInv).  So the worker's copy is the object as    *)
(* long as their revisions agree, and a rival it did not see is younger    *)
(* (WorkerInv).                                                            *)
(***************************************************************************)

RevisionInv ==
  \A n \in 1..Len(history), p \in Paths :
    history[n][p] # Absent =>
      /\ history[n][p].born <= n /\ history[n][p].rev <= n
      /\ obj[p] # Absent /\ obj[p].rev = history[n][p].rev => obj[p] = history[n][p]

LifeInv ==
  \A p \in Paths : obj[p] # Absent =>
    \A n \in 1..Len(history) : obj[p].born <= n =>
      /\ history[n][p] # Absent
      /\ obj[p].gen = 1 => history[n][p].range = obj[p].range

WorkerInv ==
  worker # Idle =>
    /\ ~worker.inst.leaving
    /\ worker.inst.born <= cache /\ worker.inst.rev <= cache
    /\ Writable => obj[worker.p] = worker.inst
    /\ worker.pc # "list" =>
         /\ ~worker.inst.valid
         /\ \A q \in Paths \ {worker.p} :
              Unedited(q) /\ obj[q].range = worker.inst.range
                => worker.inst.born < obj[q].born
    /\ worker.pc = "publish" => worker.steps = Portal[worker.inst.range]

Inv == TypeOK /\ RevisionInv /\ LifeInv /\ WorkerInv /\ OldestWins

\* The ways in which users change an object: it goes, comes, or gets a new
\* generation.
UserChange(p, o) ==
  \/ o = Absent
  \/ /\ obj[p] = Absent
     /\ o.born = Revision /\ o.rev = Revision /\ ~o.valid
  \/ /\ obj[p] # Absent
     /\ o.born = obj[p].born /\ o.rev = Revision /\ o.gen # 1
     /\ o.valid = obj[p].valid /\ o.steps = obj[p].steps

\* The way in which the worker does.
WorkerChange(p, o) ==
  /\ At("publish") /\ p = worker.p /\ Writable /\ obj[p] # Absent
  /\ o.born = obj[p].born /\ o.rev = Revision /\ o.gen = obj[p].gen
  /\ o.range = obj[p].range /\ o.leaving = obj[p].leaving
  /\ o.valid /\ o.steps = worker.steps

Changes(p, o) == UserChange(p, o) \/ WorkerChange(p, o)

\* What the users do to an object is one of them.
LEMMA UserChanges ==
  ASSUME TypeOK, Users
  PROVE  \E p \in Paths, o \in Object \cup {Absent} : Write(p, o) /\ UserChange(p, o)
<1>1. ASSUME NEW p \in Paths, NEW r \in Ranges, CreatePath(p, r)
      PROVE  \E o \in Object \cup {Absent} : Write(p, o) /\ UserChange(p, o)
  <2> DEFINE o == [range |-> r, born |-> Revision, rev |-> Revision, gen |-> 1,
                   leaving |-> FALSE, valid |-> FALSE, steps |-> NoSteps]
  <2>1. Write(p, o) /\ UserChange(p, o) /\ o \in Object
    BY <1>1, Written DEF CreatePath, UserChange
  <2> QED
    BY <2>1
<1>2. ASSUME NEW p \in Paths, NEW r \in Ranges, EditPath(p, r)
      PROVE  \E o \in Object \cup {Absent} : Write(p, o) /\ UserChange(p, o)
  <2> DEFINE o == [obj[p] EXCEPT !.range = r, !.gen = @ + 1, !.rev = Revision]
  <2>1. Write(p, o) /\ o \in Object /\ obj[p] \in Object
    BY <1>2, Written, States DEF EditPath, State
  <2>2. UserChange(p, o)
    BY <1>2, <2>1 DEF EditPath, UserChange, Object
  <2> QED
    BY <2>1, <2>2
<1>3. ASSUME NEW p \in Paths, DeletePath(p)
      PROVE  \E o \in Object \cup {Absent} : Write(p, o) /\ UserChange(p, o)
  <2> DEFINE o == [obj[p] EXCEPT !.leaving = TRUE, !.gen = @ + 1, !.rev = Revision]
  <2>1. CASE Write(p, Absent)
    BY <2>1 DEF UserChange
  <2>2. CASE Write(p, o)
    <3>1. o \in Object /\ obj[p] \in Object
      BY <1>3, Written, States DEF DeletePath, State
    <3>2. o.gen # 1 /\ o.born = obj[p].born /\ o.rev = Revision
          /\ o.valid = obj[p].valid /\ o.steps = obj[p].steps
      BY <3>1 DEF Object
    <3>3. UserChange(p, o)
      BY <1>3, <3>2 DEF DeletePath, UserChange
    <3> QED
      BY <2>2, <3>1, <3>3
  <2> QED
    BY <1>3, <2>1, <2>2 DEF DeletePath
<1>4. ASSUME NEW p \in Paths, CollectPath(p)
      PROVE  \E o \in Object \cup {Absent} : Write(p, o) /\ UserChange(p, o)
  BY <1>4 DEF CollectPath, UserChange
<1> QED
  BY <1>1, <1>2, <1>3, <1>4 DEF Users

\* And so is what Publish does.
LEMMA PublishChanges ==
  ASSUME TypeOK, Publish
  PROVE  /\ worker \in Task /\ worker # Idle /\ worker.p \in Paths
         /\ \E o \in Object \cup {Absent} : Write(worker.p, o) /\ WorkerChange(worker.p, o)
<1>1. worker \in Task /\ worker # Idle /\ obj[worker.p] # Absent
  BY AtTask DEF Publish, Writable, Phases
<1>2. worker.p \in Paths /\ worker.steps \in Answers /\ obj[worker.p] \in Object
  BY <1>1, States DEF Task, State
<1> DEFINE o == [obj[worker.p] EXCEPT !.valid = TRUE, !.steps = worker.steps,
                                      !.rev = Revision]
<1>3. Write(worker.p, o) /\ o \in Object
  BY <1>1, <1>2, Written DEF Publish
<1>4. WorkerChange(worker.p, o)
  BY <1>2 DEF Publish, WorkerChange, Object
<1> QED
  BY <1>1, <1>2, <1>3, <1>4

\* A change of an object keeps what the log says of objects and their ages.
LEMMA WriteKeeps ==
  ASSUME Inv, NEW p \in Paths, NEW o \in Object \cup {Absent}, Write(p, o),
         Changes(p, o)
  PROVE  RevisionInv' /\ LifeInv' /\ OldestWins'
<1>1. /\ Len(history) \in Nat \ {0} /\ Len(history') = Len(history) + 1
      /\ \A n \in 1..Len(history) : history'[n] = history[n]
      /\ obj' = [obj EXCEPT ![p] = o]
  BY States, WriteLog DEF Inv
<1>2. obj' = history'[Len(history) + 1] /\ Revision = Len(history) + 1
  BY <1>1 DEF obj, Revision
<1>3. obj \in State /\ \A n \in 1..Len(history) : history[n] \in State
  BY States DEF Inv
<1>4. \A q \in Paths : obj[q] # Absent =>
        obj[q] \in Object /\ obj[q].born <= Len(history) /\ obj[q].rev <= Len(history)
  BY <1>1, <1>3 DEF Inv, RevisionInv, State, obj
<1>5. /\ obj'[p] = o
      /\ \A q \in Paths \ {p} : obj'[q] = obj[q]
      /\ o # Absent => o.rev = Revision /\ o.born <= Revision
  <2>1. obj'[p] = o /\ \A q \in Paths \ {p} : obj'[q] = obj[q]
    BY <1>1, <1>3 DEF State
  <2>2. o # Absent => o.rev = Revision /\ o.born <= Revision
    BY <1>1, <1>2, <1>4 DEF Changes, UserChange, WorkerChange, Object
  <2> QED
    BY <2>1, <2>2
<1>6. RevisionInv'
  <2> SUFFICES ASSUME NEW n \in 1..Len(history'), NEW q \in Paths, history'[n][q] # Absent
               PROVE  /\ history'[n][q].born <= n /\ history'[n][q].rev <= n
                      /\ obj'[q] # Absent /\ obj'[q].rev = history'[n][q].rev
                           => obj'[q] = history'[n][q]
    BY DEF RevisionInv
  <2>1. CASE n = Len(history) + 1
    <3>1. history'[n][q] = obj'[q]
      BY <1>2, <2>1
    <3>2. CASE q = p
      BY <1>2, <1>5, <2>1, <3>1, <3>2
    <3>3. CASE q # p
      BY <1>1, <1>4, <1>5, <2>1, <3>1, <3>3 DEF Object
    <3> QED
      BY <3>2, <3>3
  <2>2. CASE n # Len(history) + 1
    <3>1. n \in 1..Len(history) /\ history'[n][q] = history[n][q]
      BY <1>1, <2>2
    <3>2. history[n][q].born <= n /\ history[n][q].rev <= n /\ history[n][q] \in Object
      BY <1>3, <3>1 DEF Inv, RevisionInv, State
    <3>3. CASE q = p
      BY <1>1, <1>2, <1>5, <3>1, <3>2, <3>3 DEF Object
    <3>4. CASE q # p
      BY <1>5, <3>1, <3>4 DEF Inv, RevisionInv
    <3> QED
      BY <3>3, <3>4
  <2> QED
    BY <2>1, <2>2
<1>7. LifeInv'
  <2> SUFFICES ASSUME NEW q \in Paths, obj'[q] # Absent,
                      NEW n \in 1..Len(history'), obj'[q].born <= n
               PROVE  /\ history'[n][q] # Absent
                      /\ obj'[q].gen = 1 => history'[n][q].range = obj'[q].range
    BY DEF LifeInv
  <2>1. CASE n = Len(history) + 1
    BY <1>2, <2>1
  <2>2. CASE n # Len(history) + 1
    <3>1. n \in 1..Len(history) /\ history'[n][q] = history[n][q]
      BY <1>1, <2>2
    <3>2. obj[q] # Absent /\ obj[q].born = obj'[q].born
      BY <1>1, <1>2, <1>5, <3>1 DEF Changes, UserChange, WorkerChange, Writable
    <3>3. obj'[q].gen = 1 => obj[q].gen = 1 /\ obj'[q].range = obj[q].range
      BY <1>5, <3>2 DEF Changes, UserChange, WorkerChange
    <3> QED
      BY <3>1, <3>2, <3>3 DEF Inv, LifeInv
  <2> QED
    BY <2>1, <2>2
<1>8. OldestWins'
  <2> SUFFICES ASSUME NEW q \in Paths, NEW r \in Paths, q # r,
                      Unedited(q)', Unedited(r)', obj'[q].range = obj'[r].range,
                      obj'[q].valid
               PROVE  obj'[q].born < obj'[r].born
    BY DEF OldestWins
  <2>1. CASE p # q /\ p # r
    BY <1>5, <2>1 DEF Inv, OldestWins, Unedited
  <2>2. CASE p = r
    <3>1. obj'[q] = obj[q] /\ Unedited(q) /\ obj[q].born <= Len(history)
      BY <1>4, <1>5, <2>2 DEF Unedited
    <3>2. CASE obj[p] = Absent
      BY <1>1, <1>2, <1>4, <1>5, <2>2, <3>1, <3>2
         DEF Changes, UserChange, WorkerChange, Unedited, Writable, Object
    <3>3. CASE obj[p] # Absent
      <4>1. Unedited(r) /\ obj[r].range = obj'[r].range /\ obj'[r].born = obj[r].born
        BY <1>5, <2>2, <3>3 DEF Changes, UserChange, WorkerChange, Unedited
      <4> QED
        BY <3>1, <4>1 DEF Inv, OldestWins
    <3> QED
      BY <3>2, <3>3
  <2>3. CASE p = q
    <3>1. obj'[r] = obj[r] /\ Unedited(r)
      BY <1>5, <2>3 DEF Unedited
    <3>2. /\ At("publish") /\ p = worker.p /\ Writable
          /\ o.born = obj[p].born /\ o.range = obj[p].range
      BY <1>5, <2>3 DEF Changes, UserChange, WorkerChange, Unedited
    <3>3. worker # Idle /\ worker.pc # "list" /\ obj[worker.p] = worker.inst
      BY <3>2 DEF Inv, WorkerInv, At, Idle
    <3> QED
      BY <1>5, <2>3, <3>1, <3>2, <3>3 DEF Inv, WorkerInv
  <2> QED
    BY <2>1, <2>2, <2>3
<1> QED
  BY <1>6, <1>7, <1>8

\* A user's write keeps what the worker knows: its copy is the object or is out
\* of date, and the paths it did not see are younger than its own.
LEMMA UserKeepsWorker ==
  ASSUME Inv, TypeOK', NEW p \in Paths, NEW o \in Object \cup {Absent}, Write(p, o),
         UserChange(p, o), UNCHANGED <<cache, worker>>
  PROVE  WorkerInv'
<1> SUFFICES ASSUME worker # Idle PROVE WorkerInv'
  BY DEF WorkerInv
<1>1. /\ obj' = [obj EXCEPT ![p] = o] /\ obj \in State
      /\ Len(history) \in Nat \ {0} /\ Revision = Len(history) + 1
      /\ cache \in 1..Len(history)
  BY WriteLog, States DEF Inv, TypeOK, Revision
<1>2. /\ worker \in Task /\ worker.p \in Paths /\ worker.inst \in Object
      /\ worker.inst.born <= cache /\ worker.inst.rev <= cache
  BY DEF Inv, TypeOK, Task, WorkerInv
<1>3. obj'[p] = o /\ \A q \in Paths \ {p} : obj'[q] = obj[q]
  BY <1>1 DEF State
<1>4. o # Absent => o.rev = Revision
  BY DEF UserChange
<1>5. Writable' => obj'[worker.p] = worker.inst
  <2>1. CASE p = worker.p
    BY <1>1, <1>2, <1>3, <1>4, <2>1 DEF Writable, Object
  <2>2. CASE p # worker.p
    BY <1>2, <1>3, <2>2 DEF Writable, Inv, WorkerInv
  <2> QED
    BY <2>1, <2>2
<1>6. ASSUME worker.pc # "list", NEW q \in Paths \ {worker.p},
             Unedited(q)', obj'[q].range = worker.inst.range
      PROVE  worker.inst.born < obj'[q].born
  <2>1. CASE p = q
    <3>1. o # Absent /\ obj[p] = Absent
      BY <1>3, <1>6, <2>1 DEF Unedited, UserChange
    <3>2. o.born = Revision
      BY <3>1 DEF UserChange
    <3> QED
      BY <1>1, <1>2, <1>3, <2>1, <3>2 DEF Object
  <2>2. CASE p # q
    BY <1>3, <1>6, <2>2 DEF Unedited, Inv, WorkerInv
  <2> QED
    BY <2>1, <2>2
<1> QED
  BY <1>5, <1>6 DEF WorkerInv, Inv

\* Every action keeps the invariant.
LEMMA InvStep == Inv /\ [Next]_vars => Inv'
<1> SUFFICES ASSUME Inv, [Next]_vars PROVE Inv'
  OBVIOUS
<1>t. TypeOK'
  BY TypeStep DEF Inv
<1>o. ASSUME UNCHANGED history
      PROVE  RevisionInv' /\ LifeInv' /\ OldestWins' /\ obj' = obj
  BY <1>o DEF Inv, RevisionInv, LifeInv, OldestWins, Unedited, obj
<1>1. CASE Users
  <2>1. PICK p \in Paths, o \in Object \cup {Absent} : Write(p, o) /\ UserChange(p, o)
    BY <1>1, UserChanges DEF Inv
  <2>2. RevisionInv' /\ LifeInv' /\ OldestWins'
    BY <2>1, WriteKeeps DEF Changes
  <2>3. WorkerInv'
    BY <1>1, <1>t, <2>1, UserKeepsWorker
       DEF Users, CreatePath, EditPath, DeletePath, CollectPath
  <2> QED
    BY <1>t, <2>2, <2>3 DEF Inv
<1>2. CASE Sync
  <2>1. worker' = worker /\ history' = history /\ cache' = cache + 1
    BY <1>2 DEF Sync
  <2>2. worker # Idle => worker.inst.born <= cache + 1 /\ worker.inst.rev <= cache + 1
    BY <2>1 DEF Inv, WorkerInv, TypeOK, Task, Object
  <2> QED
    BY <1>t, <1>o, <2>1, <2>2 DEF Inv, WorkerInv, Writable, Unedited
<1>3. ASSUME NEW p \in Paths, BeginGone(p)
      PROVE  Inv'
  BY <1>t, <1>o, <1>3 DEF BeginGone, Inv, WorkerInv, Writable, Unedited
<1>4. ASSUME NEW p \in Paths, Begin(p)
      PROVE  Inv'
  <2>1. /\ worker' = [pc |-> "list", p |-> p, inst |-> seen[p], steps |-> NoSteps]
        /\ history' = history /\ cache' = cache /\ seen[p] # Absent
        /\ ~seen[p].leaving
    BY <1>4 DEF Begin, Reconcilable
  <2>2. /\ seen[p].born <= cache /\ seen[p].rev <= cache
        /\ obj[p] # Absent /\ obj[p].rev = seen[p].rev => obj[p] = seen[p]
    BY <2>1 DEF Inv, TypeOK, RevisionInv, seen
  <2> QED
    BY <1>t, <1>o, <2>1, <2>2 DEF Inv, WorkerInv, Writable
<1>5. CASE TurnAway \/ CallFails \/ Restart
  <2>1. worker' = Idle /\ UNCHANGED history
    BY <1>5 DEF TurnAway, CallFails, Restart, GiveUp
  <2> QED
    BY <1>t, <1>o, <2>1 DEF Inv, WorkerInv
<1>6. CASE CheckList
  <2>1. worker \in Task /\ worker # Idle /\ SeenRivals = {}
    BY <1>6, AtTask DEF CheckList, Phases, Inv
  <2>2. UNCHANGED <<history, cache>>
    BY <1>6 DEF CheckList
  <2>3. CASE worker' = Idle
    BY <1>t, <1>o, <2>2, <2>3 DEF Inv, WorkerInv
  <2>4. CASE worker' = [worker EXCEPT !.pc = "cookie"] /\ ~worker.inst.valid
    <3>1. /\ worker'.p = worker.p /\ worker'.inst = worker.inst
          /\ worker'.pc = "cookie"
      BY <2>1, <2>4 DEF Task
    <3>2. ASSUME NEW q \in Paths \ {worker.p}, Unedited(q),
                 obj[q].range = worker.inst.range
          PROVE  worker.inst.born < obj[q].born
      <4>1. seen[q] = Absent \/ seen[q].range # worker.inst.range
        BY <2>1, <3>2 DEF SeenRivals
      <4>2. ~(obj[q].born <= cache)
        BY <3>2, <4>1 DEF Unedited, Inv, LifeInv, TypeOK, seen
      <4>3. worker.inst.born <= cache /\ cache \in Nat /\ worker.inst.born \in Nat
        BY <2>1 DEF Inv, WorkerInv, TypeOK, Task, Object
      <4>4. obj[q].born \in Nat
        BY <3>2, States DEF Inv, State, Unedited, Object
      <4> QED
        BY <4>2, <4>3, <4>4
    <3> QED
      BY <1>t, <1>o, <2>1, <2>2, <2>4, <3>1, <3>2 DEF Inv, WorkerInv, Writable, Unedited
  <2> QED
    BY <1>6, <2>3, <2>4 DEF CheckList
<1>7. CASE GetCookie
  <2>1. worker \in Task /\ worker # Idle /\ worker.pc = "cookie"
    BY <1>7, AtTask DEF GetCookie, Phases, Inv, At
  <2>2. /\ worker'.p = worker.p /\ worker'.inst = worker.inst /\ worker'.pc = "fetch"
        /\ UNCHANGED <<history, cache>>
    BY <1>7, <2>1 DEF GetCookie, Task
  <2> QED
    BY <1>t, <1>o, <2>1, <2>2 DEF Inv, WorkerInv, Writable, Unedited
<1>8. CASE FetchPath
  <2>1. worker \in Task /\ worker # Idle /\ worker.pc = "fetch"
    BY <1>8, AtTask DEF FetchPath, Phases, Inv, At
  <2>2. /\ worker'.p = worker.p /\ worker'.inst = worker.inst /\ worker'.pc = "publish"
        /\ worker'.steps = Portal[worker.inst.range] /\ UNCHANGED <<history, cache>>
    BY <1>8, <2>1 DEF FetchPath, Task
  <2> QED
    BY <1>t, <1>o, <2>1, <2>2 DEF Inv, WorkerInv, Writable, Unedited
<1>9. CASE Publish
  <2>1. PICK o \in Object \cup {Absent} :
          Write(worker.p, o) /\ WorkerChange(worker.p, o)
    BY <1>9, PublishChanges DEF Inv
  <2>2. RevisionInv' /\ LifeInv' /\ OldestWins'
    BY <1>9, <2>1, PublishChanges, WriteKeeps DEF Inv, Changes
  <2>3. worker' = Idle
    BY <1>9 DEF Publish, Answered, GiveUp
  <2> QED
    BY <1>t, <2>2, <2>3 DEF Inv, WorkerInv
<1>10. CASE UNCHANGED vars
  BY <1>t, <1>o, <1>10 DEF vars, Inv, WorkerInv, Writable, Unedited
<1> QED
  BY <1>1, <1>2, <1>3, <1>4, <1>5, <1>6, <1>7, <1>8, <1>9, <1>10 DEF Next, Reconcile

\* Inv is an invariant of the reconciler.
THEOREM InvCorrect == Spec => []Inv
<1>1. Init => Inv
  <2> SUFFICES ASSUME Init PROVE Inv
    OBVIOUS
  <2>1. [p \in Paths |-> Absent] \in State
    BY DEF State
  <2>2. /\ TypeOK /\ Len(history) = 1 /\ worker = Idle
        /\ \A p \in Paths : history[1][p] = Absent /\ obj[p] = Absent
    BY <2>1 DEF Init, TypeOK, obj
  <2> QED
    BY <2>2 DEF Inv, RevisionInv, LifeInv, WorkerInv, OldestWins, Unedited
<1> QED
  BY <1>1, InvStep, PTL DEF Spec

----------------------------------------------------------------------------
(***************************************************************************)
(* What it gives.                                                          *)
(***************************************************************************)

\* Among the unedited paths of a range only the oldest is ever published, for
\* any number of paths, writes and restarts on a list of any age.
THEOREM OldestPublished == Spec => []OldestWins
<1>1. Inv => OldestWins
  BY DEF Inv
<1> QED
  BY <1>1, InvCorrect, PTL

\* How the objects change in a step, as the two theorems below need it.
LEMMA StepChanges ==
  ASSUME Inv, [Next]_vars
  PROVE  \/ UNCHANGED obj
         \/ \E p \in Paths, o \in Object \cup {Absent} :
              Changes(p, o) /\ obj' = [obj EXCEPT ![p] = o]
<1>1. CASE Users
  BY <1>1, UserChanges, WriteLog DEF Inv, Changes
<1>2. CASE Publish
  BY <1>2, PublishChanges, WriteLog DEF Inv, Changes
<1>3. CASE UNCHANGED history
  BY <1>3 DEF obj
<1> QED
  BY <1>1, <1>2, <1>3 DEF Next, Reconcile, Sync, BeginGone, Begin, TurnAway, CheckList,
     GetCookie, FetchPath, CallFails, Restart, vars

\* What the worker writes is the answer to the spec it replaces.
LEMMA AnswerIsCurrent ==
  ASSUME Inv, At("publish"), Writable
  PROVE  /\ worker.steps = Portal[obj[worker.p].range] /\ ~obj[worker.p].leaving
         /\ ~obj[worker.p].valid
  BY DEF Inv, WorkerInv, At, Idle

\* A path is published with the answer to the spec it has at that moment.
THEOREM PublishedCurrent == Spec => PublishedIsCurrent
<1> DEFINE Current(p) == /\ obj'[p] # Absent /\ obj'[p].valid
                         /\ obj[p] = Absent \/ ~obj[p].valid
                         => obj'[p].steps = Portal[obj'[p].range] /\ ~obj'[p].leaving
<1>1. Inv /\ [Next]_vars => [\A p \in Paths : Current(p)]_vars
  <2> SUFFICES ASSUME Inv, [Next]_vars, NEW q \in Paths PROVE Current(q)
    OBVIOUS
  <2>1. CASE UNCHANGED obj
    BY <2>1
  <2>2. ASSUME NEW p \in Paths, NEW o \in Object \cup {Absent}, Changes(p, o),
               obj' = [obj EXCEPT ![p] = o]
        PROVE  Current(q)
    <3>1. obj'[p] = o /\ (q # p => obj'[q] = obj[q])
      BY <2>2, States DEF Inv, State
    <3> QED
      BY <2>2, <3>1, AnswerIsCurrent
         DEF Changes, UserChange, WorkerChange
  <2> QED
    BY <2>1, <2>2, StepChanges
<1> QED
  BY <1>1, InvCorrect, PTL DEF Spec, PublishedIsCurrent

\* A published path is never published again.
THEOREM Frozen == Spec => FrozenOncePublished
<1> DEFINE Kept(p) == /\ obj[p] # Absent /\ obj[p].valid
                      /\ obj'[p] # Absent
                      => obj'[p].valid /\ obj'[p].steps = obj[p].steps
<1>1. Inv /\ [Next]_vars => [\A p \in Paths : Kept(p)]_vars
  <2> SUFFICES ASSUME Inv, [Next]_vars, NEW q \in Paths PROVE Kept(q)
    OBVIOUS
  <2>1. CASE UNCHANGED obj
    BY <2>1
  <2>2. ASSUME NEW p \in Paths, NEW o \in Object \cup {Absent}, Changes(p, o),
               obj' = [obj EXCEPT ![p] = o]
        PROVE  Kept(q)
    <3>1. obj'[p] = o /\ (q # p => obj'[q] = obj[q])
      BY <2>2, States DEF Inv, State
    <3> QED
      BY <2>2, <3>1, AnswerIsCurrent
         DEF Changes, UserChange, WorkerChange
  <2> QED
    BY <2>1, <2>2, StepChanges
<1> QED
  BY <1>1, InvCorrect, PTL DEF Spec, FrozenOncePublished

=============================================================================
