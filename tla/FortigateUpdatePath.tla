------------------------ MODULE FortigateUpdatePath ------------------------
(***************************************************************************)
(* The upgrade paths, as the reconciler of FortigateUpdatePath publishes   *)
(* them (fortigateupdatepath_controller.go, upgrade_get_path.go): it asks  *)
(* Fortinet's portal for the firmwares between two versions, unless        *)
(* another object of the same model and versions exists, and stores the    *)
(* answer in the status.                                                   *)
(*                                                                         *)
(* Actors: the single worker of the controller, the users (and the         *)
(* FortigateUpdate controller) who create, edit and delete paths, the      *)
(* portal, and the informer.  Here the order in which the informer         *)
(* delivers the changes of different objects matters, so the API server is *)
(* its log of states, and the cache a place in that log.                   *)
(***************************************************************************)
EXTENDS Integers, Sequences

CONSTANTS
  Paths,      \* names of FortigateUpdatePath objects
  Ranges,     \* the triples model, startVersion, newVersion, as they are spelled
  Answers,    \* lists of steps
  NoSteps,    \* the empty list: also the portal's answer to a range it does not know
  Portal,     \* Portal[r]: the answer to r, whose versions normalizeVersion trims
  MaxWrites,  \* bound: users write while the log is no longer than this
  Absent      \* no object of that name

ASSUME AnswersAssumption == NoSteps \in Answers /\ Portal \in [Ranges -> Answers]

ASSUME BoundAssumption == MaxWrites \in Nat

\* born, rev: the revisions that created and last changed the object; leaving:
\* the deletionTimestamp is set.
Object == [range : Ranges, born : Nat, rev : Nat, gen : Nat \ {0}, leaving : BOOLEAN,
           valid : BOOLEAN, steps : Answers]

ASSUME AbsentAssumption == Absent \notin Object

VARIABLES
  history,  \* the states of the API server, the current one last
  cache,    \* the informer's cache is history[cache]
  queue,    \* the controller's work queue
  worker    \* the local variables of the Reconcile in progress

vars == <<history, cache, queue, worker>>

Idle == [pc |-> "idle"]

Phases == {"list", "cookie", "fetch", "publish"}

Task == [pc : Phases, p : Paths, inst : Object, steps : Answers]

State == [Paths -> Object \cup {Absent}]

obj == history[Len(history)]
seen == history[cache]
Revision == Len(history) + 1

\* Every variable holds a value of its kind, and the cache is a state the API
\* server had.
TypeOK ==
  /\ history \in Seq(State)
  /\ cache \in 1..Len(history)
  /\ queue \subseteq Paths
  /\ worker \in Task \cup {Idle}

Init ==
  /\ history = <<[p \in Paths |-> Absent]>>
  /\ cache = 1
  /\ queue = {}
  /\ worker = Idle

----------------------------------------------------------------------------
(* The users and the informer.                                             *)

Write(p, o) == history' = Append(history, [obj EXCEPT ![p] = o])

UserMayWrite == Len(history) <= MaxWrites

CreatePath(p, r) ==
  /\ UserMayWrite
  /\ obj[p] = Absent
  /\ Write(p, [range |-> r, born |-> Revision, rev |-> Revision, gen |-> 1,
               leaving |-> FALSE, valid |-> FALSE, steps |-> NoSteps])
  /\ UNCHANGED <<cache, queue, worker>>

EditPath(p, r) ==
  /\ UserMayWrite
  /\ obj[p] # Absent
  /\ r # obj[p].range
  /\ Write(p, [obj[p] EXCEPT !.range = r, !.gen = @ + 1, !.rev = Revision])
  /\ UNCHANGED <<cache, queue, worker>>

\* The operator puts no finalizer on a path; somebody else's may hold it.
DeletePath(p) ==
  /\ UserMayWrite
  /\ obj[p] # Absent /\ ~obj[p].leaving
  /\ \/ Write(p, Absent)
     \/ Write(p, [obj[p] EXCEPT !.leaving = TRUE, !.gen = @ + 1, !.rev = Revision])
  /\ UNCHANGED <<cache, queue, worker>>

CollectPath(p) ==
  /\ obj[p] # Absent /\ obj[p].leaving
  /\ Write(p, Absent)
  /\ UNCHANGED <<cache, queue, worker>>

\* GenerationChangedPredicate drops the operator's own status writes.
Passes(old, new) ==
  old # new /\ (old = Absent \/ new = Absent \/ old.gen # new.gen)

\* The informer delivers the next change.
Sync ==
  /\ cache < Len(history)
  /\ cache' = cache + 1
  /\ queue' = queue \cup {p \in Paths : Passes(seen[p], history[cache + 1][p])}
  /\ UNCHANGED <<history, worker>>

----------------------------------------------------------------------------
(* The worker.  As everywhere, an error puts the object back (GiveUp), and  *)
(* a call may take effect and still report an error (Answered).             *)

At(q) == worker.pc = q

\* Mutant of GiveUp: the error is swallowed.
GiveUpForGood == worker' = Idle /\ UNCHANGED queue

GiveUp ==
  /\ worker' = Idle
  /\ queue' = queue \cup {worker.p}

Answered(next) ==
  \/ worker' = next /\ UNCHANGED queue
  \/ GiveUp

\* The list, the browser, the portal and the status write can all fail.
CallFails ==
  /\ worker # Idle
  /\ GiveUp
  /\ UNCHANGED <<history, cache>>

\* Mutant of Reconcilable: an object that is not found is served all the same.
FoundOrNot(o) == TRUE

\* The path was found, and is not on its way out.
Reconcilable(o) == o # Absent /\ ~o.leaving

BeginGone(p) ==
  /\ worker = Idle /\ p \in queue
  /\ ~Reconcilable(seen[p])
  /\ queue' = queue \ {p}
  /\ UNCHANGED <<history, cache, worker>>

Begin(p) ==
  /\ worker = Idle /\ p \in queue
  /\ Reconcilable(seen[p])
  /\ queue' = queue \ {p}
  /\ worker' = [pc |-> "list", p |-> p, inst |-> seen[p], steps |-> NoSteps]
  /\ UNCHANGED <<history, cache>>

\* Mutant of SeenRivals: only the paths that are published already count.
PublishedRivals ==
  {q \in Paths \ {worker.p} : /\ seen[q] # Absent
                              /\ seen[q].range = worker.inst.range
                              /\ seen[q].valid}

\* Another object of the same model and versions is in the cache, whatever its
\* state.
SeenRivals ==
  {q \in Paths \ {worker.p} : seen[q] # Absent /\ seen[q].range = worker.inst.range}

\* Reconcile returns without an error and without requeue.
TurnAway ==
  /\ At("list")
  /\ SeenRivals # {}
  /\ worker' = Idle
  /\ UNCHANGED <<history, cache, queue>>

\* Mutant of CheckList: a published path is asked for again.
CheckListAgain ==
  /\ At("list")
  /\ SeenRivals = {}
  /\ worker' = [worker EXCEPT !.pc = "cookie"]
  /\ UNCHANGED <<history, cache, queue>>

\* No rival: a path whose pathStatusValid is set is left as it is.
CheckList ==
  /\ At("list")
  /\ SeenRivals = {}
  /\ worker' = IF worker.inst.valid THEN Idle ELSE [worker EXCEPT !.pc = "cookie"]
  /\ UNCHANGED <<history, cache, queue>>

\* getUpgradePath starts a browser to obtain the portal's session cookie ...
GetCookie ==
  /\ At("cookie")
  /\ worker' = [worker EXCEPT !.pc = "fetch"]
  /\ UNCHANGED <<history, cache, queue>>

\* ... and posts the question.  No path found is not an error.
FetchPath ==
  /\ At("fetch")
  /\ worker' = [worker EXCEPT !.pc = "publish", !.steps = Portal[worker.inst.range]]
  /\ UNCHANGED <<history, cache, queue>>

\* Mutant of Writable: the status is patched without a resourceVersion.
Exists == obj[worker.p] # Absent

Writable == obj[worker.p] # Absent /\ obj[worker.p].rev = worker.inst.rev

Publish ==
  /\ At("publish")
  /\ Writable
  /\ Write(worker.p, [obj[worker.p] EXCEPT !.valid = TRUE, !.steps = worker.steps,
                                           !.rev = Revision])
  /\ Answered(Idle)
  /\ UNCHANGED cache

\* The manager restarts on a list of any age and queues what is in it.
Restart ==
  /\ cache' \in 1..Len(history)
  /\ queue' = {p \in Paths : history[cache'][p] # Absent}
  /\ worker' = Idle
  /\ UNCHANGED history

----------------------------------------------------------------------------
Users ==
  \E p \in Paths : \/ \E r \in Ranges : CreatePath(p, r) \/ EditPath(p, r)
                   \/ DeletePath(p) \/ CollectPath(p)

Reconcile ==
  \/ \E p \in Paths : BeginGone(p) \/ Begin(p)
  \/ TurnAway \/ CheckList \/ GetCookie \/ FetchPath \/ Publish
  \/ CallFails

Next == Users \/ Sync \/ Reconcile \/ Restart

Spec == Init /\ [][Next]_vars
----------------------------------------------------------------------------
(***************************************************************************)
(* Safety.                                                                 *)
(***************************************************************************)

Unedited(p) == obj[p] # Absent /\ obj[p].gen = 1

\* Of the paths of one range that were never edited, the oldest is the only
\* one that can be published: "the parameter that must be unique"
\* (fortigateupdatepath_controller.go:82) is unique among published paths,
\* although rivals are looked for in a cache that lags, is read once, well
\* before the status is written, and may be older after a restart.
OldestWins ==
  \A p, q \in Paths :
    /\ p # q /\ Unedited(p) /\ Unedited(q)
    /\ obj[p].range = obj[q].range
    /\ obj[p].valid
    => obj[p].born < obj[q].born

\* What is published is the portal's answer to what the spec says at that very
\* moment, of an object that is not being deleted: not the answer to a spec
\* edited, or to an object deleted and created anew, while the portal was asked.
PublishedIsCurrent ==
  [][\A p \in Paths :
       /\ obj'[p] # Absent /\ obj'[p].valid
       /\ obj[p] = Absent \/ ~obj[p].valid
       => obj'[p].steps = Portal[obj'[p].range] /\ ~obj'[p].leaving]_vars

\* A published list of steps stays what it is as long as the object lives: an
\* upgrade that walks it never sees it change, and an edit of the versions
\* leaves it answering the old ones.
FrozenOncePublished ==
  [][\A p \in Paths :
       /\ obj[p] # Absent /\ obj[p].valid
       /\ obj'[p] # Absent
       => obj'[p].valid /\ obj'[p].steps = obj[p].steps]_vars

----------------------------------------------------------------------------
(***************************************************************************)
(* Liveness.  The browser, the portal and the API server answer again and  *)
(* again if they are asked again and again (SF); a call that hangs times   *)
(* out (WF of CallFails); the informer delivers (WF); the manager stops    *)
(* being restarted.                                                        *)
(***************************************************************************)

Fairness ==
  /\ WF_vars(Sync)
  /\ \A p \in Paths : SF_vars(BeginGone(p) \/ Begin(p))
  /\ SF_vars(TurnAway \/ CheckList)
  /\ SF_vars(GetCookie) /\ SF_vars(FetchPath) /\ SF_vars(Publish)
  /\ WF_vars(CallFails)

SteadySpec == Spec /\ Fairness /\ <>[][Users \/ Sync \/ Reconcile]_vars

\* No other path had p's range at any time in p's life.
AloneSinceBorn(p) ==
  \A n \in obj[p].born..Len(history), q \in Paths \ {p} :
    history[n][q] = Absent \/ history[n][q].range # obj[p].range

\* A path that has always been the only one of its range is published, unless
\* it is deleted or gets a rival.  (A path that has met a rival is not put back
\* in the queue: when the rival goes it stays unpublished, until an edit or a
\* restart.)
PublishedWhenAlone ==
  \A p \in Paths :
    (obj[p] # Absent /\ AloneSinceBorn(p))
      ~> (obj[p] = Absent \/ obj[p].leaving \/ obj[p].valid \/ ~AloneSinceBorn(p))

=============================================================================
