-------------------------- MODULE FortigateConfig --------------------------
(***************************************************************************)
(* One FortigateConfig object whose template opens with a loop over        *)
(* spec.extraItems: the operator writes one Terraform file per item into   *)
(* a working directory, validates the items, and has OpenTofu bring the    *)
(* firewall to what all the files of the directory say                     *)
(* (fortigateconfig_controller.go, controller.go, send_terraform_request.go, *)
(* smart_nested_process.go, rule_config_driven.go).                        *)
(*                                                                         *)
(* The directory is named after the object's UID and lives as long as the  *)
(* operator's pod; the state of OpenTofu is in the bucket.                 *)
(***************************************************************************)
EXTENDS Integers, Sequences

CONSTANTS
  Items,      \* what an element of spec.extraItems can be: a rule, by name
  Valid,      \* those the OperatorRule's validation accepts
  Lists,      \* the values of spec.extraItems users write
  FirstList,  \* spec.extraItems at creation
  MaxFiles,   \* the longest of them
  MaxEdits,   \* bound on the edits of the spec
  None        \* no file at this index

ASSUME ListsAssumption ==
  /\ MaxFiles \in Nat
  /\ Lists \subseteq {l \in Seq(Items) : Len(l) <= MaxFiles}
  /\ FirstList \in Lists
  /\ Valid \subseteq Items
  /\ None \notin Items

ASSUME BoundAssumption == MaxEdits \in Nat

VARIABLES
  obj,      \* the FortigateConfig object in the API server
  seen,     \* its copy in the informer's cache
  latest,   \* that copy has the current resourceVersion
  queue,    \* the object waits in the work queue
  worker,   \* the local variables of the Reconcile in progress
  fw,       \* the FortigateFirewall: absent, without a token, with one
  dir,      \* dir[i]: the rule in the file <template>_<i>.tf
  tfstate,  \* the resources in OpenTofu's state
  device    \* the rules on the firewall

object == <<obj, seen, latest>>
vars == <<object, queue, worker, fw, dir, tfstate, device>>

Object == [items : Lists, gen : 0..(MaxEdits + 1), finalizer : BOOLEAN,
           deleting : BOOLEAN, live : BOOLEAN, available : BOOLEAN]

Idle == [pc |-> "idle"]

Phases == {"finalizer", "render", "validate", "apply", "status",
           "destroy", "unfinalize"}

\* inst: the copy in memory; fresh: its resourceVersion is the current one;
\* token: the firewall had an API token when it was read.
Task == [pc : Phases, inst : Object, fresh : BOOLEAN, token : BOOLEAN]

Indices == 1..MaxFiles

NoFiles == [i \in Indices |-> None]

\* Every variable holds a value of its kind: what is applied are rules.
TypeOK ==
  /\ obj \in Object /\ seen \in Object
  /\ latest \in BOOLEAN /\ queue \in BOOLEAN
  /\ worker \in Task \cup {Idle}
  /\ fw \in {"absent", "tokenless", "ready"}
  /\ dir \in [Indices -> Items \cup {None}]
  /\ tfstate \subseteq Items /\ device \subseteq Items

Init ==
  /\ obj = [items |-> FirstList, gen |-> 0, finalizer |-> FALSE,
            deleting |-> FALSE, live |-> TRUE, available |-> FALSE]
  /\ seen = obj /\ latest = TRUE /\ queue = TRUE
  /\ worker = Idle
  /\ fw = "tokenless"
  /\ dir = NoFiles
  /\ tfstate = {} /\ device = {}

----------------------------------------------------------------------------
(***************************************************************************)
(* Users, the informer and the FortigateFirewall controller.               *)
(***************************************************************************)

Outdated ==
  /\ latest' = FALSE
  /\ worker' = IF worker = Idle THEN Idle ELSE [worker EXCEPT !.fresh = FALSE]

\* The generations that come from edits: a deletion counts as one, too.
Edits == IF obj.deleting THEN obj.gen - 1 ELSE obj.gen

EditSpec(l) ==
  /\ obj.live
  /\ Edits < MaxEdits
  /\ l # obj.items
  /\ obj' = [obj EXCEPT !.items = l, !.gen = @ + 1]
  /\ Outdated
  /\ UNCHANGED <<seen, queue, fw, dir, tfstate, device>>

DeleteConfig ==
  /\ obj.live /\ ~obj.deleting
  /\ obj' = IF obj.finalizer
            THEN [obj EXCEPT !.deleting = TRUE, !.gen = @ + 1]
            ELSE [obj EXCEPT !.live = FALSE]
  /\ Outdated
  /\ UNCHANGED <<seen, queue, fw, dir, tfstate, device>>

\* GenerationChangedPredicate drops the operator's own status writes.
SyncConfig ==
  /\ ~latest
  /\ seen' = obj /\ latest' = TRUE
  /\ queue' = (queue \/ seen.gen # obj.gen \/ seen.live # obj.live)
  /\ UNCHANGED <<obj, worker, fw, dir, tfstate, device>>

\* The firewall gets its token, or is deleted by its user.
FirewallChanges ==
  /\ \/ fw = "tokenless" /\ fw' = "ready"
     \/ fw # "absent" /\ fw' = "absent"
  /\ UNCHANGED <<object, queue, worker, dir, tfstate, device>>

----------------------------------------------------------------------------
(***************************************************************************)
(* The worker.  An error puts the object back into the queue; a call may   *)
(* take effect and still report an error.                                  *)
(***************************************************************************)

At(p) == worker.pc = p

GoTo(p) == [worker EXCEPT !.pc = p]

\* Mutant of GiveUp: the error is swallowed, the object not put back.
GiveUpForGood == worker' = Idle /\ UNCHANGED queue

GiveUp == worker' = Idle /\ queue' = TRUE

Answered(next) ==
  \/ worker' = next /\ UNCHANGED queue
  \/ GiveUp

\* Every "return err": the call had no effect.
CallFails ==
  /\ worker # Idle
  /\ GiveUp
  /\ UNCHANGED <<object, fw, dir, tfstate, device>>

\* The object is not found: IgnoreNotFound.
BeginGone ==
  /\ worker = Idle /\ queue
  /\ ~seen.live
  /\ queue' = FALSE
  /\ UNCHANGED <<object, worker, fw, dir, tfstate, device>>

\* Mutant of Entry: the finalizer is never added.
EntryWithoutFinalizer(o) == "render"

\* Where Reconcile goes once the directory is prepared.  A deletion, too,
\* starts with the files of the spec.
Entry(o) == IF o.deleting \/ o.finalizer THEN "render" ELSE "finalizer"

\* Without the firewall object nothing is done, not even for a deletion: the
\* error is returned before the finalizer is looked at.
Begin ==
  /\ worker = Idle /\ queue
  /\ seen.live
  /\ fw # "absent"
  /\ queue' = FALSE
  /\ worker' = [pc |-> Entry(seen), inst |-> seen, fresh |-> latest,
                token |-> fw = "ready"]
  /\ UNCHANGED <<object, fw, dir, tfstate, device>>

\* The API server takes a write made on the current resourceVersion only.
Writable == worker.fresh

\* The answer brings the new resourceVersion: the copy in memory stays fresh.
AddFinalizer ==
  /\ At("finalizer")
  /\ Writable
  /\ obj' = [obj EXCEPT !.finalizer = TRUE]
  /\ latest' = FALSE
  /\ Answered([GoTo("render") EXCEPT !.inst.finalizer = TRUE])
  /\ UNCHANGED <<seen, fw, dir, tfstate, device>>

\* smartNestedProcess and splitIntoFiles: one file per item, over those of the
\* same index; files of higher indices stay.  An empty extraItems is omitted
\* from the spec's JSON, and a loop without its list is an error (CallFails).
Render ==
  /\ At("render")
  /\ worker.inst.items # <<>>
  /\ dir' = [i \in Indices |-> IF i <= Len(worker.inst.items)
                               THEN worker.inst.items[i] ELSE dir[i]]
  /\ worker' = GoTo("validate")
  /\ UNCHANGED <<object, queue, fw, tfstate, device>>

\* applyConfigDrivenRule validates every item, after the files were written;
\* one bad item is an error (CallFails).
Validate ==
  /\ At("validate")
  /\ \A i \in DOMAIN worker.inst.items : worker.inst.items[i] \in Valid
  /\ worker' = GoTo("apply")
  /\ UNCHANGED <<object, queue, fw, dir, tfstate, device>>

Files == {i \in Indices : dir[i] # None}

\* Mutant of Wanted: an index without a file counts as a rule.
WantedEverywhere == {dir[i] : i \in Indices}

\* What the files of the directory declare.  Two that declare the same
\* resource are refused by the plan.
Wanted == {dir[i] : i \in Files}

Plannable == \A i, j \in Files : dir[i] = dir[j] => i = j

\* OpenTofu creates and deletes resources one by one, stops at the first
\* error and stores what it has done.
Reach(made, gone) ==
  /\ tfstate' = (tfstate \cup made) \ gone
  /\ device' = (device \cup made) \ gone

\* execTerraform: init, plan, apply.  On to the status, or to the destruction
\* of what has just been applied.
ApplyTerraform ==
  /\ At("apply")
  /\ worker.token
  /\ Plannable
  /\ Reach(Wanted, tfstate \ Wanted)
  /\ Answered(GoTo(IF worker.inst.deleting THEN "destroy" ELSE "status"))
  /\ UNCHANGED <<object, fw, dir>>

ApplyInPart ==
  /\ At("apply")
  /\ worker.token
  /\ Plannable
  /\ \E made \in SUBSET (Wanted \ tfstate), gone \in SUBSET (tfstate \ Wanted) :
       Reach(made, gone)
  /\ GiveUp
  /\ UNCHANGED <<object, fw, dir>>

\* updateFortigateConfigStatus.
WriteStatus ==
  /\ At("status")
  /\ Writable
  /\ obj' = [obj EXCEPT !.available = TRUE]
  /\ latest' = FALSE
  /\ Answered(Idle)
  /\ UNCHANGED <<seen, fw, dir, tfstate, device>>

\* Mutant of Destroy: the error of a destroy that stopped half way is dropped.
DestroyUnchecked ==
  /\ At("destroy")
  /\ worker.token
  /\ \E gone \in SUBSET tfstate : Reach({}, gone)
  /\ Answered(GoTo("unfinalize"))
  /\ UNCHANGED <<object, fw, dir>>

\* deleteTerraform destroys everything in the state, whatever the files say
\* (they are rendered and validated again, from the same copy), and
\* deleteS3Dir removes the state.
Destroy ==
  /\ At("destroy")
  /\ worker.token
  /\ Reach({}, tfstate)
  /\ Answered(GoTo("unfinalize"))
  /\ UNCHANGED <<object, fw, dir>>

DestroyInPart ==
  /\ At("destroy")
  /\ worker.token
  /\ \E gone \in SUBSET tfstate : Reach({}, gone)
  /\ GiveUp
  /\ UNCHANGED <<object, fw, dir>>

RemoveFinalizer ==
  /\ At("unfinalize")
  /\ Writable
  /\ obj' = [obj EXCEPT !.finalizer = FALSE, !.live = FALSE]
  /\ latest' = FALSE
  /\ Answered(Idle)
  /\ UNCHANGED <<seen, fw, dir, tfstate, device>>

\* The container restarts and keeps /tmp, or the pod is replaced and /tmp is
\* empty; the list it starts from may be the old copy.
Restart ==
  /\ worker' = Idle
  /\ dir' \in {dir, NoFiles}
  /\ \/ seen' = obj /\ latest' = TRUE
     \/ UNCHANGED <<seen, latest>>
  /\ queue' = TRUE
  /\ UNCHANGED <<obj, fw, tfstate, device>>

----------------------------------------------------------------------------
Environment ==
  \/ \E l \in Lists : EditSpec(l)
  \/ DeleteConfig \/ SyncConfig \/ FirewallChanges

Reconcile ==
  \/ BeginGone \/ Begin \/ CallFails
  \/ AddFinalizer \/ Render \/ Validate
  \/ ApplyTerraform \/ ApplyInPart \/ WriteStatus
  \/ Destroy \/ DestroyInPart \/ RemoveFinalizer

Next == Environment \/ Reconcile \/ Restart

Spec == Init /\ [][Next]_vars
----------------------------------------------------------------------------
(***************************************************************************)
(* Safety.                                                                 *)
(***************************************************************************)

RulesOf(o) == {o.items[i] : i \in DOMAIN o.items}

\* Nothing is left to do for the object: it is not being reconciled, not
\* waiting, and the cache shows its last version.
Settled == /\ worker = Idle /\ ~queue /\ latest
           /\ obj.live /\ ~obj.deleting /\ obj.available

\* Once the operator has come to rest on an Available object, every rule of the
\* spec is on the firewall, whatever edits, failed applies, conflicts and
\* restarts came before.
SettledIsApplied == Settled => RulesOf(obj) \subseteq device

\* While a rule of the object is on the firewall the object holds its
\* finalizer, so that deleting it passes through the operator.
HeldWhileApplied == obj.live /\ device # {} => obj.finalizer

\* When the object disappears with its finalizer, none of its rules is left on
\* the firewall or in OpenTofu's state, though each destroy may have stopped
\* half way and been repeated.
CleanWhenGone ==
  [][obj.finalizer /\ ~obj'.live => device = {} /\ tfstate = {}]_vars

\* A settled object ("La configurazione è stata applicata con successo a
\* Fortigate", fortigateconfig_controller.go:227) has on the firewall its rules
\* and no other.  False: the files of a longer list stay in the directory.
SettledIsExact == Settled => device = RulesOf(obj)

----------------------------------------------------------------------------
(***************************************************************************)
(* Liveness.  The informer delivers and the worker goes on (WF); faults,   *)
(* which are restarts, lost answers, applies that stop half way and calls  *)
(* that fail though nothing is wrong, come to an end.  What fails for a    *)
(* reason goes on failing.                                                 *)
(***************************************************************************)

\* The next call cannot but fail: no list for the loop, an item that is not
\* valid, no token, a resource declared twice, a write on an outdated copy.
Hopeless ==
  \/ At("render") /\ worker.inst.items = <<>>
  \/ At("validate") /\ \E i \in DOMAIN worker.inst.items : worker.inst.items[i] \notin Valid
  \/ worker.pc \in {"apply", "destroy"} /\ ~worker.token
  \/ At("apply") /\ ~Plannable
  \/ worker.pc \in {"finalizer", "status", "unfinalize"} /\ ~Writable

Refused == Hopeless /\ CallFails

\* The call takes effect and says so.
GoesOn(A) == A /\ UNCHANGED queue

Pass ==
  \/ BeginGone \/ Begin \/ Render \/ Validate \/ Refused
  \/ GoesOn(AddFinalizer) \/ GoesOn(ApplyTerraform) \/ GoesOn(WriteStatus)
  \/ GoesOn(Destroy) \/ GoesOn(RemoveFinalizer)

SteadySpec ==
  Spec /\ WF_vars(SyncConfig) /\ WF_vars(Pass) /\ <>[][Environment \/ Pass]_vars

\* No file of a longer list that is still in the directory declares a rule of
\* the object once more, nor does the list itself.
ClashFree ==
  \A i \in DOMAIN obj.items, j \in Indices :
    i # j => obj.items[i] # IF j \in DOMAIN obj.items THEN obj.items[j] ELSE dir[j]

\* The operator can apply the object: its firewall is there and has a token, its
\* list is not empty, its items are valid and their files do not clash.
Manageable ==
  /\ fw = "ready"
  /\ obj.items # <<>> /\ RulesOf(obj) \subseteq Valid
  /\ ClashFree

\* An object that is Manageable, and stays so, comes to its end whatever went
\* wrong before: its rules are on the firewall for good and it is Available, or
\* it was deleted and is gone.  (A deletion starts with rendering, validating and
\* applying the rules it is to destroy: it needs what an apply needs.)
ComesToItsEnd ==
  <>[](obj.live => Manageable)
    => <>[](~obj.live \/ (~obj.deleting /\ obj.available /\ RulesOf(obj) \subseteq device))

=============================================================================
