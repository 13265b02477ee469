------------------------------ MODULE Templates ------------------------------
(***************************************************************************)
(* A pass of selectOperatorRule (controller.go) over the working directory *)
(* of one FortigateConfig, up to the moment OpenTofu is started: download  *)
(* (s3_utils.go), copy (send_terraform_request.go), expansion of the loops *)
(* (smart_nested_process.go), the operator's rule (rule_config_driven.go), *)
(* the common file.  The directory outlives a pass that is cut short.      *)
(***************************************************************************)
EXTENDS OperatorRules, TemplateText

CONSTANTS
  Scenarios,   \* the specs, templates and ConfigMaps to begin with, and the
               \* number of edits of each
  Specs,       \* what users may change the spec to
  Valid,       \* the objects that pass the rule's validation
  Tmpl,        \* the key of the template, and of the common file, ends in .tmpl
  Cuts,        \* how many tokens of a template a broken download leaves
  MaxItems     \* the longest list

\* What users write: the name of a rule, and a list of items, if any.
ConfigSpec ==
  [rule : RuleNames,
   list : {l \in Seq(Items) : Len(l) <= MaxItems} \cup {NoList}]

ASSUME ScenariosAssumption ==
  /\ Scenarios \subseteq [maps : [Sources -> Contents], template : Texts,
                         spec : ConfigSpec, edits : Nat]
  /\ Specs \subseteq ConfigSpec
  /\ Tmpl \in BOOLEAN /\ Cuts \subseteq Nat /\ MaxItems \in Nat

----------------------------------------------------------------------------
(* The state.                                                              *)

VARIABLES
  bucket,  \* the template in the bucket
  spec,    \* the FortigateConfig: the name of its rule, its list
  edits,   \* how often users may still edit the spec or a ConfigMap (a bound)
  local,   \* the copy of the template under rules-templates
  dir,     \* the other files of the working directory
  worker   \* the pass in progress

rules == <<maps, memory>>
vars == <<rules, bucket, spec, edits, local, dir, worker>>

\* A file is an extension and an index; 0: without one.  splitTerraformExt:
\* what ends in .tmpl comes to end in .tf.
Source == IF Tmpl THEN <<"tmpl", 0>> ELSE <<"tf", 0>>
CommonSource == IF Tmpl THEN <<"common.tmpl", 0>> ELSE <<"common.tf", 0>>
Whole == <<"tf", 0>>
CommonFile == <<"common.tf", 0>>

\* Mutant of IndexedResourceFile: the index is taken as it is.
IndexedFromZero(i) == <<"tf", i - 1>>

IndexedResourceFile(i) == <<"tf", i>>

Files == {Source, Whole, CommonSource, CommonFile} \cup ({"tf"} \X (1..MaxItems))

CommonText == Literal(<<"tag">>)

Idle == [pc |-> "idle"]

Phases == {"download", "copy", "scan", "split", "rule", "fill", "fill one",
           "common", "rename", "tofu"}

Task == [pc : Phases, k : 1..MaxItems + 1, inst : ConfigSpec]

\* Every variable holds a value of its kind, and the directory only files the
\* pass knows.
TypeOK ==
  /\ RulesTypeOK
  /\ bucket \in Texts /\ local \in Texts \cup {NoFile}
  /\ spec \in ConfigSpec /\ edits \in Nat
  /\ DOMAIN dir = Files
  /\ worker \in Task \cup {Idle}

Init ==
  /\ \E s \in Scenarios :
       /\ maps = s.maps
       /\ bucket = s.template
       /\ spec = s.spec
       /\ edits = s.edits
  /\ RulesInit
  /\ local = NoFile
  /\ dir = [f \in Files |-> NoFile]
  /\ worker = Idle

----------------------------------------------------------------------------
(* The process and the users.                                              *)

LoadRules == Load /\ UNCHANGED <<bucket, spec, edits, local, dir, worker>>

EditSpec(s) ==
  /\ edits > 0
  /\ s # spec
  /\ spec' = s
  /\ edits' = edits - 1
  /\ UNCHANGED <<rules, bucket, local, dir, worker>>

EditRules ==
  /\ edits > 0
  /\ \E s \in Sources : \E c \in Contents \ {maps[s]} : EditSource(s, c)
  /\ edits' = edits - 1
  /\ UNCHANGED <<bucket, spec, local, dir, worker>>

\* The container, or the pod with its directory, is replaced.
Crash ==
  /\ Die
  /\ worker' = Idle
  /\ \/ UNCHANGED <<local, dir>>
     \/ local' = NoFile /\ dir' = [f \in Files |-> NoFile]
  /\ UNCHANGED <<bucket, spec, edits>>

----------------------------------------------------------------------------
(* The pass.                                                               *)

At(q) == boot = "serving" /\ worker.pc = q

GoTo(q) == [worker EXCEPT !.pc = q, !.k = 1]

NextItem == [worker EXCEPT !.k = @ + 1]

GiveUp == worker' = Idle

\* Any call may fail without effect.
CallFails ==
  /\ worker # Idle
  /\ GiveUp
  /\ UNCHANGED <<rules, bucket, spec, edits, local, dir>>

Begin ==
  /\ boot = "serving" /\ worker = Idle
  /\ worker' = [pc |-> "download", k |-> 1, inst |-> spec]
  /\ UNCHANGED <<rules, bucket, spec, edits, local, dir>>

Download ==
  /\ At("download")
  /\ local' = bucket
  /\ worker' = GoTo("copy")
  /\ UNCHANGED <<rules, bucket, spec, edits, dir>>

\* copyS3DirContent drops the error of a download: the local copy is the one of
\* before, or as much of the new one as came through.
DownloadBreaks ==
  /\ At("download")
  /\ \/ UNCHANGED local
     \/ \E n \in Cuts : n < Len(bucket) /\ local' = SubSeq(bucket, 1, n)
  /\ worker' = GoTo("copy")
  /\ UNCHANGED <<rules, bucket, spec, edits, dir>>

\* copyTerraformFiles; what is not there is not copied, and not an error.
Copy ==
  /\ At("copy")
  /\ dir' = [f \in Files |->
               IF f = CommonSource THEN CommonText
               ELSE IF f = Source /\ local # NoFile THEN Literal(local)
               ELSE dir[f]]
  /\ worker' = GoTo("scan")
  /\ UNCHANGED <<rules, bucket, spec, edits, local>>

\* What is tried works, or its error ends the pass.
Try(works, files, next) ==
  /\ IF works THEN dir' = files /\ worker' = next ELSE UNCHANGED dir /\ GiveUp
  /\ UNCHANGED <<rules, bucket, spec, edits, local>>

\* smartNestedProcess reads the file it was copied to.
Scanning == At("scan") /\ dir[Source] # NoFile

NothingToScan ==
  /\ At("scan")
  /\ dir[Source] = NoFile
  /\ Try(FALSE, dir, worker)

\* The first loop has a list, and its body can be read.
ScanSplit ==
  /\ Scanning
  /\ Splits(local)
  /\ LET l == FindTopLevelLoops(local)[1] IN
     Try(/\ Resolve(Root(worker.inst.list), l.tag) # NoList
         /\ FindTopLevelLoops(Body(local, l)) # Failed,
         dir, GoTo("split"))

\* Mutant of SplitWrite: the files are numbered as they are written.
SplitWriteNext ==
  /\ At("split")
  /\ worker.k <= Len(worker.inst.list)
  /\ LET x == worker.inst.list[worker.k]
         out == Piece(local, worker.inst.list, worker.k)
         kept == {i \in 1..worker.k : worker.inst.list[i] # Null}
     IN  Try(x = Null \/ out # Failed,
             IF x = Null THEN dir ELSE [dir EXCEPT ![<<"tf", Cardinality(kept)>>] = out],
             NextItem)

\* A null has no file, but counts.
SplitWrite ==
  /\ At("split")
  /\ worker.k <= Len(worker.inst.list)
  /\ LET x == worker.inst.list[worker.k]
         out == Piece(local, worker.inst.list, worker.k)
     IN  Try(x = Null \/ out # Failed,
             IF x = Null THEN dir ELSE [dir EXCEPT ![<<"tf", worker.k>>] = out],
             NextItem)

\* Mutant of SplitDone: the template stays beside the files made of it.
SplitDoneKept ==
  /\ At("split")
  /\ worker.k > Len(worker.inst.list)
  /\ Try(TRUE, dir, GoTo("rule"))

SplitDone ==
  /\ At("split")
  /\ worker.k > Len(worker.inst.list)
  /\ Try(TRUE, [dir EXCEPT ![Source] = NoFile], GoTo("rule"))

\* renderInPlace, or a template without loops; writeAndEnsureDotTf.
WriteWhole ==
  /\ Scanning
  /\ ~Splits(local)
  /\ LET out == Expand[<<local, Root(worker.inst.list)>>] IN
     Try(out # Failed,
         [f \in Files |-> IF f = Whole THEN out
                          ELSE IF f = Source THEN NoFile ELSE dir[f]],
         GoTo("rule"))

Handler == {r[2] : r \in {q \in registry : q[1] = worker.inst.rule}}

\* Mutant of Checked: every item is validated just before its file is filled.
CheckedOneByOne(h, list) == TRUE

\* validateEngineLists and validateFields: all objects before the first file.
Checked(h, list) ==
  (h.checks /\ list # NoList) =>
    \A i \in DOMAIN list : list[i] \in Objects => list[i] \in Valid

\* applyConfigDrivenRule, first pass.  A rule for a list needs the list.
Validate ==
  /\ At("rule")
  /\ IF Handler = {} THEN Try(FALSE, dir, worker)
     ELSE \E h \in Handler :
            Try(/\ Checked(h, worker.inst.list)
                /\ h.each => worker.inst.list # NoList,
                dir, GoTo(IF h.each THEN "fill" ELSE "fill one"))

\* Second pass: one file per object, which must be there.
FillPiece ==
  /\ At("fill")
  /\ worker.k <= Len(worker.inst.list)
  /\ LET f == IndexedResourceFile(worker.k) IN
     IF worker.inst.list[worker.k] \notin Objects THEN Try(TRUE, dir, NextItem)
     ELSE Try(f \in Files /\ dir[f] # NoFile,
              [dir EXCEPT ![f] = Fill(@, <<worker.k>>)], NextItem)

FillDone ==
  /\ At("fill")
  /\ worker.k > Len(worker.inst.list)
  /\ Try(TRUE, dir, GoTo("common"))

\* A rule without a list fills the file of the template itself.
FillWhole ==
  /\ At("fill one")
  /\ Try(dir[Whole] # NoFile, [dir EXCEPT ![Whole] = Fill(@, <<>>)], GoTo("common"))

\* tfCommon, in the file as it was copied ...
FillCommon ==
  /\ At("common")
  /\ Try(TRUE, [dir EXCEPT ![CommonSource] = Fill(@, <<>>)], GoTo("rename"))

\* ... which gets its name only then.
RenameCommon ==
  /\ At("rename")
  /\ Try(TRUE, [f \in Files |-> IF f = CommonFile THEN dir[CommonSource]
                                ELSE IF f = CommonSource THEN NoFile ELSE dir[f]],
         GoTo("tofu"))

\* OpenTofu runs on what is in the directory.
Tofu ==
  /\ At("tofu")
  /\ GiveUp
  /\ UNCHANGED <<rules, bucket, spec, edits, local, dir>>

----------------------------------------------------------------------------
Users == (\E s \in Specs : EditSpec(s)) \/ EditRules

Pass ==
  \/ Begin \/ Download \/ Copy
  \/ NothingToScan \/ ScanSplit \/ SplitWrite \/ SplitDone \/ WriteWhole
  \/ Validate \/ FillPiece \/ FillDone \/ FillWhole
  \/ FillCommon \/ RenameCommon \/ Tofu

Faults == CallFails \/ DownloadBreaks \/ Crash

Next == LoadRules \/ Users \/ Pass \/ Faults

Spec == Init /\ [][Next]_vars

\* The worker and the loading go on (WF), and faults end: each is an answer of
\* the disk, the bucket or the kubelet that the next attempt does not depend on.
\* (A pass that cannot but fail is no fault: Try.)
SteadySpec ==
  Spec /\ WF_vars(LoadRules) /\ WF_vars(CallFails \/ Pass)
       /\ <>[][LoadRules \/ Users \/ Pass]_vars

----------------------------------------------------------------------------
(***************************************************************************)
(* Safety.                                                                 *)
(***************************************************************************)

\* findTopLevelLoops finds the loops of the outermost level, each with its own
\* end ("conteggio di profondità per accoppiare correttamente ogni apertura con
\* la sua vera chiusura", smart_nested_process.go:141), and fails only if one of
\* them has none.
LoopsMatch == Matches(bucket)

Ready == At("tofu")

Listed(i) == worker.inst.list[i]

\* The file of the i-th item, as the rule leaves it.
Finished(h, i) ==
  LET out == Piece(local, worker.inst.list, i)
  IN  IF h.each /\ Listed(i) \in Objects THEN Fill(out, <<i>>) ELSE out

\* Before OpenTofu starts, every file of this spec is made anew from the copy of
\* the template and filled, whatever an earlier pass that was cut short, with
\* another spec, or an operator with other rules has left behind, and no template
\* is left beside them.
ReadyIsWhole ==
  Ready =>
    /\ \A h \in Handler :
         IF Splits(local)
         THEN \A i \in DOMAIN worker.inst.list :
                Listed(i) # Null => dir[<<"tf", i>>] = Finished(h, i)
         ELSE LET out == Expand[<<local, Root(worker.inst.list)>>] IN
              dir[Whole] = IF h.each THEN out ELSE Fill(out, <<>>)
    /\ Tmpl => dir[<<"tmpl", 0>>] = NoFile
    /\ dir[CommonFile] = Fill(CommonText, <<>>)

\* The tags of a text stand where the rule looks for them: a rule for a list in
\* the body of the loop that opens the text, outside other loops; any other rule
\* outside all loops.
Placed(c, each) ==
  /\ each => c # <<>> /\ c[1] = "for"
  /\ \A n \in DOMAIN c : c[n] = "tag" => Around(c, n) = IF each THEN {1} ELSE {}

Untagged(out) == \A n \in DOMAIN out : out[n].kind # "tag"

\* Engine and rule agree on the names of the files and on the suffixes of the
\* tags ("must match whatever naming convention smartNestedProcess actually
\* gives", rule_helpers.go:43): OpenTofu is started on files in which no tag is
\* left open, if the template has its tags in the right places.
NoTagLeft ==
  Ready /\ Named(local) =>
    \A h \in Handler :
      /\ h.each /\ Placed(local, TRUE) =>
           \A i \in DOMAIN worker.inst.list :
             Listed(i) \in Objects => Untagged(dir[<<"tf", i>>])
      /\ ~h.each /\ ~Splits(local) /\ Placed(local, FALSE) => Untagged(dir[Whole])

\* "Se anche uno solo non va bene, non scriviamo NESSUN file"
\* (rule_config_driven.go:250): while an item of the pass is not valid under its
\* rule, the rule fills no file, those of the valid items included.
NothingFilledInvalid ==
  [][(At("fill") \/ At("fill one")) /\ dir' # dir
       => \A h \in Handler : h.each /\ h.checks =>
            \A i \in DOMAIN worker.inst.list : Listed(i) \notin Objects \ Valid]_vars

\* The pass has what it needs: template and list fit, the objects are valid, and
\* the rule is there and of the kind of the template.
Fits ==
  /\ local # NoFile /\ Served(local, worker.inst.list)
  /\ \A i \in DOMAIN worker.inst.list : Listed(i) \in Objects => Listed(i) \in Valid
  /\ Handler # {} /\ \A h \in Handler : h.each <=> Splits(local)

\* An error of the engine or of the rule means a mistake of the user's ("un tag di
\* ciclo che non risolve è quasi certamente un refuso",
\* smart_nested_process.go:274): where template, list and rule fit, no step of the
\* pass returns one, whatever an earlier pass has left in the directory.
NeverRefused ==
  [][/\ \/ NothingToScan \/ ScanSplit \/ SplitWrite \/ WriteWhole
        \/ Validate \/ FillPiece \/ FillWhole
     /\ Fits
     => worker' # Idle]_vars

----------------------------------------------------------------------------
(***************************************************************************)
(* Liveness.                                                               *)
(***************************************************************************)

HandlerIn(m) == {r[2] : r \in {q \in Union(m) : q[1] = spec.rule}}

\* The ConfigMaps agree, the rule is one of theirs and of the kind of the
\* template; its loops are balanced, over the list of the spec and the lists of
\* its items, all of which exist; and the items are valid.
Serviceable ==
  /\ Sound(maps)
  /\ Served(bucket, spec.list)
  /\ \A i \in DOMAIN spec.list : spec.list[i] \in Objects => spec.list[i] \in Valid
  /\ \E h \in HandlerIn(maps) : h.each <=> (bucket # <<>> /\ bucket[1] = "for")

\* If that is so and stays so, OpenTofu is started again and again on it,
\* whatever failed before and whatever it left.
GetsReady ==
  <>[]Serviceable => []<>(Ready /\ worker.inst = spec /\ local = bucket)

=============================================================================
