-------------------------- MODULE Templates_proofs --------------------------
(***************************************************************************)
(* Before OpenTofu starts, every file is whole, whatever the directory     *)
(* held, whatever template, list and rule: an inductive invariant of the   *)
(* pass, for any text and any result of its expansion.                     *)
(***************************************************************************)
EXTENDS Templates, OperatorRules_proofs, TemplateText_proofs

\* TypeOK without the variables of OperatorRules.
Shape ==
  /\ bucket \in Texts /\ local \in Texts \cup {NoFile}
  /\ spec \in ConfigSpec /\ edits \in Nat
  /\ DOMAIN dir = Files
  /\ worker \in Task \cup {Idle}

\* The files as the engine leaves them: of the first n items, or the whole.
Pieces(n) ==
  /\ worker.inst.list # NoList
  /\ \A i \in DOMAIN worker.inst.list :
       i < n /\ Listed(i) # Null => dir[<<"tf", i>>] = Piece(local, worker.inst.list, i)

\* A template that makes a file per item has its list.
HasList == worker.inst.list # NoList \/ ~Splits(local)

Made ==
  /\ HasList
  /\ IF Splits(local)
     THEN \A i \in DOMAIN worker.inst.list :
            Listed(i) # Null => dir[<<"tf", i>>] = Piece(local, worker.inst.list, i)
     ELSE dir[Whole] = Expand[<<local, Root(worker.inst.list)>>]

\* As a rule leaves them that has come to item n.
FilledTo(h, n) ==
  IF Splits(local)
  THEN \A i \in DOMAIN worker.inst.list :
         Listed(i) # Null =>
           dir[<<"tf", i>>] = IF i < n THEN Finished(h, i)
                              ELSE Piece(local, worker.inst.list, i)
  ELSE dir[Whole] = Expand[<<local, Root(worker.inst.list)>>]

NoTemplate == Tmpl => dir[<<"tmpl", 0>>] = NoFile

Filled ==
  \A h \in Handler :
    IF Splits(local)
    THEN \A i \in DOMAIN worker.inst.list :
           Listed(i) # Null => dir[<<"tf", i>>] = Finished(h, i)
    ELSE LET out == Expand[<<local, Root(worker.inst.list)>>] IN
         dir[Whole] = IF h.each THEN out ELSE Fill(out, <<>>)

Busy == worker # Idle => boot = "serving"

SourceInv == dir[Source] # NoFile => local # NoFile

CommonFileInv ==
  /\ worker.pc \in {"scan", "split", "rule", "fill", "fill one", "common"} =>
       dir[CommonSource] = CommonText
  /\ worker.pc = "rename" => dir[CommonSource] = Fill(CommonText, <<>>)
  /\ worker.pc = "tofu" => dir[CommonFile] = Fill(CommonText, <<>>)

ScanInv == worker.pc = "scan" /\ dir[Source] # NoFile => dir[Source] = Literal(local)

SplitInv == worker.pc = "split" => Splits(local) /\ Pieces(worker.k)

RuleInv == worker.pc \in {"rule", "fill one"} => Made /\ NoTemplate

FillInv ==
  worker.pc = "fill" =>
    /\ worker.inst.list # NoList /\ NoTemplate
    /\ \A h \in Handler :
         /\ h.each /\ Checked(h, worker.inst.list)
         /\ FilledTo(h, worker.k)

OneInv == worker.pc = "fill one" => \A h \in Handler : ~h.each

DoneInv == worker.pc \in {"common", "rename", "tofu"} => HasList /\ Filled /\ NoTemplate

\* Inductive invariant of the pass: what each phase has left in the directory.
PassInv ==
  /\ Busy /\ SourceInv /\ CommonFileInv
  /\ ScanInv /\ SplitInv /\ RuleInv /\ FillInv /\ OneInv /\ DoneInv

All == Inv /\ Shape /\ PassInv

-----------------------------------------------------------------------------
(* The pieces of a step.                                                   *)

\* The files of the items are none of the others.
LEMMA FilesApart ==
  /\ Source \in Files /\ Whole \in Files /\ CommonSource \in Files /\ CommonFile \in Files
  /\ \A i \in 1..MaxItems : <<"tf", i>> \in Files
  /\ \A i \in Nat \ {0} : /\ <<"tf", i>> # Source /\ <<"tf", i>> # Whole
                          /\ <<"tf", i>> # CommonSource /\ <<"tf", i>> # CommonFile
                          /\ <<"tf", i>> # <<"tmpl", 0>>
  /\ Source # CommonSource /\ Source # CommonFile
  /\ Whole # CommonSource /\ Whole # CommonFile /\ Whole # <<"tmpl", 0>>
  /\ CommonSource # <<"tmpl", 0>> /\ CommonFile # <<"tmpl", 0>>
  /\ Source = IF Tmpl THEN <<"tmpl", 0>> ELSE Whole
<1>1. \A x, y, i, j : <<x, i>> = <<y, j>> => x = y /\ i = j
  OBVIOUS
<1>2. \A i \in 1..MaxItems : <<"tf", i>> \in {"tf"} \X (1..MaxItems)
  OBVIOUS
<1>3. /\ Source \in Files /\ Whole \in Files /\ CommonSource \in Files /\ CommonFile \in Files
      /\ \A i \in 1..MaxItems : <<"tf", i>> \in Files
  BY <1>2 DEF Files
<1>4. QED
  BY <1>1, <1>3 DEF Source, Whole, CommonSource, CommonFile

LEMMA AtIs ==
  ASSUME Shape, NEW q \in Phases, At(q)
  PROVE  worker \in Task /\ worker.pc = q /\ boot = "serving" /\ worker # Idle
<1>1. Idle.pc = "idle" /\ "idle" \notin Phases
  BY DEF Idle, Phases
<1>2. worker.pc = q /\ boot = "serving" /\ worker \in Task \cup {Idle}
  BY DEF At, Shape
<1>3. worker # Idle
  BY <1>1, <1>2
<1>4. QED
  BY <1>2, <1>3

LEMMA GoToIs ==
  ASSUME worker \in Task, NEW q \in Phases
  PROVE  /\ GoTo(q) \in Task /\ GoTo(q).pc = q /\ GoTo(q).k = 1
         /\ GoTo(q).inst = worker.inst
<1>1. 1 \in 1 .. MaxItems + 1
  BY ScenariosAssumption
<1>2. QED
  BY <1>1 DEF GoTo, Task

\* An item of the list the pass works on.
LEMMA ItemIs ==
  ASSUME worker \in Task, worker.inst.list # NoList
  PROVE  /\ worker.inst.list \in Seq(Items) /\ Len(worker.inst.list) \in Nat
         /\ DOMAIN worker.inst.list = 1 .. Len(worker.inst.list)
         /\ Len(worker.inst.list) <= MaxItems /\ worker.k \in Nat \ {0}
BY ScenariosAssumption DEF Task, ConfigSpec

LEMMA NextItemIs ==
  ASSUME worker \in Task, worker.inst.list # NoList, worker.k <= Len(worker.inst.list)
  PROVE  /\ NextItem \in Task /\ NextItem.pc = worker.pc /\ NextItem.k = worker.k + 1
         /\ NextItem.inst = worker.inst
<1>1. worker.k + 1 \in 1 .. MaxItems + 1
  BY ItemIs, ScenariosAssumption
<1>2. QED
  BY <1>1 DEF NextItem, Task

\* A process that serves has one rule of each name.
LEMMA OneHandler ==
  ASSUME Inv, boot = "serving", NEW g \in Handler, NEW h \in Handler
  PROVE  g = h
BY DEF Inv, MergeDecides, Functional, Handler

-----------------------------------------------------------------------------
(* Steps that end the pass, and steps that do not touch it.                *)

LEMMA ToIdle ==
  ASSUME worker' = Idle, SourceInv'
  PROVE  PassInv'
BY DEF PassInv, Busy, CommonFileInv, ScanInv, SplitInv, RuleInv, FillInv, OneInv, DoneInv,
       Idle

LEMMA Quiet ==
  ASSUME Shape, PassInv, local' = local, dir' = dir, worker' = worker,
         worker # Idle => boot' = boot /\ registry' = registry
  PROVE  PassInv'
<1>1. SourceInv'
  BY DEF PassInv, SourceInv
<1>2. CASE worker = Idle
  BY <1>1, <1>2, ToIdle
<1>3. CASE worker # Idle
  <2>1. boot' = boot /\ Handler' = Handler
    BY <1>3 DEF Handler
  <2>2. Busy' /\ CommonFileInv' /\ ScanInv' /\ OneInv'
    BY <2>1 DEF PassInv, Busy, CommonFileInv, ScanInv, OneInv
  <2>3. SplitInv' /\ RuleInv'
    BY DEF PassInv, SplitInv, RuleInv, Pieces, Made, HasList, NoTemplate, Listed
  <2>4. FillInv'
    BY <2>1 DEF PassInv, FillInv, FilledTo, Finished, NoTemplate, Listed, Checked
  <2>5. DoneInv'
    BY <2>1 DEF PassInv, DoneInv, HasList, Filled, Finished, NoTemplate, Listed
  <2>6. QED
    BY <1>1, <2>2, <2>3, <2>4, <2>5 DEF PassInv
<1>4. QED
  BY <1>2, <1>3

-----------------------------------------------------------------------------
(* Each step of the pass keeps the invariant.                              *)

\* What follows once the next phase and the files it finds are known.
LEMMA BeginInv ==
  ASSUME All, Begin
  PROVE  Shape' /\ PassInv'
<1> DEFINE w == [pc |-> "download", k |-> 1, inst |-> spec]
<1>1. w \in Task /\ w.pc = "download"
  <2>1. 1 \in 1 .. MaxItems + 1
    BY ScenariosAssumption
  <2>2. QED
    BY <2>1 DEF All, Shape, Task, Phases
<1>2. worker' = w /\ boot' = "serving" /\ local' = local /\ dir' = dir
  BY DEF Begin, rules, memory
<1> HIDE DEF w
<1>3. Shape'
  BY <1>1, <1>2 DEF All, Shape, Begin
<1>4. SourceInv'
  BY <1>2 DEF All, PassInv, SourceInv
<1>5. QED
  BY <1>1, <1>2, <1>3, <1>4
     DEF PassInv, Busy, CommonFileInv, ScanInv, SplitInv, RuleInv, FillInv, OneInv, DoneInv

LEMMA DownloadInv ==
  ASSUME All, Download \/ DownloadBreaks
  PROVE  Shape' /\ PassInv'
<1>1. At("download") /\ worker' = GoTo("copy") /\ dir' = dir /\ boot' = boot
      /\ bucket' = bucket /\ spec' = spec /\ edits' = edits
  BY DEF Download, DownloadBreaks, rules, memory
<1>2. worker \in Task /\ boot = "serving"
  BY <1>1, AtIs DEF All, Phases
<1>3. GoTo("copy") \in Task /\ GoTo("copy").pc = "copy"
  BY <1>2, GoToIs DEF Phases
<1>4. local' \in Texts \/ local' = local
  <2>1. \A n \in Nat : n < Len(bucket) => SubSeq(bucket, 1, n) \in Texts
    BY DEF All, Shape, Texts
  <2>2. QED
    BY <2>1, ScenariosAssumption DEF All, Shape, Download, DownloadBreaks
<1>5. Shape'
  BY <1>1, <1>3, <1>4 DEF All, Shape
<1>6. SourceInv'
  BY <1>1, <1>4, NoFileAssumption DEF All, PassInv, SourceInv
<1>7. QED
  BY <1>1, <1>2, <1>3, <1>5, <1>6
     DEF PassInv, Busy, CommonFileInv, ScanInv, SplitInv, RuleInv, FillInv, OneInv, DoneInv

LEMMA CopyInv ==
  ASSUME All, Copy
  PROVE  Shape' /\ PassInv'
<1>1. /\ At("copy") /\ worker' = GoTo("scan") /\ boot' = boot /\ local' = local
      /\ bucket' = bucket /\ spec' = spec /\ edits' = edits
      /\ dir' = [f \in Files |->
                   IF f = CommonSource THEN CommonText
                   ELSE IF f = Source /\ local # NoFile THEN Literal(local)
                   ELSE dir[f]]
  BY DEF Copy, rules, memory
<1>2. worker \in Task /\ boot = "serving"
  BY <1>1, AtIs DEF All, Phases
<1>3. GoTo("scan") \in Task /\ GoTo("scan").pc = "scan"
  BY <1>2, GoToIs DEF Phases
<1>4. Shape'
  BY <1>1, <1>3 DEF All, Shape
<1>5. /\ dir'[CommonSource] = CommonText
      /\ dir'[Source] = IF local # NoFile THEN Literal(local) ELSE dir[Source]
  BY <1>1, FilesApart
<1>6. SourceInv' /\ ScanInv'
  BY <1>1, <1>3, <1>5 DEF All, PassInv, SourceInv, ScanInv
<1>7. QED
  BY <1>1, <1>2, <1>3, <1>4, <1>5, <1>6
     DEF PassInv, Busy, CommonFileInv, SplitInv, RuleInv, FillInv, OneInv, DoneInv

\* A pass that gives up leaves the files as they are.
LEMMA GiveUpInv ==
  ASSUME All, worker' = Idle, dir' = dir,
         UNCHANGED <<rules, bucket, spec, edits, local>>
  PROVE  Shape' /\ PassInv'
<1>1. Shape'
  BY DEF All, Shape
<1>2. SourceInv'
  BY DEF All, PassInv, SourceInv
<1>3. QED
  BY <1>1, <1>2, ToIdle

LEMMA ScanSplitInv ==
  ASSUME All, ScanSplit
  PROVE  Shape' /\ PassInv'
<1>1. /\ At("scan") /\ Splits(local)
      /\ dir' = dir /\ UNCHANGED <<rules, bucket, spec, edits, local>>
      /\ \/ worker' = Idle
         \/ /\ worker' = GoTo("split")
            /\ Resolve(Root(worker.inst.list), FindTopLevelLoops(local)[1].tag) # NoList
  BY DEF ScanSplit, Scanning, Try, GiveUp
<1>2. worker \in Task /\ worker.pc = "scan" /\ boot = "serving" /\ boot' = boot
  BY <1>1, AtIs DEF All, Phases, rules, memory
<1>3. CASE worker' = Idle
  BY <1>1, <1>3, GiveUpInv
<1>4. CASE worker' # Idle
  <2>1. /\ worker' = GoTo("split") /\ GoTo("split") \in Task /\ GoTo("split").pc = "split"
        /\ GoTo("split").k = 1 /\ GoTo("split").inst = worker.inst
    BY <1>1, <1>2, <1>4, GoToIs DEF Phases
  <2>2. Shape' /\ SourceInv'
    BY <1>1, <2>1 DEF All, Shape, PassInv, SourceInv
  <2>3. worker.inst.list # NoList
    BY <1>1, <1>4 DEF Resolve, Root
  <2>4. dir[CommonSource] = CommonText
    BY <1>2 DEF All, PassInv, CommonFileInv
  <2>5. SplitInv'
    <3>1. worker.inst.list \in Seq(Items)
      BY <1>2, <2>3, ItemIs
    <3>2. \A i \in DOMAIN worker.inst.list : ~(i < 1)
      BY <3>1
    <3>3. QED
      BY <1>1, <2>1, <2>3, <3>2 DEF SplitInv, Pieces
  <2>6. QED
    BY <1>1, <1>2, <2>1, <2>2, <2>4, <2>5
       DEF PassInv, Busy, CommonFileInv, ScanInv, RuleInv, FillInv, OneInv, DoneInv
<1>5. QED
  BY <1>3, <1>4

LEMMA SplitWriteInv ==
  ASSUME All, SplitWrite
  PROVE  Shape' /\ PassInv'
<1> DEFINE list == worker.inst.list
           k == worker.k
           f == <<"tf", k>>
<1>1. /\ At("split") /\ k <= Len(list) /\ UNCHANGED <<rules, bucket, spec, edits, local>>
      /\ \/ worker' = Idle /\ dir' = dir
         \/ /\ worker' = NextItem
            /\ dir' = IF list[k] = Null THEN dir ELSE [dir EXCEPT ![f] = Piece(local, list, k)]
  BY DEF SplitWrite, Try, GiveUp
<1>2. worker \in Task /\ worker.pc = "split" /\ boot = "serving" /\ boot' = boot
  BY <1>1, AtIs DEF All, Phases, rules, memory
<1>3. CASE worker' = Idle /\ dir' = dir
  BY <1>1, <1>3, GiveUpInv
<1>4. CASE worker' = NextItem /\ dir' = IF list[k] = Null THEN dir
                                        ELSE [dir EXCEPT ![f] = Piece(local, list, k)]
  <2>1. /\ Splits(local) /\ list # NoList
        /\ \A i \in DOMAIN list : i < k /\ list[i] # Null =>
             dir[<<"tf", i>>] = Piece(local, list, i)
    BY <1>2 DEF All, PassInv, SplitInv, Pieces, Listed
  <2>2. /\ DOMAIN list = 1 .. Len(list) /\ Len(list) \in Nat /\ Len(list) <= MaxItems
        /\ k \in Nat \ {0} /\ MaxItems \in Nat
    BY <1>2, <2>1, ItemIs, ScenariosAssumption
  <2>3. /\ NextItem \in Task /\ NextItem.pc = "split" /\ NextItem.k = k + 1
        /\ NextItem.inst = worker.inst
    BY <1>1, <1>2, <2>1, NextItemIs
  <2>4. /\ f \in Files /\ f # Source /\ f # CommonSource
        /\ \A i \in DOMAIN list : i # k => <<"tf", i>> # f
    BY <1>1, <2>2, FilesApart
  <2>5. /\ DOMAIN dir = Files /\ dir[CommonSource] = CommonText
        /\ Source \in Files /\ CommonSource \in Files
        /\ \A i \in DOMAIN list : <<"tf", i>> \in Files
    BY <1>2, <2>2, FilesApart DEF All, Shape, PassInv, CommonFileInv
  <2> HIDE DEF list, k, f
  <2>6. /\ DOMAIN dir' = Files /\ dir'[Source] = dir[Source]
        /\ dir'[CommonSource] = CommonText
        /\ list[k] # Null => dir'[f] = Piece(local, list, k)
        /\ \A i \in DOMAIN list : i # k => dir'[<<"tf", i>>] = dir[<<"tf", i>>]
    BY <1>4, <2>4, <2>5
  <2>7. \A i \in DOMAIN list : i < k + 1 /\ list[i] # Null =>
          dir'[<<"tf", i>>] = Piece(local, list, i)
    BY <2>1, <2>2, <2>6 DEF f
  <2>8. SplitInv'
    BY <1>1, <1>4, <2>1, <2>3, <2>7 DEF SplitInv, Pieces, Listed, list
  <2>9. Shape' /\ SourceInv'
    BY <1>1, <1>4, <2>3, <2>6 DEF All, Shape, PassInv, SourceInv
  <2>10. QED
    BY <1>1, <1>2, <1>4, <2>3, <2>6, <2>8, <2>9
       DEF PassInv, Busy, CommonFileInv, ScanInv, RuleInv, FillInv, OneInv, DoneInv
<1>5. QED
  BY <1>1, <1>3, <1>4

LEMMA SplitDoneInv ==
  ASSUME All, SplitDone
  PROVE  Shape' /\ PassInv'
<1> DEFINE list == worker.inst.list
<1>1. /\ At("split") /\ worker.k > Len(list) /\ UNCHANGED <<rules, bucket, spec, edits, local>>
      /\ worker' = GoTo("rule") /\ dir' = [dir EXCEPT ![Source] = NoFile]
  BY DEF SplitDone, Try
<1>2. worker \in Task /\ worker.pc = "split" /\ boot = "serving" /\ boot' = boot
  BY <1>1, AtIs DEF All, Phases, rules, memory
<1>3. /\ Splits(local) /\ list # NoList
      /\ \A i \in DOMAIN list : i < worker.k /\ list[i] # Null =>
           dir[<<"tf", i>>] = Piece(local, list, i)
  BY <1>2 DEF All, PassInv, SplitInv, Pieces, Listed
<1>4. /\ DOMAIN list = 1 .. Len(list) /\ Len(list) \in Nat /\ Len(list) <= MaxItems
      /\ worker.k \in Nat \ {0} /\ MaxItems \in Nat
  BY <1>2, <1>3, ItemIs, ScenariosAssumption
<1>5. /\ GoTo("rule") \in Task /\ GoTo("rule").pc = "rule" /\ GoTo("rule").inst = worker.inst
  BY <1>2, GoToIs DEF Phases
<1>6. /\ DOMAIN dir = Files /\ dir[CommonSource] = CommonText
      /\ Source \in Files /\ CommonSource \in Files /\ CommonSource # Source
      /\ \A i \in DOMAIN list : <<"tf", i>> \in Files /\ <<"tf", i>> # Source
  BY <1>2, <1>4, FilesApart DEF All, Shape, PassInv, CommonFileInv
<1> HIDE DEF list
<1>7. /\ DOMAIN dir' = Files /\ dir'[Source] = NoFile /\ dir'[CommonSource] = CommonText
      /\ \A i \in DOMAIN list : dir'[<<"tf", i>>] = dir[<<"tf", i>>]
  BY <1>1, <1>6
<1>8. RuleInv'
  <2>1. \A i \in DOMAIN list : list[i] # Null => dir'[<<"tf", i>>] = Piece(local, list, i)
    BY <1>1, <1>3, <1>4, <1>7
  <2>2. NoTemplate'
    BY <1>7, FilesApart DEF NoTemplate
  <2>3. QED
    BY <1>1, <1>3, <1>5, <2>1, <2>2 DEF RuleInv, Made, HasList, Listed, list
<1>9. Shape' /\ SourceInv'
  BY <1>1, <1>5, <1>7 DEF All, Shape, PassInv, SourceInv
<1>10. QED
  BY <1>1, <1>2, <1>5, <1>7, <1>8, <1>9
     DEF PassInv, Busy, CommonFileInv, ScanInv, SplitInv, FillInv, OneInv, DoneInv

LEMMA WriteWholeInv ==
  ASSUME All, WriteWhole
  PROVE  Shape' /\ PassInv'
<1> DEFINE out == Expand[<<local, Root(worker.inst.list)>>]
           files == [f \in Files |-> IF f = Whole THEN out
                                     ELSE IF f = Source THEN NoFile ELSE dir[f]]
<1>1. /\ At("scan") /\ ~Splits(local) /\ UNCHANGED <<rules, bucket, spec, edits, local>>
      /\ dir[Source] # NoFile
      /\ \/ worker' = Idle /\ dir' = dir
         \/ worker' = GoTo("rule") /\ dir' = files
  BY DEF WriteWhole, Scanning, Try, GiveUp
<1>2. worker \in Task /\ worker.pc = "scan" /\ boot = "serving" /\ boot' = boot
  BY <1>1, AtIs DEF All, Phases, rules, memory
<1>3. CASE worker' = Idle /\ dir' = dir
  BY <1>1, <1>3, GiveUpInv
<1>4. CASE worker' = GoTo("rule") /\ dir' = files
  <2>1. /\ GoTo("rule") \in Task /\ GoTo("rule").pc = "rule"
        /\ GoTo("rule").inst = worker.inst
    BY <1>2, GoToIs DEF Phases
  <2>2. dir[CommonSource] = CommonText /\ local # NoFile
    BY <1>1, <1>2 DEF All, PassInv, CommonFileInv, SourceInv
  <2> HIDE DEF out
  <2>3. /\ DOMAIN dir' = Files /\ dir'[CommonSource] = CommonText /\ dir'[Whole] = out
        /\ Tmpl => dir'[<<"tmpl", 0>>] = NoFile
    BY <1>4, <2>2, FilesApart
  <2>4. RuleInv'
    BY <1>1, <1>4, <2>1, <2>3 DEF RuleInv, Made, HasList, NoTemplate, out
  <2>5. Shape' /\ SourceInv'
    BY <1>1, <1>4, <2>1, <2>2, <2>3 DEF All, Shape, SourceInv
  <2>6. QED
    BY <1>1, <1>2, <1>4, <2>1, <2>3, <2>4, <2>5
       DEF PassInv, Busy, CommonFileInv, ScanInv, SplitInv, FillInv, OneInv, DoneInv
<1>5. QED
  BY <1>1, <1>3, <1>4

\* From the end of the engine to the fill: the files are those it made.
LEMMA ValidateInv ==
  ASSUME All, Validate
  PROVE  Shape' /\ PassInv'
<1> DEFINE list == worker.inst.list
<1>1. /\ At("rule") /\ UNCHANGED <<rules, bucket, spec, edits, local>> /\ dir' = dir
      /\ \/ worker' = Idle
         \/ \E h \in Handler : /\ Checked(h, list) /\ (h.each => list # NoList)
                               /\ worker' = GoTo(IF h.each THEN "fill" ELSE "fill one")
  BY DEF Validate, Try, GiveUp
<1>2. worker \in Task /\ worker.pc = "rule" /\ boot = "serving" /\ boot' = boot
      /\ registry' = registry
  BY <1>1, AtIs DEF All, Phases, rules, memory
<1>3. CASE worker' = Idle
  BY <1>1, <1>3, GiveUpInv
<1>4. CASE worker' # Idle
  <2>1. PICK h \in Handler : /\ Checked(h, list) /\ (h.each => list # NoList)
                             /\ worker' = GoTo(IF h.each THEN "fill" ELSE "fill one")
    BY <1>1, <1>4
  <2>2. \A g \in Handler : g = h
    BY <1>2, OneHandler DEF All
  <2>3. Made /\ NoTemplate /\ dir[CommonSource] = CommonText
    BY <1>2 DEF All, PassInv, RuleInv, CommonFileInv
  <2>4. CASE h.each
    <3>1. /\ worker' = GoTo("fill") /\ GoTo("fill") \in Task /\ GoTo("fill").pc = "fill"
          /\ GoTo("fill").k = 1 /\ GoTo("fill").inst = worker.inst
      BY <1>2, <2>1, <2>4, GoToIs DEF Phases
    <3>2. Handler' = Handler /\ list # NoList
      BY <1>2, <2>1, <2>4, <3>1 DEF Handler
    <3>3. \A i \in DOMAIN list : ~(i < 1)
      BY <1>2, <3>2, ItemIs
    <3>4. FilledTo(h, 1)'
      BY <1>1, <2>3, <3>1, <3>3 DEF FilledTo, Made, Listed
    <3>5. Checked(h, list)'
      BY <2>1, <3>1 DEF Checked
    <3>6. FillInv'
      BY <1>1, <2>2, <2>3, <2>4, <3>1, <3>2, <3>4, <3>5 DEF FillInv, NoTemplate
    <3>7. Shape' /\ SourceInv'
      BY <1>1, <3>1 DEF All, Shape, PassInv, SourceInv
    <3>8. QED
      BY <1>1, <1>2, <2>3, <3>1, <3>6, <3>7
         DEF PassInv, Busy, CommonFileInv, ScanInv, SplitInv, RuleInv, OneInv, DoneInv
  <2>5. CASE ~h.each
    <3>1. /\ worker' = GoTo("fill one") /\ GoTo("fill one") \in Task
          /\ GoTo("fill one").pc = "fill one" /\ GoTo("fill one").inst = worker.inst
      BY <1>2, <2>1, <2>5, GoToIs DEF Phases
    <3>2. Handler' = Handler
      BY <1>2, <3>1 DEF Handler
    <3>3. RuleInv' /\ OneInv'
      BY <1>1, <2>2, <2>3, <2>5, <3>1, <3>2
      DEF RuleInv, OneInv, Made, HasList, NoTemplate, Listed
    <3>4. Shape' /\ SourceInv'
      BY <1>1, <3>1 DEF All, Shape, PassInv, SourceInv
    <3>5. QED
      BY <1>1, <1>2, <2>3, <3>1, <3>3, <3>4
         DEF PassInv, Busy, CommonFileInv, ScanInv, SplitInv, FillInv, DoneInv
  <2>6. QED
    BY <2>4, <2>5
<1>5. QED
  BY <1>3, <1>4

LEMMA FillPieceInv ==
  ASSUME All, FillPiece
  PROVE  Shape' /\ PassInv'
<1> DEFINE list == worker.inst.list
           k == worker.k
           f == <<"tf", k>>
<1>1. /\ At("fill") /\ k <= Len(list) /\ UNCHANGED <<rules, bucket, spec, edits, local>>
      /\ \/ worker' = Idle /\ dir' = dir
         \/ /\ worker' = NextItem
            /\ dir' = IF list[k] \notin Objects THEN dir
                      ELSE [dir EXCEPT ![f] = Fill(dir[f], <<k>>)]
  BY DEF FillPiece, Try, GiveUp, IndexedResourceFile
<1>2. worker \in Task /\ worker.pc = "fill" /\ boot = "serving" /\ boot' = boot
      /\ registry' = registry
  BY <1>1, AtIs DEF All, Phases, rules, memory
<1>3. CASE worker' = Idle /\ dir' = dir
  BY <1>1, <1>3, GiveUpInv
<1>4. CASE worker' = NextItem /\ dir' = IF list[k] \notin Objects THEN dir
                                        ELSE [dir EXCEPT ![f] = Fill(dir[f], <<k>>)]
  <2>1. /\ list # NoList /\ NoTemplate /\ dir[CommonSource] = CommonText
        /\ \A h \in Handler : h.each /\ Checked(h, list) /\ FilledTo(h, k)
    BY <1>2 DEF All, PassInv, FillInv, CommonFileInv
  <2>2. /\ DOMAIN list = 1 .. Len(list) /\ Len(list) \in Nat /\ Len(list) <= MaxItems
        /\ k \in Nat \ {0} /\ MaxItems \in Nat
    BY <1>2, <2>1, ItemIs, ScenariosAssumption
  <2>3. /\ NextItem \in Task /\ NextItem.pc = "fill" /\ NextItem.k = k + 1
        /\ NextItem.inst = worker.inst
    BY <1>1, <1>2, <2>1, NextItemIs
  <2>4. /\ DOMAIN dir = Files
        /\ Source \in Files /\ CommonSource \in Files /\ Whole \in Files
        /\ \A i \in DOMAIN list : <<"tf", i>> \in Files
        /\ f \in Files /\ f # Source /\ f # CommonSource /\ f # Whole /\ f # <<"tmpl", 0>>
        /\ \A i \in DOMAIN list : i # k => <<"tf", i>> # f
    BY <1>1, <2>2, FilesApart DEF All, Shape
  <2>5. Tmpl => <<"tmpl", 0>> \in Files
    BY FilesApart
  <2> HIDE DEF list, k, f
  <2>6. /\ DOMAIN dir' = Files /\ dir'[Source] = dir[Source] /\ dir'[Whole] = dir[Whole]
        /\ dir'[CommonSource] = CommonText
        /\ Tmpl => dir'[<<"tmpl", 0>>] = dir[<<"tmpl", 0>>]
        /\ dir'[f] = IF list[k] \in Objects THEN Fill(dir[f], <<k>>) ELSE dir[f]
        /\ \A i \in DOMAIN list : i # k => dir'[<<"tf", i>>] = dir[<<"tf", i>>]
    BY <1>4, <2>1, <2>4, <2>5
  <2>7. Handler' = Handler
    BY <1>2, <1>4, <2>3 DEF Handler
  <2>8. ASSUME NEW h \in Handler PROVE FilledTo(h, worker.k)'
    <3>1. CASE Splits(local)
      <4>1. \A i \in DOMAIN list : list[i] # Null =>
              dir[<<"tf", i>>] = IF i < k THEN Finished(h, i) ELSE Piece(local, list, i)
        BY <2>1, <3>1 DEF FilledTo, Listed, list
      <4>2. h.each
        BY <2>1
      <4>3. \A i \in DOMAIN list : Finished(h, i)' = Finished(h, i)
        BY <1>1, <1>4, <2>3 DEF Finished, Listed
      <4>4. Finished(h, k) = IF list[k] \in Objects THEN Fill(Piece(local, list, k), <<k>>)
                             ELSE Piece(local, list, k)
        BY <4>2 DEF Finished, Listed, list
      <4>5. ASSUME NEW i \in DOMAIN list, list[i] # Null
            PROVE  dir'[<<"tf", i>>] = IF i < k + 1 THEN Finished(h, i)
                                       ELSE Piece(local, list, i)
        <5>1. CASE i = k
          <6>1. dir[f] = Piece(local, list, k) /\ k < k + 1
            BY <2>2, <4>1, <4>5, <5>1 DEF f
          <6>2. QED
            BY <2>6, <4>4, <5>1, <6>1 DEF f
        <5>2. CASE i # k
          <6>1. (i < k + 1) <=> (i < k)
            BY <2>2, <5>2
          <6>2. QED
            BY <2>6, <4>1, <4>5, <5>2, <6>1
        <5>3. QED
          BY <5>1, <5>2
      <4>6. worker'.inst.list = list /\ worker'.k = k + 1 /\ Splits(local)'
        BY <1>1, <1>4, <2>3, <3>1 DEF list
      <4>7. QED
        BY <1>1, <4>3, <4>5, <4>6 DEF FilledTo, Listed
    <3>2. CASE ~Splits(local)
      BY <1>1, <1>4, <2>1, <2>3, <2>6, <3>2 DEF FilledTo
    <3>3. QED
      BY <3>1, <3>2
  <2>9. FillInv'
    <3>1. NoTemplate'
      BY <2>1, <2>6 DEF NoTemplate
    <3>2. worker' = NextItem /\ worker'.k = k + 1 /\ worker'.inst.list = list
      BY <1>4, <2>3 DEF list
    <3>3. \A h \in Handler : Checked(h, worker.inst.list)'
      BY <2>1, <3>2 DEF Checked, list
    <3>4. QED
      BY <2>1, <2>7, <2>8, <3>1, <3>2, <3>3 DEF FillInv
  <2>10. Shape' /\ SourceInv'
    BY <1>1, <1>4, <2>3, <2>6 DEF All, Shape, PassInv, SourceInv
  <2>11. QED
    BY <1>1, <1>2, <1>4, <2>3, <2>6, <2>9, <2>10
       DEF PassInv, Busy, CommonFileInv, ScanInv, SplitInv, RuleInv, OneInv, DoneInv
<1>5. QED
  BY <1>1, <1>3, <1>4

LEMMA FillDoneInv ==
  ASSUME All, FillDone
  PROVE  Shape' /\ PassInv'
<1> DEFINE list == worker.inst.list
<1>1. /\ At("fill") /\ worker.k > Len(list) /\ UNCHANGED <<rules, bucket, spec, edits, local>>
      /\ worker' = GoTo("common") /\ dir' = dir
  BY DEF FillDone, Try
<1>2. worker \in Task /\ worker.pc = "fill" /\ boot = "serving" /\ boot' = boot
      /\ registry' = registry
  BY <1>1, AtIs DEF All, Phases, rules, memory
<1>3. /\ list # NoList /\ NoTemplate /\ dir[CommonSource] = CommonText
      /\ \A h \in Handler : h.each /\ FilledTo(h, worker.k)
  BY <1>2 DEF All, PassInv, FillInv, CommonFileInv
<1>4. /\ DOMAIN list = 1 .. Len(list) /\ Len(list) \in Nat /\ worker.k \in Nat
  BY <1>2, <1>3, ItemIs
<1>5. /\ GoTo("common") \in Task /\ GoTo("common").pc = "common"
      /\ GoTo("common").inst = worker.inst
  BY <1>2, GoToIs DEF Phases
<1>6. \A i \in DOMAIN list : i < worker.k
  BY <1>1, <1>4
<1>7. Filled
  BY <1>3, <1>6 DEF Filled, FilledTo
<1>8. Handler' = Handler /\ worker'.inst = worker.inst
  BY <1>1, <1>2, <1>5 DEF Handler
<1>9. HasList' /\ Filled' /\ NoTemplate'
  <2>1. HasList' /\ NoTemplate'
    BY <1>1, <1>3, <1>8 DEF HasList, NoTemplate
  <2>2. Filled'
    BY <1>1, <1>7, <1>8 DEF Filled, Finished, Listed
  <2>3. QED
    BY <2>1, <2>2
<1>10. Shape' /\ SourceInv'
  BY <1>1, <1>5 DEF All, Shape, PassInv, SourceInv
<1>11. QED
  BY <1>1, <1>2, <1>3, <1>5, <1>9, <1>10
     DEF PassInv, Busy, CommonFileInv, ScanInv, SplitInv, RuleInv, FillInv, OneInv, DoneInv

LEMMA FillWholeInv ==
  ASSUME All, FillWhole
  PROVE  Shape' /\ PassInv'
<1> DEFINE list == worker.inst.list
<1>1. /\ At("fill one") /\ UNCHANGED <<rules, bucket, spec, edits, local>>
      /\ \/ worker' = Idle /\ dir' = dir
         \/ /\ worker' = GoTo("common") /\ dir[Whole] # NoFile
            /\ dir' = [dir EXCEPT ![Whole] = Fill(dir[Whole], <<>>)]
  BY DEF FillWhole, Try, GiveUp
<1>2. worker \in Task /\ worker.pc = "fill one" /\ boot = "serving" /\ boot' = boot
      /\ registry' = registry
  BY <1>1, AtIs DEF All, Phases, rules, memory
<1>3. CASE worker' = Idle /\ dir' = dir
  BY <1>1, <1>3, GiveUpInv
<1>4. CASE /\ worker' = GoTo("common") /\ dir[Whole] # NoFile
           /\ dir' = [dir EXCEPT ![Whole] = Fill(dir[Whole], <<>>)]
  <2>1. /\ Made /\ NoTemplate /\ dir[CommonSource] = CommonText
        /\ \A h \in Handler : ~h.each
    BY <1>2 DEF All, PassInv, RuleInv, OneInv, CommonFileInv
  <2>2. /\ GoTo("common") \in Task /\ GoTo("common").pc = "common"
        /\ GoTo("common").inst = worker.inst
    BY <1>2, GoToIs DEF Phases
  <2>3. /\ DOMAIN dir = Files /\ Whole \in Files /\ CommonSource \in Files
        /\ Whole # CommonSource /\ Whole # <<"tmpl", 0>>
        /\ Source \in Files /\ Source = IF Tmpl THEN <<"tmpl", 0>> ELSE Whole
    BY FilesApart DEF All, Shape
  <2>4. /\ DOMAIN dir' = Files /\ dir'[CommonSource] = CommonText
        /\ dir'[Whole] = Fill(dir[Whole], <<>>)
        /\ Tmpl => dir'[<<"tmpl", 0>>] = dir[<<"tmpl", 0>>]
    BY <1>4, <2>1, <2>3
  <2>5. Handler' = Handler /\ worker'.inst = worker.inst
    BY <1>2, <1>4, <2>2 DEF Handler
  <2>6. Filled'
    <3>1. CASE Splits(local)
      <4>1. /\ list # NoList
            /\ \A i \in DOMAIN list :
                 list[i] # Null => dir[<<"tf", i>>] = Piece(local, list, i)
        BY <2>1, <3>1 DEF Made, HasList, Listed
      <4>2. DOMAIN list = 1 .. Len(list) /\ Len(list) \in Nat /\ Len(list) <= MaxItems
        BY <1>2, <4>1, ItemIs
      <4>3. \A i \in DOMAIN list : <<"tf", i>> \in Files /\ <<"tf", i>> # Whole
        <5> TAKE i \in DOMAIN list
        <5>1. i \in 1 .. MaxItems /\ i \in Nat \ {0}
          BY <4>2, ScenariosAssumption
        <5>2. QED
          BY <5>1, FilesApart
      <4>4. \A i \in DOMAIN list : dir'[<<"tf", i>>] = dir[<<"tf", i>>]
        BY <1>4, <2>3, <4>3
      <4>5. \A h \in Handler : \A i \in DOMAIN list : Finished(h, i)' = Piece(local, list, i)
        BY <1>1, <2>1, <2>5 DEF Finished
      <4>6. ASSUME NEW h \in Handler, NEW i \in DOMAIN list, list[i] # Null
            PROVE  dir'[<<"tf", i>>] = Finished(h, i)'
        BY <4>1, <4>4, <4>5, <4>6
      <4>7. Splits(local)'
        BY <1>1, <3>1
      <4>8. QED
        BY <2>5, <4>6, <4>7 DEF Filled, Listed
    <3>2. CASE ~Splits(local)
      BY <1>1, <2>1, <2>4, <2>5, <3>2 DEF Filled, Made
    <3>3. QED
      BY <3>1, <3>2
  <2>7. HasList' /\ NoTemplate'
    BY <1>1, <2>1, <2>4, <2>5 DEF Made, HasList, NoTemplate
  <2>8. SourceInv'
    <3>1. dir'[Source] # NoFile => dir[Source] # NoFile
      BY <1>4, <2>3, <2>4
    <3>2. QED
      BY <1>1, <3>1 DEF All, PassInv, SourceInv
  <2>9. Shape'
    BY <1>1, <1>4, <2>2, <2>4 DEF All, Shape
  <2>10. QED
    BY <1>1, <1>2, <1>4, <2>2, <2>4, <2>6, <2>7, <2>8, <2>9
       DEF PassInv, Busy, CommonFileInv, ScanInv, SplitInv, RuleInv, FillInv, OneInv, DoneInv
<1>5. QED
  BY <1>1, <1>3, <1>4

\* The common file is none of those the rule has filled.
LEMMA StillFilled ==
  ASSUME All, worker \in Task, worker.pc \in {"common", "rename"},
         worker'.inst = worker.inst, UNCHANGED <<rules, local>>,
         \A f \in Files \ {CommonSource, CommonFile} : dir'[f] = dir[f]
  PROVE  HasList' /\ Filled' /\ NoTemplate' /\ SourceInv'
<1> DEFINE list == worker.inst.list
<1>1. HasList /\ Filled /\ NoTemplate
  BY DEF All, PassInv, DoneInv
<1>2. Handler' = Handler
  BY DEF Handler, rules, memory
<1>3. /\ Whole \in Files /\ Whole \notin {CommonSource, CommonFile}
      /\ Source \in Files /\ Source \notin {CommonSource, CommonFile}
      /\ Tmpl => <<"tmpl", 0>> \in Files \ {CommonSource, CommonFile}
  BY FilesApart
<1>4. ASSUME Splits(local), NEW h \in Handler
      PROVE  \A i \in DOMAIN list : list[i] # Null => dir'[<<"tf", i>>] = Finished(h, i)'
  <2>1. \A i \in DOMAIN list : list[i] # Null => dir[<<"tf", i>>] = Finished(h, i)
    BY <1>1, <1>4 DEF Filled, Listed
  <2>2. DOMAIN list = 1 .. Len(list) /\ Len(list) \in Nat /\ Len(list) <= MaxItems
    BY <1>1, <1>4, ItemIs DEF HasList
  <2>3. \A i \in DOMAIN list : <<"tf", i>> \in Files \ {CommonSource, CommonFile}
    <3> TAKE i \in DOMAIN list
    <3>1. i \in 1 .. MaxItems /\ i \in Nat \ {0}
      BY <2>2, ScenariosAssumption
    <3>2. QED
      BY <3>1, FilesApart
  <2>4. \A i \in DOMAIN list : Finished(h, i)' = Finished(h, i)
    BY DEF Finished, Listed
  <2>5. QED
    BY <2>1, <2>3, <2>4
<1>5. Filled'
  BY <1>1, <1>2, <1>3, <1>4 DEF Filled, Listed
<1>6. QED
  BY <1>1, <1>3, <1>5 DEF HasList, NoTemplate, SourceInv, All, PassInv

LEMMA FillCommonInv ==
  ASSUME All, FillCommon
  PROVE  Shape' /\ PassInv'
<1>1. /\ At("common") /\ UNCHANGED <<rules, bucket, spec, edits, local>>
      /\ worker' = GoTo("rename")
      /\ dir' = [dir EXCEPT ![CommonSource] = Fill(dir[CommonSource], <<>>)]
  BY DEF FillCommon, Try
<1>2. worker \in Task /\ worker.pc = "common" /\ boot = "serving" /\ boot' = boot
  BY <1>1, AtIs DEF All, Phases, rules, memory
<1>3. /\ GoTo("rename") \in Task /\ GoTo("rename").pc = "rename"
      /\ GoTo("rename").inst = worker.inst
  BY <1>2, GoToIs DEF Phases
<1>4. dir[CommonSource] = CommonText /\ DOMAIN dir = Files /\ CommonSource \in Files
  BY <1>2, FilesApart DEF All, PassInv, CommonFileInv, Shape
<1>5. /\ DOMAIN dir' = Files /\ dir'[CommonSource] = Fill(CommonText, <<>>)
      /\ \A f \in Files \ {CommonSource, CommonFile} : dir'[f] = dir[f]
  BY <1>1, <1>4
<1>6. HasList' /\ Filled' /\ NoTemplate' /\ SourceInv'
  BY <1>1, <1>2, <1>3, <1>5, StillFilled
<1>7. Shape'
  BY <1>1, <1>3, <1>5 DEF All, Shape
<1>8. QED
  BY <1>1, <1>2, <1>3, <1>5, <1>6, <1>7
     DEF PassInv, Busy, CommonFileInv, ScanInv, SplitInv, RuleInv, FillInv, OneInv, DoneInv

LEMMA RenameCommonInv ==
  ASSUME All, RenameCommon
  PROVE  Shape' /\ PassInv'
<1>1. /\ At("rename") /\ UNCHANGED <<rules, bucket, spec, edits, local>>
      /\ worker' = GoTo("tofu")
      /\ dir' = [f \in Files |-> IF f = CommonFile THEN dir[CommonSource]
                                 ELSE IF f = CommonSource THEN NoFile ELSE dir[f]]
  BY DEF RenameCommon, Try
<1>2. worker \in Task /\ worker.pc = "rename" /\ boot = "serving" /\ boot' = boot
  BY <1>1, AtIs DEF All, Phases, rules, memory
<1>3. /\ GoTo("tofu") \in Task /\ GoTo("tofu").pc = "tofu"
      /\ GoTo("tofu").inst = worker.inst
  BY <1>2, GoToIs DEF Phases
<1>4. dir[CommonSource] = Fill(CommonText, <<>>) /\ CommonFile \in Files
  BY <1>2, FilesApart DEF All, PassInv, CommonFileInv
<1>5. /\ DOMAIN dir' = Files /\ dir'[CommonFile] = Fill(CommonText, <<>>)
      /\ \A f \in Files \ {CommonSource, CommonFile} : dir'[f] = dir[f]
  BY <1>1, <1>4
<1>6. HasList' /\ Filled' /\ NoTemplate' /\ SourceInv'
  BY <1>1, <1>2, <1>3, <1>5, StillFilled
<1>7. Shape'
  BY <1>1, <1>3, <1>5 DEF All, Shape
<1>8. QED
  BY <1>1, <1>2, <1>3, <1>5, <1>6, <1>7
     DEF PassInv, Busy, CommonFileInv, ScanInv, SplitInv, RuleInv, FillInv, OneInv, DoneInv

\* A crash leaves the directory or takes it; the pass is gone in any case.
LEMMA CrashInv ==
  ASSUME All, Crash
  PROVE  Shape' /\ PassInv'
<1>1. /\ worker' = Idle /\ UNCHANGED <<bucket, spec, edits>>
      /\ \/ local' = local /\ dir' = dir
         \/ local' = NoFile /\ dir' = [f \in Files |-> NoFile]
  BY DEF Crash
<1>2. Shape'
  BY <1>1 DEF All, Shape
<1>3. SourceInv'
  BY <1>1, FilesApart DEF All, PassInv, SourceInv
<1>4. QED
  BY <1>1, <1>2, <1>3, ToIdle

-----------------------------------------------------------------------------
LEMMA InitAll == Init => All
<1> SUFFICES ASSUME Init PROVE All
  OBVIOUS
<1>1. PICK s \in Scenarios : bucket = s.template /\ spec = s.spec /\ edits = s.edits
  BY DEF Init
<1>2. Shape
  BY <1>1, ScenariosAssumption DEF Init, Shape
<1>3. RulesInit
  BY DEF Init
<1>4. Inv
  <2>1. boot = "down" /\ RulesTypeOK
    BY <1>3, InitTyped DEF RulesInit
  <2>2. QED
    BY <2>1 DEF Inv, RulesInv, CommonInv, ApartInv, MergeDecides
<1>5. SourceInv
  BY FilesApart DEF Init, SourceInv
<1>6. worker = Idle
  BY DEF Init
<1>7. PassInv
  BY <1>5, <1>6
     DEF PassInv, Busy, CommonFileInv, ScanInv, SplitInv, RuleInv, FillInv, OneInv, DoneInv,
         Idle
<1>8. QED
  BY <1>2, <1>4, <1>7 DEF All

\* The variables of OperatorRules take its steps.
LEMMA RulesStep == [Next]_vars => [RulesNext]_allVars
<1> SUFFICES ASSUME [Next]_vars PROVE [RulesNext]_allVars
  OBVIOUS
<1>1. CASE LoadRules
  BY <1>1 DEF LoadRules, RulesNext
<1>2. CASE EditRules
  BY <1>2 DEF EditRules, RulesNext, Edit
<1>3. CASE Crash
  BY <1>3 DEF Crash, RulesNext
<1>4. CASE (\E s \in Specs : EditSpec(s)) \/ Pass \/ CallFails \/ DownloadBreaks
  <2>1. rules' = rules
    BY <1>4 DEF EditSpec, Pass, CallFails, DownloadBreaks, Begin, Download, Copy, NothingToScan,
         ScanSplit, SplitWrite, SplitDone, WriteWhole, Validate, FillPiece, FillDone,
         FillWhole, FillCommon, RenameCommon, Tofu, Try
  <2>2. QED
    BY <2>1 DEF rules, allVars
<1>5. CASE UNCHANGED vars
  BY <1>5 DEF vars, rules, allVars
<1>6. QED
  BY <1>1, <1>2, <1>3, <1>4, <1>5 DEF Next, Users, Faults

LEMMA StepAll == All /\ [Next]_vars => All'
<1> SUFFICES ASSUME All, [Next]_vars PROVE All'
  OBVIOUS
<1>1. Inv'
  BY RulesStep, StepInv DEF All
<1>2. CASE LoadRules \/ (\E s \in Specs : EditSpec(s)) \/ EditRules \/ UNCHANGED vars
  <2>1. UNCHANGED <<bucket, local, dir, worker>>
    BY <1>2 DEF LoadRules, EditSpec, EditRules, vars
  <2>2. worker # Idle => boot' = boot /\ registry' = registry
    <3>1. worker # Idle => boot = "serving"
      BY DEF All, PassInv, Busy
    <3>2. CASE LoadRules
      BY <3>1, <3>2
         DEF LoadRules, Load, List, Register, Panic, LoadConfig, SkipSource, MergeSource,
             RejectSource
    <3>3. CASE (\E s \in Specs : EditSpec(s)) \/ EditRules \/ UNCHANGED vars
      BY <3>3 DEF EditSpec, EditRules, EditSource, vars, rules, memory
    <3>4. QED
      BY <1>2, <3>2, <3>3
  <2>3. spec' \in ConfigSpec /\ edits' \in Nat
    BY <1>2, ScenariosAssumption DEF LoadRules, EditSpec, EditRules, vars, All, Shape
  <2>4. Shape'
    BY <2>1, <2>3 DEF All, Shape
  <2>5. PassInv'
    BY <2>1, <2>2, Quiet DEF All
  <2>6. QED
    BY <1>1, <2>4, <2>5 DEF All
<1>3. CASE CallFails \/ NothingToScan \/ Tofu
  <2>1. worker' = Idle /\ dir' = dir /\ UNCHANGED <<rules, bucket, spec, edits, local>>
    BY <1>3 DEF CallFails, NothingToScan, Tofu, Try, GiveUp
  <2>2. QED
    BY <1>1, <2>1, GiveUpInv DEF All
<1>4. CASE Begin \/ Download \/ DownloadBreaks \/ Copy
  BY <1>1, <1>4, BeginInv, DownloadInv, CopyInv DEF All
<1>5. CASE ScanSplit \/ SplitWrite \/ SplitDone \/ WriteWhole
  BY <1>1, <1>5, ScanSplitInv, SplitWriteInv, SplitDoneInv, WriteWholeInv DEF All
<1>6. CASE Validate \/ FillPiece \/ FillDone \/ FillWhole
  BY <1>1, <1>6, ValidateInv, FillPieceInv, FillDoneInv, FillWholeInv DEF All
<1>7. CASE FillCommon \/ RenameCommon \/ Crash
  BY <1>1, <1>7, FillCommonInv, RenameCommonInv, CrashInv DEF All
<1>8. QED
  BY <1>2, <1>3, <1>4, <1>5, <1>6, <1>7 DEF Next, Users, Pass, Faults

\* The inductive invariant holds of every pass.
THEOREM AllCorrect == Spec => []All
BY InitAll, StepAll, PTL DEF Spec

-----------------------------------------------------------------------------
\* Every variable holds a value of its kind, and a pass knows every file it writes.
THEOREM TypeCorrect == Spec => []TypeOK
<1>1. All => TypeOK
  BY DEF All, Inv, Shape, TypeOK
<1>2. QED
  BY <1>1, AllCorrect, PTL

\* The merge of the rules decides by content also while passes run and the users
\* edit (main.go:190-221).
THEOREM DecidesBesidePasses == Spec => []MergeDecides
<1>1. All => MergeDecides
  BY DEF All, Inv
<1>2. QED
  BY <1>1, AllCorrect, PTL

\* Whatever template is in the bucket, its loops are found as they are nested
\* (smart_nested_process.go:141).
THEOREM LoopsCorrect == Spec => []LoopsMatch
<1>1. All => LoopsMatch
  BY LoopsFound DEF All, Shape, LoopsMatch
<1>2. QED
  BY <1>1, AllCorrect, PTL

\* Before OpenTofu starts, every file of the spec is made anew from the template and
\* filled, and no template is left (send_terraform_request.go, rule_config_driven.go).
THEOREM ReadyIsWholeCorrect == Spec => []ReadyIsWhole
<1>1. All => ReadyIsWhole
  <2> SUFFICES ASSUME All, Ready PROVE ReadyIsWhole
    BY DEF ReadyIsWhole
  <2>1. worker.pc = "tofu"
    BY DEF Ready, At
  <2>2. Filled /\ NoTemplate /\ dir[CommonFile] = Fill(CommonText, <<>>)
    BY <2>1 DEF All, PassInv, DoneInv, CommonFileInv
  <2>3. QED
    BY <2>2 DEF ReadyIsWhole, Filled, NoTemplate
<1>2. QED
  BY <1>1, AllCorrect, PTL

\* While an item of the pass is not valid under its rule, the rule fills no file
\* ("Se anche uno solo non va bene, non scriviamo NESSUN file",
\* rule_config_driven.go:250).
THEOREM NothingFilledInvalidCorrect == Spec => NothingFilledInvalid
<1>1. ASSUME All, At("fill") \/ At("fill one"), NEW h \in Handler, h.each, h.checks,
             NEW i \in DOMAIN worker.inst.list
      PROVE  Listed(i) \notin Objects \ Valid
  <2>1. CASE worker.pc = "fill one"
    BY <1>1, <2>1 DEF All, PassInv, OneInv
  <2>2. CASE worker.pc = "fill"
    <3>1. worker.inst.list # NoList /\ Checked(h, worker.inst.list)
      BY <1>1, <2>2 DEF All, PassInv, FillInv
    <3>2. Listed(i) \in Objects => Listed(i) \in Valid
      BY <1>1, <3>1 DEF Checked, Listed
    <3>3. QED
      BY <3>2
  <2>3. QED
    BY <1>1, <2>1, <2>2 DEF At
<1>2. All => ((At("fill") \/ At("fill one")) /\ dir' # dir
                => \A h \in Handler : h.each /\ h.checks =>
                     \A i \in DOMAIN worker.inst.list : Listed(i) \notin Objects \ Valid)
  BY <1>1
<1>3. QED
  BY <1>2, AllCorrect, PTL DEF NothingFilledInvalid

-----------------------------------------------------------------------------
(* No tag is left open.                                                    *)

\* The phases in which the files of the template are made.
Later == {"rule", "fill", "fill one", "common", "rename", "tofu"}

Rendered ==
  IF Splits(local)
  THEN \A i \in DOMAIN worker.inst.list :
         Listed(i) # Null => Piece(local, worker.inst.list, i) # Failed
  ELSE Expand[<<local, Root(worker.inst.list)>>] # Failed

\* What a pass has made was made of a text, and is no error.
RenderedInv ==
  /\ worker.pc \in Later \cup {"split"} => local # NoFile
  /\ worker.pc = "split" =>
       \A i \in DOMAIN worker.inst.list :
         i < worker.k /\ Listed(i) # Null => Piece(local, worker.inst.list, i) # Failed
  /\ worker.pc \in Later => Rendered

LEMMA NotRendering ==
  ASSUME worker'.pc \notin Later \cup {"split"}
  PROVE  RenderedInv'
BY DEF RenderedInv

LEMMA StillRendered ==
  ASSUME RenderedInv, worker.pc \in Later, worker'.inst = worker.inst, local' = local,
         worker'.pc # "split"
  PROVE  RenderedInv'
BY DEF RenderedInv, Rendered, Listed, Later

LEMMA StepRendered == All /\ RenderedInv /\ [Next]_vars => RenderedInv'
<1> SUFFICES ASSUME All, RenderedInv, [Next]_vars PROVE RenderedInv'
  OBVIOUS
<1>1. \A w : w = Idle => w.pc \notin Later \cup {"split"}
  BY DEF Idle, Later
<1>2. CASE worker' = Idle
  BY <1>1, <1>2, NotRendering
<1>3. CASE worker' = worker /\ local' = local
  BY <1>3 DEF RenderedInv, Rendered, Listed
<1>4. CASE Begin
  BY <1>4, NotRendering DEF Begin, Later
<1>5. CASE Download \/ DownloadBreaks \/ Copy
  <2>1. worker' = GoTo("copy") \/ worker' = GoTo("scan")
    BY <1>5 DEF Download, DownloadBreaks, Copy
  <2>2. worker \in Task
    BY <1>5, AtIs DEF Download, DownloadBreaks, Copy, All, Phases
  <2>3. GoTo("copy").pc = "copy" /\ GoTo("scan").pc = "scan"
    BY <2>2, GoToIs DEF Phases
  <2>4. QED
    BY <2>1, <2>3, NotRendering DEF Later
<1>6. CASE ScanSplit /\ worker' # Idle
  <2>1. /\ At("scan") /\ dir[Source] # NoFile /\ local' = local /\ worker' = GoTo("split")
        /\ Resolve(Root(worker.inst.list), FindTopLevelLoops(local)[1].tag) # NoList
    BY <1>6 DEF ScanSplit, Scanning, Try, GiveUp
  <2>2. worker \in Task /\ worker.inst.list # NoList /\ local # NoFile
    BY <2>1, AtIs DEF All, Phases, PassInv, SourceInv, Resolve, Root
  <2>3. /\ GoTo("split").pc = "split" /\ GoTo("split").k = 1
        /\ GoTo("split").inst = worker.inst
    BY <2>2, GoToIs DEF Phases
  <2>4. \A i \in DOMAIN worker.inst.list : ~(i < 1)
    BY <2>2, ItemIs
  <2>5. QED
    BY <2>1, <2>2, <2>3, <2>4 DEF RenderedInv, Later
<1>7. CASE SplitWrite /\ worker' # Idle
  <2> DEFINE list == worker.inst.list
             k == worker.k
  <2>1. /\ At("split") /\ k <= Len(list) /\ worker' = NextItem /\ local' = local
        /\ list[k] = Null \/ Piece(local, list, k) # Failed
    BY <1>7 DEF SplitWrite, Try, GiveUp
  <2>2. worker \in Task /\ worker.pc = "split" /\ list # NoList
    BY <2>1, AtIs DEF All, Phases, PassInv, SplitInv, Pieces
  <2>3. /\ NextItem.pc = "split" /\ NextItem.k = k + 1 /\ NextItem.inst = worker.inst
        /\ k \in Nat /\ DOMAIN list = 1 .. Len(list) /\ Len(list) \in Nat
    BY <2>1, <2>2, NextItemIs, ItemIs
  <2>4. local # NoFile /\ \A i \in DOMAIN list :
                            i < k /\ list[i] # Null => Piece(local, list, i) # Failed
    BY <2>2 DEF RenderedInv, Listed
  <2> HIDE DEF list, k
  <2>5. \A i \in DOMAIN list : i < k + 1 /\ list[i] # Null => Piece(local, list, i) # Failed
    BY <2>1, <2>3, <2>4
  <2>6. QED
    BY <2>1, <2>3, <2>4, <2>5 DEF RenderedInv, Later, Listed, list
<1>8. CASE SplitDone
  <2> DEFINE list == worker.inst.list
  <2>1. At("split") /\ worker.k > Len(list) /\ worker' = GoTo("rule") /\ local' = local
    BY <1>8 DEF SplitDone, Try
  <2>2. worker \in Task /\ worker.pc = "split" /\ list # NoList /\ Splits(local)
    BY <2>1, AtIs DEF All, Phases, PassInv, SplitInv, Pieces
  <2>3. /\ GoTo("rule").pc = "rule" /\ GoTo("rule").inst = worker.inst
        /\ worker.k \in Nat /\ DOMAIN list = 1 .. Len(list) /\ Len(list) \in Nat
    BY <2>2, GoToIs, ItemIs DEF Phases
  <2>4. \A i \in DOMAIN list : i < worker.k
    BY <2>1, <2>3
  <2>5. local # NoFile /\ Rendered
    BY <2>2, <2>4 DEF RenderedInv, Rendered
  <2>6. QED
    BY <2>1, <2>3, <2>5 DEF RenderedInv, Rendered, Later, Listed
<1>9. CASE WriteWhole /\ worker' # Idle
  <2>1. /\ At("scan") /\ dir[Source] # NoFile /\ local' = local /\ worker' = GoTo("rule")
        /\ ~Splits(local) /\ Expand[<<local, Root(worker.inst.list)>>] # Failed
    BY <1>9 DEF WriteWhole, Scanning, Try, GiveUp
  <2>2. worker \in Task /\ local # NoFile
    BY <2>1, AtIs DEF All, Phases, PassInv, SourceInv
  <2>3. GoTo("rule").pc = "rule" /\ GoTo("rule").inst = worker.inst
    BY <2>2, GoToIs DEF Phases
  <2>4. QED
    BY <2>1, <2>2, <2>3 DEF RenderedInv, Rendered, Later
<1>10. CASE Validate /\ worker' # Idle
  <2>1. /\ At("rule") /\ local' = local
        /\ worker' = GoTo("fill") \/ worker' = GoTo("fill one")
    <3>1. PICK h \in Handler : worker' = GoTo(IF h.each THEN "fill" ELSE "fill one")
      BY <1>10 DEF Validate, Try, GiveUp
    <3>2. QED
      BY <1>10, <3>1 DEF Validate, Try
  <2>2. worker \in Task /\ worker.pc = "rule"
    BY <2>1, AtIs DEF All, Phases
  <2>3. /\ GoTo("fill").pc = "fill" /\ GoTo("fill").inst = worker.inst
        /\ GoTo("fill one").pc = "fill one" /\ GoTo("fill one").inst = worker.inst
    BY <2>2, GoToIs DEF Phases
  <2>4. QED
    BY <2>1, <2>2, <2>3, StillRendered DEF Later
<1>11. CASE FillPiece /\ worker' # Idle
  <2>1. /\ At("fill") /\ local' = local /\ worker' = NextItem
        /\ worker.k <= Len(worker.inst.list)
    BY <1>11 DEF FillPiece, Try, GiveUp
  <2>2. worker \in Task /\ worker.pc = "fill" /\ worker.inst.list # NoList
    BY <2>1, AtIs DEF All, Phases, PassInv, FillInv
  <2>3. NextItem.pc = "fill" /\ NextItem.inst = worker.inst
    BY <2>1, <2>2, NextItemIs
  <2>4. QED
    BY <2>1, <2>2, <2>3, StillRendered DEF Later
<1>12. CASE (FillDone \/ FillWhole \/ FillCommon \/ RenameCommon) /\ worker' # Idle
  <2>1. /\ At("fill") \/ At("fill one") \/ At("common") \/ At("rename")
        /\ local' = local
        /\ worker' = GoTo("common") \/ worker' = GoTo("rename") \/ worker' = GoTo("tofu")
    BY <1>12 DEF FillDone, FillWhole, FillCommon, RenameCommon, Try, GiveUp
  <2>2. worker \in Task /\ worker.pc \in {"fill", "fill one", "common", "rename"}
    BY <2>1, AtIs DEF All, Phases
  <2>3. /\ GoTo("common").pc = "common" /\ GoTo("common").inst = worker.inst
        /\ GoTo("rename").pc = "rename" /\ GoTo("rename").inst = worker.inst
        /\ GoTo("tofu").pc = "tofu" /\ GoTo("tofu").inst = worker.inst
    BY <2>2, GoToIs DEF Phases
  <2>4. QED
    BY <2>1, <2>2, <2>3, StillRendered DEF Later
<1>13. CASE LoadRules \/ (\E s \in Specs : EditSpec(s)) \/ EditRules \/ UNCHANGED vars
  BY <1>3, <1>13 DEF LoadRules, EditSpec, EditRules, vars
<1>14. CASE CallFails \/ Crash \/ NothingToScan \/ Tofu
  BY <1>2, <1>14 DEF CallFails, Crash, NothingToScan, Tofu, Try, GiveUp
<1>15. QED
  BY <1>2, <1>4, <1>5, <1>6, <1>7, <1>8, <1>9, <1>10, <1>11, <1>12, <1>13, <1>14
     DEF Next, Users, Pass, Faults

LEMMA RenderedCorrect == Spec => []RenderedInv
<1>1. Init => RenderedInv
  BY DEF Init, RenderedInv, Idle, Later
<1>2. QED
  BY <1>1, StepRendered, AllCorrect, PTL DEF Spec

\* What carries one suffix is filled by the rule that looks for this suffix.
LEMMA FillUntags ==
  ASSUME NEW suffix, NEW out \in Seq(Tagged(suffix))
  PROVE  Untagged(Fill(out, suffix))
<1>1. \A n \in DOMAIN out : out[n].kind = "tag" => out[n].suffix = suffix
  BY DEF Tagged
<1>2. Token("text").kind = "text"
  BY DEF Token
<1>3. QED
  BY <1>1, <1>2 DEF Untagged, Fill

\* Engine and rule agree: OpenTofu is started on files in which no tag is left open,
\* for every template that has its tags in the right places, every list and every
\* nesting of loops (rule_helpers.go:43).
THEOREM NoTagLeftCorrect == Spec => []NoTagLeft
<1>1. All /\ RenderedInv => NoTagLeft
  <2> SUFFICES ASSUME All, RenderedInv, Ready, Named(local), NEW h \in Handler
               PROVE  /\ h.each /\ Placed(local, TRUE) =>
                           \A i \in DOMAIN worker.inst.list :
                             Listed(i) \in Objects => Untagged(dir[<<"tf", i>>])
                      /\ ~h.each /\ ~Splits(local) /\ Placed(local, FALSE) =>
                           Untagged(dir[Whole])
    BY DEF NoTagLeft
  <2> DEFINE list == worker.inst.list
             out == Expand[<<local, Root(list)>>]
  <2>1. worker \in Task /\ worker.pc = "tofu"
    BY AtIs DEF Ready, All, Phases
  <2>2. HasList /\ Filled /\ Rendered /\ local \in Texts
    BY <2>1 DEF All, PassInv, DoneInv, RenderedInv, Later, Shape
  <2>3. Root(list) \in Containers
    BY <2>1, ContainersOf DEF Task, ConfigSpec
  <2>4. ASSUME h.each, Placed(local, TRUE), NEW i \in DOMAIN list, list[i] \in Objects
        PROVE  Untagged(dir[<<"tf", i>>])
    <3>1. /\ local # <<>> /\ local[1] = "for"
          /\ \A n \in DOMAIN local : local[n] = "tag" => Around(local, n) = {1}
      BY <2>4 DEF Placed
    <3>2. CASE ~Splits(local)
      <4>1. out # Failed
        BY <2>2, <3>2 DEF Rendered
      <4>2. out = Expansion(Expand, local, Root(list))
        BY <2>2, <2>3, ExpandIs
      <4>3. FindTopLevelLoops(local) # Failed
        BY <4>1, <4>2 DEF Expansion
      <4>4. QED
        BY <2>2, <3>1, <3>2, <4>3, OpensWithLoop
    <3>3. CASE Splits(local)
      <4>1. list \in Seq(Items) /\ list[i] # Null
        BY <2>1, <2>2, <2>4, <3>3, ItemIs, ItemsAssumption DEF HasList
      <4>2. Piece(local, list, i) # Failed
        BY <2>2, <3>3, <4>1 DEF Rendered, Listed
      <4>3. dir[<<"tf", i>>] = Finished(h, i)
        BY <2>2, <3>3, <4>1 DEF Filled, Listed
      <4>4. Finished(h, i) = Fill(Piece(local, list, i), <<i>>)
        BY <2>4 DEF Finished, Listed
      <4> HIDE DEF list
      <4>5. Piece(local, list, i) \in Seq(Tagged(<<i>>)) \cup {Failed}
        BY <2>2, <3>1, <3>3, <4>1, PieceTags
      <4>6. QED
        BY <4>2, <4>3, <4>4, <4>5, FillUntags
    <3>4. QED
      BY <3>2, <3>3
  <2>5. ASSUME ~h.each, ~Splits(local), Placed(local, FALSE)
        PROVE  Untagged(dir[Whole])
    <3>1. Outside(local)
      BY <2>5 DEF Placed, Outside
    <3>2. out \in Seq(Tagged(<<>>)) /\ dir[Whole] = Fill(out, <<>>)
      <4>1. out \in Seq(Tagged(<<>>)) \cup {Failed}
        BY <2>2, <2>3, <3>1, OuterTags
      <4>2. QED
        BY <2>2, <2>5, <4>1 DEF Rendered, Filled
    <3>3. QED
      BY <3>2, FillUntags
  <2>6. QED
    BY <2>4, <2>5 DEF Listed
<1>2. QED
  BY <1>1, AllCorrect, RenderedCorrect, PTL

-----------------------------------------------------------------------------
(* What fits is not refused.                                               *)

\* The template is there for the scan, if there is one at all.
Copied == worker.pc = "scan" /\ local # NoFile => dir[Source] # NoFile

LEMMA StepCopied == All /\ Copied /\ [Next]_vars => Copied'
<1> SUFFICES ASSUME All, Copied, [Next]_vars PROVE Copied'
  OBVIOUS
<1>1. CASE worker' = Idle
  BY <1>1 DEF Copied, Idle
<1>2. CASE UNCHANGED <<local, dir, worker>>
  BY <1>2 DEF Copied
<1>3. CASE Begin
  BY <1>3 DEF Begin, Copied
<1>4. CASE Copy
  <2>1. /\ local' = local
        /\ dir' = [f \in Files |->
                     IF f = CommonSource THEN CommonText
                     ELSE IF f = Source /\ local # NoFile THEN Literal(local)
                     ELSE dir[f]]
    BY <1>4 DEF Copy
  <2>2. local # NoFile => dir'[Source] = Literal(local)
    BY <2>1, FilesApart
  <2>3. local # NoFile => Literal(local) \in Seq(Written)
    BY LiteralTagged, SeqOver DEF All, Shape, Tagged
  <2>4. QED
    BY <2>1, <2>2, <2>3, NoFileAssumption DEF Copied
<1>5. ASSUME NEW q \in Phases \ {"scan"}, worker \in Task, worker' = GoTo(q) PROVE Copied'
  BY <1>5, GoToIs DEF Copied
<1>6. CASE Download \/ DownloadBreaks
  BY <1>5, <1>6, AtIs DEF Download, DownloadBreaks, All, Phases
<1>7. CASE (ScanSplit \/ SplitDone \/ WriteWhole \/ FillDone \/ FillWhole \/ FillCommon
            \/ RenameCommon) /\ worker' # Idle
  <2>1. /\ At("scan") \/ At("split") \/ At("fill") \/ At("fill one") \/ At("common")
           \/ At("rename")
        /\ worker' \in {GoTo("split"), GoTo("rule"), GoTo("common"), GoTo("rename"),
                        GoTo("tofu")}
    BY <1>7 DEF ScanSplit, SplitDone, WriteWhole, FillDone, FillWhole, FillCommon,
                RenameCommon, Scanning, Try, GiveUp
  <2>2. worker \in Task
    BY <2>1, AtIs DEF All, Phases
  <2>3. QED
    BY <1>5, <2>1, <2>2 DEF Phases
<1>8. CASE Validate /\ worker' # Idle
  <2>1. PICK h \in Handler : worker' = GoTo(IF h.each THEN "fill" ELSE "fill one")
    BY <1>8 DEF Validate, Try, GiveUp
  <2>2. worker \in Task
    BY <1>8, AtIs DEF Validate, All, Phases
  <2>3. "fill" \in Phases \ {"scan"} /\ "fill one" \in Phases \ {"scan"}
    BY DEF Phases
  <2>4. worker' = GoTo("fill") \/ worker' = GoTo("fill one")
    BY <2>1
  <2>5. QED
    BY <1>5, <2>2, <2>3, <2>4
<1>9. CASE (SplitWrite \/ FillPiece) /\ worker' # Idle
  <2>1. /\ At("split") \/ At("fill")
        /\ worker' = NextItem /\ worker.k <= Len(worker.inst.list)
    BY <1>9 DEF SplitWrite, FillPiece, Try, GiveUp
  <2>2. worker \in Task /\ worker.pc \in {"split", "fill"} /\ worker.inst.list # NoList
    BY <2>1, AtIs DEF All, Phases, PassInv, SplitInv, FillInv, Pieces
  <2>3. QED
    BY <2>1, <2>2, NextItemIs DEF Copied
<1>10. CASE LoadRules \/ (\E s \in Specs : EditSpec(s)) \/ EditRules \/ UNCHANGED vars
  BY <1>2, <1>10 DEF LoadRules, EditSpec, EditRules, vars
<1>11. CASE CallFails \/ Crash \/ NothingToScan \/ Tofu
  BY <1>1, <1>11 DEF CallFails, Crash, NothingToScan, Tofu, Try, GiveUp
<1>12. QED
  BY <1>1, <1>3, <1>4, <1>6, <1>7, <1>8, <1>9, <1>10, <1>11 DEF Next, Users, Pass, Faults

LEMMA CopiedCorrect == Spec => []Copied
<1>1. Init => Copied
  BY DEF Init, Copied, Idle
<1>2. QED
  BY <1>1, StepCopied, AllCorrect, PTL DEF Spec

\* What the pass has, where it fits.
LEMMA FitsIs ==
  ASSUME All, Fits, worker \in Task
  PROVE  /\ local \in Texts /\ Served(local, worker.inst.list)
         /\ worker.inst.list # NoList /\ worker.inst.list \in Seq(Items)
BY ItemIs DEF Fits, Served, All, Shape

\* Where template, list and rule fit, no step of the engine and of the rule returns an
\* error, whatever an earlier pass has left ("un tag di ciclo
\* che non risolve è quasi certamente un refuso", smart_nested_process.go:274).
THEOREM NeverRefusedCorrect == Spec => NeverRefused
<1> DEFINE list == worker.inst.list
<1>1. ASSUME worker \in Task
      PROVE  NextItem # Idle /\ \A q \in Phases : GoTo(q) # Idle
  <2>1. Idle.pc = "idle" /\ "idle" \notin Phases
    BY DEF Idle, Phases
  <2>2. \A q \in Phases : GoTo(q).pc = q
    BY <1>1, GoToIs
  <2>3. NextItem.pc = worker.pc /\ worker.pc \in Phases
    BY <1>1 DEF NextItem, Task
  <2>4. QED
    BY <2>1, <2>2, <2>3
<1>2. ASSUME All, Copied, Fits, NothingToScan PROVE FALSE
  <2>1. worker.pc = "scan" /\ dir[Source] = NoFile /\ local # NoFile
    BY <1>2 DEF NothingToScan, At, Fits
  <2>2. QED
    BY <1>2, <2>1 DEF Copied
<1>3. ASSUME All, Fits, ScanSplit PROVE worker' # Idle
  <2>1. worker \in Task /\ Splits(local)
    BY <1>3, AtIs DEF ScanSplit, Scanning, All, Phases
  <2>2. /\ Resolve(Root(list), FindTopLevelLoops(local)[1].tag) # NoList
        /\ FindTopLevelLoops(Body(local, FindTopLevelLoops(local)[1])) # Failed
    BY <1>3, <2>1, FitsIs, ServedAccepted
  <2>3. worker' = GoTo("split")
    BY <1>3, <2>2 DEF ScanSplit, Try
  <2>4. QED
    BY <1>1, <2>1, <2>3 DEF Phases
<1>4. ASSUME All, Fits, SplitWrite PROVE worker' # Idle
  <2>1. worker \in Task /\ worker.pc = "split" /\ worker.k <= Len(list)
    BY <1>4, AtIs DEF SplitWrite, All, Phases
  <2>2. Splits(local) /\ worker.k \in DOMAIN list
    BY <1>4, <2>1, FitsIs, ItemIs DEF All, PassInv, SplitInv
  <2>3. list[worker.k] = Null \/ Piece(local, list, worker.k) # Failed
    BY <1>4, <2>1, <2>2, FitsIs, ServedAccepted, WrittenIs
  <2>4. worker' = NextItem
    BY <1>4, <2>3 DEF SplitWrite, Try
  <2>5. QED
    BY <1>1, <2>1, <2>4
<1>5. ASSUME All, Fits, WriteWhole PROVE worker' # Idle
  <2>1. worker \in Task
    BY <1>5, AtIs DEF WriteWhole, Scanning, All, Phases
  <2>2. Expand[<<local, Root(list)>>] # Failed
    BY <1>5, <2>1, FitsIs, ServedAccepted, WrittenIs
  <2>3. worker' = GoTo("rule")
    BY <1>5, <2>2 DEF WriteWhole, Try
  <2>4. QED
    BY <1>1, <2>1, <2>3 DEF Phases
<1>6. ASSUME All, Fits, Validate PROVE worker' # Idle
  <2>1. worker \in Task /\ Handler # {}
    BY <1>6, AtIs DEF Validate, All, Phases, Fits
  <2>2. \A h \in Handler : Checked(h, list) /\ (h.each => list # NoList)
    BY <1>6, <2>1, FitsIs DEF Fits, Checked, Listed
  <2>3. \E h \in Handler : worker' = GoTo(IF h.each THEN "fill" ELSE "fill one")
    BY <1>6, <2>1, <2>2 DEF Validate, Try
  <2>4. QED
    BY <1>1, <2>1, <2>3 DEF Phases
<1>7. ASSUME All, Fits, FillPiece PROVE worker' # Idle
  <2> DEFINE k == worker.k
             f == IndexedResourceFile(k)
  <2>1. worker \in Task /\ worker.pc = "fill" /\ k <= Len(list)
    BY <1>7, AtIs DEF FillPiece, All, Phases
  <2>2. /\ k \in DOMAIN list /\ k \in 1 .. MaxItems /\ ~(k < k)
        /\ f = <<"tf", k>> /\ f \in Files
    <3>1. /\ DOMAIN list = 1 .. Len(list) /\ Len(list) \in Nat /\ Len(list) <= MaxItems
          /\ k \in Nat \ {0} /\ MaxItems \in Nat
      BY <1>7, <2>1, FitsIs, ItemIs, ScenariosAssumption
    <3> HIDE DEF list
    <3>2. k \in DOMAIN list /\ k \in 1 .. MaxItems /\ ~(k < k)
      BY <2>1, <3>1
    <3>3. QED
      BY <3>2, FilesApart DEF IndexedResourceFile
  <2>3. ASSUME list[k] \in Objects PROVE dir[f] # NoFile
    <3>1. list[k] # Null
      BY <2>3, ItemsAssumption
    <3>2. PICK h \in Handler : (h.each <=> Splits(local)) /\ h.each /\ FilledTo(h, k)
      BY <1>7, <2>1 DEF Fits, All, PassInv, FillInv
    <3>3. dir[<<"tf", k>>] = Piece(local, list, k)
      BY <2>2, <3>1, <3>2 DEF FilledTo, Listed
    <3>4. Piece(local, list, k) \in Seq(Written)
      BY <1>7, <2>1, <2>2, <3>1, <3>2, FitsIs, ServedAccepted
    <3>5. QED
      BY <2>2, <3>3, <3>4, NoFileAssumption
  <2>4. worker' = NextItem
    BY <1>7, <2>2, <2>3 DEF FillPiece, Try
  <2>5. QED
    BY <1>1, <2>1, <2>4
<1>8. ASSUME All, Fits, FillWhole PROVE worker' # Idle
  <2>1. worker \in Task /\ worker.pc = "fill one"
    BY <1>8, AtIs DEF FillWhole, All, Phases
  <2>2. ~Splits(local)
    BY <1>8, <2>1 DEF Fits, All, PassInv, OneInv
  <2>3. dir[Whole] = Expand[<<local, Root(list)>>]
    BY <1>8, <2>1, <2>2 DEF All, PassInv, RuleInv, Made
  <2>4. Expand[<<local, Root(list)>>] \in Seq(Written)
    BY <1>8, <2>1, FitsIs, ServedAccepted
  <2>5. worker' = GoTo("common")
    BY <1>8, <2>3, <2>4, NoFileAssumption DEF FillWhole, Try
  <2>6. QED
    BY <1>1, <2>1, <2>5 DEF Phases
<1>9. All /\ Copied =>
        (/\ \/ NothingToScan \/ ScanSplit \/ SplitWrite \/ WriteWhole
            \/ Validate \/ FillPiece \/ FillWhole
         /\ Fits
         => worker' # Idle)
  BY <1>2, <1>3, <1>4, <1>5, <1>6, <1>7, <1>8
<1>10. QED
  BY <1>9, AllCorrect, CopiedCorrect, PTL DEF NeverRefused

=============================================================================
