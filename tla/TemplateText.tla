---------------------------- MODULE TemplateText ----------------------------
(***************************************************************************)
(* The template engine on one text: how loops are found, and what a text   *)
(* becomes for a list (smart_nested_process.go), with the first step of    *)
(* the operator's rule, that fills tags (rule_helpers.go).                 *)
(*                                                                         *)
(* A text is a sequence of tokens; the name of a loop is the token after   *)
(* its "for", <FGT_FOR_STR>.  A placeholder "field" is resolved by the     *)
(* item of the loop it stands in; a "tag" is for the rule to fill, later.  *)
(***************************************************************************)
EXTENDS Integers, Sequences, SequencesExt, FiniteSetsExt

CONSTANTS
  Items,       \* what stands in a list
  Objects,     \* the items that are JSON objects; the others are scalars
  SubLists,    \* SubLists[x]: the list inside the object x, or NoList
  Null,        \* the item null
  NoList,      \* there is no such list
  NoFile,      \* no such file
  Failed       \* the engine returned an error

ASSUME ItemsAssumption ==
  /\ Objects \subseteq Items
  /\ SubLists \in [Objects -> Seq(Items) \cup {NoList}]
  /\ Null \notin Objects

Tokens == {"for", "end", "items", "subs", "field", "tag", "text"}

Texts == Seq(Tokens)

LoopBlock == [tag : Tokens, start : Nat, end : Nat]

\* A token of a file: the item it stands for, or the indices it carries.
Written == [kind : Tokens \cup {"value"}, value : Items \cup {NoFile}, suffix : Seq(Nat)]

\* An error is no result, and no file is no text.
ASSUME FailedAssumption == Failed \notin Seq(LoopBlock) \cup Seq(Written)

ASSUME NoFileAssumption == NoFile \notin Texts \cup Seq(Written)

----------------------------------------------------------------------------
(* findTopLevelLoops.                                                      *)

\* Mutant of Deeper: the first end closes the loop.
Flat(d, token) == IF token = "end" THEN d - 1 ELSE d

Deeper(d, token) ==
  CASE token = "for" -> d + 1 [] token = "end" -> d - 1 [] OTHER -> d

\* The place of the end that closes a loop whose body starts at n, the first at
\* which the count of open loops is 0; 0: none.
LoopEnd(c, n) ==
  LET depth[p \in n - 1 .. Len(c)] ==
        IF p < n THEN 1 ELSE Deeper(depth[p - 1], c[p])
      closing == {p \in n .. Len(c) : depth[p] = 0}
  IN  IF closing = {} THEN 0 ELSE Min(closing)

\* The loops from place p on, if from[q] are those from a later place q on.
LoopsFrom(from, c, p) ==
  LET opens == {j \in p .. Len(c) : c[j] = "for"} IN
  IF opens = {} THEN <<>>
  ELSE LET s == Min(opens) IN
       IF s = Len(c) \/ c[s + 1] = "text" THEN Failed
       ELSE LET e == LoopEnd(c, s + 2) IN
            IF e = 0 \/ from[e + 1] = Failed THEN Failed
            ELSE <<[tag |-> c[s + 1], start |-> s, end |-> e]>> \o from[e + 1]

FindTopLevelLoops(c) ==
  LET from[p \in 1 .. Len(c) + 1] == LoopsFrom(from, c, p) IN from[1]

Body(c, loop) == SubSeq(c, loop.start + 2, loop.end - 1)

After(c, loop) == SubSeq(c, loop.end + 1, Len(c))

----------------------------------------------------------------------------
(* The expansion.  A container is the spec (its list), or an item.         *)

Token(k) == [kind |-> k, value |-> NoFile, suffix |-> <<>>]

Literal(c) == [n \in 1..Len(c) |-> Token(c[n])]

Root(list) == [list |-> list, root |-> TRUE]
Item(x) == [item |-> x, root |-> FALSE]

Containers ==
  [list : Seq(Items) \cup {NoList}, root : {TRUE}] \cup [item : Items, root : {FALSE}]

\* Mutant of Resolve: a list is looked for in the spec alone.
ResolveInSpec(container, tag) ==
  IF container.root /\ tag = "items" THEN container.list ELSE NoList

\* resolveListPath
Resolve(container, tag) ==
  CASE container.root /\ tag = "items" -> container.list
    [] ~container.root /\ tag = "subs" /\ container.item \in Objects ->
         SubLists[container.item]
    [] OTHER -> NoList

\* processVariables: a placeholder becomes the item's value, or gets its index.
Fixed == {"for", "end", "text", "value"}

Substitute(out, x, i) ==
  [n \in DOMAIN out |->
    CASE out[n].kind \in Fixed -> out[n]
      [] out[n].kind = "field" /\ out[n].suffix = <<>> /\ x \in Objects ->
           [kind |-> "value", value |-> x, suffix |-> <<>>]
      [] OTHER -> [out[n] EXCEPT !.suffix = Append(@, i)]]

\* renderBlockBody, for an item: expand[<<c, k>>] is the text c expanded in the
\* container k.
BlockBody(expand, body, x, i) ==
  LET out == expand[<<body, Item(x)>>] IN
  IF out = Failed THEN Failed ELSE Substitute(out, x, i)

\* renderLoop.  A null is left out.
Loop(expand, body, list) ==
  IF list = NoList \/ FindTopLevelLoops(body) = Failed THEN Failed
  ELSE LET kept == {i \in DOMAIN list : list[i] # Null}
           each == [i \in DOMAIN list |->
                      IF i \in kept THEN BlockBody(expand, body, list[i], i) ELSE <<>>]
       IN  IF \E i \in kept : each[i] = Failed THEN Failed ELSE FlattenSeq(each)

\* renderInPlace, and the nested loops of renderBlockBody: the first loop, and
\* what follows it.
Expansion(expand, c, container) ==
  LET loops == FindTopLevelLoops(c) IN
  IF loops = Failed THEN Failed
  ELSE IF loops = <<>> THEN Literal(c)
  ELSE LET l == loops[1]
           mid == Loop(expand, Body(c, l), Resolve(container, l.tag))
           rest == expand[<<After(c, l), container>>]
       IN  IF mid = Failed \/ rest = Failed THEN Failed
           ELSE Literal(SubSeq(c, 1, l.start - 1)) \o mid \o rest

Expand[t \in Texts \X Containers] == Expansion(Expand, t[1], t[2])

RenderBody(body, x, i) == BlockBody(Expand, body, x, i)

\* The template opens with a loop: one file per item (splitIntoFiles).
Splits(c) ==
  LET loops == FindTopLevelLoops(c) IN
  loops # Failed /\ loops # <<>> /\ loops[1].start = 1

\* The file of the i-th item: the loop's body, then what follows the loop.
Piece(c, list, i) ==
  LET l == FindTopLevelLoops(c)[1]
      main == RenderBody(Body(c, l), list[i], i)
      rest == Expand[<<After(c, l), Root(list)>>]
  IN  IF main = Failed \/ rest = Failed THEN Failed ELSE main \o rest

\* applyMods: the rule fills the tags that carry its suffix.
Fill(out, suffix) ==
  [n \in DOMAIN out |-> IF out[n].kind = "tag" /\ out[n].suffix = suffix
                        THEN Token("text") ELSE out[n]]

----------------------------------------------------------------------------
(***************************************************************************)
(* What a template says, by the balance of its tokens alone.               *)
(***************************************************************************)

Count(c, k, i, j) == Cardinality({n \in i..j : n \in DOMAIN c /\ c[n] = k})

Depth(c, i, j) == Count(c, "for", i, j) - Count(c, "end", i, j)

\* Every loop has a name.
Named(c) ==
  \A n \in DOMAIN c : c[n] = "for" => n < Len(c) /\ c[n + 1] \in {"items", "subs"}

\* The places at which the loop that opens at s may close; it closes at the first.
Closings(c, s) == {e \in s..Len(c) : Depth(c, s, e) = 0}

\* The loops that the place n stands in.
Around(c, n) == {r \in 1..n - 1 : c[r] = "for" /\ \A e \in Closings(c, r) : n < e}

\* Loops inside no other loop.
Outermost(c) == {s \in DOMAIN c : c[s] = "for" /\ Around(c, s) = {}}

\* What findTopLevelLoops must find: the loops of the outermost level, each with
\* its own end; it fails only if one of them has none.
Matches(c) ==
  Named(c) =>
    LET open == Outermost(c)
        found == FindTopLevelLoops(c)
    IN  IF \E s \in open : Closings(c, s) = {} THEN found = Failed
        ELSE /\ found # Failed
             /\ Len(found) = Cardinality(open)
             /\ \A n \in DOMAIN found :
                  /\ found[n].start \in open
                  /\ found[n].end = Min(Closings(c, found[n].start))
                  /\ n > 1 => found[n - 1].end < found[n].start

\* The loops of c are closed, no loop stands in d others, and each is named: by
\* top at the outermost level.
WellFormed(c, top, d) ==
  /\ \A n \in 0..Len(c) : Depth(c, 1, n) \in 0..d
  /\ Depth(c, 1, Len(c)) = 0
  /\ \A n \in DOMAIN c : c[n] = "for" =>
       n < Len(c) /\ c[n + 1] = IF Depth(c, 1, n) = 1 THEN top ELSE "subs"

\* The list has what the template asks for: with loops in loops, that each item
\* has a list of its own.
Served(c, list) ==
  /\ list # NoList
  /\ \/ WellFormed(c, "items", 1)
     \/ /\ WellFormed(c, "items", 2)
        /\ \A i \in DOMAIN list :
             list[i] = Null \/ (list[i] \in Objects /\ SubLists[list[i]] # NoList)

=============================================================================
