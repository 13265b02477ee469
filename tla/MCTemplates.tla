----------------------------- MODULE MCTemplates -----------------------------
\* Templates, specs and ConfigMaps for TLC.
EXTENDS Templates, TLC

CONSTANTS fw, nat, vip, stock, own, good, bad, num, leaf

MCRuleNames == {fw, nat, vip, EmptyName}

ForList == [each |-> TRUE, checks |-> TRUE]
ForOne == [each |-> FALSE, checks |-> FALSE]

MCHandlers == {ForList, ForOne}

Says(r, c) == [rules |-> r, common |-> c]

\* Two rules in one ConfigMap, one in another, contradictions, mistakes.
MCContents ==
  {NoRule, Malformed,
   Says({<<fw, ForList>>, <<nat, ForOne>>}, None),
   Says({<<fw, ForOne>>}, own),
   Says({<<vip, ForOne>>}, own),
   Says({<<EmptyName, ForOne>>}, None)}

\* What every scenario but those of the merge starts with.
InOrder ==
  CHOOSE m \in [Sources -> MCContents] :
    /\ \E s \in Sources : m[s] = Says({<<fw, ForList>>, <<nat, ForOne>>}, None)
    /\ \E s \in Sources : m[s] = Says({<<vip, ForOne>>}, own)

MCSubLists ==
  (good :> <<leaf, leaf>>) @@ (bad :> NoList) @@ (leaf :> NoList)

Spec2(r, l) == [rule |-> r, list |-> l]

MCSpecs == {Spec2(fw, <<good, good>>), Spec2(nat, <<good>>)}

Lists == {NoList, <<>>, <<good>>, <<good, good>>, <<Null, good>>, <<good, bad>>,
          <<num, good>>}

\* A loop for the file, with what may stand around and inside it; loops in line.
Representative ==
  {<<"text", "tag">>,
   <<"for", "items", "field", "tag", "end">>,
   <<"for", "items", "tag", "for", "subs", "field", "end", "end">>,
   <<"for", "items", "tag", "end", "text", "for", "items", "field", "end">>,
   <<"tag", "for", "items", "for", "subs", "tag", "end", "end">>,
   <<"end", "for", "items", "tag", "end">>,
   <<"text", "for", "subs", "end">>}

Short(n) == UNION {[1..k -> {"for", "end", "items", "text"}] : k \in 0..n}

\* What a user may say once a pass has been made, and what the pass left.
Changing ==
  {<<"text", "tag">>, <<"for", "items", "tag", "for", "subs", "field", "end", "end">>}

MCScenarios ==
  [maps : {InOrder}, template : Representative,
   spec : {Spec2(r, l) : r \in {fw, nat, vip}, l \in Lists}, edits : {0}]
  \cup
  [maps : {InOrder}, template : Short(5), spec : {Spec2(nat, <<good>>)}, edits : {0}]
  \cup
  [maps : [Sources -> MCContents], template : {<<"tag">>}, spec : {Spec2(nat, <<good>>)},
   edits : {0}]
  \cup
  [maps : {InOrder}, template : Changing, spec : MCSpecs, edits : {1}]
=============================================================================
