------------------------- MODULE MCFortigateConfig -------------------------
(* Instances of FortigateConfig for TLC. *)
EXTENDS FortigateConfig

CONSTANTS web, dns, typo

\* Lists that grow, shrink and reorder, one with an item that is not valid, one
\* empty.
AllLists == {<<web, dns>>, <<dns>>, <<dns, web>>, <<web, typo>>, <<>>}
ValidLists == {<<web, dns>>, <<web>>}
FirstPair == <<web, dns>>
=============================================================================
