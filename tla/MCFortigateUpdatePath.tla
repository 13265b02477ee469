----------------------- MODULE MCFortigateUpdatePath -----------------------
\* Two or three paths over two ranges, for TLC.
EXTENDS FortigateUpdatePath, TLC

CONSTANTS p1, p2, r1, r2, s1, none

MCPaths == {p1, p2}
MCRanges == {r1, r2}
MCAnswers == {s1, none}

\* The portal knows no path for the second range.
MCPortal == (r1 :> s1) @@ (r2 :> none)
=============================================================================
