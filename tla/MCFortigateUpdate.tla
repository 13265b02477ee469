------------------------- MODULE MCFortigateUpdate -------------------------
(* Instances of FortigateUpdate for TLC. *)
EXTENDS FortigateUpdate, TLC

CONSTANTS u1, u2

\* The portal answers an upgrade with every version on the way ...
Stepwise(r) == IF r[1] < r[2] THEN [i \in 1..(r[2] - r[1] + 1) |-> r[1] + i - 1]
               ELSE <<>>

\* ... or, where no stop is needed, with the two ends.
Straight(r) == IF r[1] < r[2] THEN <<r[1], r[2]>> ELSE <<>>

StepwiseRoute == [r \in Versions \X Versions |-> Stepwise(r)]
StraightRoute == [r \in Versions \X Versions |-> Straight(r)]

TwoTargets == (u1 :> 2) @@ (u2 :> 1)
OneTarget == u1 :> 2
LastTarget == u1 :> 3

AnyTarget == [u \in Updates |-> Versions]

\* The second update is left where it is, or told to go up once it is there.
OwnTargets == (u1 :> {2}) @@ (u2 :> {1, 3})

NoPaths == {}
ShortPath == {<<1, 2>>}
WidePath == {<<1, 3>>}
===========================================================================
