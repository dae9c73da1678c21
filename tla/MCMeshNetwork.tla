--------------------------- MODULE MCMeshNetwork ---------------------------
(* Small meshes for MeshNetwork.                                           *)
EXTENDS MeshNetwork, TLC

CONSTANTS a, b, c, m1, m2, m3

\* Three places in a row, each in range of its neighbours.
Row == 1 .. 3
NextTo == {<<x, y>> \in Row \X Row : x - y \in -1 .. 1}

LineHome == a :> 1 @@ b :> 2 @@ c :> 3

\* Two senders that do not hear each other; one that floods from the middle.
Hidden == a :> <<m1>> @@ b :> <<>> @@ c :> <<m2>>
Shout == a :> <<>> @@ b :> <<m3>> @@ c :> <<>>
Neighbours == a :> <<m1>> @@ b :> <<m2>> @@ c :> <<>>
Quiet == {Hidden, Neighbours}
Loud == {Shout, Hidden}

=============================================================================
