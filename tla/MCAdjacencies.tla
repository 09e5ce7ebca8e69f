--------------------------- MODULE MCAdjacencies ---------------------------
(***************************************************************************)
(* A finite instance of Adjacencies: a few requests, two servers and two    *)
(* devices, one of them of the user with the templates.                     *)
(***************************************************************************)
EXTENDS Adjacencies, TLC

CONSTANTS c1, c2, s1, s2, d1, d2, x, y, z, r1, r2

Interfaces ==
    {[own |-> z, net |-> {x, y}], [own |-> z, net |-> {x}]}

Offers == {{x, y}}

Homes == d1 :> x @@ d2 :> y

Symmetry == Permutations(Call) \cup Permutations(Route)
=============================================================================
