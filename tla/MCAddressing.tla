------------------------------ MODULE MCAddressing ------------------------------
(***************************************************************************)
(* A finite instance of Addressing: three bits, two subnets of four addresses   *)
(* with the mask 1 in one of eight with the mask 0.                          *)
(***************************************************************************)
EXTENDS Addressing, TLC

CONSTANTS c1, c2, d1, d2, t1, p1, p2

(* A whole subnet, one address of it, the end of the other, and the whole.      *)
Spans == {[lo |-> 0, hi |-> 3, bits |-> 1], [lo |-> 2, hi |-> 2, bits |-> 1],
           [lo |-> 5, hi |-> 7, bits |-> 1], [lo |-> 2, hi |-> 2, bits |-> 0]}

(* One address, two, and one twice. *)
Lists == {<<[addr |-> 2, bits |-> 1]>>,
          <<[addr |-> 2, bits |-> 1], [addr |-> 2, bits |-> 1]>>,
          <<[addr |-> 1, bits |-> 1], [addr |-> 6, bits |-> 1]>>}

Servers == {5}

Symmetry == Permutations(Call) \cup Permutations(Device) \cup Permutations(Pool)
=============================================================================
