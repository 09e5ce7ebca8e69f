---------------------------- MODULE MCDeviceSlots ----------------------------
(***************************************************************************)
(* Two external ids tell a client from another, two keys an old            *)
(* configuration from a new one.                                           *)
(***************************************************************************)
EXTENDS DeviceSlots, TLC

Symmetry == Permutations(Call) \cup Permutations(ExtId) \cup Permutations(Key)

(* The variables of a call that has ended, and a configuration whose session  *)
(* is stored nowhere, which it cannot be again: no guard reads them and no  *)
(* property tells them apart.                                              *)
Stored(c) == \E d \in Devices : device[d].session = c
View ==
    <<device, nextId, clock, raced,
      [c \in Call |-> IF UnderWay(c) THEN call[c] ELSE call[c].pc],
      [c \in Call |-> IF UnderWay(c) \/ Stored(c) THEN got[c] ELSE None]>>
=============================================================================
