------------------------------ MODULE MCServers ------------------------------
(***************************************************************************)
(* A finite instance of Servers.                                            *)
(***************************************************************************)
EXTENDS Servers, TLC

CONSTANTS c1, c2, s1, s2, d1, a, b, v1, v2, net

Gifts == {{Network}, {a}, {}}

Firsts == {Kind, {"ldap"}}

Symmetry == Permutations(Call) \cup Permutations(Server) \cup Permutations(Value)
=============================================================================
