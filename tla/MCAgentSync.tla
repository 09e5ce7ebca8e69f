---------------------------- MODULE MCAgentSync ----------------------------
(***************************************************************************)
(* Two keys, two destinations and two preshared keys give every kind of    *)
(* change of a peer: another device, other allowed IPs, allowed IPs that    *)
(* overlap another peer's, another preshared key only, and allowed IPs      *)
(* without the address of the device. VPP takes no preshared keys, so that *)
(* there are fewer changes to tell apart.                                  *)
(***************************************************************************)
EXTENDS AgentSync, TLC

CONSTANTS k1, k2, d1, d2, q0, q1

VppPeers == {
    [key |-> k1, psk |-> q1, ips |-> <<d1>>],
    [key |-> k1, psk |-> q1, ips |-> <<d2, d1>>],
    [key |-> k2, psk |-> q1, ips |-> <<d2>>]}

LinuxPeers == VppPeers \cup {
    [key |-> k1, psk |-> q0, ips |-> <<d1>>],
    [key |-> k2, psk |-> q1, ips |-> <<d1>>]}

SomePeers == (TRUE :> VppPeers) @@ (FALSE :> LinuxPeers)

SomeAddresses == (k1 :> d1) @@ (k2 :> d2)

Symmetry == Permutations(Iface)
=============================================================================
