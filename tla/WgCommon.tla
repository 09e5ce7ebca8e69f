------------------------------ MODULE WgCommon ------------------------------
(***************************************************************************)
(* What the VPN server's two WireGuard clients, Linux and VPP, share. Every *)
(* operation of a client is the set of its outcomes: one, unless Faulty    *)
(* lets the calls it makes fail for reasons of their own.                  *)
(*                                                                         *)
(* A peer is [key, psk, ips], with ips the sequence of its allowed IPs.     *)
(***************************************************************************)
EXTENDS Naturals, SequencesExt, Functions

CONSTANTS
    NoPsk,      \* the empty preshared key
    NoIface,    \* no interface configuration
    MixedIface, \* an interface whose update stopped halfway
    Faulty      \* whether calls may fail without a cause modelled here

ASSUME FaultyAssumption == Faulty \in BOOLEAN

EmptyFunction == [k \in {} |-> {}]

Outcome(client, ok) == [client |-> client, ok |-> ok]
WhenFaulty(outcomes) == IF Faulty THEN outcomes ELSE {}

(* The destinations of the routes for peers ps, in the order they are added. *)
RoutesOf(ps) == FlattenSeq([i \in DOMAIN ps |-> ps[i].ips])

(* Step after each of the outcomes, for x unless it failed. *)
After(outcomes, Step(_, _), x) ==
    UNION {IF o.ok THEN Step(o.client, x) ELSE {o} : o \in outcomes}
=============================================================================
