------------------------------- MODULE LinuxWg -------------------------------
(***************************************************************************)
(* The VPN server's WireGuard client on Linux: what AddWireGuard,          *)
(* UpdateWireGuardInterface, AddPeers, DelPeers and Close do to the kernel's*)
(* WireGuard device and routes, and when they fail.                        *)
(*                                                                         *)
(* The kernel maps the keys of its peers to [psk, ips], with the set of     *)
(* their allowed IPs, and holds a set of routes through the interface.     *)
(***************************************************************************)
EXTENDS WgCommon

NoDevice == [up |-> FALSE, iface |-> NoIface, peers |-> EmptyFunction, routes |-> {}]

(* A client: the device, whether it has an interface (wgIface), and the      *)
(* interface configuration it remembers (wgCfg).                           *)
NoClient == [vpp |-> FALSE, dev |-> NoDevice, managing |-> FALSE, known |-> NoIface]

-----------------------------------------------------------------------------
(* The kernel. *)

(* wgctrl's ConfigureDevice for one added peer: its allowed IPs replace what *)
(* it had and are taken from every other peer; an empty preshared key      *)
(* leaves the one the kernel has.                                          *)
KernelAddPeer(peers, p) ==
    LET ips == Range(p.ips)
        psk == IF p.psk = NoPsk /\ p.key \in DOMAIN peers
               THEN peers[p.key].psk ELSE p.psk
    IN [k \in DOMAIN peers \cup {p.key} |->
            IF k = p.key
            THEN [psk |-> psk, ips |-> ips]
            ELSE [peers[k] EXCEPT !.ips = @ \ ips]]

KernelAddPeers(peers, ps) == FoldLeft(KernelAddPeer, peers, ps)

KernelDelPeers(peers, ps) ==
    Restrict(peers, {k \in DOMAIN peers : \A i \in DOMAIN ps : ps[i].key # k})

(* Routes are added in order up to the first that exists: RouteAdd is        *)
(* exclusive.                                                              *)
AddRoutes(routes, seq) ==
    LET Upto(n) == routes \cup {seq[i] : i \in 1..n - 1}
        stop == CHOOSE n \in 1..Len(seq) + 1 :
                    /\ n <= Len(seq) => seq[n] \in Upto(n)
                    /\ \A i \in 1..n - 1 : seq[i] \notin Upto(i)
    IN {[routes |-> Upto(n), ok |-> n > Len(seq)] : n \in {stop} \cup WhenFaulty(1..stop)}

(* Routes are removed in order up to the first that is missing. *)
RemoveRoutes(routes, seq) ==
    LET Upto(n) == routes \ {seq[i] : i \in 1..n - 1}
        stop == CHOOSE n \in 1..Len(seq) + 1 :
                    /\ n <= Len(seq) => seq[n] \notin Upto(n)
                    /\ \A i \in 1..n - 1 : seq[i] \in Upto(i)
    IN {[routes |-> Upto(n), ok |-> n > Len(seq)] : n \in {stop} \cup WhenFaulty(1..stop)}

-----------------------------------------------------------------------------
(* The client. *)

AddPeers(client, ps) ==
    IF ~client.managing THEN {Outcome(client, FALSE)}
    ELSE
    {Outcome([client EXCEPT !.dev.peers = KernelAddPeers(@, ps),
                            !.dev.routes = r.routes], r.ok) :
        r \in AddRoutes(client.dev.routes, RoutesOf(ps))}
    \cup WhenFaulty({Outcome(client, FALSE)})

DelPeers(client, ps) ==
    IF ~client.managing THEN {Outcome(client, FALSE)}
    ELSE
    {Outcome([client EXCEPT !.dev.peers = KernelDelPeers(@, ps),
                            !.dev.routes = r.routes], r.ok) :
        r \in RemoveRoutes(client.dev.routes, RoutesOf(ps))}
    \cup WhenFaulty({Outcome(client, FALSE)})

(* Name, MTU, addresses, key and port, in that order, and the remembered     *)
(* configuration last.                                                     *)
UpdateWireGuardInterface(client, wg) ==
    IF ~client.managing THEN {Outcome(client, FALSE)}
    ELSE
    {Outcome([client EXCEPT !.known = wg.iface,
                            !.dev.iface = IF client.known = wg.iface THEN @ ELSE wg.iface],
             TRUE)}
    \cup WhenFaulty({Outcome(client, FALSE),
                     Outcome([client EXCEPT !.dev.iface = MixedIface], FALSE)})

(* The interface is created with its peers and routes, and deleted again     *)
(* when any of the steps fails.                                            *)
AddWireGuard(client, wg) ==
    LET made == [up |-> TRUE, iface |-> wg.iface,
                 peers |-> KernelAddPeers(EmptyFunction, wg.peers), routes |-> {}]
        failed == Outcome([client EXCEPT !.known = wg.iface], FALSE)
    IN
    {IF r.ok
     THEN Outcome([client EXCEPT !.dev = [made EXCEPT !.routes = r.routes],
                                 !.managing = TRUE, !.known = wg.iface], TRUE)
     ELSE failed : r \in AddRoutes({}, RoutesOf(wg.peers))}
    \cup WhenFaulty({failed})

(* An error of the deletion is only logged: the device may stay. *)
Close(client) ==
    LET closed == [client EXCEPT !.managing = FALSE] IN
    {IF client.managing THEN [closed EXCEPT !.dev = NoDevice] ELSE closed}
    \cup WhenFaulty({closed})

(* A new client next to the device an earlier one left: it refuses to start. *)
NewClient(dev) == {Outcome([NoClient EXCEPT !.dev = dev], ~dev.up)}

(* The device has the interface, exactly the peers, a later one having taken  *)
(* the allowed IPs of an earlier one, and the routes.                      *)
Implements(dev, wg) ==
    /\ dev.up
    /\ dev.iface = wg.iface
    /\ dev.peers = KernelAddPeers(EmptyFunction, wg.peers)
    /\ dev.routes = Range(RoutesOf(wg.peers))
=============================================================================
