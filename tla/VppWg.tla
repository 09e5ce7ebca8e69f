-------------------------------- MODULE VppWg --------------------------------
(***************************************************************************)
(* The VPN server's WireGuard client on VPP: the same operations as on     *)
(* Linux, made of one call of VPP's API after another, with the client's   *)
(* own record of the peers and routes it has created.                      *)
(*                                                                         *)
(* VPP runs in a container of its own and keeps what a client that is gone *)
(* left in it. It takes no preshared keys, has each key at most once, adds *)
(* a route that exists, and removes one that does not, without an error.   *)
(***************************************************************************)
EXTENDS WgCommon

(* The client's interface with its peers, VPP's routes, and the keys of      *)
(* peers on interfaces no client knows of any more.                        *)
NoDevice == [up |-> FALSE, iface |-> NoIface, peers |-> EmptyFunction,
             routes |-> {}, orphans |-> {}]

(* wgSwIfIndex as managing, wgCfg as known, peerToIndexMapping as peers and   *)
(* destOfCreatedroutes as dests.                                           *)
NoClient == [vpp |-> TRUE, dev |-> NoDevice, managing |-> FALSE, known |-> NoIface,
             peers |-> {}, dests |-> {}]

(* A client that knows of nothing in dev. *)
Abandon(dev) ==
    [dev EXCEPT !.up = FALSE, !.iface = NoIface, !.peers = EmptyFunction,
                !.orphans = @ \cup DOMAIN dev.peers]

(* NewClient: VPP may not be reachable. *)
NewClient(dev) ==
    LET new == [NoClient EXCEPT !.dev = Abandon(dev)] IN
    {Outcome(new, TRUE)} \cup WhenFaulty({Outcome(new, FALSE)})

(* How far the calls for the allowed IPs of p get. *)
Progress(p) == {Len(p.ips)} \cup WhenFaulty(0..Len(p.ips))
Upto(p, n) == {p.ips[i] : i \in 1..n}

AddPeer(client, p) ==
    IF p.key \in DOMAIN client.dev.peers \cup client.dev.orphans
    THEN {Outcome(client, FALSE)}
    ELSE
    {Outcome([client EXCEPT !.dev.peers =
                                [k \in DOMAIN @ \cup {p.key} |->
                                    IF k = p.key THEN Range(p.ips) ELSE @[k]],
                            !.dev.routes = @ \cup Upto(p, n),
                            !.peers = @ \cup {p},
                            !.dests = @ \cup Upto(p, n)],
             n = Len(p.ips)) : n \in Progress(p)}
    \cup WhenFaulty({Outcome(client, FALSE)})

AddPeers(client, ps) ==
    IF ~client.managing THEN {Outcome(client, FALSE)}
    ELSE FoldLeft(LAMBDA os, p : After(os, AddPeer, p), {Outcome(client, TRUE)}, ps)

(* A peer is found by its content and removed by its index. *)
DelPeer(client, p) ==
    IF p \notin client.peers
    THEN {Outcome(client, FALSE)}
    ELSE
    {Outcome([client EXCEPT !.dev.peers = Restrict(@, DOMAIN @ \ {p.key}),
                            !.dev.routes = @ \ Upto(p, n),
                            !.peers = @ \ {p},
                            !.dests = @ \ Upto(p, n)],
             n = Len(p.ips)) : n \in Progress(p)}
    \cup WhenFaulty({Outcome(client, FALSE)})

DelPeers(client, ps) ==
    IF ~client.managing THEN {Outcome(client, FALSE)}
    ELSE FoldLeft(LAMBDA os, p : After(os, DelPeer, p), {Outcome(client, TRUE)}, ps)

(* cleanVPP: the routes it has created, in any order, and the interface with *)
(* its peers; it stops at the first error.                                 *)
CleanVPP(client) ==
    IF ~client.managing THEN {Outcome(client, TRUE)}
    ELSE
    {Outcome([client EXCEPT !.dev = [@ EXCEPT !.up = FALSE, !.iface = NoIface,
                                              !.peers = EmptyFunction,
                                              !.routes = @ \ client.dests]], TRUE)}
    \cup WhenFaulty({Outcome([client EXCEPT !.dev.routes = @ \ gone], FALSE) :
                        gone \in SUBSET client.dests})

(* cleanVPPObjectTracking: what was not cleaned is nobody's from now on. *)
CleanTracking(client) ==
    [client EXCEPT !.dev = Abandon(@), !.managing = FALSE, !.peers = {}, !.dests = {}]

Close(client) == {CleanTracking(o.client) : o \in CleanVPP(client)}

(* The interface is there, and known of, before it is given its attributes.   *)
CreateWGInterface(client, iface) ==
    {Outcome([client EXCEPT !.managing = TRUE, !.dev.up = TRUE, !.dev.iface = MixedIface], TRUE)}
    \cup WhenFaulty({Outcome(client, FALSE)})

(* Addresses, MTU and state, one call each; it stays as far as it got.        *)
SetAttributes(client, iface) ==
    {Outcome([client EXCEPT !.dev.iface = iface], TRUE)}
    \cup WhenFaulty({Outcome(client, FALSE),
                     Outcome([client EXCEPT !.dev.iface = MixedIface], FALSE)})

AddWireguardInterface(client, iface) ==
    After(CreateWGInterface(client, iface), SetAttributes, iface)

AddWireGuard(client, wg) ==
    IF client.managing THEN {Outcome(client, FALSE)}
    ELSE After(AddWireguardInterface([client EXCEPT !.known = wg.iface], wg.iface),
               AddPeers, wg.peers)

(* A new private key or port takes a new interface, with all peers; other    *)
(* attributes change in place.                                             *)
UpdateWireGuardInterface(client, wg) ==
    IF ~client.managing THEN {Outcome(client, FALSE)}
    ELSE IF client.known = wg.iface THEN {Outcome(client, TRUE)}
    ELSE
    UNION {IF o.ok THEN AddWireGuard(CleanTracking(o.client), wg) ELSE {o} :
           o \in CleanVPP(client)}
    \cup {IF o.ok THEN Outcome([o.client EXCEPT !.known = wg.iface], TRUE) ELSE o :
             o \in SetAttributes(client, wg.iface)}

(* VPP has the interface, exactly the peers and the routes. *)
Implements(dev, wg) ==
    /\ dev.up
    /\ dev.iface = wg.iface
    /\ dev.peers = [k \in {p.key : p \in Range(wg.peers)} |->
                        UNION {Range(p.ips) : p \in {q \in Range(wg.peers) : q.key = k}}]
    /\ dev.routes = Range(RoutesOf(wg.peers))
=============================================================================
