------------------------------ MODULE WgClient ------------------------------
(***************************************************************************)
(* The interface of a WireGuard client: which of the two is behind it is   *)
(* chosen by the server's configuration when the client is made.           *)
(***************************************************************************)
EXTENDS WgCommon

Linux == INSTANCE LinuxWg
Vpp == INSTANCE VppWg

NoClient(vpp) == IF vpp THEN Vpp!NoClient ELSE Linux!NoClient

(* What a client leaves that is gone without Close. *)
Killed(client) == [NoClient(client.vpp) EXCEPT !.dev = client.dev]

(* A new client for what the one before has left. *)
NewClient(client) ==
    IF client.vpp THEN Vpp!NewClient(client.dev) ELSE Linux!NewClient(client.dev)

AddWireGuard(client, wg) ==
    IF client.vpp THEN Vpp!AddWireGuard(client, wg) ELSE Linux!AddWireGuard(client, wg)

UpdateWireGuardInterface(client, wg) ==
    IF client.vpp THEN Vpp!UpdateWireGuardInterface(client, wg)
                  ELSE Linux!UpdateWireGuardInterface(client, wg)

AddPeers(client, ps) ==
    IF client.vpp THEN Vpp!AddPeers(client, ps) ELSE Linux!AddPeers(client, ps)

DelPeers(client, ps) ==
    IF client.vpp THEN Vpp!DelPeers(client, ps) ELSE Linux!DelPeers(client, ps)

Close(client) == IF client.vpp THEN Vpp!Close(client) ELSE Linux!Close(client)

(* Some interface still accepts the key, the client's or one it has lost. *)
Admits(client, key) ==
    \/ key \in DOMAIN client.dev.peers
    \/ client.vpp /\ key \in client.dev.orphans

Implements(client, wg) ==
    IF client.vpp THEN Vpp!Implements(client.dev, wg) ELSE Linux!Implements(client.dev, wg)
=============================================================================
