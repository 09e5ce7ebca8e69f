------------------------------ MODULE AgentSync ------------------------------
(***************************************************************************)
(* One VPN server instance on a faultless channel: every change of its     *)
(* configuration in the database is announced in order and nothing is lost *)
(* but by a disconnection, which the instance mends by asking for the whole*)
(* configuration again. What remains to go wrong is how the instance       *)
(* applies what it is told.                                                *)
(***************************************************************************)
EXTENDS VpnsAgent

CONSTANTS
    Iface,       \* interface configurations
    Peer,        \* the peers that can be configured, with VPP and without
    AddressOf,   \* the address of the device with each key, as a destination
    MaxPeers,    \* bound on the peers of a configuration
    MaxPending,  \* bound on the notifications under way
    MaxFailures  \* bound on the failures of a process

VARIABLES
    want,       \* the server's configuration in the database
    agent,      \* the instance, as in VpnsAgent
    up,         \* whether the instance's process has configured its device
    connected,  \* whether it is subscribed
    pending,    \* notifications sent to it and not yet handled
    answer,     \* the last result the orchestrator knows of
    failures,   \* history: how many failures the process has had
    overlapped  \* history: whether destinations have overlapped in this process's time

vars == <<want, agent, up, connected, pending, answer, failures, overlapped>>

Keys(peers) == {peers[i].key : i \in DOMAIN peers}
Dests(peers) == Range(RoutesOf(peers))

Without(peers, key) == SelectSeq(peers, LAMBDA p : p.key # key)

(* The query for a server's adjacencies has no order. *)
Orders(wg) ==
    {[wg EXCEPT !.peers = ps] : ps \in SetToSeqs(Range(wg.peers))}

Key == DOMAIN AddressOf

(* Updates that change only some of these give further peers. *)
SomePeer == Peer[agent.client.vpp]
AnyPeer == [key : Key, psk : {p.psk : p \in SomePeer}, ips : {p.ips : p \in SomePeer}]

Message ==
    [kind : {"add"}, peer : AnyPeer]
        \cup [kind : {"del"}, key : Key]
        \cup [kind : {"config"}, iface : Iface, peers : SeqOf(AnyPeer, MaxPeers)]

TypeOK ==
    /\ want.iface \in Iface
    /\ want.peers \in SeqOf(AnyPeer, MaxPeers)
    /\ up \in BOOLEAN
    /\ connected \in BOOLEAN
    /\ Range(pending) \subseteq Message
    /\ Len(pending) <= MaxPending
    /\ answer \in {"none", "ok", "error"}
    /\ failures \in 0..MaxFailures
    /\ overlapped \in BOOLEAN

NoConfiguration == [iface |-> NoIface, peers |-> <<>>]

(* The server's configuration says which client it uses. *)
Init ==
    /\ want \in [iface : Iface, peers : {<<>>}]
    /\ agent \in {[cfg |-> NoConfiguration, client |-> NoClient(useVPP)] : useVPP \in BOOLEAN}
    /\ up = FALSE
    /\ connected = FALSE
    /\ pending = <<>>
    /\ answer = "none"
    /\ failures = 0
    /\ overlapped = FALSE

Announce(messages) ==
    /\ IF connected
       THEN pending' = pending \o messages /\ Len(pending') <= MaxPending
       ELSE UNCHANGED pending
    /\ UNCHANGED <<agent, up, connected, answer, failures, overlapped>>

-----------------------------------------------------------------------------
(* Changes in the database, with the notifications HandlePeerUpdates and     *)
(* HandleServerUpdates send for them. The keys of devices are taken to be   *)
(* distinct.                                                               *)

(* The address of the device must not be among the allowed IPs of another    *)
(* peer. Nothing else is asked of the other allowed IPs.                   *)
AddressIsFree(key, others) == AddressOf[key] \notin Dests(others)

(* p as inserted, its device's address included. *)
CreateAdjacency(p) ==
    /\ p.key \notin Keys(want.peers)
    /\ AddressIsFree(p.key, want.peers)
    /\ AddressOf[p.key] \in Range(p.ips)
    /\ Len(want.peers) < MaxPeers
    /\ want' = [want EXCEPT !.peers = Append(@, p)]
    /\ Announce(<<[kind |-> "add", peer |-> p]>>)

(* The adjacency at i may pass to another device. Edited from the user's side *)
(* it keeps its allowed IPs; edited from the server's, the address of the  *)
(* device is not added to them.                                            *)
UpdateAdjacency(i, p) ==
    LET old == want.peers[i]
        others == Without(want.peers, old.key)
    IN
    /\ p.key \notin Keys(others)
    /\ AddressIsFree(p.key, others)
    /\ \E new \in {p, [p EXCEPT !.ips = old.ips]} :
        /\ want' = [want EXCEPT !.peers = Append(others, new)]
        /\ Announce(<<[kind |-> "del", key |-> old.key], [kind |-> "add", peer |-> new]>>)

(* A device gets another key. *)
UpdateDevice(key, new) ==
    /\ new \notin Keys(want.peers)
    /\ \E i \in DOMAIN want.peers :
        /\ want.peers[i].key = key
        /\ want' = [want EXCEPT !.peers[i].key = new]
        /\ Announce(<<[kind |-> "del", key |-> key],
                       [kind |-> "add", peer |-> want'.peers[i]]>>)

(* Variant: a notification of the wrong shape. *)
DeleteAdjacencyWhole(key) ==
    /\ key \in Keys(want.peers)
    /\ want' = [want EXCEPT !.peers = Without(@, key)]
    /\ Announce(<<[kind |-> "del", peer |-> key]>>)

DeleteAdjacency(key) ==
    /\ key \in Keys(want.peers)
    /\ want' = [want EXCEPT !.peers = Without(@, key)]
    /\ Announce(<<[kind |-> "del", key |-> key]>>)

UpdateWireGuardServerConfig(iface) ==
    \E wg \in Orders([want EXCEPT !.iface = iface]) :
        /\ want' = wg
        /\ Announce(<<[kind |-> "config", iface |-> wg.iface, peers |-> wg.peers]>>)

-----------------------------------------------------------------------------
(* The instance. *)

Record(r) ==
    /\ agent' = r.agent
    /\ answer' = IF r.ok THEN "ok" ELSE "error"

(* Two peers of a VPP device share a destination: the route to it is one, and *)
(* goes with the first of them.                                            *)
Overlap(client) ==
    client.vpp /\ \E p, q \in client.peers : p # q /\ Range(p.ips) \cap Range(q.ips) # {}

(* VPP keeps what the client has lost track of: Close only logs its errors, and*)
(* a new client starts next to what is left.                               *)
Leftovers(client) ==
    client.vpp /\ (client.dev.orphans # {} \/ ~(client.dev.routes \subseteq client.dests))

(* A failure that is not reported leaves something behind all the same. *)
CountFailure(r) ==
    /\ failures' = IF r.ok /\ (Leftovers(r.agent.client) => failures > 0)
                   THEN failures ELSE failures + 1
    /\ failures' <= MaxFailures

NoteOverlap(before, r) == overlapped' = (before \/ Overlap(r.agent.client))

Handle ==
    /\ connected
    /\ pending # <<>>
    /\ pending' = Tail(pending)
    /\ \E r \in HandleNotification(agent, Head(pending)) :
        /\ Record(r)
        /\ CountFailure(r)
        /\ NoteOverlap(overlapped, r)
    /\ UNCHANGED <<want, up, connected>>

(* The stream breaks: what was under way is lost, and the handler's last act  *)
(* is to show the server as disconnected.                                  *)
LoseConnection ==
    /\ connected
    /\ connected' = FALSE
    /\ pending' = <<>>
    /\ answer' = "none"
    /\ UNCHANGED <<want, agent, up, failures, overlapped>>

(* An attempt of ReconnectOnError: a failure leaves the instance unconnected.*)
ReconnectAttempt ==
    /\ up
    /\ ~connected
    /\ \E wg \in Orders(want) : \E r \in Reconnect(agent, wg) :
        /\ agent' = r.agent
        /\ answer' = IF r.ok THEN "ok" ELSE "none"
        /\ connected' = r.ok
        /\ CountFailure(r)
        /\ NoteOverlap(overlapped, r)
    /\ UNCHANGED <<want, up, pending>>

(* The process starts. On Linux it does not next to a device that is left. *)
Start ==
    /\ ~up
    /\ \E wg \in Orders(want) : \E r \in Connect(agent.client, wg) :
        /\ agent' = IF r.ok THEN r.agent ELSE [agent EXCEPT !.client = Killed(r.agent.client)]
        /\ answer' = IF r.ok THEN "ok" ELSE "none"
        /\ up' = r.ok
        /\ connected' = r.ok
        /\ failures' = IF Leftovers(r.agent.client) THEN 1 ELSE 0
        /\ NoteOverlap(FALSE, r)
    /\ UNCHANGED <<want, pending>>

(* It is stopped or gives up reconnecting, which closes its client, or it is  *)
(* killed. The network is the host's: a device outlives the container.     *)
Stop ==
    /\ up
    /\ up' = FALSE
    /\ connected' = FALSE
    /\ pending' = <<>>
    /\ answer' = "none"
    /\ \E left \in Close(agent.client) \cup {agent.client} :
        agent' = [cfg |-> NoConfiguration, client |-> Killed(left)]
    /\ failures' = 0
    /\ overlapped' = FALSE
    /\ UNCHANGED want

Next ==
    \/ \E p \in SomePeer : CreateAdjacency(p)
    \/ \E i \in DOMAIN want.peers : \E p \in SomePeer : UpdateAdjacency(i, p)
    \/ \E key, new \in Key : UpdateDevice(key, new)
    \/ \E key \in Key : DeleteAdjacency(key)
    \/ \E iface \in Iface : UpdateWireGuardServerConfig(iface)
    \/ Handle
    \/ LoseConnection
    \/ ReconnectAttempt
    \/ Start
    \/ Stop

Spec == Init /\ [][Next]_vars

-----------------------------------------------------------------------------
(* Properties. *)

(* An instance that has reported no failure has exactly the peers, keys,     *)
(* allowed IPs and routes it believes in, after any sequence of             *)
(* notifications, disconnections and reconnections: reconfiguring in place *)
(* by differences leaves nothing behind and tears nothing down.            *)
SyncUnlessFailed == up /\ failures = 0 /\ ~overlapped => InSync(agent)

(* And once it has handled everything it was sent, that is what the database *)
(* wants.                                                                  *)
ConvergedWhenQuiet ==
    connected /\ failures = 0 /\ ~overlapped /\ pending = <<>> =>
        \E wg \in Orders(want) : Implements(agent.client, wg)

(* The types, and that an instance without failures has in its device what it *)
(* believes (reconfigureWireGuardVPN and the handlers of notifications).      *)
AgentSound ==
    /\ TypeOK
    /\ SyncUnlessFailed

(* A deletion the instance confirmed has taken effect, even on a device that *)
(* earlier failures left different from what the instance believes.        *)
ConfirmedDeletionRevokes ==
    [][connected /\ pending # <<>> /\ pending' = Tail(pending) /\ connected' =>
        LET m == Head(pending) IN
        m.kind = "del" /\ answer' = "ok"
            => ~Admits(agent'.client, m.key)]_vars

(* "it is valid due to any fail after that point is handled by               *)
(* reconfigureWireGuardVPNFromScratch that throws out client and creates    *)
(* new one with updated configs" (vpns.go): an instance that has to rebuild *)
(* its device for a wanted configuration without overlapping allowed IPs    *)
(* can succeed.                                                            *)
ScratchRecovers ==
    up /\ IsInjective(RoutesOf(want.peers)) =>
        \E r \in ReconfigureFromScratch(agent, want) : r.ok

(* The REST API shows a server whose last result was a success as "in-sync"  *)
(* (handlers.go): its device then has what the database wants.             *)
ShownInSyncIsInSync ==
    connected /\ pending = <<>> /\ answer = "ok" =>
        \E wg \in Orders(want) : Implements(agent.client, wg)
=============================================================================
