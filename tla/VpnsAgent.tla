------------------------------ MODULE VpnsAgent ------------------------------
(***************************************************************************)
(* How a VPN server (VPN-S) applies what the orchestrator sends it: the    *)
(* initial configuration, the one it asks for when it reconnects, a        *)
(* configuration notification and the notifications about one peer. Each   *)
(* handler is the set of its outcomes, so that PeerSync can use it for     *)
(* every instance of a server.                                             *)
(*                                                                         *)
(* An agent is [cfg, client]: the configuration it believes in             *)
(* (vpns.vpnCfg), [iface, peers] with the peers in a sequence, and its      *)
(* WireGuard client (vpns.wgc). Definitions marked as variants carry a      *)
(* plausible bug, for seeing that a property detects it.                   *)
(***************************************************************************)
EXTENDS WgClient

Result(agent, ok) == [agent |-> agent, ok |-> ok]

(* The agent with the outcome of a call of its client. *)
With(agent, o) == [agent EXCEPT !.client = o.client]

(* updateExistingWGConfigInternally. *)
Believe(agent, wg) == [agent EXCEPT !.cfg = wg]

(* configureWireGuardVPN: the client is replaced only if a new one can be    *)
(* made, and then even if AddWireGuard fails.                              *)
ConfigureWireGuard(agent, wg) ==
    UNION {IF new.ok
           THEN {Result(With(agent, o), o.ok) : o \in AddWireGuard(new.client, wg)}
           ELSE {Result(agent, FALSE)} : new \in NewClient(agent.client)}

(* The interface is torn down and built again, with its peers; then the      *)
(* peers are added once more.                                              *)
ReconfigureFromScratch(agent, wg) ==
    UNION {
        UNION {
            IF ~built.ok THEN {built}
            ELSE {Result(IF o.ok THEN Believe(With(built.agent, o), wg)
                                 ELSE With(built.agent, o), o.ok) :
                    o \in AddPeers(built.agent.client, wg.peers)}
            : built \in ConfigureWireGuard([agent EXCEPT !.client = closed], wg)}
        : closed \in Close(agent.client)}

ToDelete(old, new) == SelectSeq(old, LAMBDA p : p \notin Range(new))
ToAdd(old, new) == SelectSeq(new, LAMBDA p : p \notin Range(old))

(* Peers that went or changed are deleted before those that came or changed  *)
(* are added. The fast paths from and to no peers are instances of this.   *)
DeletePeers(agent, wg) ==
    LET ps == ToDelete(agent.cfg.peers, wg.peers) IN
    IF ps = <<>> THEN {Outcome(agent.client, TRUE)} ELSE DelPeers(agent.client, ps)

InsertPeers(agent, wg) ==
    LET ps == ToAdd(agent.cfg.peers, wg.peers) IN
    IF ps = <<>> THEN {Outcome(agent.client, TRUE)} ELSE AddPeers(agent.client, ps)

UpdateInterface(agent, wg) ==
    IF agent.cfg.iface = wg.iface
    THEN {Outcome(agent.client, TRUE)}
    ELSE UpdateWireGuardInterface(agent.client, wg)

(* One in-place step after the results of the previous ones. *)
Then(results, Step(_, _), wg) ==
    UNION {IF r.ok THEN {Result(With(r.agent, o), o.ok) : o \in Step(r.agent, wg)}
                   ELSE {r} : r \in results}

(* Variant: new peers are added first. *)
ReconfigureAddingFirst(agent, wg) ==
    Then(Then(Then({Result(agent, TRUE)}, UpdateInterface, wg),
              InsertPeers, wg),
         DeletePeers, wg)

ReconfigureInPlace(agent, wg) ==
    Then(Then(Then({Result(agent, TRUE)}, UpdateInterface, wg),
              DeletePeers, wg),
         InsertPeers, wg)

(* reconfigureWireGuardVPN. *)
Reconfigure(agent, wg) ==
    UNION {IF r.ok THEN {Result(Believe(r.agent, wg), TRUE)}
                   ELSE ReconfigureFromScratch(r.agent, wg) :
           r \in ReconfigureInPlace(agent, wg)}

-----------------------------------------------------------------------------
(* The entry points. *)

(* The process starts, next to what the client of an earlier one has left. *)
Connect(left, wg) ==
    ConfigureWireGuard([cfg |-> wg, client |-> left], wg)

(* Variant: only the interface is compared. *)
ReconnectIfIfaceChanged(agent, wg) ==
    IF agent.cfg.iface = wg.iface THEN {Result(agent, TRUE)} ELSE Reconfigure(agent, wg)

(* reconfigureVPN: nothing is done if the configuration is the one believed. *)
Reconnect(agent, wg) ==
    IF agent.cfg = wg THEN {Result(agent, TRUE)} ELSE Reconfigure(agent, wg)

HandleConfigNotification(agent, wg) == Reconfigure(agent, wg)

HandleAddPeer(agent, p) ==
    {Result(IF o.ok THEN [With(agent, o) EXCEPT !.cfg.peers = Append(@, p)]
                    ELSE With(agent, o), o.ok) :
        o \in AddPeers(agent.client, <<p>>)}

(* The last peer takes the place of the one removed. *)
SwapRemove(seq, i) == SubSeq([seq EXCEPT ![i] = seq[Len(seq)]], 1, Len(seq) - 1)

(* Variant: an error of DelPeers is only logged. *)
ForgetPeer(agent, key) ==
    LET peers == agent.cfg.peers
        found == {i \in DOMAIN peers : peers[i].key = key}
        first == CHOOSE i \in found : \A j \in found : i <= j
    IN
    IF found = {} THEN {Result(agent, FALSE)}
    ELSE {Result([With(agent, o) EXCEPT !.cfg.peers = SwapRemove(@, first)], TRUE) :
            o \in DelPeers(agent.client, <<peers[first]>>)}

HandleDelPeer(agent, key) ==
    LET peers == agent.cfg.peers
        found == {i \in DOMAIN peers : peers[i].key = key}
        first == CHOOSE i \in found : \A j \in found : i <= j
    IN
    IF found = {} THEN {Result(agent, FALSE)}
    ELSE {Result(IF o.ok
                 THEN [With(agent, o) EXCEPT !.cfg.peers = SwapRemove(@, first)]
                 ELSE With(agent, o), o.ok) :
            o \in DelPeers(agent.client, <<peers[first]>>)}

(* A notification is [kind |-> "add", peer], [kind |-> "del", key] or         *)
(* [kind |-> "config", iface, peers].                                      *)
HandleNotification(agent, m) ==
    CASE m.kind = "add" -> HandleAddPeer(agent, m.peer)
      [] m.kind = "del" -> HandleDelPeer(agent, m.key)
      [] m.kind = "config" ->
            HandleConfigNotification(agent, [iface |-> m.iface, peers |-> m.peers])

-----------------------------------------------------------------------------
(* The device has what the agent believes, one peer for each entry. *)
InSync(agent) ==
    /\ Implements(agent.client, agent.cfg)
    /\ \A i, j \in DOMAIN agent.cfg.peers :
            agent.cfg.peers[i].key = agent.cfg.peers[j].key => i = j
=============================================================================
