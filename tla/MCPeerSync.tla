----------------------------- MODULE MCPeerSync -----------------------------
(***************************************************************************)
(* One instance, and one device whose adjacency may be changed, deleted and *)
(* created again; AgentSync has several devices.                           *)
(***************************************************************************)
EXTENDS PeerSync, TLC

CONSTANTS s1, k1, d1, q1, q2

Owners == [t \in Tag |-> s1]

SomePeers == {[key |-> k1, psk |-> q, ips |-> <<d1>>] : q \in {q1, q2}}

Symmetry == Permutations(Conn) \cup Permutations(Iface) \cup Permutations({q1, q2})

(* One process of the orchestrator. *)
SpecOfOneProcess == PipelineInit /\ [][PipelineNext /\ ~RestartOrchestrator]_world

(* The status store and the counter of replicas influence no other variable, *)
(* nor does what is in trouble beyond there being any.                     *)
WithoutStatus ==
    <<handler, tagOf, online, exchange, watchers, notifying, database, pipeline,
      instances, {t \in Tag : trouble[t] = {}}>>
=============================================================================
