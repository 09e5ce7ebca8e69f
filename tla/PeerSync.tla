------------------------------ MODULE PeerSync ------------------------------
(***************************************************************************)
(* How a change of a server's peers travels from the database to the       *)
(* kernels of the server's instances: the transactions and the             *)
(* notifications PostgreSQL queues for them; the orchestrator's goroutines *)
(* HandlePeerUpdates and HandleServerUpdates, which turn them into         *)
(* notifications for every watched tag; the streams and their handlers     *)
(* (ConfigWatch: actions here conjoin one of its with what is sent); and   *)
(* the VPN server instances (VpnsAgent), which ask for the configuration,  *)
(* apply it, subscribe, apply notifications and answer them.               *)
(***************************************************************************)
EXTENDS ConfigWatch, VpnsAgent

CONSTANTS
    MaxId,        \* bound on the adjacencies ever created
    Peer,         \* what an adjacency makes a peer of the server
    Iface,        \* interface configurations
    MaxChanges    \* bound on the transactions

Id == 1..MaxId

(* All tags are of one server, and two goroutines notify them. *)
ASSUME OneServerAssumption == Cardinality(Server) = 1
ASSUME NotifierAssumption == Notifier = {"peers", "servers"}
ASSUME SizesAssumption == MaxId \in Nat \ {0} /\ MaxChanges \in Nat

(* What the goroutines hand to a stream. *)
WithPsk(p, psk) == [p EXCEPT !.psk = psk]

Message ==
    [kind : {"del"}, key : {p.key : p \in Peer} \cup {None}]
    \cup [kind : {"add"}, peer : {WithPsk(p, k) : p \in Peer, k \in {q.psk : q \in Peer} \cup {NoPsk}}]
    \cup [kind : {"config"}, iface : Iface, peers : Seq(Peer)]

ASSUME MessageAssumption == None \notin Message

VARIABLES
    iface,         \* the server's interface configuration in the database
    table,         \* table[i]: adjacency i of the server, None if there is none
    nextId,        \* the next identifier of the sequence
    changes,       \* number of transactions
    peerQueue,     \* queued notifications of the adjacencies table
    serverQueue,   \* number of queued notifications of the configuration tables
    job,           \* job[n]: what goroutine n is doing
    sent,          \* sent[c]: the notification last handed to the handler of c
    process,       \* process[t]: where the instance is in Connect
    stream,        \* stream[t]: the stream it subscribed on
    agent,         \* agent[t]: what it believes and its client, as in VpnsAgent
    trouble        \* history: what came between the instance's last request
                   \* for the configuration and now

orchestrator == vars
database == <<iface, table, nextId, changes>>
pipeline == <<peerQueue, serverQueue, job, sent>>
instances == <<process, stream, agent>>
world == <<orchestrator, database, pipeline, instances, trouble>>

NoJob == [stage |-> "idle"]
NoAgent == [cfg |-> [iface |-> NoIface, peers |-> <<>>], client |-> NoClient(FALSE)]

PipelineTypeOK ==
    /\ TypeOK
    /\ table \in [Id -> Peer \cup {None}]
    /\ nextId \in 1..MaxId + 1
    /\ changes \in 0..MaxChanges
    /\ Len(peerQueue) + serverQueue <= changes
    /\ \A n \in Notifier :
        \/ job[n] = NoJob /\ notifying[n] = None
        \/ job[n].stage \in {"delete", "add", "config"} /\ job[n].todo \subseteq Tag
    /\ process \in [Tag -> {"down", "broken", "configured", "subscribed"}]
    /\ stream \in [Tag -> Conn \cup {None}]
    /\ trouble \in [Tag -> SUBSET {"missed", "timeout", "limited", "crossed", "failed"}]

PipelineInit ==
    /\ Init
    /\ iface \in Iface
    /\ \E p \in Peer \cup {None} :
        /\ table = [i \in Id |-> IF i = 1 THEN p ELSE None]
        /\ nextId = IF p = None THEN 1 ELSE 2
    /\ changes = 0
    /\ peerQueue = <<>>
    /\ serverQueue = 0
    /\ job = [n \in Notifier |-> NoJob]
    /\ sent = [c \in Conn |-> None]
    /\ process = [t \in Tag |-> "down"]
    /\ stream = [t \in Tag |-> None]
    /\ agent = [t \in Tag |-> NoAgent]
    /\ trouble = [t \in Tag |-> {}]

(* What GetConfiguration and HandleServerUpdates read. They read the          *)
(* interface before the adjacencies; as the two change independently, with *)
(* notifications of their own, this is one reading at the later moment or   *)
(* one followed by a change of the interface.                              *)
Configurations ==
    {[iface |-> iface, peers |-> ps] : ps \in SetToSeqs({table[i] : i \in Id} \ {None})}

-----------------------------------------------------------------------------
(* History. *)

Note(tags, what) == trouble' = [t \in Tag |-> trouble[t] \cup IF t \in tags THEN {what} ELSE {}]

(* A notification that is with the handler of a stream an instance reads. *)
UnderWay(c) ==
    /\ handler[c] = "sending" \/ exchange[c] = "request"
    /\ sent[c] # None
    /\ \E t \in Tag : stream[t] = c /\ process[t] = "subscribed"

PeersUnderWay ==
    \/ peerQueue # <<>>
    \/ job["peers"] # NoJob
    \/ \E c \in Conn : UnderWay(c) /\ sent[c].kind # "config"

ConfigUnderWay ==
    \/ job["servers"] # NoJob
    \/ \E c \in Conn : UnderWay(c) /\ sent[c].kind = "config"

(* Instances that will not ask for the configuration again by themselves. *)
Settled == {t \in Tag : process[t] \in {"configured", "subscribed"}}

-----------------------------------------------------------------------------
(* Transactions: the trigger of the table queues a notification. *)

Commit ==
    /\ changes < MaxChanges
    /\ changes' = changes + 1
    /\ UNCHANGED <<orchestrator, instances, job, sent>>

NotifyPeers(old, new, id) ==
    /\ peerQueue' = Append(peerQueue, [old |-> old, new |-> new, id |-> id])
    /\ IF ConfigUnderWay THEN Note(Tag, "crossed") ELSE UNCHANGED trouble
    /\ UNCHANGED <<iface, serverQueue>>

(* p differs from the other peers in key and allowed IPs. *)
Distinct(p, i) ==
    \A j \in Id \ {i} : table[j] # None =>
        table[j].key # p.key /\ Range(table[j].ips) \cap Range(p.ips) = {}

CreateAdjacency(p) ==
    /\ nextId <= MaxId
    /\ Distinct(p, nextId)
    /\ table' = [table EXCEPT ![nextId] = p]
    /\ nextId' = nextId + 1
    /\ NotifyPeers(None, p, nextId)
    /\ Commit

UpdateAdjacency(i, p) ==
    /\ table[i] # None
    /\ Distinct(p, i)
    /\ table' = [table EXCEPT ![i] = p]
    /\ NotifyPeers(table[i].key, p, i)
    /\ Commit
    /\ UNCHANGED nextId

(* Variant: the trigger says nothing of the deleted row. *)
DeleteAdjacencySilently(i) ==
    /\ table[i] # None
    /\ table' = [table EXCEPT ![i] = None]
    /\ NotifyPeers(None, None, None)
    /\ Commit
    /\ UNCHANGED nextId

DeleteAdjacency(i) ==
    /\ table[i] # None
    /\ table' = [table EXCEPT ![i] = None]
    /\ NotifyPeers(table[i].key, None, None)
    /\ Commit
    /\ UNCHANGED nextId

UpdateWireGuardServerConfig(new) ==
    /\ iface' = new
    /\ serverQueue' = serverQueue + 1
    /\ Commit
    /\ UNCHANGED <<table, nextId, peerQueue, trouble>>

-----------------------------------------------------------------------------
(* HandlePeerUpdates and HandleServerUpdates. *)

Work(n, doing) == job' = [job EXCEPT ![n] = doing]

TakePeerNotification ==
    /\ job["peers"] = NoJob
    /\ peerQueue # <<>>
    /\ peerQueue' = Tail(peerQueue)
    /\ LET ntf == Head(peerQueue) IN
        Work("peers", [stage |-> "delete", ntf |-> ntf,
                       todo |-> IF ntf.old = None THEN {} ELSE Tag,
                       msg |-> [kind |-> "del", key |-> ntf.old]])
    /\ UNCHANGED <<orchestrator, database, serverQueue, sent, instances, trouble>>

(* resolvePresharedKey, once the deletion has been handed over: the key is   *)
(* read now, not when the adjacency changed. Without the adjacency it is   *)
(* empty, and the error on the fails channel ends the process soon.        *)
ResolvePresharedKey ==
    LET ntf == job["peers"].ntf
        psk == IF table[ntf.id] = None THEN NoPsk ELSE table[ntf.id].psk
    IN
    /\ job["peers"] # NoJob
    /\ job["peers"].stage = "delete"
    /\ job["peers"].todo = {}
    /\ notifying["peers"] = None
    /\ Work("peers", IF ntf.new = None THEN NoJob
                     ELSE [stage |-> "add", ntf |-> ntf, todo |-> Tag,
                           msg |-> [kind |-> "add", peer |-> WithPsk(ntf.new, psk)]])
    /\ UNCHANGED <<orchestrator, database, peerQueue, serverQueue, sent, instances, trouble>>

(* The whole configuration is read here. *)
TakeServerNotification ==
    /\ job["servers"] = NoJob
    /\ serverQueue > 0
    /\ serverQueue' = serverQueue - 1
    /\ \E wg \in Configurations :
        Work("servers", [stage |-> "config", todo |-> Tag,
                         msg |-> [kind |-> "config", iface |-> wg.iface, peers |-> wg.peers]])
    /\ IF PeersUnderWay THEN Note(Tag, "crossed") ELSE UNCHANGED trouble
    /\ UNCHANGED <<orchestrator, database, peerQueue, sent, instances>>

(* applyForWatchedTags: the next tag, in the order the query returned them.   *)
NextTag(n, t) ==
    /\ job[n] # NoJob
    /\ t \in job[n].todo
    /\ notifying[n] = None
    /\ Work(n, [job[n] EXCEPT !.todo = @ \ {t}])
    /\ IF watchers[t] # None
       THEN Lookup(n, t) /\ UNCHANGED trouble
       ELSE Note({t} \cap Settled, "missed") /\ UNCHANGED orchestrator
    /\ UNCHANGED <<database, peerQueue, serverQueue, sent, instances>>

(* Variant: the last hand-over is not waited for. *)
FinishEarly(n) ==
    /\ job[n] # NoJob
    /\ job[n].stage \in {"add", "config"}
    /\ job[n].todo = {}
    /\ Work(n, NoJob)
    /\ UNCHANGED <<orchestrator, database, peerQueue, serverQueue, sent, instances, trouble>>

Finish(n) ==
    /\ job[n] # NoJob
    /\ job[n].stage \in {"add", "config"}
    /\ job[n].todo = {}
    /\ notifying[n] = None
    /\ Work(n, NoJob)
    /\ UNCHANGED <<orchestrator, database, peerQueue, serverQueue, sent, instances, trouble>>

HandOver(n) ==
    /\ Deliver(n)
    /\ sent' = [sent EXCEPT ![notifying[n]] = job[n].msg]
    /\ UNCHANGED <<database, peerQueue, serverQueue, job, instances, trouble>>

(* Variant: no timeout, only the end of the stream is noticed. *)
TimeOutWhenGone(n) ==
    /\ GiveUpWhenGone(n)
    /\ Note({tagOf[notifying[n]]} \cap Settled, "timeout")
    /\ UNCHANGED <<database, pipeline, instances>>

TimeOut(n) ==
    /\ GiveUp(n)
    /\ Note({tagOf[notifying[n]]} \cap Settled, "timeout")
    /\ UNCHANGED <<database, pipeline, instances>>

-----------------------------------------------------------------------------
(* The handlers of the streams. *)

Serve(c) ==
    /\ \/ RecvSubscribe(c) \/ RecvSubscribeFails(c)
       \/ Watch(c) \/ AlreadyWatching(c)
       \/ Send(c) \/ RecvResponse(c)
       \/ Cancel(c) \/ Return(c)
    /\ UNCHANGED <<database, pipeline, instances, trouble>>

(* A notification the handler had taken may be lost with the stream. *)
LeaveStream(c) ==
    /\ StreamBroken(c)
    /\ IF handler[c] = "sending" \/ exchange[c] = "request"
       THEN Note({tagOf[c]} \cap Settled, "missed")
       ELSE UNCHANGED trouble
    /\ UNCHANGED <<database, pipeline, instances>>

(* With the process go the notifications queued for it. Every stream breaks, *)
(* but an instance that has not subscribed yet does not notice.            *)
RestartOrchestrator ==
    /\ Restart
    /\ peerQueue' = <<>>
    /\ serverQueue' = 0
    /\ job' = [n \in Notifier |-> NoJob]
    /\ IF \/ peerQueue # <<>> \/ serverQueue > 0
          \/ \E n \in Notifier : job[n] # NoJob
          \/ \E c \in Conn : handler[c] \in {"sending", "awaiting"}
       THEN Note(Settled, "missed")
       ELSE UNCHANGED trouble
    /\ UNCHANGED <<database, sent, instances>>

-----------------------------------------------------------------------------
(* The instances. *)

(* Connect up to the subscription. An instance that fails stays where it is, *)
(* to try again or to stop.                                                *)
RequestConfiguration(t) ==
    /\ process[t] \in {"down", "broken"}
    /\ \E wg \in Configurations :
        \E r \in IF process[t] = "down" THEN Connect(NoClient(FALSE), wg) ELSE Reconnect(agent[t], wg) :
            /\ agent' = [agent EXCEPT ![t] = r.agent]
            /\ process' = IF r.ok THEN [process EXCEPT ![t] = "configured"] ELSE process
            /\ trouble' = [trouble EXCEPT ![t] =
                    (IF PeersUnderWay \/ ConfigUnderWay
                     THEN {"crossed"} ELSE {})
                    \cup (IF r.ok THEN {} ELSE {"failed"})
                    \cup (IF process[t] = "down" THEN {} ELSE @ \cap {"failed"})]
    /\ UNCHANGED <<orchestrator, database, pipeline, stream>>

Subscribe(t, c) ==
    /\ process[t] = "configured"
    /\ Open(c, t)
    /\ process' = [process EXCEPT ![t] = "subscribed"]
    /\ stream' = [stream EXCEPT ![t] = c]
    /\ UNCHANGED <<database, pipeline, agent, trouble>>

(* The notification is applied and answered. *)
Receive(t) ==
    LET c == stream[t] IN
    /\ process[t] = "subscribed"
    /\ Answer(c)
    /\ \E r \in HandleNotification(agent[t], sent[c]) :
        /\ agent' = [agent EXCEPT ![t] = r.agent]
        /\ exchange'[c] = IF r.ok THEN "ok" ELSE "error"
        /\ IF r.ok THEN UNCHANGED trouble ELSE Note({t}, "failed")
    /\ sent' = [sent EXCEPT ![c] = None]
    /\ UNCHANGED <<database, peerQueue, serverQueue, job, process, stream>>

(* It was received, but the stream breaks before the answer. *)
ReceiveLast(t) ==
    LET c == stream[t] IN
    /\ process[t] = "subscribed"
    /\ ~online[c]
    /\ exchange[c] = "request"
    /\ sent[c] # None
    /\ \E r \in HandleNotification(agent[t], sent[c]) :
        /\ agent' = [agent EXCEPT ![t] = r.agent]
        /\ IF r.ok THEN UNCHANGED trouble ELSE Note({t}, "failed")
    /\ sent' = [sent EXCEPT ![c] = None]
    /\ UNCHANGED <<orchestrator, database, peerQueue, serverQueue, job, process, stream>>

DropNotification(t) ==
    /\ process[t] = "subscribed"
    /\ RateLimited(stream[t])
    /\ Note({t}, "limited")
    /\ sent' = [sent EXCEPT ![stream[t]] = None]
    /\ UNCHANGED <<database, peerQueue, serverQueue, job, instances>>

LoseConnection(t) ==
    /\ process[t] = "subscribed"
    /\ Hangup(stream[t])
    /\ UNCHANGED <<database, pipeline, instances, trouble>>

NoticeBrokenStream(t) ==
    /\ process[t] = "subscribed"
    /\ ~online[stream[t]]
    /\ process' = [process EXCEPT ![t] = "broken"]
    /\ stream' = [stream EXCEPT ![t] = None]
    /\ UNCHANGED <<orchestrator, database, pipeline, agent, trouble>>

(* The process ends after its client has removed the device. *)
StopInstance(t) ==
    /\ process[t] # "down"
    /\ process' = [process EXCEPT ![t] = "down"]
    /\ agent' = [agent EXCEPT ![t] = NoAgent]
    /\ stream' = [stream EXCEPT ![t] = None]
    /\ trouble' = [trouble EXCEPT ![t] = {}]
    /\ IF process[t] = "subscribed" /\ online[stream[t]]
       THEN Hangup(stream[t])
       ELSE UNCHANGED orchestrator
    /\ UNCHANGED <<database, pipeline>>

GoroutineStep(n) ==
    \/ n = "peers" /\ (TakePeerNotification \/ ResolvePresharedKey)
    \/ n = "servers" /\ TakeServerNotification
    \/ \E t \in Tag : NextTag(n, t)
    \/ Finish(n) \/ HandOver(n) \/ TimeOut(n)

PipelineNext ==
    \/ \E p \in Peer : CreateAdjacency(p)
    \/ \E i \in Id, p \in Peer : UpdateAdjacency(i, p)
    \/ \E i \in Id : DeleteAdjacency(i)
    \/ \E new \in Iface : UpdateWireGuardServerConfig(new)
    \/ \E n \in Notifier : GoroutineStep(n)
    \/ \E c \in Conn : Serve(c) \/ LeaveStream(c)
    \/ RestartOrchestrator
    \/ \E t \in Tag, c \in Conn : Subscribe(t, c)
    \/ \E t \in Tag :
        \/ RequestConfiguration(t)
        \/ Receive(t) \/ ReceiveLast(t) \/ DropNotification(t)
        \/ LoseConnection(t) \/ NoticeBrokenStream(t)
        \/ StopInstance(t)

PipelineSpec == PipelineInit /\ [][PipelineNext]_world

(* The scheduler runs the two goroutines, and their timers fire. *)
PipelineFairSpec == PipelineSpec /\ \A n \in Notifier : WF_world(GoroutineStep(n))

-----------------------------------------------------------------------------
(* Properties. *)

(* Everything announced has been handled by those it reached. *)
Quiet ==
    /\ ~PeersUnderWay
    /\ ~ConfigUnderWay
    /\ serverQueue = 0

InService(t) ==
    /\ process[t] = "subscribed"
    /\ online[stream[t]]
    /\ handler[stream[t]] = "listening"

Converged(t) == \E wg \in Configurations : Implements(agent[t].client, wg)

(* What the design gives: an instance whose kernel differs from the database *)
(* when everything has been handled either reported a failure, or since it  *)
(* last asked for its configuration lost a notification or got one whose    *)
(* contents were read on the other side of another change.                  *)
SyncUnlessTroubled ==
    Quiet => \A t \in Tag : InService(t) /\ trouble[t] = {} => Converged(t)

(* The types, and that what reaches an instance through the pipeline leaves it *)
(* with what the database has, unless something recorded came between.        *)
PipelineSound ==
    /\ PipelineTypeOK
    /\ SyncUnlessTroubled

(* "keeping every peer in sync" (README.md): an instance that is in service  *)
(* and has reported no failure has what the database has, also when the      *)
(* change came while it was connecting.                                    *)
SubscribedMissesNothing ==
    Quiet => \A t \in Tag : InService(t) /\ trouble[t] \subseteq {"missed"} => Converged(t)

(* "get complete server configuration (config + adjacencies)" (postgres.go): *)
(* what a configuration notification carries is complete when the instance *)
(* applies it, whatever notifications about peers are sent meanwhile.       *)
CrossingIsHarmless ==
    Quiet => \A t \in Tag : InService(t) /\ trouble[t] \subseteq {"crossed"} => Converged(t)

(* A VPN server that does not answer, an overloaded one or one that left      *)
(* delays the others but does not stop them: whatever instances do, the    *)
(* goroutines get through the notifications queued for them.               *)
QueuesDrain ==
    []<>(peerQueue = <<>> /\ serverQueue = 0 /\ \A n \in Notifier : job[n] = NoJob)
=============================================================================
