----------------------------- MODULE ConfigWatch -----------------------------
(***************************************************************************)
(* The orchestrator's side of the WireGuard configuration stream: the gRPC *)
(* handler SubscribeWG, one goroutine per open stream; the registry of     *)
(* configuration watchers it enters (WatchWireGuardConfig), keyed by       *)
(* server tag; the status store the REST API reads, keyed by server; the   *)
(* running_replicas counter kept in the database; and the goroutines that  *)
(* hand notifications to a watcher (notifyWGConfigChanges).                *)
(*                                                                         *)
(* A connection is used once: a VPN server that reconnects opens a new one.*)
(* What a notification says is left out; PeerSync adds it. The definitions *)
(* marked as variants belong to no specification: each is the definition   *)
(* after it with a plausible bug, for seeing that a property detects it.   *)
(***************************************************************************)
EXTENDS Naturals, FiniteSets

CONSTANTS
    Server,        \* server configurations (rows of the servers table)
    Tag,           \* server instances, each with its own certificate tag
    Conn,          \* SubscribeWG streams
    Notifier,      \* goroutines that call notifyWGConfigChanges
    ServerOf,      \* the server configuration each tag belongs to
    InKubernetes,  \* whether the orchestrator has a kubernetes client set
    None           \* no connection, no tag

ASSUME TagAssumption == ServerOf \in [Tag -> Server]
ASSUME NoneAssumption == None \notin Conn /\ None \notin Tag
ASSUME DeploymentAssumption == InKubernetes \in BOOLEAN

VARIABLES
    handler,    \* handler[c]: where the SubscribeWG goroutine of stream c is
    tagOf,      \* tagOf[c]: the tag in the certificate c was opened with
    online,     \* online[c]: the stream's context is not cancelled
    exchange,   \* exchange[c]: the notification last sent on c and its answer
    watchers,   \* watchers[t]: the stream registered for tag t
    status,     \* status[s]: the entry of server s in the status store
    replicas,   \* replicas[s]: servers.running_replicas
    exists,     \* exists[s]: server s has a row in the database
    notifying   \* notifying[n]: the stream n is handing a notification to

vars == <<handler, tagOf, online, exchange, watchers, status, replicas,
          exists, notifying>>

-----------------------------------------------------------------------------
(* "leaving": the deferred cancel is due; "left": only the deferred status  *)
(* update is.                                                              *)
Registered == {"listening", "sending", "awaiting", "leaving"}
Active == Registered \cup {"opened", "subscribed", "left"}
HandlerState == Active \cup {"idle", "done"}

Exchange == {"none", "request", "ok", "error", "dropped"}
Status == {"unset", "ok", "failed", "disconnected"}

TypeOK ==
    /\ handler \in [Conn -> HandlerState]
    /\ tagOf \in [Conn -> Tag \cup {None}]
    /\ \A c \in Conn : handler[c] \in Active => tagOf[c] \in Tag
    /\ online \in [Conn -> BOOLEAN]
    /\ exchange \in [Conn -> Exchange]
    /\ watchers \in [Tag -> Conn \cup {None}]
    /\ status \in [Server -> Status]
    /\ replicas \in [Server -> Nat]
    /\ exists \in [Server -> BOOLEAN]
    /\ notifying \in [Notifier -> Conn \cup {None}]

Init ==
    /\ handler = [c \in Conn |-> "idle"]
    /\ tagOf = [c \in Conn |-> None]
    /\ online = [c \in Conn |-> FALSE]
    /\ exchange = [c \in Conn |-> "none"]
    /\ watchers = [t \in Tag |-> None]
    /\ status = [s \in Server |-> "unset"]
    /\ replicas = [s \in Server |-> 0]
    /\ exists = [s \in Server |-> TRUE]
    /\ notifying = [n \in Notifier |-> None]

ServerFor(c) == ServerOf[tagOf[c]]

Goto(c, state) == handler' = [handler EXCEPT ![c] = state]
SetStatus(c, st) == status' = [status EXCEPT ![ServerFor(c)] = st]

-----------------------------------------------------------------------------
(* The handler. *)

(* The stream is authenticated by its certificate, the server is found by   *)
(* name, and the deferred status update is in place.                       *)
Open(c, t) ==
    /\ handler[c] = "idle"
    /\ exists[ServerOf[t]]
    /\ Goto(c, "opened")
    /\ tagOf' = [tagOf EXCEPT ![c] = t]
    /\ online' = [online EXCEPT ![c] = TRUE]
    /\ UNCHANGED <<exchange, watchers, status, replicas, exists, notifying>>

RecvSubscribe(c) ==
    /\ handler[c] = "opened"
    /\ online[c]
    /\ SetStatus(c, "ok")
    /\ Goto(c, "subscribed")
    /\ UNCHANGED <<tagOf, online, exchange, watchers, replicas, exists, notifying>>

RecvSubscribeFails(c) ==
    /\ handler[c] = "opened"
    /\ ~online[c]
    /\ Goto(c, "left")
    /\ UNCHANGED <<tagOf, online, exchange, watchers, status, replicas, exists, notifying>>

(* The counter of a server outside Kubernetes never goes past one. The      *)
(* queries run in the stream's context, and their errors are only logged.  *)
IncreaseReplicas(c) ==
    LET s == ServerFor(c) IN
    IF online[c] /\ exists[s] /\ (InKubernetes \/ replicas[s] # 1)
    THEN [replicas EXCEPT ![s] = @ + 1]
    ELSE replicas

(* Variant: the decrement in a context of its own and without its condition. *)
DecreaseUnconditionally(c) ==
    [replicas EXCEPT ![ServerFor(c)] = @ - 1]

DecreaseReplicas(c) ==
    LET s == ServerFor(c) IN
    IF online[c] /\ exists[s] /\ replicas[s] > 0
    THEN [replicas EXCEPT ![s] = @ - 1]
    ELSE replicas

(* Variant: the entry of the tag is replaced, whoever owns it. *)
WatchAnyway(c) ==
    /\ handler[c] = "subscribed"
    /\ watchers' = [watchers EXCEPT ![tagOf[c]] = c]
    /\ replicas' = IncreaseReplicas(c)
    /\ Goto(c, "listening")
    /\ UNCHANGED <<tagOf, online, exchange, status, exists, notifying>>

(* WatchWireGuardConfig, under the write lock. *)
Watch(c) ==
    /\ handler[c] = "subscribed"
    /\ watchers[tagOf[c]] = None
    /\ watchers' = [watchers EXCEPT ![tagOf[c]] = c]
    /\ replicas' = IncreaseReplicas(c)
    /\ Goto(c, "listening")
    /\ UNCHANGED <<tagOf, online, exchange, status, exists, notifying>>

(* Variant: cancel is deferred before the error is looked at. *)
CancelWhenRefused(c) ==
    /\ handler[c] = "subscribed"
    /\ watchers[tagOf[c]] # None
    /\ Goto(c, "leaving")
    /\ online' = [online EXCEPT ![c] = FALSE]
    /\ UNCHANGED <<tagOf, exchange, watchers, status, replicas, exists, notifying>>

AlreadyWatching(c) ==
    /\ handler[c] = "subscribed"
    /\ watchers[tagOf[c]] # None
    /\ Goto(c, "left")
    /\ UNCHANGED <<tagOf, online, exchange, watchers, status, replicas, exists, notifying>>

(* Variant: the answer is not waited for. *)
SendAndForget(c) ==
    /\ handler[c] = "sending"
    /\ online[c]
    /\ exchange' = [exchange EXCEPT ![c] = "request"]
    /\ Goto(c, "listening")
    /\ UNCHANGED <<tagOf, online, watchers, status, replicas, exists, notifying>>

Send(c) ==
    /\ handler[c] = "sending"
    /\ online[c]
    /\ exchange' = [exchange EXCEPT ![c] = "request"]
    /\ Goto(c, "awaiting")
    /\ UNCHANGED <<tagOf, online, watchers, status, replicas, exists, notifying>>

(* receiveFromServer: a success clears the last error, an error replaces it. *)
RecvResponse(c) ==
    /\ handler[c] = "awaiting"
    /\ exchange[c] \in {"ok", "error"}
    /\ SetStatus(c, IF exchange[c] = "ok" THEN "ok" ELSE "failed")
    /\ exchange' = [exchange EXCEPT ![c] = "none"]
    /\ Goto(c, "listening")
    /\ UNCHANGED <<tagOf, online, watchers, replicas, exists, notifying>>

(* Variant: waiting for the answer is not interrupted. *)
BrokenUnlessAwaiting(c) ==
    /\ handler[c] \in {"listening", "sending"}
    /\ ~online[c]
    /\ Goto(c, "leaving")
    /\ UNCHANGED <<tagOf, online, exchange, watchers, status, replicas, exists, notifying>>

(* Send, Recv or the select see that the stream's context is cancelled. *)
StreamBroken(c) ==
    /\ handler[c] \in {"listening", "sending", "awaiting"}
    /\ ~online[c]
    /\ Goto(c, "leaving")
    /\ UNCHANGED <<tagOf, online, exchange, watchers, status, replicas, exists, notifying>>

(* The WatchCancelFunc: it removes the entry of the tag, whoever owns it. *)
Cancel(c) ==
    /\ handler[c] = "leaving"
    /\ watchers' = [watchers EXCEPT ![tagOf[c]] = None]
    /\ replicas' = DecreaseReplicas(c)
    /\ Goto(c, "left")
    /\ UNCHANGED <<tagOf, online, exchange, status, exists, notifying>>

(* Variant: the status is left as it is. *)
ReturnSilently(c) ==
    /\ handler[c] = "left"
    /\ online' = [online EXCEPT ![c] = FALSE]
    /\ Goto(c, "done")
    /\ UNCHANGED <<tagOf, exchange, watchers, status, replicas, exists, notifying>>

(* The deferred status update; with it the handler returns and the stream   *)
(* ends.                                                                   *)
Return(c) ==
    /\ handler[c] = "left"
    /\ SetStatus(c, "disconnected")
    /\ online' = [online EXCEPT ![c] = FALSE]
    /\ Goto(c, "done")
    /\ UNCHANGED <<tagOf, exchange, watchers, replicas, exists, notifying>>

-----------------------------------------------------------------------------
(* The goroutines that notify. *)

(* applyForWatchedTags and notifyWGConfigChanges look the tag up; without a *)
(* watcher the notification is dropped and n stays idle.                   *)
Lookup(n, t) ==
    /\ notifying[n] = None
    /\ watchers[t] # None
    /\ notifying' = [notifying EXCEPT ![n] = watchers[t]]
    /\ UNCHANGED <<handler, tagOf, online, exchange, watchers, status, replicas, exists>>

Deliver(n) ==
    /\ notifying[n] # None
    /\ handler[notifying[n]] = "listening"
    /\ Goto(notifying[n], "sending")
    /\ notifying' = [notifying EXCEPT ![n] = None]
    /\ UNCHANGED <<tagOf, online, exchange, watchers, status, replicas, exists>>

(* Variant: no timeout, only the end of the stream is noticed. *)
GiveUpWhenGone(n) ==
    /\ notifying[n] # None
    /\ handler[notifying[n]] \in {"left", "done"}
    /\ notifying' = [notifying EXCEPT ![n] = None]
    /\ UNCHANGED <<handler, tagOf, online, exchange, watchers, status, replicas, exists>>

(* Five seconds pass with nobody receiving from the watcher's channel. *)
GiveUp(n) ==
    /\ notifying[n] # None
    /\ handler[notifying[n]] # "listening"
    /\ notifying' = [notifying EXCEPT ![n] = None]
    /\ UNCHANGED <<handler, tagOf, online, exchange, watchers, status, replicas, exists>>

-----------------------------------------------------------------------------
(* The rest of the world: the VPN server's end of a stream, the REST API    *)
(* and the orchestrator's process.                                         *)

Answer(c) ==
    /\ online[c]
    /\ exchange[c] = "request"
    /\ \E a \in {"ok", "error"} : exchange' = [exchange EXCEPT ![c] = a]
    /\ UNCHANGED <<handler, tagOf, online, watchers, status, replicas, exists, notifying>>

(* The VPN server's rate limiter drops a notification without an answer. *)
RateLimited(c) ==
    /\ online[c]
    /\ exchange[c] = "request"
    /\ exchange' = [exchange EXCEPT ![c] = "dropped"]
    /\ UNCHANGED <<handler, tagOf, online, watchers, status, replicas, exists, notifying>>

(* The VPN server disconnects or the transport fails. *)
Hangup(c) ==
    /\ online[c]
    /\ online' = [online EXCEPT ![c] = FALSE]
    /\ UNCHANGED <<handler, tagOf, exchange, watchers, status, replicas, exists, notifying>>

(* DELETE of a server: its row goes, then its entry in the status store. No  *)
(* step of a handler between the two leads elsewhere than before them.     *)
DeleteServer(s) ==
    /\ exists[s]
    /\ exists' = [exists EXCEPT ![s] = FALSE]
    /\ replicas' = [replicas EXCEPT ![s] = 0]
    /\ status' = [status EXCEPT ![s] = "unset"]
    /\ UNCHANGED <<handler, tagOf, online, exchange, watchers, notifying>>

(* The process ends, at the first error on its fails channel or otherwise,  *)
(* and is started again: what it kept in memory is gone, the counters in   *)
(* the database are not.                                                   *)
Restart ==
    /\ handler' = [c \in Conn |-> IF handler[c] = "idle" THEN "idle" ELSE "done"]
    /\ online' = [c \in Conn |-> FALSE]
    /\ watchers' = [t \in Tag |-> None]
    /\ status' = [s \in Server |-> "unset"]
    /\ notifying' = [n \in Notifier |-> None]
    /\ UNCHANGED <<tagOf, exchange, replicas, exists>>

HandlerStep(c) ==
    \/ RecvSubscribe(c) \/ RecvSubscribeFails(c)
    \/ Watch(c) \/ AlreadyWatching(c)
    \/ Send(c) \/ RecvResponse(c) \/ StreamBroken(c)
    \/ Cancel(c) \/ Return(c)

NotifierStep(n) == Deliver(n) \/ GiveUp(n)

Next ==
    \/ \E c \in Conn : \E t \in Tag : Open(c, t)
    \/ \E c \in Conn : HandlerStep(c)
    \/ \E n \in Notifier : \E t \in Tag : Lookup(n, t)
    \/ \E n \in Notifier : NotifierStep(n)
    \/ \E c \in Conn : Answer(c) \/ RateLimited(c) \/ Hangup(c)
    \/ \E s \in Server : DeleteServer(s)
    \/ Restart

Spec == Init /\ [][Next]_vars

(* The scheduler runs every goroutine that can move, and the timer of a     *)
(* notifier fires. Nothing is assumed of VPN servers or of the network.    *)
Fairness ==
    /\ \A c \in Conn : WF_vars(HandlerStep(c))
    /\ \A n \in Notifier : WF_vars(NotifierStep(n))

FairSpec == Spec /\ Fairness
-----------------------------------------------------------------------------
(* Properties. *)

(* A tag is registered exactly while one handler of that tag is between      *)
(* WatchWireGuardConfig and its cancel: a stream that was refused or that   *)
(* has ended holds no tag, and no handler loses its entry to another one,  *)
(* although cancel deletes by tag without looking who owns the entry.      *)
RegistrySound ==
    \A c \in Conn, t \in Tag :
        watchers[t] = c <=> handler[c] \in Registered /\ tagOf[c] = t

(* The status store never shows a server as configured, or as failed to      *)
(* configure, when no stream of any of its instances is being served: the  *)
(* last handler to go leaves "disconnected" behind.                        *)
StatusNeedsHandler ==
    \A s \in Server :
        status[s] \in {"ok", "failed"} =>
            \E c \in Conn : handler[c] \in Active /\ ServerFor(c) = s

(* A VPN server is never sent a notification while it still owes the answer *)
(* to the previous one: the handler takes the next one from its channel    *)
(* only when the exchange is over.                                         *)
OneOutstanding ==
    \A c \in Conn :
        handler[c] \in {"listening", "sending"} => exchange[c] = "none"

(* WatchWireGuardConfig and its cancel implement an exclusive lease on the   *)
(* tag: a second instance with the same certificate, or a reconnecting one,*)
(* cannot take the notifications of a stream that is still being served,   *)
(* and a stream whose lease has ended does not come back.                  *)
Lease == INSTANCE TagLease WITH
    owner <- watchers,
    retired <- {c \in Conn : handler[c] \in {"left", "done"}}

LeaseImplemented == Lease!Spec

(* A goroutine that hands a notification to a watcher gets free again, even  *)
(* if that VPN server never answers or its handler has gone: the timeout in *)
(* notifyWGConfigChanges keeps one stuck instance from blocking all others.*)
NotifierGetsFree ==
    \A n \in Notifier : notifying[n] # None ~> notifying[n] = None

(* A stream that broke frees its tag, whatever the handler was waiting for,  *)
(* so that the VPN server is not refused for ever when it reconnects.      *)
BrokenStreamFreesTag ==
    \A c \in Conn, t \in Tag :
        watchers[t] = c /\ ~online[c] ~> watchers[t] # c

(* "GetReplicaCount returns the number of currently running replicas of the  *)
(* given server" (querier.go): while no handler is between its registration *)
(* and its end and no stream has just broken, the counter is the number of  *)
(* registered instances.                                                   *)
ReplicaCountExact ==
    (\A c \in Conn :
        /\ handler[c] \notin {"subscribed", "leaving", "left"}
        /\ handler[c] \in Registered => online[c]) =>
        \A s \in Server :
            exists[s] =>
                replicas[s] = Cardinality({t \in Tag : ServerOf[t] = s /\ watchers[t] # None})

(* The comment on the deferred update, "if this function exits, consider the *)
(* server disconnected" (vpns.go), taken as what "disconnected" means: it   *)
(* is not shown while an instance of the server is registered, online and  *)
(* served and no other handler of the server is under way.                 *)
DisconnectedMeansGone ==
    \A s \in Server, c \in Conn :
        /\ handler[c] = "listening"
        /\ online[c]
        /\ ServerFor(c) = s
        /\ exists[s]
        /\ \A d \in Conn \ {c} : handler[d] \in {"idle", "done"}
        => status[s] # "disconnected"
=============================================================================
