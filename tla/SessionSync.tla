---------------------------- MODULE SessionSync ----------------------------
(***************************************************************************)
(* The healthcheck service's copy of the valid sessions.  Sessions live in  *)
(* the devices table; a deferred trigger queues a notification for every    *)
(* change; the goroutine HandleSessionsUpdatesForHealthcheckService turns   *)
(* it into a deletion and an addition for whoever receives from the one     *)
(* shared channel, if the device is monitored by then; the handler of a     *)
(* stream sends it to the healthcheck service and waits for the answer.     *)
(* The service reads all sessions first and subscribes afterwards, does it  *)
(* again when the stream breaks, and answers clients' pings from its copy.  *)
(***************************************************************************)
EXTENDS Naturals, Sequences

CONSTANTS
    Device,
    MaxSession,   \* bound on the sessions ever started
    MaxStream,    \* bound on the streams ever opened
    MaxChanges,   \* bound on the requests that change the database
    Attempts,     \* ReconnectAttempts
    None

Session == 1..MaxSession
Stream == 1..MaxStream
Cause == {"no", "skipped", "undelivered"}

Idle == [stage |-> "idle"]
Message == [operation : {"add", "delete"}, session : Session]
Notification == [old : Session \cup {None}, new : Session \cup {None}, device : Device]

ASSUME BoundsAssumption == MaxSession \in Nat /\ MaxStream \in Nat /\ MaxChanges \in Nat
ASSUME AttemptsAssumption == Attempts \in Nat \ {0}
ASSUME NoSessionAssumption ==
    /\ None \notin Session \cup Stream
    /\ \A message \in Message : message # None
    /\ \A S \in SUBSET Session : S # None

VARIABLES
    session,      \* session[d]: devices.session_id, None if empty or the row is gone
    exists,       \* devices that have a row
    monitored,    \* devices with an adjacency to a server that has a healthcheck address
    call,         \* call[d]: the statement a request has yet to execute on d
    started,      \* sessions started so far
    changes,      \* requests made so far
    queue,        \* the notifications PostgreSQL holds for the goroutine
    job,          \* the notification the goroutine is handling
    watcher,      \* sessionsUpdatesWatcher: the stream whose handler created it, None if nil
    handler,      \* handler[c]: where SubscribeForSessionsUpdates is on stream c
    channel,      \* channel[c]: the channel it receives from
    sent,         \* sent[c]: the notification it took and that is not yet handled
    answer,       \* answer[c]: the answer on the way to it
    online,       \* streams that are not broken
    status,       \* the healthcheck status store
    process,      \* where the healthcheck service is in Connect or ReconnectOnError
    attempt,      \* number of the reconnect attempt, 0 for the first Connect
    stream,       \* the stream it subscribed on
    list,         \* its sessions, None before the first answer
    lost          \* history: whether an announcement of s, first of all, did not
                  \* reach the list since that was last read

database == <<session, exists, monitored, call, started, changes>>
streams == <<watcher, handler, channel, answer, status>>
service == <<process, attempt, stream, list>>
vars == <<database, queue, job, streams, sent, online, service, lost>>

TypeOK ==
    /\ session \in [Device -> Session \cup {None}]
    /\ exists \subseteq Device
    /\ monitored \subseteq exists
    /\ call \in [Device -> {"none", "invalidate", "delete"}]
    /\ started \in 0..MaxSession
    /\ changes \in 0..MaxChanges
    /\ queue \in Seq(Notification)
    /\ \/ job = Idle
       \/ /\ job.stage \in {"delete", "add"}
          /\ job.session \in Session
          /\ job.next \in Session \cup {None}
          /\ job.channel \in Stream \cup {None}
    /\ watcher \in Stream \cup {None}
    /\ handler \in [Stream -> {"unused", "waiting", "subscribed", "creating", "created",
                               "listening", "sending", "receiving", "leaving", "done"}]
    /\ channel \in [Stream -> Stream \cup {None}]
    /\ sent \in [Stream -> Message \cup {None}]
    /\ answer \in [Stream -> {"none", "ok", "error"}]
    /\ online \subseteq Stream
    /\ status \in {"disconnected", "ok", "error"}
    /\ process \in {"down", "requesting", "loaded", "subscribed", "failed"}
    /\ attempt \in 0..Attempts
    /\ stream \in Stream \cup {None}
    /\ list \in (SUBSET Session) \cup {None}
    /\ lost \in [Session -> Cause]

Init ==
    /\ session = [d \in Device |-> None]
    /\ exists = Device
    /\ monitored \in SUBSET Device
    /\ call = [d \in Device |-> "none"]
    /\ started = 0
    /\ changes = 0
    /\ queue = <<>>
    /\ job = Idle
    /\ watcher = None
    /\ handler = [c \in Stream |-> "unused"]
    /\ channel = [c \in Stream |-> None]
    /\ sent = [c \in Stream |-> None]
    /\ answer = [c \in Stream |-> "none"]
    /\ online = {}
    /\ status = "disconnected"
    /\ process = "down"
    /\ attempt = 0
    /\ stream = None
    /\ list = None
    /\ lost = [s \in Session |-> "no"]

(* What GetAllSessions returns. *)
Current == {session[d] : d \in Device} \ {None}

Listed == IF list = None THEN {} ELSE list

Lose(S, cause) ==
    lost' = [s \in Session |-> IF s \in S /\ lost[s] = "no" THEN cause ELSE lost[s]]

-----------------------------------------------------------------------------
(* Transactions on the devices table and on what is monitored. *)

(* The trigger is deferred: the notification is queued with the commit.      *)
(* Updates of an empty session by an empty one notify as well, with no       *)
(* effect, and are left out.                                                *)
ChangeSession(d, s) ==
    /\ session' = [session EXCEPT ![d] = s]
    /\ queue' = IF session[d] = None /\ s = None
                THEN queue
                ELSE Append(queue, [old |-> session[d], new |-> s, device |-> d])

Request ==
    /\ changes < MaxChanges
    /\ changes' = changes + 1

DatabaseOnly == UNCHANGED <<job, streams, sent, online, service, lost>>

(* GetConfiguration stores a fresh session in the device's slot. *)
Login(d) ==
    /\ d \in exists
    /\ started < MaxSession
    /\ Request
    /\ started' = started + 1
    /\ ChangeSession(d, started + 1)
    /\ UNCHANGED <<exists, monitored, call>>
    /\ DatabaseOnly

(* Expiry, changed credentials or keys, a revoked certificate. *)
Invalidate(d) ==
    /\ session[d] # None
    /\ Request
    /\ ChangeSession(d, None)
    /\ UNCHANGED <<exists, monitored, call, started>>
    /\ DatabaseOnly

(* An adjacency is created, or a server gets a healthcheck address: the       *)
(* device's sessions are invalidated by a later statement.                  *)
Monitor(d) ==
    /\ d \in exists \ monitored
    /\ call[d] = "none"
    /\ Request
    /\ monitored' = monitored \cup {d}
    /\ call' = [call EXCEPT ![d] = "invalidate"]
    /\ UNCHANGED <<session, exists, started, queue>>
    /\ DatabaseOnly

(* DeleteAdjacency, or UpdateServer removing the healthcheck address: again   *)
(* the sessions are invalidated afterwards.  DeleteDevice removes the        *)
(* adjacencies before the row.  The deletion of a server takes its           *)
(* adjacencies with it and leaves the sessions.                             *)
Unmonitor(d, next) ==
    /\ d \in monitored
    /\ call[d] = "none"
    /\ Request
    /\ monitored' = monitored \ {d}
    /\ call' = [call EXCEPT ![d] = next]
    /\ UNCHANGED <<session, exists, started, queue>>
    /\ DatabaseOnly

(* The second statement of the request, or an error instead. *)
Finish(d) ==
    /\ call[d] # "none"
    /\ call' = [call EXCEPT ![d] = "none"]
    /\ \/ /\ ChangeSession(d, None)
          /\ IF call[d] = "delete"
             THEN exists' = exists \ {d} /\ monitored' = monitored \ {d}
             ELSE UNCHANGED <<exists, monitored>>
       \/ UNCHANGED <<session, exists, monitored, queue>>
    /\ UNCHANGED <<started, changes>>
    /\ DatabaseOnly

(* Variant: the adjacencies stay behind. *)
DeleteTemplateOnly(d) ==
    /\ d \in exists
    /\ Request
    /\ ChangeSession(d, None)
    /\ exists' = exists \ {d}
    /\ UNCHANGED <<monitored, call, started>>
    /\ DatabaseOnly

(* DeleteDeviceTemplateByUserID, for a template with one device: adjacencies, *)
(* session and row go in one transaction, whose notifications follow it.    *)
DeleteTemplate(d) ==
    /\ d \in exists
    /\ Request
    /\ ChangeSession(d, None)
    /\ exists' = exists \ {d}
    /\ monitored' = monitored \ {d}
    /\ UNCHANGED <<call, started>>
    /\ DatabaseOnly

-----------------------------------------------------------------------------
(* HandleSessionsUpdatesForHealthcheckService. *)

(* The select of notifyDeviceSessionChanges evaluates the channel when it is  *)
(* entered: one that is nil then stays nil for the five seconds.             *)
Announce(stage, s, next) ==
    job' = [stage |-> stage, session |-> s, next |-> next, channel |-> watcher]

Announced(n) == {n.old, n.new} \ {None}

(* Variant: only one of the two announcements is made. *)
HandleOne ==
    /\ job = Idle
    /\ queue # <<>>
    /\ queue' = Tail(queue)
    /\ LET n == Head(queue) IN
       \/ /\ n.device \notin monitored
          /\ Lose(Announced(n), "skipped")
          /\ UNCHANGED job
       \/ /\ n.device \in monitored
          /\ IF n.old # None THEN Announce("delete", n.old, None)
             ELSE Announce("add", n.new, None)
          /\ UNCHANGED lost
    /\ UNCHANGED <<database, streams, sent, online, service>>

Handle ==
    /\ job = Idle
    /\ queue # <<>>
    /\ queue' = Tail(queue)
    /\ LET n == Head(queue) IN
       \/ /\ n.device \notin monitored
          /\ Lose(Announced(n), "skipped")
          /\ UNCHANGED job
       \/ /\ n.device \in monitored
          /\ IF n.old # None THEN Announce("delete", n.old, n.new)
             ELSE Announce("add", n.new, None)
          /\ UNCHANGED lost
    /\ UNCHANGED <<database, streams, sent, online, service>>

Advance ==
    IF job.next = None THEN job' = Idle ELSE Announce("add", job.next, None)

Receivers == {c \in Stream : handler[c] = "listening" /\ channel[c] = job.channel}

(* Whoever receives gets it: also a handler whose stream is broken but that   *)
(* has not chosen the other case of its select, and a stream the service     *)
(* does not listen to any more.                                             *)
Deliver(c) ==
    /\ job # Idle
    /\ c \in Receivers
    /\ handler' = [handler EXCEPT ![c] = "sending"]
    /\ IF c \in online /\ c = stream
       THEN /\ sent' = [sent EXCEPT ![c] = [operation |-> job.stage, session |-> job.session]]
            /\ UNCHANGED lost
       ELSE /\ Lose({job.session}, "undelivered")
            /\ UNCHANGED sent
    /\ Advance
    /\ UNCHANGED <<database, queue, watcher, channel, answer, status, online, service>>

(* Variant: the wait for a channel that does not exist yet has no end. *)
GiveUpUnlessNil ==
    /\ job # Idle
    /\ job.channel # None
    /\ Receivers = {}
    /\ Lose({job.session}, "undelivered")
    /\ Advance
    /\ UNCHANGED <<database, queue, streams, sent, online, service>>

GiveUp ==
    /\ job # Idle
    /\ Receivers = {}
    /\ Lose({job.session}, "undelivered")
    /\ Advance
    /\ UNCHANGED <<database, queue, streams, sent, online, service>>

-----------------------------------------------------------------------------
(* SubscribeForSessionsUpdates. *)

Goto(c, state) == handler' = [handler EXCEPT ![c] = state]
HandlerOnly == UNCHANGED <<database, queue, job, sent, online, service, lost>>

RecvSubscribe(c) ==
    /\ handler[c] = "waiting"
    /\ c \in online
    /\ Goto(c, "subscribed")
    /\ status' = "ok"
    /\ UNCHANGED <<watcher, channel, answer>>
    /\ HandlerOnly

(* WatchDeviceSessionUpdates tests, creates and returns without a lock. *)
Watch(c) ==
    /\ handler[c] = "subscribed"
    /\ IF watcher = None
       THEN Goto(c, "creating") /\ UNCHANGED channel
       ELSE Goto(c, "listening") /\ channel' = [channel EXCEPT ![c] = watcher]
    /\ UNCHANGED <<watcher, answer, status>>
    /\ HandlerOnly

Create(c) ==
    /\ handler[c] = "creating"
    /\ Goto(c, "created")
    /\ watcher' = c
    /\ UNCHANGED <<channel, answer, status>>
    /\ HandlerOnly

Listen(c) ==
    /\ handler[c] = "created"
    /\ Goto(c, "listening")
    /\ channel' = [channel EXCEPT ![c] = watcher]
    /\ UNCHANGED <<watcher, answer, status>>
    /\ HandlerOnly

Send(c) ==
    /\ handler[c] = "sending"
    /\ Goto(c, IF c \in online THEN "receiving" ELSE "leaving")
    /\ UNCHANGED <<watcher, channel, answer, status>>
    /\ HandlerOnly

RecvResponse(c) ==
    /\ handler[c] = "receiving"
    /\ answer[c] # "none"
    /\ status' = answer[c]
    /\ answer' = [answer EXCEPT ![c] = "none"]
    /\ Goto(c, "listening")
    /\ UNCHANGED <<watcher, channel>>
    /\ HandlerOnly

StreamBroken(c) ==
    /\ handler[c] \in {"waiting", "listening", "receiving"}
    /\ c \notin online
    /\ Goto(c, "leaving")
    /\ UNCHANGED <<watcher, channel, answer, status>>
    /\ HandlerOnly

(* Variant: the deferred status update only after an error. *)
LeaveQuietly(c) ==
    /\ handler[c] = "leaving"
    /\ Goto(c, "done")
    /\ status' = IF status = "error" THEN "disconnected" ELSE status
    /\ UNCHANGED <<watcher, channel, answer>>
    /\ HandlerOnly

Leave(c) ==
    /\ handler[c] = "leaving"
    /\ Goto(c, "done")
    /\ status' = "disconnected"
    /\ UNCHANGED <<watcher, channel, answer>>
    /\ HandlerOnly

-----------------------------------------------------------------------------
(* The healthcheck service. *)

ServiceOnly == UNCHANGED <<database, queue, job, watcher, channel, status>>

(* What a stream carries is gone with it. *)
Break(S) ==
    /\ online' = online \ S
    /\ sent' = [c \in Stream |-> IF c \in S THEN None ELSE sent[c]]
    /\ answer' = [c \in Stream |-> IF c \in S THEN "none" ELSE answer[c]]
    /\ Lose({sent[c].session : c \in {x \in S : sent[x] # None}}, "undelivered")

Start ==
    /\ process = "down"
    /\ process' = "requesting"
    /\ attempt' = 0
    /\ UNCHANGED <<stream, list, handler, answer, sent, online, lost>>
    /\ ServiceOnly

RequestAllSessions ==
    /\ process = "requesting"
    /\ process' = "loaded"
    /\ list' = Current
    /\ lost' = [s \in Session |-> "no"]
    /\ UNCHANGED <<attempt, stream, handler, answer, sent, online>>
    /\ ServiceOnly

(* Variant: the attempts are counted from one again. *)
RetryForEver ==
    /\ process = "requesting"
    /\ IF attempt = 0
       THEN process' = "down" /\ attempt' = 0
       ELSE attempt' = 1 + (attempt % Attempts) /\ UNCHANGED process
    /\ UNCHANGED <<stream, list, handler, answer, sent, online, lost>>
    /\ ServiceOnly

(* The first Connect and the last attempt end the process. *)
RequestFails ==
    /\ process = "requesting"
    /\ IF attempt \in {0, Attempts}
       THEN process' = "down" /\ attempt' = 0
       ELSE attempt' = attempt + 1 /\ UNCHANGED process
    /\ UNCHANGED <<stream, list, handler, answer, sent, online, lost>>
    /\ ServiceOnly

(* subscribeForChanges opens the stream and sends the subscription. *)
Subscribe(c) ==
    /\ process = "loaded"
    /\ handler[c] = "unused"
    /\ \A x \in 1..c - 1 : handler[x] # "unused"
    /\ process' = "subscribed"
    /\ stream' = c
    /\ online' = online \cup {c}
    /\ handler' = [handler EXCEPT ![c] = "waiting"]
    /\ UNCHANGED <<attempt, list, answer, sent, lost>>
    /\ ServiceOnly

SubscribeFails ==
    /\ process = "loaded"
    /\ process' = "failed"
    /\ UNCHANGED <<attempt, stream, list, handler, answer, sent, online, lost>>
    /\ ServiceOnly

(* Variant: a deletion is answered and not applied. *)
IgnoreDeletion(c) ==
    /\ process = "subscribed"
    /\ stream = c
    /\ handler[c] = "receiving"
    /\ sent[c] # None
    /\ sent' = [sent EXCEPT ![c] = None]
    /\ answer' = [answer EXCEPT ![c] = "ok"]
    /\ list' = IF sent[c].operation = "add" THEN list \cup {sent[c].session} ELSE list
    /\ UNCHANGED <<process, attempt, stream, handler, online, lost>>
    /\ ServiceOnly

HandleNotification(c) ==
    /\ process = "subscribed"
    /\ stream = c
    /\ handler[c] = "receiving"
    /\ sent[c] # None
    /\ sent' = [sent EXCEPT ![c] = None]
    /\ LET s == sent[c].session
           found == sent[c].operation = "add" \/ s \in list IN
       /\ list' = IF sent[c].operation = "add" THEN list \cup {s} ELSE list \ {s}
       /\ answer' = [answer EXCEPT ![c] = IF found THEN "ok" ELSE "error"]
    /\ UNCHANGED <<process, attempt, stream, handler, online, lost>>
    /\ ServiceOnly

(* A notification over the rate is dropped and never answered. *)
RateLimited(c) ==
    /\ process = "subscribed"
    /\ stream = c
    /\ handler[c] = "receiving"
    /\ sent[c] # None
    /\ sent' = [sent EXCEPT ![c] = None]
    /\ Lose({sent[c].session}, "undelivered")
    /\ UNCHANGED <<service, handler, answer, online>>
    /\ ServiceOnly

LinkBreaks(c) ==
    /\ c \in online
    /\ Break({c})
    /\ UNCHANGED <<service, handler>>
    /\ ServiceOnly

StreamFails ==
    /\ process = "subscribed"
    /\ stream \notin online
    /\ process' = "failed"
    /\ UNCHANGED <<attempt, stream, list, handler, answer, sent, online, lost>>
    /\ ServiceOnly

(* reconnectAttempt: Disconnect clears the list, Connect asks for it again. *)
Reconnect ==
    /\ process = "failed"
    /\ process' = "requesting"
    /\ attempt' = 1
    /\ list' = None
    /\ Break({c \in online : c = stream})
    /\ UNCHANGED <<stream, handler>>
    /\ ServiceOnly

(* A signal, or the failure of the server for pings. *)
Exit ==
    /\ process' = "down"
    /\ attempt' = 0
    /\ list' = None
    /\ Break({c \in online : c = stream})
    /\ UNCHANGED <<stream, handler>>
    /\ ServiceOnly

(* IsSessionInList tests the list for nil and reads it again: when Disconnect  *)
(* comes in between, a nil dereference in the ping's handler ends the process. *)
PingPanics ==
    /\ process = "requesting"
    /\ attempt > 0
    /\ process' = "down"
    /\ attempt' = 0
    /\ UNCHANGED <<stream, list, handler, answer, sent, online, lost>>
    /\ ServiceOnly

(* The orchestrator ends and is started again. *)
Restart ==
    /\ \/ online # {}
       \/ queue # <<>>
       \/ job # Idle
       \/ \E d \in Device : call[d] # "none"
    /\ call' = [d \in Device |-> "none"]
    /\ queue' = <<>>
    /\ job' = Idle
    /\ watcher' = None
    /\ handler' = [c \in Stream |-> IF handler[c] = "unused" THEN "unused" ELSE "done"]
    /\ channel' = [c \in Stream |-> None]
    /\ answer' = [c \in Stream |-> "none"]
    /\ status' = "disconnected"
    /\ online' = {}
    /\ sent' = [c \in Stream |-> None]
    /\ Lose(Session, "undelivered")
    /\ UNCHANGED <<session, exists, monitored, started, changes, service>>

-----------------------------------------------------------------------------
NotifierStep == Handle \/ GiveUp \/ \E c \in Stream : Deliver(c)

HandlerStep(c) ==
    \/ RecvSubscribe(c)
    \/ Watch(c)
    \/ Create(c)
    \/ Listen(c)
    \/ Send(c)
    \/ RecvResponse(c)
    \/ StreamBroken(c)
    \/ Leave(c)

ServiceStep ==
    \/ RequestAllSessions
    \/ RequestFails
    \/ \E c \in Stream : Subscribe(c)
    \/ SubscribeFails
    \/ \E c \in Stream : HandleNotification(c)
    \/ \E c \in Stream : RateLimited(c)
    \/ StreamFails
    \/ Reconnect

Next ==
    \/ \E d \in Device :
        \/ Login(d)
        \/ Invalidate(d)
        \/ Monitor(d)
        \/ \E next \in {"none", "invalidate", "delete"} : Unmonitor(d, next)
        \/ Finish(d)
        \/ DeleteTemplate(d)
    \/ NotifierStep
    \/ \E c \in Stream : HandlerStep(c) \/ LinkBreaks(c)
    \/ ServiceStep
    \/ Start
    \/ Exit
    \/ PingPanics
    \/ Restart

Spec == Init /\ [][Next]_vars

(* The goroutines of both processes run when they can; nothing is assumed of  *)
(* requests, of the network, of pings or of who starts the processes.       *)
FairSpec ==
    /\ Spec
    /\ WF_vars(NotifierStep)
    /\ \A c \in Stream : WF_vars(HandlerStep(c))
    /\ WF_vars(ServiceStep)

-----------------------------------------------------------------------------
(* An announcement of s that the service's stream will still bring. *)
UnderWay(operation, s) ==
    \/ \E i \in 1..Len(queue) :
        s = IF operation = "delete" THEN queue[i].old ELSE queue[i].new
    \/ /\ job # Idle
       /\ \/ job.stage = operation /\ job.session = s
          \/ operation = "add" /\ job.next = s
    \/ \E c \in Stream : sent[c] = [operation |-> operation, session |-> s]

(* A session that ended is taken for valid only while its deletion is under   *)
(* way or after it was lost for a recorded cause (HandleSessionsUpdates...,   *)
(* handleNotification, requestAllSessions).                                 *)
StaleIsExplained ==
    \A s \in Listed \ Current : UnderWay("delete", s) \/ lost[s] # "no"

(* A valid session is missing only while its addition is under way or after   *)
(* it was lost: reading all sessions before subscribing leaves no silent gap. *)
MissingIsExplained ==
    list # None => \A s \in Current \ list : UnderWay("add", s) \/ lost[s] # "no"

(* The status store shows a connected service only while a handler is between *)
(* its subscription and its deferred update, which comes on every way out.   *)
StatusNeedsHandler ==
    status # "disconnected" =>
        \E c \in Stream : handler[c] \notin {"unused", "waiting", "done"}

(* The types, the status of the service, and that its list differs from the    *)
(* valid sessions only while an announcement is under way or was lost.        *)
SessionsSound ==
    /\ TypeOK
    /\ StatusNeedsHandler
    /\ StaleIsExplained
    /\ MissingIsExplained

(* A session that ended does not stay valid in silence: in the end it leaves  *)
(* the list or its announcement was lost for a recorded cause.               *)
RevocationSettles ==
    \A s \in Session :
        (s \in Listed \ Current) ~> (s \notin Listed \/ lost[s] # "no")

(* An error of the stream leads to a fresh list or to the end of the process: *)
(* the attempts of ReconnectOnError do not go on for ever.                  *)
ErrorLeadsToFreshList ==
    (process = "failed") ~> (process \in {"loaded", "down"})

(* DeleteDeviceTemplateByUserID clears the sessions in its transaction "to     *)
(* trigger healtcheck sessions updates": the end of a session with the row of  *)
(* its device is announced to the healthcheck service.                       *)
DeletedDeviceIsAnnounced ==
    [][/\ Handle
       /\ Head(queue).device \notin exists
       /\ Head(queue).old \in Listed
       => job' # Idle]_vars
=============================================================================
