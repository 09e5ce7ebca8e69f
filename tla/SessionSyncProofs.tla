------------------------- MODULE SessionSyncProofs -------------------------
(***************************************************************************)
(* The healthcheck service's list of sessions, for any devices and any      *)
(* numbers of sessions, streams, requests and attempts: it differs from the  *)
(* valid sessions only while an announcement is under way or after one was   *)
(* lost for a recorded cause, whatever breaks or restarts in between.        *)
(*                                                                         *)
(* SessionsSound is not inductive.  It speaks of what is under way and not   *)
(* of the order it comes in: were the addition of an ended session applied   *)
(* after its deletion, it would stay in the list for good.  The invariant    *)
(* below follows one session along its way: in the queue, with the goroutine *)
(* and on the stream its addition is always ahead of its deletion, the       *)
(* deletion is never announced while it is valid, at most one notification   *)
(* is between a handler and the service, and the stream the service has left *)
(* carries none.                                                           *)
(***************************************************************************)
EXTENDS SessionSync, TLAPS

(* The sessions started so far. *)
Known == 1..started

(* The end of s is in the queue. *)
Ending(s) == \E j \in 1..Len(queue) : queue[j].old = s

(* Every session is of one device: its number is given once. *)
SessionsKnown ==
    /\ \A d \in Device : session[d] \in Known \cup {None}
    /\ \A d, e \in Device : session[d] = session[e] /\ session[d] # None => d = e

(* The queue has the end of a session after it has ended, and behind the start *)
(* of a session that is no longer valid its end.                            *)
QueueKnown ==
    \A i \in 1..Len(queue) :
        /\ queue[i].old # None \/ queue[i].new # None
        /\ queue[i].old # None => queue[i].old \in Known \ Current
        /\ queue[i].new # None =>
            /\ queue[i].new \in Known
            /\ \/ queue[i].new \in Current
               \/ \E j \in i + 1..Len(queue) : queue[j].old = queue[i].new

(* The goroutine deletes what has ended; the end of what it adds and is no     *)
(* longer valid is behind it.                                               *)
JobKnown ==
    job # Idle =>
        /\ job.session \in Known
        /\ job.stage = "delete" => job.session \notin Current
        /\ job.stage = "add" => job.session \in Current \/ Ending(job.session)
        /\ job.next # None => job.next \in Known /\ (job.next \in Current \/ Ending(job.next))

(* The only stream that is not broken is the one the service listens to, and   *)
(* it has a list from its answer until it asks again.                       *)
ServiceKnown ==
    /\ \A c \in online : c = stream /\ process = "subscribed"
    /\ list # None <=> process \in {"loaded", "subscribed", "failed"}
    /\ Listed \subseteq Known

(* A handler has sent one notification or waits for one answer, not both. *)
Exchanges ==
    \A c \in Stream :
        /\ sent[c] # None =>
            c \in online /\ handler[c] \in {"sending", "receiving"} /\ answer[c] = "none"
        /\ answer[c] # "none" => c \in online /\ handler[c] = "receiving"

(* The same as JobKnown of what is on the stream, which the goroutine may have *)
(* overtaken with the end of the session only by losing it.                 *)
SentKnown ==
    \A c \in Stream :
        sent[c] # None =>
            LET s == sent[c].session IN
            /\ s \in Known
            /\ sent[c].operation = "delete" => s \notin Current
            /\ sent[c].operation = "add" =>
                \/ s \in Current
                \/ Ending(s)
                \/ job # Idle /\ job.stage = "delete" /\ job.session = s
                \/ lost[s] # "no"

Explained == StaleIsExplained /\ MissingIsExplained

IInv ==
    /\ TypeOK
    /\ SessionsKnown
    /\ QueueKnown
    /\ JobKnown
    /\ ServiceKnown
    /\ Exchanges
    /\ SentKnown
    /\ Explained
    /\ StatusNeedsHandler

-----------------------------------------------------------------------------
(* The parts of the types. *)

DatabaseTyped ==
    /\ session \in [Device -> Session \cup {None}]
    /\ exists \subseteq Device
    /\ monitored \subseteq exists
    /\ call \in [Device -> {"none", "invalidate", "delete"}]
    /\ started \in 0..MaxSession
    /\ changes \in 0..MaxChanges
    /\ queue \in Seq(Notification)

JobTyped ==
    \/ job = Idle
    \/ /\ job.stage \in {"delete", "add"}
       /\ job.session \in Session
       /\ job.next \in Session \cup {None}
       /\ job.channel \in Stream \cup {None}

StreamsTyped ==
    /\ watcher \in Stream \cup {None}
    /\ handler \in [Stream -> {"unused", "waiting", "subscribed", "creating", "created",
                               "listening", "sending", "receiving", "leaving", "done"}]
    /\ channel \in [Stream -> Stream \cup {None}]
    /\ sent \in [Stream -> Message \cup {None}]
    /\ answer \in [Stream -> {"none", "ok", "error"}]
    /\ online \subseteq Stream
    /\ status \in {"disconnected", "ok", "error"}

ServiceTyped ==
    /\ process \in {"down", "requesting", "loaded", "subscribed", "failed"}
    /\ attempt \in 0..Attempts
    /\ stream \in Stream \cup {None}
    /\ list \in (SUBSET Session) \cup {None}

LostTyped == lost \in [Session -> Cause]

(* What TypeOK says, by the process that the variables belong to. *)
LEMMA TypeParts ==
    TypeOK <=> DatabaseTyped /\ JobTyped /\ StreamsTyped /\ ServiceTyped /\ LostTyped
BY DEF TypeOK, DatabaseTyped, JobTyped, StreamsTyped, ServiceTyped, LostTyped

LEMMA TypePartsNext ==
    TypeOK' <=> DatabaseTyped' /\ JobTyped' /\ StreamsTyped' /\ ServiceTyped' /\ LostTyped'
BY DEF TypeOK, DatabaseTyped, JobTyped, StreamsTyped, ServiceTyped, LostTyped

(* The queue grows at its end, and is read at its head (pg_notify). *)
LEMMA Appended ==
    ASSUME NEW S, NEW q \in Seq(S), NEW x \in S
    PROVE  /\ Append(q, x) \in Seq(S)
           /\ Len(Append(q, x)) = Len(q) + 1
           /\ \A i \in 1..Len(q) : Append(q, x)[i] = q[i]
           /\ Append(q, x)[Len(q) + 1] = x
OBVIOUS

LEMMA Headed ==
    ASSUME NEW S, NEW q \in Seq(S), q # <<>>
    PROVE  /\ Tail(q) \in Seq(S)
           /\ Len(Tail(q)) = Len(q) - 1
           /\ \A i \in 1..Len(q) - 1 : Tail(q)[i] = q[i + 1]
           /\ Head(q) = q[1]
           /\ Len(q) \in Nat \ {0}
           /\ q[1] \in S
OBVIOUS

(* A cause once recorded stays; the announcements of S have one. *)
LEMMA Losing ==
    ASSUME LostTyped, NEW S, NEW cause \in {"skipped", "undelivered"}, Lose(S, cause)
    PROVE  /\ LostTyped'
           /\ \A s \in Session : lost[s] # "no" => lost'[s] # "no"
           /\ \A s \in Session : s \in S => lost'[s] # "no"
BY DEF LostTyped, Lose, Cause

-----------------------------------------------------------------------------
(* Types. *)

LEMMA ChangeTyped ==
    ASSUME DatabaseTyped, NEW d \in Device, NEW s \in Session \cup {None}, ChangeSession(d, s)
    PROVE  /\ session' \in [Device -> Session \cup {None}]
           /\ queue' \in Seq(Notification)
<1> DEFINE n == [old |-> session[d], new |-> s, device |-> d]
<1>1. n \in Notification
  BY DEF DatabaseTyped, Notification
<1>2. queue \in Seq(Notification)
  BY DEF DatabaseTyped
<1>3. Append(queue, n) \in Seq(Notification)
  BY <1>1, <1>2, Appended
<1>4. queue' = queue \/ queue' = Append(queue, n)
  BY DEF ChangeSession
<1>5. session' \in [Device -> Session \cup {None}]
  BY DEF ChangeSession, DatabaseTyped
<1> QED
  BY <1>2, <1>3, <1>4, <1>5

LEMMA RequestsTyped ==
    ASSUME TypeOK, NEW d \in Device,
           \/ Login(d) \/ Invalidate(d) \/ Monitor(d)
           \/ \E next \in {"none", "invalidate", "delete"} : Unmonitor(d, next)
           \/ Finish(d) \/ DeleteTemplate(d)
    PROVE  TypeOK'
<1> USE BoundsAssumption
<1>1. DatabaseTyped
  BY TypeParts
<1>2. JobTyped' /\ StreamsTyped' /\ ServiceTyped' /\ LostTyped'
  <2>1. DatabaseOnly
    BY DEF Login, Invalidate, Monitor, Unmonitor, Finish, DeleteTemplate
  <2>2. JobTyped /\ StreamsTyped /\ ServiceTyped /\ LostTyped
    BY TypeParts
  <2> QED
    BY <2>1, <2>2
    DEF DatabaseOnly, streams, service, JobTyped, StreamsTyped, ServiceTyped, LostTyped
<1>3. DatabaseTyped'
  <2>1. CASE Login(d)
    <3>1. started + 1 \in Session /\ started' \in 0..MaxSession
      BY <1>1, <2>1 DEF Login, DatabaseTyped, Session
    <3>2. session' \in [Device -> Session \cup {None}] /\ queue' \in Seq(Notification)
      BY <1>1, <2>1, <3>1, ChangeTyped DEF Login
    <3> QED
      BY <1>1, <2>1, <3>1, <3>2 DEF Login, Request, DatabaseTyped
  <2>2. CASE Invalidate(d)
    <3>1. session' \in [Device -> Session \cup {None}] /\ queue' \in Seq(Notification)
      BY <1>1, <2>2, ChangeTyped DEF Invalidate
    <3> QED
      BY <1>1, <2>2, <3>1 DEF Invalidate, Request, DatabaseTyped
  <2>3. CASE Monitor(d)
    BY <1>1, <2>3 DEF Monitor, Request, DatabaseTyped
  <2>4. ASSUME NEW next \in {"none", "invalidate", "delete"}, Unmonitor(d, next)
        PROVE  DatabaseTyped'
    BY <1>1, <2>4 DEF Unmonitor, Request, DatabaseTyped
  <2>5. CASE Finish(d)
    <3>1. session' \in [Device -> Session \cup {None}] /\ queue' \in Seq(Notification)
      <4>1. CASE ChangeSession(d, None)
        BY <1>1, <4>1, ChangeTyped
      <4>2. CASE UNCHANGED <<session, exists, monitored, queue>>
        BY <1>1, <4>2 DEF DatabaseTyped
      <4> QED
        BY <2>5, <4>1, <4>2 DEF Finish
    <3>2. exists' \subseteq Device /\ monitored' \subseteq exists'
      BY <1>1, <2>5 DEF Finish, DatabaseTyped
    <3>3. call' \in [Device -> {"none", "invalidate", "delete"}]
      BY <1>1, <2>5 DEF Finish, DatabaseTyped
    <3>4. UNCHANGED <<started, changes>>
      BY <2>5 DEF Finish
    <3> QED
      BY <1>1, <3>1, <3>2, <3>3, <3>4 DEF DatabaseTyped
  <2>6. CASE DeleteTemplate(d)
    <3>1. session' \in [Device -> Session \cup {None}] /\ queue' \in Seq(Notification)
      BY <1>1, <2>6, ChangeTyped DEF DeleteTemplate
    <3> QED
      BY <1>1, <2>6, <3>1 DEF DeleteTemplate, Request, DatabaseTyped
  <2> QED
    BY <2>1, <2>2, <2>3, <2>4, <2>5, <2>6
<1> QED
  BY <1>2, <1>3, TypePartsNext

LEMMA AnnounceTyped ==
    ASSUME StreamsTyped, NEW stage \in {"delete", "add"}, NEW s \in Session,
           NEW next \in Session \cup {None}, Announce(stage, s, next)
    PROVE  /\ job' # Idle
           /\ job'.stage = stage
           /\ job'.session = s
           /\ job'.next = next
           /\ JobTyped'
<1>1. job' = [stage |-> stage, session |-> s, next |-> next, channel |-> watcher]
  BY DEF Announce
<1>2. job'.stage = stage /\ job'.session = s /\ job'.next = next /\ job'.channel = watcher
  BY <1>1
<1>3. job' # Idle
  <2>1. Idle.stage = "idle"
    BY DEF Idle
  <2> QED
    BY <1>2, <2>1
<1> QED
  BY <1>2, <1>3 DEF JobTyped, StreamsTyped

(* One announcement is over: the goroutine goes on to the addition that follows *)
(* a deletion, or to the next notification.                                 *)
LEMMA Advancing ==
    ASSUME JobTyped, StreamsTyped, job # Idle, Advance
    PROVE  /\ job.next = None => job' = Idle
           /\ job.next # None => /\ job' # Idle
                                 /\ job'.stage = "add"
                                 /\ job'.session = job.next
                                 /\ job'.next = None
           /\ JobTyped'
<1>1. CASE job.next = None
  BY <1>1 DEF Advance, JobTyped
<1>2. CASE job.next # None
  <2>1. job.next \in Session
    BY <1>2 DEF JobTyped
  <2>2. Announce("add", job.next, None)
    BY <1>2 DEF Advance
  <2> QED
    BY <1>2, <2>1, <2>2, AnnounceTyped
<1> QED
  BY <1>1, <1>2

(* What the goroutine makes of a notification. *)
LEMMA Handling ==
    ASSUME TypeOK, QueueKnown, Handle
    PROVE  LET n == queue[1] IN
           /\ queue # <<>>
           /\ n \in Notification
           /\ queue' = Tail(queue)
           /\ job = Idle
           /\ UNCHANGED <<database, streams, sent, online, service>>
           /\ \/ /\ Lose({n.old, n.new} \ {None}, "skipped")
                 /\ UNCHANGED job
              \/ /\ n.old # None
                 /\ Announce("delete", n.old, n.new)
                 /\ UNCHANGED lost
              \/ /\ n.old = None
                 /\ n.new # None
                 /\ Announce("add", n.new, None)
                 /\ UNCHANGED lost
<1>1. queue \in Seq(Notification) /\ queue # <<>>
  BY TypeParts DEF DatabaseTyped, Handle
<1>2. Head(queue) = queue[1] /\ queue[1] \in Notification /\ 1 \in 1..Len(queue)
  BY <1>1, Headed
<1>3. queue[1].old # None \/ queue[1].new # None
  BY <1>2 DEF QueueKnown
<1>4. \/ Lose(Announced(queue[1]), "skipped") /\ UNCHANGED job
      \/ /\ IF queue[1].old # None THEN Announce("delete", queue[1].old, queue[1].new)
            ELSE Announce("add", queue[1].new, None)
         /\ UNCHANGED lost
  BY <1>2 DEF Handle
<1>5. Announced(queue[1]) = {queue[1].old, queue[1].new} \ {None}
  BY DEF Announced
<1>6. /\ queue' = Tail(queue)
      /\ job = Idle
      /\ UNCHANGED <<database, streams, sent, online, service>>
  BY DEF Handle
<1> QED
  BY <1>1, <1>2, <1>3, <1>4, <1>5, <1>6

LEMMA NotifierTyped ==
    ASSUME TypeOK, QueueKnown, NotifierStep
    PROVE  TypeOK'
<1>1. DatabaseTyped /\ JobTyped /\ StreamsTyped /\ ServiceTyped /\ LostTyped
  BY TypeParts
<1>2. CASE Handle
  <2>1. UNCHANGED <<database, streams, sent, online, service>> /\ queue' = Tail(queue)
    BY <1>2 DEF Handle
  <2>2. queue' \in Seq(Notification)
    BY <1>1, <1>2, <2>1, Headed DEF Handle, DatabaseTyped
  <2>3. DatabaseTyped'
    BY <1>1, <2>1, <2>2 DEF database, DatabaseTyped
  <2>4. StreamsTyped' /\ ServiceTyped'
    BY <1>1, <2>1 DEF streams, service, StreamsTyped, ServiceTyped
  <2>5. JobTyped' /\ LostTyped'
    <3>1. queue[1].old \in Session \cup {None} /\ queue[1].new \in Session \cup {None}
      BY <1>2, Handling DEF Notification
    <3>2. CASE Lose({queue[1].old, queue[1].new} \ {None}, "skipped") /\ UNCHANGED job
      BY <1>1, <3>2, Losing DEF JobTyped
    <3>3. CASE /\ queue[1].old # None
               /\ Announce("delete", queue[1].old, queue[1].new)
               /\ UNCHANGED lost
      BY <1>1, <3>1, <3>3, AnnounceTyped DEF LostTyped
    <3>4. CASE /\ queue[1].new # None
               /\ Announce("add", queue[1].new, None)
               /\ UNCHANGED lost
      BY <1>1, <3>1, <3>4, AnnounceTyped DEF LostTyped
    <3> QED
      BY <1>2, <3>2, <3>3, <3>4, Handling
  <2> QED
    BY <2>3, <2>4, <2>5, TypePartsNext
<1>3. CASE GiveUp
  <2>1. UNCHANGED <<database, queue, streams, sent, online, service>>
    BY <1>3 DEF GiveUp
  <2>2. JobTyped' /\ LostTyped'
    BY <1>1, <1>3, Advancing, Losing DEF GiveUp
  <2> QED
    BY <1>1, <2>1, <2>2, TypePartsNext
    DEF database, streams, service, DatabaseTyped, StreamsTyped, ServiceTyped
<1>4. ASSUME NEW c \in Stream, Deliver(c)
      PROVE  TypeOK'
  <2>1. job # Idle /\ Advance /\ handler' = [handler EXCEPT ![c] = "sending"]
        /\ UNCHANGED <<database, queue, watcher, channel, answer, status, online, service>>
    BY <1>4 DEF Deliver
  <2>2. JobTyped'
    BY <1>1, <2>1, Advancing
  <2>3. sent' \in [Stream -> Message \cup {None}] /\ LostTyped'
    <3>1. CASE sent' = [sent EXCEPT ![c] = [operation |-> job.stage, session |-> job.session]]
               /\ UNCHANGED lost
      <4>1. [operation |-> job.stage, session |-> job.session] \in Message
        BY <1>1, <2>1 DEF JobTyped, Message
      <4> QED
        BY <1>1, <3>1, <4>1 DEF StreamsTyped, LostTyped
    <3>2. CASE Lose({job.session}, "undelivered") /\ UNCHANGED sent
      BY <1>1, <3>2, Losing DEF StreamsTyped
    <3> QED
      BY <1>4, <3>1, <3>2 DEF Deliver
  <2>4. StreamsTyped'
    BY <1>1, <2>1, <2>3 DEF StreamsTyped
  <2> QED
    BY <1>1, <2>1, <2>2, <2>3, <2>4, TypePartsNext DEF database, service, DatabaseTyped, ServiceTyped
<1> QED
  BY <1>2, <1>3, <1>4 DEF NotifierStep

LEMMA HandlersTyped ==
    ASSUME TypeOK, NEW c \in Stream, HandlerStep(c)
    PROVE  TypeOK'
<1>1. DatabaseTyped /\ JobTyped /\ StreamsTyped /\ ServiceTyped /\ LostTyped
  BY TypeParts
<1>2. HandlerOnly
  BY DEF HandlerStep, RecvSubscribe, Watch, Create, Listen, Send, RecvResponse, StreamBroken, Leave
<1>3. DatabaseTyped' /\ JobTyped' /\ ServiceTyped' /\ LostTyped'
  BY <1>1, <1>2 DEF HandlerOnly, database, service, DatabaseTyped, JobTyped, ServiceTyped, LostTyped
<1>4. StreamsTyped'
  <2>1. UNCHANGED <<sent, online>>
    BY <1>2 DEF HandlerOnly
  <2>2. CASE RecvSubscribe(c)
    BY <1>1, <2>1, <2>2 DEF RecvSubscribe, Goto, StreamsTyped
  <2>3. CASE Watch(c)
    BY <1>1, <2>1, <2>3 DEF Watch, Goto, StreamsTyped
  <2>4. CASE Create(c)
    BY <1>1, <2>1, <2>4 DEF Create, Goto, StreamsTyped
  <2>5. CASE Listen(c)
    BY <1>1, <2>1, <2>5 DEF Listen, Goto, StreamsTyped
  <2>6. CASE Send(c)
    BY <1>1, <2>1, <2>6 DEF Send, Goto, StreamsTyped
  <2>7. CASE RecvResponse(c)
    BY <1>1, <2>1, <2>7 DEF RecvResponse, Goto, StreamsTyped
  <2>8. CASE StreamBroken(c)
    BY <1>1, <2>1, <2>8 DEF StreamBroken, Goto, StreamsTyped
  <2>9. CASE Leave(c)
    BY <1>1, <2>1, <2>9 DEF Leave, Goto, StreamsTyped
  <2> QED
    BY <2>2, <2>3, <2>4, <2>5, <2>6, <2>7, <2>8, <2>9 DEF HandlerStep
<1> QED
  BY <1>3, <1>4, TypePartsNext

(* What a stream carries is lost with it, and nothing of another one. *)
LEMMA Breaking ==
    ASSUME TypeOK, NEW S \in SUBSET Stream, Break(S)
    PROVE  /\ online' = online \ S
           /\ sent' \in [Stream -> Message \cup {None}]
           /\ answer' \in [Stream -> {"none", "ok", "error"}]
           /\ \A c \in Stream : sent'[c] = IF c \in S THEN None ELSE sent[c]
           /\ \A c \in Stream : answer'[c] = IF c \in S THEN "none" ELSE answer[c]
           /\ LostTyped'
           /\ \A s \in Session : lost[s] # "no" => lost'[s] # "no"
           /\ \A c \in S : sent[c] # None => lost'[sent[c].session] # "no"
<1>1. StreamsTyped /\ LostTyped
  BY TypeParts
<1> DEFINE gone == {sent[c].session : c \in {x \in S : sent[x] # None}}
<1>2. Lose(gone, "undelivered")
  BY DEF Break
<1>3. /\ LostTyped'
      /\ \A s \in Session : lost[s] # "no" => lost'[s] # "no"
      /\ \A s \in Session : s \in gone => lost'[s] # "no"
  BY <1>1, <1>2, Losing
<1>4. ASSUME NEW c \in S, sent[c] # None
      PROVE  lost'[sent[c].session] # "no"
  <2>1. sent[c] \in Message
    BY <1>1, <1>4 DEF StreamsTyped
  <2>2. sent[c].session \in Session
    BY <2>1 DEF Message
  <2> QED
    BY <1>3, <1>4, <2>2
<1>5. /\ online' = online \ S
      /\ sent' = [c \in Stream |-> IF c \in S THEN None ELSE sent[c]]
      /\ answer' = [c \in Stream |-> IF c \in S THEN "none" ELSE answer[c]]
  BY DEF Break
<1>6. sent' \in [Stream -> Message \cup {None}]
  BY <1>1, <1>5 DEF StreamsTyped
<1>7. answer' \in [Stream -> {"none", "ok", "error"}]
  BY <1>1, <1>5 DEF StreamsTyped
<1> HIDE DEF gone
<1> QED
  BY <1>3, <1>4, <1>5, <1>6, <1>7

(* The steps of the service that leave streams and announcements alone. *)
ServiceAlone ==
    \/ Start \/ RequestFails \/ SubscribeFails \/ StreamFails \/ PingPanics

LEMMA ServiceAloneTyped ==
    ASSUME TypeOK, ServiceAlone
    PROVE  /\ TypeOK'
           /\ UNCHANGED <<database, queue, job, streams, sent, online, stream, list, lost>>
           /\ process = "subscribed" => stream \notin online
           /\ process \in {"loaded", "subscribed", "failed"} <=>
                process' \in {"loaded", "subscribed", "failed"}
<1>1. DatabaseTyped /\ JobTyped /\ StreamsTyped /\ ServiceTyped /\ LostTyped
  BY TypeParts
<1>2. /\ UNCHANGED <<database, queue, job, streams, sent, online, stream, list, lost>>
      /\ process = "subscribed" => stream \notin online
      /\ process \in {"loaded", "subscribed", "failed"} <=>
            process' \in {"loaded", "subscribed", "failed"}
  BY DEF ServiceAlone, Start, RequestFails, SubscribeFails, StreamFails, PingPanics,
         ServiceOnly, streams
<1>3. process' \in {"down", "requesting", "loaded", "subscribed", "failed"}
  BY <1>1 DEF ServiceAlone, Start, RequestFails, SubscribeFails, StreamFails, PingPanics,
              ServiceTyped
<1>4. attempt' \in 0..Attempts
  BY <1>1, AttemptsAssumption
  DEF ServiceAlone, Start, RequestFails, SubscribeFails, StreamFails, PingPanics, ServiceTyped
<1>5. ServiceTyped'
  BY <1>1, <1>2, <1>3, <1>4 DEF ServiceTyped
<1>6. DatabaseTyped' /\ JobTyped' /\ StreamsTyped' /\ LostTyped'
  BY <1>1, <1>2 DEF database, streams, DatabaseTyped, JobTyped, StreamsTyped, LostTyped
<1> QED
  BY <1>2, <1>5, <1>6, TypePartsNext

LEMMA RequestAllTyped ==
    ASSUME TypeOK, RequestAllSessions
    PROVE  TypeOK'
<1>1. DatabaseTyped /\ JobTyped /\ StreamsTyped /\ ServiceTyped /\ LostTyped
  BY TypeParts
<1>2. Current \in SUBSET Session
  BY <1>1 DEF Current, DatabaseTyped
<1>3. ServiceTyped' /\ LostTyped'
  BY <1>1, <1>2 DEF RequestAllSessions, ServiceTyped, LostTyped, Cause
<1>4. UNCHANGED <<database, queue, job, streams, sent, online>>
  BY DEF RequestAllSessions, ServiceOnly, streams
<1>5. DatabaseTyped' /\ JobTyped' /\ StreamsTyped'
  BY <1>1, <1>4 DEF database, streams, DatabaseTyped, JobTyped, StreamsTyped
<1> QED
  BY <1>3, <1>5, TypePartsNext

LEMMA SubscribeTyped ==
    ASSUME TypeOK, NEW c \in Stream, Subscribe(c)
    PROVE  TypeOK'
<1>1. DatabaseTyped /\ JobTyped /\ StreamsTyped /\ ServiceTyped /\ LostTyped
  BY TypeParts
<1>2. UNCHANGED <<database, queue, job, watcher, channel, status, attempt, list, answer, sent, lost>>
  BY DEF Subscribe, ServiceOnly
<1>3. /\ handler' = [handler EXCEPT ![c] = "waiting"]
      /\ online' = online \cup {c}
      /\ stream' = c
      /\ process' = "subscribed"
  BY DEF Subscribe
<1>4. StreamsTyped' /\ ServiceTyped'
  BY <1>1, <1>2, <1>3 DEF StreamsTyped, ServiceTyped
<1>5. DatabaseTyped' /\ JobTyped' /\ LostTyped'
  BY <1>1, <1>2 DEF database, DatabaseTyped, JobTyped, LostTyped
<1> QED
  BY <1>4, <1>5, TypePartsNext

LEMMA NotifiedTyped ==
    ASSUME TypeOK, ServiceKnown, NEW c \in Stream, HandleNotification(c) \/ RateLimited(c)
    PROVE  TypeOK'
<1>1. DatabaseTyped /\ JobTyped /\ StreamsTyped /\ ServiceTyped /\ LostTyped
  BY TypeParts
<1>2. sent[c] \in Message /\ sent[c].session \in Session
  <2>1. sent[c] # None
    BY DEF HandleNotification, RateLimited
  <2>2. sent[c] \in Message
    BY <1>1, <2>1 DEF StreamsTyped
  <2> QED
    BY <2>2 DEF Message
<1>3. /\ UNCHANGED <<database, queue, job, watcher, channel, status, handler, online, process, attempt, stream>>
      /\ sent' = [sent EXCEPT ![c] = None]
  BY DEF HandleNotification, RateLimited, ServiceOnly, service
<1>4. CASE HandleNotification(c)
  <2>1. list \in SUBSET Session
    BY <1>1, <1>4 DEF HandleNotification, ServiceKnown, ServiceTyped
  <2>2. list' \in SUBSET Session /\ answer' \in [Stream -> {"none", "ok", "error"}] /\ UNCHANGED lost
    BY <1>1, <1>2, <1>4, <2>1 DEF HandleNotification, StreamsTyped
  <2> QED
    BY <1>1, <1>3, <2>2, TypePartsNext
    DEF database, DatabaseTyped, JobTyped, StreamsTyped, ServiceTyped, LostTyped
<1>5. CASE RateLimited(c)
  <2>1. UNCHANGED <<list, answer>> /\ LostTyped'
    BY <1>1, <1>5, Losing DEF RateLimited, service
  <2> QED
    BY <1>1, <1>3, <2>1, TypePartsNext
    DEF database, DatabaseTyped, JobTyped, StreamsTyped, ServiceTyped
<1> QED
  BY <1>4, <1>5

(* The steps that break the stream. *)
LEMMA BreaksTyped ==
    ASSUME TypeOK, Reconnect \/ Exit \/ \E c \in Stream : LinkBreaks(c)
    PROVE  /\ TypeOK'
           /\ UNCHANGED <<database, queue, job, watcher, handler, channel, status, stream>>
           /\ \/ /\ Break({c \in online : c = stream})
                 /\ list' = None
                 /\ process' \in {"down", "requesting"}
              \/ \E c \in online : Break({c}) /\ UNCHANGED <<list, process>>
<1>1. DatabaseTyped /\ JobTyped /\ StreamsTyped /\ ServiceTyped /\ LostTyped
  BY TypeParts
<1>2. /\ UNCHANGED <<database, queue, job, watcher, handler, channel, status, stream>>
      /\ \/ /\ Break({c \in online : c = stream})
            /\ list' = None
            /\ process' \in {"down", "requesting"}
         \/ \E c \in online : Break({c}) /\ UNCHANGED <<list, process>>
  BY DEF Reconnect, Exit, LinkBreaks, ServiceOnly, service
<1>3. process' \in {"down", "requesting", "loaded", "subscribed", "failed"} /\ attempt' \in 0..Attempts
  <2>1. 0 \in 0..Attempts /\ 1 \in 0..Attempts
    BY AttemptsAssumption
  <2>2. CASE Reconnect
    BY <2>1, <2>2 DEF Reconnect
  <2>3. CASE Exit
    BY <2>1, <2>3 DEF Exit
  <2>4. CASE \E c \in Stream : LinkBreaks(c)
    BY <1>1, <2>4 DEF LinkBreaks, service, ServiceTyped
  <2> QED
    BY <2>2, <2>3, <2>4
<1>4. ServiceTyped'
  BY <1>1, <1>2, <1>3 DEF ServiceTyped
<1>5. /\ online' \subseteq Stream
      /\ sent' \in [Stream -> Message \cup {None}]
      /\ answer' \in [Stream -> {"none", "ok", "error"}]
      /\ LostTyped'
  <2>1. ASSUME NEW S \in SUBSET Stream, Break(S)
        PROVE  /\ online' \subseteq Stream
               /\ sent' \in [Stream -> Message \cup {None}]
               /\ answer' \in [Stream -> {"none", "ok", "error"}]
               /\ LostTyped'
    BY <1>1, <2>1, Breaking DEF StreamsTyped
  <2>2. {c \in online : c = stream} \in SUBSET Stream /\ \A c \in online : {c} \in SUBSET Stream
    BY <1>1 DEF StreamsTyped
  <2> QED
    BY <1>2, <2>1, <2>2
<1>6. DatabaseTyped' /\ JobTyped' /\ StreamsTyped'
  BY <1>1, <1>2, <1>5 DEF database, DatabaseTyped, JobTyped, StreamsTyped
<1> QED
  BY <1>2, <1>4, <1>5, <1>6, TypePartsNext

LEMMA RestartTyped ==
    ASSUME TypeOK, Restart
    PROVE  /\ TypeOK'
           /\ \A s \in Session : lost'[s] # "no"
<1>1. DatabaseTyped /\ JobTyped /\ StreamsTyped /\ ServiceTyped /\ LostTyped
  BY TypeParts
<1>2. LostTyped' /\ \A s \in Session : lost'[s] # "no"
  BY <1>1, Losing DEF Restart
<1>3. DatabaseTyped'
  BY <1>1 DEF Restart, DatabaseTyped
<1>4. StreamsTyped' /\ JobTyped' /\ ServiceTyped'
  BY <1>1 DEF Restart, StreamsTyped, JobTyped, ServiceTyped, service
<1> QED
  BY <1>2, <1>3, <1>4, TypePartsNext

-----------------------------------------------------------------------------
(* What is under way. *)

(* What was under way still is or has been lost. *)
Carried(operation, s) ==
    UnderWay(operation, s) => UnderWay(operation, s)' \/ lost'[s] # "no"

(* As long as the list and the sessions stay, so does the explanation of how *)
(* they differ.                                                             *)
LEMMA ExplainedKept ==
    ASSUME TypeOK, Explained, UNCHANGED <<session, list>>,
           \A s \in Session : lost[s] # "no" => lost'[s] # "no",
           \A s \in Session : Carried("delete", s) /\ Carried("add", s)
    PROVE  Explained'
<1>1. Current \subseteq Session /\ Listed \subseteq Session
  BY TypeParts DEF DatabaseTyped, ServiceTyped, Current, Listed
<1>2. Current' = Current /\ Listed' = Listed
  BY DEF Current, Listed
<1>3. StaleIsExplained'
  BY <1>1, <1>2 DEF Explained, StaleIsExplained, Carried
<1>4. MissingIsExplained'
  BY <1>1, <1>2 DEF Explained, MissingIsExplained, Carried
<1> QED
  BY <1>3, <1>4 DEF Explained

(* Without a list nothing has to be explained. *)
LEMMA NoList ==
    ASSUME list' = None
    PROVE  Explained'
BY DEF Explained, StaleIsExplained, MissingIsExplained, Listed

-----------------------------------------------------------------------------
(* Requests. *)

(* Sessions are used by nobody but the database, the queue and what they are     *)
(* compared with.                                                           *)
relevant == <<session, started, queue, job, sent, answer, handler, online, status, process,
              stream, list, lost>>

LEMMA NothingRelevant ==
    ASSUME IInv, TypeOK', UNCHANGED relevant
    PROVE  IInv'
<1>1. Known' = Known /\ Current' = Current /\ Listed' = Listed /\ \A s : Ending(s)' = Ending(s)
  BY DEF relevant, Known, Current, Listed, Ending
<1>2. SessionsKnown' /\ QueueKnown' /\ JobKnown'
  BY <1>1 DEF IInv, relevant, SessionsKnown, QueueKnown, JobKnown
<1>3. ServiceKnown' /\ Exchanges' /\ SentKnown'
  BY <1>1 DEF IInv, relevant, ServiceKnown, Exchanges, SentKnown
<1>4. StatusNeedsHandler'
  BY DEF IInv, relevant, StatusNeedsHandler
<1>5. \A s \in Session : Carried("delete", s) /\ Carried("add", s)
  BY DEF relevant, Carried, UnderWay
<1>6. Explained'
  BY <1>5, ExplainedKept DEF IInv, relevant
<1> QED
  BY <1>2, <1>3, <1>4, <1>6 DEF IInv

(* d's session ends and another may start: the queue has both, in this order, *)
(* at its end.                                                              *)
LEMMA SessionChanges ==
    ASSUME IInv, TypeOK', NEW d \in Device, NEW s \in {None, started + 1}, ChangeSession(d, s),
           s = None => started' = started,
           s # None => s \in Session /\ started' = s
    PROVE  /\ Known \subseteq Known'
           /\ s # None => s \in Known' \ Known
           /\ SessionsKnown'
           /\ Current' = (Current \ {session[d]}) \cup ({s} \ {None})
           /\ \A x : x = session[d] /\ x # None => x \in Current /\ Ending(x)'
           /\ \A x : Ending(x) => Ending(x)'
           /\ \A i \in 1..Len(queue) : i \in 1..Len(queue') /\ queue'[i] = queue[i]
           /\ s # None => \E i \in 1..Len(queue') : queue'[i].new = s
           /\ QueueKnown'
<1> DEFINE n == [old |-> session[d], new |-> s, device |-> d]
<1>1. DatabaseTyped /\ DatabaseTyped'
  BY TypeParts, TypePartsNext DEF IInv
<1>2. Known \subseteq Known' /\ (s # None => s \in Known' \ Known)
  BY <1>1 DEF Known, DatabaseTyped
<1>3. /\ session' = [session EXCEPT ![d] = s]
      /\ session \in [Device -> Session \cup {None}]
  BY <1>1 DEF ChangeSession, DatabaseTyped
<1>4. \A e \in Device : session'[e] = IF e = d THEN s ELSE session[e]
  BY <1>3
<1>5. \A e \in Device : session[e] \in Known \cup {None}
  BY DEF IInv, SessionsKnown
<1>6. SessionsKnown'
  BY <1>2, <1>4, <1>5 DEF IInv, SessionsKnown
<1>7. Current' = (Current \ {session[d]}) \cup ({s} \ {None})
  BY <1>4 DEF IInv, SessionsKnown, Current
<1>8. session[d] # None => session[d] \in Current /\ session[d] \in Known /\ session[d] \notin Current'
  <2>1. session[d] # None => session[d] # s
    BY <1>2, <1>5
  <2> QED
    BY <1>5, <1>7, <2>1 DEF Current
<1>9. \A x \in Known \ Current : x \notin Current'
  BY <1>2, <1>7
<1>10. queue \in Seq(Notification) /\ Len(queue) \in Nat
  BY <1>1 DEF DatabaseTyped
<1>11. n \in Notification
  BY <1>1, <1>3 DEF Notification
<1>12. CASE session[d] = None /\ s = None
  <2>1. queue' = queue /\ started' = started
    BY <1>12 DEF ChangeSession
  <2>2. Current' = Current
    BY <1>7, <1>12 DEF Current
  <2>3. QueueKnown'
    BY <2>1, <2>2 DEF IInv, QueueKnown, Known
  <2> QED
    BY <1>2, <1>6, <1>7, <1>12, <2>1, <2>3 DEF Ending
<1>13. CASE session[d] # None \/ s # None
  <2>1. queue' = Append(queue, n)
    BY <1>13 DEF ChangeSession
  <2>2. /\ Len(queue') = Len(queue) + 1
        /\ \A i \in 1..Len(queue) : queue'[i] = queue[i]
        /\ queue'[Len(queue) + 1] = n
    BY <1>10, <1>11, <2>1, Appended
  <2>3. /\ \A i \in 1..Len(queue) : i \in 1..Len(queue')
        /\ Len(queue) + 1 \in 1..Len(queue')
        /\ \A i \in 1..Len(queue') : i \in 1..Len(queue) \/ i = Len(queue) + 1
    BY <1>10, <2>2
  <2>4. \A x : Ending(x) => Ending(x)'
    BY <2>2, <2>3 DEF Ending
  <2>5. n.old = session[d] /\ n.new = s
    OBVIOUS
  <2> HIDE DEF n
  <2>6. \A x : x = session[d] /\ x # None => Ending(x)'
    BY <2>2, <2>3, <2>5 DEF Ending
  <2>7. ASSUME NEW i \in 1..Len(queue')
        PROVE  /\ queue'[i].old # None \/ queue'[i].new # None
               /\ queue'[i].old # None => queue'[i].old \in Known' \ Current'
               /\ queue'[i].new # None =>
                    /\ queue'[i].new \in Known'
                    /\ \/ queue'[i].new \in Current'
                       \/ \E j \in i + 1..Len(queue') : queue'[j].old = queue'[i].new
    <3>1. CASE i \in 1..Len(queue)
      <4>1. queue'[i] = queue[i]
        BY <2>2, <3>1
      <4>2. /\ queue[i].old # None \/ queue[i].new # None
            /\ queue[i].old # None => queue[i].old \in Known \ Current
            /\ queue[i].new # None => queue[i].new \in Known
        BY <3>1 DEF IInv, QueueKnown
      <4>3. ASSUME queue[i].new # None, queue[i].new \notin Current'
            PROVE  \E j \in i + 1..Len(queue') : queue'[j].old = queue[i].new
        <5>1. CASE queue[i].new \in Current
          <6>1. queue[i].new = session[d]
            BY <1>7, <4>3, <5>1
          <6>2. Len(queue) + 1 \in i + 1..Len(queue')
            BY <1>10, <2>2, <3>1
          <6> QED
            BY <2>2, <2>5, <6>1, <6>2
        <5>2. CASE \E j \in i + 1..Len(queue) : queue[j].old = queue[i].new
          <6>1. PICK j \in i + 1..Len(queue) : queue[j].old = queue[i].new
            BY <5>2
          <6>2. j \in i + 1..Len(queue') /\ j \in 1..Len(queue)
            BY <1>10, <2>2, <3>1
          <6> QED
            BY <2>2, <6>1, <6>2
        <5> QED
          BY <3>1, <4>3, <5>1, <5>2 DEF IInv, QueueKnown
      <4> QED
        BY <1>2, <1>9, <4>1, <4>2, <4>3
    <3>2. CASE i = Len(queue) + 1
      <4>1. queue'[i].old = session[d] /\ queue'[i].new = s
        BY <2>2, <2>5, <3>2
      <4> QED
        BY <1>2, <1>7, <1>8, <1>13, <4>1
    <3> QED
      BY <2>3, <3>1, <3>2
  <2>8. QueueKnown'
    BY <2>7 DEF QueueKnown
  <2> QED
    BY <1>2, <1>6, <1>7, <1>8, <2>2, <2>3, <2>4, <2>5, <2>6, <2>8
<1> QED
  BY <1>12, <1>13

LEMMA SessionChangeKeeps ==
    ASSUME IInv, TypeOK', NEW d \in Device, NEW s \in {None, started + 1}, ChangeSession(d, s),
           s = None => started' = started,
           s # None => s \in Session /\ started' = s,
           DatabaseOnly
    PROVE  IInv'
<1>1. /\ Known \subseteq Known'
      /\ s # None => s \in Known' \ Known
      /\ SessionsKnown'
      /\ QueueKnown'
      /\ Current' = (Current \ {session[d]}) \cup ({s} \ {None})
      /\ \A x : x = session[d] /\ x # None => x \in Current /\ Ending(x)'
      /\ \A x : Ending(x) => Ending(x)'
      /\ \A i \in 1..Len(queue) : i \in 1..Len(queue') /\ queue'[i] = queue[i]
      /\ s # None => \E i \in 1..Len(queue') : queue'[i].new = s
  BY SessionChanges
<1>2. /\ \A x \in Known \ Current : x \notin Current'
      /\ \A x \in Current : x \in Current' \/ Ending(x)'
      /\ \A x \in Current' : x \in Current \/ x = s
  <2>1. None \notin Current
    BY DEF Current
  <2>2. \A x \in Known \ Current : x \notin Current'
    BY <1>1
  <2>3. \A x \in Current : x \in Current' \/ Ending(x)'
    BY <1>1, <2>1
  <2> QED
    BY <1>1, <2>2, <2>3
<1>3. UNCHANGED <<job, sent, answer, handler, online, status, process, stream, list, lost>>
  BY DEF DatabaseOnly, streams, service
<1>4. JobKnown'
  BY <1>1, <1>2, <1>3 DEF IInv, JobKnown
<1>5. ServiceKnown' /\ Exchanges' /\ StatusNeedsHandler'
  <2>1. Listed' = Listed
    BY <1>3 DEF Listed
  <2> QED
    BY <1>1, <1>3, <2>1 DEF IInv, ServiceKnown, Exchanges, StatusNeedsHandler
<1>6. SentKnown'
  BY <1>1, <1>2, <1>3 DEF IInv, SentKnown
<1>7. \A x \in Session : (UnderWay("delete", x) => UnderWay("delete", x)')
                         /\ (UnderWay("add", x) => UnderWay("add", x)')
  BY <1>1, <1>3 DEF UnderWay
<1>8. StaleIsExplained'
  <2>1. SUFFICES ASSUME NEW x \in Listed', x \notin Current'
                 PROVE  UnderWay("delete", x)' \/ lost'[x] # "no"
    BY DEF StaleIsExplained
  <2>2. x \in Listed /\ x \in Session
    BY <1>3, TypeParts DEF IInv, Listed, ServiceTyped
  <2>3. CASE x \in Current
    BY <1>2, <2>1, <2>3 DEF Ending, UnderWay
  <2>4. CASE x \notin Current
    BY <1>3, <1>7, <2>2, <2>4 DEF IInv, Explained, StaleIsExplained
  <2> QED
    BY <2>3, <2>4
<1>9. MissingIsExplained'
  <2>1. SUFFICES ASSUME list' # None, NEW x \in Current', x \notin list'
                 PROVE  UnderWay("add", x)' \/ lost'[x] # "no"
    BY DEF MissingIsExplained
  <2>2. CASE x = s
    <3>1. s # None
      BY <1>1, <2>1, <2>2 DEF Current
    <3> QED
      BY <1>1, <2>2, <3>1 DEF UnderWay
  <2>3. CASE x \in Current
    <3>1. x \in Session
      BY <2>3, TypeParts DEF IInv, Current, DatabaseTyped
    <3> QED
      BY <1>3, <1>7, <2>1, <2>3, <3>1 DEF IInv, Explained, MissingIsExplained
  <2> QED
    BY <1>2, <2>2, <2>3
<1> QED
  BY <1>1, <1>4, <1>5, <1>6, <1>8, <1>9 DEF IInv, Explained

LEMMA RequestsKeep ==
    ASSUME IInv, NEW d \in Device,
           \/ Login(d) \/ Invalidate(d) \/ Monitor(d)
           \/ \E next \in {"none", "invalidate", "delete"} : Unmonitor(d, next)
           \/ Finish(d) \/ DeleteTemplate(d)
    PROVE  IInv'
<1>1. TypeOK' /\ DatabaseTyped
  BY RequestsTyped, TypeParts DEF IInv
<1>2. DatabaseOnly
  BY DEF Login, Invalidate, Monitor, Unmonitor, Finish, DeleteTemplate
<1>3. CASE Login(d)
  <2>1. started + 1 \in Session
    BY <1>1, <1>3, BoundsAssumption DEF Login, DatabaseTyped, Session
  <2>2. started + 1 # None
    BY <2>1, NoSessionAssumption
  <2> QED
    BY <1>1, <1>2, <1>3, <2>1, <2>2, SessionChangeKeeps DEF Login
<1>4. ASSUME ChangeSession(d, None), UNCHANGED started
      PROVE  IInv'
  BY <1>1, <1>2, <1>4, SessionChangeKeeps
<1>5. ASSUME UNCHANGED <<session, started, queue>>
      PROVE  IInv'
  BY <1>1, <1>2, <1>5, NothingRelevant DEF relevant, DatabaseOnly, streams, service
<1> QED
  BY <1>3, <1>4, <1>5 DEF Invalidate, Monitor, Unmonitor, Finish, DeleteTemplate

-----------------------------------------------------------------------------
(* The goroutine. *)

LEMMA HandleKeeps ==
    ASSUME IInv, Handle
    PROVE  IInv'
<1> PICK n : n = queue[1]
  OBVIOUS
<1>1. TypeOK' /\ DatabaseTyped /\ JobTyped /\ StreamsTyped /\ ServiceTyped /\ LostTyped
  BY NotifierTyped, TypeParts DEF IInv, NotifierStep
<1>2. /\ queue \in Seq(Notification) /\ queue # <<>>
      /\ queue' = Tail(queue)
      /\ job = Idle
      /\ UNCHANGED <<database, streams, sent, online, service>>
      /\ n \in Notification
  BY <1>1, Handling DEF IInv, DatabaseTyped
<1>3. \/ /\ Lose({n.old, n.new} \ {None}, "skipped")
         /\ UNCHANGED job
      \/ /\ n.old # None
         /\ Announce("delete", n.old, n.new)
         /\ UNCHANGED lost
      \/ /\ n.old = None
         /\ n.new # None
         /\ Announce("add", n.new, None)
         /\ UNCHANGED lost
  BY Handling DEF IInv
<1>4. n.old \in Session \cup {None} /\ n.new \in Session \cup {None}
  BY <1>2 DEF Notification
<1>5. /\ n.old # None => n.old \in Known \ Current
      /\ n.new # None => /\ n.new \in Known
                         /\ \/ n.new \in Current
                            \/ \E j \in 2..Len(queue) : queue[j].old = n.new
  BY <1>2, Headed DEF IInv, QueueKnown
<1>6. /\ Len(queue') = Len(queue) - 1
      /\ \A i \in 1..Len(queue') : i + 1 \in 1..Len(queue) /\ queue'[i] = queue[i + 1]
      /\ \A j \in 2..Len(queue) : j - 1 \in 1..Len(queue') /\ queue'[j - 1] = queue[j]
      /\ \A j \in 1..Len(queue) : j = 1 \/ j \in 2..Len(queue)
      /\ Len(queue) \in Nat
  BY <1>2, Headed
<1>7. /\ UNCHANGED <<session, started, sent, answer, handler, online, status, process, stream, list>>
      /\ Known' = Known /\ Current' = Current /\ Listed' = Listed
  BY <1>2 DEF database, streams, service, Known, Current, Listed
<1>8. /\ \A x : (\E j \in 2..Len(queue) : queue[j].old = x) => Ending(x)'
      /\ \A x : Ending(x) => x = n.old \/ Ending(x)'
      /\ n.new # None => n.new \in Current' \/ Ending(n.new)'
  <2>1. \A x : (\E j \in 2..Len(queue) : queue[j].old = x) => Ending(x)'
    BY <1>6 DEF Ending
  <2>2. \A x : Ending(x) => x = n.old \/ Ending(x)'
    BY <1>6, <2>1 DEF Ending
  <2>3. n.new # None => n.new \in Current' \/ \E j \in 2..Len(queue) : queue[j].old = n.new
    BY <1>5, <1>7
  <2> QED
    BY <2>1, <2>2, <2>3
(* What became of n. *)
<1>9. \/ /\ job' = Idle
         /\ n.old # None => lost'[n.old] # "no"
         /\ n.new # None => lost'[n.new] # "no"
         /\ \A s \in Session : lost[s] # "no" => lost'[s] # "no"
      \/ /\ n.old # None
         /\ job' # Idle /\ job'.stage = "delete" /\ job'.session = n.old /\ job'.next = n.new
         /\ UNCHANGED lost
      \/ /\ n.old = None /\ n.new # None
         /\ job' # Idle /\ job'.stage = "add" /\ job'.session = n.new /\ job'.next = None
         /\ UNCHANGED lost
  <2>1. CASE Lose({n.old, n.new} \ {None}, "skipped") /\ UNCHANGED job
    BY <1>1, <1>2, <1>4, <2>1, Losing
  <2>2. CASE n.old # None /\ Announce("delete", n.old, n.new) /\ UNCHANGED lost
    BY <1>1, <1>4, <2>2, AnnounceTyped
  <2>3. CASE n.old = None /\ n.new # None /\ Announce("add", n.new, None) /\ UNCHANGED lost
    BY <1>1, <1>4, <2>3, AnnounceTyped
  <2> QED
    BY <1>3, <2>1, <2>2, <2>3
<1>10. \A s \in Session : lost[s] # "no" => lost'[s] # "no"
  BY <1>9
<1>11. QueueKnown'
  <2>1. SUFFICES ASSUME NEW i \in 1..Len(queue')
                 PROVE  /\ queue'[i].old # None \/ queue'[i].new # None
                        /\ queue'[i].old # None => queue'[i].old \in Known \ Current
                        /\ queue'[i].new # None =>
                             /\ queue'[i].new \in Known
                             /\ \/ queue'[i].new \in Current
                                \/ \E j \in i + 1..Len(queue') : queue'[j].old = queue'[i].new
    BY <1>7 DEF QueueKnown
  <2>2. i + 1 \in 1..Len(queue) /\ queue'[i] = queue[i + 1]
    BY <1>6
  <2>3. ASSUME NEW j \in i + 1 + 1..Len(queue)
        PROVE  j - 1 \in i + 1..Len(queue') /\ queue'[j - 1] = queue[j]
    BY <1>6, <2>2
  <2> QED
    BY <2>2, <2>3 DEF IInv, QueueKnown
<1>12. JobKnown'
  BY <1>5, <1>7, <1>8, <1>9 DEF JobKnown
<1>13. ServiceKnown' /\ Exchanges' /\ StatusNeedsHandler' /\ SessionsKnown'
  BY <1>7 DEF IInv, ServiceKnown, Exchanges, StatusNeedsHandler, SessionsKnown
<1>14. ASSUME NEW x \in Session, Ending(x)
       PROVE  \/ Ending(x)'
              \/ job' # Idle /\ job'.stage = "delete" /\ job'.session = x
              \/ lost'[x] # "no"
  <2>1. n.old = x => n.old # None
    BY NoSessionAssumption
  <2> QED
    BY <1>8, <1>9, <1>14, <2>1
<1>15. SentKnown'
  <2>1. SUFFICES ASSUME NEW c \in Stream, sent[c] # None
                 PROVE  /\ sent[c].session \in Known
                        /\ sent[c].operation = "delete" => sent[c].session \notin Current
                        /\ sent[c].operation = "add" =>
                             \/ sent[c].session \in Current
                             \/ \E x : x = sent[c].session /\ Ending(x)'
                             \/ job' # Idle /\ job'.stage = "delete" /\ job'.session = sent[c].session
                             \/ lost'[sent[c].session] # "no"
    BY <1>7 DEF SentKnown, Ending
  <2>2. sent[c].session \in Session
    BY <1>1, <2>1 DEF StreamsTyped, Message
  <2> QED
    BY <1>2, <1>10, <1>14, <2>1, <2>2 DEF IInv, SentKnown
<1>16. ASSUME NEW x \in Session
       PROVE  Carried("delete", x) /\ Carried("add", x)
  <2>1. ASSUME UnderWay("delete", x)
        PROVE  UnderWay("delete", x)' \/ lost'[x] # "no"
    <3>1. CASE Ending(x)
      BY <1>14, <3>1 DEF Ending, UnderWay
    <3>2. CASE \E c \in Stream : sent[c] = [operation |-> "delete", session |-> x]
      BY <1>7, <3>2 DEF UnderWay
    <3> QED
      BY <1>2, <2>1, <3>1, <3>2 DEF UnderWay, Ending
  <2>2. ASSUME UnderWay("add", x)
        PROVE  UnderWay("add", x)' \/ lost'[x] # "no"
    <3>1. CASE n.new = x
      BY <1>9, <3>1, NoSessionAssumption DEF UnderWay
    <3>2. CASE \E j \in 2..Len(queue) : queue[j].new = x
      BY <1>6, <3>2 DEF UnderWay
    <3>3. CASE \E c \in Stream : sent[c] = [operation |-> "add", session |-> x]
      BY <1>7, <3>3 DEF UnderWay
    <3> QED
      BY <1>2, <1>6, <2>2, <3>1, <3>2, <3>3 DEF UnderWay
  <2> QED
    BY <2>1, <2>2 DEF Carried
<1>17. Explained'
  BY <1>7, <1>10, <1>16, ExplainedKept DEF IInv
<1> QED
  BY <1>1, <1>11, <1>12, <1>13, <1>15, <1>17 DEF IInv

(* An announcement is delivered or given up, and the goroutine goes on. *)
LEMMA AnnouncedKeeps ==
    ASSUME IInv, TypeOK', job # Idle, Advance,
           UNCHANGED <<session, started, queue, list>>,
           \A s \in Session : lost[s] # "no" => lost'[s] # "no",
           \/ lost'[job.session] # "no" /\ UNCHANGED sent
           \/ \E c \in Stream :
                /\ \A x \in Stream : sent[x] = None
                /\ sent' = [sent EXCEPT ![c] = [operation |-> job.stage, session |-> job.session]]
    PROVE  SessionsKnown' /\ QueueKnown' /\ JobKnown' /\ SentKnown' /\ Explained'
<1>1. DatabaseTyped /\ JobTyped /\ StreamsTyped /\ ServiceTyped /\ LostTyped
  BY TypeParts DEF IInv
<1>2. /\ job.session \in Session /\ job.stage \in {"delete", "add"}
      /\ job.next \in Session \cup {None}
  BY <1>1 DEF JobTyped
<1>3. /\ job.next = None => job' = Idle
      /\ job.next # None => /\ job' # Idle
                            /\ job'.stage = "add"
                            /\ job'.session = job.next
                            /\ job'.next = None
  BY <1>1, Advancing
<1>4. /\ Known' = Known /\ Current' = Current /\ Listed' = Listed
      /\ \A x : Ending(x)' <=> Ending(x)
  BY DEF Known, Current, Listed, Ending
<1>5. SessionsKnown' /\ QueueKnown'
  BY <1>4 DEF IInv, SessionsKnown, QueueKnown
<1>6. JobKnown'
  <2>1. job.next # None => job.next \in Known /\ (job.next \in Current \/ Ending(job.next))
    BY DEF IInv, JobKnown
  <2>2. \A x : x = job.next /\ x # None => x \in Known /\ (x \in Current \/ Ending(x)')
    BY <1>4, <2>1
  <2>3. job' # Idle => /\ job'.stage = "add"
                       /\ job'.next = None
                       /\ job'.session \in Known
                       /\ job'.session \in Current \/ \E x : x = job'.session /\ Ending(x)'
    BY <1>3, <2>2
  <2> QED
    BY <1>4, <2>3 DEF JobKnown, Ending
<1>7. CASE lost'[job.session] # "no" /\ UNCHANGED sent
  <2>1. SentKnown'
    <3>1. SUFFICES ASSUME NEW c \in Stream, sent[c] # None
                   PROVE  /\ sent[c].session \in Known
                          /\ sent[c].operation = "delete" => sent[c].session \notin Current
                          /\ sent[c].operation = "add" =>
                               \/ sent[c].session \in Current
                               \/ \E x : x = sent[c].session /\ Ending(x)'
                               \/ lost'[sent[c].session] # "no"
      BY <1>4, <1>7 DEF SentKnown, Ending
    <3>2. sent[c].session \in Session
      BY <1>1, <3>1 DEF StreamsTyped, Message
    <3>3. /\ sent[c].session \in Known
          /\ sent[c].operation = "delete" => sent[c].session \notin Current
          /\ sent[c].operation = "add" =>
               \/ sent[c].session \in Current
               \/ Ending(sent[c].session)
               \/ job.session = sent[c].session
               \/ lost[sent[c].session] # "no"
      BY <3>1 DEF IInv, SentKnown
    <3> QED
      BY <1>4, <1>7, <3>2, <3>3
  <2>2. ASSUME NEW x \in Session
        PROVE  Carried("delete", x) /\ Carried("add", x)
    BY <1>3, <1>7, NoSessionAssumption DEF Carried, UnderWay
  <2>3. Explained'
    BY <2>2, ExplainedKept DEF IInv
  <2> QED
    BY <1>5, <1>6, <2>1, <2>3
<1>8. ASSUME NEW c \in Stream, \A x \in Stream : sent[x] = None,
             sent' = [sent EXCEPT ![c] = [operation |-> job.stage, session |-> job.session]]
      PROVE  SentKnown' /\ Explained'
  <2>1. /\ sent'[c] = [operation |-> job.stage, session |-> job.session]
        /\ \A x \in Stream : x # c => sent'[x] = None
    BY <1>1, <1>8 DEF StreamsTyped
  <2>2. sent'[c].operation = job.stage /\ sent'[c].session = job.session
    BY <2>1
  <2>3. /\ job.session \in Known
        /\ job.stage = "delete" => job.session \notin Current
        /\ job.stage = "add" => job.session \in Current \/ Ending(job.session)
    BY DEF IInv, JobKnown
  <2>4. SentKnown'
    <3>1. SUFFICES ASSUME NEW x \in Stream, sent'[x] # None
                   PROVE  /\ sent'[x].session \in Known
                          /\ sent'[x].operation = "delete" => sent'[x].session \notin Current
                          /\ sent'[x].operation = "add" =>
                               \/ sent'[x].session \in Current
                               \/ \E y : y = sent'[x].session /\ Ending(y)'
      BY <1>4 DEF SentKnown, Ending
    <3>2. x = c
      BY <2>1, <3>1
    <3> QED
      BY <1>4, <2>2, <2>3, <3>2
  <2>5. ASSUME NEW x \in Session
        PROVE  Carried("delete", x) /\ Carried("add", x)
    <3>1. \A operation \in {"delete", "add"} :
            (\E y \in Stream : sent[y] = [operation |-> operation, session |-> x]) => FALSE
      <4>1. [operation |-> "delete", session |-> x] \in Message
            /\ [operation |-> "add", session |-> x] \in Message
        BY DEF Message
      <4> QED
        BY <1>8, <4>1, NoSessionAssumption
    <3>2. UnderWay("delete", x) => UnderWay("delete", x)'
      BY <2>1, <3>1 DEF UnderWay
    <3>3. UnderWay("add", x) => UnderWay("add", x)'
      BY <1>3, <2>1, <3>1, NoSessionAssumption DEF UnderWay
    <3> QED
      BY <3>2, <3>3 DEF Carried
  <2>6. Explained'
    BY <2>5, ExplainedKept DEF IInv
  <2> QED
    BY <2>4, <2>6
<1> QED
  BY <1>5, <1>6, <1>7, <1>8

LEMMA GiveUpKeeps ==
    ASSUME IInv, GiveUp
    PROVE  IInv'
<1>1. TypeOK' /\ LostTyped /\ JobTyped
  BY NotifierTyped, TypeParts DEF IInv, NotifierStep
<1>2. /\ job # Idle /\ Advance
      /\ UNCHANGED <<session, started, queue, sent, answer, handler, online, status, process, stream, list>>
  BY DEF GiveUp, database, streams, service
<1>3. /\ \A s \in Session : lost[s] # "no" => lost'[s] # "no"
      /\ lost'[job.session] # "no"
  BY <1>1, <1>2, Losing DEF GiveUp, JobTyped
<1>4. SessionsKnown' /\ QueueKnown' /\ JobKnown' /\ SentKnown' /\ Explained'
  BY <1>1, <1>2, <1>3, AnnouncedKeeps
<1>5. ServiceKnown' /\ Exchanges' /\ StatusNeedsHandler'
  BY <1>2 DEF IInv, ServiceKnown, Exchanges, StatusNeedsHandler, Listed, Known
<1> QED
  BY <1>1, <1>4, <1>5 DEF IInv

LEMMA DeliverKeeps ==
    ASSUME IInv, NEW c \in Stream, Deliver(c)
    PROVE  IInv'
<1>1. TypeOK' /\ LostTyped /\ JobTyped /\ StreamsTyped
  BY NotifierTyped, TypeParts DEF IInv, NotifierStep
<1>2. /\ job # Idle /\ Advance /\ handler[c] = "listening"
      /\ handler' = [handler EXCEPT ![c] = "sending"]
      /\ UNCHANGED <<session, started, queue, answer, online, status, process, stream, list>>
  BY DEF Deliver, Receivers, database, service
<1>3. /\ \A s \in Session : lost[s] # "no" => lost'[s] # "no"
      /\ \/ lost'[job.session] # "no" /\ UNCHANGED sent
         \/ /\ c \in online /\ c = stream
            /\ sent' = [sent EXCEPT ![c] = [operation |-> job.stage, session |-> job.session]]
  <2>1. CASE c \in online /\ c = stream
    BY <2>1 DEF Deliver
  <2>2. CASE ~(c \in online /\ c = stream)
    BY <1>1, <1>2, <2>2, Losing DEF Deliver, JobTyped
  <2> QED
    BY <2>1, <2>2
<1>4. c = stream => \A x \in Stream : sent[x] = None
  BY <1>2 DEF IInv, ServiceKnown, Exchanges
<1>5. SessionsKnown' /\ QueueKnown' /\ JobKnown' /\ SentKnown' /\ Explained'
  BY <1>1, <1>2, <1>3, <1>4, AnnouncedKeeps
<1>6. ServiceKnown'
  BY <1>2 DEF IInv, ServiceKnown, Listed, Known
<1>7. \A x \in Stream : /\ handler'[x] = IF x = c THEN "sending" ELSE handler[x]
                        /\ sent'[x] # None => sent[x] # None \/ (x = c /\ c \in online)
  BY <1>1, <1>2, <1>3 DEF StreamsTyped
<1>8. Exchanges'
  BY <1>2, <1>7 DEF IInv, Exchanges
<1>9. StatusNeedsHandler'
  BY <1>2, <1>7 DEF IInv, StatusNeedsHandler
<1> QED
  BY <1>1, <1>5, <1>6, <1>8, <1>9 DEF IInv

-----------------------------------------------------------------------------
(* The handlers. *)

LEMMA HandlersKeep ==
    ASSUME IInv, NEW c \in Stream, HandlerStep(c)
    PROVE  IInv'
<1>1. TypeOK' /\ StreamsTyped /\ StreamsTyped'
  BY HandlersTyped, TypeParts, TypePartsNext DEF IInv
<1>2. UNCHANGED <<session, started, queue, job, sent, online, process, stream, list, lost>>
  <2>1. HandlerOnly
    BY DEF HandlerStep, RecvSubscribe, Watch, Create, Listen, Send, RecvResponse, StreamBroken, Leave
  <2> QED
    BY <2>1 DEF HandlerOnly, database, service
<1>3. \A x \in Stream : x # c => handler'[x] = handler[x] /\ answer'[x] = answer[x]
  BY <1>1 DEF HandlerStep, RecvSubscribe, Watch, Create, Listen, Send, RecvResponse, StreamBroken,
              Leave, Goto, StreamsTyped
<1>4. /\ handler[c] = "sending" => /\ handler'[c] = IF c \in online THEN "receiving" ELSE "leaving"
                                   /\ answer'[c] = answer[c]
      /\ handler[c] = "receiving" =>
            \/ handler'[c] = "leaving" /\ c \notin online /\ answer'[c] = answer[c]
            \/ handler'[c] = "listening" /\ answer'[c] = "none" /\ answer[c] # "none"
      /\ handler[c] \notin {"sending", "receiving"} => answer'[c] = answer[c]
  BY <1>1 DEF HandlerStep, RecvSubscribe, Watch, Create, Listen, Send, RecvResponse, StreamBroken,
              Leave, Goto, StreamsTyped
<1>5. Exchanges'
  <2>1. SUFFICES ASSUME NEW x \in Stream
                 PROVE  /\ sent[x] # None =>
                            x \in online /\ handler'[x] \in {"sending", "receiving"} /\ answer'[x] = "none"
                        /\ answer'[x] # "none" => x \in online /\ handler'[x] = "receiving"
    BY <1>2 DEF Exchanges
  <2>2. /\ sent[x] # None =>
            x \in online /\ handler[x] \in {"sending", "receiving"} /\ answer[x] = "none"
        /\ answer[x] # "none" => x \in online /\ handler[x] = "receiving"
    BY DEF IInv, Exchanges
  <2> QED
    BY <1>3, <1>4, <2>2
<1>6. StatusNeedsHandler'
  <2>1. \/ status' = "disconnected"
        \/ status' = status /\ handler[c] \in {"unused", "waiting", "done"}
        \/ handler'[c] \notin {"unused", "waiting", "done"}
    BY <1>1 DEF HandlerStep, RecvSubscribe, Watch, Create, Listen, Send, RecvResponse, StreamBroken,
                Leave, Goto, StreamsTyped
  <2>2. handler[c] \notin {"unused", "waiting", "done"} /\ status' # "disconnected" =>
            handler'[c] \notin {"unused", "waiting", "done"}
    BY <2>1
  <2> QED
    BY <1>3, <2>1, <2>2 DEF IInv, StatusNeedsHandler
<1>7. /\ Known' = Known /\ Current' = Current /\ Listed' = Listed
      /\ \A x : Ending(x)' <=> Ending(x)
  BY <1>2 DEF Known, Current, Listed, Ending
<1>8. SessionsKnown' /\ QueueKnown' /\ JobKnown' /\ ServiceKnown' /\ SentKnown'
  BY <1>2, <1>7 DEF IInv, SessionsKnown, QueueKnown, JobKnown, ServiceKnown, SentKnown, Ending
<1>9. Explained'
  <2>1. ASSUME NEW x \in Session
        PROVE  Carried("delete", x) /\ Carried("add", x)
    BY <1>2 DEF Carried, UnderWay
  <2> QED
    BY <1>2, <2>1, ExplainedKept DEF IInv
<1> QED
  BY <1>1, <1>5, <1>6, <1>8, <1>9 DEF IInv

-----------------------------------------------------------------------------
(* The service. *)

(* What the steps of the service leave alone. *)
outside == <<session, started, queue, job, status>>

LEMMA OutsideKept ==
    ASSUME IInv, UNCHANGED outside
    PROVE  /\ SessionsKnown' /\ QueueKnown' /\ JobKnown'
           /\ Known' = Known /\ Current' = Current
           /\ \A x : Ending(x)' <=> Ending(x)
<1>1. /\ Known' = Known /\ Current' = Current
      /\ \A x : Ending(x)' <=> Ending(x)
  BY DEF outside, Known, Current, Ending
<1>2. SessionsKnown' /\ QueueKnown' /\ JobKnown'
  BY <1>1 DEF IInv, outside, SessionsKnown, QueueKnown, JobKnown, Ending
<1> QED
  BY <1>1, <1>2

(* Notifications that were sent are still there, answered or lost. *)
LEMMA SentKept ==
    ASSUME IInv, UNCHANGED outside,
           \A c \in Stream : sent'[c] # None => sent'[c] = sent[c],
           \A s \in Session : lost[s] # "no" => lost'[s] # "no"
    PROVE  SentKnown'
<1>1. Known' = Known /\ Current' = Current /\ \A x : Ending(x)' <=> Ending(x)
  BY OutsideKept
<1>2. SUFFICES ASSUME NEW c \in Stream, sent'[c] # None
               PROVE  /\ sent'[c].session \in Known
                      /\ sent'[c].operation = "delete" => sent'[c].session \notin Current
                      /\ sent'[c].operation = "add" =>
                           \/ sent'[c].session \in Current
                           \/ \E x : x = sent'[c].session /\ Ending(x)'
                           \/ job # Idle /\ job.stage = "delete" /\ job.session = sent'[c].session
                           \/ lost'[sent'[c].session] # "no"
  BY <1>1 DEF outside, SentKnown, Ending
<1>3. sent'[c] = sent[c] /\ sent[c] # None
  BY <1>2
<1>4. sent[c].session \in Session
  BY <1>3, TypeParts DEF IInv, StreamsTyped, Message
<1>5. /\ sent[c].session \in Known
      /\ sent[c].operation = "delete" => sent[c].session \notin Current
      /\ sent[c].operation = "add" =>
           \/ sent[c].session \in Current
           \/ Ending(sent[c].session)
           \/ job # Idle /\ job.stage = "delete" /\ job.session = sent[c].session
           \/ lost[sent[c].session] # "no"
  BY <1>3 DEF IInv, SentKnown
<1> QED
  BY <1>1, <1>3, <1>4, <1>5

(* What is in the queue or with the goroutine, and on streams that keep it, is   *)
(* still under way.                                                         *)
LEMMA CarriedOutside ==
    ASSUME UNCHANGED outside, NEW x \in Session,
           \A c \in Stream : sent[c] # None => sent'[c] = sent[c] \/ lost'[sent[c].session] # "no"
    PROVE  Carried("delete", x) /\ Carried("add", x)
<1>1. ASSUME NEW operation \in {"delete", "add"}, NEW c \in Stream,
             sent[c] = [operation |-> operation, session |-> x]
      PROVE  \/ \E y \in Stream : sent'[y] = [operation |-> operation, session |-> x]
             \/ lost'[x] # "no"
  <2>1. sent[c] \in Message
    BY <1>1 DEF Message
  <2> QED
    BY <1>1, <2>1, NoSessionAssumption
<1> QED
  BY <1>1 DEF outside, Carried, UnderWay

LEMMA ServiceAloneKeeps ==
    ASSUME IInv, ServiceAlone
    PROVE  IInv'
<1>1. /\ TypeOK'
      /\ UNCHANGED <<database, queue, job, streams, sent, online, stream, list, lost>>
      /\ process = "subscribed" => stream \notin online
      /\ process \in {"loaded", "subscribed", "failed"} <=>
            process' \in {"loaded", "subscribed", "failed"}
  BY ServiceAloneTyped DEF IInv
<1>2. UNCHANGED outside
  BY <1>1 DEF outside, database, streams
<1>3. SessionsKnown' /\ QueueKnown' /\ JobKnown' /\ Known' = Known
  BY <1>2, OutsideKept
<1>4. SentKnown' /\ Explained'
  BY <1>1, <1>2, SentKept, CarriedOutside, ExplainedKept DEF IInv, outside
<1>5. ServiceKnown'
  BY <1>1, <1>3 DEF IInv, ServiceKnown, Listed
<1>6. Exchanges' /\ StatusNeedsHandler'
  BY <1>1 DEF streams, IInv, Exchanges, StatusNeedsHandler
<1> QED
  BY <1>1, <1>3, <1>4, <1>5, <1>6 DEF IInv

(* The service asks when no stream of its own is left: nothing that was sent    *)
(* before can reach the new list.                                           *)
LEMMA RequestAllKeeps ==
    ASSUME IInv, RequestAllSessions
    PROVE  IInv'
<1>1. /\ TypeOK'
      /\ UNCHANGED <<database, queue, job, streams, sent, online, stream>>
      /\ process = "requesting" /\ process' = "loaded"
      /\ list' = Current
  BY RequestAllTyped DEF IInv, RequestAllSessions, ServiceOnly, streams
<1>2. UNCHANGED outside
  BY <1>1 DEF outside, database, streams
<1>3. /\ SessionsKnown' /\ QueueKnown' /\ JobKnown'
      /\ Known' = Known /\ Current' = Current
  BY <1>2, OutsideKept
<1>4. online = {} /\ \A c \in Stream : sent[c] = None
  BY <1>1 DEF IInv, ServiceKnown, Exchanges
<1>5. SentKnown'
  BY <1>1, <1>4 DEF SentKnown
<1>6. Listed' \subseteq Current /\ (list' # None => Listed' = Current)
  BY <1>1 DEF Listed
<1>7. Current \in SUBSET Session /\ Current \subseteq Known
  BY TypeParts DEF IInv, DatabaseTyped, SessionsKnown, Current
<1>8. ServiceKnown'
  <2>1. list' # None
    BY <1>1, <1>7, NoSessionAssumption
  <2> QED
    BY <1>1, <1>3, <1>4, <1>6, <1>7, <2>1 DEF ServiceKnown
<1>9. Explained'
  BY <1>1, <1>3, <1>6 DEF Explained, StaleIsExplained, MissingIsExplained
<1>10. Exchanges' /\ StatusNeedsHandler'
  BY <1>1 DEF streams, IInv, Exchanges, StatusNeedsHandler
<1> QED
  BY <1>1, <1>3, <1>5, <1>8, <1>9, <1>10 DEF IInv

LEMMA SubscribeKeeps ==
    ASSUME IInv, NEW c \in Stream, Subscribe(c)
    PROVE  IInv'
<1>1. /\ TypeOK'
      /\ UNCHANGED <<database, queue, job, status, sent, answer, list, lost>>
      /\ process = "loaded" /\ process' = "subscribed"
      /\ handler[c] = "unused" /\ handler' = [handler EXCEPT ![c] = "waiting"]
      /\ stream' = c
      /\ online' = online \cup {c}
  BY SubscribeTyped DEF IInv, Subscribe, ServiceOnly
<1>2. UNCHANGED outside
  BY <1>1 DEF outside, database
<1>3. SessionsKnown' /\ QueueKnown' /\ JobKnown' /\ Known' = Known
  BY <1>2, OutsideKept
<1>4. SentKnown' /\ Explained'
  BY <1>1, <1>2, SentKept, CarriedOutside, ExplainedKept DEF IInv, outside
<1>5. online = {}
  BY <1>1 DEF IInv, ServiceKnown
<1>6. ServiceKnown'
  BY <1>1, <1>3, <1>5 DEF IInv, ServiceKnown, Listed
<1>7. Exchanges'
  BY <1>1, <1>5 DEF IInv, Exchanges
<1>8. StatusNeedsHandler'
  <2>1. \A x \in Stream : x # c => handler'[x] = handler[x]
    BY <1>1, TypeParts DEF IInv, StreamsTyped
  <2> QED
    BY <1>1, <2>1 DEF IInv, StatusNeedsHandler
<1> QED
  BY <1>1, <1>3, <1>4, <1>6, <1>7, <1>8 DEF IInv

LEMMA RateLimitedKeeps ==
    ASSUME IInv, NEW c \in Stream, RateLimited(c)
    PROVE  IInv'
<1>1. LostTyped /\ StreamsTyped
  BY TypeParts DEF IInv
<1>2. /\ TypeOK'
      /\ UNCHANGED <<database, queue, job, status, process, stream, list, handler, answer, online>>
      /\ sent[c] # None /\ sent' = [sent EXCEPT ![c] = None]
      /\ Lose({sent[c].session}, "undelivered")
  BY NotifiedTyped DEF IInv, RateLimited, ServiceOnly, service
<1>3. UNCHANGED outside
  BY <1>2 DEF outside, database
<1>4. sent[c].session \in Session
  BY <1>1, <1>2 DEF StreamsTyped, Message
<1>5. /\ \A x \in Stream : sent'[x] = IF x = c THEN None ELSE sent[x]
      /\ \A s \in Session : lost[s] # "no" => lost'[s] # "no"
      /\ lost'[sent[c].session] # "no"
  BY <1>1, <1>2, <1>4, Losing DEF StreamsTyped
<1>6. SessionsKnown' /\ QueueKnown' /\ JobKnown' /\ Known' = Known
  BY <1>3, OutsideKept
<1>7. SentKnown'
  BY <1>3, <1>5, SentKept
<1>8. Explained'
  <2>1. UNCHANGED <<session, list>>
    BY <1>2 DEF database
  <2>2. \A x \in Session : Carried("delete", x) /\ Carried("add", x)
    BY <1>3, <1>5, CarriedOutside
  <2> QED
    BY <1>5, <2>1, <2>2, ExplainedKept DEF IInv
<1>9. ServiceKnown' /\ Exchanges' /\ StatusNeedsHandler'
  BY <1>2, <1>5, <1>6 DEF IInv, ServiceKnown, Listed, Exchanges, StatusNeedsHandler
<1> QED
  BY <1>2, <1>6, <1>7, <1>8, <1>9 DEF IInv

(* The list changes here.  What is added and not valid has its end behind it, *)
(* what is deleted is not valid.                                            *)
LEMMA HandleNotificationKeeps ==
    ASSUME IInv, NEW c \in Stream, HandleNotification(c)
    PROVE  IInv'
<1>1. DatabaseTyped /\ ServiceTyped /\ StreamsTyped
  BY TypeParts DEF IInv
<1> DEFINE s == sent[c].session
<1>2. /\ TypeOK'
      /\ UNCHANGED <<database, queue, job, status, process, stream, handler, online, lost>>
      /\ process = "subscribed" /\ stream = c /\ handler[c] = "receiving"
      /\ sent[c] # None /\ sent' = [sent EXCEPT ![c] = None]
      /\ list' = IF sent[c].operation = "add" THEN list \cup {s} ELSE list \ {s}
  BY NotifiedTyped DEF IInv, HandleNotification, ServiceOnly
<1>3. UNCHANGED outside
  BY <1>2 DEF outside, database
<1>4. s \in Session /\ sent[c].operation \in {"add", "delete"}
      /\ sent[c] = [operation |-> sent[c].operation, session |-> s]
  BY <1>1, <1>2 DEF StreamsTyped, Message
<1>5. \A x \in Stream : sent'[x] = IF x = c THEN None ELSE sent[x]
  BY <1>1, <1>2 DEF StreamsTyped
<1>6. /\ SessionsKnown' /\ QueueKnown' /\ JobKnown'
      /\ Known' = Known /\ Current' = Current
  BY <1>3, OutsideKept
<1>7. SentKnown'
  BY <1>2, <1>3, <1>5, SentKept
<1>8. /\ s \in Known
      /\ sent[c].operation = "delete" => s \notin Current
      /\ sent[c].operation = "add" =>
           \/ s \in Current
           \/ Ending(s)
           \/ job # Idle /\ job.stage = "delete" /\ job.session = s
           \/ lost[s] # "no"
  BY <1>2 DEF IInv, SentKnown
<1>9. list # None /\ list \in SUBSET Session /\ list = Listed
  BY <1>1, <1>2 DEF IInv, ServiceKnown, ServiceTyped, Listed
<1>10. /\ \A x \in list' : x = s \/ x \in list
       /\ \A x \in list : x \in list' \/ (x = s /\ sent[c].operation = "delete")
       /\ s \in list' => sent[c].operation = "add"
       /\ sent[c].operation = "add" => s \in list'
  BY <1>2, <1>4
<1>11. list' \in SUBSET Session /\ list' # None
  BY <1>4, <1>9, <1>10, <1>2, NoSessionAssumption
<1> HIDE DEF s
<1>12. ASSUME NEW x \in Session, x # s
       PROVE  (UnderWay("delete", x) => UnderWay("delete", x)')
              /\ (UnderWay("add", x) => UnderWay("add", x)')
  <2>1. \A operation \in {"delete", "add"} : \A y \in Stream :
            sent[y] = [operation |-> operation, session |-> x] => sent'[y] = sent[y]
    <3>1. ASSUME NEW operation \in {"delete", "add"},
                 sent[c] = [operation |-> operation, session |-> x]
          PROVE  FALSE
      BY <1>4, <1>12, <3>1
    <3> QED
      BY <1>5, <3>1
  <2> QED
    BY <1>3, <2>1 DEF outside, UnderWay
<1>13. StaleIsExplained'
  <2>1. SUFFICES ASSUME NEW x \in list', x \notin Current
                 PROVE  UnderWay("delete", x)' \/ lost[x] # "no"
    BY <1>2, <1>6, <1>11 DEF StaleIsExplained, Listed
  <2>2. CASE x = s
    <3>1. \/ Ending(s)
          \/ job # Idle /\ job.stage = "delete" /\ job.session = s
          \/ lost[s] # "no"
      BY <1>8, <1>10, <2>1, <2>2
    <3> QED
      BY <1>3, <2>2, <3>1 DEF outside, UnderWay, Ending
  <2>3. CASE x # s
    <3>1. x \in Listed /\ x \in Session
      BY <1>9, <1>10, <2>1, <2>3
    <3> QED
      BY <1>12, <2>1, <2>3, <3>1 DEF IInv, Explained, StaleIsExplained
  <2> QED
    BY <2>2, <2>3
<1>14. MissingIsExplained'
  <2>1. SUFFICES ASSUME NEW x \in Current, x \notin list'
                 PROVE  UnderWay("add", x)' \/ lost[x] # "no"
    BY <1>2, <1>6 DEF MissingIsExplained
  <2>2. x # s
    BY <1>4, <1>8, <1>10, <2>1
  <2>3. x \notin list /\ x \in Session
    BY <1>1, <1>10, <2>1, <2>2 DEF Current, DatabaseTyped
  <2> QED
    BY <1>9, <1>12, <2>1, <2>2, <2>3 DEF IInv, Explained, MissingIsExplained
<1>15. ServiceKnown'
  <2>1. Listed' \subseteq Known
    BY <1>8, <1>9, <1>10, <1>11 DEF IInv, ServiceKnown, Listed
  <2> QED
    BY <1>2, <1>6, <1>9, <1>11, <2>1 DEF IInv, ServiceKnown
<1>16. Exchanges'
  <2>1. c \in online
    BY <1>2 DEF IInv, Exchanges
  <2>2. \A x \in Stream : x # c => answer'[x] = answer[x]
    BY <1>1 DEF HandleNotification, StreamsTyped
  <2> QED
    BY <1>2, <1>5, <2>1, <2>2 DEF IInv, Exchanges
<1>17. StatusNeedsHandler'
  BY <1>2 DEF IInv, StatusNeedsHandler
<1> QED
  BY <1>2, <1>6, <1>7, <1>13, <1>14, <1>15, <1>16, <1>17 DEF IInv, Explained

LEMMA BreaksKeep ==
    ASSUME IInv, Reconnect \/ Exit \/ \E c \in Stream : LinkBreaks(c)
    PROVE  IInv'
<1>1. /\ TypeOK' /\ StreamsTyped
      /\ UNCHANGED <<database, queue, job, watcher, handler, channel, status, stream>>
      /\ \/ /\ Break({c \in online : c = stream})
            /\ list' = None
            /\ process' \in {"down", "requesting"}
         \/ \E c \in online : Break({c}) /\ UNCHANGED <<list, process>>
  BY BreaksTyped, TypeParts DEF IInv
<1>2. UNCHANGED outside
  BY <1>1 DEF outside, database
<1>3. SessionsKnown' /\ QueueKnown' /\ JobKnown' /\ Known' = Known
  BY <1>2, OutsideKept
<1>4. ASSUME NEW S \in SUBSET Stream, Break(S)
      PROVE  /\ SentKnown' /\ Exchanges'
             /\ online' = online \ S
             /\ list' = None \/ list' = list => Explained'
  <2>1. /\ online' = online \ S
        /\ \A c \in Stream : sent'[c] = IF c \in S THEN None ELSE sent[c]
        /\ \A c \in Stream : answer'[c] = IF c \in S THEN "none" ELSE answer[c]
        /\ \A s \in Session : lost[s] # "no" => lost'[s] # "no"
        /\ \A c \in S : sent[c] # None => lost'[sent[c].session] # "no"
    BY <1>4, Breaking DEF IInv
  <2>2. SentKnown'
    BY <1>2, <2>1, SentKept
  <2>3. Exchanges'
    BY <1>1, <2>1 DEF IInv, Exchanges
  <2>4. CASE list' = list
    <3>1. \A x \in Session : Carried("delete", x) /\ Carried("add", x)
      BY <1>2, <2>1, CarriedOutside
    <3>2. UNCHANGED <<session, list>>
      BY <1>1, <2>4 DEF database
    <3> QED
      BY <2>1, <2>2, <2>3, <3>1, <3>2, ExplainedKept DEF IInv
  <2> QED
    BY <2>1, <2>2, <2>3, <2>4, NoList
<1>5. {c \in online : c = stream} \in SUBSET Stream /\ \A c \in online : {c} \in SUBSET Stream
  BY <1>1 DEF StreamsTyped
<1>6. /\ SentKnown' /\ Exchanges' /\ Explained'
  BY <1>1, <1>4, <1>5
<1>7. ServiceKnown'
  <2>1. CASE /\ Break({c \in online : c = stream})
             /\ list' = None
             /\ process' \in {"down", "requesting"}
    BY <1>4, <1>5, <2>1 DEF IInv, ServiceKnown, Listed
  <2>2. ASSUME NEW c \in online, Break({c}), UNCHANGED <<list, process>>
        PROVE  ServiceKnown'
    BY <1>1, <1>3, <1>4, <1>5, <2>2 DEF IInv, ServiceKnown, Listed
  <2> QED
    BY <1>1, <2>1, <2>2
<1>8. StatusNeedsHandler'
  BY <1>1 DEF IInv, StatusNeedsHandler
<1> QED
  BY <1>1, <1>3, <1>6, <1>7, <1>8 DEF IInv

(* Everything under way is gone with the orchestrator. *)
LEMMA RestartKeeps ==
    ASSUME IInv, Restart
    PROVE  IInv'
<1>1. TypeOK' /\ \A s \in Session : lost'[s] # "no"
  BY RestartTyped DEF IInv
<1>2. /\ UNCHANGED <<session, started, process, stream, list>>
      /\ queue' = <<>> /\ job' = Idle /\ online' = {} /\ status' = "disconnected"
      /\ \A c \in Stream : sent'[c] = None /\ answer'[c] = "none"
  BY DEF Restart, service
<1>3. Known' = Known /\ Current' = Current /\ Listed' = Listed
  BY <1>2 DEF Known, Current, Listed
<1>4. SessionsKnown'
  BY <1>2, <1>3 DEF IInv, SessionsKnown
<1>5. QueueKnown' /\ JobKnown' /\ SentKnown' /\ Exchanges' /\ StatusNeedsHandler'
  BY <1>2 DEF QueueKnown, JobKnown, SentKnown, Exchanges, StatusNeedsHandler
<1>6. ServiceKnown'
  BY <1>2, <1>3 DEF IInv, ServiceKnown
<1>7. Explained'
  <2>1. Current \subseteq Session /\ Listed \subseteq Session
    BY TypeParts DEF IInv, DatabaseTyped, ServiceTyped, Current, Listed
  <2> QED
    BY <1>1, <1>3, <2>1 DEF Explained, StaleIsExplained, MissingIsExplained
<1> QED
  BY <1>1, <1>4, <1>5, <1>6, <1>7 DEF IInv

-----------------------------------------------------------------------------
LEMMA Initially ==
    ASSUME Init
    PROVE  IInv
<1>1. /\ DatabaseTyped /\ JobTyped /\ StreamsTyped /\ ServiceTyped /\ LostTyped
  BY BoundsAssumption, AttemptsAssumption
  DEF Init, DatabaseTyped, JobTyped, StreamsTyped, ServiceTyped, LostTyped, Cause
<1>2. Current = {} /\ Listed = {}
  BY DEF Init, Current, Listed
<1> QED
  BY <1>1, <1>2, TypeParts
  DEF Init, IInv, SessionsKnown, QueueKnown, JobKnown, ServiceKnown, Exchanges, SentKnown,
      Explained, StaleIsExplained, MissingIsExplained, StatusNeedsHandler

LEMMA Stepwise ==
    ASSUME IInv, [Next]_vars
    PROVE  IInv'
<1>1. CASE UNCHANGED vars
  <2>1. UNCHANGED relevant
    BY <1>1 DEF vars, database, streams, service, relevant
  <2>2. TypeOK'
    BY <1>1 DEF vars, database, streams, service, IInv, TypeOK
  <2> QED
    BY <2>1, <2>2, NothingRelevant
<1>2. ASSUME NEW d \in Device,
             \/ Login(d) \/ Invalidate(d) \/ Monitor(d)
             \/ \E next \in {"none", "invalidate", "delete"} : Unmonitor(d, next)
             \/ Finish(d) \/ DeleteTemplate(d)
      PROVE  IInv'
  BY <1>2, RequestsKeep
<1>3. CASE NotifierStep
  BY <1>3, HandleKeeps, GiveUpKeeps, DeliverKeeps DEF NotifierStep
<1>4. ASSUME NEW c \in Stream, HandlerStep(c) \/ LinkBreaks(c)
      PROVE  IInv'
  BY <1>4, HandlersKeep, BreaksKeep
<1>5. CASE ServiceStep
  BY <1>5, ServiceAloneKeeps, RequestAllKeeps, SubscribeKeeps, HandleNotificationKeeps,
     RateLimitedKeeps, BreaksKeep
  DEF ServiceStep, ServiceAlone
<1>6. CASE Start \/ PingPanics
  BY <1>6, ServiceAloneKeeps DEF ServiceAlone
<1>7. CASE Exit
  BY <1>7, BreaksKeep
<1>8. CASE Restart
  BY <1>8, RestartKeeps
<1> QED
  BY <1>1, <1>2, <1>3, <1>4, <1>5, <1>6, <1>7, <1>8 DEF Next

LEMMA Invariance == Spec => []IInv
<1>1. Init => IInv
  BY Initially
<1>2. IInv /\ [Next]_vars => IInv'
  BY Stepwise
<1> QED
  BY <1>1, <1>2, PTL DEF Spec

(* The healthcheck service takes an ended session for valid, or misses a valid *)
(* one, only while its announcement is under way or after it was lost for a    *)
(* recorded cause; and a status is shown only while a handler serves a stream *)
(* (HandleSessionsUpdatesForHealthcheckService, SubscribeForSessionsUpdates). *)
THEOREM SessionsListed == Spec => []SessionsSound
<1>1. IInv => SessionsSound
  BY DEF IInv, Explained, SessionsSound
<1> QED
  BY <1>1, Invariance, PTL

(* The protocol of the stream: between a handler and the service there is one *)
(* notification or one answer, never both, and only on the stream in use      *)
(* (SubscribeForSessionsUpdates, handleNotification).                       *)
THEOREM OneExchangeAtATime == Spec => [](ServiceKnown /\ Exchanges)
<1>1. IInv => ServiceKnown /\ Exchanges
  BY DEF IInv
<1> QED
  BY <1>1, Invariance, PTL
=============================================================================
