--------------------------- MODULE OperationProofs ---------------------------
(***************************************************************************)
(* Proofs about the operation of VPN servers: the streams on which they    *)
(* get their configuration (ConfigWatch), what travels over them           *)
(* (PeerSync), and the commands that run their containers on a host        *)
(* (Egvpn). Egvpn shares no state with the others, and its part of this    *)
(* module uses nothing of theirs.                                          *)
(*                                                                         *)
(* ConfigWatch, for any set of servers, tags, streams and notifiers. IInv  *)
(* is the inductive invariant: the type invariant, the registry and status *)
(* invariants as they stand, and the exchange invariant extended to the    *)
(* states before the first notification.                                   *)
(*                                                                         *)
(* PeerSync, for one server, any instances and streams, any peers and      *)
(* interfaces, any number of changes. It implements ConfigWatch, which     *)
(* Joined is enough for: an instance that is subscribed reads a stream.    *)
(* So IInv holds of it too, and PipeInv adds what is stored, queued, under *)
(* way at the goroutines and on the streams, in the order in which a       *)
(* notification passes through them.                                       *)
(*                                                                         *)
(* Egvpn, for any set of terminals, directories and names, any options,    *)
(* any number of lines and pages. HostInv is the inductive invariant. It   *)
(* says of every command under way which steps it has left (Forms), that   *)
(* two do not get in each other's way (Alone), what each has brought about *)
(* so far (Knowing, Naming, FilesMissing), and of the host what the steps  *)
(* rely on (Restartable, Agreeing). Every command has its steps in one     *)
(* order, Rank: what a command has done is then known from the set of      *)
(* steps it has left, and the proofs need no induction over sequences.     *)
(***************************************************************************)
EXTENDS PeerSync, Egvpn, FiniteSetTheorems, TLAPS

-----------------------------------------------------------------------------
(* ConfigWatch: the configuration streams.                                  *)

(* No notification has been sent on a stream that is not registered yet. *)
ExchangeInv ==
    \A c \in Conn :
        handler[c] \in {"idle", "opened", "subscribed", "listening", "sending"}
            => exchange[c] = "none"

IInv ==
    /\ TypeOK
    /\ RegistrySound
    /\ StatusNeedsHandler
    /\ ExchangeInv

(* The initial state satisfies the inductive invariant. *)
LEMMA InitIInv == Init => IInv
  BY TagAssumption, NoneAssumption
     DEF Init, IInv, TypeOK, RegistrySound, StatusNeedsHandler, ExchangeInv,
         HandlerState, Active, Registered, Exchange, Status

(* Every step of ConfigWatch keeps the types. *)
LEMMA TypeStep == TypeOK /\ [Next]_vars => TypeOK'
<1> SUFFICES ASSUME TypeOK, [Next]_vars PROVE TypeOK'
  OBVIOUS
<1> USE TagAssumption, NoneAssumption
    DEF TypeOK, HandlerState, Active, Registered, Exchange, Status, Goto,
        SetStatus, ServerFor
<1>1. ASSUME NEW c \in Conn, NEW t \in Tag, Open(c, t) PROVE TypeOK'
  BY <1>1 DEF Open
<1>2. ASSUME NEW c \in Conn, RecvSubscribe(c) PROVE TypeOK'
  BY <1>2 DEF RecvSubscribe
<1>3. ASSUME NEW c \in Conn, RecvSubscribeFails(c) PROVE TypeOK'
  BY <1>3 DEF RecvSubscribeFails
<1>4. ASSUME NEW c \in Conn, Watch(c) PROVE TypeOK'
  BY <1>4 DEF Watch, IncreaseReplicas
<1>5. ASSUME NEW c \in Conn, AlreadyWatching(c) PROVE TypeOK'
  BY <1>5 DEF AlreadyWatching
<1>6. ASSUME NEW c \in Conn, Send(c) PROVE TypeOK'
  BY <1>6 DEF Send
<1>7. ASSUME NEW c \in Conn, RecvResponse(c) PROVE TypeOK'
  BY <1>7 DEF RecvResponse
<1>8. ASSUME NEW c \in Conn, StreamBroken(c) PROVE TypeOK'
  BY <1>8 DEF StreamBroken
<1>9. ASSUME NEW c \in Conn, Cancel(c) PROVE TypeOK'
  BY <1>9 DEF Cancel, DecreaseReplicas
<1>10. ASSUME NEW c \in Conn, Return(c) PROVE TypeOK'
  BY <1>10 DEF Return
<1>11. ASSUME NEW n \in Notifier, NEW t \in Tag, Lookup(n, t) PROVE TypeOK'
  BY <1>11 DEF Lookup
<1>12. ASSUME NEW n \in Notifier, NotifierStep(n) PROVE TypeOK'
  BY <1>12 DEF NotifierStep, Deliver, GiveUp
<1>13. ASSUME NEW c \in Conn, Answer(c) \/ RateLimited(c) \/ Hangup(c) PROVE TypeOK'
  <2>1. CASE Answer(c)
    BY <2>1 DEF Answer
  <2>2. CASE RateLimited(c)
    BY <2>2 DEF RateLimited
  <2>3. CASE Hangup(c)
    BY <2>3 DEF Hangup
  <2> QED
    BY <1>13, <2>1, <2>2, <2>3
<1>14. ASSUME NEW s \in Server, DeleteServer(s) PROVE TypeOK'
  BY <1>14 DEF DeleteServer
<1>15. CASE Restart
  BY <1>15 DEF Restart
<1>16. CASE UNCHANGED vars
  BY <1>16 DEF vars
<1> QED
  BY <1>1, <1>2, <1>3, <1>4, <1>5, <1>6, <1>7, <1>8, <1>9, <1>10, <1>11, <1>12,
     <1>13, <1>14, <1>15, <1>16, SMTT(30) DEF Next, HandlerStep

(* No step takes a registered tag from its handler or leaves one behind.     *)
LEMMA RegistryStep ==
  TypeOK /\ RegistrySound /\ [Next]_vars => RegistrySound'
<1> SUFFICES ASSUME TypeOK, RegistrySound, [Next]_vars PROVE RegistrySound'
  OBVIOUS
<1> USE NoneAssumption DEF TypeOK, RegistrySound, Registered, Active, Goto
<1>1. ASSUME NEW c \in Conn, NEW t \in Tag, Open(c, t) PROVE RegistrySound'
  BY <1>1 DEF Open
<1>2. ASSUME NEW c \in Conn, RecvSubscribe(c) \/ RecvSubscribeFails(c)
      PROVE  RegistrySound'
  BY <1>2 DEF RecvSubscribe, RecvSubscribeFails
<1>3. ASSUME NEW c \in Conn, Watch(c) PROVE RegistrySound'
  BY <1>3 DEF Watch
<1>4. ASSUME NEW c \in Conn, AlreadyWatching(c) PROVE RegistrySound'
  BY <1>4 DEF AlreadyWatching
<1>5. ASSUME NEW c \in Conn, Send(c) \/ RecvResponse(c) \/ StreamBroken(c)
      PROVE  RegistrySound'
  BY <1>5 DEF Send, RecvResponse, StreamBroken
<1>6. ASSUME NEW c \in Conn, Cancel(c) PROVE RegistrySound'
  BY <1>6 DEF Cancel
<1>7. ASSUME NEW c \in Conn, Return(c) PROVE RegistrySound'
  BY <1>7 DEF Return
<1>8. ASSUME NEW n \in Notifier, NEW t \in Tag, Lookup(n, t) PROVE RegistrySound'
  BY <1>8 DEF Lookup
<1>9. ASSUME NEW n \in Notifier, NotifierStep(n) PROVE RegistrySound'
  BY <1>9 DEF NotifierStep, Deliver, GiveUp
<1>10. ASSUME NEW c \in Conn, Answer(c) \/ RateLimited(c) \/ Hangup(c)
       PROVE  RegistrySound'
  BY <1>10 DEF Answer, RateLimited, Hangup
<1>11. ASSUME NEW s \in Server, DeleteServer(s) PROVE RegistrySound'
  BY <1>11 DEF DeleteServer
<1>12. CASE Restart
  BY <1>12 DEF Restart
<1>13. CASE UNCHANGED vars
  BY <1>13 DEF vars
<1> QED
  BY <1>1, <1>2, <1>3, <1>4, <1>5, <1>6, <1>7, <1>8, <1>9, <1>10, <1>11, <1>12,
     <1>13 DEF Next, HandlerStep

(* The only step that ends a handler of s leaves s disconnected. *)
LEMMA StatusStep ==
  TypeOK /\ StatusNeedsHandler /\ [Next]_vars => StatusNeedsHandler'
<1> SUFFICES ASSUME TypeOK, StatusNeedsHandler, [Next]_vars,
                    NEW s \in Server, status'[s] \in {"ok", "failed"}
             PROVE  \E c \in Conn : handler'[c] \in Active /\ ServerFor(c)' = s
  BY DEF StatusNeedsHandler
<1> USE TagAssumption DEF TypeOK, Active, Registered, Status, Goto, ServerFor, SetStatus
<1>1. ASSUME NEW c \in Conn, RecvSubscribe(c) \/ RecvResponse(c), ServerFor(c) = s
      PROVE  \E d \in Conn : handler'[d] \in Active /\ ServerFor(d)' = s
  BY <1>1 DEF RecvSubscribe, RecvResponse
<1>2. ASSUME status[s] \in {"ok", "failed"},
             \A d \in Conn :
                handler[d] \in Active => handler'[d] \in Active /\ tagOf'[d] = tagOf[d]
      PROVE  \E d \in Conn : handler'[d] \in Active /\ ServerFor(d)' = s
  BY <1>2 DEF StatusNeedsHandler
<1>3. ASSUME NEW c \in Conn, NEW t \in Tag, Open(c, t)
      PROVE  \E d \in Conn : handler'[d] \in Active /\ ServerFor(d)' = s
  BY <1>2, <1>3 DEF Open
<1>4. ASSUME NEW c \in Conn, RecvSubscribe(c) \/ RecvResponse(c), ServerFor(c) # s
      PROVE  \E d \in Conn : handler'[d] \in Active /\ ServerFor(d)' = s
  BY <1>2, <1>4 DEF RecvSubscribe, RecvResponse
<1>5. ASSUME NEW c \in Conn,
             \/ RecvSubscribeFails(c) \/ Watch(c) \/ AlreadyWatching(c)
             \/ Send(c) \/ StreamBroken(c) \/ Cancel(c)
      PROVE  \E d \in Conn : handler'[d] \in Active /\ ServerFor(d)' = s
  BY <1>2, <1>5
     DEF RecvSubscribeFails, Watch, AlreadyWatching, Send, StreamBroken, Cancel
<1>6. ASSUME NEW c \in Conn, Return(c)
      PROVE  \E d \in Conn : handler'[d] \in Active /\ ServerFor(d)' = s
  <2>1. ServerFor(c) # s /\ status[s] \in {"ok", "failed"}
    BY <1>6 DEF Return
  <2>2. PICK d \in Conn : handler[d] \in Active /\ ServerFor(d) = s
    BY <2>1 DEF StatusNeedsHandler
  <2>3. d # c
    BY <2>1, <2>2
  <2> QED
    BY <1>6, <2>2, <2>3 DEF Return
<1>7. ASSUME NEW n \in Notifier, NEW t \in Tag, Lookup(n, t)
      PROVE  \E d \in Conn : handler'[d] \in Active /\ ServerFor(d)' = s
  BY <1>2, <1>7 DEF Lookup
<1>8. ASSUME NEW n \in Notifier, NotifierStep(n)
      PROVE  \E d \in Conn : handler'[d] \in Active /\ ServerFor(d)' = s
  BY <1>2, <1>8 DEF NotifierStep, Deliver, GiveUp
<1>9. ASSUME NEW c \in Conn, Answer(c) \/ RateLimited(c) \/ Hangup(c)
      PROVE  \E d \in Conn : handler'[d] \in Active /\ ServerFor(d)' = s
  BY <1>2, <1>9 DEF Answer, RateLimited, Hangup
<1>10. ASSUME NEW r \in Server, DeleteServer(r)
       PROVE  \E d \in Conn : handler'[d] \in Active /\ ServerFor(d)' = s
  BY <1>2, <1>10 DEF DeleteServer
<1>11. CASE Restart
  BY <1>11 DEF Restart
<1>12. CASE UNCHANGED vars
  BY <1>2, <1>12 DEF vars
<1> QED
  BY <1>1, <1>3, <1>4, <1>5, <1>6, <1>7, <1>8, <1>9, <1>10, <1>11, <1>12
     DEF Next, HandlerStep

(* The handler sends only what it was handed while listening, and listens     *)
(* again only after the answer.                                            *)
LEMMA ExchangeStep ==
  TypeOK /\ ExchangeInv /\ [Next]_vars => ExchangeInv'
<1> SUFFICES ASSUME TypeOK, ExchangeInv, [Next]_vars PROVE ExchangeInv'
  OBVIOUS
<1> USE DEF TypeOK, ExchangeInv, Goto
<1>1. ASSUME NEW c \in Conn, NEW t \in Tag, Open(c, t) PROVE ExchangeInv'
  BY <1>1 DEF Open
<1>2. ASSUME NEW c \in Conn,
             \/ RecvSubscribe(c) \/ RecvSubscribeFails(c)
             \/ Watch(c) \/ AlreadyWatching(c)
      PROVE  ExchangeInv'
  BY <1>2 DEF RecvSubscribe, RecvSubscribeFails, Watch, AlreadyWatching
<1>3. ASSUME NEW c \in Conn, Send(c) PROVE ExchangeInv'
  BY <1>3 DEF Send
<1>4. ASSUME NEW c \in Conn, RecvResponse(c) PROVE ExchangeInv'
  BY <1>4 DEF RecvResponse
<1>5. ASSUME NEW c \in Conn, StreamBroken(c) \/ Cancel(c) \/ Return(c)
      PROVE  ExchangeInv'
  BY <1>5 DEF StreamBroken, Cancel, Return
<1>6. ASSUME NEW n \in Notifier, NEW t \in Tag, Lookup(n, t) PROVE ExchangeInv'
  BY <1>6 DEF Lookup
<1>7. ASSUME NEW n \in Notifier, NotifierStep(n) PROVE ExchangeInv'
  BY <1>7 DEF NotifierStep, Deliver, GiveUp
<1>8. ASSUME NEW c \in Conn, Answer(c) \/ RateLimited(c) PROVE ExchangeInv'
  BY <1>8 DEF Answer, RateLimited
<1>9. ASSUME NEW c \in Conn, Hangup(c) PROVE ExchangeInv'
  BY <1>9 DEF Hangup
<1>10. ASSUME NEW s \in Server, DeleteServer(s) PROVE ExchangeInv'
  BY <1>10 DEF DeleteServer
<1>11. CASE Restart
  BY <1>11 DEF Restart
<1>12. CASE UNCHANGED vars
  BY <1>12 DEF vars
<1> QED
  BY <1>1, <1>2, <1>3, <1>4, <1>5, <1>6, <1>7, <1>8, <1>9, <1>10, <1>11, <1>12
     DEF Next, HandlerStep

(* The inductive invariant holds in every reachable state. *)
THEOREM Invariance == Spec => []IInv
<1>1. Init => IInv
  BY InitIInv
<1>2. IInv /\ [Next]_vars => IInv'
  BY TypeStep, RegistryStep, StatusStep, ExchangeStep DEF IInv
<1> QED
  BY <1>1, <1>2, PTL DEF Spec

(* The variables of the handlers, the registry and the status store keep      *)
(* their types.                                                            *)
THEOREM TypeCorrect == Spec => []TypeOK
  BY Invariance, PTL DEF IInv

(* A tag is registered exactly while one handler serves it, for any number   *)
(* of instances, streams and restarts of the orchestrator.                 *)
THEOREM RegistryCorrect == Spec => []RegistrySound
  BY Invariance, PTL DEF IInv

(* A server shown as configured, or as failed to configure, has a handler    *)
(* under way that will update what is shown.                               *)
THEOREM StatusCorrect == Spec => []StatusNeedsHandler
  BY Invariance, PTL DEF IInv

(* A VPN server never has two unanswered notifications. *)
THEOREM ExchangeCorrect == Spec => []OneOutstanding
<1>1. IInv => OneOutstanding
  BY DEF IInv, ExchangeInv, OneOutstanding
<1> QED
  BY <1>1, Invariance, PTL

(* In the states the invariant allows, the streams that hold a tag are the    *)
(* registered ones, so none of them has retired.                           *)
LEMMA OwnersRegistered ==
  ASSUME IInv
  PROVE  Lease!Owners = {c \in Conn : handler[c] \in Registered}
  BY NoneAssumption
     DEF IInv, TypeOK, RegistrySound, Lease!Owners, Registered, Active

(* The registry implements the lease: registering is Acquire, cancel is       *)
(* Release, a stream refused or broken before it registered is Refuse.     *)
THEOREM LeaseCorrect == Spec => LeaseImplemented
<1>1. Init => Lease!Init
  BY DEF Init, Lease!Init
<1>2. ASSUME IInv, [Next]_vars
      PROVE  [Lease!Next]_<<watchers, {c \in Conn : handler[c] \in {"left", "done"}}>>
  <2> DEFINE Retired == {c \in Conn : handler[c] \in {"left", "done"}}
  <2> USE NoneAssumption, <1>2 DEF IInv, TypeOK, Goto
  <2>1. ASSUME watchers' = watchers,
               \A c \in Conn :
                  handler'[c] \in {"left", "done"} <=> handler[c] \in {"left", "done"}
        PROVE  UNCHANGED <<watchers, Retired>>
    BY <2>1
  <2>2. ASSUME NEW c \in Conn, NEW t \in Tag, Open(c, t)
        PROVE  UNCHANGED <<watchers, Retired>>
    BY <2>1, <2>2 DEF Open
  <2>3. ASSUME NEW c \in Conn,
               \/ RecvSubscribe(c) \/ Send(c) \/ RecvResponse(c)
               \/ StreamBroken(c) \/ Return(c)
        PROVE  UNCHANGED <<watchers, Retired>>
    BY <2>1, <2>3 DEF RecvSubscribe, Send, RecvResponse, StreamBroken, Return
  <2>4. ASSUME NEW c \in Conn, RecvSubscribeFails(c) \/ AlreadyWatching(c)
        PROVE  Lease!Refuse(c)
    <3>1. c \notin Lease!Owners /\ c \notin Retired
      BY <2>4, OwnersRegistered DEF RecvSubscribeFails, AlreadyWatching, Registered
    <3>2. Retired' = Retired \cup {c} /\ watchers' = watchers
      BY <2>4 DEF RecvSubscribeFails, AlreadyWatching
    <3> QED
      BY <3>1, <3>2 DEF Lease!Refuse
  <2>5. ASSUME NEW c \in Conn, Watch(c)
        PROVE  \E t \in Tag : Lease!Acquire(c, t)
    <3>1. PICK t \in Tag : t = tagOf[c]
      BY <2>5 DEF Watch, Active, Registered
    <3>2. c \notin Lease!Owners /\ c \notin Retired
      BY <2>5, OwnersRegistered DEF Watch, Registered
    <3>3. Retired' = Retired
      BY <2>5 DEF Watch
    <3>4. Lease!Acquire(c, t)
      BY <2>5, <3>1, <3>2, <3>3 DEF Lease!Acquire, Watch
    <3> QED
      BY <3>4
  <2>6. ASSUME NEW c \in Conn, Cancel(c)
        PROVE  \E t \in Tag : Lease!Release(t)
    <3>1. PICK t \in Tag : t = tagOf[c]
      BY <2>6 DEF Cancel, Active, Registered
    <3>2. watchers[t] = c
      BY <2>6, <3>1 DEF Cancel, RegistrySound, Registered
    <3>3. Retired' = Retired \cup {c}
      BY <2>6 DEF Cancel
    <3>4. Lease!Release(t)
      BY <2>6, <3>1, <3>2, <3>3 DEF Lease!Release, Cancel
    <3> QED
      BY <3>4
  <2>7. ASSUME NEW n \in Notifier, NEW t \in Tag, Lookup(n, t)
        PROVE  UNCHANGED <<watchers, Retired>>
    BY <2>1, <2>7 DEF Lookup
  <2>8. ASSUME NEW n \in Notifier, NotifierStep(n)
        PROVE  UNCHANGED <<watchers, Retired>>
    BY <2>1, <2>8 DEF NotifierStep, Deliver, GiveUp
  <2>9. ASSUME NEW c \in Conn, Answer(c) \/ RateLimited(c) \/ Hangup(c)
        PROVE  UNCHANGED <<watchers, Retired>>
    BY <2>1, <2>9 DEF Answer, RateLimited, Hangup
  <2>10. ASSUME NEW s \in Server, DeleteServer(s)
         PROVE  UNCHANGED <<watchers, Retired>>
    BY <2>1, <2>10 DEF DeleteServer
  <2>11. ASSUME Restart PROVE Lease!Reset
    <3> DEFINE Lost == {c \in Conn : handler[c] # "idle"}
    <3>1. Lease!Owners \subseteq Lost /\ Lost \in SUBSET Conn
      BY OwnersRegistered DEF Registered
    <3>2. Retired' = Retired \cup Lost
      BY <2>11 DEF Restart
    <3>3. watchers' = [t \in Tag |-> None]
      BY <2>11 DEF Restart
    <3> QED
      BY <3>1, <3>2, <3>3 DEF Lease!Reset
  <2>12. CASE UNCHANGED vars
    BY <2>1, <2>12 DEF vars
  <2> DEFINE Simulated == Lease!Next \/ UNCHANGED <<watchers, Retired>>
  <2>13. ASSUME NEW c \in Conn, HandlerStep(c) PROVE Simulated
    <3>1. CASE RecvSubscribeFails(c) \/ AlreadyWatching(c)
      BY <2>4, <3>1 DEF Lease!Next
    <3>2. CASE Watch(c)
      BY <2>5, <3>2 DEF Lease!Next
    <3>3. CASE Cancel(c)
      BY <2>6, <3>3 DEF Lease!Next
    <3> QED
      BY <2>3, <2>13, <3>1, <3>2, <3>3 DEF HandlerStep
  <2>14. CASE Next
    BY <2>2, <2>7, <2>8, <2>9, <2>10, <2>11, <2>13, <2>14 DEF Next, Lease!Next
  <2> QED
    BY <2>12, <2>14
<1> QED
  BY <1>1, <1>2, Invariance, PTL DEF Spec, LeaseImplemented, Lease!Spec

-----------------------------------------------------------------------------
(* PeerSync: what travels over the configuration streams.                    *)

(* An instance that is subscribed reads a stream. *)
Joined ==
    /\ process \in [Tag -> {"down", "broken", "configured", "subscribed"}]
    /\ stream \in [Tag -> Conn \cup {None}]
    /\ \A t \in Tag : process[t] = "subscribed" => stream[t] \in Conn

(* Every step of the pipeline keeps it so.                                    *)
LEMMA JoinedStep == Joined /\ [PipelineNext]_world => Joined'
<1> SUFFICES ASSUME Joined, [PipelineNext]_world PROVE Joined'
  OBVIOUS
<1> USE DEF Joined
<1>1. CASE UNCHANGED <<process, stream>>
  BY <1>1
<1>2. ASSUME NEW t \in Tag, NEW c \in Conn, Subscribe(t, c) PROVE Joined'
  BY <1>2 DEF Subscribe
<1>3. ASSUME NEW t \in Tag, RequestConfiguration(t) PROVE Joined'
  <2>1. UNCHANGED stream /\ (process' = process \/ process' = [process EXCEPT ![t] = "configured"])
    BY <1>3 DEF RequestConfiguration
  <2> QED
    BY <2>1
<1>4. ASSUME NEW t \in Tag, NoticeBrokenStream(t) \/ StopInstance(t) PROVE Joined'
  BY <1>4 DEF NoticeBrokenStream, StopInstance
<1>5. CASE UNCHANGED world
  BY <1>1, <1>5 DEF world, instances
<1> QED
  BY <1>1, <1>2, <1>3, <1>4, <1>5
     DEF PipelineNext, GoroutineStep, CreateAdjacency, UpdateAdjacency, DeleteAdjacency,
         UpdateWireGuardServerConfig, Commit, instances, TakePeerNotification, ResolvePresharedKey,
         TakeServerNotification, NextTag, Finish, HandOver, TimeOut, Serve, LeaveStream,
         RestartOrchestrator, Receive, ReceiveLast, DropNotification, LoseConnection

(* A step of the pipeline is one of the registry and its streams, or leaves    *)
(* them alone.                                                               *)
LEMMA PipelineStepIsStep == Joined /\ [PipelineNext]_world => [Next]_vars
<1> SUFFICES ASSUME Joined, [PipelineNext]_world PROVE [Next]_vars
  OBVIOUS
<1>1. CASE UNCHANGED world
  BY <1>1 DEF world, orchestrator
<1>2. ASSUME NEW p \in Peer, CreateAdjacency(p) PROVE UNCHANGED vars
  BY <1>2 DEF CreateAdjacency, Commit, orchestrator
<1>3. ASSUME NEW i \in Id, NEW p \in Peer, UpdateAdjacency(i, p) PROVE UNCHANGED vars
  BY <1>3 DEF UpdateAdjacency, Commit, orchestrator
<1>4. ASSUME NEW i \in Id, DeleteAdjacency(i) PROVE UNCHANGED vars
  BY <1>4 DEF DeleteAdjacency, Commit, orchestrator
<1>5. ASSUME NEW new \in Iface, UpdateWireGuardServerConfig(new) PROVE UNCHANGED vars
  BY <1>5 DEF UpdateWireGuardServerConfig, Commit, orchestrator
<1>6. ASSUME NEW n \in Notifier, GoroutineStep(n) PROVE Next \/ UNCHANGED vars
  <2>1. CASE TakePeerNotification \/ ResolvePresharedKey \/ TakeServerNotification \/ Finish(n)
    BY <2>1 DEF TakePeerNotification, ResolvePresharedKey, TakeServerNotification, Finish, orchestrator
  <2>2. ASSUME NEW t \in Tag, NextTag(n, t) PROVE Lookup(n, t) \/ UNCHANGED vars
    BY <2>2 DEF NextTag, orchestrator
  <2>3. CASE HandOver(n) \/ TimeOut(n)
    BY <2>3 DEF HandOver, TimeOut, Next, NotifierStep
  <2> QED
    BY <1>6, <2>1, <2>2, <2>3 DEF GoroutineStep, Next
<1>7. ASSUME NEW c \in Conn, Serve(c) \/ LeaveStream(c) PROVE HandlerStep(c)
  BY <1>7 DEF Serve, LeaveStream, HandlerStep
<1>8. CASE RestartOrchestrator
  BY <1>8 DEF RestartOrchestrator, Next
<1>9. ASSUME NEW t \in Tag, NEW c \in Conn, Subscribe(t, c) PROVE Open(c, t)
  BY <1>9 DEF Subscribe
<1>10. ASSUME NEW t \in Tag,
              RequestConfiguration(t) \/ ReceiveLast(t) \/ NoticeBrokenStream(t)
       PROVE  UNCHANGED vars
  BY <1>10 DEF RequestConfiguration, ReceiveLast, NoticeBrokenStream, orchestrator
<1>11. ASSUME NEW t \in Tag,
              Receive(t) \/ DropNotification(t) \/ LoseConnection(t) \/ StopInstance(t)
       PROVE  \/ Answer(stream[t]) \/ RateLimited(stream[t]) \/ Hangup(stream[t])
              \/ UNCHANGED vars
  BY <1>11 DEF Receive, DropNotification, LoseConnection, StopInstance, orchestrator
<1>12. ASSUME NEW t \in Tag,
              Receive(t) \/ DropNotification(t) \/ LoseConnection(t) \/ StopInstance(t)
       PROVE  stream[t] \in Conn \/ UNCHANGED vars
  BY <1>12 DEF Joined, Receive, DropNotification, LoseConnection, StopInstance, orchestrator
<1> QED
  BY <1>1, <1>2, <1>3, <1>4, <1>5, <1>6, <1>7, <1>8, <1>9, <1>10, <1>11, <1>12 DEF PipelineNext, Next

(* It holds throughout.                                                      *)
LEMMA PipelineJoined == PipelineSpec => []Joined
<1>1. PipelineInit => Joined
  BY DEF PipelineInit, Joined
<1> QED
  BY <1>1, JoinedStep, PTL DEF PipelineSpec

(* The pipeline, with its queues, goroutines and instances, implements the     *)
(* registry of watchers: whatever the instances and the notifying goroutines *)
(* do, a stream is used as SubscribeWG and WatchWireGuardConfig allow.       *)
THEOREM PipelineRefines == PipelineSpec => Spec
<1>1. PipelineInit => Init
  BY DEF PipelineInit
<1>2. Joined /\ [PipelineNext]_world => [Next]_vars
  BY PipelineStepIsStep
<1> QED
  BY <1>1, <1>2, PipelineJoined, PTL DEF PipelineSpec, Spec

(* So it has the exclusive lease, the truthful status and one exchange at a time. *)
THEOREM PipelineRegistry ==
    PipelineSpec => [](RegistrySound /\ StatusNeedsHandler /\ OneOutstanding) /\ LeaseImplemented
  BY PipelineRefines, RegistryCorrect, StatusCorrect, ExchangeCorrect, LeaseCorrect, PTL

(* What the queue and the goroutines hold.                                     *)
Notification ==
    {m \in [old : {p.key : p \in Peer} \cup {None}, new : Peer \cup {None}, id : Id \cup {None}] :
        m.new # None => m.id \in Id}

Job ==
    [stage : {"delete", "add"}, ntf : Notification, todo : SUBSET Tag, msg : Message]
    \cup [stage : {"config"}, todo : SUBSET Tag, msg : Message]

Trouble == {"missed", "timeout", "limited", "crossed", "failed"}

Stored ==
    /\ iface \in Iface
    /\ table \in [Id -> Peer \cup {None}]
    /\ nextId \in 1..MaxId + 1
    /\ changes \in 0..MaxChanges

Queued ==
    /\ peerQueue \in Seq(Notification)
    /\ serverQueue \in Nat
    /\ Len(peerQueue) + serverQueue <= changes

Working ==
    /\ DOMAIN job = Notifier
    /\ \A n \in Notifier :
        \/ job[n] = NoJob /\ notifying[n] = None
        \/ job[n] \in Job

(* A stream is read by the instance that opened it, ...                        *)
Reading ==
    \A t \in Tag : process[t] = "subscribed" =>
        tagOf[stream[t]] = t /\ handler[stream[t]] # "idle"

(* ... and what is to be sent on it, or read, has been handed over and not read. *)
MessageThere ==
    /\ sent \in [Conn -> Message \cup {None}]
    /\ \A c \in Conn :
        handler[c] = "sending" \/ (exchange[c] = "request" /\ online[c]) => sent[c] # None

PipeInv ==
    /\ IInv /\ Joined
    /\ Stored /\ Queued /\ Working
    /\ trouble \in [Tag -> SUBSET Trouble]
    /\ Reading /\ MessageThere

(* What a query of the adjacencies returns is a sequence of peers. *)
LEMMA ReadPeers ==
    ASSUME Stored, NEW wg \in Configurations
    PROVE  wg.iface \in Iface /\ wg.peers \in Seq(Peer)
<1> DEFINE S == {table[i] : i \in Id} \ {None}
<1>1. PICK ps \in SetToSeqs(S) : wg = [iface |-> iface, peers |-> ps]
  BY DEF Configurations
<1>2. IsFiniteSet(S)
  <2>1. IsFiniteSet(Id)
    BY FS_Interval, SizesAssumption DEF Id
  <2>2. table \in [Id -> {table[i] : i \in Id}]
    BY DEF Stored
  <2>3. table \in Surjection(Id, {table[i] : i \in Id})
    BY <2>2 DEF Surjection
  <2>4. IsFiniteSet({table[i] : i \in Id})
    BY <2>1, <2>3, FS_Surjection
  <2> QED
    BY <2>4, FS_Difference
<1>3. Cardinality(S) \in Nat
  BY <1>2, FS_CardinalityType
<1>4. ps \in [1..Cardinality(S) -> S]
  BY <1>1 DEF SetToSeqs
<1>5. S \subseteq Peer
  BY DEF Stored
<1>6. ps \in Seq(Peer)
  <2>1. ASSUME NEW n \in Nat, NEW f \in [1..n -> Peer] PROVE f \in Seq(Peer)
    BY <2>1
  <2>2. ps \in [1..Cardinality(S) -> Peer]
    BY <1>4, <1>5
  <2> QED
    BY <1>3, <2>1, <2>2
<1> QED
  BY <1>1, <1>6 DEF Stored

(* The initial state satisfies the invariant. *)
LEMMA PipeStart == PipelineInit => PipeInv
<1> SUFFICES ASSUME PipelineInit PROVE PipeInv
  OBVIOUS
<1>1. IInv
  BY InitIInv DEF PipelineInit
<1>2. Joined /\ Reading
  BY DEF PipelineInit, Joined, Reading
<1>3. Stored
  <2>1. PICK p \in Peer \cup {None} :
            /\ table = [i \in Id |-> IF i = 1 THEN p ELSE None]
            /\ nextId = IF p = None THEN 1 ELSE 2
    BY DEF PipelineInit
  <2> QED
    BY <2>1, SizesAssumption DEF PipelineInit, Stored
<1>4. Queued /\ Working
  BY DEF PipelineInit, Queued, Working, Init
<1>5. MessageThere /\ trouble \in [Tag -> SUBSET Trouble]
  BY SMTT(30) DEF PipelineInit, MessageThere, Init
<1> QED
  BY <1>1, <1>2, <1>3, <1>4, <1>5 DEF PipeInv

(* The tables and the queues.                                                  *)
LEMMA StoredStep ==
    ASSUME Stored, Queued, Working, PipelineNext
    PROVE  Stored' /\ Queued'
<1>1. CASE UNCHANGED <<iface, table, nextId, changes, peerQueue, serverQueue>>
  BY <1>1 DEF Stored, Queued
<1>2. ASSUME NEW p \in Peer, CreateAdjacency(p) PROVE Stored' /\ Queued'
  <2>1. [old |-> None, new |-> p, id |-> nextId] \in Notification
    BY <1>2 DEF Notification, CreateAdjacency, Stored, Id
  <2>2. Stored'
    BY <1>2, SizesAssumption DEF Stored, CreateAdjacency, Commit, NotifyPeers, Id
  <2> QED
    BY <1>2, <2>1, <2>2 DEF Stored, Queued, CreateAdjacency, Commit, NotifyPeers
<1>3. ASSUME NEW i \in Id, NEW p \in Peer, UpdateAdjacency(i, p) PROVE Stored' /\ Queued'
  <2>1. [old |-> table[i].key, new |-> p, id |-> i] \in Notification
    BY <1>3 DEF Notification, UpdateAdjacency, Stored
  <2>2. Stored'
    BY <1>3, SizesAssumption DEF Stored, UpdateAdjacency, Commit, NotifyPeers
  <2> QED
    BY <1>3, <2>1, <2>2 DEF Stored, Queued, UpdateAdjacency, Commit, NotifyPeers
<1>4. ASSUME NEW i \in Id, DeleteAdjacency(i) PROVE Stored' /\ Queued'
  <2>1. [old |-> table[i].key, new |-> None, id |-> None] \in Notification
    BY <1>4 DEF Notification, DeleteAdjacency, Stored
  <2>2. Stored'
    BY <1>4, SizesAssumption DEF Stored, DeleteAdjacency, Commit, NotifyPeers
  <2> QED
    BY <1>4, <2>1, <2>2 DEF Stored, Queued, DeleteAdjacency, Commit, NotifyPeers
<1>5. ASSUME NEW new \in Iface, UpdateWireGuardServerConfig(new) PROVE Stored' /\ Queued'
  BY <1>5, SizesAssumption DEF Stored, Queued, UpdateWireGuardServerConfig, Commit
<1>6. CASE TakePeerNotification
  <2>1. peerQueue' = Tail(peerQueue) /\ peerQueue # <<>> /\ UNCHANGED <<database, serverQueue>>
    BY <1>6 DEF TakePeerNotification
  <2>2. peerQueue' \in Seq(Notification) /\ Len(peerQueue') = Len(peerQueue) - 1
    BY <2>1 DEF Queued
  <2> QED
    BY <2>1, <2>2 DEF Stored, Queued, database
<1>7. CASE TakeServerNotification
  BY <1>7 DEF Stored, Queued, TakeServerNotification, database
<1>8. CASE RestartOrchestrator
  BY <1>8 DEF Stored, Queued, RestartOrchestrator, database
<1> QED
  BY <1>1, <1>2, <1>3, <1>4, <1>5, <1>6, <1>7, <1>8
     DEF PipelineNext, GoroutineStep, database, pipeline, ResolvePresharedKey, NextTag, Finish, HandOver,
         TimeOut, Serve, LeaveStream, RequestConfiguration, Subscribe, Receive, ReceiveLast,
         DropNotification, LoseConnection, NoticeBrokenStream, StopInstance

(* The goroutines.                                                             *)
LEMMA WorkingStep ==
    ASSUME TypeOK, Stored, Queued, Working, PipelineNext
    PROVE  Working'
<1> USE NotifierAssumption
<1>1. ASSUME job' = job, notifying' = notifying PROVE Working'
  BY <1>1 DEF Working
<1>2. ASSUME NEW n \in Notifier, NEW j \in Job, Work(n, j), notifying' = notifying PROVE Working'
  BY <1>2 DEF Working, Work
<1>3. ASSUME NEW n \in Notifier, Work(n, NoJob), notifying' = notifying, notifying[n] = None
      PROVE  Working'
  BY <1>3 DEF Working, Work
<1>4. CASE TakePeerNotification
  <2> DEFINE ntf == Head(peerQueue)
             j == [stage |-> "delete", ntf |-> ntf, todo |-> IF ntf.old = None THEN {} ELSE Tag,
                   msg |-> [kind |-> "del", key |-> ntf.old]]
  <2>1. ntf \in Notification
    BY <1>4 DEF TakePeerNotification, Queued
  <2>2. [kind |-> "del", key |-> ntf.old] \in Message
    BY <2>1 DEF Notification, Message
  <2>3. j \in Job
    BY <2>1, <2>2 DEF Job
  <2>4. Work("peers", j) /\ notifying' = notifying
    BY <1>4 DEF TakePeerNotification, orchestrator, vars
  <2> QED
    BY <1>2, <2>3, <2>4
<1>5. CASE ResolvePresharedKey
  <2> DEFINE ntf == job["peers"].ntf
             psk == IF table[ntf.id] = None THEN NoPsk ELSE table[ntf.id].psk
             m == [kind |-> "add", peer |-> WithPsk(ntf.new, psk)]
             j == [stage |-> "add", ntf |-> ntf, todo |-> Tag, msg |-> m]
  <2>1. job["peers"] \in Job /\ job["peers"].stage = "delete" /\ notifying["peers"] = None
    BY <1>5 DEF ResolvePresharedKey, Working
  <2>2. ntf \in Notification
    BY <2>1 DEF Job
  <2>3. notifying' = notifying
    BY <1>5 DEF ResolvePresharedKey, orchestrator, vars
  <2>4. CASE ntf.new = None
    <3>1. Work("peers", NoJob)
      BY <1>5, <2>4 DEF ResolvePresharedKey
    <3> QED
      BY <1>3, <2>1, <2>3, <3>1
  <2>5. CASE ntf.new # None
    <3>1. ntf.new \in Peer /\ ntf.id \in Id
      BY <2>2, <2>5 DEF Notification
    <3>2. psk = NoPsk \/ \E q \in Peer : psk = q.psk
      BY <3>1 DEF Stored
    <3>3. m \in Message
      <4>1. psk \in {q.psk : q \in Peer} \cup {NoPsk}
        BY <3>2
      <4> HIDE DEF psk, ntf
      <4> QED
        BY <3>1, <4>1 DEF Message
    <3>4. j \in Job
      BY <2>2, <3>3 DEF Job
    <3>5. Work("peers", j)
      BY <1>5, <2>5 DEF ResolvePresharedKey
    <3> QED
      BY <1>2, <2>3, <3>4, <3>5
  <2> QED
    BY <2>4, <2>5
<1>6. CASE TakeServerNotification
  <2>1. PICK wg \in Configurations :
            Work("servers", [stage |-> "config", todo |-> Tag,
                             msg |-> [kind |-> "config", iface |-> wg.iface, peers |-> wg.peers]])
    BY <1>6 DEF TakeServerNotification
  <2>2. [kind |-> "config", iface |-> wg.iface, peers |-> wg.peers] \in Message
    BY ReadPeers DEF Message
  <2>3. notifying' = notifying
    BY <1>6 DEF TakeServerNotification, orchestrator, vars
  <2> QED
    BY <1>2, <2>1, <2>2, <2>3 DEF Job
<1>7. ASSUME NEW n \in Notifier, NEW t \in Tag, NextTag(n, t) PROVE Working'
  <2>1. job[n] \in Job /\ notifying[n] = None /\ Work(n, [job[n] EXCEPT !.todo = @ \ {t}])
    BY <1>7 DEF NextTag, Working
  <2>2. [job[n] EXCEPT !.todo = @ \ {t}] \in Job
    BY <2>1 DEF Job
  <2>3. \A u \in Notifier \ {n} : notifying'[u] = notifying[u]
    BY <1>7 DEF NextTag, Lookup, orchestrator, vars, TypeOK
  <2> QED
    BY <2>1, <2>2, <2>3 DEF Working, Work
<1>8. ASSUME NEW n \in Notifier, Finish(n) PROVE Working'
  BY <1>3, <1>8 DEF Finish, orchestrator, vars
<1>9. ASSUME NEW n \in Notifier, HandOver(n) \/ TimeOut(n) PROVE Working'
  <2>1. job' = job /\ notifying' = [notifying EXCEPT ![n] = None]
    BY <1>9 DEF HandOver, TimeOut, Deliver, GiveUp, pipeline
  <2> QED
    BY <2>1 DEF Working, TypeOK
<1>10. CASE RestartOrchestrator
  BY <1>10 DEF RestartOrchestrator, Restart, Working
<1>11. CASE \/ \E p \in Peer : CreateAdjacency(p)
            \/ \E i \in Id, p \in Peer : UpdateAdjacency(i, p)
            \/ \E i \in Id : DeleteAdjacency(i)
            \/ \E new \in Iface : UpdateWireGuardServerConfig(new)
  BY <1>1, <1>11 DEF CreateAdjacency, UpdateAdjacency, DeleteAdjacency, UpdateWireGuardServerConfig,
         Commit, orchestrator, vars
<1>12. ASSUME NEW c \in Conn, Serve(c) \/ LeaveStream(c) PROVE Working'
  BY <1>1, <1>12 DEF Serve, LeaveStream, pipeline, RecvSubscribe, RecvSubscribeFails, Watch,
         AlreadyWatching, Send, RecvResponse, Cancel, Return, StreamBroken
<1>13. ASSUME NEW t \in Tag, NEW c \in Conn, Subscribe(t, c) PROVE Working'
  BY <1>1, <1>13 DEF Subscribe, Open, pipeline
<1>14. ASSUME NEW t \in Tag,
              RequestConfiguration(t) \/ ReceiveLast(t) \/ NoticeBrokenStream(t)
       PROVE  Working'
  BY <1>1, <1>14 DEF RequestConfiguration, ReceiveLast, NoticeBrokenStream, pipeline, orchestrator, vars
<1>15. ASSUME NEW t \in Tag,
              Receive(t) \/ DropNotification(t) \/ LoseConnection(t) \/ StopInstance(t)
       PROVE  Working'
  BY <1>1, <1>15 DEF Receive, DropNotification, LoseConnection, StopInstance, Answer, RateLimited,
         Hangup, pipeline, orchestrator, vars
<1> QED
  BY <1>4, <1>5, <1>6, <1>7, <1>8, <1>9, <1>10, <1>11, <1>12, <1>13, <1>14, <1>15
     DEF PipelineNext, GoroutineStep

(* The history of the instances.                                               *)
LEMMA TroubleStep ==
    ASSUME trouble \in [Tag -> SUBSET Trouble], PipelineNext
    PROVE  trouble' \in [Tag -> SUBSET Trouble]
<1> DEFINE Sound == trouble' \in [Tag -> SUBSET Trouble]
<1>1. ASSUME NEW tags, NEW what \in Trouble, Note(tags, what) PROVE Sound
  BY <1>1 DEF Note
<1>2. ASSUME UNCHANGED trouble PROVE Sound
  BY <1>2
<1> HIDE DEF Sound
<1>3. ASSUME NEW old, NEW new, NEW id, NotifyPeers(old, new, id) PROVE Sound
  BY <1>1, <1>2, <1>3 DEF NotifyPeers, Trouble
<1>4. CASE \/ \E p \in Peer : CreateAdjacency(p)
           \/ \E i \in Id, p \in Peer : UpdateAdjacency(i, p)
           \/ \E i \in Id : DeleteAdjacency(i)
           \/ \E new \in Iface : UpdateWireGuardServerConfig(new)
  <2>1. ASSUME NEW p \in Peer, CreateAdjacency(p) PROVE Sound
    BY <1>3, <2>1 DEF CreateAdjacency
  <2>2. ASSUME NEW i \in Id, NEW p \in Peer, UpdateAdjacency(i, p) PROVE Sound
    BY <1>2, <1>3, <2>2 DEF UpdateAdjacency
  <2>3. ASSUME NEW i \in Id, DeleteAdjacency(i) PROVE Sound
    BY <1>3, <2>3 DEF DeleteAdjacency
  <2>4. ASSUME NEW new \in Iface, UpdateWireGuardServerConfig(new) PROVE Sound
    BY <1>2, <2>4 DEF UpdateWireGuardServerConfig
  <2> QED
    BY <1>4, <2>1, <2>2, <2>3, <2>4 DEF Sound
<1>5. ASSUME NEW n \in Notifier, GoroutineStep(n) PROVE Sound
  <2>1. CASE TakePeerNotification \/ ResolvePresharedKey \/ Finish(n) \/ HandOver(n)
    BY <1>2, <2>1 DEF TakePeerNotification, ResolvePresharedKey, Finish, HandOver
  <2>2. CASE TakeServerNotification
    BY <1>1, <1>2, <2>2 DEF TakeServerNotification, Trouble
  <2>3. ASSUME NEW t \in Tag, NextTag(n, t) PROVE Sound
    BY <1>1, <1>2, <2>3 DEF NextTag, Trouble
  <2>4. CASE TimeOut(n)
    BY <1>1, <2>4 DEF TimeOut, Trouble
  <2> QED
    BY <1>5, <2>1, <2>2, <2>3, <2>4 DEF GoroutineStep
<1>6. ASSUME NEW c \in Conn, Serve(c) \/ LeaveStream(c) PROVE Sound
  BY <1>1, <1>2, <1>6 DEF Serve, LeaveStream, Trouble
<1>7. CASE RestartOrchestrator
  <2>1. "missed" \in Trouble
    BY DEF Trouble
  <2>2. Note(Settled, "missed") \/ UNCHANGED trouble
    BY <1>7 DEF RestartOrchestrator
  <2> QED
    BY <1>1, <1>2, <2>1, <2>2 DEF Sound
<1>8. ASSUME NEW t \in Tag, RequestConfiguration(t) PROVE Sound
  <2>1. PICK new \in SUBSET Trouble, old \in SUBSET trouble[t] :
            trouble' = [trouble EXCEPT ![t] = new \cup old]
    <3>1. PICK wg, r :
              trouble' = [trouble EXCEPT ![t] =
                  (IF PeersUnderWay \/ ConfigUnderWay THEN {"crossed"} ELSE {})
                  \cup (IF r.ok THEN {} ELSE {"failed"})
                  \cup (IF process[t] = "down" THEN {} ELSE @ \cap {"failed"})]
      BY <1>8 DEF RequestConfiguration
    <3> DEFINE new == (IF PeersUnderWay \/ ConfigUnderWay THEN {"crossed"} ELSE {})
                      \cup (IF r.ok THEN {} ELSE {"failed"})
               old == IF process[t] = "down" THEN {} ELSE trouble[t] \cap {"failed"}
    <3>2. new \in SUBSET Trouble /\ old \in SUBSET trouble[t]
      BY DEF Trouble
    <3>3. trouble' = [trouble EXCEPT ![t] = new \cup old]
      BY <3>1
    <3> QED
      BY <3>2, <3>3
  <2> QED
    BY <2>1 DEF Sound
<1>9. ASSUME NEW t \in Tag, NEW c \in Conn, Subscribe(t, c) PROVE Sound
  BY <1>2, <1>9 DEF Subscribe
<1>10. ASSUME NEW t \in Tag, Receive(t) \/ ReceiveLast(t) \/ DropNotification(t) PROVE Sound
  BY <1>1, <1>2, <1>10 DEF Receive, ReceiveLast, DropNotification, Trouble
<1>11. ASSUME NEW t \in Tag, LoseConnection(t) \/ NoticeBrokenStream(t) PROVE Sound
  BY <1>2, <1>11 DEF LoseConnection, NoticeBrokenStream
<1>12. ASSUME NEW t \in Tag, StopInstance(t) PROVE Sound
  BY <1>12 DEF StopInstance, Sound
<1> QED
  BY <1>4, <1>5, <1>6, <1>7, <1>8, <1>9, <1>10, <1>11, <1>12 DEF PipelineNext, Sound

(* A stream that was opened stays the stream of its tag.                       *)
LEMMA StreamKept ==
    ASSUME TypeOK, [Next]_vars, NEW c \in Conn, handler[c] # "idle"
    PROVE  handler'[c] # "idle" /\ tagOf'[c] = tagOf[c]
<1>1. ASSUME NEW d \in Conn, NEW t \in Tag, Open(d, t) PROVE handler'[c] # "idle" /\ tagOf'[c] = tagOf[c]
  BY <1>1 DEF Open, Goto, TypeOK
<1>2. ASSUME NEW d \in Conn, HandlerStep(d) PROVE handler'[c] # "idle" /\ tagOf'[c] = tagOf[c]
  BY <1>2 DEF HandlerStep, RecvSubscribe, RecvSubscribeFails, Watch, AlreadyWatching, Send,
         RecvResponse, StreamBroken, Cancel, Return, Goto, TypeOK
<1>3. ASSUME NEW n \in Notifier, NotifierStep(n) PROVE handler'[c] # "idle" /\ tagOf'[c] = tagOf[c]
  BY <1>3 DEF NotifierStep, Deliver, GiveUp, Goto, TypeOK
<1>4. CASE Restart
  BY <1>4 DEF Restart
<1>5. CASE \/ \E n \in Notifier, t \in Tag : Lookup(n, t)
           \/ \E d \in Conn : Answer(d) \/ RateLimited(d) \/ Hangup(d)
           \/ \E s \in Server : DeleteServer(s)
           \/ UNCHANGED vars
  BY <1>5 DEF Lookup, Answer, RateLimited, Hangup, DeleteServer, vars
<1> QED
  BY <1>1, <1>2, <1>3, <1>4, <1>5 DEF Next

(* The streams of the instances.                                               *)
LEMMA ReadingStep ==
    ASSUME TypeOK, Joined, Reading, PipelineNext
    PROVE  Reading'
<1>1. [Next]_vars
  BY PipelineStepIsStep
<1>2. ASSUME NEW t \in Tag, process'[t] = "subscribed",
             process[t] = "subscribed", stream'[t] = stream[t]
      PROVE  tagOf'[stream'[t]] = t /\ handler'[stream'[t]] # "idle"
  BY <1>1, <1>2, StreamKept DEF Reading, Joined
<1>3. ASSUME \A t \in Tag : process'[t] = "subscribed" =>
                  process[t] = "subscribed" /\ stream'[t] = stream[t]
      PROVE  Reading'
  BY <1>2, <1>3 DEF Reading
<1>4. ASSUME NEW t \in Tag, NEW c \in Conn, Subscribe(t, c) PROVE Reading'
  <2>1. tagOf'[c] = t /\ handler'[c] = "opened"
    BY <1>4 DEF Subscribe, Open, Goto, TypeOK
  <2>2. stream'[t] = c /\ \A u \in Tag \ {t} : process'[u] = process[u] /\ stream'[u] = stream[u]
    BY <1>4 DEF Subscribe, Joined
  <2>3. ASSUME NEW u \in Tag, process'[u] = "subscribed"
        PROVE  tagOf'[stream'[u]] = u /\ handler'[stream'[u]] # "idle"
    BY <1>2, <2>1, <2>2, <2>3
  <2> QED
    BY <2>3 DEF Reading
<1>5. ASSUME NEW t \in Tag, RequestConfiguration(t) PROVE Reading'
  <2>1. UNCHANGED stream /\ (process' = process \/ process' = [process EXCEPT ![t] = "configured"])
    BY <1>5 DEF RequestConfiguration
  <2> QED
    BY <1>3, <2>1 DEF Joined
<1>6. ASSUME NEW t \in Tag, NoticeBrokenStream(t) PROVE Reading'
  BY <1>3, <1>6 DEF NoticeBrokenStream, Joined
<1>7. ASSUME NEW t \in Tag, StopInstance(t) PROVE Reading'
  BY <1>3, <1>7 DEF StopInstance, Joined
<1>8. CASE UNCHANGED <<process, stream>>
  BY <1>3, <1>8
<1> QED
  BY <1>4, <1>5, <1>6, <1>7, <1>8
     DEF PipelineNext, GoroutineStep, CreateAdjacency, UpdateAdjacency, DeleteAdjacency,
         UpdateWireGuardServerConfig, Commit, instances, TakePeerNotification, ResolvePresharedKey,
         TakeServerNotification, NextTag, Finish, HandOver, TimeOut, Serve, LeaveStream,
         RestartOrchestrator, Receive, ReceiveLast, DropNotification, LoseConnection

(* What is on the streams.                                                     *)
LEMMA MessageStep ==
    ASSUME IInv, Joined, Working, Reading, MessageThere, PipelineNext
    PROVE  MessageThere'
<1> DEFINE There(c) == handler[c] = "sending" \/ (exchange[c] = "request" /\ online[c])
<1>1. ASSUME UNCHANGED sent, \A c \in Conn : There(c)' => There(c) PROVE MessageThere'
  BY <1>1 DEF MessageThere
<1>2. ASSUME UNCHANGED <<sent, handler, exchange, online>> PROVE MessageThere'
  BY <1>2 DEF MessageThere
<1>3. ASSUME NEW c \in Conn, Serve(c) \/ LeaveStream(c) PROVE MessageThere'
  <2>1. UNCHANGED sent
    BY <1>3 DEF Serve, LeaveStream, pipeline
  <2>2. \A d \in Conn : There(d)' => There(d)
    BY <1>3 DEF Serve, LeaveStream, RecvSubscribe, RecvSubscribeFails, Watch, AlreadyWatching, Send,
         RecvResponse, StreamBroken, Cancel, Return, Goto, IInv, TypeOK
  <2> QED
    BY <1>1, <2>1, <2>2
<1>4. CASE RestartOrchestrator
  BY <1>1, <1>4 DEF RestartOrchestrator, Restart, IInv, TypeOK
<1>5. ASSUME NEW t \in Tag, NEW c \in Conn, Subscribe(t, c) PROVE MessageThere'
  BY <1>1, <1>5 DEF Subscribe, Open, Goto, pipeline, IInv, TypeOK, ExchangeInv
<1>6. ASSUME NEW n \in Notifier, HandOver(n) PROVE MessageThere'
  <2>1. notifying[n] \in Conn /\ handler[notifying[n]] = "listening"
    BY <1>6 DEF HandOver, Deliver, IInv, TypeOK
  <2>2. job[n] \in Job /\ job[n].msg \in Message
    BY <1>6, <2>1, NoneAssumption DEF Working, Job
  <2>3. sent' = [sent EXCEPT ![notifying[n]] = job[n].msg]
    BY <1>6 DEF HandOver
  <2>4. \A c \in Conn \ {notifying[n]} : There(c)' => There(c)
    BY <1>6, <2>1 DEF HandOver, Deliver, Goto, IInv, TypeOK
  <2> QED
    BY <2>1, <2>2, <2>3, <2>4, MessageAssumption DEF MessageThere
<1>7. ASSUME NEW t \in Tag, Receive(t) \/ DropNotification(t) PROVE MessageThere'
  <2> DEFINE c == stream[t]
  <2>1. c \in Conn /\ exchange[c] = "request"
    BY <1>7 DEF Joined, Receive, DropNotification, Answer, RateLimited
  <2>2. handler' = handler /\ online' = online /\ sent' = [sent EXCEPT ![c] = None]
    BY <1>7 DEF Receive, DropNotification, Answer, RateLimited
  <2>3. exchange'[c] # "request" /\ \A d \in Conn \ {c} : exchange'[d] = exchange[d]
    BY <1>7, <2>1 DEF Receive, DropNotification, Answer, RateLimited, IInv, TypeOK
  <2>4. handler[c] # "sending"
    BY <2>1 DEF IInv, ExchangeInv
  <2> HIDE DEF c
  <2> QED
    BY <2>1, <2>2, <2>3, <2>4 DEF MessageThere
<1>8. ASSUME NEW t \in Tag, ReceiveLast(t) PROVE MessageThere'
  <2> DEFINE c == stream[t]
  <2>1. c \in Conn /\ exchange[c] = "request" /\ ~online[c]
    BY <1>8 DEF Joined, ReceiveLast
  <2>2. UNCHANGED <<handler, exchange, online>> /\ sent' = [sent EXCEPT ![c] = None]
    BY <1>8 DEF ReceiveLast, orchestrator, vars
  <2>3. handler[c] # "sending"
    BY <2>1 DEF IInv, ExchangeInv
  <2> HIDE DEF c
  <2> QED
    BY <2>1, <2>2, <2>3 DEF MessageThere
<1>9. ASSUME NEW t \in Tag, LoseConnection(t) \/ StopInstance(t) PROVE MessageThere'
  <2>1. UNCHANGED sent
    BY <1>9 DEF LoseConnection, StopInstance, pipeline
  <2>2. \A d \in Conn : There(d)' => There(d)
    BY <1>9 DEF LoseConnection, StopInstance, Hangup, orchestrator, vars, IInv, TypeOK
  <2> QED
    BY <1>1, <2>1, <2>2
<1>10. ASSUME NEW n \in Notifier, TimeOut(n) PROVE MessageThere'
  BY <1>2, <1>10 DEF TimeOut, GiveUp, pipeline
<1>11. ASSUME NEW n \in Notifier, NEW t \in Tag, NextTag(n, t) PROVE MessageThere'
  BY <1>2, <1>11 DEF NextTag, Lookup, orchestrator, vars
<1>12. CASE UNCHANGED <<orchestrator, sent>>
  BY <1>2, <1>12 DEF orchestrator, vars
<1> QED
  BY <1>3, <1>4, <1>5, <1>6, <1>7, <1>8, <1>9, <1>10, <1>11, <1>12
     DEF PipelineNext, GoroutineStep, CreateAdjacency, UpdateAdjacency, DeleteAdjacency,
         UpdateWireGuardServerConfig, Commit, pipeline, TakePeerNotification, ResolvePresharedKey,
         TakeServerNotification, Finish, RequestConfiguration, NoticeBrokenStream

(* Every step keeps it. *)
LEMMA PipelineInvariance == PipelineSpec => []PipeInv
<1>1. ASSUME PipeInv, [PipelineNext]_world PROVE PipeInv'
  <2>1. IInv' /\ Joined'
    BY <1>1, PipelineStepIsStep, JoinedStep, TypeStep, RegistryStep, StatusStep, ExchangeStep
       DEF PipeInv, IInv
  <2>2. CASE PipelineNext
    BY <1>1, <2>1, <2>2, StoredStep, WorkingStep, TroubleStep, ReadingStep, MessageStep
       DEF PipeInv, IInv
  <2>3. CASE UNCHANGED world
    <3>1. UNCHANGED <<handler, tagOf, exchange, online, notifying>>
      BY <2>3 DEF world, orchestrator, vars
    <3>2. UNCHANGED <<iface, table, nextId, changes, peerQueue, serverQueue, job, sent, process, stream,
                      trouble>>
      BY <2>3 DEF world, database, pipeline, instances
    <3> QED
      BY <1>1, <2>1, <3>1, <3>2 DEF PipeInv, Stored, Queued, Working, Reading, MessageThere
  <2> QED
    BY <1>1, <2>2, <2>3
<1> QED
  BY <1>1, PipeStart, PTL DEF PipelineSpec

(* The queues, goroutines, streams and instances keep their types, whatever    *)
(* is lost, restarted or crosses: a goroutine that hands a notification over *)
(* has one to hand over, and no more is queued than was committed.           *)
THEOREM PipelineTypeCorrect == PipelineSpec => []PipelineTypeOK
<1>1. PipeInv => PipelineTypeOK
  BY DEF PipeInv, IInv, Joined, Stored, Queued, Working, Job, Trouble, PipelineTypeOK
<1> QED
  BY <1>1, PipelineInvariance, PTL

(* An instance reads a stream that it opened, and a notification that was      *)
(* handed over on it and not read before; two instances never share a stream *)
(* (Receive in vpns.go, notifyWGConfigChanges in postgres.go).               *)
THEOREM ReceivedOnce ==
    PipelineSpec =>
        [](\A t \in Tag : process[t] = "subscribed" =>
              /\ stream[t] \in Conn
              /\ exchange[stream[t]] = "request" /\ online[stream[t]] => sent[stream[t]] \in Message
              /\ \A u \in Tag \ {t} : process[u] = "subscribed" => stream[u] # stream[t])
<1>1. PipeInv => \A t \in Tag : process[t] = "subscribed" =>
                    /\ stream[t] \in Conn
                    /\ exchange[stream[t]] = "request" /\ online[stream[t]] => sent[stream[t]] \in Message
                    /\ \A u \in Tag \ {t} : process[u] = "subscribed" => stream[u] # stream[t]
  BY DEF PipeInv, Joined, Reading, MessageThere
<1> QED
  BY <1>1, PipelineInvariance, PTL

-----------------------------------------------------------------------------
(* The steps of a command. *)

Op == {"check", "write", "name", "stop", "rm", "rm-volume", "verify", "read-pages",
       "write-pages", "save", "run", "volume", "connect", "line"}
Arg == {"host", "secrets", "config", "vpp", "day0", "server", "telegraf", "healthcheck"}
AnyStep == Op \X Arg

(* The steps a command has left, whatever their order, ... *)
Left(s) == {s[i] : i \in 1..Len(s)}

Verifying == Step("verify", "host")
Asking == Step("read-pages", "host")
Setting == Step("write-pages", "host")
Noting == Step("save", "host")
Line == Step("line", "vpp")

(* ... and the order that all commands have them in. *)
Rank(step) ==
    CASE step = Step("check", "host") -> 1
      [] step = Step("write", "secrets") -> 2
      [] step = Step("write", "config") -> 3
      [] step = Step("write", "vpp") -> 4
      [] step = Step("write", "day0") -> 5
      [] step = Step("name", "host") -> 6
      [] step = Step("stop", "server") -> 7
      [] step = Step("rm", "server") -> 8
      [] step = Step("stop", "vpp") -> 9
      [] step = Step("rm", "vpp") -> 10
      [] step = Step("stop", "telegraf") -> 11
      [] step = Step("rm", "telegraf") -> 12
      [] step = Step("rm-volume", "telegraf") -> 13
      [] step = Step("rm-volume", "vpp") -> 14
      [] step = Step("stop", "healthcheck") -> 15
      [] step = Step("rm", "healthcheck") -> 16
      [] step = Verifying -> 17
      [] step = Asking -> 18
      [] step = Setting -> 19
      [] step = Noting -> 20
      [] step = Step("run", "server") -> 21
      [] step = Step("volume", "vpp") -> 22
      [] step = Step("run", "vpp") -> 23
      [] step = Step("connect", "vpp") -> 24
      [] step = Line -> 25
      [] step = Step("volume", "telegraf") -> 26
      [] step = Step("run", "telegraf") -> 27
      [] step = Step("run", "healthcheck") -> 28

Behind(x, y) == Rank(x) < Rank(y) \/ (x = Line /\ y = Line)

Sorted(s) == \A i, j \in 1..Len(s) : i < j => Behind(s[i], s[j])

(* Of the day0 configuration, n lines are left, one after the other. *)
LinesLeft(s, n) ==
    \E p \in 0..Len(s) :
        /\ p + n <= Len(s)
        /\ \A i \in 1..Len(s) : s[i] = Line <=> p < i /\ i <= p + n

Covers(service, c) ==
    IF c = "healthcheck" THEN service # "server" ELSE service # "healthcheck"

StopSteps(service) ==
    {Step("stop", c) : c \in {d \in Container : Covers(service, d)}}
    \cup {Step("rm", c) : c \in {d \in Container : Covers(service, d)}}
    \cup (IF service # "healthcheck"
          THEN {Step("rm-volume", "telegraf"), Step("rm-volume", "vpp")} ELSE {})

ToRun(o, vpp) ==
    {c \in Container : /\ Covers(o.service, c)
                       /\ c = "vpp" => vpp
                       /\ c = "telegraf" => o.telemetry}

StartSteps(o, vpp) ==
    {Noting} \cup (IF vpp /\ o.pages >= 0 THEN {Asking} ELSE {})
    \cup {Step("run", c) : c \in ToRun(o, vpp)}
    \cup (IF "vpp" \in ToRun(o, vpp) THEN {Step("volume", "vpp"), Step("connect", "vpp")} ELSE {})
    \cup (IF "vpp" \in ToRun(o, vpp) /\ Lines > 0 THEN {Line} ELSE {})
    \cup (IF "telegraf" \in ToRun(o, vpp) THEN {Step("volume", "telegraf")} ELSE {})

InitSteps(i) == {Step("check", "host"), Step("name", "host")} \cup {Step("write", k) : k \in Wanted(i)}

Runs(l) == l.cmd \in {"start", "restart", "stop"}

Command == {"none", "init", "start", "restart", "stop"}

(* A command as it is between two steps. *)
CommandForm(l) ==
    /\ l \in [cmd : Command, todo : Seq(AnyStep), opts : Asked \cup {Absent},
              dir : Dir \cup {Absent}, vpp : BOOLEAN]
    /\ l.cmd = "none" => l = Idle
    /\ l.cmd # "none" => l.todo # <<>>
    /\ Sorted(l.todo)
    /\ l.cmd = "init" =>
          /\ l.opts \in InitChoices /\ l.dir \in Dir
          /\ Left(l.todo) \subseteq InitSteps(l.opts)
    /\ l.cmd = "stop" =>
          /\ l.opts \in [service : Service]
          /\ Left(l.todo) \subseteq StopSteps(l.opts.service)
    /\ l.cmd \in {"start", "restart"} =>
          /\ l.opts \in Options /\ l.dir \in Dir
          /\ IF Verifying \in Left(l.todo)
             THEN /\ Left(l.todo) \subseteq {Verifying} \cup StopSteps(l.opts.service)
                  /\ l.cmd = "start" => Left(l.todo) = {Verifying}
                  /\ l.opts.conf = "none"
             ELSE /\ Left(l.todo) \subseteq {Setting} \cup StartSteps(l.opts, l.vpp)
                  /\ ~({Asking, Setting} \subseteq Left(l.todo))
                  /\ Setting \in Left(l.todo) => l.vpp /\ l.opts.pages >= 0
                  /\ {Noting, Step("run", "telegraf")} \cap Left(l.todo) # {} => l.opts.conf = "none"

Forms == DOMAIN term = Terminal /\ \A t \in Terminal : CommandForm(term[t])

(* The host, and the commands under way on it. *)
Types ==
    /\ HostTypeOK
    /\ Forms
    /\ \A d \in Dir : disk[d]["secrets"] \in Name \cup {Absent}
    /\ saved # Absent => saved.opts.conf = "none"

(* Two commands that would be in each other's way. *)
Alone ==
    /\ Unless({"two-runs"}) =>
          \A t, u \in Terminal : Runs(term[t]) /\ Runs(term[u]) => t = u
    /\ Unless({"two-inits"}) =>
          \A t, u \in Terminal : term[t].cmd = "init" /\ term[u].cmd = "init" => t = u
    /\ Unless({"two-runs"}) /\ last # Absent /\ last.cmd # "init" =>
          \A t \in Terminal : ~Runs(term[t])

(* What a command knows of its containers, with the steps s left: what it has  *)
(* stopped and removed, ...                                                  *)
Waiting(l, s, c) ==
    l.cmd = "stop" \/ Verifying \in Left(s) \/ Step("run", c) \in Left(s)

StopKnows(l, s) ==
    l.cmd \in {"stop", "restart"} =>
        /\ \A c \in Container : Covers(l.opts.service, c) /\ Waiting(l, s, c) =>
              /\ Step("stop", c) \notin Left(s) => ~IsUp(c)
              /\ Step("rm", c) \notin Left(s) => docker[c] = Absent
        /\ l.cmd = "stop" /\ l.opts.service # "healthcheck" =>
              \A v \in {"telegraf", "vpp"} : Step("rm-volume", v) \notin Left(s) => v \notin volumes

(* ... what it has saved and how many pages there are, ... *)
StartKnows(l, s) ==
    l.cmd \in {"start", "restart"} /\ Verifying \notin Left(s) =>
        /\ Noting \notin Left(s) =>
              saved # Absent /\ saved.dir = l.dir /\ saved.opts.telemetry = l.opts.telemetry
              /\ saved.opts.pages = l.opts.pages
        /\ Setting \in Left(s) => pages < l.opts.pages
        /\ l.vpp /\ {Asking, Setting} \cap Left(s) = {} => l.opts.pages <= pages

(* ... what runs, and how much of its day0 configuration VPP has got. *)
UpKnows(l, s) ==
    l.cmd \in {"start", "restart"} /\ Verifying \notin Left(s) =>
        /\ \A k \in Needed(l.vpp) : disk[l.dir][k] # Absent
        /\ \A c \in ToRun(l.opts, l.vpp) : Step("run", c) \notin Left(s) => IsUp(c)
        /\ "vpp" \in ToRun(l.opts, l.vpp) =>
              /\ Step("run", "vpp") \notin Left(s) => "vpp" \in volumes
              /\ LinesLeft(s, IF Step("run", "vpp") \in Left(s) THEN Lines ELSE Lines - day0)

Knowing ==
    \A t \in Terminal :
        /\ Unless({"two-runs", "docker"}) => StopKnows(term[t], term[t].todo)
        /\ Unless({"two-runs"}) => StartKnows(term[t], term[t].todo)
        /\ Unless({"two-runs", "ended", "removed", "unread"}) => UpKnows(term[t], term[t].todo)

(* As long as nothing has happened, what was saved can be started again. *)
Startable(d) == \A k \in Needed(disk[d]["config"] = "vpp") : disk[d][k] # Absent

Restartable ==
    /\ Unless({"two-inits", "removed"}) =>
          /\ saved # Absent => Startable(saved.dir)
          /\ \A t \in Terminal :
                term[t].cmd \in {"start", "restart"} /\ Noting \in Left(term[t].todo) =>
                    Startable(term[t].dir)
    /\ causes = {} =>
          \A t \in Terminal :
              term[t].cmd = "restart" /\ Verifying \in Left(term[t].todo) =>
                  saved # Absent /\ term[t].dir = saved.dir

(* An initialisation notes the name at the end, ... *)
Naming ==
    \A t \in Terminal :
        term[t].cmd = "init" =>
            /\ Step("name", "host") \in Left(term[t].todo)
            /\ Step("check", "host") \in Left(term[t].todo) =>
                  Left(term[t].todo) = InitSteps(term[t].opts)

(* ... writes files that were missing, ... *)
Initialises(l) == l.cmd = "init" /\ Step("check", "host") \notin Left(l.todo)

FilesMissing ==
    Unless({"two-inits"}) =>
        \A t \in Terminal, k \in Kind :
            Initialises(term[t]) /\ Step("write", k) \in Left(term[t].todo) =>
                disk[term[t].dir][k] = Absent

(* ... and its name is the one that is noted, or will be. *)
Disagreement == {"other-name", "interrupted", "not-written", "removed", "two-runs", "two-inits"}

Writes(l) ==
    Initialises(l) /\ \E k \in Wanted(l.opts) : Step("write", k) \notin Left(l.todo)

Known(n) ==
    \/ n = named
    \/ named = Absent /\ \E t \in Terminal : Writes(term[t]) /\ term[t].opts.name = n

Agreeing ==
    Unless(Disagreement) =>
        /\ \A t \in Terminal : Writes(term[t]) => named \in {Absent, term[t].opts.name}
        /\ \A d \in Dir : disk[d]["secrets"] # Absent => Known(disk[d]["secrets"])
        /\ IsUp("server") => docker["server"].name # Absent /\ Known(docker["server"].name)
        /\ IsUp("telegraf") => named # Absent /\ docker["telegraf"].name = named

HostInv ==
    /\ Types
    /\ Alone
    /\ Knowing
    /\ SavedIsRunning
    /\ VppKeepsItsPages
    /\ SuccessMeansUp
    /\ StopLeavesNothing
    /\ Naming
    /\ FilesMissing
    /\ Restartable
    /\ Agreeing
    /\ RestartSucceeds

-----------------------------------------------------------------------------
(* Steps and their order. *)

LEMMA RankTable ==
    /\ Rank(Step("check", "host")) = 1
    /\ Rank(Step("write", "secrets")) = 2
    /\ Rank(Step("write", "config")) = 3
    /\ Rank(Step("write", "vpp")) = 4
    /\ Rank(Step("write", "day0")) = 5
    /\ Rank(Step("name", "host")) = 6
    /\ Rank(Step("stop", "server")) = 7
    /\ Rank(Step("rm", "server")) = 8
    /\ Rank(Step("stop", "vpp")) = 9
    /\ Rank(Step("rm", "vpp")) = 10
    /\ Rank(Step("stop", "telegraf")) = 11
    /\ Rank(Step("rm", "telegraf")) = 12
    /\ Rank(Step("rm-volume", "telegraf")) = 13
    /\ Rank(Step("rm-volume", "vpp")) = 14
    /\ Rank(Step("stop", "healthcheck")) = 15
    /\ Rank(Step("rm", "healthcheck")) = 16
    /\ Rank(Verifying) = 17
    /\ Rank(Asking) = 18
    /\ Rank(Setting) = 19
    /\ Rank(Noting) = 20
    /\ Rank(Step("run", "server")) = 21
    /\ Rank(Step("volume", "vpp")) = 22
    /\ Rank(Step("run", "vpp")) = 23
    /\ Rank(Step("connect", "vpp")) = 24
    /\ Rank(Line) = 25
    /\ Rank(Step("volume", "telegraf")) = 26
    /\ Rank(Step("run", "telegraf")) = 27
    /\ Rank(Step("run", "healthcheck")) = 28
  BY DEF Rank, Step, Verifying, Asking, Setting, Noting, Line

(* The steps that commands are made of. *)
LEMMA StepsAreSteps ==
    /\ Step("check", "host") \in AnyStep
    /\ Step("write", "secrets") \in AnyStep
    /\ Step("write", "config") \in AnyStep
    /\ Step("write", "vpp") \in AnyStep
    /\ Step("write", "day0") \in AnyStep
    /\ Step("name", "host") \in AnyStep
    /\ Step("stop", "server") \in AnyStep
    /\ Step("rm", "server") \in AnyStep
    /\ Step("stop", "vpp") \in AnyStep
    /\ Step("rm", "vpp") \in AnyStep
    /\ Step("stop", "telegraf") \in AnyStep
    /\ Step("rm", "telegraf") \in AnyStep
    /\ Step("rm-volume", "telegraf") \in AnyStep
    /\ Step("rm-volume", "vpp") \in AnyStep
    /\ Step("stop", "healthcheck") \in AnyStep
    /\ Step("rm", "healthcheck") \in AnyStep
    /\ Verifying \in AnyStep
    /\ Asking \in AnyStep
    /\ Setting \in AnyStep
    /\ Noting \in AnyStep
    /\ Step("run", "server") \in AnyStep
    /\ Step("volume", "vpp") \in AnyStep
    /\ Step("run", "vpp") \in AnyStep
    /\ Step("connect", "vpp") \in AnyStep
    /\ Line \in AnyStep
    /\ Step("volume", "telegraf") \in AnyStep
    /\ Step("run", "telegraf") \in AnyStep
    /\ Step("run", "healthcheck") \in AnyStep
  BY DEF Step, AnyStep, Op, Arg, Verifying, Asking, Setting, Noting, Line

(* Two steps are the same only if operation and argument are. *)
LEMMA StepsDiffer ==
    \A op, arg, op2, arg2 : Step(op, arg) = Step(op2, arg2) <=> op = op2 /\ arg = arg2
  BY DEF Step

(* What is left after the first step, ... *)
LEMMA TailLeft ==
    ASSUME NEW s \in Seq(AnyStep), s # <<>>
    PROVE  /\ Head(s) \in AnyStep
           /\ Tail(s) \in Seq(AnyStep)
           /\ Head(s) \in Left(s)
           /\ Left(s) = {Head(s)} \cup Left(Tail(s))
           /\ Tail(s) = <<>> <=> Left(Tail(s)) = {}
  <1>1. Len(s) \in Nat /\ Len(s) > 0 /\ Head(s) = s[1] /\ s[1] \in AnyStep OBVIOUS
  <1>2. Tail(s) \in Seq(AnyStep) /\ Len(Tail(s)) = Len(s) - 1 OBVIOUS
  <1>3. \A i \in 1..Len(Tail(s)) : Tail(s)[i] = s[i + 1] OBVIOUS
  <1>4. Head(s) \in Left(s) BY <1>1 DEF Left
  <1>5. ASSUME NEW x \in Left(s) PROVE x \in {Head(s)} \cup Left(Tail(s))
    <2>1. PICK i \in 1..Len(s) : x = s[i] BY DEF Left
    <2>2. CASE i = 1 BY <2>1, <2>2, <1>1
    <2>3. CASE i # 1
      <3>1. i - 1 \in 1..Len(Tail(s)) /\ Tail(s)[i - 1] = s[i] BY <2>1, <2>3, <1>1, <1>2, <1>3
      <3> QED BY <3>1, <2>1 DEF Left
    <2> QED BY <2>2, <2>3
  <1>6. ASSUME NEW x \in Left(Tail(s)) PROVE x \in Left(s)
    <2>1. PICK i \in 1..Len(Tail(s)) : x = Tail(s)[i] BY DEF Left
    <2>2. i + 1 \in 1..Len(s) /\ s[i + 1] = x BY <2>1, <1>1, <1>2, <1>3
    <2> QED BY <2>2 DEF Left
  <1>7. Tail(s) = <<>> <=> Left(Tail(s)) = {}
    <2>1. ASSUME Tail(s) # <<>> PROVE Left(Tail(s)) # {}
      <3>1. 1 \in 1..Len(Tail(s)) BY <1>2, <2>1
      <3> QED BY <3>1 DEF Left
    <2>2. ASSUME Tail(s) = <<>> PROVE Left(Tail(s)) = {}
      <3>1. Len(Tail(s)) < 1
        <4> DEFINE r == Tail(s)
        <4>1. r \in Seq(AnyStep) /\ r = <<>> BY <2>2, <1>2
        <4> HIDE DEF r
        <4>2. Len(r) < 1 BY <4>1
        <4> QED BY <4>2 DEF r
      <3> QED BY <3>1 DEF Left
    <2> QED BY <2>1, <2>2
  <1> QED BY <1>1, <1>2, <1>4, <1>5, <1>6, <1>7

(* ... which all comes later, in the same order, ... *)
LEMMA TailSorted ==
    ASSUME NEW s \in Seq(AnyStep), s # <<>>, Sorted(s)
    PROVE  Sorted(Tail(s)) /\ \A y \in Left(Tail(s)) : Behind(Head(s), y)
  <1>1. Len(s) \in Nat /\ Len(s) > 0 /\ Head(s) = s[1] OBVIOUS
  <1>2. Tail(s) \in Seq(AnyStep) /\ Len(Tail(s)) = Len(s) - 1 OBVIOUS
  <1>3. \A i \in 1..Len(Tail(s)) : Tail(s)[i] = s[i + 1] OBVIOUS
  <1>4. ASSUME NEW i \in 1..Len(Tail(s)), NEW j \in 1..Len(Tail(s)), i < j
        PROVE  Behind(Tail(s)[i], Tail(s)[j])
    <2>1. Behind(s[i + 1], s[j + 1]) BY <1>1, <1>2, <1>4 DEF Sorted
    <2> QED BY <2>1, <1>3
  <1>5. ASSUME NEW y \in Left(Tail(s)) PROVE Behind(Head(s), y)
    <2>1. PICK i \in 1..Len(Tail(s)) : y = Tail(s)[i] BY DEF Left
    <2>2. Behind(s[1], s[i + 1]) BY <1>1, <1>2 DEF Sorted
    <2> QED BY <2>1, <2>2, <1>1, <1>3
  <1> QED BY <1>4, <1>5 DEF Sorted

(* ... and so are the lines that VPP has not been given. *)
LEMMA TailLines ==
    ASSUME NEW s \in Seq(AnyStep), s # <<>>, NEW n \in Nat, LinesLeft(s, n)
    PROVE  /\ Head(s) # Line => LinesLeft(Tail(s), n)
           /\ Head(s) = Line => n > 0 /\ LinesLeft(Tail(s), n - 1)
  <1>1. Len(s) \in Nat /\ Len(s) > 0 /\ Head(s) = s[1] OBVIOUS
  <1>2. Tail(s) \in Seq(AnyStep) /\ Len(Tail(s)) = Len(s) - 1 OBVIOUS
  <1>3. \A i \in 1..Len(Tail(s)) : Tail(s)[i] = s[i + 1] OBVIOUS
  <1>4. PICK p \in 0..Len(s) :
            p + n <= Len(s) /\ \A i \in 1..Len(s) : s[i] = Line <=> p < i /\ i <= p + n
    BY DEF LinesLeft
  <1>5. CASE Head(s) = Line
    <2>1. p = 0 /\ n > 0 BY <1>1, <1>4, <1>5
    <2>2. 0 + (n - 1) <= Len(Tail(s)) BY <2>1, <1>2, <1>4
    <2>3. \A i \in 1..Len(Tail(s)) : Tail(s)[i] = Line <=> 0 < i /\ i <= 0 + (n - 1)
      BY <1>1, <1>2, <1>3, <1>4, <2>1
    <2>4. 0 \in 0..Len(Tail(s)) BY <1>1, <1>2
    <2> QED BY <1>5, <2>1, <2>2, <2>3, <2>4 DEF LinesLeft
  <1>6. CASE Head(s) # Line /\ p > 0
    <2>1. (p - 1) + n <= Len(Tail(s)) BY <1>2, <1>4, <1>1
    <2>2. \A i \in 1..Len(Tail(s)) : Tail(s)[i] = Line <=> (p - 1) < i /\ i <= (p - 1) + n
      BY <1>1, <1>2, <1>3, <1>4, <1>6
    <2>3. p - 1 \in 0..Len(Tail(s)) BY <1>1, <1>2, <1>4, <1>6
    <2> QED BY <1>6, <2>1, <2>2, <2>3 DEF LinesLeft
  <1>7. CASE Head(s) # Line /\ p = 0
    <2>1. n = 0 BY <1>1, <1>4, <1>7
    <2>2. 0 + n <= Len(Tail(s)) BY <2>1, <1>1, <1>2
    <2>3. \A i \in 1..Len(Tail(s)) : Tail(s)[i] = Line <=> 0 < i /\ i <= 0 + n
      BY <1>1, <1>2, <1>3, <1>4, <2>1, <1>7
    <2>4. 0 \in 0..Len(Tail(s)) BY <1>1, <1>2
    <2> QED BY <1>7, <2>2, <2>3, <2>4 DEF LinesLeft
  <1> QED BY <1>1, <1>4, <1>5, <1>6, <1>7

(* An empty list has no lines of the day0 configuration left. *)
LEMMA NoLinesLeft ==
    ASSUME NEW n \in Nat, LinesLeft(<<>>, n)
    PROVE  n = 0
  <1>1. Len(<<>>) = 0 OBVIOUS
  <1>2. PICK p \in 0..0 : p + n <= 0 BY <1>1 DEF LinesLeft
  <1> QED BY <1>2

(* Two sequences of steps, one after the other. *)
LEMMA ConcatLeft ==
    ASSUME NEW s \in Seq(AnyStep), NEW r \in Seq(AnyStep)
    PROVE  s \o r \in Seq(AnyStep) /\ Left(s \o r) = Left(s) \cup Left(r)
  <1>1. s \o r \in Seq(AnyStep) /\ Len(s \o r) = Len(s) + Len(r) OBVIOUS
  <1>2. Len(s) \in Nat /\ Len(r) \in Nat OBVIOUS
  <1>3. \A i \in 1..Len(s) : (s \o r)[i] = s[i] OBVIOUS
  <1>4. \A i \in 1..Len(r) : (s \o r)[Len(s) + i] = r[i] OBVIOUS
  <1>5. ASSUME NEW x \in Left(s \o r) PROVE x \in Left(s) \cup Left(r)
    <2>1. PICK i \in 1..Len(s \o r) : x = (s \o r)[i] BY DEF Left
    <2>2. CASE i <= Len(s)
      <3>1. i \in 1..Len(s) /\ x = s[i] BY <2>1, <2>2, <1>1, <1>2, <1>3
      <3> QED BY <3>1 DEF Left
    <2>3. CASE i > Len(s)
      <3>1. i - Len(s) \in 1..Len(r) BY <2>1, <2>3, <1>1, <1>2
      <3>2. (s \o r)[Len(s) + (i - Len(s))] = r[i - Len(s)] BY <3>1, <1>4
      <3>3. Len(s) + (i - Len(s)) = i BY <1>2
      <3>4. x = r[i - Len(s)] BY <3>2, <3>3, <2>1
      <3> QED BY <3>1, <3>4 DEF Left
    <2> QED BY <2>2, <2>3, <1>1, <1>2
  <1>6. ASSUME NEW x \in Left(s) PROVE x \in Left(s \o r)
    <2>1. PICK i \in 1..Len(s) : x = s[i] BY DEF Left
    <2>2. i \in 1..Len(s \o r) BY <2>1, <1>1, <1>2
    <2> QED BY <2>1, <2>2, <1>3 DEF Left
  <1>7. ASSUME NEW x \in Left(r) PROVE x \in Left(s \o r)
    <2>1. PICK i \in 1..Len(r) : x = r[i] BY DEF Left
    <2>2. Len(s) + i \in 1..Len(s \o r) BY <2>1, <1>1, <1>2
    <2> QED BY <2>1, <2>2, <1>4 DEF Left
  <1> QED BY <1>1, <1>5, <1>6, <1>7

(* It is in order if each was, and the second is behind the first. *)
LEMMA ConcatSorted ==
    ASSUME NEW s \in Seq(AnyStep), NEW r \in Seq(AnyStep), Sorted(s), Sorted(r),
           \A x \in Left(s), y \in Left(r) : Behind(x, y)
    PROVE  Sorted(s \o r)
  <1>1. s \o r \in Seq(AnyStep) /\ Len(s \o r) = Len(s) + Len(r) OBVIOUS
  <1>2. Len(s) \in Nat /\ Len(r) \in Nat OBVIOUS
  <1>3. \A i \in 1..Len(s) : (s \o r)[i] = s[i] OBVIOUS
  <1>4. \A i \in 1..Len(s \o r) : i > Len(s) => i - Len(s) \in 1..Len(r) /\ (s \o r)[i] = r[i - Len(s)]
    OBVIOUS
  <1> SUFFICES ASSUME NEW i \in 1..Len(s \o r), NEW j \in 1..Len(s \o r), i < j
               PROVE  Behind((s \o r)[i], (s \o r)[j])
    BY DEF Sorted
  <1>5. CASE j <= Len(s)
    <2>1. i \in 1..Len(s) /\ j \in 1..Len(s) BY <1>1, <1>2, <1>5
    <2>2. Behind(s[i], s[j]) BY <2>1 DEF Sorted
    <2> QED BY <2>1, <2>2, <1>3
  <1>6. CASE i > Len(s)
    <2>1. j > Len(s) BY <1>1, <1>2, <1>6
    <2>2. i - Len(s) < j - Len(s) BY <1>1, <1>2
    <2>3. Behind(r[i - Len(s)], r[j - Len(s)]) BY <2>1, <2>2, <1>4, <1>6 DEF Sorted
    <2> QED BY <2>1, <2>3, <1>4, <1>6
  <1>7. CASE i <= Len(s) /\ j > Len(s)
    <2>1. i \in 1..Len(s) BY <1>7, <1>1, <1>2
    <2>2. s[i] \in Left(s) BY <2>1 DEF Left
    <2>3. r[j - Len(s)] \in Left(r) BY <1>4, <1>7 DEF Left
    <2> QED BY <2>1, <2>2, <2>3, <1>3, <1>4, <1>7
  <1> QED BY <1>1, <1>2, <1>5, <1>6, <1>7

(* The lines are in one of them. *)
LEMMA ConcatLines ==
    ASSUME NEW s \in Seq(AnyStep), NEW r \in Seq(AnyStep), NEW n \in Nat
    PROVE  /\ Line \notin Left(s) /\ LinesLeft(r, n) => LinesLeft(s \o r, n)
           /\ LinesLeft(s, n) /\ Line \notin Left(r) => LinesLeft(s \o r, n)
  <1>1. s \o r \in Seq(AnyStep) /\ Len(s \o r) = Len(s) + Len(r) OBVIOUS
  <1>2. Len(s) \in Nat /\ Len(r) \in Nat OBVIOUS
  <1>3. \A i \in 1..Len(s) : (s \o r)[i] = s[i] OBVIOUS
  <1>4. \A i \in 1..Len(s \o r) : i > Len(s) => i - Len(s) \in 1..Len(r) /\ (s \o r)[i] = r[i - Len(s)]
    OBVIOUS
  <1>5. ASSUME Line \notin Left(s), LinesLeft(r, n) PROVE LinesLeft(s \o r, n)
    <2>1. PICK p \in 0..Len(r) :
              p + n <= Len(r) /\ \A i \in 1..Len(r) : r[i] = Line <=> p < i /\ i <= p + n
      BY <1>5 DEF LinesLeft
    <2>2. \A i \in 1..Len(s) : s[i] # Line BY <1>5 DEF Left
    <2>3. ASSUME NEW i \in 1..Len(s \o r)
          PROVE  (s \o r)[i] = Line <=> Len(s) + p < i /\ i <= (Len(s) + p) + n
      <3>1. CASE i <= Len(s)
        <4>1. i \in 1..Len(s) BY <3>1, <1>1, <1>2
        <4> QED BY <4>1, <2>1, <2>2, <1>2, <1>3
      <3>2. CASE i > Len(s)
        <4>1. i - Len(s) \in 1..Len(r) /\ (s \o r)[i] = r[i - Len(s)] BY <3>2, <1>4
        <4>2. r[i - Len(s)] = Line <=> p < i - Len(s) /\ i - Len(s) <= p + n BY <4>1, <2>1
        <4> QED BY <4>1, <4>2, <2>1, <1>1, <1>2
      <3> QED BY <3>1, <3>2, <1>1, <1>2
    <2>4. Len(s) + p \in 0..Len(s \o r) /\ (Len(s) + p) + n <= Len(s \o r) BY <1>1, <1>2, <2>1
    <2> QED BY <2>3, <2>4 DEF LinesLeft
  <1>6. ASSUME LinesLeft(s, n), Line \notin Left(r) PROVE LinesLeft(s \o r, n)
    <2>1. PICK p \in 0..Len(s) :
              p + n <= Len(s) /\ \A i \in 1..Len(s) : s[i] = Line <=> p < i /\ i <= p + n
      BY <1>6 DEF LinesLeft
    <2>2. \A i \in 1..Len(r) : r[i] # Line BY <1>6 DEF Left
    <2>3. ASSUME NEW i \in 1..Len(s \o r)
          PROVE  (s \o r)[i] = Line <=> p < i /\ i <= p + n
      <3>1. CASE i <= Len(s)
        <4>1. i \in 1..Len(s) BY <3>1, <1>1, <1>2
        <4> QED BY <4>1, <2>1, <1>3
      <3>2. CASE i > Len(s)
        <4>1. i - Len(s) \in 1..Len(r) /\ (s \o r)[i] = r[i - Len(s)] BY <3>2, <1>4
        <4> QED BY <4>1, <2>1, <2>2, <1>1, <1>2, <3>2
      <3> QED BY <3>1, <3>2, <1>1, <1>2
    <2>4. p \in 0..Len(s \o r) /\ p + n <= Len(s \o r) BY <1>1, <1>2, <2>1
    <2> QED BY <2>3, <2>4 DEF LinesLeft
  <1> QED BY <1>5, <1>6

(* The sequences commands are made of. *)
LEMMA OneStep ==
    ASSUME NEW a \in AnyStep
    PROVE  <<a>> \in Seq(AnyStep) /\ Left(<<a>>) = {a} /\ Sorted(<<a>>)
  <1> DEFINE s == <<a>>
  <1>1. s \in Seq(AnyStep) /\ Len(s) = 1 /\ s[1] = a OBVIOUS
  <1> HIDE DEF s
  <1>2. Left(s) = {a} BY <1>1 DEF Left
  <1>3. Sorted(s) BY <1>1 DEF Sorted
  <1> QED BY <1>1, <1>2, <1>3 DEF s

(* The lists of no, two, three and six steps. *)
LEMMA NoStep ==
    <<>> \in Seq(AnyStep) /\ Left(<<>>) = {} /\ Sorted(<<>>)
  <1> DEFINE s == <<>>
  <1>1. s \in Seq(AnyStep) /\ Len(s) = 0 OBVIOUS
  <1> HIDE DEF s
  <1>2. Left(s) = {} BY <1>1 DEF Left
  <1>3. Sorted(s) BY <1>1 DEF Sorted
  <1> QED BY <1>1, <1>2, <1>3 DEF s

LEMMA TwoSteps ==
    ASSUME NEW a \in AnyStep, NEW b \in AnyStep, Behind(a, b)
    PROVE  <<a, b>> \in Seq(AnyStep) /\ Left(<<a, b>>) = {a, b} /\ Sorted(<<a, b>>)
  <1> DEFINE s == <<a, b>>
  <1>1. s \in Seq(AnyStep) /\ Len(s) = 2 /\ s[1] = a /\ s[2] = b OBVIOUS
  <1> HIDE DEF s
  <1>2. Left(s) = {a, b} BY <1>1 DEF Left
  <1>3. Sorted(s) BY <1>1 DEF Sorted
  <1> QED BY <1>1, <1>2, <1>3 DEF s

LEMMA ThreeSteps ==
    ASSUME NEW a \in AnyStep, NEW b \in AnyStep, NEW c \in AnyStep,
           Behind(a, b), Behind(a, c), Behind(b, c)
    PROVE  <<a, b, c>> \in Seq(AnyStep) /\ Left(<<a, b, c>>) = {a, b, c} /\ Sorted(<<a, b, c>>)
  <1> DEFINE s == <<a, b, c>>
  <1>1. s \in Seq(AnyStep) /\ Len(s) = 3 /\ s[1] = a /\ s[2] = b /\ s[3] = c OBVIOUS
  <1> HIDE DEF s
  <1>2. Left(s) = {a, b, c} BY <1>1 DEF Left
  <1>3. Sorted(s) BY <1>1 DEF Sorted
  <1> QED BY <1>1, <1>2, <1>3 DEF s

LEMMA SixSteps ==
    ASSUME NEW a \in AnyStep, NEW b \in AnyStep, NEW c \in AnyStep,
           NEW d \in AnyStep, NEW e \in AnyStep, NEW f \in AnyStep,
           Rank(a) \in Nat, Rank(b) = Rank(a) + 1, Rank(c) = Rank(a) + 2,
           Rank(d) = Rank(a) + 3, Rank(e) = Rank(a) + 4, Rank(f) = Rank(a) + 5
    PROVE  /\ <<a, b, c, d, e, f>> \in Seq(AnyStep)
           /\ Left(<<a, b, c, d, e, f>>) = {a, b, c, d, e, f}
           /\ Sorted(<<a, b, c, d, e, f>>)
  <1> DEFINE s == <<a, b, c, d, e, f>>
  <1>1. /\ s \in Seq(AnyStep) /\ Len(s) = 6 /\ s[1] = a /\ s[2] = b /\ s[3] = c
        /\ s[4] = d /\ s[5] = e /\ s[6] = f
    OBVIOUS
  <1> HIDE DEF s
  <1>2. Left(s) = {a, b, c, d, e, f} BY <1>1 DEF Left
  <1>3. \A i \in 1..6 : Rank(s[i]) = Rank(a) + (i - 1) BY <1>1
  <1>4. Sorted(s) BY <1>1, <1>3 DEF Sorted, Behind
  <1> QED BY <1>1, <1>2, <1>4 DEF s

(* Steps that are taken on a condition. *)
LEMMA StepsLeft ==
    ASSUME NEW b \in BOOLEAN, NEW s \in Seq(AnyStep), Sorted(s)
    PROVE  /\ Steps(b, s) \in Seq(AnyStep) /\ Sorted(Steps(b, s))
           /\ Left(Steps(b, s)) = IF b THEN Left(s) ELSE {}
  BY NoStep DEF Steps

(* What is stopped: sorted, and as set out in StopSteps. *)
LEMMA StoppingForm ==
    ASSUME NEW service \in Service
    PROVE  /\ Stopping(service) \in Seq(AnyStep)
           /\ Left(Stopping(service)) = StopSteps(service)
           /\ Sorted(Stopping(service))
  <1> DEFINE here == service # "healthcheck"
             there == service # "server"
             r == RemovingServer
             v == RemovingVolumes
             h == RemovingHealthcheck
  <1>1. /\ Step("stop", "server") \in AnyStep /\ Step("rm", "server") \in AnyStep
        /\ Step("stop", "vpp") \in AnyStep /\ Step("rm", "vpp") \in AnyStep
        /\ Step("stop", "telegraf") \in AnyStep /\ Step("rm", "telegraf") \in AnyStep
        /\ Step("rm-volume", "telegraf") \in AnyStep /\ Step("rm-volume", "vpp") \in AnyStep
        /\ Step("stop", "healthcheck") \in AnyStep /\ Step("rm", "healthcheck") \in AnyStep
    BY StepsAreSteps
  <1>2. /\ r \in Seq(AnyStep) /\ Sorted(r)
        /\ Left(r) = {Step("stop", "server"), Step("rm", "server"), Step("stop", "vpp"),
                      Step("rm", "vpp"), Step("stop", "telegraf"), Step("rm", "telegraf")}
    <2> DEFINE a == Step("stop", "server")
               b == Step("rm", "server")
               c == Step("stop", "vpp")
               d == Step("rm", "vpp")
               e == Step("stop", "telegraf")
               f == Step("rm", "telegraf")
    <2>1. /\ Rank(a) \in Nat /\ Rank(b) = Rank(a) + 1 /\ Rank(c) = Rank(a) + 2
          /\ Rank(d) = Rank(a) + 3 /\ Rank(e) = Rank(a) + 4 /\ Rank(f) = Rank(a) + 5
      BY RankTable
    <2>2. r = <<a, b, c, d, e, f>> BY DEF RemovingServer
    <2>3. /\ a \in AnyStep /\ b \in AnyStep /\ c \in AnyStep
          /\ d \in AnyStep /\ e \in AnyStep /\ f \in AnyStep
      BY <1>1
    <2> HIDE DEF a, b, c, d, e, f, r
    <2>4. r \in Seq(AnyStep) /\ Sorted(r) /\ Left(r) = {a, b, c, d, e, f}
      BY <2>1, <2>2, <2>3, SixSteps
    <2> QED BY <2>4 DEF a, b, c, d, e, f
  <1>3. /\ v \in Seq(AnyStep) /\ Sorted(v)
        /\ Left(v) = {Step("rm-volume", "telegraf"), Step("rm-volume", "vpp")}
    BY <1>1, TwoSteps, RankTable DEF RemovingVolumes, Behind
  <1>4. /\ h \in Seq(AnyStep) /\ Sorted(h)
        /\ Left(h) = {Step("stop", "healthcheck"), Step("rm", "healthcheck")}
    BY <1>1, TwoSteps, RankTable DEF RemovingHealthcheck, Behind
  <1> HIDE DEF r, v, h
  <1>5. \A x \in Left(r) : Rank(x) \in 7..12 BY <1>2, RankTable, SMTT(30)
  <1>6. \A x \in Left(v) : Rank(x) \in 13..14 BY <1>3, RankTable, SMTT(30)
  <1>7. \A x \in Left(h) : Rank(x) \in 15..16 BY <1>4, RankTable, SMTT(30)
  <1>8. /\ r \o v \in Seq(AnyStep) /\ Left(r \o v) = Left(r) \cup Left(v) /\ Sorted(r \o v)
    <2>1. \A x \in Left(r), y \in Left(v) : Behind(x, y) BY <1>5, <1>6 DEF Behind
    <2> QED BY <2>1, <1>2, <1>3, ConcatLeft, ConcatSorted
  <1> DEFINE a == Steps(here, r \o v)
             b == Steps(there, h)
  <1>9. /\ a \in Seq(AnyStep) /\ Sorted(a) /\ Left(a) = IF here THEN Left(r \o v) ELSE {}
    BY <1>8, StepsLeft
  <1>10. /\ b \in Seq(AnyStep) /\ Sorted(b) /\ Left(b) = IF there THEN Left(h) ELSE {}
    BY <1>4, StepsLeft
  <1> HIDE DEF a, b
  <1>11. \A x \in Left(a), y \in Left(b) : Behind(x, y)
    BY <1>5, <1>6, <1>7, <1>8, <1>9, <1>10, SMTT(30) DEF Behind
  <1>12. /\ a \o b \in Seq(AnyStep) /\ Left(a \o b) = Left(a) \cup Left(b) /\ Sorted(a \o b)
    BY <1>9, <1>10, <1>11, ConcatLeft, ConcatSorted
  <1>13. Stopping(service) = a \o b BY DEF Stopping, a, b, r, v, h
  <1>14. Left(a) \cup Left(b) = StopSteps(service)
    <2>1. \A c : c \in Container => (Covers(service, c) <=> IF c = "healthcheck" THEN there ELSE here)
      BY DEF Covers
    <2>2. Left(a) \cup Left(b) \subseteq StopSteps(service)
      BY <2>1, <1>2, <1>3, <1>4, <1>8, <1>9, <1>10 DEF StopSteps, Container
    <2>3. \A x : x \in StopSteps(service) => x \in Left(a) \cup Left(b)
      BY <2>1, <1>2, <1>3, <1>4, <1>8, <1>9, <1>10 DEF StopSteps, Container
    <2> QED BY <2>2, <2>3
  <1> QED BY <1>12, <1>13, <1>14

(* What an initialisation does. *)
LEMMA InitialisingForm ==
    ASSUME NEW i \in InitChoices
    PROVE  /\ Initialising(i) \in Seq(AnyStep) /\ Initialising(i) # <<>>
           /\ Left(Initialising(i)) = InitSteps(i)
           /\ Sorted(Initialising(i))
  <1> DEFINE s(k) == Steps(k \in Wanted(i), <<Step("write", k)>>)
             a == s("secrets") \o s("config")
             b == a \o s("vpp")
             c == b \o s("day0")
             d == <<Step("check", "host")>> \o c
             e == <<Step("name", "host")>>
             Rest == {Step("write", k) : k \in Wanted(i)}
  <1>1. Wanted(i) \subseteq Kind BY DEF Wanted, InitChoices, Kind
  <1>2. \A k \in Kind : /\ s(k) \in Seq(AnyStep) /\ Sorted(s(k))
                        /\ Left(s(k)) = IF k \in Wanted(i) THEN {Step("write", k)} ELSE {}
    <2> TAKE k \in Kind
    <2>1. Step("write", k) \in AnyStep BY StepsAreSteps DEF Kind
    <2>2. /\ <<Step("write", k)>> \in Seq(AnyStep) /\ Sorted(<<Step("write", k)>>)
          /\ Left(<<Step("write", k)>>) = {Step("write", k)}
      BY <2>1, OneStep
    <2>3. (k \in Wanted(i)) \in BOOLEAN OBVIOUS
    <2> QED BY <2>2, <2>3, StepsLeft
  <1> HIDE DEF s
  <1>3. \A k \in Kind : \A x \in Left(s(k)) : x = Step("write", k) BY <1>2
  <1>4. /\ \A x \in Left(s("secrets")) : Rank(x) = 2
        /\ \A x \in Left(s("config")) : Rank(x) = 3
        /\ \A x \in Left(s("vpp")) : Rank(x) = 4
        /\ \A x \in Left(s("day0")) : Rank(x) = 5
    BY <1>3, RankTable DEF Kind
  <1>5. a \in Seq(AnyStep) /\ Left(a) = Left(s("secrets")) \cup Left(s("config")) /\ Sorted(a)
    <2>1. \A x \in Left(s("secrets")), y \in Left(s("config")) : Behind(x, y) BY <1>4 DEF Behind
    <2> QED BY <2>1, <1>2, ConcatLeft, ConcatSorted DEF Kind
  <1> HIDE DEF a
  <1>6. b \in Seq(AnyStep) /\ Left(b) = Left(a) \cup Left(s("vpp")) /\ Sorted(b)
    <2>1. \A x \in Left(a), y \in Left(s("vpp")) : Behind(x, y) BY <1>4, <1>5 DEF Behind
    <2> QED BY <2>1, <1>2, <1>5, ConcatLeft, ConcatSorted DEF Kind
  <1> HIDE DEF b
  <1>7. c \in Seq(AnyStep) /\ Left(c) = Left(b) \cup Left(s("day0")) /\ Sorted(c)
    <2>1. \A x \in Left(b), y \in Left(s("day0")) : Behind(x, y) BY <1>4, <1>5, <1>6 DEF Behind
    <2> QED BY <2>1, <1>2, <1>6, ConcatLeft, ConcatSorted DEF Kind
  <1> HIDE DEF c
  <1>8. Left(c) = Rest
    <2>1. Left(c) = Left(s("secrets")) \cup Left(s("config")) \cup Left(s("vpp"))
                    \cup Left(s("day0"))
      BY <1>5, <1>6, <1>7
    <2>2. \A x \in Rest : x \in Left(c) BY <2>1, <1>1, <1>2 DEF Kind
    <2>3. \A x \in Left(c) : x \in Rest BY <2>1, <1>2 DEF Kind
    <2> QED BY <2>2, <2>3
  <1>9. \A x \in Left(c) : Rank(x) \in 2..5 BY <1>4, <1>5, <1>6, <1>7
  <1>10. /\ <<Step("check", "host")>> \in Seq(AnyStep) /\ Sorted(<<Step("check", "host")>>)
         /\ Left(<<Step("check", "host")>>) = {Step("check", "host")}
    BY StepsAreSteps, OneStep
  <1>11. e \in Seq(AnyStep) /\ Sorted(e) /\ Left(e) = {Step("name", "host")}
    BY StepsAreSteps, OneStep
  <1>12. d \in Seq(AnyStep) /\ Left(d) = {Step("check", "host")} \cup Left(c) /\ Sorted(d)
    <2>1. \A x \in Left(<<Step("check", "host")>>), y \in Left(c) : Behind(x, y)
      BY <1>9, <1>10, RankTable DEF Behind
    <2> QED BY <2>1, <1>7, <1>10, ConcatLeft, ConcatSorted
  <1> HIDE DEF d, e
  <1>13. d \o e \in Seq(AnyStep) /\ Left(d \o e) = Left(d) \cup Left(e) /\ Sorted(d \o e)
    <2>1. \A x \in Left(d) : Rank(x) \in 1..5 BY <1>9, <1>12, RankTable
    <2>2. \A y \in Left(e) : Rank(y) = 6 BY <1>11, RankTable
    <2>3. \A x \in Left(d), y \in Left(e) : Behind(x, y) BY <2>1, <2>2 DEF Behind
    <2> QED BY <2>3, <1>11, <1>12, ConcatLeft, ConcatSorted
  <1>14. Initialising(i) = d \o e
    <2>1. c = Writing(i) BY DEF c, b, a, s, Writing
    <2> QED BY <2>1 DEF d, e, Initialising
  <1>15. Left(d \o e) = InitSteps(i) BY <1>8, <1>11, <1>12, <1>13 DEF InitSteps
  <1>16. Initialising(i) # <<>>
    <2>1. Step("name", "host") \in Left(Initialising(i)) BY <1>14, <1>15 DEF InitSteps
    <2> QED BY <2>1, NoStep
  <1> QED BY <1>13, <1>14, <1>15, <1>16

(* What a restart does, up to its start. *)
LEMMA RestartingForm ==
    ASSUME NEW service \in Service
    PROVE  /\ Stopping(service) \o <<Verifying>> \in Seq(AnyStep)
           /\ Stopping(service) \o <<Verifying>> # <<>>
           /\ Left(Stopping(service) \o <<Verifying>>) = {Verifying} \cup StopSteps(service)
           /\ Sorted(Stopping(service) \o <<Verifying>>)
  <1> DEFINE s == Stopping(service)
             v == <<Verifying>>
  <1>1. s \in Seq(AnyStep) /\ Left(s) = StopSteps(service) /\ Sorted(s) BY StoppingForm
  <1>2. v \in Seq(AnyStep) /\ Left(v) = {Verifying} /\ Sorted(v) BY StepsAreSteps, OneStep
  <1> HIDE DEF s, v
  <1>3. \A x \in StopSteps(service) : Rank(x) < 17 BY RankTable DEF StopSteps, Container
  <1>4. \A x \in Left(s), y \in Left(v) : Behind(x, y) BY <1>1, <1>2, <1>3, RankTable DEF Behind
  <1>5. s \o v \in Seq(AnyStep) /\ Left(s \o v) = Left(s) \cup Left(v) /\ Sorted(s \o v)
    BY <1>1, <1>2, <1>4, ConcatLeft, ConcatSorted
  <1>6. s \o v # <<>> BY <1>2, <1>5, NoStep
  <1> QED BY <1>1, <1>2, <1>5, <1>6 DEF s, v

(* What a start does when the files have been found. *)
LEMMA StartingForm ==
    ASSUME NEW o \in Options, NEW vpp \in BOOLEAN
    PROVE  /\ Starting(o, vpp) \in Seq(AnyStep) /\ Starting(o, vpp) # <<>>
           /\ Left(Starting(o, vpp)) = StartSteps(o, vpp)
           /\ Sorted(Starting(o, vpp))
           /\ "vpp" \in ToRun(o, vpp) => LinesLeft(Starting(o, vpp), Lines)
  <1> DEFINE here == o.service # "healthcheck"
             there == o.service # "server"
             asks == vpp /\ o.pages >= 0
             run == <<Step("run", "server")>>
             three == <<Step("volume", "vpp"), Step("run", "vpp"), Step("connect", "vpp")>>
             lines == [i \in 1..Lines |-> Line]
             running == three \o lines
             telegraf == <<Step("volume", "telegraf"), Step("run", "telegraf")>>
             health == <<Step("run", "healthcheck")>>
  <1>1. Lines \in Nat BY BoundAssumption
  <1>2. here \in BOOLEAN /\ there \in BOOLEAN /\ asks \in BOOLEAN /\ o.telemetry \in BOOLEAN
    BY DEF Options
  <1>3. run \in Seq(AnyStep) /\ Left(run) = {Step("run", "server")} /\ Sorted(run)
    BY StepsAreSteps, OneStep
  <1>4. health \in Seq(AnyStep) /\ Left(health) = {Step("run", "healthcheck")} /\ Sorted(health)
    BY StepsAreSteps, OneStep
  <1>5. /\ telegraf \in Seq(AnyStep) /\ Sorted(telegraf)
        /\ Left(telegraf) = {Step("volume", "telegraf"), Step("run", "telegraf")}
    BY StepsAreSteps, RankTable, TwoSteps DEF Behind
  <1>6. /\ three \in Seq(AnyStep) /\ Sorted(three)
        /\ Left(three) = {Step("volume", "vpp"), Step("run", "vpp"), Step("connect", "vpp")}
    BY StepsAreSteps, RankTable, ThreeSteps DEF Behind
  <1>7. lines \in Seq(AnyStep) /\ Len(lines) = Lines /\ \A i \in 1..Lines : lines[i] = Line
    BY <1>1, StepsAreSteps
  <1> HIDE DEF run, health, telegraf, three, lines
  <1>8. Sorted(lines) BY <1>7 DEF Sorted, Behind
  <1>9. Left(lines) = IF Lines > 0 THEN {Line} ELSE {}
    <2>1. \A x \in Left(lines) : x = Line /\ Lines > 0 BY <1>1, <1>7 DEF Left
    <2>2. ASSUME Lines > 0 PROVE Line \in Left(lines)
      <3>1. 1 \in 1..Len(lines) BY <1>1, <1>7, <2>2
      <3> QED BY <3>1, <1>7 DEF Left
    <2> QED BY <2>1, <2>2, <1>1
  <1>10. LinesLeft(lines, Lines)
    <2>1. \A i \in 1..Len(lines) : lines[i] = Line <=> 0 < i /\ i <= 0 + Lines BY <1>1, <1>7
    <2>2. 0 \in 0..Len(lines) /\ 0 + Lines <= Len(lines) BY <1>1, <1>7
    <2> QED BY <2>1, <2>2 DEF LinesLeft
  <1>11. /\ running \in Seq(AnyStep) /\ Left(running) = Left(three) \cup Left(lines)
         /\ Sorted(running) /\ LinesLeft(running, Lines)
    <2>1. \A x \in Left(three) : Rank(x) \in 22..24 BY <1>6, RankTable, SMTT(30)
    <2>2. \A x \in Left(lines) : Rank(x) = 25 BY <1>9, RankTable
    <2>3. \A x \in Left(three), y \in Left(lines) : Behind(x, y) BY <2>1, <2>2 DEF Behind
    <2>4. running \in Seq(AnyStep) /\ Left(running) = Left(three) \cup Left(lines)
      BY <1>6, <1>7, ConcatLeft
    <2>5. Sorted(running) BY <2>3, <1>6, <1>7, <1>8, ConcatSorted
    <2>6. Line \notin Left(three) BY <2>1, RankTable
    <2> QED BY <2>4, <2>5, <2>6, <1>1, <1>6, <1>7, <1>10, ConcatLines
  <1> HIDE DEF running
  <1> DEFINE sr == Steps(vpp, running)
             st == Steps(o.telemetry, telegraf)
             a == run \o sr
             b == a \o st
             sb == Steps(here, b)
             sh == Steps(there, health)
             c == sb \o sh
             sa == Steps(asks, <<Asking>>)
             d == sa \o <<Noting>>
  <1>12. /\ sr \in Seq(AnyStep) /\ Sorted(sr) /\ Left(sr) = IF vpp THEN Left(running) ELSE {}
         /\ vpp => LinesLeft(sr, Lines)
    <2>1. vpp => sr = running BY DEF Steps
    <2>2. sr \in Seq(AnyStep) /\ Sorted(sr) /\ Left(sr) = IF vpp THEN Left(running) ELSE {}
      BY <1>11, StepsLeft
    <2> QED BY <2>1, <2>2, <1>11
  <1>13. /\ st \in Seq(AnyStep) /\ Sorted(st)
         /\ Left(st) = IF o.telemetry THEN Left(telegraf) ELSE {}
    BY <1>2, <1>5, StepsLeft
  <1>14. sh \in Seq(AnyStep) /\ Sorted(sh) /\ Left(sh) = IF there THEN Left(health) ELSE {}
    BY <1>2, <1>4, StepsLeft
  <1>15. sa \in Seq(AnyStep) /\ Sorted(sa) /\ Left(sa) = IF asks THEN {Asking} ELSE {}
    <2>1. /\ <<Asking>> \in Seq(AnyStep) /\ Sorted(<<Asking>>) /\ Left(<<Asking>>) = {Asking}
      BY StepsAreSteps, OneStep
    <2> QED BY <2>1, <1>2, StepsLeft
  <1> HIDE DEF sr, st, sh, sa
  <1>16. /\ \A x \in Left(run) : Rank(x) = 21
         /\ \A x \in Left(sr) : Rank(x) \in 22..25
         /\ \A x \in Left(st) : Rank(x) \in 26..27
         /\ \A x \in Left(sh) : Rank(x) = 28
         /\ \A x \in Left(sa) : Rank(x) = 18
    <2>1. \A x \in Left(run) : Rank(x) = 21 BY <1>3, RankTable
    <2>6. \A x \in Left(three) : Rank(x) \in 22..24 BY <1>6, RankTable, SMTT(30)
    <2>7. \A x \in Left(lines) : Rank(x) = 25 BY <1>9, RankTable
    <2>8. \A x \in Left(telegraf) : Rank(x) \in 26..27 BY <1>5, RankTable, SMTT(30)
    <2>2. \A x \in Left(sr) : Rank(x) \in 22..25 BY <2>6, <2>7, <1>11, <1>12
    <2>3. \A x \in Left(st) : Rank(x) \in 26..27 BY <2>8, <1>13
    <2>4. \A x \in Left(sh) : Rank(x) = 28 BY <1>4, <1>14, RankTable
    <2>5. \A x \in Left(sa) : Rank(x) = 18 BY <1>15, RankTable
    <2> QED BY <2>1, <2>2, <2>3, <2>4, <2>5
  <1>17. a \in Seq(AnyStep) /\ Left(a) = Left(run) \cup Left(sr) /\ Sorted(a)
    <2>1. \A x \in Left(run), y \in Left(sr) : Behind(x, y) BY <1>16 DEF Behind
    <2> QED BY <2>1, <1>3, <1>12, ConcatLeft, ConcatSorted
  <1>18. vpp => LinesLeft(a, Lines)
    <2>1. Line \notin Left(run) BY <1>16, RankTable
    <2> QED BY <2>1, <1>1, <1>3, <1>12, ConcatLines
  <1> HIDE DEF a
  <1>19. b \in Seq(AnyStep) /\ Left(b) = Left(a) \cup Left(st) /\ Sorted(b)
    <2>1. \A x \in Left(a), y \in Left(st) : Behind(x, y) BY <1>16, <1>17 DEF Behind
    <2> QED BY <2>1, <1>17, <1>13, ConcatLeft, ConcatSorted
  <1>20. vpp => LinesLeft(b, Lines)
    <2>1. Line \notin Left(st) BY <1>16, RankTable
    <2> QED BY <2>1, <1>1, <1>13, <1>17, <1>18, ConcatLines
  <1> HIDE DEF b
  <1>21. /\ sb \in Seq(AnyStep) /\ Left(sb) = (IF here THEN Left(b) ELSE {}) /\ Sorted(sb)
         /\ vpp /\ here => LinesLeft(sb, Lines)
    <2>1. here => sb = b BY DEF Steps
    <2>2. sb \in Seq(AnyStep) /\ Left(sb) = (IF here THEN Left(b) ELSE {}) /\ Sorted(sb)
      BY <1>2, <1>19, StepsLeft
    <2> QED BY <2>1, <2>2, <1>20
  <1> HIDE DEF sb
  <1>22. \A x \in Left(sb) : Rank(x) \in 21..27 BY <1>16, <1>17, <1>19, <1>21
  <1>23. c \in Seq(AnyStep) /\ Left(c) = Left(sb) \cup Left(sh) /\ Sorted(c)
    <2>1. \A x \in Left(sb), y \in Left(sh) : Behind(x, y) BY <1>16, <1>22 DEF Behind
    <2> QED BY <2>1, <1>14, <1>21, ConcatLeft, ConcatSorted
  <1>24. vpp /\ here => LinesLeft(c, Lines)
    <2>1. Line \notin Left(sh) BY <1>16, RankTable
    <2> QED BY <2>1, <1>1, <1>14, <1>21, ConcatLines
  <1> HIDE DEF c
  <1>25. /\ <<Noting>> \in Seq(AnyStep) /\ Sorted(<<Noting>>) /\ Left(<<Noting>>) = {Noting}
    BY StepsAreSteps, OneStep
  <1>26. d \in Seq(AnyStep) /\ Left(d) = Left(sa) \cup {Noting} /\ Sorted(d)
    <2>1. \A x \in Left(sa), y \in Left(<<Noting>>) : Behind(x, y)
      BY <1>16, <1>25, RankTable DEF Behind
    <2> QED BY <2>1, <1>15, <1>25, ConcatLeft, ConcatSorted
  <1> HIDE DEF d
  <1>27. \A x \in Left(d) : Rank(x) \in 18..20 BY <1>16, <1>26, RankTable
  <1>28. \A x \in Left(c) : Rank(x) \in 21..28 BY <1>16, <1>22, <1>23
  <1>29. d \o c \in Seq(AnyStep) /\ Left(d \o c) = Left(d) \cup Left(c) /\ Sorted(d \o c)
    <2>1. \A x \in Left(d), y \in Left(c) : Behind(x, y) BY <1>27, <1>28 DEF Behind
    <2> QED BY <2>1, <1>23, <1>26, ConcatLeft, ConcatSorted
  <1>30. vpp /\ here => LinesLeft(d \o c, Lines)
    <2>1. Line \notin Left(d) BY <1>27, RankTable
    <2> QED BY <2>1, <1>1, <1>23, <1>24, <1>26, ConcatLines
  <1>31. Starting(o, vpp) = d \o c
    <2>1. c = Running(o, vpp)
      BY DEF c, sb, sh, b, a, st, sr, running, run, three, lines, telegraf, health, Line,
             Running, RunningVpp
    <2>2. d = Allocating(o, vpp) \o Saving BY DEF d, sa, Allocating, Saving, Asking, Noting
    <2> QED BY <2>1, <2>2 DEF Starting
  <1>32. Left(d \o c) = StartSteps(o, vpp)
    <2>1. \A k \in Container : k \in ToRun(o, vpp) <=>
              IF k = "healthcheck" THEN there
              ELSE here /\ (k = "vpp" => vpp) /\ (k = "telegraf" => o.telemetry)
      BY DEF ToRun, Covers
    <2>2. Left(d \o c) =
              (IF asks THEN {Asking} ELSE {}) \cup {Noting}
              \cup (IF here THEN {Step("run", "server")}
                                 \cup (IF vpp THEN Left(three) \cup Left(lines) ELSE {})
                                 \cup (IF o.telemetry THEN Left(telegraf) ELSE {}) ELSE {})
              \cup (IF there THEN {Step("run", "healthcheck")} ELSE {})
      BY <1>3, <1>4, <1>11, <1>12, <1>13, <1>14, <1>15, <1>17, <1>19, <1>21, <1>23, <1>26, <1>29
    <2> DEFINE L == Left(d \o c)
    <2> HIDE DEF L
    <2>3. ToRun(o, vpp) \subseteq Container BY DEF ToRun
    <2>4. \A x : x \in L <=>
              \/ asks /\ x = Asking
              \/ x = Noting
              \/ here /\ x = Step("run", "server")
              \/ here /\ vpp /\ x \in {Step("volume", "vpp"), Step("run", "vpp"), Step("connect", "vpp")}
              \/ here /\ vpp /\ Lines > 0 /\ x = Line
              \/ here /\ o.telemetry /\ x \in {Step("volume", "telegraf"), Step("run", "telegraf")}
              \/ there /\ x = Step("run", "healthcheck")
      BY <2>2, <1>5, <1>6, <1>9 DEF L
    <2>5. \A x : x \in StartSteps(o, vpp) <=>
              \/ asks /\ x = Asking
              \/ x = Noting
              \/ \E k \in ToRun(o, vpp) : x = Step("run", k)
              \/ "vpp" \in ToRun(o, vpp) /\ x \in {Step("volume", "vpp"), Step("connect", "vpp")}
              \/ "vpp" \in ToRun(o, vpp) /\ Lines > 0 /\ x = Line
              \/ "telegraf" \in ToRun(o, vpp) /\ x = Step("volume", "telegraf")
      BY DEF StartSteps
    <2> HIDE DEF here, there, asks
    <2>6. \A x : (\E k \in ToRun(o, vpp) : x = Step("run", k)) <=>
              \/ here /\ x = Step("run", "server")
              \/ here /\ vpp /\ x = Step("run", "vpp")
              \/ here /\ o.telemetry /\ x = Step("run", "telegraf")
              \/ there /\ x = Step("run", "healthcheck")
      BY <2>1, <2>3 DEF Container
    <2>7. /\ "vpp" \in ToRun(o, vpp) <=> here /\ vpp
          /\ "telegraf" \in ToRun(o, vpp) <=> here /\ o.telemetry
      BY <2>1 DEF Container
    <2>8. \A x : x \in L <=> x \in StartSteps(o, vpp) BY <2>4, <2>5, <2>6, <2>7
    <2> QED BY <2>8 DEF L
  <1>33. Starting(o, vpp) # <<>>
    <2>1. Noting \in Left(Starting(o, vpp)) BY <1>31, <1>32 DEF StartSteps
    <2> QED BY <2>1, NoStep
  <1>34. "vpp" \in ToRun(o, vpp) => vpp /\ here BY DEF ToRun, Covers
  <1> QED BY <1>29, <1>30, <1>31, <1>32, <1>33, <1>34

(* Which steps which command has. *)
LEMMA InitMembers ==
    ASSUME NEW i \in InitChoices
    PROVE  /\ \A x \in InitSteps(i) : Rank(x) \in 1..6
           /\ \A k \in Kind : Step("write", k) \in InitSteps(i) <=> k \in Wanted(i)
  <1>1. Wanted(i) \subseteq Kind BY DEF Wanted, InitChoices, Kind
  <1>2. \A k \in Kind : Rank(Step("write", k)) \in 2..5 BY RankTable DEF Kind
  <1>3. \A x \in InitSteps(i) : Rank(x) \in 1..6
    <2>1. \A x \in InitSteps(i) : \/ x = Step("check", "host") \/ x = Step("name", "host")
                                  \/ \E k \in Wanted(i) : x = Step("write", k)
      BY DEF InitSteps
    <2> QED BY <2>1, <1>1, <1>2, RankTable
  <1>4. ASSUME NEW k \in Kind, Step("write", k) \in InitSteps(i) PROVE k \in Wanted(i)
    <2>1. \/ Step("write", k) = Step("check", "host") \/ Step("write", k) = Step("name", "host")
          \/ \E q \in Wanted(i) : Step("write", k) = Step("write", q)
      BY <1>4 DEF InitSteps
    <2> QED BY <2>1, <1>2, RankTable, StepsDiffer
  <1>5. ASSUME NEW k \in Wanted(i) PROVE Step("write", k) \in InitSteps(i) BY DEF InitSteps
  <1> QED BY <1>3, <1>4, <1>5

(* What the steps of a stop and of a start are. *)
LEMMA StopMembers ==
    ASSUME NEW service \in Service
    PROVE  /\ \A x \in StopSteps(service) : Rank(x) \in 7..16
           /\ \A c \in Container : Step("stop", c) \in StopSteps(service) <=> Covers(service, c)
           /\ \A c \in Container : Step("rm", c) \in StopSteps(service) <=> Covers(service, c)
           /\ \A v \in {"telegraf", "vpp"} :
                 Step("rm-volume", v) \in StopSteps(service) <=> service # "healthcheck"
  <1>1. \A c \in Container : /\ Rank(Step("stop", c)) \in {7, 9, 11, 15}
                             /\ Rank(Step("rm", c)) \in {8, 10, 12, 16}
    BY RankTable DEF Container
  <1>2. \A v \in {"telegraf", "vpp"} : Rank(Step("rm-volume", v)) \in {13, 14} BY RankTable
  <1>3. \A x : x \in StopSteps(service) <=>
            \/ \E c \in Container : Covers(service, c) /\ x = Step("stop", c)
            \/ \E c \in Container : Covers(service, c) /\ x = Step("rm", c)
            \/ service # "healthcheck" /\ \E v \in {"telegraf", "vpp"} : x = Step("rm-volume", v)
    BY DEF StopSteps
  <1>4. \A x \in StopSteps(service) : Rank(x) \in 7..16 BY <1>1, <1>2, <1>3
  <1>5. \A c \in Container : Step("stop", c) \in StopSteps(service) <=> Covers(service, c)
    BY <1>1, <1>2, <1>3, StepsDiffer
  <1>6. \A c \in Container : Step("rm", c) \in StopSteps(service) <=> Covers(service, c)
    BY <1>1, <1>2, <1>3, StepsDiffer
  <1>7. \A v \in {"telegraf", "vpp"} :
            Step("rm-volume", v) \in StopSteps(service) <=> service # "healthcheck"
    <2> TAKE v \in {"telegraf", "vpp"}
    <2> DEFINE x == Step("rm-volume", v)
    <2>1. Rank(x) \in {13, 14} BY <1>2
    <2>2. ASSUME x \in StopSteps(service) PROVE service # "healthcheck"
      BY <2>1, <2>2, <1>1, <1>3
    <2>3. ASSUME service # "healthcheck" PROVE x \in StopSteps(service) BY <2>3, <1>3
    <2> QED BY <2>2, <2>3
  <1> QED BY <1>4, <1>5, <1>6, <1>7

LEMMA StartMembers ==
    ASSUME NEW o, NEW vpp
    PROVE  /\ \A x \in StartSteps(o, vpp) : Rank(x) \in {18} \cup 20..28
           /\ \A c \in Container : Step("run", c) \in StartSteps(o, vpp) <=> c \in ToRun(o, vpp)
           /\ \A v \in {"telegraf", "vpp"} :
                 Step("volume", v) \in StartSteps(o, vpp) <=> v \in ToRun(o, vpp)
           /\ Asking \in StartSteps(o, vpp) <=> vpp /\ o.pages >= 0
           /\ {Line, Step("connect", "vpp")} \cap StartSteps(o, vpp) # {} => "vpp" \in ToRun(o, vpp)
  <1>1. \A c \in Container : Rank(Step("run", c)) \in {21, 23, 27, 28}
    BY RankTable DEF Container
  <1>2. ToRun(o, vpp) \subseteq Container BY DEF ToRun
  <1>3. \A x : x \in StartSteps(o, vpp) <=>
            \/ vpp /\ o.pages >= 0 /\ x = Asking
            \/ x = Noting
            \/ \E c \in ToRun(o, vpp) : x = Step("run", c)
            \/ "vpp" \in ToRun(o, vpp) /\ x \in {Step("volume", "vpp"), Step("connect", "vpp")}
            \/ "vpp" \in ToRun(o, vpp) /\ Lines > 0 /\ x = Line
            \/ "telegraf" \in ToRun(o, vpp) /\ x = Step("volume", "telegraf")
    BY DEF StartSteps
  <1>4. \A x \in StartSteps(o, vpp) : Rank(x) \in {18} \cup 20..28
    BY <1>1, <1>2, <1>3, RankTable
  <1>5. \A c \in Container : Step("run", c) \in StartSteps(o, vpp) <=> c \in ToRun(o, vpp)
    <2> TAKE c \in Container
    <2> DEFINE x == Step("run", c)
    <2>1. Rank(x) \in {21, 23, 27, 28} BY <1>1
    <2>2. x \in StartSteps(o, vpp) <=> \E d \in ToRun(o, vpp) : x = Step("run", d)
      BY <2>1, <1>3, RankTable
    <2> QED BY <2>2, StepsDiffer
  <1>6. \A v \in {"telegraf", "vpp"} :
            Step("volume", v) \in StartSteps(o, vpp) <=> v \in ToRun(o, vpp)
    <2>1. Step("volume", "telegraf") \in StartSteps(o, vpp) <=> "telegraf" \in ToRun(o, vpp)
      <3> DEFINE x == Step("volume", "telegraf")
      <3>1. Rank(x) = 26 BY RankTable
      <3> QED BY <3>1, <1>1, <1>2, <1>3, RankTable
    <2>2. Step("volume", "vpp") \in StartSteps(o, vpp) <=> "vpp" \in ToRun(o, vpp)
      <3> DEFINE x == Step("volume", "vpp")
      <3>1. Rank(x) = 22 BY RankTable
      <3> QED BY <3>1, <1>1, <1>2, <1>3, RankTable
    <2> QED BY <2>1, <2>2
  <1>7. Asking \in StartSteps(o, vpp) <=> vpp /\ o.pages >= 0
    BY <1>1, <1>2, <1>3, RankTable
  <1>8. Line \in StartSteps(o, vpp) => "vpp" \in ToRun(o, vpp)
    BY <1>1, <1>2, <1>3, RankTable
  <1>9. Step("connect", "vpp") \in StartSteps(o, vpp) => "vpp" \in ToRun(o, vpp)
    BY <1>1, <1>2, <1>3, RankTable
  <1> QED BY <1>4, <1>5, <1>6, <1>7, <1>8, <1>9

(* Only what a start was asked for matters to its steps. *)
LEMMA SameSteps ==
    ASSUME NEW o, NEW p, NEW vpp,
           o.service = p.service, o.telemetry = p.telemetry, o.pages = p.pages
    PROVE  StartSteps(o, vpp) = StartSteps(p, vpp) /\ ToRun(o, vpp) = ToRun(p, vpp)
  <1>1. ToRun(o, vpp) = ToRun(p, vpp) BY DEF ToRun
  <1> QED BY <1>1 DEF StartSteps

-----------------------------------------------------------------------------
(* A command between two steps. *)

LEMMA Doing ==
    ASSUME NEW l, CommandForm(l), NEW x, l.todo # <<>>, x = Head(l.todo)
    PROVE  /\ x \in Left(l.todo) /\ Rank(x) \in 1..28
           /\ l.cmd # "none" /\ l.todo \in Seq(AnyStep) /\ Sorted(l.todo)
           /\ Rank(x) <= 6 => l.cmd = "init" /\ x \in InitSteps(l.opts)
           /\ Rank(x) \in 7..16 =>
                 /\ l.cmd \in {"stop", "restart"} /\ l.opts.service \in Service
                 /\ x \in StopSteps(l.opts.service)
                 /\ l.cmd = "restart" => Verifying \in Left(l.todo)
           /\ Rank(x) = 17 =>
                 /\ x = Verifying /\ l.cmd \in {"start", "restart"}
                 /\ Tail(l.todo) = <<>> /\ Left(l.todo) = {Verifying}
           /\ Rank(x) >= 18 =>
                 /\ l.cmd \in {"start", "restart"} /\ Verifying \notin Left(l.todo)
                 /\ x \in {Setting} \cup StartSteps(l.opts, l.vpp)
  <1>1. /\ l.todo \in Seq(AnyStep) /\ l.cmd \in Command /\ Sorted(l.todo)
        /\ l.cmd = "none" => l = Idle
    BY DEF CommandForm
  <1>2. l.cmd # "none" BY <1>1 DEF Idle
  <1>3. x \in Left(l.todo) /\ Left(l.todo) = {x} \cup Left(Tail(l.todo)) BY <1>1, TailLeft
  <1>4. \A y \in Left(Tail(l.todo)) : Behind(x, y) BY <1>1, TailSorted
  <1>5. CASE l.cmd = "init"
    <2>1. l.opts \in InitChoices /\ x \in InitSteps(l.opts) BY <1>3, <1>5 DEF CommandForm
    <2>2. Rank(x) \in 1..6 BY <2>1, InitMembers
    <2> QED BY <1>1, <1>2, <1>3, <1>5, <2>1, <2>2, SMTT(30)
  <1>6. CASE l.cmd = "stop"
    <2>1. l.opts.service \in Service /\ x \in StopSteps(l.opts.service)
      BY <1>3, <1>6 DEF CommandForm
    <2>2. Rank(x) \in 7..16 BY <2>1, StopMembers
    <2> QED BY <1>1, <1>2, <1>3, <1>6, <2>1, <2>2
  <1>7. CASE l.cmd \in {"start", "restart"} /\ Verifying \in Left(l.todo)
    <2>1. l.opts.service \in Service /\ Left(l.todo) \subseteq {Verifying} \cup StopSteps(l.opts.service)
      BY <1>7 DEF CommandForm, Options
    <2>2. \A y \in StopSteps(l.opts.service) : Rank(y) \in 7..16 BY <2>1, StopMembers
    <2>3. CASE x = Verifying
      <3>1. Rank(x) = 17 BY <2>3, RankTable
      <3>2. \A y \in Left(Tail(l.todo)) : Rank(y) <= 17 BY <2>1, <2>2, <1>3, RankTable, SMTT(30)
      <3>3. \A y \in Left(Tail(l.todo)) : Rank(x) < Rank(y)
        BY <1>4, <2>3, RankTable, SMTT(30) DEF Behind
      <3>4. Left(Tail(l.todo)) = {} BY <2>1, <2>2, <3>1, <3>3, <1>3, RankTable, SMTT(30)
      <3>5. Tail(l.todo) = <<>> /\ Left(l.todo) = {Verifying} BY <3>4, <2>3, <1>1, <1>3, TailLeft
      <3> QED BY <1>1, <1>2, <1>3, <1>7, <2>3, <3>1, <3>5
    <2>4. CASE x # Verifying
      <3>1. x \in StopSteps(l.opts.service) /\ Rank(x) \in 7..16 BY <1>3, <2>1, <2>2, <2>4
      <3>2. l.cmd = "restart" BY <1>3, <1>7, <2>4 DEF CommandForm
      <3> QED BY <1>1, <1>2, <1>3, <1>7, <2>1, <3>1, <3>2
    <2> QED BY <2>3, <2>4
  <1>8. CASE l.cmd \in {"start", "restart"} /\ Verifying \notin Left(l.todo)
    <2>1. Left(l.todo) \subseteq {Setting} \cup StartSteps(l.opts, l.vpp)
      BY <1>8 DEF CommandForm
    <2>2. \A y \in StartSteps(l.opts, l.vpp) : Rank(y) \in {18} \cup 20..28 BY StartMembers
    <2>3. x \in {Setting} \cup StartSteps(l.opts, l.vpp) /\ Rank(x) \in 18..28
      BY <1>3, <2>1, <2>2, RankTable, SMTT(30)
    <2> QED BY <1>1, <1>2, <1>3, <1>8, <2>3, SMTT(30)
  <1> QED BY <1>1, <1>2, <1>5, <1>6, <1>7, <1>8 DEF Command

(* The command as a step leaves it, and what it says when it is done. *)
Afterwards(new, s) == IF s # <<>> THEN [new EXCEPT !.todo = s] ELSE Idle

Said(new, s) ==
    IF s # <<>> THEN last
    ELSE [cmd |-> new.cmd, opts |-> new.opts, vpp |-> new.vpp, ok |-> TRUE]

IdleForm == CommandForm(Idle)

(* A terminal without a command has a form, too. *)
LEMMA IdleIsForm == IdleForm
  <1>1. /\ Idle.cmd = "none" /\ Idle.todo = <<>> /\ Idle.opts = Absent /\ Idle.dir = Absent
        /\ Idle.vpp = FALSE
    BY DEF Idle
  <1>2. Idle \in [cmd : Command, todo : Seq(AnyStep), opts : Asked \cup {Absent},
                  dir : Dir \cup {Absent}, vpp : BOOLEAN]
    BY NoStep DEF Idle, Command
  <1>3. Sorted(Idle.todo) BY <1>1, NoStep
  <1> QED BY <1>1, <1>2, <1>3 DEF CommandForm, IdleForm

(* Steps that are left when the first has been taken. *)
Rest(todo, s) ==
    /\ s \in Seq(AnyStep) /\ Sorted(s) /\ Left(todo) = {Head(todo)} \cup Left(s)
    /\ \A y \in Left(s) : Behind(Head(todo), y)

(* With such steps left the command has its form. *)
LEMMA RestForm ==
    ASSUME NEW l, CommandForm(l), l.todo # <<>>, NEW s, Rest(l.todo, s)
    PROVE  CommandForm(Afterwards(l, s))
  <1> DEFINE k == [l EXCEPT !.todo = s]
  <1>1. /\ l \in [cmd : Command, todo : Seq(AnyStep), opts : Asked \cup {Absent},
                  dir : Dir \cup {Absent}, vpp : BOOLEAN]
        /\ Sorted(l.todo) /\ l.todo \in Seq(AnyStep) /\ (l.cmd = "none" => l = Idle)
    BY DEF CommandForm
  <1>2. /\ s \in Seq(AnyStep) /\ Sorted(s) /\ Left(l.todo) = {Head(l.todo)} \cup Left(s)
        /\ \A y \in Left(s) : Behind(Head(l.todo), y)
    BY DEF Rest
  <1>3. l.cmd # "none"
    <2>1. Idle.todo = <<>> BY DEF Idle
    <2> QED BY <1>1, <2>1
  <1>4. CASE s = <<>> BY <1>4, IdleIsForm DEF Afterwards, IdleForm
  <1>5. CASE s # <<>>
    <2>1. /\ k \in [cmd : Command, todo : Seq(AnyStep), opts : Asked \cup {Absent},
                    dir : Dir \cup {Absent}, vpp : BOOLEAN]
          /\ k.cmd = l.cmd /\ k.todo = s /\ k.opts = l.opts /\ k.dir = l.dir /\ k.vpp = l.vpp
      BY <1>1, <1>2
    <2> HIDE DEF k
    <2>0. Afterwards(l, s) = k BY <1>5 DEF Afterwards, k
    <2> SUFFICES CommandForm(k) BY <2>0
    <2>2. k.cmd = "init" =>
              k.opts \in InitChoices /\ k.dir \in Dir /\ Left(k.todo) \subseteq InitSteps(k.opts)
      BY <1>2, <2>1 DEF CommandForm
    <2>3. k.cmd = "stop" =>
              k.opts \in [service : Service] /\ Left(k.todo) \subseteq StopSteps(k.opts.service)
      BY <1>2, <2>1 DEF CommandForm
    <2>4. CASE k.cmd \in {"start", "restart"} /\ Verifying \in Left(k.todo)
      <3>1. Verifying \in Left(l.todo) BY <1>2, <2>1, <2>4
      <3>2. /\ l.opts \in Options /\ l.dir \in Dir /\ l.opts.conf = "none"
            /\ Left(l.todo) \subseteq {Verifying} \cup StopSteps(l.opts.service)
            /\ l.cmd = "start" => Left(l.todo) = {Verifying}
        BY <2>1, <2>4, <3>1 DEF CommandForm
      <3>3. k.cmd = "start" => Left(k.todo) = {Verifying} BY <1>2, <2>1, <2>4, <3>2
      <3> QED BY <1>2, <1>3, <1>5, <2>1, <2>2, <2>3, <2>4, <3>2, <3>3 DEF CommandForm
    <2>5. CASE k.cmd \in {"start", "restart"} /\ Verifying \notin Left(k.todo)
      <3>1. CASE Verifying \in Left(l.todo)
        <4>1. Head(l.todo) = Verifying BY <1>2, <2>1, <2>5, <3>1
        <4>2. Rank(Head(l.todo)) = 17 BY <4>1, RankTable
        <4>3. Left(l.todo) = {Verifying} BY <4>2, Doing
        <4>4. Verifying \notin Left(s) BY <2>1, <2>5
        <4>5. Left(s) = {} BY <1>2, <4>3, <4>4
        <4>6. s[1] \in Left(s) BY <1>2, <1>5 DEF Left
        <4> QED BY <4>5, <4>6
      <3>2. CASE Verifying \notin Left(l.todo)
        <4>1. /\ l.opts \in Options /\ l.dir \in Dir
              /\ Left(l.todo) \subseteq {Setting} \cup StartSteps(l.opts, l.vpp)
              /\ {Noting, Step("run", "telegraf")} \cap Left(l.todo) # {} => l.opts.conf = "none"
              /\ ~({Asking, Setting} \subseteq Left(l.todo))
              /\ Setting \in Left(l.todo) => l.vpp /\ l.opts.pages >= 0
          BY <2>1, <2>5, <3>2 DEF CommandForm
        <4>2. /\ Left(k.todo) \subseteq {Setting} \cup StartSteps(k.opts, k.vpp)
              /\ {Noting, Step("run", "telegraf")} \cap Left(k.todo) # {} => k.opts.conf = "none"
              /\ ~({Asking, Setting} \subseteq Left(k.todo))
              /\ Setting \in Left(k.todo) => k.vpp /\ k.opts.pages >= 0
          BY <4>1, <1>2, <2>1
        <4> QED BY <1>2, <1>3, <1>5, <2>1, <2>2, <2>3, <2>5, <4>1, <4>2 DEF CommandForm
      <3> QED BY <3>1, <3>2
    <2>6. CASE k.cmd \notin {"start", "restart"}
      BY <1>2, <1>3, <1>5, <2>1, <2>2, <2>3, <2>6 DEF CommandForm
    <2> QED BY <2>1, <2>4, <2>5, <2>6
  <1> QED BY <1>4, <1>5

(* As a rule they are those after the first. *)
LEMMA AfterForm ==
    ASSUME NEW l, CommandForm(l), l.todo # <<>>
    PROVE  CommandForm(Afterwards(l, Tail(l.todo)))
  <1>1. l.todo \in Seq(AnyStep) /\ Sorted(l.todo) BY DEF CommandForm
  <1>2. Rest(l.todo, Tail(l.todo)) BY <1>1, TailLeft, TailSorted DEF Rest
  <1> QED BY <1>2, RestForm

(* How a step moves a command on. *)
LEMMA Moves ==
    ASSUME NEW t \in Terminal, NEW new, NEW s,
           Proceed(t, [new EXCEPT !.todo = s]), DOMAIN term = Terminal,
           new \in [cmd : Command, todo : Seq(AnyStep), opts : Asked \cup {Absent},
                    dir : Dir \cup {Absent}, vpp : BOOLEAN]
    PROVE  term' = [term EXCEPT ![t] = Afterwards(new, s)] /\ last' = Said(new, s)
  <1> DEFINE k == [new EXCEPT !.todo = s]
  <1>1. k.cmd = new.cmd /\ k.todo = s /\ k.opts = new.opts /\ k.vpp = new.vpp OBVIOUS
  <1>2. Proceed(t, k) OBVIOUS
  <1>3. s # <<>> => Afterwards(new, s) = k BY DEF Afterwards
  <1> HIDE DEF k
  <1>4. CASE s # <<>> BY <1>1, <1>2, <1>3, <1>4 DEF Proceed, Said
  <1>5. CASE s = <<>> BY <1>1, <1>2, <1>5 DEF Proceed, Said, Afterwards
  <1> QED BY <1>4, <1>5

(* A step that succeeds leaves its command with the others. *)
LEMMA GoesOn ==
    ASSUME NEW t \in Terminal, GoOn(t), DOMAIN term = Terminal, CommandForm(term[t])
    PROVE  /\ term' = [term EXCEPT ![t] = Afterwards(term[t], Tail(term[t].todo))]
           /\ last' = Said(term[t], Tail(term[t].todo))
  <1> DEFINE l == term[t]
             s == Tail(l.todo)
  <1>1. l \in [cmd : Command, todo : Seq(AnyStep), opts : Asked \cup {Absent},
               dir : Dir \cup {Absent}, vpp : BOOLEAN]
    BY DEF CommandForm
  <1>2. Proceed(t, [l EXCEPT !.todo = s]) BY <1>1 DEF GoOn, GoOnWith
  <1> HIDE DEF l, s
  <1>3. term' = [term EXCEPT ![t] = Afterwards(l, s)] /\ last' = Said(l, s) BY <1>1, <1>2, Moves
  <1> QED BY <1>3 DEF l, s

(* No cause is forgotten. *)
LEMMA CausesGrow ==
    ASSUME HostNext
    PROVE  causes \subseteq causes'
  BY ZenonT(40) DEF HostNext, Typed, InitStep, StartStep, StopStep, Stop, ConfigInit, Start,
         RestartContainers, Begin, Interrupt, Because, Check, SaveEgvpnConfig,
         SaveEgvpnConfigFails, Write, WriteFails, Verify, NotInstalled, ReadPages,
         ReadPagesFails, WritePages, SaveRestartOpts, SaveRestartOptsFails,
         RunServerOrHealthcheck, RunVpp, RunTelegraf, RunFails, CreateVolume, ConnectVpp,
         ApplyLine, ScanFails, StopContainer, RemoveContainer, RemoveVolume, RemoveFile, Exit

(* Definitions by cases, value by value. *)
LEMMA MountedValues ==
    /\ Mounted("vpp") = {"vpp"} /\ Mounted("telegraf") = {}
    /\ Mounted("server") = {"secrets", "config"} /\ Mounted("healthcheck") = {"secrets", "config"}
  BY DEF Mounted

(* The volumes of each container, and what each file is written with. *)
LEMMA VolumesValues ==
    ASSUME NEW v
    PROVE  /\ Volumes("vpp", v) = {"vpp"} /\ Volumes("telegraf", v) = {"telegraf"}
           /\ Volumes("server", v) = If(v.vpp, "vpp") \cup If(v.opts.telemetry, "telegraf")
           /\ Volumes("healthcheck", v) = {}
  BY DEF Volumes

LEMMA WrittenValues ==
    ASSUME NEW i
    PROVE  /\ Written(i, "secrets") = i.name
           /\ Written(i, "config") = IF i.vpp THEN "vpp" ELSE "linux"
           /\ Written(i, "vpp") = "text" /\ Written(i, "day0") = "text"
  BY DEF Written

(* Nothing is none of the values that there may be. *)
LEMMA NoneIsAbsent ==
    /\ Absent \notin Name /\ Absent \notin Saved /\ Absent \notin Instance /\ Absent \notin Ending
    /\ Absent # "vpp" /\ Absent # "linux" /\ Absent # "text"
  BY AbsentAssumption

(* The command's new form is all that its own types depend on. *)
TermTyped == Forms' /\ (last \in Ending \cup {Absent})'

(* Only the terminal that moves has to be looked at. *)
LEMMA NewForm ==
    ASSUME NEW t \in Terminal, NEW k, Forms, CommandForm(k), term' = [term EXCEPT ![t] = k]
    PROVE  Forms'
  <1>1. DOMAIN term' = Terminal BY DEF Forms
  <1>2. ASSUME NEW u \in Terminal PROVE CommandForm(term'[u])
    BY DEF Forms
  <1>3. \A u \in Terminal : CommandForm(term'[u]) BY <1>2
  <1> QED BY <1>1, <1>3 DEF Forms

(* What a command says when it ends. *)
LEMMA SaidTyped ==
    ASSUME NEW l, CommandForm(l), l.cmd # "none", NEW s, last \in Ending \cup {Absent},
           NEW b \in BOOLEAN
    PROVE  /\ Said(l, s) \in Ending \cup {Absent}
           /\ [cmd |-> l.cmd, opts |-> l.opts, vpp |-> l.vpp, ok |-> b] \in Ending
  <1>1. l.cmd \in {"init", "start", "restart", "stop"} /\ l.vpp \in BOOLEAN
    BY DEF CommandForm, Command
  <1>2. l.opts \in Asked BY <1>1 DEF CommandForm, Asked
  <1>3. \A q \in BOOLEAN : [cmd |-> l.cmd, opts |-> l.opts, vpp |-> l.vpp, ok |-> q] \in Ending
    BY <1>1, <1>2 DEF Ending
  <1> QED BY <1>3 DEF Said

(* A step that succeeds, one that fails, and one that is none of a command. *)
LEMMA GoOnTyped ==
    ASSUME NEW t \in Terminal, NEW x, Types, At(t, x), GoOn(t)
    PROVE  TermTyped
  <1> DEFINE l == term[t]
             s == Tail(l.todo)
  <1>1. CommandForm(l) /\ DOMAIN term = Terminal /\ l.todo # <<>> BY DEF Types, Forms, At
  <1>2. term' = [term EXCEPT ![t] = Afterwards(l, s)] /\ last' = Said(l, s) BY <1>1, GoesOn
  <1>3. l.cmd # "none" BY <1>1, Doing
  <1>4. CommandForm(Afterwards(l, s)) BY <1>1, AfterForm
  <1>5. last \in Ending \cup {Absent} /\ Forms BY DEF Types, HostTypeOK
  <1> HIDE DEF l, s
  <1>6. Said(l, s) \in Ending \cup {Absent} BY <1>1, <1>3, <1>5, SaidTyped
  <1>7. Forms' BY <1>2, <1>4, <1>5, NewForm
  <1> QED BY <1>2, <1>6, <1>7 DEF TermTyped

LEMMA ErrorTyped ==
    ASSUME NEW t \in Terminal, NEW x, Types, At(t, x), ReturnError(t)
    PROVE  TermTyped
  <1> DEFINE l == term[t]
  <1>1. CommandForm(l) /\ DOMAIN term = Terminal /\ l.todo # <<>> BY DEF Types, Forms, At
  <1>2. term' = [term EXCEPT ![t] = Idle] BY DEF ReturnError
  <1>3. last' = [cmd |-> l.cmd, opts |-> l.opts, vpp |-> l.vpp, ok |-> FALSE] BY DEF ReturnError
  <1>4. l.cmd # "none" BY <1>1, Doing
  <1>5. last \in Ending \cup {Absent} /\ Forms BY DEF Types, HostTypeOK
  <1> HIDE DEF l
  <1>6. last' \in Ending BY <1>1, <1>3, <1>4, <1>5, SaidTyped
  <1>7. Forms' BY <1>2, <1>5, IdleIsForm, NewForm DEF IdleForm
  <1> QED BY <1>6, <1>7 DEF TermTyped

LEMMA StillTyped ==
    ASSUME Types, UNCHANGED <<term, last>>
    PROVE  TermTyped
  BY DEF TermTyped, Types, HostTypeOK, Forms

(* Everything else there is. *)
RestTyped ==
    /\ disk \in [Dir -> [Kind -> Content]]
    /\ named \in Name \cup {Absent}
    /\ saved \in Saved \cup {Absent}
    /\ docker \in [Container -> Instance \cup {Absent}]
    /\ volumes \subseteq {"telegraf", "vpp"}
    /\ pages \in 0..MaxPages /\ day0 \in 0..Lines
    /\ commands \in 0..MaxCommands
    /\ \A d \in Dir : disk[d]["secrets"] \in Name \cup {Absent}
    /\ saved # Absent => saved.opts.conf = "none"

(* The types, in two halves: the terminals and the rest. *)
LEMMA TypesAre ==
    Types <=> RestTyped /\ last \in Ending \cup {Absent} /\ Forms
  <1>1. Forms => \A t \in Terminal : (term[t].cmd = "none") = (term[t].todo = <<>>)
    BY DEF Forms, CommandForm, Idle
  <1> QED BY <1>1 DEF Types, HostTypeOK, RestTyped

LEMMA TypesAreNext ==
    RestTyped' /\ TermTyped => Types'
  <1>1. Forms' => (\A t \in Terminal : (term[t].cmd = "none") = (term[t].todo = <<>>))'
    BY DEF Forms, CommandForm, Idle
  <1> QED BY <1>1 DEF Types, HostTypeOK, RestTyped, TermTyped

(* What is typed. *)
Typing(cmd, todo, opts, dir) ==
    [cmd |-> cmd, todo |-> todo, opts |-> opts, dir |-> dir, vpp |-> FALSE]

(* The four commands, as they are typed, have their forms. *)
LEMMA InitTyped ==
    ASSUME NEW i \in InitChoices, NEW cwd \in Dir
    PROVE  CommandForm(Typing("init", Initialising(i), i, cwd))
  <1> DEFINE s == Initialising(i)
             k == Typing("init", s, i, cwd)
  <1>1. s \in Seq(AnyStep) /\ s # <<>> /\ Left(s) = InitSteps(i) /\ Sorted(s) BY InitialisingForm
  <1> HIDE DEF s
  <1>2. k.cmd = "init" /\ k.todo = s /\ k.opts = i /\ k.dir = cwd /\ k.vpp = FALSE BY DEF Typing
  <1>3. k \in [cmd : Command, todo : Seq(AnyStep), opts : Asked \cup {Absent},
               dir : Dir \cup {Absent}, vpp : BOOLEAN]
    BY <1>1 DEF Typing, Command, Asked
  <1> HIDE DEF k
  <1> QED BY <1>1, <1>2, <1>3 DEF CommandForm, k, s

LEMMA StartTyped ==
    ASSUME NEW o \in Options, o.conf = "none", NEW dir \in Dir
    PROVE  CommandForm(Typing("start", <<Verifying>>, o, dir))
  <1> DEFINE s == <<Verifying>>
             k == Typing("start", s, o, dir)
  <1>1. s \in Seq(AnyStep) /\ s # <<>> /\ Left(s) = {Verifying} /\ Sorted(s)
    BY StepsAreSteps, OneStep
  <1> HIDE DEF s
  <1>2. k.cmd = "start" /\ k.todo = s /\ k.opts = o /\ k.dir = dir /\ k.vpp = FALSE BY DEF Typing
  <1>3. k \in [cmd : Command, todo : Seq(AnyStep), opts : Asked \cup {Absent},
               dir : Dir \cup {Absent}, vpp : BOOLEAN]
    BY <1>1 DEF Typing, Command, Asked
  <1> HIDE DEF k
  <1> QED BY <1>1, <1>2, <1>3 DEF CommandForm, k, s

LEMMA RestartTyped ==
    ASSUME NEW o \in Options, o.conf = "none", NEW dir \in Dir
    PROVE  CommandForm(Typing("restart", Stopping(o.service) \o <<Verifying>>, o, dir))
  <1> DEFINE s == Stopping(o.service) \o <<Verifying>>
             k == Typing("restart", s, o, dir)
  <1>1. o.service \in Service BY DEF Options
  <1>2. /\ s \in Seq(AnyStep) /\ s # <<>> /\ Sorted(s)
        /\ Left(s) = {Verifying} \cup StopSteps(o.service)
    BY <1>1, RestartingForm
  <1> HIDE DEF s
  <1>3. k.cmd = "restart" /\ k.todo = s /\ k.opts = o /\ k.dir = dir /\ k.vpp = FALSE
    BY DEF Typing
  <1>4. k \in [cmd : Command, todo : Seq(AnyStep), opts : Asked \cup {Absent},
               dir : Dir \cup {Absent}, vpp : BOOLEAN]
    BY <1>2 DEF Typing, Command, Asked
  <1> HIDE DEF k
  <1> QED BY <1>2, <1>3, <1>4 DEF CommandForm, k, s

LEMMA StopTyped ==
    ASSUME NEW service \in Service
    PROVE  CommandForm(Typing("stop", Stopping(service), [service |-> service], Absent))
  <1> DEFINE s == Stopping(service)
             o == [service |-> service]
             k == Typing("stop", s, o, Absent)
  <1>1. s \in Seq(AnyStep) /\ Left(s) = StopSteps(service) /\ Sorted(s) BY StoppingForm
  <1>2. s # <<>>
    <2>1. Covers(service, "server") \/ Covers(service, "healthcheck") BY DEF Covers, Service
    <2>2. Step("stop", "server") \in StopSteps(service) \/ Step("stop", "healthcheck") \in StopSteps(service)
      BY <2>1, StopMembers DEF Container
    <2> QED BY <1>1, <2>2, NoStep
  <1>3. o \in [service : Service] /\ o.service = service OBVIOUS
  <1> HIDE DEF s, o
  <1>4. k.cmd = "stop" /\ k.todo = s /\ k.opts = o /\ k.dir = Absent /\ k.vpp = FALSE
    BY DEF Typing
  <1>5. k \in [cmd : Command, todo : Seq(AnyStep), opts : Asked \cup {Absent},
               dir : Dir \cup {Absent}, vpp : BOOLEAN]
    BY <1>1, <1>3 DEF Typing, Command, Asked
  <1> HIDE DEF k
  <1> QED BY <1>1, <1>2, <1>3, <1>4, <1>5 DEF CommandForm, k, s, o

(* Options that a restart replaces some of are options. *)
LEMMA OverwrittenOptions ==
    ASSUME NEW o \in Options, NEW w \in Overrides
    PROVE  /\ Overwritten(o, w) \in Options /\ Overwritten(o, w).conf = o.conf
           /\ Overwritten(o, w).service = w.service /\ Overwritten(o, w).telemetry = o.telemetry
           /\ Overwritten(o, w).at = IF w.at = Absent THEN o.at ELSE w.at
  <1>1. /\ o.at \in Dir \cup {Absent} /\ o.service \in Service /\ o.telemetry \in BOOLEAN
        /\ o.name \in Name \cup {Absent} /\ o.conf \in {"none", "temporary"}
        /\ o.pages \in Unchecked..MaxPages
    BY DEF Options
  <1>2. /\ w.at \in Dir \cup {Absent} /\ w.service \in Service /\ w.name \in Name \cup {Absent}
        /\ w.pages \in Kept..MaxPages
    BY DEF Overrides
  <1>3. w.pages # Kept => w.pages \in Unchecked..MaxPages
    BY <1>2, BoundAssumption DEF Kept, Unchecked
  <1> QED BY <1>1, <1>2, <1>3 DEF Overwritten, Options

(* A command k is begun in terminal t. *)
Beginning(t, k, why) ==
    /\ CommandForm(k) /\ k.cmd # "none" /\ k.vpp = FALSE
    /\ k.cmd = "init" => Left(k.todo) = InitSteps(k.opts)
    /\ k.cmd = "start" => Left(k.todo) = {Verifying}
    /\ k.cmd = "restart" =>
          /\ Left(k.todo) = {Verifying} \cup StopSteps(k.opts.service)
          /\ saved # Absent
          /\ k.dir = saved.dir \/ why # {}
    /\ k.cmd = "stop" => Left(k.todo) = StopSteps(k.opts.service)
    /\ term[t] = Idle /\ term' = [term EXCEPT ![t] = k] /\ last' = Absent
    /\ commands' \in 0..MaxCommands
    /\ causes' = causes \cup (why \cup AtOnce(t, k.cmd))
    /\ UNCHANGED <<disk, named, saved, docker, volumes, pages, day0>>

(* A command begins at a terminal that had none, and changes nothing else. *)
LEMMA Begins ==
    ASSUME NEW t \in Terminal, NEW cmd, NEW todo, NEW opts, NEW dir, NEW why, Types,
           Begin(t, cmd, todo, opts, dir, why), CommandForm(Typing(cmd, todo, opts, dir)),
           cmd # "none",
           cmd = "init" => Left(todo) = InitSteps(opts),
           cmd = "start" => Left(todo) = {Verifying},
           cmd = "restart" => /\ Left(todo) = {Verifying} \cup StopSteps(opts.service)
                              /\ saved # Absent
                              /\ dir = saved.dir \/ why # {},
           cmd = "stop" => Left(todo) = StopSteps(opts.service)
    PROVE  \E k : Beginning(t, k, why)
  <1> DEFINE k == Typing(cmd, todo, opts, dir)
  <1>1. k.cmd = cmd /\ k.todo = todo /\ k.opts = opts /\ k.dir = dir /\ k.vpp = FALSE BY DEF Typing
  <1>2. /\ term[t] = Idle /\ term' = [term EXCEPT ![t] = k] /\ last' = Absent
        /\ causes' = causes \cup (why \cup AtOnce(t, cmd))
        /\ UNCHANGED <<disk, named, saved, docker, volumes, pages, day0>>
        /\ commands' = commands + 1 /\ commands < MaxCommands
    BY DEF Begin, Because, Typing
  <1>3. commands' \in 0..MaxCommands BY <1>2, BoundAssumption DEF Types, HostTypeOK
  <1> HIDE DEF k
  <1>4. Beginning(t, k, why) BY <1>1, <1>2, <1>3 DEF Beginning, k
  <1> QED BY <1>4

LEMMA CommandsBegin ==
    ASSUME Types, Typed
    PROVE  \E t \in Terminal : \E k, why : Beginning(t, k, why)
  <1> PICK t \in Terminal :
        \/ \E s \in Service : Stop(t, s)
        \/ \E cwd \in Dir :
              \/ \E i \in InitOptions : ConfigInit(t, cwd, i)
              \/ \E o \in StartOptions : Start(t, cwd, o)
              \/ \E w \in RestartOptions : RestartContainers(t, cwd, w)
    BY DEF Typed
  <1>1. ASSUME NEW s \in Service, Stop(t, s) PROVE \E k, why : Beginning(t, k, why)
    <2> DEFINE todo == Stopping(s)
               opts == [service |-> s]
    <2>1. Begin(t, "stop", todo, opts, Absent, {}) BY <1>1 DEF Stop
    <2>2. CommandForm(Typing("stop", todo, opts, Absent)) BY StopTyped
    <2>3. Left(todo) = StopSteps(opts.service) BY StoppingForm
    <2> HIDE DEF todo, opts
    <2> QED BY <2>1, <2>2, <2>3, Begins
  <1>2. ASSUME NEW cwd \in Dir, NEW i \in InitOptions, ConfigInit(t, cwd, i)
        PROVE  \E k, why : Beginning(t, k, why)
    <2> DEFINE todo == Initialising(i)
    <2>1. Begin(t, "init", todo, i, cwd, {}) BY <1>2 DEF ConfigInit
    <2>2. i \in InitChoices BY OptionsAssumption
    <2>3. CommandForm(Typing("init", todo, i, cwd)) BY <2>2, InitTyped
    <2>4. Left(todo) = InitSteps(i) BY <2>2, InitialisingForm
    <2> HIDE DEF todo
    <2> QED BY <2>1, <2>3, <2>4, Begins
  <1>3. ASSUME NEW cwd \in Dir, NEW o \in StartOptions, Start(t, cwd, o)
        PROVE  \E k, why : Beginning(t, k, why)
    <2> DEFINE todo == <<Verifying>>
               dir == Somewhere(o.at, cwd)
    <2>1. Begin(t, "start", todo, o, dir, {}) BY <1>3 DEF Start, Verifying
    <2>2. o \in Options /\ o.conf = "none" BY OptionsAssumption
    <2>3. dir \in Dir BY <2>2 DEF Somewhere, Options
    <2>4. CommandForm(Typing("start", todo, o, dir)) BY <2>2, <2>3, StartTyped
    <2>5. Left(todo) = {Verifying} BY StepsAreSteps, OneStep
    <2> HIDE DEF todo, dir
    <2> QED BY <2>1, <2>4, <2>5, Begins
  <1>4. ASSUME NEW cwd \in Dir, NEW w \in RestartOptions, RestartContainers(t, cwd, w)
        PROVE  \E k, why : Beginning(t, k, why)
    <2> DEFINE o == Overwritten(saved.opts, w)
               todo == Stopping(o.service) \o <<Verifying>>
               dir == Somewhere(o.at, cwd)
               why == If(w.at # Absent, "elsewhere")
                      \cup If(w.at = Absent /\ dir # saved.dir, "moved")
    <2>1. saved # Absent /\ Begin(t, "restart", todo, o, dir, why)
      BY <1>4 DEF RestartContainers, Verifying
    <2>2. saved.opts \in Options /\ saved.opts.conf = "none"
      BY <2>1 DEF Types, HostTypeOK, Saved
    <2>3. o \in Options /\ o.conf = "none"
      BY <2>2, OverwrittenOptions, OptionsAssumption
    <2> HIDE DEF o
    <2>4. dir \in Dir /\ o.service \in Service BY <2>3 DEF Somewhere, Options
    <2>5. CommandForm(Typing("restart", todo, o, dir)) BY <2>3, <2>4, RestartTyped
    <2>6. Left(todo) = {Verifying} \cup StopSteps(o.service) BY <2>4, RestartingForm
    <2>7. dir = saved.dir \/ why # {} BY DEF If
    <2> HIDE DEF todo, dir, why
    <2> QED BY <2>1, <2>5, <2>6, <2>7, Begins
  <1> QED BY <1>1, <1>2, <1>3, <1>4

(* So it keeps the types. *)
LEMMA BeginTyped ==
    ASSUME NEW t \in Terminal, NEW k, NEW why, Types, Beginning(t, k, why)
    PROVE  Types'
  <1>1. Forms' BY NewForm DEF Beginning, Types
  <1>2. TermTyped BY <1>1 DEF TermTyped, Beginning
  <1>3. RestTyped' BY TypesAre DEF RestTyped, Beginning
  <1> QED BY <1>2, <1>3, TypesAreNext

(* A container is run. *)
LEMMA RunTyped ==
    ASSUME NEW t \in Terminal, NEW c \in Container, NEW name \in Name \cup {Absent},
           NEW starts \in BOOLEAN, Types, term[t].opts \in Options, term[t].dir \in Dir,
           Run(t, c, name, starts)
    PROVE  /\ docker' \in [Container -> Instance \cup {Absent}]
           /\ volumes' \subseteq {"telegraf", "vpp"}
           /\ docker[c] = Absent
           /\ \E new \in Instance :
                 /\ docker' = [docker EXCEPT ![c] = new]
                 /\ new.up = (starts /\ \A k \in Mounted(c) : disk[term[t].dir][k] # Absent)
                 /\ new.opts = term[t].opts /\ new.dir = term[t].dir /\ new.vpp = term[t].vpp
                 /\ new.name = name
                 /\ volumes' = volumes \cup Volumes(c, new)
  <1> DEFINE l == term[t]
             up == starts /\ \A k \in Mounted(c) : disk[l.dir][k] # Absent
             new == [up |-> up, opts |-> l.opts, dir |-> l.dir, vpp |-> l.vpp, name |-> name]
  <1>1. l.vpp \in BOOLEAN BY DEF Types, Forms, CommandForm
  <1>2. new \in Instance BY <1>1 DEF Instance
  <1>3. docker[c] = Absent /\ docker' = [docker EXCEPT ![c] = new] /\ volumes' = volumes \cup Volumes(c, new)
    BY DEF Run
  <1>4. new.up = up /\ new.opts = l.opts /\ new.dir = l.dir /\ new.vpp = l.vpp /\ new.name = name
    OBVIOUS
  <1>5. Volumes(c, new) \subseteq {"telegraf", "vpp"} BY VolumesValues DEF Container, If
  <1>6. docker \in [Container -> Instance \cup {Absent}] /\ volumes \subseteq {"telegraf", "vpp"}
    BY DEF Types, HostTypeOK
  <1> HIDE DEF new, up, l
  <1>7. docker' \in [Container -> Instance \cup {Absent}] BY <1>2, <1>3, <1>6
  <1> QED BY <1>2, <1>3, <1>4, <1>5, <1>6, <1>7 DEF up, l

(* The command that takes a step. *)
LEMMA AtStep ==
    ASSUME NEW t \in Terminal, NEW x, Types, At(t, x)
    PROVE  /\ CommandForm(term[t]) /\ term[t].todo # <<>> /\ x = Head(term[t].todo)
           /\ DOMAIN term = Terminal
  BY DEF Types, Forms, At

(* What is left of a command when its first steps, all lines, are dropped, ... *)
LEMMA LinesDropped ==
    ASSUME NEW r \in Seq(AnyStep), Sorted(r), NEW n \in 1..Len(r), \A i \in 1..n : r[i] = Line
    PROVE  Rest(r, SubSeq(r, n + 1, Len(r)))
  <1> PICK s : s = SubSeq(r, n + 1, Len(r)) OBVIOUS
  <1>1. Len(r) \in Nat /\ n \in Nat /\ n <= Len(r) /\ Head(r) = r[1] /\ r[1] = Line OBVIOUS
  <1>2. s \in Seq(AnyStep) /\ Len(s) = Len(r) - n OBVIOUS
  <1>3. \A i \in 1..Len(s) : s[i] = r[i + n]
    <2>1. \A i \in 1..((Len(r) - (n + 1)) + 1) : SubSeq(r, n + 1, Len(r))[i] = r[(n + 1) + i - 1]
      OBVIOUS
    <2> QED BY <1>1, <1>2, <2>1
  <1>4. Sorted(s)
    <2> SUFFICES ASSUME NEW i \in 1..Len(s), NEW j \in 1..Len(s), i < j PROVE Behind(s[i], s[j])
      BY DEF Sorted
    <2>1. i + n \in 1..Len(r) /\ j + n \in 1..Len(r) /\ i + n < j + n BY <1>1, <1>2
    <2> QED BY <2>1, <1>3 DEF Sorted
  <1>5. ASSUME NEW y \in Left(s) PROVE y \in Left(r) /\ Behind(Head(r), y)
    <2>1. PICK i \in 1..Len(s) : y = s[i] BY DEF Left
    <2>2. i + n \in 1..Len(r) /\ 1 \in 1..Len(r) /\ 1 < i + n BY <1>1, <1>2
    <2>3. y = r[i + n] BY <2>1, <1>3
    <2>4. Behind(r[1], r[i + n]) BY <2>2 DEF Sorted
    <2> QED BY <1>1, <2>2, <2>3, <2>4 DEF Left
  <1>6. ASSUME NEW y \in Left(r) PROVE y \in {Head(r)} \cup Left(s)
    <2>1. PICK i \in 1..Len(r) : y = r[i] BY DEF Left
    <2>2. CASE i <= n
      <3>1. y = Line BY <2>1, <2>2
      <3> QED BY <3>1, <1>1
    <2>3. CASE ~(i <= n)
      <3>1. i - n \in 1..Len(s) /\ (i - n) + n = i BY <1>1, <1>2, <2>1, <2>3
      <3>2. s[i - n] = r[i] BY <1>3, <3>1
      <3> QED BY <2>1, <3>1, <3>2 DEF Left
    <2> QED BY <2>2, <2>3
  <1>7. Head(r) \in Left(r)
    <2>1. 1 \in 1..Len(r) BY <1>1
    <2> QED BY <2>1, <1>1 DEF Left
  <1>8. Left(r) = {Head(r)} \cup Left(s) BY <1>5, <1>6, <1>7
  <1> QED BY <1>2, <1>4, <1>5, <1>8 DEF Rest

(* ... as they are when the file cannot be read on. *)
LEMMA ScanMoves ==
    ASSUME NEW t \in Terminal, Types, ScanFails(t)
    PROVE  \E s : /\ At(t, Line) /\ Rest(term[t].todo, s)
                  /\ term' = [term EXCEPT ![t] = Afterwards(term[t], s)]
                  /\ last' = Said(term[t], s)
  <1> DEFINE l == term[t]
  <1>1. At(t, Line) BY DEF ScanFails, Line
  <1>2. CommandForm(l) /\ DOMAIN term = Terminal BY <1>1, AtStep
  <1>3. /\ l \in [cmd : Command, todo : Seq(AnyStep), opts : Asked \cup {Absent},
                  dir : Dir \cup {Absent}, vpp : BOOLEAN]
        /\ l.todo \in Seq(AnyStep) /\ Sorted(l.todo)
    BY <1>2 DEF CommandForm
  <1>4. PICK n \in 1..Len(l.todo) :
              /\ \A i \in 1..n : l.todo[i] = Line
              /\ Proceed(t, [l EXCEPT !.todo = SubSeq(@, n + 1, Len(@))])
    BY DEF ScanFails, Line
  <1> DEFINE s == SubSeq(l.todo, n + 1, Len(l.todo))
  <1>5. Rest(l.todo, s) BY <1>3, <1>4, LinesDropped
  <1>6. [l EXCEPT !.todo = SubSeq(@, n + 1, Len(@))] = [l EXCEPT !.todo = s] BY <1>3
  <1>7. Proceed(t, [l EXCEPT !.todo = s]) BY <1>4, <1>6
  <1> HIDE DEF s
  <1>8. l \in [cmd : Command, todo : Seq(AnyStep), opts : Asked \cup {Absent},
               dir : Dir \cup {Absent}, vpp : BOOLEAN]
    BY <1>3
  <1>9. DOMAIN term = Terminal BY <1>2
  <1>10. term' = [term EXCEPT ![t] = Afterwards(l, s)] /\ last' = Said(l, s)
    BY <1>7, <1>8, <1>9, Moves
  <1> QED BY <1>1, <1>5, <1>10

(* The terminal of such a command has its form. *)
LEMMA ScanTyped ==
    ASSUME NEW t \in Terminal, Types, ScanFails(t)
    PROVE  TermTyped
  <1> PICK l : l = term[t] OBVIOUS
  <1>1. PICK s : /\ At(t, Line) /\ Rest(l.todo, s)
                 /\ term' = [term EXCEPT ![t] = Afterwards(l, s)] /\ last' = Said(l, s)
    BY ScanMoves
  <1>2. CommandForm(l) /\ l.todo # <<>> /\ Line = Head(l.todo) BY <1>1, AtStep
  <1>3. l.cmd # "none" BY <1>2, Doing
  <1>4. CommandForm(Afterwards(l, s)) BY <1>1, <1>2, RestForm
  <1>5. last \in Ending \cup {Absent} /\ Forms BY DEF Types, HostTypeOK
  <1>6. Said(l, s) \in Ending \cup {Absent} BY <1>2, <1>3, <1>5, SaidTyped
  <1>7. Forms' BY <1>1, <1>4, <1>5, NewForm
  <1> QED BY <1>1, <1>6, <1>7 DEF TermTyped

(* The rank of its next step tells which command is under way. *)
LEMMA InInit ==
    ASSUME NEW t \in Terminal, NEW x, Types, At(t, x), Rank(x) <= 6
    PROVE  /\ term[t].cmd = "init" /\ term[t].opts \in InitChoices /\ term[t].dir \in Dir
           /\ x \in InitSteps(term[t].opts)
  <1>1. CommandForm(term[t]) /\ term[t].todo # <<>> /\ x = Head(term[t].todo) BY AtStep
  <1>2. term[t].cmd = "init" /\ x \in InitSteps(term[t].opts) BY <1>1, Doing
  <1> QED BY <1>1, <1>2 DEF CommandForm

LEMMA InStop ==
    ASSUME NEW t \in Terminal, NEW x, Types, At(t, x), Rank(x) \in 7..16
    PROVE  /\ term[t].cmd \in {"stop", "restart"} /\ term[t].opts.service \in Service
           /\ x \in StopSteps(term[t].opts.service)
           /\ term[t].cmd = "restart" => Verifying \in Left(term[t].todo)
  BY AtStep, Doing

LEMMA InStart ==
    ASSUME NEW t \in Terminal, NEW x, Types, At(t, x), Rank(x) \in 17..28
    PROVE  /\ term[t].cmd \in {"start", "restart"} /\ term[t].opts \in Options
           /\ term[t].dir \in Dir /\ term[t].vpp \in BOOLEAN
           /\ Rank(x) = 17 => Tail(term[t].todo) = <<>> /\ Left(term[t].todo) = {Verifying}
           /\ Rank(x) >= 18 =>
                 Verifying \notin Left(term[t].todo)
                 /\ x \in {Setting} \cup StartSteps(term[t].opts, term[t].vpp)
  <1>1. CommandForm(term[t]) /\ term[t].todo # <<>> /\ x = Head(term[t].todo) BY AtStep
  <1>2. /\ Rank(x) = 17 =>
                 /\ x = Verifying /\ term[t].cmd \in {"start", "restart"}
                 /\ Tail(term[t].todo) = <<>> /\ Left(term[t].todo) = {Verifying}
        /\ Rank(x) >= 18 =>
                 /\ term[t].cmd \in {"start", "restart"} /\ Verifying \notin Left(term[t].todo)
                 /\ x \in {Setting} \cup StartSteps(term[t].opts, term[t].vpp)
    BY <1>1, Doing
  <1>3. term[t].cmd \in {"start", "restart"} BY <1>2
  <1>4. term[t].opts \in Options /\ term[t].dir \in Dir /\ term[t].vpp \in BOOLEAN
    BY <1>1, <1>3 DEF CommandForm
  <1> QED BY <1>2, <1>3, <1>4

(* What has to be there for the types to be kept. *)
LEMMA InitStepTyped ==
    ASSUME NEW t \in Terminal, Types, InitStep(t)
    PROVE  Types'
  <1>1. RestTyped BY TypesAre
  <1>2. CASE Check(t)
    <2>1. TermTyped BY <1>2, GoOnTyped, ErrorTyped DEF Check
    <2>2. RestTyped' BY <1>1, <1>2 DEF Check, RestTyped
    <2> QED BY <2>1, <2>2, TypesAreNext
  <1>3. CASE SaveEgvpnConfig(t)
    <2>1. TermTyped BY <1>3, GoOnTyped DEF SaveEgvpnConfig
    <2>2. term[t].opts \in InitChoices BY <1>3, InInit, RankTable DEF SaveEgvpnConfig
    <2>3. term[t].opts.name \in Name BY <2>2 DEF InitChoices
    <2>4. RestTyped' BY <1>1, <1>3, <2>3 DEF SaveEgvpnConfig, RestTyped
    <2> QED BY <2>1, <2>4, TypesAreNext
  <1>4. ASSUME NEW k \in Kind, Write(t, k) PROVE Types'
    <2>1. TermTyped BY <1>4, GoOnTyped DEF Write
    <2>2. Rank(Step("write", k)) \in 2..5 BY RankTable DEF Kind
    <2>3. term[t].opts \in InitChoices /\ term[t].dir \in Dir BY <1>4, <2>2, InInit DEF Write
    <2>4. /\ Written(term[t].opts, k) \in Content
          /\ k = "secrets" => Written(term[t].opts, k) \in Name
      BY <2>3, WrittenValues DEF Kind, InitChoices, Content
    <2>5. (disk' \in [Dir -> [Kind -> Content]])
          /\ \A d \in Dir : disk'[d]["secrets"] \in Name \cup {Absent}
      BY <1>1, <1>4, <2>3, <2>4 DEF Write, RestTyped, Kind
    <2>6. RestTyped' BY <1>1, <1>4, <2>5 DEF Write, RestTyped
    <2> QED BY <2>1, <2>6, TypesAreNext
  <1>5. ASSUME NEW k \in Kind, WriteFails(t, k) PROVE Types'
    <2>1. TermTyped BY <1>5, ErrorTyped DEF WriteFails
    <2>2. RestTyped' BY <1>1, <1>5 DEF WriteFails, RestTyped
    <2> QED BY <2>1, <2>2, TypesAreNext
  <1>6. CASE SaveEgvpnConfigFails(t)
    <2>1. TermTyped BY <1>6, ErrorTyped DEF SaveEgvpnConfigFails
    <2>2. RestTyped' BY <1>1, <1>6 DEF SaveEgvpnConfigFails, RestTyped
    <2> QED BY <2>1, <2>2, TypesAreNext
  <1> QED BY <1>2, <1>3, <1>4, <1>5, <1>6 DEF InitStep

(* The steps of a stop keep the types. *)
LEMMA StopStepTyped ==
    ASSUME NEW t \in Terminal, Types, StopStep(t)
    PROVE  Types'
  <1>1. RestTyped BY TypesAre
  <1>2. ASSUME NEW c \in Container, StopContainer(t, c) PROVE Types'
    <2>1. TermTyped BY <1>2, GoOnTyped DEF StopContainer
    <2>2. docker' \in [Container -> Instance \cup {Absent}]
      BY <1>1, <1>2, ZenonT(40) DEF StopContainer, RestTyped, Instance
    <2>3. RestTyped' BY <1>1, <1>2, <2>2 DEF StopContainer, RestTyped
    <2> QED BY <2>1, <2>3, TypesAreNext
  <1>3. ASSUME NEW c \in Container, RemoveContainer(t, c) PROVE Types'
    <2>1. TermTyped BY <1>3, GoOnTyped DEF RemoveContainer
    <2>2. docker' \in [Container -> Instance \cup {Absent}]
      BY <1>1, <1>3 DEF RemoveContainer, RestTyped
    <2>3. RestTyped' BY <1>1, <1>3, <2>2 DEF RemoveContainer, RestTyped
    <2> QED BY <2>1, <2>3, TypesAreNext
  <1>4. ASSUME NEW v \in {"telegraf", "vpp"}, RemoveVolume(t, v) PROVE Types'
    <2>1. TermTyped BY <1>4, GoOnTyped DEF RemoveVolume
    <2>2. RestTyped' BY <1>1, <1>4 DEF RemoveVolume, RestTyped
    <2> QED BY <2>1, <2>2, TypesAreNext
  <1> QED BY <1>2, <1>3, <1>4 DEF StopStep

(* A start goes on with its containers once the files have been found. *)
LEMMA VerifyForm ==
    ASSUME NEW l, CommandForm(l), l.todo # <<>>, Head(l.todo) = Verifying, NEW vpp \in BOOLEAN
    PROVE  CommandForm(Afterwards([l EXCEPT !.vpp = vpp], Starting(l.opts, vpp)))
  <1> DEFINE s == Starting(l.opts, vpp)
             n == [l EXCEPT !.vpp = vpp]
             k == [n EXCEPT !.todo = s]
  <1>1. /\ l \in [cmd : Command, todo : Seq(AnyStep), opts : Asked \cup {Absent},
                  dir : Dir \cup {Absent}, vpp : BOOLEAN]
    BY DEF CommandForm
  <1>2. l.cmd \in {"start", "restart"} /\ Left(l.todo) = {Verifying}
    BY Doing, RankTable, ZenonT(40)
  <1>3. l.opts \in Options /\ l.dir \in Dir /\ l.opts.conf = "none" BY <1>2 DEF CommandForm
  <1>4. s \in Seq(AnyStep) /\ s # <<>> /\ Left(s) = StartSteps(l.opts, vpp) /\ Sorted(s)
    BY <1>3, StartingForm
  <1> HIDE DEF s
  <1>5. /\ k \in [cmd : Command, todo : Seq(AnyStep), opts : Asked \cup {Absent},
                  dir : Dir \cup {Absent}, vpp : BOOLEAN]
        /\ k.cmd = l.cmd /\ k.todo = s /\ k.opts = l.opts /\ k.dir = l.dir /\ k.vpp = vpp
    BY <1>1, <1>4
  <1>6. Verifying \notin Left(s)
    <2>1. \A x \in StartSteps(l.opts, vpp) : Rank(x) \in {18} \cup 20..28 BY StartMembers
    <2>2. \A x \in StartSteps(l.opts, vpp) : Rank(x) # 17 BY <2>1
    <2>3. Rank(Verifying) = 17 BY RankTable
    <2>4. Verifying \notin StartSteps(l.opts, vpp) BY <2>2, <2>3
    <2> QED BY <2>4, <1>4
  <1>9. Setting \notin Left(s)
    <2>1. \A x \in StartSteps(l.opts, vpp) : Rank(x) \in {18} \cup 20..28 BY StartMembers
    <2>2. \A x \in StartSteps(l.opts, vpp) : Rank(x) # 19 BY <2>1
    <2>3. Rank(Setting) = 19 BY RankTable
    <2>4. Setting \notin StartSteps(l.opts, vpp) BY <2>2, <2>3
    <2> QED BY <2>4, <1>4
  <1>7. Afterwards(n, s) = k BY <1>4 DEF Afterwards
  <1> HIDE DEF k, n
  <1>8. CommandForm(k) BY <1>2, <1>3, <1>4, <1>5, <1>6, <1>9 DEF CommandForm
  <1> QED BY <1>7, <1>8 DEF n, s

(* After a list of one step comes the list it was put before. *)
LEMMA TailOf ==
    ASSUME NEW s \in Seq(AnyStep), s # <<>>, Tail(s) = <<>>, NEW r \in Seq(AnyStep)
    PROVE  Tail(s \o r) = r
  <1>1. Len(s) = 1
    <2> DEFINE q == Tail(s)
    <2>1. q \in Seq(AnyStep) /\ Len(q) = Len(s) - 1 /\ Len(s) \in Nat OBVIOUS
    <2>2. q = <<>> OBVIOUS
    <2> HIDE DEF q
    <2>3. Len(q) = 0 BY <2>2
    <2> QED BY <2>1, <2>3
  <1>8. s \o r \in Seq(AnyStep) /\ Len(s \o r) = Len(s) + Len(r) /\ Len(r) \in Nat OBVIOUS
  <1>9. \A i \in 1..Len(r) : (s \o r)[Len(s) + i] = r[i] OBVIOUS
  <1> DEFINE w == s \o r
  <1> HIDE DEF w
  <1>2. w \in Seq(AnyStep) /\ Len(w) = 1 + Len(r) /\ Len(r) \in Nat BY <1>1, <1>8 DEF w
  <1>3. \A i \in 1..Len(r) : w[1 + i] = r[i] BY <1>1, <1>9 DEF w
  <1>4. Tail(w) \in Seq(AnyStep) /\ Len(Tail(w)) = Len(r) BY <1>2
  <1>5. \A i \in 1..Len(r) : Tail(w)[i] = w[i + 1] BY <1>2
  <1>6. \A i \in 1..Len(r) : Tail(w)[i] = r[i] BY <1>2, <1>3, <1>5
  <1>7. Tail(w) = r
    <2> DEFINE q == Tail(w)
    <2> HIDE DEF q
    <2>1. q \in Seq(AnyStep) /\ Len(q) = Len(r) /\ \A i \in 1..Len(r) : q[i] = r[i]
      BY <1>4, <1>6 DEF q
    <2>2. q = r BY <2>1
    <2> QED BY <2>2 DEF q
  <1> QED BY <1>7 DEF w

(* Verification gives the start the rest of its steps. *)
LEMMA VerifyMoves ==
    ASSUME NEW t \in Terminal, Types, Verify(t)
    PROVE  \/ ReturnError(t)
           \/ /\ \A k \in Needed(disk[term[t].dir]["config"] = "vpp") : disk[term[t].dir][k] # Absent
              /\ \E vpp \in BOOLEAN :
                    /\ vpp = (disk[term[t].dir]["config"] = "vpp")
                    /\ term' = [term EXCEPT ![t] = Afterwards([term[t] EXCEPT !.vpp = vpp],
                                                         Starting(term[t].opts, vpp))]
                    /\ last' = last /\ Starting(term[t].opts, vpp) # <<>>
  <1> DEFINE l == term[t]
             vpp == disk[l.dir]["config"] = "vpp"
             s == Starting(l.opts, vpp)
             n == [l EXCEPT !.vpp = vpp]
  <1> SUFFICES ASSUME ~ReturnError(t)
               PROVE  /\ \A k \in Needed(vpp) : disk[l.dir][k] # Absent
                      /\ term' = [term EXCEPT ![t] = Afterwards(n, s)] /\ last' = last /\ s # <<>>
    OBVIOUS
  <1>1. /\ \A k \in Needed(vpp) : disk[l.dir][k] # Absent
        /\ GoOnWith(t, [l EXCEPT !.vpp = vpp, !.todo = @ \o s])
    BY DEF Verify
  <1>2. CommandForm(l) /\ l.todo # <<>> /\ Head(l.todo) = Verifying /\ DOMAIN term = Terminal
    BY AtStep DEF Verify, Verifying
  <1>3. /\ l \in [cmd : Command, todo : Seq(AnyStep), opts : Asked \cup {Absent},
                  dir : Dir \cup {Absent}, vpp : BOOLEAN]
    BY <1>2 DEF CommandForm
  <1>4. Tail(l.todo) = <<>> /\ l.opts \in Options
    <2>1. At(t, Verifying) /\ Rank(Verifying) = 17 BY RankTable DEF Verify, Verifying
    <2> QED BY <2>1, InStart
  <1>5. s \in Seq(AnyStep) /\ s # <<>> BY <1>4, StartingForm
  <1>6. Tail(l.todo \o s) = s BY <1>2, <1>3, <1>4, <1>5, TailOf
  <1>7. vpp \in BOOLEAN OBVIOUS
  <1> HIDE DEF s, vpp
  <1>8. Proceed(t, [[l EXCEPT !.vpp = vpp, !.todo = @ \o s] EXCEPT !.todo = s])
    BY <1>1, <1>3, <1>6 DEF GoOnWith
  <1>9. [[l EXCEPT !.vpp = vpp, !.todo = @ \o s] EXCEPT !.todo = s] = [n EXCEPT !.todo = s]
    BY <1>3
  <1>10. n \in [cmd : Command, todo : Seq(AnyStep), opts : Asked \cup {Absent},
                dir : Dir \cup {Absent}, vpp : BOOLEAN]
    BY <1>3, <1>7
  <1> HIDE DEF n
  <1>11. Proceed(t, [n EXCEPT !.todo = s]) BY <1>8, <1>9
  <1>12. term' = [term EXCEPT ![t] = Afterwards(n, s)] /\ last' = Said(n, s)
    BY <1>2, <1>10, <1>11, Moves
  <1> QED BY <1>1, <1>5, <1>12 DEF Said

(* A start that finds too few huge pages asks for more next. *)
LEMMA PagesMoves ==
    ASSUME NEW t \in Terminal, Types, At(t, Asking), pages < term[t].opts.pages, ReadPages(t)
    PROVE  \E s \in Seq(AnyStep) :
              /\ s = <<Setting>> \o Tail(term[t].todo) /\ s # <<>>
              /\ Left(s) = {Setting} \cup Left(Tail(term[t].todo))
              /\ Asking \notin Left(s)
              /\ CommandForm(Afterwards(term[t], s))
              /\ term' = [term EXCEPT ![t] = Afterwards(term[t], s)] /\ last' = last
  <1> DEFINE l == term[t]
             r == Tail(l.todo)
             s == <<Setting>> \o r
             k == [l EXCEPT !.todo = s]
  <1>1. CommandForm(l) /\ l.todo # <<>> /\ Asking = Head(l.todo) /\ DOMAIN term = Terminal
    BY AtStep
  <1>2. /\ l \in [cmd : Command, todo : Seq(AnyStep), opts : Asked \cup {Absent},
                  dir : Dir \cup {Absent}, vpp : BOOLEAN]
        /\ l.todo \in Seq(AnyStep) /\ Sorted(l.todo)
    BY <1>1 DEF CommandForm
  <1>3. /\ r \in Seq(AnyStep) /\ Sorted(r) /\ Left(l.todo) = {Asking} \cup Left(r)
        /\ \A y \in Left(r) : Behind(Asking, y)
    BY <1>1, <1>2, TailLeft, TailSorted
  <1>4. /\ l.cmd \in {"start", "restart"} /\ l.opts \in Options /\ l.dir \in Dir
        /\ Verifying \notin Left(l.todo)
    BY <1>1, InStart, RankTable, SMTT(30)
  <1>5. /\ Left(l.todo) \subseteq {Setting} \cup StartSteps(l.opts, l.vpp)
        /\ Setting \notin Left(l.todo)
        /\ {Noting, Step("run", "telegraf")} \cap Left(l.todo) # {} => l.opts.conf = "none"
    BY <1>1, <1>3, <1>4 DEF CommandForm
  <1>6. \A y \in Left(r) : Behind(Setting, y) /\ y # Asking
    <2> TAKE y \in Left(r)
    <2>1. Rank(y) > 18 BY <1>3, RankTable DEF Behind
    <2>2. y \in StartSteps(l.opts, l.vpp) BY <1>3, <1>5
    <2>3. Rank(y) \in {18} \cup 20..28 BY <2>2, StartMembers
    <2>4. Rank(y) > 19 BY <2>1, <2>3
    <2> QED BY <2>1, <2>4, RankTable DEF Behind
  <1>7. /\ <<Setting>> \in Seq(AnyStep) /\ Left(<<Setting>>) = {Setting} /\ Sorted(<<Setting>>)
    BY StepsAreSteps, OneStep
  <1>8. s \in Seq(AnyStep) /\ Left(s) = {Setting} \cup Left(r) /\ Sorted(s)
    BY <1>3, <1>6, <1>7, ConcatLeft, ConcatSorted, ZenonT(40)
  <1>9. s # <<>> BY <1>8, NoStep
  <1>10. Proceed(t, [l EXCEPT !.todo = s])
    <2>1. Proceed(t, [term[t] EXCEPT !.todo = <<Setting>> \o Tail(@)]) BY DEF ReadPages, Setting
    <2> QED BY <2>1, <1>2
  <1> HIDE DEF s, r
  <1>11. term' = [term EXCEPT ![t] = Afterwards(l, s)] /\ last' = Said(l, s)
    BY <1>1, <1>2, <1>10, Moves
  <1>12. CommandForm(k)
    <2>1. /\ k \in [cmd : Command, todo : Seq(AnyStep), opts : Asked \cup {Absent},
                    dir : Dir \cup {Absent}, vpp : BOOLEAN]
          /\ k.cmd = l.cmd /\ k.todo = s /\ k.opts = l.opts /\ k.dir = l.dir /\ k.vpp = l.vpp
      BY <1>2, <1>8
    <2> HIDE DEF k
    <2>2. Verifying \notin Left(s) BY <1>3, <1>4, <1>8, RankTable
    <2>3. Asking \notin Left(s) BY <1>6, <1>8, RankTable, SMTT(30)
    <2>4. Left(s) \subseteq {Setting} \cup StartSteps(l.opts, l.vpp) BY <1>3, <1>5, <1>8
    <2>5. {Noting, Step("run", "telegraf")} \cap Left(s) # {} => l.opts.conf = "none"
      <3>1. Noting # Setting /\ Step("run", "telegraf") # Setting BY RankTable
      <3> QED BY <3>1, <1>3, <1>5, <1>8
    <2>6. l.vpp /\ l.opts.pages >= 0
      <3>1. Asking \in StartSteps(l.opts, l.vpp) BY <1>3, <1>5, RankTable
      <3> QED BY <3>1, StartMembers
    <2> QED BY <2>1, <2>2, <2>3, <2>4, <2>5, <2>6, <1>4, <1>8, <1>9 DEF CommandForm
  <1>13. Afterwards(l, s) = k BY <1>9 DEF Afterwards
  <1>14. Asking \notin Left(s) BY <1>6, <1>8, RankTable, SMTT(30)
  <1>15. last' = last BY <1>9, <1>11 DEF Said
  <1>16. CommandForm(Afterwards(l, s)) BY <1>12, <1>13
  <1> HIDE DEF k
  <1> QED BY <1>8, <1>9, <1>11, <1>14, <1>15, <1>16 DEF s, r

(* Telemetry runs under the name it was given, and with a configuration of its own. *)
LEMMA TelegrafMoves ==
    ASSUME NEW t \in Terminal, Types, RunTelegraf(t), ~ReturnError(t)
    PROVE  \E name \in Name : \E new :
              /\ Run(t, "telegraf", name, TRUE) /\ term[t].opts.conf = "none"
              /\ name = IF term[t].opts.name = Absent THEN named ELSE term[t].opts.name
              /\ CommandForm(Afterwards(new, Tail(term[t].todo)))
              /\ new = [term[t] EXCEPT !.opts = new.opts] /\ new.opts \in Options
              /\ new.opts = [term[t].opts EXCEPT !.conf = "temporary", !.name = name]
              /\ term' = [term EXCEPT ![t] = Afterwards(new, Tail(term[t].todo))]
              /\ last' = Said(new, Tail(term[t].todo))
  <1> DEFINE l == term[t]
             o == l.opts
             s == Tail(l.todo)
             name == IF o.name = Absent THEN named ELSE o.name
             used == [o EXCEPT !.conf = "temporary", !.name = name]
             new == [l EXCEPT !.opts = used]
             k == [new EXCEPT !.todo = s]
  <1>1. At(t, Step("run", "telegraf")) BY DEF RunTelegraf
  <1>2. CommandForm(l) /\ l.todo # <<>> /\ Step("run", "telegraf") = Head(l.todo) /\ DOMAIN term = Terminal
    BY <1>1, AtStep
  <1>3. /\ l \in [cmd : Command, todo : Seq(AnyStep), opts : Asked \cup {Absent},
                  dir : Dir \cup {Absent}, vpp : BOOLEAN]
        /\ l.todo \in Seq(AnyStep) /\ Sorted(l.todo)
    BY <1>2 DEF CommandForm
  <1>4. /\ s \in Seq(AnyStep) /\ Sorted(s) /\ Left(l.todo) = {Step("run", "telegraf")} \cup Left(s)
        /\ \A y \in Left(s) : Behind(Step("run", "telegraf"), y)
    BY <1>2, <1>3, TailLeft, TailSorted
  <1>5. /\ l.cmd \in {"start", "restart"} /\ l.opts \in Options /\ l.dir \in Dir
        /\ Verifying \notin Left(l.todo)
    BY <1>1, InStart, RankTable, SMTT(30)
  <1>6. /\ Left(l.todo) \subseteq {Setting} \cup StartSteps(l.opts, l.vpp)
        /\ ~({Asking, Setting} \subseteq Left(l.todo))
        /\ Setting \in Left(l.todo) => l.vpp /\ o.pages >= 0
    BY <1>2, <1>5 DEF CommandForm
  <1>7. /\ o.conf = "none" /\ name # Absent /\ Run(t, "telegraf", name, TRUE)
        /\ GoOnWith(t, [l EXCEPT !.opts.conf = "temporary", !.opts.name = name])
    BY DEF RunTelegraf
  <1>8. name \in Name
    <2>1. o.name \in Name \cup {Absent} BY <1>5 DEF Options
    <2>2. named \in Name \cup {Absent} BY DEF Types, HostTypeOK
    <2> QED BY <2>1, <2>2, <1>7
  <1>9. used \in Options BY <1>5, <1>8 DEF Options
  <1>10. used.service = o.service /\ used.telemetry = o.telemetry /\ used.pages = o.pages
    BY <1>5 DEF Options
  <1>11. [l EXCEPT !.opts.conf = "temporary", !.opts.name = name] = new BY <1>3
  <1>12. /\ new \in [cmd : Command, todo : Seq(AnyStep), opts : Asked \cup {Absent},
                    dir : Dir \cup {Absent}, vpp : BOOLEAN]
         /\ new.cmd = l.cmd /\ new.todo = l.todo /\ new.opts = used /\ new.dir = l.dir
         /\ new.vpp = l.vpp
    BY <1>3, <1>9 DEF Asked
  <1> HIDE DEF new, used, name
  <1>13. Proceed(t, [new EXCEPT !.todo = s]) BY <1>7, <1>11, <1>12 DEF GoOnWith
  <1> HIDE DEF s
  <1>14. term' = [term EXCEPT ![t] = Afterwards(new, s)] /\ last' = Said(new, s)
    <2>1. new \in [cmd : Command, todo : Seq(AnyStep), opts : Asked \cup {Absent},
                   dir : Dir \cup {Absent}, vpp : BOOLEAN]
      BY <1>12
    <2>2. DOMAIN term = Terminal BY <1>2
    <2> QED BY <1>13, <2>1, <2>2, Moves
  <1>15. CommandForm(Afterwards(new, s))
    <2>1. CASE s = <<>> BY <2>1, IdleIsForm DEF Afterwards, IdleForm
    <2>2. CASE s # <<>>
      <3>1. /\ k \in [cmd : Command, todo : Seq(AnyStep), opts : Asked \cup {Absent},
                      dir : Dir \cup {Absent}, vpp : BOOLEAN]
            /\ k.cmd = l.cmd /\ k.todo = s /\ k.opts = used /\ k.dir = l.dir /\ k.vpp = l.vpp
        BY <1>4, <1>12
      <3> HIDE DEF k
      <3>2. StartSteps(used, l.vpp) = StartSteps(l.opts, l.vpp) BY <1>10, SameSteps
      <3>3. Left(s) \subseteq {Setting} \cup StartSteps(used, l.vpp) BY <3>2, <1>4, <1>6
      <3>4. ~({Asking, Setting} \subseteq Left(s)) /\ Verifying \notin Left(s)
        BY <1>4, <1>5, <1>6
      <3>5. {Noting, Step("run", "telegraf")} \cap Left(s) = {} BY <1>4, RankTable, SMTT(30) DEF Behind
      <3>8. Setting \in Left(s) => l.vpp /\ used.pages >= 0 BY <1>4, <1>6, <1>10
      <3>6. CommandForm(k) BY <1>4, <1>5, <1>9, <2>2, <3>8, <3>1, <3>3, <3>4, <3>5 DEF CommandForm
      <3>7. Afterwards(new, s) = k BY <2>2 DEF Afterwards, k
      <3> QED BY <3>6, <3>7
    <2> QED BY <2>1, <2>2
  <1>16. new = [l EXCEPT !.opts = new.opts] BY <1>12 DEF new
  <1>17. new.opts = [l.opts EXCEPT !.conf = "temporary", !.name = name] BY <1>12 DEF used
  <1>18. name = IF l.opts.name = Absent THEN named ELSE l.opts.name BY DEF name
  <1>19. new.opts \in Options BY <1>9, <1>12
  <1> HIDE DEF k
  <1> QED BY <1>7, <1>8, <1>14, <1>15, <1>16, <1>17, <1>18, <1>19 DEF s

(* The steps of a start keep the types. *)
LEMMA StartStepTyped ==
    ASSUME NEW t \in Terminal, Types, StartStep(t)
    PROVE  Types'
  <1> DEFINE l == term[t]
  <1>1. RestTyped /\ Forms /\ last \in Ending \cup {Absent} BY TypesAre
  <1>2. CASE Verify(t)
    <2>1. At(t, Verifying) /\ UNCHANGED <<disk, named, saved, docker, volumes, pages, day0, commands>>
      BY <1>2 DEF Verify, Verifying
    <2>2. CommandForm(l) /\ l.todo # <<>> /\ Verifying = Head(l.todo) BY <2>1, AtStep
    <2>3. TermTyped
      <3>1. CASE ReturnError(t) BY <2>1, <3>1, ErrorTyped
      <3>2. CASE ~ReturnError(t)
        <4>1. PICK vpp \in BOOLEAN :
                  /\ term' = [term EXCEPT ![t] = Afterwards([l EXCEPT !.vpp = vpp], Starting(l.opts, vpp))]
                  /\ last' = last
          BY <1>2, <3>2, VerifyMoves
        <4>2. CommandForm(Afterwards([l EXCEPT !.vpp = vpp], Starting(l.opts, vpp)))
          BY <2>2, VerifyForm
        <4>3. Forms' BY <1>1, <4>1, <4>2, NewForm
        <4> QED BY <1>1, <4>1, <4>3 DEF TermTyped
      <3> QED BY <3>1, <3>2
    <2>4. RestTyped' BY <1>1, <2>1 DEF RestTyped
    <2> QED BY <2>3, <2>4, TypesAreNext
  <1>3. CASE NotInstalled(t)
    <2>1. TermTyped BY <1>3, ErrorTyped DEF NotInstalled
    <2>2. RestTyped' BY <1>1, <1>3 DEF NotInstalled, RestTyped
    <2> QED BY <2>1, <2>2, TypesAreNext
  <1>4. CASE ReadPages(t)
    <2>1. At(t, Asking) /\ UNCHANGED <<disk, named, saved, docker, volumes, pages, day0, commands>>
      BY <1>4 DEF ReadPages, Asking
    <2>2. TermTyped
      <3>1. CASE pages < l.opts.pages
        <4>1. PICK s \in Seq(AnyStep) :
                  /\ CommandForm(Afterwards(l, s))
                  /\ term' = [term EXCEPT ![t] = Afterwards(l, s)] /\ last' = last
          BY <1>4, <2>1, <3>1, PagesMoves
        <4>2. Forms' BY <1>1, <4>1, NewForm
        <4> QED BY <1>1, <4>1, <4>2 DEF TermTyped
      <3>2. CASE ~(pages < l.opts.pages) BY <1>4, <2>1, <3>2, GoOnTyped DEF ReadPages
      <3> QED BY <3>1, <3>2
    <2>3. RestTyped' BY <1>1, <2>1 DEF RestTyped
    <2> QED BY <2>2, <2>3, TypesAreNext
  <1>5. CASE WritePages(t)
    <2>1. TermTyped BY <1>5, GoOnTyped, ErrorTyped DEF WritePages
    <2>2. At(t, Setting) BY <1>5 DEF WritePages, Setting
    <2>3. CommandForm(l) /\ Setting \in Left(l.todo) /\ l.opts \in Options
          /\ l.cmd \in {"start", "restart"} /\ Verifying \notin Left(l.todo)
      <3>1. Rank(Setting) = 19 BY RankTable
      <3>2. CommandForm(l) /\ l.todo # <<>> /\ Setting = Head(l.todo) BY <2>2, AtStep
      <3>3. Setting \in Left(l.todo) BY <3>2, Doing
      <3>4. /\ l.opts \in Options /\ l.cmd \in {"start", "restart"}
            /\ Verifying \notin Left(l.todo)
        BY <2>2, <3>1, InStart
      <3> QED BY <3>2, <3>3, <3>4
    <2>4. l.opts.pages \in 0..MaxPages /\ pages \in 0..MaxPages
      <3>1. l.opts.pages >= 0 BY <2>3 DEF CommandForm
      <3>2. l.opts.pages \in Unchecked..MaxPages /\ pages \in 0..MaxPages
        BY <2>3, <1>1 DEF Options, RestTyped
      <3> QED BY <3>1, <3>2, BoundAssumption DEF Unchecked
    <2>5. pages' \in 0..MaxPages BY <1>5, <2>4, BoundAssumption DEF WritePages
    <2>6. RestTyped' BY <1>1, <1>5, <2>5 DEF WritePages, RestTyped
    <2> QED BY <2>1, <2>6, TypesAreNext
  <1>6. CASE SaveRestartOpts(t)
    <2>1. TermTyped BY <1>6, GoOnTyped DEF SaveRestartOpts
    <2>2. At(t, Noting) BY <1>6 DEF SaveRestartOpts, Noting
    <2>3. CommandForm(l) /\ Noting \in Left(l.todo) /\ l.opts \in Options /\ l.dir \in Dir
          /\ l.cmd \in {"start", "restart"} /\ Verifying \notin Left(l.todo)
      BY <2>2, AtStep, InStart, Doing, RankTable, SMTT(30)
    <2>4. l.opts.conf = "none" BY <2>3 DEF CommandForm
    <2>5. saved' \in Saved /\ saved'.opts = l.opts BY <1>6, <2>3 DEF SaveRestartOpts, Saved
    <2>6. RestTyped' BY <1>1, <1>6, <2>4, <2>5 DEF SaveRestartOpts, RestTyped
    <2> QED BY <2>1, <2>6, TypesAreNext
  <1>7. ASSUME NEW c \in {"server", "healthcheck"}, RunServerOrHealthcheck(t, c) PROVE Types'
    <2>1. TermTyped BY <1>7, GoOnTyped DEF RunServerOrHealthcheck
    <2>2. At(t, Step("run", c)) /\ Rank(Step("run", c)) \in {21, 28} /\ c \in Container
      BY <1>7, RankTable DEF RunServerOrHealthcheck, Container
    <2>3. l.opts \in Options /\ l.dir \in Dir BY <2>2, InStart
    <2>4. disk[l.dir]["secrets"] \in Name \cup {Absent} BY <1>1, <2>3 DEF RestTyped
    <2>5. Run(t, c, disk[l.dir]["secrets"], TRUE) BY <1>7 DEF RunServerOrHealthcheck
    <2>6. /\ docker' \in [Container -> Instance \cup {Absent}]
          /\ volumes' \subseteq {"telegraf", "vpp"}
      BY <2>2, <2>3, <2>4, <2>5, RunTyped
    <2>7. RestTyped' BY <1>1, <1>7, <2>6 DEF RunServerOrHealthcheck, RestTyped
    <2> QED BY <2>1, <2>7, TypesAreNext
  <1>8. CASE RunVpp(t)
    <2>1. TermTyped BY <1>8, GoOnTyped DEF RunVpp
    <2>2. At(t, Step("run", "vpp")) /\ Rank(Step("run", "vpp")) = 23 /\ "vpp" \in Container
      BY <1>8, RankTable DEF RunVpp, Container
    <2>3. l.opts \in Options /\ l.dir \in Dir BY <2>2, InStart
    <2>5. Run(t, "vpp", Absent, TRUE) BY <1>8 DEF RunVpp
    <2>6. /\ docker' \in [Container -> Instance \cup {Absent}]
          /\ volumes' \subseteq {"telegraf", "vpp"}
      BY <2>2, <2>3, <2>5, RunTyped
    <2>7. RestTyped' BY <1>1, <1>8, <2>6, BoundAssumption DEF RunVpp, RestTyped
    <2> QED BY <2>1, <2>7, TypesAreNext
  <1>9. CASE RunTelegraf(t)
    <2>2. At(t, Step("run", "telegraf")) /\ Rank(Step("run", "telegraf")) = 27 /\ "telegraf" \in Container
      BY <1>9, RankTable DEF RunTelegraf, Container
    <2>3. l.opts \in Options /\ l.dir \in Dir BY <2>2, InStart
    <2>4. CASE ReturnError(t)
      <3>1. TermTyped BY <2>2, <2>4, ErrorTyped
      <3>3. /\ docker' \in [Container -> Instance \cup {Absent}]
            /\ volumes' \subseteq {"telegraf", "vpp"}
        <4>1. CASE UNCHANGED <<docker, volumes>> BY <1>1, <4>1 DEF RestTyped
        <4>2. CASE \E name \in Name \cup {Absent} : Run(t, "telegraf", name, TRUE)
          BY <2>2, <2>3, <4>2, RunTyped
        <4>3. (IF l.opts.name = Absent THEN named ELSE l.opts.name) \in Name \cup {Absent}
          BY <1>1, <2>3 DEF Options, RestTyped
        <4> QED BY <1>9, <4>1, <4>2, <4>3 DEF RunTelegraf
      <3>4. RestTyped' BY <1>1, <1>9, <3>3 DEF RunTelegraf, RestTyped
      <3> QED BY <3>1, <3>4, TypesAreNext
    <2>5. CASE ~ReturnError(t)
      <3>1. PICK name \in Name : \E new :
                /\ Run(t, "telegraf", name, TRUE)
                /\ CommandForm(Afterwards(new, Tail(l.todo)))
                /\ new = [l EXCEPT !.opts = new.opts] /\ new.opts \in Options
                /\ term' = [term EXCEPT ![t] = Afterwards(new, Tail(l.todo))]
                /\ last' = Said(new, Tail(l.todo))
        BY <1>9, <2>5, TelegrafMoves
      <3>2. PICK new :
                /\ CommandForm(Afterwards(new, Tail(l.todo)))
                /\ new = [l EXCEPT !.opts = new.opts] /\ new.opts \in Options
                /\ term' = [term EXCEPT ![t] = Afterwards(new, Tail(l.todo))]
                /\ last' = Said(new, Tail(l.todo))
        BY <3>1
      <3>3. /\ docker' \in [Container -> Instance \cup {Absent}]
            /\ volumes' \subseteq {"telegraf", "vpp"}
        BY <2>2, <2>3, <3>1, RunTyped
      <3>4. RestTyped' BY <1>1, <1>9, <3>3 DEF RunTelegraf, RestTyped
      <3>5. Forms' BY <1>1, <3>2, NewForm
      <3>6. last' \in Ending \cup {Absent}
        <4>1. l.cmd \in {"start", "restart"} /\ l.vpp \in BOOLEAN BY <2>2, InStart
        <4>2. DOMAIN l = {"cmd", "todo", "opts", "dir", "vpp"} BY <2>2, AtStep DEF CommandForm
        <4>3. new.cmd = l.cmd /\ new.vpp = l.vpp BY <3>2, <4>2
        <4>4. [cmd |-> new.cmd, opts |-> new.opts, vpp |-> new.vpp, ok |-> TRUE] \in Ending
          BY <3>2, <4>1, <4>3 DEF Ending, Asked
        <4> QED BY <1>1, <3>2, <4>4 DEF Said
      <3>7. TermTyped BY <3>5, <3>6 DEF TermTyped
      <3> QED BY <3>4, <3>7, TypesAreNext, SMTT(30)
    <2> QED BY <2>4, <2>5
  <1>10. ASSUME NEW c \in Container, RunFails(t, c) PROVE Types'
    <2>1. TermTyped BY <1>10, ErrorTyped DEF RunFails
    <2>2. At(t, Step("run", c)) /\ Rank(Step("run", c)) \in {21, 23, 27, 28}
      BY <1>10, RankTable DEF RunFails, Container
    <2>3. l.opts \in Options /\ l.dir \in Dir BY <2>2, InStart
    <2>4. CASE UNCHANGED <<docker, volumes, day0>>
      BY <1>1, <1>10, <2>1, <2>4, TypesAreNext DEF RunFails, RestTyped
    <2>5. CASE Run(t, c, Absent, FALSE) /\ day0' = IF c = "vpp" THEN 0 ELSE day0
      <3>1. /\ docker' \in [Container -> Instance \cup {Absent}]
            /\ volumes' \subseteq {"telegraf", "vpp"}
        BY <2>3, <2>5, RunTyped
      <3>2. RestTyped' BY <1>1, <1>10, <2>5, <3>1, BoundAssumption DEF RunFails, RestTyped
      <3> QED BY <2>1, <3>2, TypesAreNext
    <2> QED BY <1>10, <2>4, <2>5 DEF RunFails
  <1>11. ASSUME NEW v \in {"telegraf", "vpp"}, CreateVolume(t, v) PROVE Types'
    <2>1. TermTyped BY <1>11, GoOnTyped, ErrorTyped DEF CreateVolume
    <2>2. RestTyped' BY <1>1, <1>11 DEF CreateVolume, RestTyped
    <2> QED BY <2>1, <2>2, TypesAreNext
  <1>12. CASE ConnectVpp(t)
    <2>1. TermTyped BY <1>12, GoOnTyped, ErrorTyped DEF ConnectVpp
    <2>2. RestTyped' BY <1>1, <1>12 DEF ConnectVpp, RestTyped
    <2> QED BY <2>1, <2>2, TypesAreNext
  <1>13. CASE ApplyLine(t)
    <2>1. TermTyped BY <1>13, GoOnTyped, ErrorTyped DEF ApplyLine
    <2>2. day0' \in 0..Lines BY <1>1, <1>13, BoundAssumption DEF ApplyLine, RestTyped
    <2>3. RestTyped' BY <1>1, <1>13, <2>2 DEF ApplyLine, RestTyped
    <2> QED BY <2>1, <2>3, TypesAreNext
  <1>14. CASE ReadPagesFails(t)
    <2>1. TermTyped BY <1>14, ErrorTyped DEF ReadPagesFails
    <2>2. RestTyped' BY <1>1, <1>14 DEF ReadPagesFails, RestTyped
    <2> QED BY <2>1, <2>2, TypesAreNext
  <1>15. CASE SaveRestartOptsFails(t)
    <2>1. TermTyped BY <1>15, ErrorTyped DEF SaveRestartOptsFails
    <2>2. RestTyped' BY <1>1, <1>15 DEF SaveRestartOptsFails, RestTyped
    <2> QED BY <2>1, <2>2, TypesAreNext
  <1>16. CASE ScanFails(t)
    <2>1. TermTyped BY <1>16, ScanTyped
    <2>2. RestTyped' BY <1>1, <1>16 DEF ScanFails, RestTyped
    <2> QED BY <2>1, <2>2, TypesAreNext
  <1> QED BY <1>2, <1>3, <1>4, <1>5, <1>6, <1>7, <1>8, <1>9, <1>10, <1>11, <1>12, <1>13, <1>14, <1>15,
             <1>16
      DEF StartStep

(* The types hold at first and are kept by every step. *)
LEMMA TypesInit ==
    ASSUME HostInit
    PROVE  Types
  <1>1. Forms BY IdleIsForm DEF HostInit, Forms, IdleForm
  <1>2. RestTyped BY BoundAssumption DEF HostInit, RestTyped, Content, Kind
  <1> QED BY <1>1, <1>2, TypesAre DEF HostInit

LEMMA TypesStep ==
    ASSUME Types, HostNext
    PROVE  Types'
  <1>1. RestTyped BY TypesAre
  <1>2. CASE Typed BY <1>2, CommandsBegin, BeginTyped
  <1>3. ASSUME NEW t \in Terminal, Interrupt(t) PROVE Types'
    <2>1. Forms' BY <1>3, IdleIsForm, NewForm DEF Interrupt, IdleForm, Types
    <2>2. TermTyped BY <1>3, <2>1, TypesAre DEF Interrupt, TermTyped
    <2>3. RestTyped' BY <1>1, <1>3 DEF Interrupt, RestTyped
    <2> QED BY <2>2, <2>3, TypesAreNext
  <1>4. ASSUME NEW d \in Dir, NEW k \in Kind, RemoveFile(d, k) PROVE Types'
    <2>1. TermTyped BY <1>4, StillTyped DEF RemoveFile
    <2>2. disk' \in [Dir -> [Kind -> Content]]
      BY <1>1, <1>4 DEF RemoveFile, RestTyped, Content
    <2>3. \A e \in Dir : disk'[e]["secrets"] \in Name \cup {Absent}
      BY <1>1, <1>4 DEF RemoveFile, RestTyped, Kind
    <2>4. RestTyped' BY <1>1, <1>4, <2>2, <2>3 DEF RemoveFile, RestTyped
    <2> QED BY <2>1, <2>4, TypesAreNext
  <1>5. ASSUME NEW c \in Container, Exit(c) PROVE Types'
    <2>1. TermTyped BY <1>5, StillTyped DEF Exit
    <2>2. docker' \in [Container -> Instance \cup {Absent}]
      BY <1>1, <1>5, ZenonT(40) DEF Exit, IsUp, RestTyped, Instance
    <2>3. RestTyped' BY <1>1, <1>5, <2>2 DEF Exit, RestTyped
    <2> QED BY <2>1, <2>3, TypesAreNext
  <1> QED BY <1>2, <1>3, <1>4, <1>5, InitStepTyped, StartStepTyped, StopStepTyped DEF HostNext

-----------------------------------------------------------------------------
(* Commands that would be in each other's way. *)

(* A command in terminal t takes a step, or ends. *)
OwnMove(t) ==
    /\ term[t].cmd # "none"
    /\ \E k : /\ term' = [term EXCEPT ![t] = k]
              /\ k = Idle \/ k.cmd = term[t].cmd
              /\ last' = last \/ (k = Idle /\ last'.cmd = term[t].cmd)

(* What a step does to its own terminal: the command goes on, ends or fails. *)
LEMMA AfterMoves ==
    ASSUME NEW t \in Terminal, NEW new, NEW s, term[t].cmd # "none", new.cmd = term[t].cmd,
           new \in [cmd : Command, todo : Seq(AnyStep), opts : Asked \cup {Absent},
                    dir : Dir \cup {Absent}, vpp : BOOLEAN],
           term' = [term EXCEPT ![t] = Afterwards(new, s)], last' = Said(new, s)
    PROVE  OwnMove(t)
  <1> DEFINE k == Afterwards(new, s)
  <1>1. CASE s = <<>>
    <2>1. k = Idle /\ last'.cmd = term[t].cmd BY <1>1 DEF Afterwards, Said
    <2> HIDE DEF k
    <2> QED BY <2>1 DEF OwnMove, k
  <1>2. CASE s # <<>>
    <2>1. k = [new EXCEPT !.todo = s] /\ last' = last BY <1>2 DEF Afterwards, Said
    <2>2. k.cmd = term[t].cmd BY <2>1
    <2> HIDE DEF k
    <2> QED BY <2>1, <2>2 DEF OwnMove, k
  <1> QED BY <1>1, <1>2

LEMMA GoOnMoves ==
    ASSUME NEW t \in Terminal, NEW x, Types, At(t, x), GoOn(t)
    PROVE  OwnMove(t)
  <1> DEFINE l == term[t]
             s == Tail(l.todo)
  <1>1. CommandForm(l) /\ l.todo # <<>> /\ DOMAIN term = Terminal /\ x = Head(l.todo) BY AtStep
  <1>2. term' = [term EXCEPT ![t] = Afterwards(l, s)] /\ last' = Said(l, s) BY <1>1, GoesOn
  <1>3. l.cmd # "none" BY <1>1, Doing
  <1>4. l \in [cmd : Command, todo : Seq(AnyStep), opts : Asked \cup {Absent},
               dir : Dir \cup {Absent}, vpp : BOOLEAN]
    BY <1>1 DEF CommandForm
  <1> HIDE DEF s
  <1> QED BY <1>2, <1>3, <1>4, AfterMoves

LEMMA ErrorMoves ==
    ASSUME NEW t \in Terminal, NEW x, Types, At(t, x), ReturnError(t)
    PROVE  OwnMove(t)
  <1>1. CommandForm(term[t]) /\ term[t].todo # <<>> /\ x = Head(term[t].todo) BY AtStep
  <1>2. term[t].cmd # "none" BY <1>1, Doing
  <1>3. term' = [term EXCEPT ![t] = Idle] /\ last'.cmd = term[t].cmd BY DEF ReturnError
  <1> QED BY <1>2, <1>3 DEF OwnMove

LEMMA StepMoves ==
    ASSUME NEW t \in Terminal, Types, InitStep(t) \/ StartStep(t) \/ StopStep(t)
    PROVE  OwnMove(t)
  <1> DEFINE l == term[t]
  <1>1. CASE InitStep(t)
    BY <1>1, GoOnMoves, ErrorMoves DEF InitStep, Check, SaveEgvpnConfig, SaveEgvpnConfigFails,
           Write, WriteFails
  <1>2. CASE StopStep(t)
    BY <1>2, GoOnMoves DEF StopStep, StopContainer, RemoveContainer, RemoveVolume
  <1>3. CASE Verify(t)
    <2>1. At(t, Verifying) BY <1>3 DEF Verify, Verifying
    <2>2. CommandForm(l) /\ l.todo # <<>> /\ Verifying = Head(l.todo) BY <2>1, AtStep
    <2>3. CASE ReturnError(t) BY <2>1, <2>3, ErrorMoves
    <2>4. CASE ~ReturnError(t)
      <3>1. PICK vpp \in BOOLEAN :
                  /\ term' = [term EXCEPT ![t] = Afterwards([l EXCEPT !.vpp = vpp], Starting(l.opts, vpp))]
                  /\ last' = last /\ Starting(l.opts, vpp) # <<>>
        BY <1>3, <2>4, VerifyMoves
      <3> DEFINE new == [l EXCEPT !.vpp = vpp]
                 s == Starting(l.opts, vpp)
      <3>2. l \in [cmd : Command, todo : Seq(AnyStep), opts : Asked \cup {Absent},
                   dir : Dir \cup {Absent}, vpp : BOOLEAN]
        BY <2>2 DEF CommandForm
      <3>3. /\ new \in [cmd : Command, todo : Seq(AnyStep), opts : Asked \cup {Absent},
                        dir : Dir \cup {Absent}, vpp : BOOLEAN]
            /\ new.cmd = l.cmd
        BY <3>2
      <3>4. l.cmd # "none" BY <2>2, Doing
      <3>5. last' = Said(new, s) BY <3>1 DEF Said
      <3> HIDE DEF new, s
      <3> QED BY <3>1, <3>3, <3>4, <3>5, AfterMoves DEF new, s
    <2> QED BY <2>3, <2>4
  <1>4. CASE ReadPages(t)
    <2>1. At(t, Asking) BY <1>4 DEF ReadPages, Asking
    <2>2. CASE pages < l.opts.pages
      <3>1. PICK s \in Seq(AnyStep) :
                  s # <<>> /\ term' = [term EXCEPT ![t] = Afterwards(l, s)] /\ last' = last
        BY <1>4, <2>1, <2>2, PagesMoves
      <3>2. CommandForm(l) /\ l.todo # <<>> /\ Asking = Head(l.todo) BY <2>1, AtStep
      <3>3. l \in [cmd : Command, todo : Seq(AnyStep), opts : Asked \cup {Absent},
                   dir : Dir \cup {Absent}, vpp : BOOLEAN]
        BY <3>2 DEF CommandForm
      <3>4. l.cmd # "none" BY <3>2, Doing
      <3>5. last' = Said(l, s) BY <3>1 DEF Said
      <3> QED BY <3>1, <3>3, <3>4, <3>5, AfterMoves
    <2>3. CASE ~(pages < l.opts.pages) BY <1>4, <2>1, <2>3, GoOnMoves DEF ReadPages
    <2> QED BY <2>2, <2>3
  <1>5. CASE RunTelegraf(t)
    <2>1. At(t, Step("run", "telegraf")) BY <1>5 DEF RunTelegraf
    <2>2. CASE ReturnError(t) BY <2>1, <2>2, ErrorMoves
    <2>3. CASE ~ReturnError(t)
      <3>1. PICK new :
                /\ new = [l EXCEPT !.opts = new.opts] /\ new.opts \in Options
                /\ term' = [term EXCEPT ![t] = Afterwards(new, Tail(l.todo))]
                /\ last' = Said(new, Tail(l.todo))
        BY <1>5, <2>3, TelegrafMoves
      <3>2. CommandForm(l) /\ l.todo # <<>> /\ Step("run", "telegraf") = Head(l.todo)
        BY <2>1, AtStep
      <3>3. l \in [cmd : Command, todo : Seq(AnyStep), opts : Asked \cup {Absent},
                   dir : Dir \cup {Absent}, vpp : BOOLEAN]
        BY <3>2 DEF CommandForm
      <3>4. /\ new \in [cmd : Command, todo : Seq(AnyStep), opts : Asked \cup {Absent},
                        dir : Dir \cup {Absent}, vpp : BOOLEAN]
            /\ new.cmd = l.cmd
        BY <3>1, <3>3 DEF Asked
      <3>5. l.cmd # "none" BY <3>2, Doing
      <3> QED BY <3>1, <3>4, <3>5, AfterMoves
    <2> QED BY <2>2, <2>3
  <1>6. CASE ScanFails(t)
    <2>1. PICK s : /\ At(t, Line) /\ term' = [term EXCEPT ![t] = Afterwards(l, s)]
                   /\ last' = Said(l, s)
      BY <1>6, ScanMoves
    <2>2. CommandForm(l) /\ l.todo # <<>> /\ Line = Head(l.todo) BY <2>1, AtStep
    <2>3. l \in [cmd : Command, todo : Seq(AnyStep), opts : Asked \cup {Absent},
                 dir : Dir \cup {Absent}, vpp : BOOLEAN]
      BY <2>2 DEF CommandForm
    <2>4. l.cmd # "none" BY <2>2, Doing
    <2> HIDE DEF l
    <2> QED BY <2>1, <2>3, <2>4, AfterMoves DEF l
  <1>7. CASE StartStep(t) /\ ~Verify(t) /\ ~ReadPages(t) /\ ~RunTelegraf(t) /\ ~ScanFails(t)
    BY <1>7, GoOnMoves, ErrorMoves
    DEF StartStep, NotInstalled, ReadPagesFails, WritePages, SaveRestartOpts,
        SaveRestartOptsFails, RunServerOrHealthcheck, RunVpp, RunFails, CreateVolume, ConnectVpp,
        ApplyLine
  <1> QED BY <1>1, <1>2, <1>3, <1>4, <1>5, <1>6, <1>7

(* Two commands in each other's way are recorded when the second begins. *)
LEMMA AloneStep ==
    ASSUME Types, Alone, HostNext
    PROVE  Alone'
  <1>1. causes \subseteq causes' BY CausesGrow
  <1>2. DOMAIN term = Terminal BY DEF Types, Forms
  <1>3. \A k : Runs(k) => k.cmd # "init" /\ k.cmd # "none" BY DEF Runs
  <1>4. ~Runs(Idle) /\ Idle.cmd = "none" BY DEF Runs, Idle
  <1>5. Alone' <=>
          /\ "two-runs" \notin causes' =>
                \A t, u \in Terminal : Runs(term'[t]) /\ Runs(term'[u]) => t = u
          /\ "two-inits" \notin causes' =>
                \A t, u \in Terminal : term'[t].cmd = "init" /\ term'[u].cmd = "init" => t = u
          /\ "two-runs" \notin causes' /\ last' # Absent /\ last'.cmd # "init" =>
                \A t \in Terminal : ~Runs(term'[t])
    BY DEF Alone, Unless, Runs
  <1>6. /\ "two-runs" \notin causes =>
              \A t, u \in Terminal : Runs(term[t]) /\ Runs(term[u]) => t = u
        /\ "two-inits" \notin causes =>
              \A t, u \in Terminal : term[t].cmd = "init" /\ term[u].cmd = "init" => t = u
        /\ "two-runs" \notin causes /\ last # Absent /\ last.cmd # "init" =>
              \A t \in Terminal : ~Runs(term[t])
    BY DEF Alone, Unless
  <1>7. ASSUME NEW t \in Terminal, NEW k, NEW why, Beginning(t, k, why) PROVE Alone'
    <2>1. term' = [term EXCEPT ![t] = k] /\ last' = Absent /\ CommandForm(k) /\ k.cmd # "none"
      BY <1>7 DEF Beginning
    <2> DEFINE others == {term[u].cmd : u \in Terminal \ {t}} \ {"none"}
    <2>2. /\ k.cmd = "init" /\ "init" \in others => "two-inits" \in causes'
          /\ k.cmd # "init" /\ others \ {"init"} # {} => "two-runs" \in causes'
      BY <1>7 DEF Beginning, AtOnce, If
    <2>3. ASSUME "two-runs" \notin causes', Runs(k), NEW u \in Terminal, u # t
          PROVE  ~Runs(term[u])
      <3>1. others \subseteq {"init"} BY <2>2, <2>3, <1>3
      <3>2. term[u].cmd \in others \/ term[u].cmd = "none" BY <2>3
      <3> QED BY <3>1, <3>2, <1>3
    <2>4. ASSUME "two-inits" \notin causes', k.cmd = "init", NEW u \in Terminal, u # t
          PROVE  term[u].cmd # "init"
      BY <2>2, <2>4
    <2> HIDE DEF others
    <2> QED BY <1>1, <1>2, <1>5, <1>6, <2>1, <2>3, <2>4
  <1>8. ASSUME NEW t \in Terminal, OwnMove(t) PROVE Alone'
    <2>1. PICK k : /\ term' = [term EXCEPT ![t] = k]
                   /\ k = Idle \/ k.cmd = term[t].cmd
                   /\ last' = last \/ (k = Idle /\ last'.cmd = term[t].cmd)
      BY <1>8 DEF OwnMove
    <2>2. Runs(k) => Runs(term[t]) BY <2>1, <1>4 DEF Runs
    <2>3. k.cmd = "init" => term[t].cmd = "init" BY <2>1, <1>4
    <2>4. term[t].cmd # "init" => Runs(term[t])
      <3>1. term[t].cmd \in Command /\ term[t].cmd # "none"
        BY <1>8 DEF OwnMove, Types, Forms, CommandForm
      <3> QED BY <3>1 DEF Command, Runs
    <2>5. \A u \in Terminal : u # t => term'[u] = term[u] BY <2>1, <1>2
    <2>6. term'[t] = k BY <2>1, <1>2
    <2>7. ASSUME "two-runs" \notin causes', last' # Absent, last'.cmd # "init", NEW u \in Terminal
          PROVE  ~Runs(term'[u])
      <3>1. CASE last' = last BY <1>1, <1>6, <2>2, <2>5, <2>6, <2>7, <3>1
      <3>2. CASE k = Idle /\ last'.cmd = term[t].cmd
        <4>1. Runs(term[t]) BY <2>4, <2>7, <3>2
        <4> QED BY <1>1, <1>4, <1>6, <2>5, <2>6, <2>7, <3>2, <4>1
      <3> QED BY <2>1, <3>1, <3>2
    <2> QED BY <1>1, <1>5, <1>6, <2>2, <2>3, <2>5, <2>6, <2>7
  <1>9. CASE Typed BY <1>7, <1>9, CommandsBegin
  <1>10. ASSUME NEW t \in Terminal, Interrupt(t) PROVE Alone'
    <2>1. term[t].cmd # "none" BY <1>10 DEF Interrupt, Types, Forms, CommandForm
    <2>2. OwnMove(t) BY <1>10, <2>1 DEF Interrupt, OwnMove
    <2> QED BY <1>8, <2>2
  <1>11. CASE UNCHANGED <<term, last>> BY <1>1, <1>5, <1>6, <1>11
  <1> QED BY <1>8, <1>9, <1>10, <1>11, StepMoves DEF HostNext, RemoveFile, Exit

-----------------------------------------------------------------------------
(* What a command knows. *)

(* A step of terminal t that returned: the command, its step, and the steps it has left. *)
LEMMA StepsOn ==
    ASSUME NEW t \in Terminal, NEW x, Types, At(t, x), GoOn(t)
    PROVE  \E l, s : /\ l = term[t] /\ s = Tail(l.todo) /\ x = Head(l.todo)
                     /\ CommandForm(l) /\ l.todo # <<>> /\ l.cmd # "none"
                     /\ l.todo \in Seq(AnyStep) /\ s \in Seq(AnyStep)
                     /\ Left(l.todo) = {x} \cup Left(s)
                     /\ \A y \in Left(s) : Behind(x, y)
                     /\ \A y : (Rank(y) \in 1..28 /\ Rank(y) <= Rank(x) /\ y # Line) => y \notin Left(s)
                     /\ term' = [term EXCEPT ![t] = Afterwards(l, s)] /\ last' = Said(l, s)
  <1> PICK l : l = term[t] OBVIOUS
  <1> PICK s : s = Tail(l.todo) OBVIOUS
  <1>1. CommandForm(l) /\ l.todo # <<>> /\ x = Head(l.todo) /\ DOMAIN term = Terminal
    BY AtStep
  <1>2. l.cmd # "none" /\ l.todo \in Seq(AnyStep) /\ Sorted(l.todo) /\ Rank(x) \in 1..28
    BY <1>1, Doing
  <1>3. s \in Seq(AnyStep) /\ Left(l.todo) = {x} \cup Left(s) BY <1>1, <1>2, TailLeft
  <1>4. \A y \in Left(s) : Behind(x, y) BY <1>1, <1>2, TailSorted
  <1>5. term' = [term EXCEPT ![t] = Afterwards(l, s)] /\ last' = Said(l, s)
    BY <1>1, GoesOn
  <1>6. ASSUME NEW y, Rank(y) \in 1..28, Rank(y) <= Rank(x), y # Line PROVE y \notin Left(s)
    <2> SUFFICES ASSUME y \in Left(s) PROVE FALSE OBVIOUS
    <2>1. y \in Left(l.todo) BY <1>3
    <2>2. Rank(x) < Rank(y) \/ (x = Line /\ y = Line) BY <1>4 DEF Behind
    <2>3. Rank(x) < Rank(y) BY <2>2, <1>6
    <2>4. \A m, n \in 1..28 : ~(m < n /\ n <= m) OBVIOUS
    <2> QED BY <2>3, <2>4, <1>2, <1>6
  <1> QED BY <1>1, <1>2, <1>3, <1>4, <1>5, <1>6

(* The command has gone on with what it knows, whatever else is under way. *)
Passes(t, new, s) ==
    /\ term' = [term EXCEPT ![t] = Afterwards(new, s)] /\ last' = Said(new, s)
    /\ new \in [cmd : Command, todo : Seq(AnyStep), opts : Asked \cup {Absent},
                dir : Dir \cup {Absent}, vpp : BOOLEAN]
    /\ new.cmd = term[t].cmd /\ Runs(new)
    /\ (Unless({"two-runs", "docker"}) => StopKnows(new, s))'
    /\ (Unless({"two-runs"}) => StartKnows(new, s))'
    /\ (Unless({"two-runs", "ended", "removed", "unread"}) => UpKnows(new, s))'

(* What a stop knows is passed on if containers it has removed stay away. *)
LEMMA StopKnowsOn ==
    ASSUME NEW l, NEW s, NEW x, Left(l.todo) = {x} \cup Left(s), StopKnows(l, l.todo),
           \A c \in Container :
              Covers(l.opts.service, c) /\ Waiting(l, s, c) =>
                /\ x = Step("stop", c) => ~IsUp(c)'
                /\ x = Step("rm", c) => docker'[c] = Absent
                /\ ~IsUp(c) => ~IsUp(c)'
                /\ docker[c] = Absent => docker'[c] = Absent,
           l.cmd = "stop" => \A v \in {"telegraf", "vpp"} :
                                /\ x = Step("rm-volume", v) => v \notin volumes'
                                /\ v \notin volumes => v \notin volumes'
    PROVE  StopKnows(l, s)'
  <1> SUFFICES ASSUME l.cmd \in {"stop", "restart"}
               PROVE  /\ \A c \in Container : Covers(l.opts.service, c) /\ Waiting(l, s, c) =>
                            /\ Step("stop", c) \notin Left(s) => ~IsUp(c)'
                            /\ Step("rm", c) \notin Left(s) => docker'[c] = Absent
                      /\ l.cmd = "stop" /\ l.opts.service # "healthcheck" =>
                            \A v \in {"telegraf", "vpp"} :
                                Step("rm-volume", v) \notin Left(s) => v \notin volumes'
    BY DEF StopKnows, Waiting, Left, Covers
  <1>1. \A c \in Container : Waiting(l, s, c) => Waiting(l, l.todo, c) BY DEF Waiting
  <1>2. ASSUME NEW c \in Container, Covers(l.opts.service, c), Waiting(l, s, c)
        PROVE  /\ Step("stop", c) \notin Left(s) => ~IsUp(c)'
               /\ Step("rm", c) \notin Left(s) => docker'[c] = Absent
    <2>1. /\ Step("stop", c) \notin Left(l.todo) => ~IsUp(c)
          /\ Step("rm", c) \notin Left(l.todo) => docker[c] = Absent
      BY <1>1, <1>2 DEF StopKnows
    <2> QED BY <2>1, <1>2
  <1>3. ASSUME l.cmd = "stop", l.opts.service # "healthcheck", NEW v \in {"telegraf", "vpp"},
               Step("rm-volume", v) \notin Left(s)
        PROVE  v \notin volumes'
    <2>1. Step("rm-volume", v) \notin Left(l.todo) => v \notin volumes BY <1>3 DEF StopKnows
    <2> QED BY <2>1, <1>3
  <1> QED BY <1>2, <1>3

(* Only the service asked for matters to that. *)
LEMMA StopKnowsSame ==
    ASSUME NEW l, NEW k, NEW s, l.cmd = k.cmd, l.opts.service = k.opts.service, StopKnows(l, s)'
    PROVE  StopKnows(k, s)'
  BY DEF StopKnows, Waiting

(* The steps of a stop pass on what it knows. *)
LEMMA StopStepPasses ==
    ASSUME NEW t \in Terminal, Types, Knowing, StopStep(t)
    PROVE  \E new, s : Passes(t, new, s)
  <1> DEFINE Knew == Unless({"two-runs", "docker"}) => StopKnows(term[t], term[t].todo)
  <1>1. Knew BY DEF Knowing
  <1>2. causes \subseteq causes'
    BY DEF StopStep, StopContainer, RemoveContainer, RemoveVolume, Because
  <1>3. docker \in [Container -> Instance \cup {Absent}] BY DEF Types, HostTypeOK
  <1>4. Absent \notin Instance BY NoneIsAbsent
  <1>5. ASSUME NEW x, At(t, x), GoOn(t), Rank(x) \in 7..16,
               \A l, s : l = term[t] /\ Left(l.todo) = {x} \cup Left(s)
                         /\ "docker" \notin causes' /\ "two-runs" \notin causes'
                         /\ StopKnows(l, l.todo) => StopKnows(l, s)'
        PROVE  \E new, s : Passes(t, new, s)
    <2>1. PICK l, s : /\ l = term[t] /\ s = Tail(l.todo)
                      /\ CommandForm(l) /\ l.todo # <<>> /\ x = Head(l.todo)
                      /\ Left(l.todo) = {x} \cup Left(s)
                      /\ term' = [term EXCEPT ![t] = Afterwards(l, s)] /\ last' = Said(l, s)
      BY <1>5, StepsOn
    <2>3. l.cmd = "restart" => Verifying \in Left(s)
      <3>1. x # Verifying BY <1>5, RankTable
      <3> QED BY <3>1, <1>5, <2>1, InStop
    <2>4. /\ l \in [cmd : Command, todo : Seq(AnyStep), opts : Asked \cup {Absent},
                    dir : Dir \cup {Absent}, vpp : BOOLEAN]
      BY <2>1 DEF CommandForm
    <2>5. l.cmd \in {"stop", "restart"} BY <1>5, <2>1, InStop
    <2>6. StartKnows(l, s)' BY <2>3, <2>5 DEF StartKnows
    <2>7. UpKnows(l, s)' BY <2>3, <2>5 DEF UpKnows
    <2>8. (Unless({"two-runs", "docker"}) => StopKnows(l, s))'
      <3>1. "docker" \notin causes' /\ "two-runs" \notin causes' => StopKnows(l, s)'
        BY <1>1, <1>2, <1>5, <2>1 DEF Unless
      <3>2. Unless({"two-runs", "docker"})' => "docker" \notin causes' /\ "two-runs" \notin causes'
        BY DEF Unless
      <3> QED BY <3>1, <3>2
    <2>9. Runs(l) BY <2>5 DEF Runs
    <2> QED BY <2>1, <2>4, <2>6, <2>7, <2>8, <2>9 DEF Passes
  <1>6. ASSUME NEW c \in Container, StopContainer(t, c) PROVE \E new, s : Passes(t, new, s)
    <2> DEFINE x == Step("stop", c)
    <2>1. At(t, x) /\ GoOn(t) /\ Rank(x) \in 7..16 BY <1>6, RankTable DEF StopContainer, Container
    <2>2. ASSUME NEW l, NEW s, l = term[t], Left(l.todo) = {x} \cup Left(s),
                 "docker" \notin causes', StopKnows(l, l.todo)
          PROVE  StopKnows(l, s)'
      <3>1. docker' = IF docker[c] = Absent THEN docker ELSE [docker EXCEPT ![c].up = FALSE]
        BY <1>6, <2>2 DEF StopContainer, Because
      <3>2. /\ docker'[c] = Absent \/ ~docker'[c].up
            /\ \A d \in Container : d # c => docker'[d] = docker[d]
            /\ docker[c] = Absent => docker'[c] = Absent
        BY <3>1, <1>3, <1>4 DEF Instance
      <3>3. \A d \in Container : x = Step("stop", d) => d = c BY StepsDiffer
      <3>4. \A d \in Container : x # Step("rm", d) BY StepsDiffer
      <3>5. \A v : x # Step("rm-volume", v) BY StepsDiffer
      <3>6. volumes' = volumes BY <1>6 DEF StopContainer
      <3> HIDE DEF x
      <3>7. \A d \in Container :
                /\ x = Step("stop", d) => ~IsUp(d)'
                /\ ~IsUp(d) => ~IsUp(d)'
                /\ docker[d] = Absent => docker'[d] = Absent
        BY <3>2, <3>3 DEF IsUp
      <3> QED BY <2>2, <3>4, <3>5, <3>6, <3>7, StopKnowsOn
    <2> HIDE DEF x
    <2> QED BY <1>5, <2>1, <2>2
  <1>7. ASSUME NEW c \in Container, RemoveContainer(t, c) PROVE \E new, s : Passes(t, new, s)
    <2> DEFINE x == Step("rm", c)
    <2>1. At(t, x) /\ GoOn(t) /\ Rank(x) \in 7..16
      BY <1>7, RankTable DEF RemoveContainer, Container
    <2>2. ASSUME NEW l, NEW s, l = term[t], Left(l.todo) = {x} \cup Left(s),
                 "docker" \notin causes', StopKnows(l, l.todo)
          PROVE  StopKnows(l, s)'
      <3>1. docker' = IF docker[c] # Absent /\ ~docker[c].up
                      THEN [docker EXCEPT ![c] = Absent] ELSE docker
        BY <1>7, <2>2 DEF RemoveContainer, Because
      <3>2. /\ \A d \in Container : d # c => docker'[d] = docker[d]
            /\ ~IsUp(c) => docker'[c] = Absent
            /\ docker[c] = Absent => docker'[c] = Absent
        BY <3>1, <1>3, <1>4 DEF IsUp
      <3>3. \A d \in Container : x = Step("rm", d) => d = c BY StepsDiffer
      <3>4. \A d \in Container : x # Step("stop", d) BY StepsDiffer
      <3>5. \A v : x # Step("rm-volume", v) BY StepsDiffer
      <3>6. volumes' = volumes BY <1>7 DEF RemoveContainer
      <3>7. \A d \in Container :
                /\ ~IsUp(d) => ~IsUp(d)'
                /\ docker[d] = Absent => docker'[d] = Absent
        BY <3>2 DEF IsUp
      <3>8. Covers(l.opts.service, c) /\ Waiting(l, s, c) => ~IsUp(c)
        <4>1. CommandForm(l) /\ l.todo # <<>> /\ x = Head(l.todo) BY <2>1, <2>2, AtStep
        <4>2. Step("stop", c) \notin Left(l.todo)
          <5>1. l.todo \in Seq(AnyStep) /\ Sorted(l.todo) BY <4>1 DEF CommandForm
          <5>2. \A y \in Left(Tail(l.todo)) : Behind(x, y) BY <4>1, <5>1, TailSorted
          <5>3. Left(l.todo) = {x} \cup Left(Tail(l.todo)) BY <4>1, <5>1, TailLeft
          <5>4. ~Behind(x, Step("stop", c)) BY RankTable DEF Behind, Container, x
          <5> QED BY <5>2, <5>3, <5>4, <3>4
        <4>3. l.cmd \in {"stop", "restart"} BY <2>1, <2>2, InStop
        <4>4. Waiting(l, s, c) => Waiting(l, l.todo, c) BY <2>2 DEF Waiting
        <4> QED BY <2>2, <4>2, <4>3, <4>4 DEF StopKnows
      <3> HIDE DEF x
      <3>9. \A d \in Container : Covers(l.opts.service, d) /\ Waiting(l, s, d) =>
                /\ x = Step("stop", d) => ~IsUp(d)'
                /\ x = Step("rm", d) => docker'[d] = Absent
                /\ ~IsUp(d) => ~IsUp(d)'
                /\ docker[d] = Absent => docker'[d] = Absent
        BY <3>2, <3>3, <3>4, <3>7, <3>8
      <3> QED BY <2>2, <3>5, <3>6, <3>9, StopKnowsOn
    <2> HIDE DEF x
    <2> QED BY <1>5, <2>1, <2>2
  <1>8. ASSUME NEW v \in {"telegraf", "vpp"}, RemoveVolume(t, v) PROVE \E new, s : Passes(t, new, s)
    <2> DEFINE x == Step("rm-volume", v)
    <2>1. At(t, x) /\ GoOn(t) /\ Rank(x) \in 7..16 BY <1>8, RankTable DEF RemoveVolume
    <2>2. ASSUME NEW l, NEW s, l = term[t], Left(l.todo) = {x} \cup Left(s),
                 "docker" \notin causes', StopKnows(l, l.todo)
          PROVE  StopKnows(l, s)'
      <3>1. volumes' = IF \E c \in Container : docker[c] # Absent /\ v \in Volumes(c, docker[c])
                       THEN volumes ELSE volumes \ {v}
        BY <1>8, <2>2 DEF RemoveVolume, Because
      <3>2. docker' = docker BY <1>8 DEF RemoveVolume
      <3>3. \A q : x = Step("rm-volume", q) => q = v BY StepsDiffer
      <3>4. \A d \in Container : x # Step("stop", d) /\ x # Step("rm", d) BY StepsDiffer
      <3>5. l.cmd = "stop" => v \notin volumes'
        <4> SUFFICES ASSUME l.cmd = "stop" PROVE v \notin volumes' OBVIOUS
        <4>1. CommandForm(l) /\ l.todo # <<>> /\ x = Head(l.todo) BY <2>1, <2>2, AtStep
        <4>2. l.opts.service \in Service /\ x \in StopSteps(l.opts.service) BY <2>1, <2>2, InStop
        <4>3. l.opts.service # "healthcheck" BY <4>2, StopMembers
        <4>4. \A c \in {"server", "vpp", "telegraf"} : Step("rm", c) \notin Left(l.todo)
          <5>1. l.todo \in Seq(AnyStep) /\ Sorted(l.todo) BY <4>1 DEF CommandForm
          <5>2. \A y \in Left(Tail(l.todo)) : Behind(x, y) BY <4>1, <5>1, TailSorted
          <5>3. Left(l.todo) = {x} \cup Left(Tail(l.todo)) BY <4>1, <5>1, TailLeft
          <5>4. \A c \in {"server", "vpp", "telegraf"} : ~Behind(x, Step("rm", c))
            BY RankTable DEF Behind, x
          <5> QED BY <5>2, <5>3, <5>4, <3>4 DEF Container
        <4>5. \A c \in {"server", "vpp", "telegraf"} : docker[c] = Absent
          BY <2>2, <4>3, <4>4 DEF StopKnows, Covers, Waiting, Container
        <4>6. \A c \in Container : docker[c] # Absent => c = "healthcheck"
          BY <4>5 DEF Container
        <4>7. \A c \in Container : docker[c] # Absent => v \notin Volumes(c, docker[c])
          BY <4>6, VolumesValues
        <4> QED BY <3>1, <4>7
      <3>6. \A q : q \notin volumes => q \notin volumes' BY <3>1
      <3>7. \A d \in Container :
                /\ ~IsUp(d) => ~IsUp(d)'
                /\ docker[d] = Absent => docker'[d] = Absent
        BY <3>2 DEF IsUp
      <3> HIDE DEF x
      <3> QED BY <2>2, <3>3, <3>4, <3>5, <3>6, <3>7, StopKnowsOn
    <2> HIDE DEF x
    <2> QED BY <1>5, <2>1, <2>2
  <1> QED BY <1>6, <1>7, <1>8 DEF StopStep

(* What the steps of a start do to the host when they return. *)
StartEffect(l, x) ==
    /\ disk' = disk /\ volumes \subseteq volumes'
    /\ \A c \in Container :
          IF x = Step("run", c)
          THEN docker'[c] # Absent
               /\ docker'[c].up = (\A k \in Mounted(c) : disk[l.dir][k] # Absent)
          ELSE docker'[c] = docker[c]
    /\ x = Step("run", "vpp") => "vpp" \in volumes' /\ day0' = 0
    /\ x # Step("run", "vpp") /\ x # Line => day0' = day0
    /\ x = Line => day0' = IF day0 < Lines THEN day0 + 1 ELSE day0
    /\ saved' = IF x = Noting THEN [opts |-> l.opts, dir |-> l.dir] ELSE saved
    /\ pages' = IF x = Setting THEN l.opts.pages ELSE pages
    /\ x = Asking => ~(pages < l.opts.pages)

(* The steps a start has left, seen from the one it takes. *)
Ahead(l, x, s) ==
    /\ CommandForm(l) /\ l.todo # <<>> /\ x = Head(l.todo) /\ s = Tail(l.todo)
    /\ l.cmd \in {"start", "restart"} /\ l.opts \in Options /\ l.dir \in Dir
    /\ Verifying \notin Left(l.todo) /\ Rank(x) \in 18..28
    /\ x \in {Setting} \cup StartSteps(l.opts, l.vpp)
    /\ l.todo \in Seq(AnyStep) /\ s \in Seq(AnyStep)
    /\ Left(l.todo) = {x} \cup Left(s)
    /\ \A y : (Rank(y) \in 1..28 /\ Rank(y) <= Rank(x) /\ y # Line) => y \notin Left(s)
    /\ ~({Asking, Setting} \subseteq Left(l.todo))
    /\ Setting \in Left(l.todo) => l.vpp /\ l.opts.pages >= 0

(* What a start has still ahead of it after a step. *)
LEMMA StepsAhead ==
    ASSUME NEW t \in Terminal, NEW x, Types, At(t, x), Rank(x) \in 18..28
    PROVE  Ahead(term[t], x, Tail(term[t].todo))
  <1> PICK l : l = term[t] OBVIOUS
  <1> PICK s : s = Tail(l.todo) OBVIOUS
  <1>1. CommandForm(l) /\ l.todo # <<>> /\ x = Head(l.todo) BY AtStep
  <1>2. /\ l.cmd \in {"start", "restart"} /\ l.opts \in Options /\ l.dir \in Dir
        /\ Verifying \notin Left(l.todo) /\ x \in {Setting} \cup StartSteps(l.opts, l.vpp)
    BY InStart
  <1>3. l.todo \in Seq(AnyStep) /\ Sorted(l.todo) BY <1>1 DEF CommandForm
  <1>4. s \in Seq(AnyStep) /\ Left(l.todo) = {x} \cup Left(s) BY <1>1, <1>3, TailLeft
  <1>5. \A y \in Left(s) : Behind(x, y) BY <1>1, <1>3, TailSorted
  <1>6. ASSUME NEW y, Rank(y) \in 1..28, Rank(y) <= Rank(x), y # Line PROVE y \notin Left(s)
    <2> SUFFICES ASSUME y \in Left(s) PROVE FALSE OBVIOUS
    <2>1. Rank(x) < Rank(y) BY <1>5, <1>6 DEF Behind
    <2>2. \A m \in 18..28, n \in 1..28 : ~(m < n /\ n <= m) OBVIOUS
    <2>3. Rank(x) \in 18..28 /\ Rank(y) \in 1..28 /\ Rank(y) <= Rank(x) BY <1>6
    <2> QED BY <2>1, <2>2, <2>3
  <1>7. /\ ~({Asking, Setting} \subseteq Left(l.todo))
        /\ Setting \in Left(l.todo) => l.vpp /\ l.opts.pages >= 0
    BY <1>1, <1>2 DEF CommandForm
  <1> QED BY <1>1, <1>2, <1>3, <1>4, <1>6, <1>7 DEF Ahead

(* A step of a start passes on what the stop of its restart has brought about, ... *)
LEMMA StartStopKnows ==
    ASSUME NEW l, NEW x, NEW s, Ahead(l, x, s), StartEffect(l, x), StopKnows(l, l.todo)
    PROVE  StopKnows(l, s)'
  <1>1. \A c \in Container : /\ Rank(Step("stop", c)) < 18 /\ Rank(Step("rm", c)) < 18
                             /\ Rank(Step("run", c)) \in 1..28 /\ Step("run", c) # Line
    BY RankTable DEF Container
  <1>2. Left(l.todo) = {x} \cup Left(s) /\ Rank(x) \in 18..28 /\ l.cmd # "stop" BY DEF Ahead
  <1>3. ASSUME NEW c \in Container, Waiting(l, s, c)
        PROVE  docker'[c] = docker[c] /\ x # Step("stop", c) /\ x # Step("rm", c)
    <2>1. Step("run", c) \in Left(s) BY <1>2, <1>3 DEF Waiting, Ahead
    <2>2. x # Step("run", c)
      <3> SUFFICES ASSUME x = Step("run", c) PROVE FALSE OBVIOUS
      <3>1. Step("run", c) \notin Left(s) BY <1>1 DEF Ahead
      <3> QED BY <2>1, <3>1
    <2>3. x # Step("stop", c) /\ x # Step("rm", c) BY <1>1, <1>2
    <2> QED BY <2>2, <2>3 DEF StartEffect
  <1>4. \A c \in Container : Covers(l.opts.service, c) /\ Waiting(l, s, c) =>
                /\ x = Step("stop", c) => ~IsUp(c)'
                /\ x = Step("rm", c) => docker'[c] = Absent
                /\ ~IsUp(c) => ~IsUp(c)'
                /\ docker[c] = Absent => docker'[c] = Absent
    BY <1>3 DEF IsUp
  <1> QED BY <1>2, <1>4, StopKnowsOn

(* ... the options saved and the pages asked for, ... *)
LEMMA StartStartKnows ==
    ASSUME NEW l, NEW x, NEW s, Ahead(l, x, s), StartEffect(l, x), StartKnows(l, l.todo),
           pages \in Nat
    PROVE  StartKnows(l, s)'
  <1>1. /\ Left(l.todo) = {x} \cup Left(s) /\ l.cmd \in {"start", "restart"}
        /\ l.opts.pages \in Unchecked..MaxPages /\ Verifying \notin Left(l.todo)
        /\ ~({Asking, Setting} \subseteq Left(l.todo))
    BY DEF Ahead, Options
  <1>2. /\ Noting \notin Left(l.todo) =>
              saved # Absent /\ saved.dir = l.dir /\ saved.opts.telemetry = l.opts.telemetry
              /\ saved.opts.pages = l.opts.pages
        /\ Setting \in Left(l.todo) => pages < l.opts.pages
        /\ l.vpp /\ {Asking, Setting} \cap Left(l.todo) = {} => l.opts.pages <= pages
    BY <1>1 DEF StartKnows
  <1>3. Noting \notin Left(s) =>
              saved' # Absent /\ saved'.dir = l.dir /\ saved'.opts.telemetry = l.opts.telemetry
              /\ saved'.opts.pages = l.opts.pages
    <2>1. CASE x = Noting
      <3>1. saved' = [opts |-> l.opts, dir |-> l.dir] BY <2>1 DEF StartEffect
      <3>2. saved' \in Saved BY <3>1 DEF Saved, Ahead
      <3> QED BY <3>1, <3>2, NoneIsAbsent
    <2>2. CASE x # Noting BY <2>2, <1>1, <1>2 DEF StartEffect
    <2> QED BY <2>1, <2>2
  <1>4. /\ Setting \notin Left(s) \/ (x # Setting /\ pages' = pages)
        /\ x = Setting => Setting \notin Left(s) /\ Asking \notin Left(s)
        /\ x = Asking => Setting \notin Left(s)
    <2>1. x = Setting => Setting \notin Left(s) /\ Asking \notin Left(s)
      <3>1. /\ Rank(Setting) = 19 /\ Rank(Asking) = 18 /\ Rank(Line) = 25 BY RankTable
      <3>2. Setting # Line /\ Asking # Line BY <3>1
      <3>3. Rank(Setting) \in 1..28 /\ Rank(Asking) \in 1..28 /\ Rank(Setting) <= Rank(Setting)
            /\ Rank(Asking) <= Rank(Setting)
        BY <3>1
      <3> QED BY <3>2, <3>3 DEF Ahead
    <2>2. x = Asking => Setting \notin Left(s) BY <1>1
    <2> QED BY <2>1, <2>2 DEF StartEffect
  <1>5. Setting \in Left(s) => pages' < l.opts.pages BY <1>1, <1>2, <1>4
  <1>6. l.vpp /\ {Asking, Setting} \cap Left(s) = {} => l.opts.pages <= pages'
    <2>1. CASE x = Setting
      <3>1. pages' = l.opts.pages BY <2>1 DEF StartEffect
      <3> QED BY <3>1, <1>1 DEF Unchecked
    <2>2. CASE x = Asking
      <3>1. pages' = pages /\ ~(pages < l.opts.pages) BY <2>2, RankTable DEF StartEffect
      <3> QED BY <3>1, <1>1 DEF Unchecked
    <2>3. CASE x # Asking /\ x # Setting
      <3>1. pages' = pages BY <2>3 DEF StartEffect
      <3> QED BY <3>1, <2>3, <1>1, <1>2
    <2> QED BY <2>1, <2>2, <2>3
  <1> QED BY <1>3, <1>5, <1>6 DEF StartKnows

(* ... and what it has run. *)
LEMMA StartUpKnows ==
    ASSUME NEW l, NEW x, NEW s, Ahead(l, x, s), StartEffect(l, x), UpKnows(l, l.todo),
           day0 \in 0..Lines
    PROVE  UpKnows(l, s)'
  <1>1. /\ Left(l.todo) = {x} \cup Left(s) /\ l.cmd \in {"start", "restart"}
        /\ Verifying \notin Left(l.todo)
        /\ x \in {Setting} \cup StartSteps(l.opts, l.vpp)
        /\ l.todo \in Seq(AnyStep) /\ l.todo # <<>> /\ s = Tail(l.todo) /\ x = Head(l.todo)
    BY DEF Ahead
  <1>2. /\ \A k \in Needed(l.vpp) : disk[l.dir][k] # Absent
        /\ \A c \in ToRun(l.opts, l.vpp) : Step("run", c) \notin Left(l.todo) => IsUp(c)
        /\ "vpp" \in ToRun(l.opts, l.vpp) =>
              /\ Step("run", "vpp") \notin Left(l.todo) => "vpp" \in volumes
              /\ LinesLeft(l.todo, IF Step("run", "vpp") \in Left(l.todo) THEN Lines ELSE Lines - day0)
    BY <1>1 DEF UpKnows
  <1>3. \A k \in Needed(l.vpp) : disk'[l.dir][k] # Absent BY <1>2 DEF StartEffect
  <1>4. ASSUME NEW c \in ToRun(l.opts, l.vpp), Step("run", c) \notin Left(s) PROVE IsUp(c)'
    <2>1. c \in Container /\ (c = "vpp" => l.vpp) BY DEF ToRun
    <2>2. CASE x = Step("run", c)
      <3>1. Mounted(c) \subseteq Needed(l.vpp) BY <2>1, MountedValues DEF Container, Needed
      <3>2. docker'[c] # Absent /\ docker'[c].up = (\A k \in Mounted(c) : disk[l.dir][k] # Absent)
        BY <2>1, <2>2 DEF StartEffect
      <3> QED BY <3>1, <3>2, <1>2 DEF IsUp
    <2>3. CASE x # Step("run", c)
      <3>1. docker'[c] = docker[c] BY <2>1, <2>3 DEF StartEffect
      <3>2. Step("run", c) \notin Left(l.todo) BY <1>1, <1>4, <2>3
      <3> QED BY <3>1, <3>2, <1>2 DEF IsUp
    <2> QED BY <2>2, <2>3
  <1>5. ASSUME "vpp" \in ToRun(l.opts, l.vpp)
        PROVE  /\ Step("run", "vpp") \notin Left(s) => "vpp" \in volumes'
               /\ LinesLeft(s, IF Step("run", "vpp") \in Left(s) THEN Lines ELSE Lines - day0')
    <2>1. Step("run", "vpp") # Line BY RankTable
    <2>2. x = Line \/ x = Step("run", "vpp") => Step("run", "vpp") \notin Left(s)
      <3>1. Rank(Step("run", "vpp")) = 23 /\ Rank(Line) = 25 BY RankTable
      <3>2. Rank(Step("run", "vpp")) \in 1..28 /\ Rank(Step("run", "vpp")) <= Rank(Line)
            /\ Rank(Step("run", "vpp")) <= Rank(Step("run", "vpp"))
        BY <3>1
      <3> QED BY <3>2, <2>1 DEF Ahead
    <2>3. Lines \in Nat /\ Lines - day0 \in Nat BY BoundAssumption
    <2>4. CASE x = Step("run", "vpp")
      <3>1. "vpp" \in volumes' /\ day0' = 0 BY <2>4 DEF StartEffect
      <3>2. LinesLeft(l.todo, Lines) BY <1>1, <1>2, <1>5, <2>4
      <3>3. LinesLeft(s, Lines) BY <3>2, <2>1, <2>3, <2>4, <1>1, TailLines
      <3>4. Lines - day0' = Lines BY <3>1, <2>3
      <3> QED BY <3>1, <3>3, <3>4, <2>2, <2>4
    <2>5. CASE x = Line
      <3>1. Step("run", "vpp") \notin Left(l.todo) /\ Step("run", "vpp") \notin Left(s)
        BY <2>1, <2>2, <2>5, <1>1
      <3>2. LinesLeft(l.todo, Lines - day0) /\ "vpp" \in volumes BY <3>1, <1>2, <1>5
      <3>3. Lines - day0 > 0 /\ LinesLeft(s, (Lines - day0) - 1)
        BY <3>2, <2>3, <2>5, <1>1, TailLines
      <3>4. day0' = day0 + 1 BY <3>3, <2>3, <2>5 DEF StartEffect
      <3>5. (Lines - day0) - 1 = Lines - day0' BY <3>4, <2>3
      <3>6. "vpp" \in volumes' BY <3>2 DEF StartEffect
      <3>7. LinesLeft(s, Lines - day0') BY <3>3, <3>5
      <3> QED BY <3>1, <3>6, <3>7
    <2>6. CASE x # Line /\ x # Step("run", "vpp")
      <3>1. day0' = day0 BY <2>6 DEF StartEffect
      <3>2. Step("run", "vpp") \in Left(l.todo) <=> Step("run", "vpp") \in Left(s) BY <1>1, <2>6
      <3> DEFINE n == IF Step("run", "vpp") \in Left(s) THEN Lines ELSE Lines - day0
      <3>3. LinesLeft(l.todo, n) /\ n \in Nat BY <3>2, <1>2, <1>5, <2>3
      <3>4. n = IF Step("run", "vpp") \in Left(s) THEN Lines ELSE Lines - day0' BY <3>1
      <3> HIDE DEF n
      <3>5. LinesLeft(s, n) BY <3>3, <2>6, <1>1, TailLines
      <3>6. Step("run", "vpp") \notin Left(s) => "vpp" \in volumes'
        BY <3>2, <1>2, <1>5 DEF StartEffect
      <3> QED BY <3>4, <3>5, <3>6
    <2> QED BY <2>4, <2>5, <2>6
  <1> QED BY <1>3, <1>4, <1>5 DEF UpKnows, Needed

(* So a step with such an effect passes on all that is known. *)
LEMMA EffectPasses ==
    ASSUME NEW t \in Terminal, NEW x, Types, Knowing, At(t, x), GoOn(t), Rank(x) \in 18..28,
           NEW l, l = term[t], StartEffect(l, x), causes \subseteq causes'
    PROVE  \E new, s : Passes(t, new, s)
  <1> PICK s : s = Tail(l.todo) OBVIOUS
  <1>1. Ahead(l, x, s) BY StepsAhead
  <1>2. CommandForm(l) /\ l.cmd \in {"start", "restart"} BY <1>1 DEF Ahead
  <1>3. term' = [term EXCEPT ![t] = Afterwards(l, s)] /\ last' = Said(l, s)
    BY <1>2, GoesOn, AtStep
  <1>4. /\ Unless({"two-runs", "docker"}) => StopKnows(l, l.todo)
        /\ Unless({"two-runs"}) => StartKnows(l, l.todo)
        /\ Unless({"two-runs", "ended", "removed", "unread"}) => UpKnows(l, l.todo)
    BY DEF Knowing
  <1>5. \A C : Unless(C)' => Unless(C) BY DEF Unless
  <1>6. pages \in Nat /\ day0 \in 0..Lines BY BoundAssumption DEF Types, HostTypeOK
  <1>7. (Unless({"two-runs", "docker"}) => StopKnows(l, s))'
    <2>1. StopKnows(l, l.todo) => StopKnows(l, s)' BY <1>1, StartStopKnows
    <2> QED BY <1>4, <1>5, <2>1
  <1>8. (Unless({"two-runs"}) => StartKnows(l, s))'
    <2>1. StartKnows(l, l.todo) => StartKnows(l, s)' BY <1>1, <1>6, StartStartKnows
    <2> QED BY <1>4, <1>5, <2>1
  <1>9. (Unless({"two-runs", "ended", "removed", "unread"}) => UpKnows(l, s))'
    <2>1. UpKnows(l, l.todo) => UpKnows(l, s)' BY <1>1, <1>6, StartUpKnows
    <2> QED BY <1>4, <1>5, <2>1
  <1>10. /\ l \in [cmd : Command, todo : Seq(AnyStep), opts : Asked \cup {Absent},
                   dir : Dir \cup {Absent}, vpp : BOOLEAN]
         /\ Runs(l)
    BY <1>2 DEF CommandForm, Runs
  <1> QED BY <1>3, <1>7, <1>8, <1>9, <1>10 DEF Passes

(* The steps of a start one by one, but for those that change what is left to do ... *)
LEMMA PlainStepPasses ==
    ASSUME NEW t \in Terminal, Types, Knowing, StartStep(t), ~ReturnError(t), ~Verify(t),
           ~(ReadPages(t) /\ pages < term[t].opts.pages), ~RunTelegraf(t), ~ScanFails(t)
    PROVE  \E new, s : Passes(t, new, s)
  <1> PICK l : l = term[t] OBVIOUS
  <1>1. docker \in [Container -> Instance \cup {Absent}] BY DEF Types, HostTypeOK
  <1>2. Absent \notin Instance BY NoneIsAbsent, SMTT(30)
  <1>3. causes \subseteq causes'
    BY DEF StartStep, Verify, NotInstalled, ReadPages, ReadPagesFails, WritePages,
           SaveRestartOpts, SaveRestartOptsFails, RunServerOrHealthcheck, RunVpp, RunTelegraf,
           RunFails, CreateVolume, ConnectVpp, ApplyLine, ScanFails, Because
  <1>4. ASSUME NEW x, At(t, x), GoOn(t), Rank(x) \in 18..28, StartEffect(l, x)
        PROVE  \E new, s : Passes(t, new, s)
    BY <1>3, <1>4, EffectPasses
  <1>5. \A c \in Container : /\ Step("run", c) # Asking /\ Step("run", c) # Setting
                             /\ Step("run", c) # Noting /\ Step("run", c) # Line
                             /\ Step("run", c) # Step("connect", "vpp")
                             /\ \A v : Step("run", c) # Step("volume", v)
    BY StepsDiffer DEF Asking, Setting, Noting, Line
  <1>6. CASE ReadPages(t)
    <2>1. At(t, Asking) /\ GoOn(t) /\ ~(pages < l.opts.pages) BY <1>6 DEF ReadPages, Asking
    <2>2. Rank(Asking) \in 18..28 /\ Asking # Line /\ Asking # Setting /\ Asking # Noting
      BY RankTable
    <2>3. StartEffect(l, Asking) BY <1>5, <1>6, <2>1, <2>2 DEF ReadPages, StartEffect, Container
    <2> QED BY <1>4, <2>1, <2>2, <2>3
  <1>7. CASE WritePages(t)
    <2>1. At(t, Setting) /\ GoOn(t) /\ pages' = l.opts.pages BY <1>7 DEF WritePages, Setting
    <2>2. Rank(Setting) \in 18..28 /\ Setting # Line /\ Setting # Asking /\ Setting # Noting
      BY RankTable
    <2>3. StartEffect(l, Setting) BY <1>5, <1>7, <2>1, <2>2 DEF WritePages, StartEffect, Container
    <2> QED BY <1>4, <2>1, <2>2, <2>3
  <1>8. CASE SaveRestartOpts(t)
    <2>1. At(t, Noting) /\ GoOn(t) /\ saved' = [opts |-> l.opts, dir |-> l.dir]
      BY <1>8 DEF SaveRestartOpts, Noting
    <2>2. Rank(Noting) \in 18..28 /\ Noting # Line /\ Noting # Asking /\ Noting # Setting
      BY RankTable
    <2>3. StartEffect(l, Noting)
      BY <1>5, <1>8, <2>1, <2>2 DEF SaveRestartOpts, StartEffect, Container
    <2> QED BY <1>4, <2>1, <2>2, <2>3
  <1>9. ASSUME NEW c \in {"server", "vpp", "healthcheck"}, NEW name \in Name \cup {Absent},
               At(t, Step("run", c)), GoOn(t), Run(t, c, name, TRUE), c = "vpp" => day0' = 0,
               c # "vpp" => day0' = day0, disk' = disk, saved' = saved, pages' = pages
        PROVE  \E new, s : Passes(t, new, s)
    <2> DEFINE x == Step("run", c)
               new == [up |-> \A k \in Mounted(c) : disk[l.dir][k] # Absent, opts |-> l.opts,
                       dir |-> l.dir, vpp |-> l.vpp, name |-> name]
    <2>1. Rank(x) \in 18..28 BY RankTable
    <2>2. /\ x # Line /\ x # Asking /\ x # Setting /\ x # Noting
          /\ \A d \in Container : x = Step("run", d) <=> d = c
      BY <1>5, StepsDiffer DEF Container
    <2>3. docker' = [docker EXCEPT ![c] = new] /\ volumes' = volumes \cup Volumes(c, new)
      BY <1>9 DEF Run
    <2>4. new # Absent
      <3>1. \A i : i = Absent => i \notin {[up |-> b, opts |-> l.opts, dir |-> l.dir, vpp |-> l.vpp,
                                            name |-> name] : b \in BOOLEAN}
        <4>1. /\ l.opts \in Options /\ l.dir \in Dir /\ l.vpp \in BOOLEAN
          BY <1>9, <2>1, InStart DEF x
        <4> QED BY <4>1, <1>2 DEF Instance
      <3> QED BY <3>1
    <2>5. /\ docker'[c] = new /\ \A d \in Container : d # c => docker'[d] = docker[d]
          /\ volumes \subseteq volumes'
      BY <1>1, <2>3 DEF Container
    <2>6. c = "vpp" => "vpp" \in volumes' BY <2>3, VolumesValues
    <2>7. new.up = (\A k \in Mounted(c) : disk[l.dir][k] # Absent) OBVIOUS
    <2>8. x = Step("run", "vpp") <=> c = "vpp" BY StepsDiffer
    <2> HIDE DEF new, x
    <2>9. StartEffect(l, x)
      BY <1>9, <2>2, <2>4, <2>5, <2>6, <2>7, <2>8 DEF StartEffect
    <2> QED BY <1>4, <1>9, <2>1, <2>9 DEF x
  <1>10. ASSUME NEW c \in {"server", "healthcheck"}, RunServerOrHealthcheck(t, c)
         PROVE  \E new, s : Passes(t, new, s)
    <2>1. l.dir \in Dir
      <3>1. Rank(Step("run", c)) \in 18..28 BY RankTable
      <3> QED BY <1>10, <3>1, InStart DEF RunServerOrHealthcheck
    <2>2. disk[l.dir]["secrets"] \in Name \cup {Absent} BY <2>1 DEF Types
    <2> QED BY <1>9, <1>10, <2>2 DEF RunServerOrHealthcheck
  <1>11. CASE RunVpp(t) BY <1>9, <1>11 DEF RunVpp
  <1>12. ASSUME NEW v \in {"telegraf", "vpp"}, CreateVolume(t, v)
         PROVE  \E new, s : Passes(t, new, s)
    <2> DEFINE x == Step("volume", v)
    <2>1. At(t, x) /\ GoOn(t) /\ volumes' = volumes \cup {v} BY <1>12 DEF CreateVolume
    <2>2. Rank(x) \in 18..28 /\ x # Line /\ x # Asking /\ x # Setting /\ x # Noting
      BY RankTable
    <2>3. \A c \in Container : x # Step("run", c) BY <1>5
    <2> HIDE DEF x
    <2>4. StartEffect(l, x) BY <1>12, <2>1, <2>2, <2>3 DEF CreateVolume, StartEffect, Container
    <2> QED BY <1>4, <2>1, <2>2, <2>4
  <1>13. CASE ConnectVpp(t)
    <2> DEFINE x == Step("connect", "vpp")
    <2>1. At(t, x) /\ GoOn(t) BY <1>13 DEF ConnectVpp
    <2>2. Rank(x) \in 18..28 /\ x # Line /\ x # Asking /\ x # Setting /\ x # Noting
      BY RankTable
    <2>3. \A c \in Container : x # Step("run", c) BY <1>5
    <2> HIDE DEF x
    <2>4. StartEffect(l, x) BY <1>13, <2>2, <2>3 DEF ConnectVpp, StartEffect, Container
    <2> QED BY <1>4, <2>1, <2>2, <2>4
  <1>14. CASE ApplyLine(t)
    <2>1. At(t, Line) /\ GoOn(t) /\ day0' = IF day0 < Lines THEN day0 + 1 ELSE day0
      BY <1>14 DEF ApplyLine, Line
    <2>2. Rank(Line) \in 18..28 /\ Line # Asking /\ Line # Setting /\ Line # Noting BY RankTable
    <2>3. StartEffect(l, Line) BY <1>5, <1>14, <2>1, <2>2 DEF ApplyLine, StartEffect, Container
    <2> QED BY <1>4, <2>1, <2>2, <2>3
  <1>15. /\ ~NotInstalled(t) /\ ~ReadPagesFails(t) /\ ~SaveRestartOptsFails(t)
         /\ \A c \in Container : ~RunFails(t, c)
    BY DEF NotInstalled, ReadPagesFails, SaveRestartOptsFails, RunFails
  <1> QED BY <1>6, <1>7, <1>8, <1>10, <1>11, <1>12, <1>13, <1>14, <1>15 DEF StartStep

(* ... and those two: a start with more huge pages to ask for, ... *)
LEMMA PagesStepPasses ==
    ASSUME NEW t \in Terminal, Types, Knowing, ReadPages(t), pages < term[t].opts.pages
    PROVE  \E new, s : Passes(t, new, s)
  <1> PICK l : l = term[t] OBVIOUS
  <1>1. At(t, Asking) BY DEF ReadPages, Asking
  <1>2. Rank(Asking) = 18 BY RankTable
  <1>3. PICK r : r = Tail(l.todo) OBVIOUS
  <1>4. Ahead(l, Asking, r) BY <1>1, <1>2, <1>3, StepsAhead
  <1>5. PICK s \in Seq(AnyStep) :
            /\ s = <<Setting>> \o r /\ s # <<>>
            /\ Left(s) = {Setting} \cup Left(r)
            /\ Asking \notin Left(s)
            /\ term' = [term EXCEPT ![t] = Afterwards(l, s)] /\ last' = last
    BY <1>1, <1>3, PagesMoves
  <1>6. /\ docker' = docker /\ volumes' = volumes /\ pages' = pages /\ saved' = saved
        /\ day0' = day0 /\ disk' = disk /\ causes' = causes
    BY DEF ReadPages
  <1>7. /\ CommandForm(l) /\ l.cmd \in {"start", "restart"} /\ Verifying \notin Left(l.todo)
        /\ Left(l.todo) = {Asking} \cup Left(r) /\ l.todo \in Seq(AnyStep) /\ r \in Seq(AnyStep)
        /\ l.todo # <<>> /\ Head(l.todo) = Asking /\ Tail(l.todo) = r
    BY <1>3, <1>4 DEF Ahead
  <1>8. /\ Unless({"two-runs", "docker"}) => StopKnows(l, l.todo)
        /\ Unless({"two-runs"}) => StartKnows(l, l.todo)
        /\ Unless({"two-runs", "ended", "removed", "unread"}) => UpKnows(l, l.todo)
    BY DEF Knowing
  <1>9. \A C : Unless(C)' => Unless(C) BY <1>6 DEF Unless
  <1>10. /\ Verifying # Setting /\ Verifying # Asking /\ Noting # Asking /\ Noting # Setting
         /\ Line # Asking /\ Line # Setting
         /\ \A c \in Container : /\ Step("run", c) # Setting /\ Step("run", c) # Asking
                                 /\ Step("stop", c) # Setting /\ Step("stop", c) # Asking
                                 /\ Step("rm", c) # Setting /\ Step("rm", c) # Asking
    BY StepsDiffer DEF Verifying, Setting, Asking, Noting, Line
  <1>11. \A y : y # Setting /\ y # Asking => (y \in Left(s) <=> y \in Left(l.todo))
    BY <1>5, <1>7
  <1>12. (Unless({"two-runs", "docker"}) => StopKnows(l, s))'
    <2>1. StopKnows(l, l.todo) => StopKnows(l, s)'
      <3>1. \A c \in Container : Waiting(l, s, c) => Waiting(l, l.todo, c)
        BY <1>10, <1>11 DEF Waiting
      <3>2. l.cmd # "stop" BY <1>7
      <3>3. \A c \in Container : /\ Step("stop", c) \in Left(s) <=> Step("stop", c) \in Left(l.todo)
                                 /\ Step("rm", c) \in Left(s) <=> Step("rm", c) \in Left(l.todo)
        BY <1>10, <1>11
      <3>4. \A c \in Container : IsUp(c)' = IsUp(c) BY <1>6 DEF IsUp
      <3> SUFFICES ASSUME StopKnows(l, l.todo), l.cmd = "restart"
                   PROVE  \A c \in Container : Covers(l.opts.service, c) /\ Waiting(l, s, c) =>
                             /\ Step("stop", c) \notin Left(s) => ~IsUp(c)'
                             /\ Step("rm", c) \notin Left(s) => docker'[c] = Absent
        BY <3>2 DEF StopKnows, Waiting, Left, Covers
      <3>5. \A c \in Container : Covers(l.opts.service, c) /\ Waiting(l, l.todo, c) =>
                             /\ Step("stop", c) \notin Left(l.todo) => ~IsUp(c)
                             /\ Step("rm", c) \notin Left(l.todo) => docker[c] = Absent
        BY DEF StopKnows
      <3> QED BY <3>1, <3>3, <3>4, <3>5, <1>6
    <2> QED BY <1>8, <1>9, <2>1
  <1>13. (Unless({"two-runs"}) => StartKnows(l, s))'
    <2>1. StartKnows(l, l.todo) => StartKnows(l, s)'
      <3> SUFFICES ASSUME StartKnows(l, l.todo)
                   PROVE  /\ Noting \notin Left(s) =>
                                saved # Absent /\ saved.dir = l.dir
                                /\ saved.opts.telemetry = l.opts.telemetry
                                /\ saved.opts.pages = l.opts.pages
                          /\ Setting \in Left(s) => pages < l.opts.pages
                          /\ l.vpp /\ {Asking, Setting} \cap Left(s) = {} => l.opts.pages <= pages
        BY <1>6 DEF StartKnows, Left
      <3>1. Noting \notin Left(s) => Noting \notin Left(l.todo) BY <1>10, <1>11
      <3>2. Setting \in Left(s) BY <1>5
      <3> QED BY <3>1, <3>2, <1>3, <1>7 DEF StartKnows
    <2> QED BY <1>8, <1>9, <2>1
  <1>14. (Unless({"two-runs", "ended", "removed", "unread"}) => UpKnows(l, s))'
    <2>1. UpKnows(l, l.todo) => UpKnows(l, s)'
      <3> SUFFICES ASSUME UpKnows(l, l.todo)
                   PROVE  /\ \A k \in Needed(l.vpp) : disk[l.dir][k] # Absent
                          /\ \A c \in ToRun(l.opts, l.vpp) : Step("run", c) \notin Left(s) => IsUp(c)
                          /\ "vpp" \in ToRun(l.opts, l.vpp) =>
                               /\ Step("run", "vpp") \notin Left(s) => "vpp" \in volumes
                               /\ LinesLeft(s, IF Step("run", "vpp") \in Left(s)
                                               THEN Lines ELSE Lines - day0)
        BY <1>6 DEF UpKnows, IsUp, LinesLeft, Left, Needed, ToRun
      <3>1. /\ \A k \in Needed(l.vpp) : disk[l.dir][k] # Absent
            /\ \A c \in ToRun(l.opts, l.vpp) : Step("run", c) \notin Left(l.todo) => IsUp(c)
            /\ "vpp" \in ToRun(l.opts, l.vpp) =>
                 /\ Step("run", "vpp") \notin Left(l.todo) => "vpp" \in volumes
                 /\ LinesLeft(l.todo, IF Step("run", "vpp") \in Left(l.todo)
                                      THEN Lines ELSE Lines - day0)
        BY <1>7 DEF UpKnows
      <3>2. \A c \in Container : Step("run", c) \in Left(s) <=> Step("run", c) \in Left(l.todo)
        BY <1>10, <1>11
      <3>3. ToRun(l.opts, l.vpp) \subseteq Container BY DEF ToRun
      <3>4. ASSUME "vpp" \in ToRun(l.opts, l.vpp), NEW n \in Nat, LinesLeft(l.todo, n)
            PROVE  LinesLeft(s, n)
        <4>1. LinesLeft(r, n) BY <3>4, <1>7, <1>10, TailLines
        <4>2. Left(<<Setting>>) = {Setting} /\ <<Setting>> \in Seq(AnyStep)
          BY StepsAreSteps, OneStep
        <4> QED BY <4>1, <4>2, <1>5, <1>7, <1>10, ConcatLines
      <3>5. Lines \in Nat /\ Lines - day0 \in Nat BY BoundAssumption DEF Types, HostTypeOK
      <3> QED BY <3>1, <3>2, <3>3, <3>4, <3>5
    <2> QED BY <1>8, <1>9, <2>1
  <1>15. /\ l \in [cmd : Command, todo : Seq(AnyStep), opts : Asked \cup {Absent},
                   dir : Dir \cup {Absent}, vpp : BOOLEAN]
         /\ Runs(l) /\ Said(l, s) = last
    BY <1>5, <1>7 DEF CommandForm, Runs, Said
  <1> QED BY <1>5, <1>12, <1>13, <1>14, <1>15 DEF Passes

(* ... and one that has found its files. *)
LEMMA VerifyPasses ==
    ASSUME NEW t \in Terminal, Types, Knowing, Verify(t), ~ReturnError(t)
    PROVE  \E new, s : Passes(t, new, s)
  <1> PICK l : l = term[t] OBVIOUS
  <1>1. At(t, Verifying) BY DEF Verify, Verifying
  <1>2. /\ CommandForm(l) /\ l.cmd \in {"start", "restart"} /\ l.opts \in Options /\ l.dir \in Dir
        /\ Left(l.todo) = {Verifying}
    <2>1. Rank(Verifying) = 17 BY RankTable
    <2>2. Rank(Verifying) \in 17..28 BY <2>1
    <2>3. CommandForm(l) BY <1>1, AtStep
    <2>4. /\ l.cmd \in {"start", "restart"} /\ l.opts \in Options /\ l.dir \in Dir
          /\ Left(l.todo) = {Verifying}
      BY <1>1, <2>1, <2>2, InStart
    <2> QED BY <2>3, <2>4
  <1>3. PICK vpp \in BOOLEAN :
            /\ vpp = (disk[l.dir]["config"] = "vpp")
            /\ \A k \in Needed(vpp) : disk[l.dir][k] # Absent
            /\ term' = [term EXCEPT ![t] = Afterwards([l EXCEPT !.vpp = vpp], Starting(l.opts, vpp))]
            /\ last' = last /\ Starting(l.opts, vpp) # <<>>
    BY VerifyMoves
  <1>4. PICK s : s = Starting(l.opts, vpp) OBVIOUS
  <1>5. PICK new : new = [l EXCEPT !.vpp = vpp] OBVIOUS
  <1>6. /\ s \in Seq(AnyStep) /\ s # <<>> /\ Left(s) = StartSteps(l.opts, vpp)
        /\ "vpp" \in ToRun(l.opts, vpp) => LinesLeft(s, Lines)
    BY <1>2, <1>4, StartingForm
  <1>7. l \in [cmd : Command, todo : Seq(AnyStep), opts : Asked \cup {Absent},
               dir : Dir \cup {Absent}, vpp : BOOLEAN]
    BY <1>2 DEF CommandForm
  <1>8. /\ new \in [cmd : Command, todo : Seq(AnyStep), opts : Asked \cup {Absent},
                    dir : Dir \cup {Absent}, vpp : BOOLEAN]
        /\ new.cmd = l.cmd /\ new.opts = l.opts /\ new.dir = l.dir /\ new.vpp = vpp
    BY <1>5, <1>7
  <1>9. /\ docker' = docker /\ volumes' = volumes /\ pages' = pages /\ saved' = saved
        /\ day0' = day0 /\ disk' = disk /\ causes' = causes
    BY DEF Verify
  <1>10. /\ \A x \in Left(s) : Rank(x) \in {18} \cup 20..28
         /\ \A c \in Container : Step("run", c) \in Left(s) <=> c \in ToRun(l.opts, vpp)
         /\ Asking \in Left(s) <=> vpp /\ l.opts.pages >= 0
    BY <1>6, StartMembers
  <1>11. \A C : Unless(C)' => Unless(C) BY <1>9 DEF Unless
  <1>12. Noting \in Left(s) BY <1>6 DEF StartSteps
  <1>13. Verifying \notin Left(s) /\ Setting \notin Left(s)
    <2>1. Rank(Verifying) = 17 /\ Rank(Setting) = 19 BY RankTable
    <2>2. 17 \notin {18} \cup 20..28 /\ 19 \notin {18} \cup 20..28 OBVIOUS
    <2> QED BY <1>10, <2>1, <2>2
  <1>14. (Unless({"two-runs", "docker"}) => StopKnows(new, s))'
    <2>1. Unless({"two-runs", "docker"}) => StopKnows(l, l.todo) BY DEF Knowing
    <2> SUFFICES ASSUME Unless({"two-runs", "docker"})' PROVE StopKnows(new, s)' OBVIOUS
    <2>2. l.cmd \in {"stop", "restart"} =>
             \A c \in Container : Covers(l.opts.service, c) /\ Waiting(l, l.todo, c) =>
                             /\ Step("stop", c) \notin Left(l.todo) => ~IsUp(c)
                             /\ Step("rm", c) \notin Left(l.todo) => docker[c] = Absent
      BY <1>11, <2>1 DEF StopKnows
    <2>3. \A c \in Container : Waiting(l, l.todo, c) BY <1>2 DEF Waiting
    <2>4. \A c \in Container : Step("stop", c) \notin Left(l.todo) /\ Step("rm", c) \notin Left(l.todo)
      BY <1>2, StepsDiffer DEF Verifying
    <2>5. l.cmd \in {"stop", "restart"} =>
             \A c \in Container : Covers(l.opts.service, c) => ~IsUp(c)' /\ docker'[c] = Absent
      BY <2>2, <2>3, <2>4, <1>9 DEF IsUp
    <2>6. new.cmd # "stop" BY <1>2, <1>8
    <2> QED BY <2>5, <2>6, <1>8 DEF StopKnows, Waiting, Left, Covers
  <1>15. StartKnows(new, s)'
    <2>1. ~new.vpp \/ Asking \in Left(s) \/ new.opts.pages <= pages'
      <3>1. pages' \in Nat BY <1>9, BoundAssumption DEF Types, HostTypeOK
      <3>2. l.opts.pages \in Unchecked..MaxPages BY <1>2 DEF Options
      <3>3. ~(l.opts.pages >= 0) => l.opts.pages <= pages'
        BY <3>1, <3>2, BoundAssumption DEF Unchecked
      <3> QED BY <3>3, <1>8, <1>10
    <2> QED BY <2>1, <1>12, <1>13 DEF StartKnows
  <1>16. UpKnows(new, s)'
    <2>1. \A k \in Needed(vpp) : disk'[l.dir][k] # Absent BY <1>3, <1>9
    <2>2. \A c \in ToRun(l.opts, vpp) : Step("run", c) \in Left(s) BY <1>10 DEF ToRun
    <2> QED BY <2>1, <2>2, <1>6, <1>8 DEF UpKnows, Needed, ToRun, LinesLeft, Left, Covers
  <1>17. Runs(new) /\ Said(new, s) = last BY <1>2, <1>6, <1>8 DEF Runs, Said
  <1> QED BY <1>3, <1>4, <1>5, <1>8, <1>14, <1>15, <1>16, <1>17, ZenonT(40) DEF Passes

(* ... and a start that gives telemetry its configuration. *)
LEMMA TelegrafPasses ==
    ASSUME NEW t \in Terminal, Types, Knowing, RunTelegraf(t), ~ReturnError(t)
    PROVE  \E new, s : Passes(t, new, s)
  <1> PICK l : l = term[t] OBVIOUS
  <1> PICK s : s = Tail(l.todo) OBVIOUS
  <1> PICK x : x = Step("run", "telegraf") OBVIOUS
  <1>1. At(t, x) BY DEF RunTelegraf
  <1>2. Rank(x) = 27 BY RankTable
  <1>3. Ahead(l, x, s)
    <2>1. Rank(x) \in 18..28 BY <1>2, SMTT(30)
    <2> QED BY <1>1, <2>1, StepsAhead
  <1>4. PICK name \in Name : \E new :
              /\ Run(t, "telegraf", name, TRUE)
              /\ new = [l EXCEPT !.opts = new.opts] /\ new.opts \in Options
              /\ new.opts = [l.opts EXCEPT !.conf = "temporary", !.name = name]
              /\ term' = [term EXCEPT ![t] = Afterwards(new, s)] /\ last' = Said(new, s)
    BY TelegrafMoves
  <1>5. PICK new :
              /\ new = [l EXCEPT !.opts = new.opts] /\ new.opts \in Options
              /\ new.opts = [l.opts EXCEPT !.conf = "temporary", !.name = name]
              /\ term' = [term EXCEPT ![t] = Afterwards(new, s)] /\ last' = Said(new, s)
    BY <1>4
  <1>6. /\ CommandForm(l) /\ l.cmd \in {"start", "restart"} /\ l.opts \in Options /\ l.dir \in Dir
    BY <1>3 DEF Ahead
  <1>7. l \in [cmd : Command, todo : Seq(AnyStep), opts : Asked \cup {Absent},
               dir : Dir \cup {Absent}, vpp : BOOLEAN]
    BY <1>6 DEF CommandForm
  <1>8. /\ new \in [cmd : Command, todo : Seq(AnyStep), opts : Asked \cup {Absent},
                    dir : Dir \cup {Absent}, vpp : BOOLEAN]
        /\ new.cmd = l.cmd /\ new.dir = l.dir /\ new.vpp = l.vpp
    <2>1. new.opts \in Asked \cup {Absent} BY <1>5 DEF Asked
    <2> QED BY <1>5, <1>7, <2>1
  <1>9. /\ new.opts.service = l.opts.service /\ new.opts.telemetry = l.opts.telemetry
        /\ new.opts.pages = l.opts.pages
    <2>1. l.opts \in Options BY <1>6
    <2> QED BY <1>5, <2>1 DEF Options
  <1>10. ToRun(new.opts, new.vpp) = ToRun(l.opts, l.vpp) BY <1>8, <1>9, SameSteps, SMTT(30)
  <1>11. StartEffect(l, x)
    <2> DEFINE i == [up |-> \A k \in Mounted("telegraf") : disk[l.dir][k] # Absent,
                     opts |-> l.opts, dir |-> l.dir, vpp |-> l.vpp, name |-> name]
    <2>1. docker \in [Container -> Instance \cup {Absent}] BY DEF Types, HostTypeOK
    <2>2. docker' = [docker EXCEPT !["telegraf"] = i] /\ volumes \subseteq volumes'
      BY <1>4 DEF Run
    <2>3. i # Absent
      <3>1. i \in Instance BY <1>6, <1>7 DEF Instance
      <3> QED BY <3>1, NoneIsAbsent
    <2>4. docker'["telegraf"] = i /\ \A c \in Container : c # "telegraf" => docker'[c] = docker[c]
      BY <2>1, <2>2 DEF Container
    <2>5. i.up = (\A k \in Mounted("telegraf") : disk[l.dir][k] # Absent) OBVIOUS
    <2> HIDE DEF i
    <2>6. /\ x # Line /\ x # Asking /\ x # Setting /\ x # Noting
          /\ \A c \in Container : x = Step("run", c) <=> c = "telegraf"
          /\ x # Step("run", "vpp")
      BY StepsDiffer DEF Line, Asking, Setting, Noting
    <2>7. disk' = disk /\ saved' = saved /\ pages' = pages /\ day0' = day0
      BY DEF RunTelegraf
    <2> QED BY <2>2, <2>3, <2>4, <2>5, <2>6, <2>7 DEF StartEffect
  <1>12. causes \subseteq causes' BY DEF RunTelegraf, Because
  <1>13. \A C : Unless(C)' => Unless(C) BY <1>12 DEF Unless
  <1>14. /\ Unless({"two-runs", "docker"}) => StopKnows(l, l.todo)
         /\ Unless({"two-runs"}) => StartKnows(l, l.todo)
         /\ Unless({"two-runs", "ended", "removed", "unread"}) => UpKnows(l, l.todo)
    BY DEF Knowing
  <1>15. pages \in Nat /\ day0 \in 0..Lines BY BoundAssumption DEF Types, HostTypeOK
  <1>16. (Unless({"two-runs", "docker"}) => StopKnows(new, s))'
    <2>1. StopKnows(l, l.todo) => StopKnows(l, s)' BY <1>3, <1>11, StartStopKnows
    <2>2. StopKnows(l, s)' => StopKnows(new, s)' BY <1>8, <1>9, StopKnowsSame
    <2> QED BY <1>13, <1>14, <2>1, <2>2
  <1>17. (Unless({"two-runs"}) => StartKnows(new, s))'
    <2>1. StartKnows(l, l.todo) => StartKnows(l, s)' BY <1>3, <1>11, <1>15, StartStartKnows
    <2>2. StartKnows(l, s)' => StartKnows(new, s)' BY <1>8, <1>9 DEF StartKnows
    <2> QED BY <1>13, <1>14, <2>1, <2>2
  <1>18. (Unless({"two-runs", "ended", "removed", "unread"}) => UpKnows(new, s))'
    <2>1. UpKnows(l, l.todo) => UpKnows(l, s)' BY <1>3, <1>11, <1>15, StartUpKnows
    <2>2. UpKnows(l, s)' => UpKnows(new, s)' BY <1>8, <1>9, <1>10 DEF UpKnows
    <2> QED BY <1>13, <1>14, <2>1, <2>2
  <1>19. Runs(new) BY <1>6, <1>8 DEF Runs
  <1> QED BY <1>5, <1>8, <1>16, <1>17, <1>18, <1>19 DEF Passes

(* A start whose day0 configuration cannot be read on passes on all but what it would have run. *)
LEMMA ScanPasses ==
    ASSUME NEW t \in Terminal, Types, Knowing, ScanFails(t)
    PROVE  \E new, s : Passes(t, new, s)
  <1> DEFINE l == term[t]
  <1>1. PICK s : /\ At(t, Line) /\ Rest(l.todo, s)
                 /\ term' = [term EXCEPT ![t] = Afterwards(l, s)] /\ last' = Said(l, s)
    BY ScanMoves
  <1>2. /\ CommandForm(l) /\ l.todo # <<>> /\ Line = Head(l.todo)
        /\ l.cmd \in {"start", "restart"} /\ Verifying \notin Left(l.todo)
    <2>1. Rank(Line) \in 18..28 BY RankTable
    <2> QED BY <1>1, <2>1, AtStep, InStart
  <1>3. Left(l.todo) = {Line} \cup Left(s) BY <1>1, <1>2 DEF Rest
  <1>4. /\ docker' = docker /\ volumes' = volumes /\ saved' = saved /\ pages' = pages
        /\ causes \subseteq causes' /\ "unread" \in causes'
    BY DEF ScanFails, Because
  <1>5. /\ Unless({"two-runs", "docker"}) => StopKnows(l, l.todo)
        /\ Unless({"two-runs"}) => StartKnows(l, l.todo)
    BY DEF Knowing
  <1>6. \A C : Unless(C)' => Unless(C) BY <1>4 DEF Unless
  <1>7. l \in [cmd : Command, todo : Seq(AnyStep), opts : Asked \cup {Absent},
               dir : Dir \cup {Absent}, vpp : BOOLEAN] /\ Runs(l)
    BY <1>2 DEF CommandForm, Runs
  <1> PICK k : k = l OBVIOUS
  <1>8. (Unless({"two-runs", "docker"}) => StopKnows(k, s))'
    <2>1. \A c \in Container : Line # Step("stop", c) /\ Line # Step("rm", c)
      BY RankTable DEF Container
    <2>2. \A c \in Container : ~IsUp(c) => ~IsUp(c)' BY <1>4 DEF IsUp
    <2>3. Left(k.todo) = {Line} \cup Left(s) /\ k.cmd # "stop" BY <1>2, <1>3
    <2> HIDE DEF l
    <2>4. StopKnows(k, k.todo) => StopKnows(k, s)'
      <3> SUFFICES ASSUME StopKnows(k, k.todo) PROVE StopKnows(k, s)' OBVIOUS
      <3>1. \A c \in Container :
               Covers(k.opts.service, c) /\ Waiting(k, s, c) =>
                 /\ Line = Step("stop", c) => ~IsUp(c)'
                 /\ Line = Step("rm", c) => docker'[c] = Absent
                 /\ ~IsUp(c) => ~IsUp(c)'
                 /\ docker[c] = Absent => docker'[c] = Absent
        BY <1>4, <2>1, <2>2
      <3>2. k.cmd = "stop" => \A v \in {"telegraf", "vpp"} :
                                 /\ Line = Step("rm-volume", v) => v \notin volumes'
                                 /\ v \notin volumes => v \notin volumes'
        BY <2>3
      <3> PICK x : x = Line OBVIOUS
      <3> QED BY <2>3, <3>1, <3>2, StopKnowsOn
    <2> QED BY <1>5, <1>6, <2>4
  <1>9. (Unless({"two-runs"}) => StartKnows(k, s))'
    <2>1. Line # Noting /\ Line # Asking /\ Line # Setting BY RankTable
    <2>2. StartKnows(k, k.todo) => StartKnows(k, s)'
      BY <1>2, <1>3, <1>4, <2>1 DEF StartKnows
    <2> QED BY <1>5, <1>6, <2>2
  <1>10. ~Unless({"two-runs", "ended", "removed", "unread"})' BY <1>4 DEF Unless
  <1>11. k.cmd = term[t].cmd OBVIOUS
  <1> HIDE DEF l
  <1> QED BY <1>1, <1>7, <1>8, <1>9, <1>10, <1>11 DEF Passes

(* Every step of a start that does not fail does so. *)
LEMMA StartStepPasses ==
    ASSUME NEW t \in Terminal, Types, Knowing, StartStep(t), ~ReturnError(t)
    PROVE  \E new, s : Passes(t, new, s)
  <1>1. CASE Verify(t) BY <1>1, VerifyPasses
  <1>2. CASE RunTelegraf(t) BY <1>2, TelegrafPasses
  <1>3. CASE ReadPages(t) /\ pages < term[t].opts.pages BY <1>3, PagesStepPasses
  <1>4. CASE ScanFails(t) BY <1>4, ScanPasses
  <1> QED BY <1>1, <1>2, <1>3, <1>4, PlainStepPasses

-----------------------------------------------------------------------------
(* What all commands know. *)

Knows(l) ==
    /\ Unless({"two-runs", "docker"}) => StopKnows(l, l.todo)
    /\ Unless({"two-runs"}) => StartKnows(l, l.todo)
    /\ Unless({"two-runs", "ended", "removed", "unread"}) => UpKnows(l, l.todo)

(* A terminal without a start or a stop knows nothing that could become false. *)
LEMMA OthersKnow ==
    ASSUME NEW l, ~Runs(l)
    PROVE  Knows(l)'
  BY DEF Knows, Runs, StopKnows, StartKnows, UpKnows

(* A command knows on if what it knows about stays as it is. *)
LEMMA KnowsOn ==
    ASSUME NEW l, Knows(l), causes \subseteq causes',
           \A c \in Container : /\ ~IsUp(c) => ~IsUp(c)'
                                /\ docker[c] = Absent => docker'[c] = Absent
                                /\ "ended" \notin causes' /\ IsUp(c) => IsUp(c)',
           volumes' = volumes, saved' = saved, pages' = pages, day0' = day0,
           "removed" \notin causes' =>
               \A d \in Dir, k \in Kind : disk[d][k] # Absent => disk'[d][k] # Absent,
           l.cmd \in {"start", "restart"} => l.dir \in Dir
    PROVE  Knows(l)'
  <1>1. \A C : Unless(C)' => Unless(C) BY DEF Unless
  <1>2. (Unless({"two-runs", "docker"}) => StopKnows(l, l.todo))'
    <2>1. StopKnows(l, l.todo) => StopKnows(l, l.todo)' BY DEF StopKnows, Waiting
    <2> QED BY <1>1, <2>1 DEF Knows
  <1>3. (Unless({"two-runs"}) => StartKnows(l, l.todo))'
    <2>1. StartKnows(l, l.todo) => StartKnows(l, l.todo)' BY DEF StartKnows
    <2> QED BY <1>1, <2>1 DEF Knows
  <1>4. (Unless({"two-runs", "ended", "removed", "unread"}) => UpKnows(l, l.todo))'
    <2> SUFFICES ASSUME Unless({"two-runs", "ended", "removed", "unread"})'
                 PROVE  UpKnows(l, l.todo)'
      OBVIOUS
    <2>1. "removed" \notin causes' /\ "ended" \notin causes' BY DEF Unless
    <2>2. UpKnows(l, l.todo) BY <1>1 DEF Knows
    <2>3. \A k : k \in Needed(l.vpp) => k \in Kind BY DEF Needed, Kind
    <2>4. ToRun(l.opts, l.vpp) \subseteq Container BY DEF ToRun
    <2> SUFFICES ASSUME l.cmd \in {"start", "restart"}, Verifying \notin Left(l.todo)
                 PROVE  UpKnows(l, l.todo)'
      BY DEF UpKnows
    <2>5. \A k \in Needed(l.vpp) : disk'[l.dir][k] # Absent BY <2>1, <2>2, <2>3 DEF UpKnows
    <2>6. \A c \in ToRun(l.opts, l.vpp) : Step("run", c) \notin Left(l.todo) => IsUp(c)'
      BY <2>1, <2>2, <2>4 DEF UpKnows
    <2> QED BY <2>2, <2>5, <2>6 DEF UpKnows
  <1> QED BY <1>2, <1>3, <1>4 DEF Knows

(* What is passed on is known by what the command has become. *)
LEMMA PassesKnows ==
    ASSUME NEW t \in Terminal, NEW new, NEW s, Types, Passes(t, new, s)
    PROVE  \E k : term' = [term EXCEPT ![t] = k] /\ Knows(k)'
  <1>1. CASE s = <<>>
    <2>1. term' = [term EXCEPT ![t] = Idle] BY <1>1 DEF Passes, Afterwards
    <2>2. ~Runs(Idle) BY DEF Runs, Idle
    <2> QED BY <2>1, <2>2, OthersKnow
  <1>2. CASE s # <<>>
    <2>1. PICK k : k = [new EXCEPT !.todo = s] OBVIOUS
    <2>2. term' = [term EXCEPT ![t] = k] BY <1>2, <2>1 DEF Passes, Afterwards
    <2>3. new \in [cmd : Command, todo : Seq(AnyStep), opts : Asked \cup {Absent},
                   dir : Dir \cup {Absent}, vpp : BOOLEAN]
      BY DEF Passes
    <2>4. k.cmd = new.cmd /\ k.todo = s /\ k.opts = new.opts /\ k.dir = new.dir /\ k.vpp = new.vpp
      BY <2>1, <2>3
    <2>5. StopKnows(new, s)' => StopKnows(k, k.todo)' BY <2>4 DEF StopKnows, Waiting
    <2>6. StartKnows(new, s)' => StartKnows(k, k.todo)' BY <2>4 DEF StartKnows
    <2>7. UpKnows(new, s)' => UpKnows(k, k.todo)' BY <2>4 DEF UpKnows
    <2>8. Knows(k)' BY <2>5, <2>6, <2>7 DEF Knows, Passes
    <2> QED BY <2>2, <2>8
  <1> QED BY <1>1, <1>2

(* A command that was just typed knows nothing yet. *)
LEMMA BeginKnows ==
    ASSUME NEW t \in Terminal, NEW k, NEW why, Beginning(t, k, why)
    PROVE  Knows(k)'
  <1>1. CommandForm(k) BY DEF Beginning
  <1>2. CASE k.cmd = "start"
    <2>1. Verifying \in Left(k.todo) BY <1>2 DEF Beginning
    <2> QED BY <1>2, <2>1 DEF Knows, StopKnows, StartKnows, UpKnows
  <1>3. CASE k.cmd \in {"stop", "restart"}
    <2>1. k.cmd = "restart" => Verifying \in Left(k.todo) BY DEF Beginning
    <2>2. StopSteps(k.opts.service) \subseteq Left(k.todo) BY <1>3 DEF Beginning
    <2>3. \A c \in Container : Covers(k.opts.service, c) =>
              Step("stop", c) \in Left(k.todo) /\ Step("rm", c) \in Left(k.todo)
      BY <2>2 DEF StopSteps
    <2>4. k.opts.service # "healthcheck" =>
              \A v \in {"telegraf", "vpp"} : Step("rm-volume", v) \in Left(k.todo)
      BY <2>2 DEF StopSteps
    <2>5. StopKnows(k, k.todo)' BY <2>3, <2>4 DEF StopKnows
    <2>6. StartKnows(k, k.todo)' BY <1>3, <2>1 DEF StartKnows
    <2>7. UpKnows(k, k.todo)' BY <1>3, <2>1 DEF UpKnows
    <2> QED BY <2>5, <2>6, <2>7 DEF Knows
  <1>4. CASE k.cmd \notin {"start", "stop", "restart"} BY <1>4, OthersKnow DEF Runs
  <1> QED BY <1>2, <1>3, <1>4

(* A step of a stop or of a start is one of a command that changes what runs. *)
LEMMA StepRuns ==
    ASSUME NEW t \in Terminal, Types, StartStep(t) \/ StopStep(t)
    PROVE  Runs(term[t])
  <1>1. PICK x : At(t, x) /\ (Rank(x) \in 17..28 \/ Rank(x) \in 7..16)
    <2>1. \A c \in Container : /\ Rank(Step("run", c)) \in 17..28
                               /\ Rank(Step("stop", c)) \in 7..16
                               /\ Rank(Step("rm", c)) \in 7..16
      BY RankTable DEF Container
    <2>2. \A v \in {"telegraf", "vpp"} : /\ Rank(Step("volume", v)) \in 17..28
                                         /\ Rank(Step("rm-volume", v)) \in 7..16
      BY RankTable
    <2>3. /\ Rank(Step("verify", "host")) \in 17..28 /\ Rank(Step("read-pages", "host")) \in 17..28
          /\ Rank(Step("write-pages", "host")) \in 17..28 /\ Rank(Step("save", "host")) \in 17..28
          /\ Rank(Step("connect", "vpp")) \in 17..28 /\ Rank(Step("line", "vpp")) \in 17..28
      BY RankTable, SMTT(30) DEF Verifying, Asking, Setting, Noting, Line
    <2>4. CASE StartStep(t)
      BY <2>1, <2>2, <2>3, <2>4
      DEF StartStep, Verify, NotInstalled, ReadPages, ReadPagesFails, WritePages,
          SaveRestartOpts, SaveRestartOptsFails, RunServerOrHealthcheck, RunVpp, RunTelegraf,
          RunFails, CreateVolume, ConnectVpp, ApplyLine, ScanFails, Container
    <2>5. CASE StopStep(t)
      BY <2>1, <2>2, <2>5 DEF StopStep, StopContainer, RemoveContainer, RemoveVolume
    <2> QED BY <2>4, <2>5
  <1> QED BY <1>1, InStart, InStop DEF Runs

(* Every step of the host keeps what the commands know. *)
LEMMA KnowingStep ==
    ASSUME Types, Alone, Knowing, HostNext
    PROVE  Knowing'
  <1>1. causes \subseteq causes' BY CausesGrow
  <1>2. DOMAIN term = Terminal /\ \A u \in Terminal : CommandForm(term[u]) BY DEF Types, Forms
  <1>3. \A u \in Terminal : Knows(term[u]) BY DEF Knowing, Knows
  <1>4. docker \in [Container -> Instance \cup {Absent}] /\ disk \in [Dir -> [Kind -> Content]]
    BY DEF Types, HostTypeOK
  <1>5. ASSUME \A u \in Terminal : \E l : l = term'[u] /\ Knows(l)' PROVE Knowing'
    <2> SUFFICES ASSUME NEW u \in Terminal
                 PROVE  /\ (Unless({"two-runs", "docker"}) => StopKnows(term[u], term[u].todo))'
                        /\ (Unless({"two-runs"}) => StartKnows(term[u], term[u].todo))'
                        /\ (Unless({"two-runs", "ended", "removed", "unread"}) =>
                                UpKnows(term[u], term[u].todo))'
      BY DEF Knowing
    <2>1. PICK l : l = term'[u] /\ Knows(l)' BY <1>5
    <2>2. StopKnows(l, l.todo)' => StopKnows(term[u], term[u].todo)'
      BY <2>1 DEF StopKnows, Waiting
    <2>3. StartKnows(l, l.todo)' => StartKnows(term[u], term[u].todo)' BY <2>1 DEF StartKnows
    <2>4. UpKnows(l, l.todo)' => UpKnows(term[u], term[u].todo)' BY <2>1 DEF UpKnows
    <2> QED BY <2>1, <2>2, <2>3, <2>4 DEF Knows
  <1>6. ASSUME NEW t \in Terminal, NEW k, term' = [term EXCEPT ![t] = k], Knows(k)',
               \A u \in Terminal : u # t => \E l : l = term[u] /\ Knows(l)'
        PROVE  Knowing'
    <2>1. term'[t] = k /\ \A u \in Terminal : u # t => term'[u] = term[u] BY <1>2, <1>6
    <2>2. \A u \in Terminal : \E l : l = term'[u] /\ Knows(l)' BY <1>6, <2>1
    <2> QED BY <1>5, <2>2
  <1>7. ASSUME NEW u \in Terminal,
               \A c \in Container : /\ ~IsUp(c) => ~IsUp(c)'
                                    /\ docker[c] = Absent => docker'[c] = Absent
                                    /\ "ended" \notin causes' /\ IsUp(c) => IsUp(c)',
               volumes' = volumes, saved' = saved, pages' = pages, day0' = day0,
               "removed" \notin causes' =>
                   \A d \in Dir, k \in Kind : disk[d][k] # Absent => disk'[d][k] # Absent
        PROVE  \E l : l = term[u] /\ Knows(l)'
    <2> PICK l : l = term[u] OBVIOUS
    <2>1. l.cmd \in {"start", "restart"} => l.dir \in Dir BY <1>2 DEF CommandForm
    <2>2. Knows(l) BY <1>3
    <2>3. Knows(l)' BY <1>1, <1>7, <2>1, <2>2, KnowsOn
    <2> QED BY <2>3
  <1>8. Knows(Idle)'
    <2>1. ~Runs(Idle) BY DEF Runs, Idle
    <2> QED BY <2>1, OthersKnow
  <1>9. ASSUME UNCHANGED <<docker, volumes, saved, pages, day0, disk>>, NEW u \in Terminal
        PROVE  \E l : l = term[u] /\ Knows(l)'
    <2>1. \A c \in Container : IsUp(c)' = IsUp(c) BY <1>9 DEF IsUp
    <2> QED BY <1>7, <1>9, <2>1
  <1>10. CASE Typed
    <2>1. PICK t \in Terminal : \E k, why : Beginning(t, k, why) BY <1>10, CommandsBegin
    <2>2. PICK k, why : Beginning(t, k, why) BY <2>1
    <2>3. term' = [term EXCEPT ![t] = k] /\ UNCHANGED <<docker, volumes, saved, pages, day0, disk>>
      BY <2>2 DEF Beginning
    <2>4. Knows(k)' BY <2>2, BeginKnows
    <2> QED BY <1>6, <1>9, <2>3, <2>4
  <1>11. ASSUME NEW t \in Terminal, Interrupt(t) PROVE Knowing'
    BY <1>6, <1>8, <1>9, <1>11 DEF Interrupt
  <1>12. ASSUME NEW t \in Terminal, InitStep(t) PROVE Knowing'
    <2>1. OwnMove(t) BY <1>12, StepMoves
    <2>2. term[t].cmd = "init"
      <3>1. PICK x : At(t, x) /\ Rank(x) \in 1..6
        <4>1. \A i \in Kind : Rank(Step("write", i)) \in 1..6 BY RankTable DEF Kind
        <4>2. Rank(Step("check", "host")) \in 1..6 /\ Rank(Step("name", "host")) \in 1..6
          BY RankTable
        <4> QED BY <1>12, <4>1, <4>2 DEF InitStep, Check, SaveEgvpnConfig, SaveEgvpnConfigFails,
               Write, WriteFails
      <3> QED BY <3>1, InInit
    <2>3. PICK k : term' = [term EXCEPT ![t] = k] /\ (k = Idle \/ k.cmd = term[t].cmd)
      BY <2>1 DEF OwnMove
    <2>4. Knows(k)'
      <3>1. ~Runs(k) BY <2>2, <2>3 DEF Runs, Idle
      <3> QED BY <3>1, OthersKnow
    <2>5. docker' = docker /\ volumes' = volumes /\ saved' = saved /\ pages' = pages /\ day0' = day0
      BY <1>12 DEF InitStep, Check, SaveEgvpnConfig, SaveEgvpnConfigFails, Write, WriteFails
    <2>6. \A c \in Container : IsUp(c)' = IsUp(c) BY <2>5 DEF IsUp
    <2>7. \A d \in Dir, i \in Kind : disk[d][i] # Absent => disk'[d][i] # Absent
      <3>1. ASSUME NEW q \in Kind, Write(t, q), NEW d \in Dir, NEW i \in Kind, disk[d][i] # Absent
            PROVE  disk'[d][i] # Absent
        <4>1. Written(term[t].opts, q) # Absent
          <5>1. term[t].opts.name \in Name BY <1>2, <2>2 DEF CommandForm, InitChoices
          <5> QED BY <5>1, WrittenValues, NoneIsAbsent DEF Kind
        <4>2. disk' = [disk EXCEPT ![term[t].dir][q] = Written(term[t].opts, q)]
          BY <3>1 DEF Write
        <4>3. term[t].dir \in Dir BY <1>2, <2>2 DEF CommandForm
        <4>4. disk'[d][i] = IF d = term[t].dir /\ i = q THEN Written(term[t].opts, q) ELSE disk[d][i]
          BY <1>4, <4>2, <4>3
        <4> QED BY <3>1, <4>1, <4>4
      <3>2. (\E q \in Kind : Write(t, q)) \/ disk' = disk
        BY <1>12 DEF InitStep, Check, SaveEgvpnConfig, SaveEgvpnConfigFails, WriteFails
      <3> QED BY <3>1, <3>2
    <2> QED BY <1>6, <1>7, <2>3, <2>4, <2>5, <2>6, <2>7
  <1>13. ASSUME NEW t \in Terminal, StartStep(t) \/ StopStep(t) PROVE Knowing'
    <2>1. CASE "two-runs" \in causes' BY <2>1 DEF Knowing, Unless
    <2>2. CASE "two-runs" \notin causes'
      <3>1. Runs(term[t]) BY <1>13, StepRuns
      <3>2. ASSUME NEW u \in Terminal, u # t PROVE \E l : l = term[u] /\ Knows(l)'
        <4> PICK l : l = term[u] OBVIOUS
        <4>1. ~Runs(l) BY <1>1, <2>2, <3>1, <3>2 DEF Alone, Unless
        <4> QED BY <4>1, OthersKnow
      <3>3. \E k : term' = [term EXCEPT ![t] = k] /\ Knows(k)'
        <4>1. CASE ReturnError(t) BY <4>1, <1>8 DEF ReturnError
        <4>2. CASE ~ReturnError(t) /\ StartStep(t)
          <5>1. PICK new, s : Passes(t, new, s) BY <4>2, StartStepPasses
          <5> QED BY <5>1, PassesKnows
        <4>3. CASE StopStep(t)
          <5>1. PICK new, s : Passes(t, new, s) BY <4>3, StopStepPasses
          <5> QED BY <5>1, PassesKnows
        <4> QED BY <1>13, <4>1, <4>2, <4>3
      <3> QED BY <1>6, <3>2, <3>3
    <2> QED BY <2>1, <2>2
  <1>14. ASSUME NEW d \in Dir, NEW k \in Kind, RemoveFile(d, k) PROVE Knowing'
    <2>1. /\ UNCHANGED <<docker, volumes, saved, pages, day0, term>> /\ "removed" \in causes'
      BY <1>14 DEF RemoveFile, Because
    <2>2. \A c \in Container : IsUp(c)' = IsUp(c) BY <2>1 DEF IsUp
    <2> QED BY <1>5, <1>7, <2>1, <2>2
  <1>15. ASSUME NEW c \in Container, Exit(c) PROVE Knowing'
    <2>1. /\ UNCHANGED <<disk, volumes, saved, pages, day0, term>> /\ "ended" \in causes'
          /\ docker' = [docker EXCEPT ![c].up = FALSE] /\ docker[c] # Absent
      BY <1>15 DEF Exit, Because, IsUp
    <2>2. docker[c] \in Instance BY <1>4, <2>1
    <2>3. ~docker'[c].up /\ \A e \in Container : e # c => docker'[e] = docker[e]
      BY <1>4, <2>1, <2>2 DEF Instance
    <2>4. \A e \in Container : /\ ~IsUp(e) => ~IsUp(e)'
                               /\ docker[e] = Absent => docker'[e] = Absent
      BY <2>1, <2>3 DEF IsUp
    <2> QED BY <1>5, <1>7, <2>1, <2>4
  <1> QED BY <1>10, <1>11, <1>12, <1>13, <1>14, <1>15 DEF HostNext

-----------------------------------------------------------------------------
(* What happens to a container. *)

(* A command about to run a container has saved its options, and has its pages. *)
LEMMA RunKnows ==
    ASSUME NEW t \in Terminal, NEW c \in Container, Types, Knowing, At(t, Step("run", c)),
           Unless({"two-runs"})
    PROVE  /\ saved # Absent /\ saved.dir = term[t].dir
           /\ saved.opts.telemetry = term[t].opts.telemetry
           /\ saved.opts.pages = term[t].opts.pages
           /\ c = "vpp" => term[t].opts.pages <= pages
  <1> PICK l : l = term[t] OBVIOUS
  <1> PICK s : s = Tail(l.todo) OBVIOUS
  <1> PICK x : x = Step("run", c) OBVIOUS
  <1>1. Rank(x) \in 21..28 /\ Rank(Noting) = 20 /\ Rank(Asking) = 18 /\ Rank(Setting) = 19
        /\ Rank(Line) = 25
    <2>1. Rank(x) \in {21, 23, 27, 28} BY RankTable, ZenonT(40) DEF Container
    <2>2. Rank(Noting) = 20 /\ Rank(Asking) = 18 /\ Rank(Setting) = 19 /\ Rank(Line) = 25
      BY RankTable
    <2> QED BY <2>1, <2>2
  <1>2. Rank(x) \in 18..28 BY <1>1
  <1>3. Ahead(l, x, s) BY <1>2, StepsAhead
  <1>4. /\ Left(l.todo) = {x} \cup Left(s) /\ l.cmd \in {"start", "restart"}
        /\ Verifying \notin Left(l.todo) /\ x \in {Setting} \cup StartSteps(l.opts, l.vpp)
    BY <1>3 DEF Ahead
  <1>5. x # Noting /\ x # Asking /\ x # Setting
        /\ Noting # Line /\ Asking # Line /\ Setting # Line
    BY <1>1
  <1>6. /\ Rank(Noting) \in 1..28 /\ Rank(Noting) <= Rank(x)
        /\ Rank(Asking) \in 1..28 /\ Rank(Asking) <= Rank(x)
        /\ Rank(Setting) \in 1..28 /\ Rank(Setting) <= Rank(x)
    BY <1>1
  <1>7. Noting \notin Left(s) /\ Asking \notin Left(s) /\ Setting \notin Left(s)
    BY <1>3, <1>5, <1>6 DEF Ahead
  <1>8. StartKnows(l, l.todo) BY DEF Knowing
  <1>9. c = "vpp" => l.vpp
    <2>1. c \in ToRun(l.opts, l.vpp) BY <1>4, <1>5, StartMembers
    <2> QED BY <2>1 DEF ToRun
  <1> QED BY <1>4, <1>5, <1>7, <1>8, <1>9 DEF StartKnows

(* A container is left alone, stopped, removed, or run. *)
Ran(t, c) ==
    /\ At(t, Step("run", c)) /\ docker[c] = Absent /\ docker'[c] \in Instance
    /\ docker'[c].opts = term[t].opts /\ docker'[c].dir = term[t].dir
    /\ docker'[c].vpp = term[t].vpp
    /\ c \in {"server", "healthcheck"} /\ docker'[c].up =>
          docker'[c].name = disk[term[t].dir]["secrets"] /\ docker'[c].name # Absent
    /\ c = "telegraf" /\ docker'[c].up =>
          /\ docker'[c].name # Absent
          /\ docker'[c].name = IF term[t].opts.name = Absent THEN named ELSE term[t].opts.name
          /\ If(term[t].opts.name \notin {Absent, named}, "other-name") \subseteq causes'
    /\ UNCHANGED <<saved, pages, disk, named>>

(* A container that was run has the options and files of its start. *)
LEMMA RunRan ==
    ASSUME NEW t \in Terminal, NEW c \in Container, NEW name \in Name \cup {Absent},
           NEW starts \in BOOLEAN, Types, At(t, Step("run", c)), Run(t, c, name, starts),
           UNCHANGED <<saved, pages, disk, named>>,
           c \in {"server", "healthcheck"} /\ starts => name = disk[term[t].dir]["secrets"],
           c = "telegraf" /\ starts =>
              /\ name # Absent
              /\ name = IF term[t].opts.name = Absent THEN named ELSE term[t].opts.name
              /\ If(term[t].opts.name \notin {Absent, named}, "other-name") \subseteq causes'
    PROVE  Ran(t, c) /\ \A e \in Container : e # c => docker'[e] = docker[e]
  <1>1. Rank(Step("run", c)) \in 17..28 BY RankTable DEF Container
  <1>2. term[t].opts \in Options /\ term[t].dir \in Dir BY <1>1, InStart
  <1>3. docker[c] = Absent BY <1>2, RunTyped
  <1>4. PICK new \in Instance :
            /\ docker' = [docker EXCEPT ![c] = new]
            /\ new.up = (starts /\ \A k \in Mounted(c) : disk[term[t].dir][k] # Absent)
            /\ new.opts = term[t].opts /\ new.dir = term[t].dir /\ new.vpp = term[t].vpp
            /\ new.name = name
    BY <1>2, RunTyped
  <1>5. docker'[c] = new /\ \A e \in Container : e # c => docker'[e] = docker[e]
    BY <1>4 DEF Types, HostTypeOK
  <1>6. c \in {"server", "healthcheck"} /\ new.up => disk[term[t].dir]["secrets"] # Absent
    BY <1>4, MountedValues
  <1> QED BY <1>3, <1>4, <1>5, <1>6 DEF Ran

Ended(c) == docker[c] \in Instance /\ docker'[c] = [docker[c] EXCEPT !.up = FALSE]

(* All that can happen to a container: nothing, removal, an end or a run. *)
LEMMA ContainerChanges ==
    ASSUME Types, HostNext, NEW c \in Container
    PROVE  \/ docker'[c] = docker[c]
           \/ docker'[c] = Absent /\ UNCHANGED <<saved, pages, disk, named>>
           \/ Ended(c) /\ UNCHANGED <<saved, pages, disk, named>>
           \/ \E t \in Terminal : Ran(t, c)
  <1>1. docker \in [Container -> Instance \cup {Absent}] BY DEF Types, HostTypeOK
  <1>2. CASE Typed
    <2>1. docker' = docker BY <1>2, CommandsBegin DEF Beginning
    <2> QED BY <2>1
  <1>3. ASSUME NEW t \in Terminal, InitStep(t) \/ Interrupt(t) PROVE docker' = docker
    BY <1>3 DEF InitStep, Check, SaveEgvpnConfig, SaveEgvpnConfigFails, Write, WriteFails,
           Interrupt
  <1>4. ASSUME NEW e \in Container, docker[e] # Absent,
               docker' = [docker EXCEPT ![e].up = FALSE], UNCHANGED <<saved, pages, disk, named>>
        PROVE  docker'[c] = docker[c] \/ (Ended(c) /\ UNCHANGED <<saved, pages, disk, named>>)
    BY <1>1, <1>4 DEF Ended
  <1>5. ASSUME NEW t \in Terminal, StopStep(t)
        PROVE  \/ docker'[c] = docker[c]
               \/ docker'[c] = Absent /\ UNCHANGED <<saved, pages, disk, named>>
               \/ Ended(c) /\ UNCHANGED <<saved, pages, disk, named>>
    <2>1. ASSUME NEW e \in Container, StopContainer(t, e)
          PROVE  docker'[c] = docker[c] \/ (Ended(c) /\ UNCHANGED <<saved, pages, disk, named>>)
      BY <1>4, <2>1 DEF StopContainer
    <2>2. ASSUME NEW e \in Container, RemoveContainer(t, e)
          PROVE  docker'[c] = docker[c]
                 \/ (docker'[c] = Absent /\ UNCHANGED <<saved, pages, disk, named>>)
      BY <1>1, <2>2 DEF RemoveContainer
    <2>3. ASSUME NEW v \in {"telegraf", "vpp"}, RemoveVolume(t, v) PROVE docker'[c] = docker[c]
      BY <2>3 DEF RemoveVolume
    <2> QED BY <1>5, <2>1, <2>2, <2>3 DEF StopStep
  <1>6. ASSUME NEW t \in Terminal, StartStep(t)
        PROVE  docker'[c] = docker[c] \/ Ran(t, c)
    <2>1. ASSUME NEW e \in Container, NEW name \in Name \cup {Absent},
                 NEW starts \in BOOLEAN, At(t, Step("run", e)), Run(t, e, name, starts),
                 UNCHANGED <<saved, pages, disk, named>>,
                 e \in {"server", "healthcheck"} /\ starts => name = disk[term[t].dir]["secrets"],
                 e = "telegraf" /\ starts =>
                    /\ name # Absent
                    /\ name = IF term[t].opts.name = Absent THEN named ELSE term[t].opts.name
                    /\ If(term[t].opts.name \notin {Absent, named}, "other-name") \subseteq causes'
          PROVE  docker'[c] = docker[c] \/ Ran(t, c)
      <3>1. Ran(t, e) /\ \A f \in Container : f # e => docker'[f] = docker[f] BY <2>1, RunRan
      <3> QED BY <3>1
    <2>2. ASSUME NEW e \in {"server", "healthcheck"}, RunServerOrHealthcheck(t, e)
          PROVE  docker'[c] = docker[c] \/ Ran(t, c)
      <3>1. Rank(Step("run", e)) \in 17..28 BY RankTable
      <3>2. term[t].dir \in Dir BY <2>2, <3>1, InStart DEF RunServerOrHealthcheck
      <3>3. disk[term[t].dir]["secrets"] \in Name \cup {Absent} BY <3>2 DEF Types
      <3> QED BY <2>1, <2>2, <3>3 DEF RunServerOrHealthcheck, Container
    <2>3. CASE RunVpp(t) BY <2>1, <2>3 DEF RunVpp, Container
    <2>4. CASE RunTelegraf(t)
      <3> DEFINE name == IF term[t].opts.name = Absent THEN named ELSE term[t].opts.name
      <3>1. /\ At(t, Step("run", "telegraf")) /\ UNCHANGED <<saved, pages, disk, named>>
            /\ If(term[t].opts.name \notin {Absent, named}, "other-name") \subseteq causes'
            /\ docker' = docker \/ (name # Absent /\ Run(t, "telegraf", name, TRUE))
        BY <2>4 DEF RunTelegraf, Because
      <3>2. term[t].opts \in Options
        <4>1. Rank(Step("run", "telegraf")) \in 17..28 BY RankTable
        <4> QED BY <3>1, <4>1, InStart
      <3>3. term[t].opts.name \in Name \cup {Absent} BY <3>2 DEF Options
      <3>4. name \in Name \cup {Absent} BY <3>3 DEF Types, HostTypeOK
      <3>5. name = IF term[t].opts.name = Absent THEN named ELSE term[t].opts.name OBVIOUS
      <3> HIDE DEF name
      <3> QED BY <2>1, <3>1, <3>4, <3>5 DEF Container
    <2>5. ASSUME NEW e \in Container, RunFails(t, e) PROVE docker'[c] = docker[c] \/ Ran(t, c)
      <3>1. docker' = docker \/ Run(t, e, Absent, FALSE) BY <2>5 DEF RunFails
      <3>2. At(t, Step("run", e)) /\ UNCHANGED <<saved, pages, disk, named>> BY <2>5 DEF RunFails
      <3> QED BY <2>1, <3>1, <3>2
    <2>6. CASE Verify(t) \/ NotInstalled(t) \/ ReadPages(t) \/ WritePages(t) \/ SaveRestartOpts(t)
               \/ ReadPagesFails(t) \/ SaveRestartOptsFails(t) \/ ScanFails(t)
               \/ ConnectVpp(t) \/ ApplyLine(t) \/ \E v \in {"telegraf", "vpp"} : CreateVolume(t, v)
      BY <2>6 DEF Verify, NotInstalled, ReadPages, ReadPagesFails, WritePages, SaveRestartOpts,
                  SaveRestartOptsFails, ConnectVpp, ApplyLine, ScanFails, CreateVolume
    <2> QED BY <1>6, <2>2, <2>3, <2>4, <2>5, <2>6 DEF StartStep
  <1>7. ASSUME NEW d \in Dir, NEW k \in Kind, RemoveFile(d, k) PROVE docker' = docker
    BY <1>7 DEF RemoveFile
  <1>8. ASSUME NEW e \in Container, Exit(e)
        PROVE  docker'[c] = docker[c] \/ (Ended(c) /\ UNCHANGED <<saved, pages, disk, named>>)
    BY <1>4, <1>8 DEF Exit, IsUp
  <1> QED BY <1>2, <1>3, <1>5, <1>6, <1>7, <1>8 DEF HostNext

-----------------------------------------------------------------------------
(* The safety invariants of the containers. *)

LEMMA SavedStep ==
    ASSUME Types, Knowing, SavedIsRunning, HostNext
    PROVE  SavedIsRunning'
  <1> SUFFICES ASSUME Unless({"saved-anew", "not-saved", "two-runs"})', NEW c \in Container,
                      docker'[c] # Absent
               PROVE  saved' # Absent /\ SameOptions(saved'.opts, saved'.dir, docker'[c])
    BY DEF SavedIsRunning, SameOptions
  <1>1. causes \subseteq causes' BY CausesGrow
  <1>2. Unless({"saved-anew", "not-saved", "two-runs"}) /\ Unless({"two-runs"}) BY <1>1 DEF Unless
  <1>3. docker[c] # Absent => saved # Absent /\ SameOptions(saved.opts, saved.dir, docker[c])
    BY <1>2 DEF SavedIsRunning
  <1>4. CASE docker'[c] = docker[c]
    <2>1. CASE saved' = saved BY <1>3, <1>4, <2>1
    <2>2. CASE saved' # saved
      <3>0. \A t \in Terminal : ~SaveRestartOptsFails(t)
        BY DEF SaveRestartOptsFails, Because, Unless
      <3>1. PICK t \in Terminal : SaveRestartOpts(t)
        BY <2>2, <3>0, CommandsBegin, ZenonT(40)
        DEF HostNext, InitStep, StartStep, StopStep, Beginning, Interrupt, Check,
            SaveEgvpnConfig, SaveEgvpnConfigFails, Write, WriteFails, Verify, NotInstalled,
            ReadPages, ReadPagesFails, WritePages, RunServerOrHealthcheck, RunVpp, RunTelegraf,
            RunFails, CreateVolume, ConnectVpp, ApplyLine, ScanFails, StopContainer,
            RemoveContainer, RemoveVolume, RemoveFile, Exit
      <3>2. /\ saved' = [opts |-> term[t].opts, dir |-> term[t].dir] /\ At(t, Noting)
            /\ SameOptions(term[t].opts, term[t].dir, docker[c])
        <4>1. /\ saved' = [opts |-> term[t].opts, dir |-> term[t].dir] /\ At(t, Noting)
              /\ If(\E e \in Container : docker[e] # Absent
                        /\ ~SameOptions(term[t].opts, term[t].dir, docker[e]), "saved-anew")
                 \subseteq causes'
          BY <3>1 DEF SaveRestartOpts, Because, Noting
        <4>2. "saved-anew" \notin causes' BY DEF Unless
        <4> QED BY <1>4, <4>1, <4>2 DEF If
      <3>3. saved' \in Saved
        <4>1. Rank(Noting) \in 17..28 BY RankTable
        <4>2. term[t].opts \in Options /\ term[t].dir \in Dir BY <3>2, <4>1, InStart
        <4> QED BY <3>2, <4>2 DEF Saved
      <3> QED BY <1>4, <3>2, <3>3, NoneIsAbsent, SMTT(30)
    <2> QED BY <2>1, <2>2
  <1>5. CASE Ended(c) /\ UNCHANGED <<saved, pages, disk, named>>
    <2>1. docker'[c].opts = docker[c].opts /\ docker'[c].dir = docker[c].dir /\ docker[c] # Absent
      BY <1>5, NoneIsAbsent DEF Ended, Instance
    <2> QED BY <1>3, <1>5, <2>1 DEF SameOptions
  <1>6. CASE \E t \in Terminal : Ran(t, c)
    <2> PICK t \in Terminal : Ran(t, c) BY <1>6
    <2>1. /\ saved # Absent /\ saved.dir = term[t].dir
          /\ saved.opts.telemetry = term[t].opts.telemetry
          /\ saved.opts.pages = term[t].opts.pages
      BY <1>2, RunKnows DEF Ran
    <2> QED BY <2>1 DEF Ran, SameOptions
  <1> QED BY <1>4, <1>5, <1>6, ContainerChanges

(* Unless two commands run at once, the kernel is left no fewer pages. *)
LEMMA PagesGrow ==
    ASSUME Types, Knowing, HostNext, Unless({"two-runs"})'
    PROVE  pages' >= pages
  <1>1. causes \subseteq causes' BY CausesGrow
  <1>2. pages \in Nat BY BoundAssumption DEF Types, HostTypeOK
  <1>3. ASSUME NEW t \in Terminal, WritePages(t) PROVE pages' >= pages
    <2> PICK l : l = term[t] OBVIOUS
    <2>1. At(t, Setting) BY <1>3 DEF WritePages, Setting
    <2>2. Rank(Setting) \in 17..28 /\ Rank(Setting) >= 18 BY RankTable
    <2>3. /\ l.cmd \in {"start", "restart"} /\ l.opts \in Options
          /\ Verifying \notin Left(l.todo)
      BY <2>1, <2>2, InStart
    <2>4. CommandForm(l) /\ l.todo # <<>> /\ Setting = Head(l.todo) BY <2>1, AtStep
    <2>5. Setting \in Left(l.todo) BY <2>4, Doing
    <2>6. StartKnows(l, l.todo) BY <1>1 DEF Knowing, Unless
    <2>7. pages < l.opts.pages BY <2>3, <2>5, <2>6 DEF StartKnows
    <2>8. l.opts.pages \in Int BY <2>3, BoundAssumption DEF Options, Unchecked
    <2>9. pages' = l.opts.pages \/ pages' \in pages..(l.opts.pages - 1) BY <1>3 DEF WritePages
    <2> QED BY <1>2, <2>7, <2>8, <2>9
  <1>4. CASE ~\E t \in Terminal : WritePages(t)
    <2>1. pages' = pages
        BY <1>4, CommandsBegin, ZenonT(40)
        DEF HostNext, InitStep, StartStep, StopStep, Beginning, Interrupt, Check,
            SaveEgvpnConfig, SaveEgvpnConfigFails, Write, WriteFails, Verify, NotInstalled,
            ReadPages, ReadPagesFails, SaveRestartOpts, SaveRestartOptsFails,
            RunServerOrHealthcheck, RunVpp, RunTelegraf, RunFails, CreateVolume, ConnectVpp,
            ApplyLine, ScanFails, StopContainer, RemoveContainer, RemoveVolume, RemoveFile, Exit
    <2> QED BY <1>2, <2>1, SMTT(30)
  <1> QED BY <1>3, <1>4

(* VPP keeps the pages that it was started with. *)
LEMMA VppStep ==
    ASSUME Types, Types', Knowing, VppKeepsItsPages, HostNext
    PROVE  VppKeepsItsPages'
  <1> DEFINE c == "vpp"
  <1> SUFFICES ASSUME Unless({"two-runs"})', docker'[c] # Absent, docker'[c].up
               PROVE  pages' >= docker'[c].opts.pages
    BY DEF VppKeepsItsPages, IsUp
  <1>1. causes \subseteq causes' BY CausesGrow
  <1>2. Unless({"two-runs"}) BY <1>1 DEF Unless
  <1>3. pages' >= pages BY PagesGrow
  <1>4. pages \in Nat /\ pages' \in Nat BY BoundAssumption DEF Types, HostTypeOK
  <1>5. docker'[c].opts.pages \in Int
    <2>1. docker' \in [Container -> Instance \cup {Absent}] BY DEF Types, HostTypeOK
    <2>2. docker'[c] \in Instance BY <2>1 DEF Container
    <2> QED BY <2>2, BoundAssumption DEF Instance, Options, Unchecked
  <1>6. CASE docker'[c] = docker[c]
    <2>1. pages >= docker[c].opts.pages BY <1>2, <1>6 DEF VppKeepsItsPages, IsUp
    <2> QED BY <1>3, <1>4, <1>5, <1>6, <2>1
  <1>7. CASE \E t \in Terminal : Ran(t, c)
    <2> PICK t \in Terminal : Ran(t, c) BY <1>7
    <2>1. term[t].opts.pages <= pages BY <1>2, RunKnows DEF Ran, Container
    <2>2. docker'[c].opts = term[t].opts BY DEF Ran
    <2> QED BY <1>3, <1>4, <1>5, <2>1, <2>2
  <1>8. ~Ended(c)
    <2> SUFFICES ASSUME Ended(c) PROVE FALSE OBVIOUS
    <2>1. docker[c] \in Instance /\ docker'[c] = [docker[c] EXCEPT !.up = FALSE] BY DEF Ended
    <2> QED BY <2>1 DEF Instance
  <1>9. c \in Container BY DEF Container
  <1> HIDE DEF c
  <1> QED BY <1>6, <1>7, <1>8, <1>9, ContainerChanges

-----------------------------------------------------------------------------
(* What a command has done when it succeeds. *)

(* While a command runs no earlier one's success is spoken of, and nothing    *)
(* but such a command changes what runs.                                     *)
LEMMA NothingRuns ==
    ASSUME Types, Alone, Alone', HostNext, last' # Absent, last'.cmd # "init", last'.ok,
           Unless({"two-runs"})'
    PROVE  \/ last' = last /\ UNCHANGED <<docker, volumes, day0>>
           \/ last' = last /\ UNCHANGED <<volumes, day0>> /\ \E c \in Container : Exit(c)
           \/ \E t \in Terminal : StartStep(t) /\ ~ReturnError(t) /\ last' # last
           \/ \E t \in Terminal : StopStep(t) /\ last' # last
  <1>1. causes \subseteq causes' BY CausesGrow
  <1>2. Unless({"two-runs"}) BY <1>1 DEF Unless
  <1>3. CASE Typed
    <2>1. last' = Absent BY <1>3, CommandsBegin DEF Beginning
    <2> QED BY <2>1
  <1>4. ASSUME NEW t \in Terminal, Interrupt(t)
        PROVE  last' = last /\ UNCHANGED <<docker, volumes, day0>>
    BY <1>4 DEF Interrupt
  <1>5. ASSUME NEW t \in Terminal, InitStep(t)
        PROVE  last' = last /\ UNCHANGED <<docker, volumes, day0>>
    <2>1. UNCHANGED <<docker, volumes, day0>>
      BY <1>5 DEF InitStep, Check, SaveEgvpnConfig, SaveEgvpnConfigFails, Write, WriteFails
    <2>2. OwnMove(t) BY <1>5, StepMoves
    <2>3. term[t].cmd = "init"
      <3>1. PICK x : At(t, x) /\ Rank(x) \in 1..6
        <4>1. \A i \in Kind : Rank(Step("write", i)) \in 1..6 BY RankTable DEF Kind
        <4>2. Rank(Step("check", "host")) \in 1..6 /\ Rank(Step("name", "host")) \in 1..6
          BY RankTable
        <4> QED BY <1>5, <4>1, <4>2 DEF InitStep, Check, SaveEgvpnConfig, SaveEgvpnConfigFails,
               Write, WriteFails
      <3> QED BY <3>1, InInit
    <2> QED BY <2>1, <2>2, <2>3 DEF OwnMove
  <1>6. ASSUME NEW t \in Terminal, StartStep(t) \/ StopStep(t), last' = last PROVE FALSE
    <2>1. OwnMove(t) BY <1>6, StepMoves
    <2>2. Runs(term[t]) BY <1>6, StepRuns
    <2>3. last # Absent /\ last.cmd # "init" BY <1>6
    <2> QED BY <1>2, <2>2, <2>3 DEF Alone
  <1>7. ASSUME NEW t \in Terminal, StartStep(t), ReturnError(t) PROVE FALSE
    <2>1. last'.ok = FALSE BY <1>7 DEF ReturnError
    <2> QED BY <2>1
  <1>8. ASSUME NEW d \in Dir, NEW k \in Kind, RemoveFile(d, k)
        PROVE  last' = last /\ UNCHANGED <<docker, volumes, day0>>
    BY <1>8 DEF RemoveFile
  <1>9. ASSUME NEW c \in Container, Exit(c)
        PROVE  last' = last /\ UNCHANGED <<volumes, day0>>
    BY <1>9 DEF Exit
  <1> QED BY <1>3, <1>4, <1>5, <1>6, <1>7, <1>8, <1>9 DEF HostNext

(* The last step of a command: there is nothing left to do. *)
LEMMA PassesLast ==
    ASSUME NEW t \in Terminal, NEW new, NEW s, Passes(t, new, s), last' # last
    PROVE  s = <<>> /\ last' = [cmd |-> new.cmd, opts |-> new.opts, vpp |-> new.vpp, ok |-> TRUE]
  BY DEF Passes, Said

(* The command that ends well has passed on what it knew. *)
LEMMA LastPasses ==
    ASSUME Types, Knowing, NEW t \in Terminal,
           (StartStep(t) /\ ~ReturnError(t)) \/ StopStep(t), last' # last
    PROVE  \E new : /\ Passes(t, new, <<>>)
                    /\ last' = [cmd |-> new.cmd, opts |-> new.opts, vpp |-> new.vpp, ok |-> TRUE]
  <1>1. \E new, s : Passes(t, new, s) BY StartStepPasses, StopStepPasses
  <1> PICK new, s : Passes(t, new, s) BY <1>1
  <1>2. s = <<>> /\ last' = [cmd |-> new.cmd, opts |-> new.opts, vpp |-> new.vpp, ok |-> TRUE]
    BY PassesLast
  <1>3. Passes(t, new, <<>>)
    <2>1. s = <<>> BY <1>2
    <2> QED BY <2>1
  <1> QED BY <1>2, <1>3

(* A start that ends well has brought everything up. *)
LEMMA SuccessStep ==
    ASSUME Types, Types', Alone, Alone', Knowing, SuccessMeansUp, HostNext
    PROVE  SuccessMeansUp'
  <1> SUFFICES ASSUME last' # Absent, last'.cmd \in {"start", "restart"}, last'.ok,
                      Unless({"ended", "removed", "unread", "two-runs"})'
               PROVE  /\ last'.opts.service # "healthcheck" =>
                           /\ IsUp("server")'
                           /\ last'.vpp => IsUp("vpp")' /\ day0' = Lines
                           /\ last'.opts.telemetry => IsUp("telegraf")'
                      /\ last'.opts.service # "server" => IsUp("healthcheck")'
    BY DEF SuccessMeansUp, Succeeded
  <1>1. causes \subseteq causes' BY CausesGrow
  <1>2. Unless({"ended", "removed", "unread", "two-runs"}) /\ Unless({"two-runs"})' /\ "ended" \notin causes'
    BY <1>1 DEF Unless
  <1>3. CASE last' = last /\ UNCHANGED <<docker, volumes, day0>>
    BY <1>2, <1>3 DEF SuccessMeansUp, Succeeded, IsUp
  <1>4. ~\E c \in Container : Exit(c) BY <1>2 DEF Exit, Because
  <1>5. ASSUME NEW t \in Terminal,
               (StartStep(t) /\ ~ReturnError(t)) \/ StopStep(t), last' # last
        PROVE  /\ last'.opts.service # "healthcheck" =>
                    /\ IsUp("server")'
                    /\ last'.vpp => IsUp("vpp")' /\ day0' = Lines
                    /\ last'.opts.telemetry => IsUp("telegraf")'
               /\ last'.opts.service # "server" => IsUp("healthcheck")'
    <2> PICK new : /\ Passes(t, new, <<>>)
                   /\ last' = [cmd |-> new.cmd, opts |-> new.opts, vpp |-> new.vpp, ok |-> TRUE]
      BY <1>5, LastPasses
    <2> PICK s : s = <<>> OBVIOUS
    <2>1. Left(s) = {} /\ s = <<>> BY NoStep DEF Left
    <2>2. UpKnows(new, s)' BY DEF Passes
    <2>3. /\ last'.cmd = new.cmd /\ last'.opts = new.opts /\ last'.vpp = new.vpp
      OBVIOUS
    <2>4. /\ \A c \in ToRun(new.opts, new.vpp) : IsUp(c)'
          /\ "vpp" \in ToRun(new.opts, new.vpp) => LinesLeft(s, Lines - day0')
      BY <2>1, <2>2, <2>3 DEF UpKnows
    <2>5. "vpp" \in ToRun(new.opts, new.vpp) => day0' = Lines
      <3> SUFFICES ASSUME "vpp" \in ToRun(new.opts, new.vpp) PROVE day0' = Lines OBVIOUS
      <3>1. day0' \in 0..Lines /\ Lines - day0' \in Nat BY BoundAssumption DEF Types, HostTypeOK
      <3>2. Lines - day0' = 0 BY <2>1, <2>4, <3>1, NoLinesLeft
      <3>3. \A d \in 0..Lines : Lines - d = 0 => d = Lines BY BoundAssumption
      <3> QED BY <3>1, <3>2, <3>3
    <2>6. /\ new.opts.service # "healthcheck" =>
                /\ "server" \in ToRun(new.opts, new.vpp)
                /\ new.vpp => "vpp" \in ToRun(new.opts, new.vpp)
                /\ new.opts.telemetry => "telegraf" \in ToRun(new.opts, new.vpp)
          /\ new.opts.service # "server" => "healthcheck" \in ToRun(new.opts, new.vpp)
      BY DEF ToRun, Covers, Container
    <2> QED BY <2>3, <2>4, <2>5, <2>6
  <1>6. last'.cmd # "init" OBVIOUS
  <1> QED BY <1>2, <1>3, <1>4, <1>5, <1>6, NothingRuns

(* A stop that ends well has left nothing. *)
LEMMA StopStepHolds ==
    ASSUME Types, Types', Alone, Alone', Knowing, StopLeavesNothing, HostNext
    PROVE  StopLeavesNothing'
  <1> SUFFICES ASSUME last' # Absent, last'.cmd = "stop", last'.ok, Unless({"docker", "two-runs"})'
               PROVE  /\ last'.opts.service # "healthcheck" =>
                           /\ docker'["server"] = Absent /\ docker'["vpp"] = Absent
                           /\ docker'["telegraf"] = Absent /\ volumes' = {}
                      /\ last'.opts.service # "server" => docker'["healthcheck"] = Absent
    BY DEF StopLeavesNothing, Succeeded
  <1>1. causes \subseteq causes' BY CausesGrow
  <1>2. Unless({"docker", "two-runs"}) /\ Unless({"two-runs"})' BY <1>1 DEF Unless
  <1>3. CASE last' = last /\ UNCHANGED <<docker, volumes, day0>>
    BY <1>2, <1>3 DEF StopLeavesNothing, Succeeded
  <1>4. ASSUME last' = last, UNCHANGED <<volumes, day0>>, NEW c \in Container, Exit(c)
        PROVE  /\ last'.opts.service # "healthcheck" =>
                    /\ docker'["server"] = Absent /\ docker'["vpp"] = Absent
                    /\ docker'["telegraf"] = Absent /\ volumes' = {}
               /\ last'.opts.service # "server" => docker'["healthcheck"] = Absent
    <2>1. \A e \in Container : docker[e] = Absent => docker'[e] = Absent
      <3>1. docker \in [Container -> Instance \cup {Absent}] BY DEF Types, HostTypeOK
      <3>2. docker[c] # Absent /\ docker' = [docker EXCEPT ![c].up = FALSE] BY <1>4 DEF Exit, IsUp
      <3> QED BY <3>1, <3>2
    <2> QED BY <1>2, <1>4, <2>1 DEF StopLeavesNothing, Succeeded, Container
  <1>5. ASSUME NEW t \in Terminal,
               (StartStep(t) /\ ~ReturnError(t)) \/ StopStep(t), last' # last
        PROVE  /\ last'.opts.service # "healthcheck" =>
                    /\ docker'["server"] = Absent /\ docker'["vpp"] = Absent
                    /\ docker'["telegraf"] = Absent /\ volumes' = {}
               /\ last'.opts.service # "server" => docker'["healthcheck"] = Absent
    <2> PICK new : /\ Passes(t, new, <<>>)
                   /\ last' = [cmd |-> new.cmd, opts |-> new.opts, vpp |-> new.vpp, ok |-> TRUE]
      BY <1>5, LastPasses
    <2> PICK s : s = <<>> OBVIOUS
    <2>1. Left(s) = {} /\ s = <<>> BY NoStep DEF Left
    <2>2. StopKnows(new, s)' BY DEF Passes
    <2>3. new.cmd = "stop" /\ last'.opts = new.opts OBVIOUS
    <2>4. /\ \A c \in Container : Covers(new.opts.service, c) => docker'[c] = Absent
          /\ new.opts.service # "healthcheck" => \A v \in {"telegraf", "vpp"} : v \notin volumes'
      BY <2>1, <2>2, <2>3 DEF StopKnows, Waiting
    <2>5. volumes' \subseteq {"telegraf", "vpp"} BY DEF Types, HostTypeOK
    <2>6. \A c \in Container : Covers(new.opts.service, c) <=>
              IF c = "healthcheck" THEN new.opts.service # "server"
              ELSE new.opts.service # "healthcheck"
      BY DEF Covers
    <2> QED BY <2>3, <2>4, <2>5, <2>6 DEF Container
  <1>6. last'.cmd # "init" OBVIOUS
  <1> QED BY <1>2, <1>3, <1>4, <1>5, <1>6, NothingRuns

-----------------------------------------------------------------------------
(* An initialisation. *)

LEMMA InitGoes ==
    ASSUME Types, NEW t \in Terminal, InitStep(t), ~ReturnError(t)
    PROVE  \E l, x, s :
              /\ l = term[t] /\ l.cmd = "init" /\ CommandForm(l) /\ At(t, x) /\ x \in InitSteps(l.opts)
              /\ l.opts \in InitChoices /\ l.dir \in Dir
              /\ Left(l.todo) = {x} \cup Left(s) /\ x \notin Left(s)
              /\ Step("check", "host") \notin Left(s)
              /\ (x = Step("name", "host")) => s = <<>>
              /\ term' = [term EXCEPT ![t] = Afterwards(l, s)] /\ last' = Said(l, s)
  <1>1. PICK x : At(t, x) /\ GoOn(t) /\ Rank(x) \in 1..6
    <2>1. \A i \in Kind : Rank(Step("write", i)) \in 1..6 BY RankTable DEF Kind
    <2>2. Rank(Step("check", "host")) \in 1..6 /\ Rank(Step("name", "host")) \in 1..6
      BY RankTable
    <2> QED BY <2>1, <2>2 DEF InitStep, Check, SaveEgvpnConfig, SaveEgvpnConfigFails, Write,
           WriteFails
  <1>2. /\ term[t].cmd = "init" /\ term[t].opts \in InitChoices /\ term[t].dir \in Dir
        /\ x \in InitSteps(term[t].opts)
    BY <1>1, InInit
  <1>3. PICK l, s : /\ l = term[t] /\ s = Tail(l.todo) /\ x = Head(l.todo)
                    /\ CommandForm(l) /\ l.todo # <<>> /\ l.cmd # "none"
                    /\ l.todo \in Seq(AnyStep) /\ s \in Seq(AnyStep)
                    /\ Left(l.todo) = {x} \cup Left(s)
                    /\ \A y \in Left(s) : Behind(x, y)
                    /\ \A y : (Rank(y) \in 1..28 /\ Rank(y) <= Rank(x) /\ y # Line) => y \notin Left(s)
                    /\ term' = [term EXCEPT ![t] = Afterwards(l, s)] /\ last' = Said(l, s)
    BY <1>1, StepsOn
  <1>4. Rank(Line) = 25 /\ Rank(Step("check", "host")) = 1 /\ Rank(Step("name", "host")) = 6
    BY RankTable
  <1>5. x # Line /\ Step("check", "host") # Line
    <2>1. 25 \notin 1..6 OBVIOUS
    <2> QED BY <1>1, <1>4, <2>1
  <1>6. Step("check", "host") \notin Left(s)
    <2>1. Rank(Step("check", "host")) \in 1..28 /\ Rank(Step("check", "host")) <= Rank(x)
      BY <1>1, <1>4
    <2> QED BY <1>3, <1>5, <2>1
  <1>7. x \notin Left(s)
    <2>1. Rank(x) \in 1..28 /\ Rank(x) <= Rank(x) BY <1>1
    <2> QED BY <1>3, <1>5, <2>1
  <1>8. ASSUME x = Step("name", "host") PROVE s = <<>>
    <2>1. Left(s) \subseteq InitSteps(l.opts) BY <1>2, <1>3 DEF CommandForm
    <2>2. \A y \in Left(s) : Rank(y) \in 1..6 BY <1>2, <1>3, <2>1, InitMembers
    <2>3. \A y \in Left(s) : Rank(y) \in 1..28 /\ Rank(y) <= Rank(x) BY <1>4, <1>8, <2>2
    <2>4. Line \notin Left(s) BY <1>4, <2>2
    <2>5. Left(s) = {} BY <1>3, <2>3, <2>4
    <2> QED BY <1>3, <2>5, TailLeft
  <1> QED BY <1>1, <1>2, <1>3, <1>6, <1>7, <1>8

(* A step does not go on and fail at once. *)
LEMMA GoOnIsNoError ==
    ASSUME NEW t \in Terminal, NEW x, Types, At(t, x), GoOn(t)
    PROVE  ~ReturnError(t)
  <1> SUFFICES ASSUME ReturnError(t) PROVE FALSE OBVIOUS
  <1>1. CommandForm(term[t]) /\ term[t].todo # <<>> /\ DOMAIN term = Terminal BY AtStep
  <1> PICK l : l = term[t] OBVIOUS
  <1> PICK s : s = Tail(l.todo) OBVIOUS
  <1>2. term' = [term EXCEPT ![t] = Afterwards(l, s)] /\ last' = Said(l, s) BY <1>1, GoesOn
  <1>3. term' = [term EXCEPT ![t] = Idle] /\ last'.ok = FALSE BY DEF ReturnError
  <1>4. CASE s = <<>>
    <2>1. last'.ok = TRUE BY <1>2, <1>4 DEF Said
    <2> QED BY <1>3, <2>1
  <1>5. CASE s # <<>>
    <2>1. Afterwards(l, s) = Idle BY <1>1, <1>2, <1>3
    <2>2. Afterwards(l, s) = [l EXCEPT !.todo = s] BY <1>5 DEF Afterwards
    <2>3. Afterwards(l, s).todo = s BY <1>1, <2>2 DEF CommandForm
    <2>4. Idle.todo = <<>> BY DEF Idle
    <2> QED BY <1>5, <2>1, <2>3, <2>4
  <1> QED BY <1>4, <1>5

LEMMA WriteIsNoError ==
    ASSUME NEW t \in Terminal, NEW k \in Kind, Types, Write(t, k)
    PROVE  InitStep(t) /\ ~ReturnError(t)
  BY GoOnIsNoError DEF Write, InitStep

(* What a step does to the commands: none starts to initialise. *)
InitMove(t) == \E k : /\ term' = [term EXCEPT ![t] = k]
                      /\ k.cmd = "init" => Left(k.todo) = InitSteps(k.opts)

(* What is no successful step of an initialisation leaves it alone or ends it. *)
LEMMA OtherMoves ==
    ASSUME Types, HostNext, ~\E t \in Terminal : InitStep(t) /\ ~ReturnError(t)
    PROVE  term' = term \/ \E t \in Terminal : InitMove(t)
  <1>1. Idle.cmd # "init" BY DEF Idle
  <1>2. CASE Typed BY <1>2, CommandsBegin DEF Beginning, InitMove
  <1>3. ASSUME NEW t \in Terminal, ReturnError(t) \/ Interrupt(t) PROVE InitMove(t)
    BY <1>1, <1>3 DEF ReturnError, Interrupt, InitMove
  <1>4. ASSUME NEW t \in Terminal, StartStep(t) \/ StopStep(t) PROVE InitMove(t)
    <2>1. OwnMove(t) BY <1>4, StepMoves
    <2>2. term[t].cmd # "init" BY <1>4, StepRuns DEF Runs
    <2> QED BY <1>1, <2>1, <2>2 DEF OwnMove, InitMove
  <1> QED BY <1>2, <1>3, <1>4 DEF HostNext, RemoveFile, Exit

(* An initialisation notes the name last. *)
LEMMA NamingStep ==
    ASSUME Types, Naming, HostNext
    PROVE  Naming'
  <1>0. DOMAIN term = Terminal BY DEF Types, Forms
  <1>1. CASE term' = term BY <1>1 DEF Naming
  <1>2. ASSUME NEW t \in Terminal, NEW k, term' = [term EXCEPT ![t] = k],
               k.cmd = "init" =>
                  /\ Step("name", "host") \in Left(k.todo)
                  /\ Step("check", "host") \in Left(k.todo) => Left(k.todo) = InitSteps(k.opts)
        PROVE  Naming'
    <2>1. term'[t] = k /\ \A u \in Terminal : u # t => term'[u] = term[u] BY <1>0, <1>2
    <2> QED BY <1>2, <2>1 DEF Naming
  <1>3. ASSUME NEW t \in Terminal, InitMove(t) PROVE Naming'
    <2>1. \A i : Step("name", "host") \in InitSteps(i) BY DEF InitSteps
    <2>2. PICK k : /\ term' = [term EXCEPT ![t] = k]
                   /\ k.cmd = "init" => Left(k.todo) = InitSteps(k.opts)
      BY <1>3 DEF InitMove
    <2> QED BY <1>2, <2>1, <2>2
  <1>4. ASSUME NEW t \in Terminal, InitStep(t), ~ReturnError(t) PROVE Naming'
    <2>1. PICK l, x, s :
              /\ l = term[t] /\ l.cmd = "init" /\ CommandForm(l) /\ At(t, x) /\ x \in InitSteps(l.opts)
              /\ l.opts \in InitChoices /\ l.dir \in Dir
              /\ Left(l.todo) = {x} \cup Left(s) /\ x \notin Left(s)
              /\ Step("check", "host") \notin Left(s)
              /\ (x = Step("name", "host")) => s = <<>>
              /\ term' = [term EXCEPT ![t] = Afterwards(l, s)] /\ last' = Said(l, s)
      BY <1>4, InitGoes
    <2>2. CASE s = <<>>
      <3>1. Afterwards(l, s) = Idle /\ Idle.cmd # "init" BY <2>2 DEF Afterwards, Idle
      <3> QED BY <1>2, <2>1, <3>1
    <2>3. CASE s # <<>>
      <3>1. Afterwards(l, s) = [l EXCEPT !.todo = s] BY <2>3 DEF Afterwards
      <3>2. Step("name", "host") \in Left(s) BY <2>1, <2>3 DEF Naming
      <3>3. Afterwards(l, s).todo = s BY <2>1, <3>1 DEF CommandForm
      <3> QED BY <1>2, <2>1, <3>2, <3>3
    <2> QED BY <2>2, <2>3
  <1> QED BY <1>1, <1>3, <1>4, OtherMoves

(* How the files change. *)
LEMMA DiskChanges ==
    ASSUME Types, HostNext
    PROVE  \/ disk' = disk
           \/ \E d \in Dir, k \in Kind : RemoveFile(d, k)
           \/ \E t \in Terminal, k \in Kind :
                 /\ Write(t, k) /\ term[t].cmd = "init" /\ term[t].dir \in Dir
                 /\ term[t].opts.name \in Name /\ Written(term[t].opts, k) # Absent
                 /\ Step("write", k) \in Left(term[t].todo)
                 /\ Step("check", "host") \notin Left(term[t].todo)
                 /\ \A d \in Dir, i \in Kind :
                       disk'[d][i] = IF d = term[t].dir /\ i = k THEN Written(term[t].opts, k)
                                     ELSE disk[d][i]
  <1>1. ASSUME NEW t \in Terminal, NEW k \in Kind, Write(t, k)
        PROVE  /\ term[t].cmd = "init" /\ term[t].dir \in Dir
               /\ term[t].opts.name \in Name /\ Written(term[t].opts, k) # Absent
               /\ Step("write", k) \in Left(term[t].todo)
               /\ Step("check", "host") \notin Left(term[t].todo)
               /\ \A d \in Dir, i \in Kind :
                     disk'[d][i] = IF d = term[t].dir /\ i = k THEN Written(term[t].opts, k)
                                   ELSE disk[d][i]
    <2> PICK x : x = Step("write", k) OBVIOUS
    <2>1. At(t, x) /\ GoOn(t) BY <1>1 DEF Write
    <2>2. Rank(x) \in 2..5 /\ Rank(Step("check", "host")) = 1 /\ Rank(Line) = 25
      <3>1. Rank(x) \in 2..5 BY RankTable DEF Kind
      <3>2. Rank(Step("check", "host")) = 1 /\ Rank(Line) = 25 BY RankTable
      <3> QED BY <3>1, <3>2
    <2>3. Rank(x) <= 6 BY <2>2
    <2>4. term[t].cmd = "init" /\ term[t].opts \in InitChoices /\ term[t].dir \in Dir
      BY <2>1, <2>3, InInit
    <2>5. Written(term[t].opts, k) # Absent
      <3>1. term[t].opts.name \in Name BY <2>4 DEF InitChoices
      <3> QED BY <3>1, WrittenValues, NoneIsAbsent DEF Kind
    <2>6. PICK l, s : /\ l = term[t] /\ Left(l.todo) = {x} \cup Left(s)
                      /\ \A y : (Rank(y) \in 1..28 /\ Rank(y) <= Rank(x) /\ y # Line) => y \notin Left(s)
      BY <2>1, StepsOn
    <2>7. Step("check", "host") \notin Left(s)
      <3>1. Rank(Step("check", "host")) \in 1..28 /\ Rank(Step("check", "host")) <= Rank(x)
            /\ Step("check", "host") # Line
        BY <2>2
      <3> QED BY <2>6, <3>1
    <2>8. x # Step("check", "host") BY StepsDiffer
    <2>9. disk' = [disk EXCEPT ![term[t].dir][k] = Written(term[t].opts, k)] BY <1>1 DEF Write
    <2>10. disk \in [Dir -> [Kind -> Content]] BY DEF Types, HostTypeOK
    <2>11. \A d \in Dir, i \in Kind :
              disk'[d][i] = IF d = term[t].dir /\ i = k THEN Written(term[t].opts, k)
                            ELSE disk[d][i]
      BY <2>4, <2>9, <2>10
    <2> QED BY <2>4, <2>5, <2>6, <2>7, <2>8, <2>11 DEF InitChoices
  <1>2. CASE \E t \in Terminal, k \in Kind : Write(t, k) BY <1>1, <1>2, SMTT(30)
  <1>3. CASE ~\E t \in Terminal, k \in Kind : Write(t, k)
    BY <1>3, CommandsBegin, ZenonT(40)
    DEF HostNext, InitStep, StartStep, StopStep, Beginning, Interrupt, Check, SaveEgvpnConfig,
        SaveEgvpnConfigFails, WriteFails, Verify, NotInstalled, ReadPages, ReadPagesFails,
        WritePages, SaveRestartOpts, SaveRestartOptsFails, RunServerOrHealthcheck, RunVpp,
        RunTelegraf, RunFails, CreateVolume, ConnectVpp, ApplyLine, ScanFails, StopContainer,
        RemoveContainer, RemoveVolume, Exit
  <1> QED BY <1>2, <1>3

(* The files an initialisation will write are still missing. *)
LEMMA FilesMissingStep ==
    ASSUME Types, Alone, Naming, FilesMissing, HostNext
    PROVE  FilesMissing'
  <1> SUFFICES ASSUME Unless({"two-inits"})', NEW u \in Terminal, NEW i \in Kind,
                      NEW k, k = term'[u], k.cmd = "init", Step("check", "host") \notin Left(k.todo),
                      Step("write", i) \in Left(k.todo)
               PROVE  disk'[k.dir][i] = Absent
    BY DEF FilesMissing, Initialises
  <1>0. DOMAIN term = Terminal /\ \A t \in Terminal : CommandForm(term[t]) BY DEF Types, Forms
  <1>1. causes \subseteq causes' BY CausesGrow
  <1>2. Unless({"two-inits"}) BY <1>1 DEF Unless
  <1>3. /\ \A t, v \in Terminal : term[t].cmd = "init" /\ term[v].cmd = "init" => t = v
    BY <1>2 DEF Alone
  <1>4. \A t \in Terminal, q \in Kind :
            term[t].cmd = "init" /\ Step("check", "host") \notin Left(term[t].todo)
            /\ Step("write", q) \in Left(term[t].todo) => disk[term[t].dir][q] = Absent
    BY <1>2 DEF FilesMissing, Initialises
  <1>5. ASSUME term[u].cmd = "init", term[u].dir = k.dir, k.dir \in Dir,
               disk[k.dir][i] = Absent,
               \A t \in Terminal, q \in Kind : Write(t, q) /\ t = u => q # i
        PROVE  disk'[k.dir][i] = Absent
    <2>1. CASE disk' = disk BY <1>5, <2>1
    <2>2. ASSUME NEW d \in Dir, NEW q \in Kind, RemoveFile(d, q) PROVE disk'[k.dir][i] = Absent
      <3>1. disk' = [disk EXCEPT ![d][q] = Absent] BY <2>2 DEF RemoveFile
      <3>2. disk \in [Dir -> [Kind -> Content]] BY DEF Types, HostTypeOK
      <3> QED BY <1>5, <3>1, <3>2
    <2>3. ASSUME NEW t \in Terminal, NEW q \in Kind, Write(t, q), term[t].cmd = "init",
                 disk'[k.dir][i] = IF k.dir = term[t].dir /\ i = q THEN Written(term[t].opts, q)
                                   ELSE disk[k.dir][i]
          PROVE  disk'[k.dir][i] = Absent
      <3>1. t = u BY <1>3, <1>5, <2>3
      <3> QED BY <1>5, <2>3, <3>1
    <2> QED BY <1>5, <2>1, <2>2, <2>3, DiskChanges
  <1>6. CASE /\ \E t \in Terminal : InitMove(t) /\ (t = u \/ term'[u] = term[u])
             /\ \A t \in Terminal, q \in Kind : ~Write(t, q)
    <2> PICK t \in Terminal : InitMove(t) /\ (t = u \/ term'[u] = term[u]) BY <1>6
    <2>1. t # u
      <3> SUFFICES ASSUME t = u PROVE FALSE OBVIOUS
      <3>1. Left(k.todo) = InitSteps(k.opts) BY <1>0 DEF InitMove
      <3> QED BY <3>1 DEF InitSteps
    <2>2. term[u] = k BY <2>1
    <2>3. k.dir \in Dir BY <1>0, <2>2 DEF CommandForm
    <2> QED BY <1>4, <1>5, <1>6, <2>2, <2>3
  <1>7. CASE term' = term /\ \A t \in Terminal, q \in Kind : ~Write(t, q)
    <2>1. term[u] = k /\ k.dir \in Dir BY <1>0, <1>7 DEF CommandForm
    <2> QED BY <1>4, <1>5, <1>7, <2>1
  <1>8. ASSUME NEW t \in Terminal, InitStep(t), ~ReturnError(t) PROVE disk'[k.dir][i] = Absent
    <2>1. PICK l, x, s :
              /\ l = term[t] /\ l.cmd = "init" /\ CommandForm(l) /\ At(t, x) /\ x \in InitSteps(l.opts)
              /\ l.opts \in InitChoices /\ l.dir \in Dir
              /\ Left(l.todo) = {x} \cup Left(s) /\ x \notin Left(s)
              /\ Step("check", "host") \notin Left(s)
              /\ (x = Step("name", "host")) => s = <<>>
              /\ term' = [term EXCEPT ![t] = Afterwards(l, s)] /\ last' = Said(l, s)
      BY <1>8, InitGoes
    <2>2. t = u
      <3> SUFFICES ASSUME t # u PROVE FALSE OBVIOUS
      <3>1. term'[u] = term[u] BY <1>0, <2>1
      <3> QED BY <1>3, <2>1, <3>1
    <2>3. k = Afterwards(l, s) BY <1>0, <2>1, <2>2
    <2>4. s # <<>> BY <2>3 DEF Afterwards, Idle
    <2>5. k = [l EXCEPT !.todo = s] BY <2>3, <2>4 DEF Afterwards
    <2>6. k.todo = s /\ k.dir = l.dir /\ k.opts = l.opts BY <2>1, <2>5 DEF CommandForm
    <2>7. Step("write", i) \in Left(l.todo) /\ x # Step("write", i) BY <2>1, <2>6
    <2>8. disk[l.dir][i] = Absent
      <3>1. CASE x = Step("check", "host")
        <4>1. Check(t)
          <5>1. \A q \in Kind : Step("write", q) # x /\ Step("name", "host") # x BY <3>1, StepsDiffer
          <5>2. ~At(t, Step("name", "host")) /\ \A q \in Kind : ~At(t, Step("write", q))
            BY <2>1, <5>1 DEF At
          <5> QED BY <1>8, <5>2 DEF InitStep, SaveEgvpnConfig, SaveEgvpnConfigFails, Write,
                 WriteFails
        <4>2. ~\E q \in Wanted(l.opts) : disk[l.dir][q] # Absent BY <1>8, <2>1, <4>1 DEF Check
        <4>3. Step("write", i) \in InitSteps(l.opts) BY <2>1, <2>7 DEF CommandForm
        <4>4. i \in Wanted(l.opts) BY <2>1, <4>3, InitMembers
        <4> QED BY <4>2, <4>4
      <3>2. CASE x # Step("check", "host")
        <4>1. Step("check", "host") \notin Left(l.todo) BY <2>1, <2>6, <3>2
        <4> QED BY <1>4, <2>1, <2>2, <2>7, <4>1
      <3> QED BY <3>1, <3>2
    <2>9. \A v \in Terminal, q \in Kind : Write(v, q) /\ v = u => q # i
      <3>1. \A q \in Kind : Write(u, q) => x = Step("write", q) BY <2>1, <2>2 DEF Write, At
      <3> QED BY <2>7, <3>1
    <2> QED BY <1>5, <2>1, <2>2, <2>6, <2>8, <2>9
  <1>9. \A t \in Terminal : InitMove(t) => t = u \/ term'[u] = term[u] BY <1>0 DEF InitMove
  <1>10. CASE ~\E t \in Terminal : InitStep(t) /\ ~ReturnError(t)
    <2>1. \A t \in Terminal, q \in Kind : ~Write(t, q) BY <1>10, WriteIsNoError
    <2>2. term' = term \/ \E t \in Terminal : InitMove(t) BY <1>10, OtherMoves
    <2> QED BY <1>6, <1>7, <1>9, <2>1, <2>2
  <1> QED BY <1>8, <1>10

-----------------------------------------------------------------------------
(* What was saved can be started again. *)

(* What is left becomes less with every step, but for the pages to be asked   *)
(* for, until the files have been found.                                     *)
ShrinksTo(t, k) ==
    \/ k = Idle
    \/ /\ k.cmd = term[t].cmd /\ k.dir = term[t].dir
       /\ \/ Left(k.todo) \subseteq Left(term[t].todo) \cup {Setting}
          \/ /\ Verifying \notin Left(k.todo) /\ disk' = disk
             /\ \A i \in Needed(disk[k.dir]["config"] = "vpp") : disk[k.dir][i] # Absent

Shrinks(t) == \E k : term' = [term EXCEPT ![t] = k] /\ ShrinksTo(t, k)

(* A command never gets back a step that it has done. *)
LEMMA AfterShrinks ==
    ASSUME NEW t \in Terminal, NEW new, NEW s, new.cmd = term[t].cmd, new.dir = term[t].dir,
           new \in [cmd : Command, todo : Seq(AnyStep), opts : Asked \cup {Absent},
                    dir : Dir \cup {Absent}, vpp : BOOLEAN],
           term' = [term EXCEPT ![t] = Afterwards(new, s)],
           s # <<>> =>
              \/ Left(s) \subseteq Left(term[t].todo) \cup {Setting}
              \/ /\ Verifying \notin Left(s) /\ disk' = disk
                 /\ \A i \in Needed(disk[new.dir]["config"] = "vpp") : disk[new.dir][i] # Absent
    PROVE  Shrinks(t)
  <1> PICK k : k = Afterwards(new, s) OBVIOUS
  <1>1. CASE s = <<>>
    <2>1. k = Idle BY <1>1 DEF Afterwards
    <2> QED BY <2>1 DEF Shrinks, ShrinksTo
  <1>2. CASE s # <<>>
    <2>1. k = [new EXCEPT !.todo = s] BY <1>2 DEF Afterwards
    <2>2. k.cmd = new.cmd /\ k.dir = new.dir /\ k.todo = s BY <2>1
    <2>3. term' = [term EXCEPT ![t] = k] OBVIOUS
    <2>4. \/ Left(k.todo) \subseteq Left(term[t].todo) \cup {Setting}
          \/ /\ Verifying \notin Left(k.todo) /\ disk' = disk
             /\ \A i \in Needed(disk[k.dir]["config"] = "vpp") : disk[k.dir][i] # Absent
      BY <1>2, <2>2
    <2>5. k.cmd = term[t].cmd /\ k.dir = term[t].dir BY <2>2
    <2>6. ShrinksTo(t, k) BY <2>4, <2>5 DEF ShrinksTo
    <2> QED BY <2>3, <2>6 DEF Shrinks
  <1> QED BY <1>1, <1>2

LEMMA GoOnShrinks ==
    ASSUME NEW t \in Terminal, NEW x, Types, At(t, x), GoOn(t)
    PROVE  Shrinks(t)
  <1> PICK l : l = term[t] OBVIOUS
  <1> PICK s : s = Tail(l.todo) OBVIOUS
  <1>1. CommandForm(l) /\ l.todo # <<>> /\ DOMAIN term = Terminal /\ x = Head(l.todo) BY AtStep
  <1>2. term' = [term EXCEPT ![t] = Afterwards(l, s)] BY <1>1, GoesOn
  <1>3. l \in [cmd : Command, todo : Seq(AnyStep), opts : Asked \cup {Absent},
               dir : Dir \cup {Absent}, vpp : BOOLEAN]
    BY <1>1 DEF CommandForm
  <1>4. Left(s) \subseteq Left(l.todo) BY <1>1, <1>3, TailLeft
  <1> QED BY <1>2, <1>3, <1>4, AfterShrinks

LEMMA ErrorShrinks ==
    ASSUME NEW t \in Terminal, ReturnError(t)
    PROVE  Shrinks(t)
  BY DEF ReturnError, Shrinks, ShrinksTo

LEMMA StepShrinks ==
    ASSUME NEW t \in Terminal, Types, InitStep(t) \/ StartStep(t) \/ StopStep(t)
    PROVE  Shrinks(t)
  <1> PICK l : l = term[t] OBVIOUS
  <1>0. l.todo # <<>> => l \in [cmd : Command, todo : Seq(AnyStep), opts : Asked \cup {Absent},
                                dir : Dir \cup {Absent}, vpp : BOOLEAN]
    BY DEF Types, Forms, CommandForm
  <1>1. CASE InitStep(t)
    BY <1>1, GoOnShrinks, ErrorShrinks DEF InitStep, Check, SaveEgvpnConfig,
           SaveEgvpnConfigFails, Write, WriteFails
  <1>2. CASE StopStep(t)
    BY <1>2, GoOnShrinks DEF StopStep, StopContainer, RemoveContainer, RemoveVolume
  <1>3. CASE Verify(t) /\ ~ReturnError(t)
    <2>1. At(t, Verifying) BY <1>3 DEF Verify, Verifying
    <2>2. l.todo # <<>> /\ l.opts \in Options
      <3>1. Rank(Verifying) \in 17..28 BY RankTable
      <3> QED BY <2>1, <3>1, InStart, AtStep
    <2>3. PICK vpp \in BOOLEAN :
                /\ vpp = (disk[l.dir]["config"] = "vpp")
                /\ \A k \in Needed(vpp) : disk[l.dir][k] # Absent
                /\ term' = [term EXCEPT ![t] = Afterwards([l EXCEPT !.vpp = vpp], Starting(l.opts, vpp))]
      BY <1>3, VerifyMoves
    <2> PICK new : new = [l EXCEPT !.vpp = vpp] OBVIOUS
    <2> PICK s : s = Starting(l.opts, vpp) OBVIOUS
    <2>4. /\ new \in [cmd : Command, todo : Seq(AnyStep), opts : Asked \cup {Absent},
                      dir : Dir \cup {Absent}, vpp : BOOLEAN]
          /\ new.cmd = l.cmd /\ new.dir = l.dir
      BY <1>0, <2>2
    <2>5. Verifying \notin Left(s)
      <3>1. Left(s) = StartSteps(l.opts, vpp) BY <2>2, StartingForm
      <3>2. \A x \in Left(s) : Rank(x) \in {18} \cup 20..28 BY <3>1, StartMembers
      <3>3. Rank(Verifying) = 17 /\ 17 \notin {18} \cup 20..28 BY RankTable
      <3> QED BY <3>2, <3>3
    <2>6. disk' = disk BY <1>3 DEF Verify
    <2>7. \A i \in Needed(disk[new.dir]["config"] = "vpp") : disk[new.dir][i] # Absent
      BY <2>3, <2>4
    <2> QED BY <2>3, <2>4, <2>5, <2>6, <2>7, AfterShrinks, ZenonT(40)
  <1>4. CASE ReadPages(t)
    <2>1. At(t, Asking) BY <1>4 DEF ReadPages, Asking
    <2>2. CASE pages < l.opts.pages
      <3>1. PICK s \in Seq(AnyStep) :
                  /\ Left(s) = {Setting} \cup Left(Tail(l.todo))
                  /\ term' = [term EXCEPT ![t] = Afterwards(l, s)]
        BY <1>4, <2>1, <2>2, PagesMoves
      <3>2. l.todo # <<>> BY <2>1, AtStep
      <3>3. Left(Tail(l.todo)) \subseteq Left(l.todo) BY <1>0, <3>2, TailLeft
      <3>4. Left(s) \subseteq Left(l.todo) \cup {Setting} BY <3>1, <3>3
      <3>5. l \in [cmd : Command, todo : Seq(AnyStep), opts : Asked \cup {Absent},
                   dir : Dir \cup {Absent}, vpp : BOOLEAN]
        BY <1>0, <3>2
      <3> QED BY <3>1, <3>4, <3>5, AfterShrinks
    <2>3. CASE ~(pages < l.opts.pages) BY <1>4, <2>1, <2>3, GoOnShrinks DEF ReadPages
    <2> QED BY <2>2, <2>3
  <1>5. CASE RunTelegraf(t) /\ ~ReturnError(t)
    <2>1. At(t, Step("run", "telegraf")) BY <1>5 DEF RunTelegraf
    <2>2. l.todo # <<>> BY <2>1, AtStep
    <2> PICK s : s = Tail(l.todo) OBVIOUS
    <2>3. PICK new :
              /\ new = [l EXCEPT !.opts = new.opts] /\ new.opts \in Options
              /\ term' = [term EXCEPT ![t] = Afterwards(new, s)]
      BY <1>5, TelegrafMoves
    <2>4. /\ new \in [cmd : Command, todo : Seq(AnyStep), opts : Asked \cup {Absent},
                      dir : Dir \cup {Absent}, vpp : BOOLEAN]
          /\ new.cmd = l.cmd /\ new.dir = l.dir
      BY <1>0, <2>2, <2>3 DEF Asked
    <2>5. Left(s) \subseteq Left(l.todo) BY <1>0, <2>2, TailLeft
    <2> QED BY <2>3, <2>4, <2>5, AfterShrinks
  <1>6. CASE ScanFails(t)
    <2>1. PICK s : /\ At(t, Line) /\ Rest(l.todo, s)
                   /\ term' = [term EXCEPT ![t] = Afterwards(l, s)]
      BY <1>6, ScanMoves
    <2>2. l.todo # <<>> BY <2>1, AtStep
    <2>3. Left(s) \subseteq Left(l.todo) BY <2>1 DEF Rest
    <2> QED BY <1>0, <2>1, <2>2, <2>3, AfterShrinks
  <1>7. CASE StartStep(t) /\ ~Verify(t) /\ ~ReadPages(t) /\ ~RunTelegraf(t) /\ ~ScanFails(t)
    BY <1>7, GoOnShrinks, ErrorShrinks
    DEF StartStep, NotInstalled, ReadPagesFails, WritePages, SaveRestartOpts,
        SaveRestartOptsFails, RunServerOrHealthcheck, RunVpp, RunFails, CreateVolume, ConnectVpp,
        ApplyLine
  <1> QED BY <1>1, <1>2, <1>3, <1>4, <1>5, <1>6, <1>7, ErrorShrinks

(* Files that are enough to start from stay so: no initialisation changes one. *)
LEMMA StartableStays ==
    ASSUME Types, FilesMissing, HostNext, Unless({"two-inits", "removed"})', NEW d \in Dir,
           Startable(d)
    PROVE  Startable(d)'
  <1>1. causes \subseteq causes' BY CausesGrow
  <1>2. Unless({"two-inits"}) /\ "removed" \notin causes' BY <1>1 DEF Unless
  <1>3. CASE disk' = disk BY <1>3 DEF Startable, Needed
  <1>4. ASSUME NEW e \in Dir, NEW k \in Kind, RemoveFile(e, k) PROVE FALSE
    BY <1>2, <1>4 DEF RemoveFile, Because
  <1>5. ASSUME NEW t \in Terminal, NEW k \in Kind, term[t].cmd = "init", term[t].dir \in Dir,
               Step("write", k) \in Left(term[t].todo),
               Step("check", "host") \notin Left(term[t].todo),
               Written(term[t].opts, k) # Absent,
               \A e \in Dir, i \in Kind :
                   disk'[e][i] = IF e = term[t].dir /\ i = k THEN Written(term[t].opts, k)
                                 ELSE disk[e][i]
        PROVE  Startable(d)'
    <2>1. disk[term[t].dir][k] = Absent BY <1>2, <1>5 DEF FilesMissing, Initialises
    <2>2. disk[d]["config"] # Absent BY DEF Startable, Needed
    <2>3. disk'[d]["config"] = disk[d]["config"] BY <1>5, <2>1, <2>2 DEF Kind
    <2>4. \A v \in BOOLEAN : Needed(v) \subseteq Kind BY DEF Needed, Kind
    <2>5. \A i \in Kind : disk[d][i] # Absent => disk'[d][i] # Absent BY <1>5
    <2> DEFINE v == disk[d]["config"] = "vpp"
    <2>6. \A i \in Needed(v) : disk'[d][i] # Absent BY <2>4, <2>5 DEF Startable
    <2>7. v = (disk'[d]["config"] = "vpp") BY <2>3
    <2> HIDE DEF v
    <2>8. \A i \in Needed(disk'[d]["config"] = "vpp") : disk'[d][i] # Absent BY <2>6, <2>7
    <2> QED BY <2>8 DEF Startable, Needed
  <1> QED BY <1>3, <1>4, <1>5, DiskChanges

(* Who saves the options, and what a write of them that fails leaves. *)
LEMMA SavedChanges ==
    ASSUME Types, HostNext
    PROVE  \/ saved' = saved
           \/ saved' \in {saved, Absent} /\ "not-saved" \in causes'
           \/ \E t \in Terminal :
                /\ At(t, Noting) /\ Runs(term[t]) /\ term[t].dir \in Dir /\ StartStep(t)
                /\ Noting \in Left(term[t].todo) /\ Verifying \notin Left(term[t].todo)
                /\ saved'.dir = term[t].dir /\ term[t].cmd \in {"start", "restart"}
  <1>1. ASSUME NEW t \in Terminal, SaveRestartOpts(t)
        PROVE  /\ At(t, Noting) /\ Runs(term[t]) /\ term[t].dir \in Dir /\ StartStep(t)
               /\ Noting \in Left(term[t].todo) /\ Verifying \notin Left(term[t].todo)
               /\ saved'.dir = term[t].dir /\ term[t].cmd \in {"start", "restart"}
    <2>1. At(t, Noting) /\ saved' = [opts |-> term[t].opts, dir |-> term[t].dir]
      BY <1>1 DEF SaveRestartOpts, Noting
    <2>2. Rank(Noting) \in 17..28 /\ Rank(Noting) >= 18 BY RankTable
    <2>3. CommandForm(term[t]) /\ term[t].todo # <<>> /\ Noting = Head(term[t].todo)
      BY <2>1, AtStep
    <2>4. Noting \in Left(term[t].todo) BY <2>3, Doing, SMTT(30)
    <2> QED BY <1>1, <2>1, <2>2, <2>4, InStart DEF Runs, StartStep
  <1>2. CASE \E t \in Terminal : SaveRestartOptsFails(t)
    BY <1>2 DEF SaveRestartOptsFails, Because
  <1>3. CASE ~\E t \in Terminal : SaveRestartOpts(t) \/ SaveRestartOptsFails(t)
    BY <1>3, CommandsBegin, ZenonT(40)
    DEF HostNext, InitStep, StartStep, StopStep, Beginning, Interrupt, Check, SaveEgvpnConfig,
        SaveEgvpnConfigFails, Write, WriteFails, Verify, NotInstalled, ReadPages, ReadPagesFails,
        WritePages, RunServerOrHealthcheck, RunVpp, RunTelegraf, RunFails, CreateVolume,
        ConnectVpp, ApplyLine, ScanFails, StopContainer, RemoveContainer, RemoveVolume,
        RemoveFile, Exit
  <1> QED BY <1>1, <1>2, <1>3

(* The directory that was saved has what a start needs. *)
LEMMA RestartableStep ==
    ASSUME Types, Types', Alone, FilesMissing, Restartable, HostNext
    PROVE  Restartable'
  <1>0. DOMAIN term = Terminal /\ \A t \in Terminal : CommandForm(term[t]) BY DEF Types, Forms
  <1>1. causes \subseteq causes' BY CausesGrow
  <1>2. Noting # Setting /\ Verifying # Setting /\ Noting # Verifying
    BY StepsDiffer DEF Noting, Setting, Verifying
  <1>3. ASSUME Unless({"two-inits", "removed"})'
        PROVE  /\ saved # Absent => Startable(saved.dir)
               /\ \A t \in Terminal :
                     term[t].cmd \in {"start", "restart"} /\ Noting \in Left(term[t].todo) =>
                         Startable(term[t].dir)
    BY <1>1, <1>3 DEF Restartable, Unless
  <1>4. ASSUME Unless({"two-inits", "removed"})', saved' # Absent PROVE Startable(saved.dir)'
    <2>1. CASE saved' = saved
      <3> PICK d : d = saved.dir OBVIOUS
      <3>1. d \in Dir BY <1>4, <2>1 DEF Types, HostTypeOK, Saved
      <3>2. Startable(d)' BY <1>3, <1>4, <2>1, <3>1, StartableStays
      <3> QED BY <2>1, <3>2 DEF Startable
    <2>2. ASSUME NEW t \in Terminal, term[t].dir \in Dir, Noting \in Left(term[t].todo),
                 saved'.dir = term[t].dir, term[t].cmd \in {"start", "restart"}
          PROVE  Startable(saved.dir)'
      <3> PICK d : d = term[t].dir OBVIOUS
      <3>1. Startable(d)' BY <1>3, <1>4, <2>2, StartableStays
      <3> QED BY <2>2, <3>1 DEF Startable
    <2> QED BY <1>4, <2>1, <2>2, SavedChanges
  <1>5. ASSUME Unless({"two-inits", "removed"})', NEW u \in Terminal,
               term'[u].cmd \in {"start", "restart"}, Noting \in Left(term'[u].todo)
        PROVE  Startable(term[u].dir)'
    <2> PICK k : k = term'[u] OBVIOUS
    <2>0. CommandForm(k) BY DEF Types, Forms
    <2> PICK d : d = k.dir OBVIOUS
    <2>1. d \in Dir BY <1>5, <2>0 DEF CommandForm
    <2>2. CASE Startable(d)
      <3>1. Startable(d)' BY <1>5, <2>1, <2>2, StartableStays
      <3> QED BY <3>1 DEF Startable
    <2>3. CASE term'[u] = term[u] BY <1>3, <1>5, <2>2, <2>3
    <2>4. ASSUME NEW t \in Terminal, NEW why, Beginning(t, k, why) PROVE FALSE
      <3>1. k.cmd = "start" => Left(k.todo) = {Verifying} BY <2>4 DEF Beginning
      <3>2. k.cmd = "restart" => Left(k.todo) = {Verifying} \cup StopSteps(k.opts.service)
        BY <2>4 DEF Beginning
      <3>3. Noting \notin StopSteps(k.opts.service) BY StepsDiffer DEF StopSteps, Noting
      <3> QED BY <1>2, <1>5, <3>1, <3>2, <3>3
    <2>5. ASSUME NEW t \in Terminal, Shrinks(t), term'[u] # term[u] PROVE Startable(d)
      <3>1. PICK q : /\ term' = [term EXCEPT ![t] = q]
                     /\ \/ q = Idle
                        \/ /\ q.cmd = term[t].cmd /\ q.dir = term[t].dir
                           /\ \/ Left(q.todo) \subseteq Left(term[t].todo) \cup {Setting}
                              \/ /\ Verifying \notin Left(q.todo) /\ disk' = disk
                                 /\ \A i \in Needed(disk[q.dir]["config"] = "vpp") :
                                       disk[q.dir][i] # Absent
        BY <2>5 DEF Shrinks, ShrinksTo
      <3>2. t = u /\ q = k BY <1>0, <2>5, <3>1
      <3>3. k # Idle BY <1>5 DEF Idle
      <3>4. CASE Left(k.todo) \subseteq Left(term[u].todo) \cup {Setting}
        BY <1>2, <1>3, <1>5, <3>1, <3>2, <3>3, <3>4
      <3>5. CASE \A i \in Needed(disk[k.dir]["config"] = "vpp") : disk[k.dir][i] # Absent
        BY <3>5 DEF Startable
      <3> QED BY <3>1, <3>2, <3>3, <3>4, <3>5
    <2>6. CASE Typed
      <3>1. PICK t \in Terminal : \E q, why : Beginning(t, q, why) BY <2>6, CommandsBegin
      <3>2. PICK q, why : Beginning(t, q, why) BY <3>1
      <3>3. term' = [term EXCEPT ![t] = q] BY <3>2 DEF Beginning
      <3>4. CASE t = u
        <4>1. q = k BY <1>0, <3>3, <3>4
        <4> QED BY <2>4, <3>2, <4>1
      <3>5. CASE t # u BY <2>3, <3>3, <3>5
      <3> QED BY <3>4, <3>5
    <2>7. ASSUME NEW t \in Terminal, Interrupt(t) PROVE Startable(d) \/ term'[u] = term[u]
      <3>1. Shrinks(t) BY <2>7 DEF Interrupt, Shrinks, ShrinksTo
      <3> QED BY <2>5, <3>1
    <2>8. ASSUME NEW t \in Terminal, InitStep(t) \/ StartStep(t) \/ StopStep(t)
          PROVE  Startable(d) \/ term'[u] = term[u]
      BY <2>5, <2>8, StepShrinks
    <2>9. CASE term' = term BY <2>3, <2>9
    <2> QED BY <2>2, <2>3, <2>6, <2>7, <2>8, <2>9 DEF HostNext, RemoveFile, Exit
  <1>6. ASSUME causes' = {}, NEW u \in Terminal, term'[u].cmd = "restart",
               Verifying \in Left(term'[u].todo)
        PROVE  saved' # Absent /\ term'[u].dir = saved'.dir
    <2> PICK k : k = term'[u] OBVIOUS
    <2>0. causes = {} BY <1>1, <1>6
    <2>1. term[u].cmd = "restart" /\ Verifying \in Left(term[u].todo) =>
              saved # Absent /\ term[u].dir = saved.dir
      BY <2>0 DEF Restartable
    <2>2. Unless({"two-runs"}) BY <2>0 DEF Unless
    <2>3. CASE term[u].cmd = "restart" /\ Verifying \in Left(term[u].todo) /\ term[u].dir = k.dir
      <3>1. saved' = saved
        <4> SUFFICES ASSUME NEW t \in Terminal, Runs(term[t]), Verifying \notin Left(term[t].todo)
                     PROVE  FALSE
          BY <1>6, SavedChanges
        <4>1. Runs(term[u]) BY <2>3 DEF Runs
        <4>2. t = u BY <2>2, <4>1 DEF Alone
        <4> QED BY <2>3, <4>2
      <3> QED BY <2>1, <2>3, <3>1
    <2>4. CASE term'[u] = term[u] BY <1>6, <2>3, <2>4
    <2>5. ASSUME NEW t \in Terminal, Shrinks(t), term'[u] # term[u]
          PROVE  saved' # Absent /\ term'[u].dir = saved'.dir
      <3>1. PICK q : /\ term' = [term EXCEPT ![t] = q]
                     /\ \/ q = Idle
                        \/ /\ q.cmd = term[t].cmd /\ q.dir = term[t].dir
                           /\ \/ Left(q.todo) \subseteq Left(term[t].todo) \cup {Setting}
                              \/ Verifying \notin Left(q.todo)
        BY <2>5 DEF Shrinks, ShrinksTo
      <3>2. t = u /\ q = k BY <1>0, <2>5, <3>1
      <3>3. k # Idle BY <1>6 DEF Idle
      <3> QED BY <1>2, <1>6, <2>3, <3>1, <3>2, <3>3
    <2>6. CASE Typed
      <3>1. PICK t \in Terminal : \E q, why : Beginning(t, q, why) BY <2>6, CommandsBegin
      <3>2. PICK q, why : Beginning(t, q, why) BY <3>1
      <3>3. term' = [term EXCEPT ![t] = q] /\ saved' = saved BY <3>2 DEF Beginning
      <3>4. CASE t = u
        <4>1. q = k BY <1>0, <3>3, <3>4
        <4>2. /\ saved # Absent /\ (k.dir = saved.dir \/ why # {})
              /\ causes' = causes \cup (why \cup AtOnce(t, k.cmd))
          BY <1>6, <3>2, <4>1 DEF Beginning
        <4>3. why = {} BY <1>6, <4>2
        <4> QED BY <3>3, <4>2, <4>3
      <3>5. CASE t # u BY <2>4, <3>3, <3>5
      <3> QED BY <3>4, <3>5
    <2>7. ASSUME NEW t \in Terminal, Interrupt(t) PROVE FALSE BY <1>6, <2>7 DEF Interrupt, Because
    <2>8. ASSUME NEW t \in Terminal, InitStep(t) \/ StartStep(t) \/ StopStep(t)
          PROVE  saved' # Absent /\ term'[u].dir = saved'.dir
      BY <2>4, <2>5, <2>8, StepShrinks
    <2>9. CASE term' = term BY <2>4, <2>9
    <2> QED BY <2>6, <2>7, <2>8, <2>9 DEF HostNext, RemoveFile, Exit
  <1> QED BY <1>4, <1>5, <1>6 DEF Restartable

(* A restart fails for a reason. *)
LEMMA RestartStep ==
    ASSUME Types, Alone, Knowing, Restartable, RestartSucceeds, HostNext
    PROVE  RestartSucceeds'
  <1> SUFFICES ASSUME last' # Absent, last'.cmd = "restart", ~last'.ok, causes' = {}
               PROVE  FALSE
    BY DEF RestartSucceeds
  <1>1. causes = {} BY CausesGrow
  <1>2. last' # last BY <1>1 DEF RestartSucceeds
  <1>3. ~Typed
    <2> SUFFICES ASSUME Typed PROVE FALSE OBVIOUS
    <2>1. last' = Absent BY CommandsBegin DEF Beginning
    <2> QED BY <2>1
  <1>4. \A C : Unless(C) BY <1>1 DEF Unless
  <1>5. ASSUME NEW t \in Terminal, InitStep(t) PROVE FALSE
    <2>1. OwnMove(t) BY <1>5, StepMoves
    <2>2. term[t].cmd = "init"
      <3>1. PICK x : At(t, x) /\ Rank(x) \in 1..6
        <4>1. \A i \in Kind : Rank(Step("write", i)) \in 1..6 BY RankTable DEF Kind
        <4>2. Rank(Step("check", "host")) \in 1..6 /\ Rank(Step("name", "host")) \in 1..6
          BY RankTable
        <4> QED BY <1>5, <4>1, <4>2 DEF InitStep, Check, SaveEgvpnConfig, SaveEgvpnConfigFails,
               Write, WriteFails
      <3> QED BY <3>1, InInit
    <2> QED BY <1>2, <2>1, <2>2 DEF OwnMove
  <1>6. ASSUME NEW t \in Terminal, (StartStep(t) /\ ~ReturnError(t)) \/ StopStep(t) PROVE FALSE
    <2> PICK new :
            last' = [cmd |-> new.cmd, opts |-> new.opts, vpp |-> new.vpp, ok |-> TRUE]
      BY <1>2, <1>6, LastPasses
    <2> QED OBVIOUS
  <1>7. ASSUME NEW t \in Terminal, StartStep(t), ReturnError(t) PROVE FALSE
    <2> PICK l : l = term[t] OBVIOUS
    <2>1. l.cmd = "restart" BY <1>7 DEF ReturnError
    <2>2. /\ StopKnows(l, l.todo) /\ StartKnows(l, l.todo) /\ UpKnows(l, l.todo)
      BY <1>4 DEF Knowing
    <2>3. ASSUME NEW x, At(t, x), GoOn(t) PROVE FALSE BY <1>7, <2>3, GoOnIsNoError
    <2>4. CASE Verify(t)
      <3>1. At(t, Verifying) BY <2>4 DEF Verify, Verifying
      <3>2. CommandForm(l) /\ l.todo # <<>> /\ Verifying = Head(l.todo) BY <3>1, AtStep
      <3>3. Verifying \in Left(l.todo) BY <3>2, Doing
      <3>4. saved # Absent /\ l.dir = saved.dir BY <1>1, <2>1, <3>3 DEF Restartable
      <3>5. Startable(l.dir) BY <1>4, <3>4 DEF Restartable
      <3> PICK vpp \in BOOLEAN : vpp = (disk[l.dir]["config"] = "vpp") OBVIOUS
      <3>6. \A k \in Needed(vpp) : disk[l.dir][k] # Absent BY <3>5 DEF Startable
      <3>7. term' = [term EXCEPT ![t] = Afterwards([l EXCEPT !.vpp = vpp], Starting(l.opts, vpp))]
            /\ Starting(l.opts, vpp) # <<>> /\ last' = last
        <4>1. l \in [cmd : Command, todo : Seq(AnyStep), opts : Asked \cup {Absent},
                     dir : Dir \cup {Absent}, vpp : BOOLEAN]
          BY <3>2 DEF CommandForm
        <4> DEFINE s == Starting(l.opts, vpp)
                   k == [l EXCEPT !.vpp = vpp, !.todo = @ \o s]
        <4>2. GoOnWith(t, k) BY <2>4, <3>6 DEF Verify
        <4>3. l.opts \in Options /\ l.todo \in Seq(AnyStep) /\ Tail(l.todo) = <<>>
          <5>1. Rank(Verifying) = 17 BY RankTable
          <5>2. Rank(Verifying) \in 17..28 BY <5>1
          <5> QED BY <3>1, <4>1, <5>1, <5>2, InStart
        <4>4. s \in Seq(AnyStep) /\ s # <<>> BY <4>3, StartingForm
        <4>5. Tail(l.todo \o s) = s BY <3>2, <4>3, <4>4, TailOf
        <4>6. /\ k.todo = l.todo \o s
              /\ [k EXCEPT !.todo = s] = [[l EXCEPT !.vpp = vpp] EXCEPT !.todo = s]
          BY <4>1
        <4> HIDE DEF k
        <4>7. Proceed(t, [k EXCEPT !.todo = s]) BY <4>2, <4>5, <4>6 DEF GoOnWith
        <4>8. [[l EXCEPT !.vpp = vpp] EXCEPT !.todo = s].todo = s BY <4>1
        <4>9. Afterwards([l EXCEPT !.vpp = vpp], s) = [[l EXCEPT !.vpp = vpp] EXCEPT !.todo = s]
          BY <4>4 DEF Afterwards
        <4> HIDE DEF s
        <4>10. term' = [term EXCEPT ![t] = Afterwards([l EXCEPT !.vpp = vpp], s)] /\ last' = last
          BY <4>4, <4>6, <4>7, <4>8, <4>9, ZenonT(40) DEF Proceed
        <4> QED BY <4>4, <4>10 DEF s
      <3> QED BY <1>2, <3>7
    <2>5. CASE NotInstalled(t) BY <2>5 DEF NotInstalled, Because
    <2>6. CASE ReadPages(t)
      <3>1. At(t, Asking) BY <2>6 DEF ReadPages, Asking
      <3>2. CASE pages < l.opts.pages
        <4>1. last' = last BY <2>6, <3>1, <3>2, PagesMoves
        <4> QED BY <1>2, <4>1
      <3>3. CASE ~(pages < l.opts.pages) BY <2>3, <2>6, <3>1, <3>3 DEF ReadPages
      <3> QED BY <3>2, <3>3
    <2>7. CASE WritePages(t) BY <2>3, <2>7 DEF WritePages, Because
    <2>8. CASE SaveRestartOpts(t) BY <2>3, <2>8 DEF SaveRestartOpts
    <2>9. ASSUME NEW c \in {"server", "healthcheck"}, RunServerOrHealthcheck(t, c) PROVE FALSE
      BY <2>3, <2>9 DEF RunServerOrHealthcheck
    <2>10. CASE RunVpp(t) BY <2>3, <2>10 DEF RunVpp
    <2>11. CASE RunTelegraf(t)
      <3> PICK x : x = Step("run", "telegraf") OBVIOUS
      <3>1. At(t, x) BY <2>11 DEF RunTelegraf
      <3>2. CommandForm(l) /\ l.todo # <<>> /\ x = Head(l.todo) BY <3>1, AtStep
      <3>3. x \in Left(l.todo) BY <3>2, Doing
      <3>4. Verifying \notin Left(l.todo)
        <4>1. Rank(x) = 27 BY RankTable
        <4>2. Rank(x) \in 17..28 /\ Rank(x) >= 18 BY <4>1
        <4> QED BY <3>1, <4>2, InStart
      <3>5. l.opts.conf = "none" BY <2>1, <3>2, <3>3, <3>4 DEF CommandForm
      <3> PICK name : name = IF l.opts.name = Absent THEN named ELSE l.opts.name OBVIOUS
      <3>6. name # Absent BY <2>11 DEF RunTelegraf, Because, If
      <3>7. GoOnWith(t, [l EXCEPT !.opts.conf = "temporary", !.opts.name = name])
        BY <2>11, <3>5, <3>6 DEF RunTelegraf
      <3>8. l \in [cmd : Command, todo : Seq(AnyStep), opts : Asked \cup {Absent},
                   dir : Dir \cup {Absent}, vpp : BOOLEAN]
        BY <3>2 DEF CommandForm
      <3> PICK n : n = [l EXCEPT !.opts.conf = "temporary", !.opts.name = name] OBVIOUS
      <3>9. n.todo = l.todo /\ n.cmd = l.cmd /\ DOMAIN n = DOMAIN l BY <3>8
      <3> PICK k : k = [n EXCEPT !.todo = Tail(@)] OBVIOUS
      <3>10. k.todo = Tail(l.todo) BY <3>8, <3>9
      <3>11. Proceed(t, k) BY <3>7 DEF GoOnWith
      <3>12. CASE k.todo = <<>>
        <4>1. last'.ok = TRUE BY <3>11, <3>12 DEF Proceed
        <4> QED BY <4>1
      <3>13. CASE k.todo # <<>> BY <1>2, <3>11, <3>13 DEF Proceed
      <3> QED BY <3>12, <3>13
    <2>12. ASSUME NEW c \in Container, RunFails(t, c) PROVE FALSE
      <3> PICK x : x = Step("run", c) OBVIOUS
      <3>1. At(t, x) BY <2>12 DEF RunFails
      <3>2. docker[c] # Absent BY <2>12 DEF RunFails, Because
      <3>3. Rank(x) \in {21, 23, 27, 28} BY RankTable DEF Container
      <3>4. Rank(x) \in 18..28 /\ Rank(x) \in 1..28 BY <3>3
      <3> PICK s : s = Tail(l.todo) OBVIOUS
      <3>5. Ahead(l, x, s) BY <3>1, <3>4, StepsAhead
      <3>6. /\ x \in Left(l.todo) /\ Left(l.todo) = {x} \cup Left(s)
            /\ x \in {Setting} \cup StartSteps(l.opts, l.vpp)
        BY <3>5 DEF Ahead
      <3>7. c \in ToRun(l.opts, l.vpp)
        <4>1. x # Setting BY StepsDiffer DEF Setting
        <4> QED BY <3>6, <4>1, StartMembers
      <3>8. Covers(l.opts.service, c) BY <3>7 DEF ToRun
      <3>9. Step("rm", c) \notin Left(l.todo)
        <4>1. Rank(Step("rm", c)) \in {8, 10, 12, 16} /\ Rank(Line) = 25
          BY RankTable DEF Container
        <4>2. Rank(Step("rm", c)) \in 1..28 /\ Rank(Step("rm", c)) <= Rank(x)
              /\ Step("rm", c) # Line
          BY <3>3, <4>1
        <4>3. Step("rm", c) \notin Left(s) BY <3>5, <4>2 DEF Ahead
        <4>4. x # Step("rm", c) BY StepsDiffer
        <4> QED BY <3>6, <4>3, <4>4
      <3>10. Waiting(l, l.todo, c) BY <3>6 DEF Waiting
      <3> QED BY <2>1, <2>2, <3>2, <3>8, <3>9, <3>10 DEF StopKnows
    <2>13. ASSUME NEW v \in {"telegraf", "vpp"}, CreateVolume(t, v) PROVE FALSE
      BY <2>3, <2>13 DEF CreateVolume, Because
    <2>14. ASSUME NEW x, At(t, x), x \in {Step("connect", "vpp"), Line},
                  "vpp" \notin volumes \/ ~IsUp("vpp")
           PROVE  FALSE
      <3>1. Rank(x) \in {24, 25} /\ Rank(Step("run", "vpp")) = 23 /\ Rank(Line) = 25
        <4>1. Rank(x) \in {24, 25} BY <2>14, RankTable
        <4> QED BY <4>1, RankTable
      <3>2. Rank(x) \in 18..28 BY <3>1
      <3> PICK s : s = Tail(l.todo) OBVIOUS
      <3>3. Ahead(l, x, s) BY <2>14, <3>2, StepsAhead
      <3>4. /\ Left(l.todo) = {x} \cup Left(s) /\ Verifying \notin Left(l.todo)
            /\ x \in {Setting} \cup StartSteps(l.opts, l.vpp)
        BY <3>3 DEF Ahead
      <3>5. "vpp" \in ToRun(l.opts, l.vpp)
        <4>1. x # Setting BY <2>14, StepsDiffer DEF Setting, Line
        <4> QED BY <2>14, <3>4, <4>1, StartMembers
      <3>6. Step("run", "vpp") \notin Left(l.todo)
        <4>1. Rank(Step("run", "vpp")) \in 1..28 /\ Rank(Step("run", "vpp")) <= Rank(x)
              /\ Step("run", "vpp") # Line /\ x # Step("run", "vpp")
          BY <3>1
        <4>2. Step("run", "vpp") \notin Left(s) BY <3>3, <4>1 DEF Ahead
        <4> QED BY <3>4, <4>1, <4>2
      <3> QED BY <2>1, <2>2, <2>14, <3>4, <3>5, <3>6 DEF UpKnows
    <2>15. CASE ConnectVpp(t)
      <3>1. At(t, Step("connect", "vpp")) BY <2>15 DEF ConnectVpp
      <3>2. CASE GoOn(t) BY <2>3, <3>1, <3>2
      <3>3. CASE "vpp" \notin volumes \/ ~IsUp("vpp") BY <2>14, <3>1, <3>3
      <3> QED BY <2>15, <3>2, <3>3 DEF ConnectVpp, Because
    <2>16. CASE ApplyLine(t)
      <3>1. At(t, Line) BY <2>16 DEF ApplyLine, Line
      <3>2. CASE GoOn(t) BY <2>3, <3>1, <3>2
      <3>3. CASE ~IsUp("vpp") BY <2>14, <3>1, <3>3
      <3> QED BY <2>16, <3>2, <3>3 DEF ApplyLine, Because
    <2>17. CASE ReadPagesFails(t) \/ SaveRestartOptsFails(t) \/ ScanFails(t)
      BY <2>17 DEF ReadPagesFails, SaveRestartOptsFails, ScanFails, Because
    <2> QED BY <1>7, <2>4, <2>5, <2>6, <2>7, <2>8, <2>9, <2>10, <2>11, <2>12, <2>13, <2>15, <2>16,
               <2>17 DEF StartStep
  <1>8. ASSUME NEW t \in Terminal, Interrupt(t) PROVE FALSE BY <1>2, <1>8 DEF Interrupt
  <1>9. ~\E d \in Dir, k \in Kind : RemoveFile(d, k) BY <1>2 DEF RemoveFile
  <1>10. ~\E c \in Container : Exit(c) BY <1>2 DEF Exit
  <1> QED BY <1>3, <1>5, <1>6, <1>7, <1>8, <1>9, <1>10 DEF HostNext

-----------------------------------------------------------------------------
(* The names agree. *)

(* They do if the names that were known still are. *)
NamesKept ==
    /\ \A t \in Terminal : Writes(term'[t]) => named' \in {Absent, term'[t].opts.name}
    /\ named # Absent => named' = named
    /\ \A n : n # Absent /\ Known(n) =>
          \/ n = named'
          \/ named' = Absent /\ \E t \in Terminal : Writes(term'[t]) /\ term'[t].opts.name = n
    /\ \A d \in Dir : disk'[d]["secrets"] # Absent =>
          \/ disk'[d]["secrets"] = disk[d]["secrets"]
          \/ disk'[d]["secrets"] = named'
          \/ named' = Absent /\ \E t \in Terminal : Writes(term'[t])
                                                    /\ term'[t].opts.name = disk'[d]["secrets"]

(* The names agree after a step that keeps them (NamesKept). *)
LEMMA AgreeingNext ==
    ASSUME Types, Types', Agreeing, HostNext, Unless(Disagreement)', NamesKept
    PROVE  Agreeing'
  <1>1. Unless(Disagreement) /\ "other-name" \notin causes'
    BY CausesGrow DEF Unless, Disagreement
  <1>2. /\ \A d \in Dir : disk[d]["secrets"] # Absent => Known(disk[d]["secrets"])
        /\ IsUp("server") => docker["server"].name # Absent /\ Known(docker["server"].name)
        /\ IsUp("telegraf") => named # Absent /\ docker["telegraf"].name = named
    BY <1>1 DEF Agreeing
  <1>3. /\ \A t \in Terminal : Writes(term'[t]) => named' \in {Absent, term'[t].opts.name}
        /\ named # Absent => named' = named
    BY DEF NamesKept
  <1> DEFINE KnownNext(n) ==
                 \/ n = named'
                 \/ named' = Absent /\ \E t \in Terminal : Writes(term'[t]) /\ term'[t].opts.name = n
  <1>4. \A n : n # Absent /\ Known(n) => KnownNext(n) BY DEF NamesKept
  <1>5. \A d \in Dir : disk'[d]["secrets"] # Absent => KnownNext(disk'[d]["secrets"])
    BY <1>2, <1>4 DEF NamesKept
  <1> HIDE DEF KnownNext
  <1>6. \A c \in {"server", "telegraf"} : ~(Ended(c) /\ docker'[c] # Absent /\ docker'[c].up)
    BY DEF Ended, Instance
  <1>7. ASSUME docker'["server"] # Absent, docker'["server"].up
        PROVE  docker'["server"].name # Absent /\ KnownNext(docker'["server"].name)
    <2>1. CASE docker'["server"] = docker["server"] BY <1>2, <1>4, <1>7, <2>1 DEF IsUp
    <2>2. ASSUME NEW t \in Terminal, Ran(t, "server")
          PROVE  docker'["server"].name # Absent /\ KnownNext(docker'["server"].name)
      <3>1. docker'["server"].name = disk[term[t].dir]["secrets"] /\ docker'["server"].name # Absent
            /\ At(t, Step("run", "server"))
        BY <1>7, <2>2 DEF Ran
      <3>2. term[t].dir \in Dir
        <4>1. Rank(Step("run", "server")) \in 17..28 BY RankTable
        <4> QED BY <3>1, <4>1, InStart
      <3> QED BY <1>2, <1>4, <3>1, <3>2
    <2>3. "server" \in Container BY DEF Container
    <2> QED BY <1>6, <1>7, <2>1, <2>2, <2>3, ContainerChanges
  <1>8. ASSUME docker'["telegraf"] # Absent, docker'["telegraf"].up
        PROVE  named' # Absent /\ docker'["telegraf"].name = named'
    <2>1. CASE docker'["telegraf"] = docker["telegraf"] BY <1>2, <1>3, <1>8, <2>1 DEF IsUp
    <2>2. ASSUME NEW t \in Terminal, Ran(t, "telegraf")
          PROVE  named' # Absent /\ docker'["telegraf"].name = named'
      <3>1. /\ docker'["telegraf"].name # Absent
            /\ docker'["telegraf"].name = IF term[t].opts.name = Absent THEN named ELSE term[t].opts.name
            /\ If(term[t].opts.name \notin {Absent, named}, "other-name") \subseteq causes'
            /\ named' = named
        BY <1>8, <2>2 DEF Ran
      <3>2. term[t].opts.name \in {Absent, named} BY <1>1, <3>1 DEF If
      <3> QED BY <3>1, <3>2
    <2>3. "telegraf" \in Container BY DEF Container
    <2> QED BY <1>6, <1>8, <2>1, <2>2, <2>3, ContainerChanges
  <1> QED BY <1>3, <1>5, <1>7, <1>8 DEF Agreeing, Known, KnownNext, IsUp, Writes, Initialises, Left, Wanted

(* No command has written its files, or ends: the names are left alone. *)
LEMMA NamesStay ==
    ASSUME Types, Agreeing, HostNext, Unless(Disagreement)',
           \A u \in Terminal : Writes(term'[u]) \/ Writes(term[u]) => term'[u] = term[u],
           named' = named, disk' = disk
    PROVE  NamesKept
  <1>1. Unless(Disagreement) BY CausesGrow DEF Unless
  <1>2. \A t \in Terminal : Writes(term[t]) => named \in {Absent, term[t].opts.name}
    BY <1>1 DEF Agreeing
  <1>3. \A t \in Terminal : Writes(term'[t]) => named' \in {Absent, term'[t].opts.name}
    BY <1>2
  <1>4. \A n : n # Absent /\ Known(n) =>
          \/ n = named'
          \/ named' = Absent /\ \E t \in Terminal : Writes(term'[t]) /\ term'[t].opts.name = n
    BY DEF Known
  <1> QED BY <1>3, <1>4 DEF NamesKept

(* Every step keeps the names. *)
LEMMA NamesStep ==
    ASSUME Types, Types', Alone, Naming, Agreeing, HostNext, Unless(Disagreement)'
    PROVE  NamesKept
  <1>0. DOMAIN term = Terminal /\ \A t \in Terminal : CommandForm(term[t]) BY DEF Types, Forms
  <1>1. Unless(Disagreement) BY CausesGrow DEF Unless
  <1>2. /\ "other-name" \notin causes' /\ "interrupted" \notin causes'
        /\ "not-written" \notin causes' /\ "removed" \notin causes' /\ "two-inits" \notin causes
    BY <1>1 DEF Unless, Disagreement
  <1>n. \A t \in Terminal : ~SaveEgvpnConfigFails(t)
    BY <1>2 DEF SaveEgvpnConfigFails, Because
  <1>3. \A t, u \in Terminal : term[t].cmd = "init" /\ term[u].cmd = "init" => t = u
    BY <1>2 DEF Alone, Unless
  <1>4. \A t \in Terminal : Writes(term[t]) => named \in {Absent, term[t].opts.name}
    BY <1>1 DEF Agreeing
  <1>5. ASSUME ~\E t \in Terminal : InitStep(t) /\ ~ReturnError(t) PROVE NamesKept
    <2>1. named' = named
      <3>1. ASSUME NEW t \in Terminal, SaveEgvpnConfig(t) PROVE FALSE
        BY <1>5, <3>1, GoOnIsNoError DEF SaveEgvpnConfig, InitStep
      <3> QED BY <1>n, <3>1, CommandsBegin, ZenonT(40)
          DEF HostNext, InitStep, StartStep, StopStep, Beginning, Interrupt, Check, Write,
              WriteFails, Verify, NotInstalled, ReadPages, ReadPagesFails, WritePages,
              SaveRestartOpts, SaveRestartOptsFails, RunServerOrHealthcheck, RunVpp, RunTelegraf,
              RunFails, CreateVolume, ConnectVpp, ApplyLine, ScanFails, StopContainer,
              RemoveContainer, RemoveVolume, RemoveFile, Exit
    <2>2. disk' = disk
      <3>1. \A t \in Terminal, k \in Kind : ~Write(t, k) BY <1>5, WriteIsNoError
      <3>2. \A d \in Dir, k \in Kind : ~RemoveFile(d, k) BY <1>2 DEF RemoveFile, Because
      <3> QED BY <3>1, <3>2, DiskChanges
    <2>3. ASSUME NEW t \in Terminal, NEW k, term' = [term EXCEPT ![t] = k],
                 k.cmd = "init" => Left(k.todo) = InitSteps(k.opts), ~Writes(term[t])
          PROVE  \A u \in Terminal : Writes(term'[u]) \/ Writes(term[u]) => term'[u] = term[u]
      <3>1. term'[t] = k /\ \A u \in Terminal : u # t => term'[u] = term[u] BY <1>0, <2>3
      <3>2. ~Writes(k) BY <2>3 DEF Writes, Initialises, InitSteps
      <3> QED BY <2>3, <3>1, <3>2
    <2>4. \A u \in Terminal : Writes(term'[u]) \/ Writes(term[u]) => term'[u] = term[u]
      <3>1. CASE term' = term BY <3>1
      <3>2. CASE Typed
        <4>1. PICK t \in Terminal : \E k, why : Beginning(t, k, why) BY <3>2, CommandsBegin
        <4>2. PICK k, why : Beginning(t, k, why) BY <4>1
        <4>3. /\ term' = [term EXCEPT ![t] = k] /\ term[t] = Idle
              /\ k.cmd = "init" => Left(k.todo) = InitSteps(k.opts)
          BY <4>2 DEF Beginning
        <4>4. ~Writes(term[t]) BY <4>3 DEF Writes, Initialises, Idle
        <4> QED BY <2>3, <4>3, <4>4
      <3>3. ASSUME NEW t \in Terminal, Interrupt(t) PROVE FALSE BY <1>2, <3>3 DEF Interrupt, Because
      <3>4. ASSUME NEW t \in Terminal, InitStep(t), ReturnError(t)
            PROVE  \A u \in Terminal : Writes(term'[u]) \/ Writes(term[u]) => term'[u] = term[u]
        <4>1. \A k \in Kind : ~WriteFails(t, k) /\ ~Write(t, k)
          BY <1>2, <3>4, WriteIsNoError DEF WriteFails, Because
        <4>2. ~SaveEgvpnConfig(t) BY <3>4, GoOnIsNoError DEF SaveEgvpnConfig
        <4>3. At(t, Step("check", "host")) BY <1>n, <3>4, <4>1, <4>2 DEF InitStep, Check
        <4>4. Step("check", "host") \in Left(term[t].todo)
          <5>1. CommandForm(term[t]) /\ term[t].todo # <<>> /\ Step("check", "host") = Head(term[t].todo)
            BY <4>3, AtStep
          <5> QED BY <5>1, Doing
        <4>5. ~Writes(term[t]) BY <4>4 DEF Writes, Initialises
        <4>6. term' = [term EXCEPT ![t] = Idle] /\ Idle.cmd # "init"
          BY <3>4 DEF ReturnError, Idle
        <4> QED BY <2>3, <4>5, <4>6
      <3>5. ASSUME NEW t \in Terminal, StartStep(t) \/ StopStep(t)
            PROVE  \A u \in Terminal : Writes(term'[u]) \/ Writes(term[u]) => term'[u] = term[u]
        <4>1. OwnMove(t) BY <3>5, StepMoves
        <4>2. term[t].cmd # "init" BY <3>5, StepRuns DEF Runs
        <4>3. PICK k : term' = [term EXCEPT ![t] = k] /\ (k = Idle \/ k.cmd = term[t].cmd)
          BY <4>1 DEF OwnMove
        <4>4. k.cmd # "init" BY <4>2, <4>3 DEF Idle
        <4>5. ~Writes(term[t]) BY <4>2 DEF Writes, Initialises
        <4> QED BY <2>3, <4>3, <4>4, <4>5
      <3> QED BY <1>5, <3>1, <3>2, <3>3, <3>4, <3>5 DEF HostNext, RemoveFile, Exit
    <2> QED BY <2>1, <2>2, <2>4, NamesStay, SMTT(30)
  <1>6. ASSUME NEW t \in Terminal, InitStep(t), ~ReturnError(t) PROVE NamesKept
    <2>1. PICK l, x, s :
              /\ l = term[t] /\ l.cmd = "init" /\ CommandForm(l) /\ At(t, x) /\ x \in InitSteps(l.opts)
              /\ l.opts \in InitChoices /\ l.dir \in Dir
              /\ Left(l.todo) = {x} \cup Left(s) /\ x \notin Left(s)
              /\ Step("check", "host") \notin Left(s)
              /\ (x = Step("name", "host")) => s = <<>>
              /\ term' = [term EXCEPT ![t] = Afterwards(l, s)] /\ last' = Said(l, s)
      BY <1>6, InitGoes
    <2> PICK k : k = Afterwards(l, s) OBVIOUS
    <2>2. term'[t] = k /\ \A u \in Terminal : u # t => term'[u] = term[u] BY <1>0, <2>1
    <2>3. \A u \in Terminal : term[u].cmd = "init" => u = t BY <1>3, <2>1
    <2>4. \A u \in Terminal : (Writes(term'[u]) \/ Writes(term[u])) => u = t
      <3>1. \A u \in Terminal : Writes(term[u]) => u = t BY <2>3 DEF Writes, Initialises
      <3> QED BY <2>2, <3>1
    <2>5. /\ Step("name", "host") \in Left(l.todo)
          /\ Step("check", "host") \in Left(l.todo) => Left(l.todo) = InitSteps(l.opts)
      BY <2>1 DEF Naming
    <2>6. s # <<>> => k.cmd = "init" /\ k.todo = s /\ k.opts = l.opts
      <3> SUFFICES ASSUME s # <<>> PROVE k.cmd = "init" /\ k.todo = s /\ k.opts = l.opts OBVIOUS
      <3>1. k = [l EXCEPT !.todo = s] BY DEF Afterwards
      <3> QED BY <2>1, <3>1 DEF CommandForm
    <2>7. x # Step("name", "host") => s # <<>>
      <3> SUFFICES ASSUME x # Step("name", "host"), s = <<>> PROVE FALSE OBVIOUS
      <3>1. Left(s) = {} BY NoStep
      <3> QED BY <2>1, <2>5, <3>1
    <2>8. \A q \in Kind : Step("write", q) # Step("check", "host") /\ Step("write", q) # Step("name", "host")
      BY StepsDiffer
    <2>9. Step("name", "host") # Step("check", "host") BY StepsDiffer
    <2>10. CASE x = Step("check", "host")
      <3>1. ~At(t, Step("name", "host")) /\ \A q \in Kind : ~At(t, Step("write", q))
        BY <2>1, <2>8, <2>9, <2>10 DEF At
      <3>2. Check(t) BY <1>6, <3>1 DEF InitStep, SaveEgvpnConfig, SaveEgvpnConfigFails, Write,
             WriteFails
      <3>3. named' = named /\ disk' = disk BY <3>2 DEF Check
      <3>4. ~Writes(term[t]) BY <2>1, <2>10 DEF Writes, Initialises
      <3>5. ~Writes(k)
        <4>1. s # <<>> BY <2>7, <2>9, <2>10
        <4>2. \A q \in Wanted(l.opts) : Step("write", q) \in Left(s)
          <5>1. Left(l.todo) = InitSteps(l.opts) BY <2>1, <2>5, <2>10
          <5>2. \A q : Step("write", q) # x BY <2>10, StepsDiffer
          <5> QED BY <2>1, <5>1, <5>2 DEF InitSteps
        <4> QED BY <2>6, <4>1, <4>2 DEF Writes
      <3>6. \A u \in Terminal : Writes(term'[u]) \/ Writes(term[u]) => term'[u] = term[u]
        BY <2>2, <2>4, <3>4, <3>5
      <3> QED BY <3>3, <3>6, NamesStay
    <2>11. CASE x = Step("name", "host")
      <3>1. SaveEgvpnConfig(t)
        <4>1. ~At(t, Step("check", "host")) /\ \A q \in Kind : ~At(t, Step("write", q))
          BY <2>1, <2>8, <2>9, <2>11 DEF At
        <4> QED BY <1>n, <1>6, <4>1 DEF InitStep, Check, Write, WriteFails
      <3>2. named' = l.opts.name /\ disk' = disk BY <2>1, <3>1 DEF SaveEgvpnConfig
      <3>3. Writes(l)
        <4>1. Left(s) = {} BY <2>1, <2>11, NoStep
        <4>2. Left(l.todo) = {x} BY <2>1, <4>1
        <4>3. \E q \in Wanted(l.opts) : q \in Kind
          <5>1. l.opts.only \in Kind \cup {"all"} BY <2>1 DEF InitChoices
          <5> QED BY <5>1 DEF Wanted, Kind
        <4> QED BY <2>1, <2>8, <2>9, <2>11, <4>2, <4>3 DEF Writes, Initialises
      <3>4. named \in {Absent, l.opts.name} BY <1>4, <2>1, <3>3
      <3>5. ~Writes(k)
        <4>1. k = Idle BY <2>1, <2>11 DEF Afterwards
        <4> QED BY <4>1 DEF Writes, Initialises, Idle
      <3>6. \A u \in Terminal : ~Writes(term'[u]) BY <2>2, <2>4, <3>5
      <3>7. \A n : n # Absent /\ Known(n) => n = named'
        <4> SUFFICES ASSUME NEW n, n # Absent, Known(n) PROVE n = l.opts.name BY <3>2
        <4>1. CASE n = named BY <3>4, <4>1
        <4>2. ASSUME NEW u \in Terminal, Writes(term[u]), term[u].opts.name = n
              PROVE  n = l.opts.name
          BY <2>1, <2>4, <4>2
        <4> QED BY <4>1, <4>2 DEF Known
      <3>8. named # Absent => named' = named BY <3>2, <3>4
      <3> QED BY <3>2, <3>6, <3>7, <3>8 DEF NamesKept
    <2>12. ASSUME NEW q \in Wanted(l.opts), x = Step("write", q) PROVE NamesKept
      <3>0. q \in Kind
        <4>1. l.opts.only \in Kind \cup {"all"} BY <2>1 DEF InitChoices
        <4> QED BY <2>12, <4>1 DEF Wanted, Kind
      <3>1. Write(t, q)
        <4>1. \A i \in Kind : At(t, Step("write", i)) => i = q BY <2>1, <2>12, StepsDiffer DEF At
        <4>2. ~At(t, Step("check", "host")) /\ ~At(t, Step("name", "host"))
          BY <2>1, <2>8, <2>12, <3>0 DEF At
        <4>3. \A i \in Kind : ~WriteFails(t, i) BY <1>2 DEF WriteFails, Because
        <4> QED BY <1>6, <4>1, <4>2, <4>3 DEF InitStep, Check, SaveEgvpnConfig,
               SaveEgvpnConfigFails, Write
      <3>2. /\ named' = named
            /\ If(named \notin {Absent, l.opts.name}, "other-name") \subseteq causes'
        BY <2>1, <3>1 DEF Write, Because
      <3>3. named \in {Absent, l.opts.name} BY <1>2, <3>2 DEF If
      <3>4. s # <<>> BY <2>7, <2>8, <2>12, <3>0
      <3>5. Writes(k) /\ k.opts = l.opts
        BY <2>1, <2>6, <2>12, <3>4 DEF Writes, Initialises
      <3>6. \A u \in Terminal : Writes(term'[u]) => named' \in {Absent, term'[u].opts.name}
        BY <2>2, <2>4, <3>2, <3>3, <3>5
      <3>7. \A n : n # Absent /\ Known(n) =>
              n = named' \/ (named' = Absent /\ Writes(term'[t]) /\ term'[t].opts.name = n)
        <4> SUFFICES ASSUME NEW n, n # Absent, Known(n)
                     PROVE  n = named \/ (named = Absent /\ k.opts.name = n)
          BY <2>2, <3>2, <3>5
        <4>1. ASSUME NEW u \in Terminal, Writes(term[u]), term[u].opts.name = n
              PROVE  n = k.opts.name
          BY <2>1, <2>4, <3>5, <4>1
        <4> QED BY <4>1 DEF Known
      <3>8. \A d \in Dir : disk'[d]["secrets"] = disk[d]["secrets"]
                           \/ disk'[d]["secrets"] = l.opts.name
        <4>1. disk' = [disk EXCEPT ![l.dir][q] = Written(l.opts, q)] BY <2>1, <3>1 DEF Write
        <4>2. disk \in [Dir -> [Kind -> Content]] BY DEF Types, HostTypeOK
        <4>3. Written(l.opts, "secrets") = l.opts.name BY WrittenValues
        <4>4. \A d \in Dir : disk'[d]["secrets"] =
                  IF d = l.dir /\ q = "secrets" THEN Written(l.opts, q) ELSE disk[d]["secrets"]
          BY <2>1, <3>0, <4>1, <4>2 DEF Kind
        <4> QED BY <4>3, <4>4
      <3>9. l.opts.name = named' \/ (named' = Absent /\ Writes(term'[t]) /\ term'[t].opts.name = l.opts.name)
        BY <2>2, <3>2, <3>3, <3>5
      <3>10. named # Absent => named' = named BY <3>2
      <3> QED BY <3>6, <3>7, <3>8, <3>9, <3>10 DEF NamesKept
    <2> QED BY <2>1, <2>10, <2>11, <2>12 DEF InitSteps
  <1> QED BY <1>5, <1>6

(* So every step keeps the agreement. *)
LEMMA AgreeingStep ==
    ASSUME Types, Types', Alone, Naming, Agreeing, HostNext
    PROVE  Agreeing'
  <1>1. CASE Unless(Disagreement)' BY <1>1, NamesStep, AgreeingNext
  <1>2. CASE ~Unless(Disagreement)' BY <1>2 DEF Agreeing
  <1> QED BY <1>1, <1>2

-----------------------------------------------------------------------------
(* The invariant of the host. *)

LEMMA HostStart ==
    ASSUME HostInit
    PROVE  HostInv
  <1>1. Types BY TypesInit
  <1>2. \A t \in Terminal : term[t] = Idle BY DEF HostInit
  <1>3. Idle.cmd = "none" BY DEF Idle
  <1>4. /\ \A d \in Dir, k \in Kind : disk[d][k] = Absent
        /\ \A c \in Container : docker[c] = Absent
        /\ last = Absent /\ saved = Absent /\ named = Absent
    BY DEF HostInit
  <1>5. \A t \in Terminal : ~Runs(term[t]) BY <1>2, <1>3 DEF Runs
  <1>6. Alone BY <1>2, <1>3, <1>4, <1>5 DEF Alone
  <1>7. Knowing BY <1>2, <1>3 DEF Knowing, StopKnows, StartKnows, UpKnows
  <1>8. SavedIsRunning BY <1>4 DEF SavedIsRunning
  <1>9. VppKeepsItsPages /\ ~IsUp("server") /\ ~IsUp("telegraf")
    BY <1>4 DEF VppKeepsItsPages, IsUp, Container
  <1>10. SuccessMeansUp /\ StopLeavesNothing /\ RestartSucceeds
    BY <1>4 DEF SuccessMeansUp, StopLeavesNothing, RestartSucceeds, Succeeded
  <1>11. Naming /\ FilesMissing BY <1>2, <1>3 DEF Naming, FilesMissing, Initialises
  <1>12. Restartable BY <1>2, <1>3, <1>4 DEF Restartable
  <1>13. Agreeing
    <2>1. \A t \in Terminal : ~Writes(term[t]) BY <1>2, <1>3 DEF Writes, Initialises
    <2>2. \A d \in Dir : disk[d]["secrets"] = Absent BY <1>4 DEF Kind
    <2> QED BY <1>9, <2>1, <2>2 DEF Agreeing
  <1> QED BY <1>1, <1>6, <1>7, <1>8, <1>9, <1>10, <1>11, <1>12, <1>13 DEF HostInv

(* Every step keeps the invariant. *)
LEMMA HostSteps ==
    ASSUME HostInv, [HostNext]_host
    PROVE  HostInv'
  <1>1. CASE HostNext
    <2>1. Types /\ Alone /\ Knowing /\ Naming /\ FilesMissing /\ Restartable /\ Agreeing
      BY DEF HostInv
    <2>2. SavedIsRunning /\ VppKeepsItsPages /\ SuccessMeansUp /\ StopLeavesNothing /\ RestartSucceeds
      BY DEF HostInv
    <2>3. Types' BY <1>1, <2>1, TypesStep
    <2>4. Alone' BY <1>1, <2>1, AloneStep
    <2>5. Knowing' BY <1>1, <2>1, KnowingStep
    <2>6. SavedIsRunning' BY <1>1, <2>1, <2>2, SavedStep
    <2>7. VppKeepsItsPages' BY <1>1, <2>1, <2>2, <2>3, VppStep
    <2>8. SuccessMeansUp' BY <1>1, <2>1, <2>2, <2>3, <2>4, SuccessStep
    <2>9. StopLeavesNothing' BY <1>1, <2>1, <2>2, <2>3, <2>4, StopStepHolds
    <2>10. Naming' BY <1>1, <2>1, NamingStep
    <2>11. FilesMissing' BY <1>1, <2>1, FilesMissingStep
    <2>12. Restartable' BY <1>1, <2>1, <2>3, RestartableStep
    <2>13. Agreeing' BY <1>1, <2>1, <2>3, AgreeingStep
    <2>14. RestartSucceeds' BY <1>1, <2>1, <2>2, RestartStep
    <2> QED BY <2>3, <2>4, <2>5, <2>6, <2>7, <2>8, <2>9, <2>10, <2>11, <2>12, <2>13, <2>14
        DEF HostInv
  <1>2. CASE UNCHANGED host
    <2>1. /\ disk' = disk /\ named' = named /\ saved' = saved /\ docker' = docker
          /\ volumes' = volumes /\ pages' = pages /\ day0' = day0 /\ term' = term
          /\ last' = last /\ commands' = commands /\ causes' = causes
      BY <1>2 DEF host
    <2>2. Types /\ Alone /\ Knowing /\ Naming /\ FilesMissing /\ Restartable /\ Agreeing
      BY DEF HostInv
    <2>3. SavedIsRunning /\ VppKeepsItsPages /\ SuccessMeansUp /\ StopLeavesNothing /\ RestartSucceeds
      BY DEF HostInv
    <2>4. Types' BY <2>1, <2>2 DEF Types, HostTypeOK, Forms
    <2>5. Alone' BY <2>1, <2>2 DEF Alone, Unless
    <2>6. Knowing'
      <3> SUFFICES ASSUME NEW t \in Terminal
                   PROVE /\ Unless({"two-runs", "docker"})' => StopKnows(term[t], term[t].todo)'
                         /\ Unless({"two-runs"})' => StartKnows(term[t], term[t].todo)'
                         /\ Unless({"two-runs", "ended", "removed", "unread"})' => UpKnows(term[t], term[t].todo)'
        BY DEF Knowing
      <3>1. /\ Unless({"two-runs", "docker"}) => StopKnows(term[t], term[t].todo)
            /\ Unless({"two-runs"}) => StartKnows(term[t], term[t].todo)
            /\ Unless({"two-runs", "ended", "removed", "unread"}) => UpKnows(term[t], term[t].todo)
        BY <2>2 DEF Knowing
      <3>2. StopKnows(term[t], term[t].todo)' <=> StopKnows(term[t], term[t].todo)
        BY <2>1 DEF StopKnows, IsUp
      <3>3. StartKnows(term[t], term[t].todo)' <=> StartKnows(term[t], term[t].todo)
        BY <2>1 DEF StartKnows
      <3>4. UpKnows(term[t], term[t].todo)' <=> UpKnows(term[t], term[t].todo)
        BY <2>1 DEF UpKnows, IsUp
      <3> QED BY <2>1, <3>1, <3>2, <3>3, <3>4 DEF Unless
    <2>7. SavedIsRunning' BY <2>1, <2>3 DEF SavedIsRunning, Unless
    <2>8. VppKeepsItsPages' BY <2>1, <2>3 DEF VppKeepsItsPages, Unless, IsUp
    <2>9. SuccessMeansUp' BY <2>1, <2>3 DEF SuccessMeansUp, Succeeded, Unless, IsUp
    <2>10. StopLeavesNothing' BY <2>1, <2>3 DEF StopLeavesNothing, Succeeded, Unless
    <2>11. Naming' BY <2>1, <2>2 DEF Naming
    <2>12. FilesMissing' BY <2>1, <2>2 DEF FilesMissing, Unless
    <2>13. Restartable' BY <2>1, <2>2 DEF Restartable, Unless, Startable
    <2>14. Agreeing' BY <2>1, <2>2 DEF Agreeing, Unless, Known, IsUp
    <2>15. RestartSucceeds' BY <2>1, <2>3 DEF RestartSucceeds
    <2> QED BY <2>4, <2>5, <2>6, <2>7, <2>8, <2>9, <2>10, <2>11, <2>12, <2>13, <2>14, <2>15
        DEF HostInv
  <1> QED BY <1>1, <1>2

LEMMA HostInvariance == HostSpec => []HostInv
  <1>1. HostInit => HostInv BY HostStart
  <1>2. HostInv /\ [HostNext]_host => HostInv' BY HostSteps
  <1> QED BY <1>1, <1>2, PTL DEF HostSpec

(***************************************************************************)
(* What is on the host fits together (start.go, config.go): restart finds  *)
(* the options the containers were started with, VPP keeps its huge pages, *)
(* and telemetry names the server whose certificate is in use. It follows  *)
(* from what the command under way knows: a start has saved its options    *)
(* before it runs a container, it never lowers the number of pages, and an *)
(* initialisation writes only files that were missing and then notes their *)
(* name. Options or a name that could not be written are recorded.         *)
(***************************************************************************)
THEOREM HostCorrect == HostSpec => []HostSound
  <1>1. HostInv => HostSound
    <2> SUFFICES ASSUME HostInv PROVE HostSound OBVIOUS
    <2>1. HostTypeOK /\ SavedIsRunning /\ VppKeepsItsPages /\ Agreeing BY DEF HostInv, Types
    <2>2. TelemetryNamesTheServer
      <3> SUFFICES ASSUME IsUp("telegraf"), IsUp("server"), Unless(Disagreement)
                   PROVE  docker["telegraf"].name = docker["server"].name
        BY DEF TelemetryNamesTheServer, Disagreement
      <3> QED BY <2>1 DEF Agreeing, Known
    <2> QED BY <2>1, <2>2 DEF HostSound
  <1> QED BY <1>1, HostInvariance, PTL

(***************************************************************************)
(* A start or a restart that succeeded has everything up it was asked for, *)
(* and VPP has its whole day0 configuration (StartRPCServer, runVPP),      *)
(* unless the file could not be read to its end, which is not looked at.   *)
(***************************************************************************)
THEOREM StartsCorrect == HostSpec => []SuccessMeansUp
  <1>1. HostInv => SuccessMeansUp BY DEF HostInv
  <1> QED BY <1>1, HostInvariance, PTL

(***************************************************************************)
(* A stop that docker did not refuse leaves no container and no volume of  *)
(* the service, whatever came before it (stop.go).                         *)
(***************************************************************************)
THEOREM StopsCorrect == HostSpec => []StopLeavesNothing
  <1>1. HostInv => StopLeavesNothing BY DEF HostInv
  <1> QED BY <1>1, HostInvariance, PTL

(***************************************************************************)
(* A restart, which stops before it verifies, fails for an outside reason  *)
(* only (restart.go): the directory it saved holds enough to start from,   *)
(* no container's name is in use, and VPP is up when it is connected to.   *)
(***************************************************************************)
THEOREM RestartsCorrect == HostSpec => []RestartSucceeds
  <1>1. HostInv => RestartSucceeds BY DEF HostInv
  <1> QED BY <1>1, HostInvariance, PTL
=============================================================================
