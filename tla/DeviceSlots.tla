----------------------------- MODULE DeviceSlots -----------------------------
(***************************************************************************)
(* The devices of one user, under concurrent calls: a client that asks for *)
(* its configuration (AssignDeviceSlot, then the queries of                *)
(* GetConfiguration), and an administrator who creates, updates or deletes *)
(* a device, or creates or deletes its adjacency. Every query is a step, as *)
(* other calls run between any two of them; only UpdateDevice uses a       *)
(* transaction, for its writes.                                            *)
(*                                                                         *)
(* Definitions marked as variants carry a plausible bug and belong to no   *)
(* specification: they show that a property detects it.                    *)
(***************************************************************************)
EXTENDS Naturals, FiniteSets

CONSTANTS
    Call,        \* calls; each is made once
    ExtId,       \* external device ids (old clients share the all-zeros one)
    Key,         \* key pairs and addresses of a device
    MaxDevices,  \* bound on the devices ever created
    Limit,       \* devices per user (GetDPULimit)
    HasServer,   \* whether the user has an adjacency template
    NoExt,       \* the empty external id
    NoSession,   \* the empty session
    OldSession,  \* a session given out before
    None

ASSUME LimitAssumption == Limit \in Nat /\ MaxDevices \in Nat
ASSUME ServerAssumption == HasServer \in BOOLEAN
ASSUME SessionAssumption ==
    None \notin Call /\ NoSession \notin Call /\ OldSession \notin Call /\ NoExt \notin ExtId

Device == 1..MaxDevices

VARIABLES
    device,   \* device[d]: the row of device d, None if there is none
    nextId,   \* the next identifier of the sequence
    clock,    \* number of the last client's call, its time; NULL is 0
    call,     \* call[c]: the operation, its next query and its variables
    got,      \* got[c]: the configuration a client was given
    raced     \* history: what happened that the code does not exclude

vars == <<device, nextId, clock, call, got, raced>>

Session == Call \cup {NoSession, OldSession}
(* Whether a device has its adjacency is peered. *)
Row == [ext : ExtId \cup {NoExt}, session : Session, time : Nat, key : Key, peered : BOOLEAN]
Configuration == [device : Device, key : Key, peered : BOOLEAN]

Ended == {"served", "done", "failed"}
Pc == {"idle", "find", "reuse", "findFree", "count", "recheck", "insert", "connect",
       "clear", "stamp", "findInactive", "findOldest", "overwrite", "lookup",
       "readKey", "readPeers", "write", "disconnect", "unpeer", "remove"} \cup Ended
Op == {"none", "assign", "create", "update", "change"}

(* The code tells what is missing from every value. *)
ASSUME NoneAssumption == None \notin Row \cup Configuration \cup Device \cup Key

Idle == [op |-> "none", pc |-> "idle", ext |-> NoExt, time |-> 0,
         target |-> None, old |-> None, new |-> None]

Devices == {d \in Device : device[d] # None}
At(c, pc) == call[c].pc = pc

CallRecord ==
    [op : Op, pc : Pc, ext : ExtId \cup {NoExt}, time : Nat, target : Device \cup {None},
     old : Key \cup {None}, new : Key \cup {None}]

(* Where a call may be without having a device. *)
Untargeted ==
    Ended \cup {"idle", "find", "findFree", "count", "recheck", "insert",
                "findInactive", "findOldest"}

DevicesOK ==
    /\ device \in [Device -> Row \cup {None}]
    /\ nextId \in 1..MaxDevices + 1
    /\ \A d \in Devices : d < nextId

CallsOK ==
    /\ call \in [Call -> CallRecord]
    /\ \A c \in Call :
        /\ call[c].target = None => call[c].pc \in Untargeted
        /\ call[c].new = None => ~At(c, "write")

GotOK ==
    /\ got \in [Call -> Configuration \cup {None}]
    /\ \A c \in Call : At(c, "readPeers") => got[c] # None

TypeOK ==
    /\ DevicesOK
    /\ CallsOK
    /\ GotOK
    /\ clock \in Nat
    /\ raced \subseteq {"limit", "id", "update", "failed"}

(* A free device made by an administrator, one whose session has expired, or  *)
(* one with a session.                                                     *)
InitialRow ==
    {[ext |-> NoExt, session |-> NoSession, time |-> 0, key |-> k, peered |-> HasServer] :
        k \in Key} \cup
    [ext : ExtId, session : {NoSession, OldSession}, time : {1}, key : Key,
     peered : {HasServer}]

Init ==
    /\ \E n \in 0..Limit :
        /\ n <= MaxDevices
        /\ nextId = n + 1
        /\ device \in [Device -> InitialRow \cup {None}]
        /\ \A d \in Device : device[d] # None <=> d <= n
    /\ \A d, e \in Devices :
        device[d].ext = device[e].ext /\ device[d].ext # NoExt => d = e
    /\ clock = 1
    /\ call = [c \in Call |-> Idle]
    /\ got = [c \in Call |-> None]
    /\ raced = {}

-----------------------------------------------------------------------------
(* Steps of a call. *)

UnderWay(c) == call[c].pc \notin Ended \cup {"idle"}
Goto(c, pc) == call' = [call EXCEPT ![c].pc = pc]
GotoWith(c, pc, d) == call' = [call EXCEPT ![c].pc = pc, ![c].target = d]
Target(c) == call[c].target
Exists(c) == device[Target(c)] # None
Note(what) == raced' = raced \cup what

(* A query that changes the row of the call's device, if it is still there. *)
Write(c, row, next) ==
    IF Exists(c)
    THEN device' = [device EXCEPT ![Target(c)] = row] /\ Goto(c, next)
    ELSE UNCHANGED device /\ Goto(c, "failed")

Begin(c, variables) ==
    /\ At(c, "idle")
    /\ call' = [call EXCEPT ![c] = variables]
    /\ UNCHANGED <<device, nextId, got>>

(* A client's call, with the time it notes first.                            *)
AssignDeviceSlot(c, ext) ==
    /\ Begin(c, [op |-> "assign", pc |-> "find", ext |-> ext, time |-> clock + 1,
                 target |-> None, old |-> None, new |-> None])
    /\ clock' = clock + 1
    /\ Note(IF \E b \in Call : UnderWay(b) /\ call[b].ext = ext THEN {"id"} ELSE {})

CreateDevice(c) ==
    /\ Begin(c, [op |-> "create", pc |-> "recheck", ext |-> NoExt, time |-> 0,
                 target |-> None, old |-> None, new |-> None])
    /\ UNCHANGED <<clock, raced>>

(* UpdateDevice reads the row first. *)
ReadDevice(c, d, key) ==
    /\ Begin(c, [op |-> "update", pc |-> "write", ext |-> NoExt, time |-> 0,
                 target |-> d, old |-> device[d].key, new |-> key])
    /\ UNCHANGED <<clock, raced>>

(* CreateAdjacency, DeleteAdjacency or DeleteDevice. *)
Change(c, d, first) ==
    /\ Begin(c, [op |-> "change", pc |-> first, ext |-> NoExt, time |-> 0,
                 target |-> d, old |-> None, new |-> None])
    /\ UNCHANGED <<clock, raced>>

-----------------------------------------------------------------------------
(* AssignDeviceSlot. *)

WithExt(ext) == {d \in Devices : device[d].ext = ext}
Inactive == {d \in Devices : device[d].session = NoSession}
Oldest(ds) == {d \in ds : \A e \in ds : device[d].time <= device[e].time}

(* A query for one device, and where the call goes with it and without.      *)
Choose(c, ds, found, otherwise) ==
    /\ \/ ds = {} /\ Goto(c, otherwise)
       \/ \E d \in ds : GotoWith(c, found, d)
    /\ UNCHANGED <<device, nextId, clock, got, raced>>

(* Variant: no device is looked for by the external id. *)
FindNoDevice(c) == At(c, "find") /\ Choose(c, {}, "reuse", "findFree")

FindDevice(c) == At(c, "find") /\ Choose(c, WithExt(call[c].ext), "reuse", "findFree")
FindFree(c) == At(c, "findFree") /\ Choose(c, WithExt(NoExt), "overwrite", "count")
FindInactive(c) == At(c, "findInactive") /\ Choose(c, Oldest(Inactive), "overwrite", "findOldest")
FindOldest(c) == At(c, "findOldest") /\ Choose(c, Oldest(Devices), "overwrite", "failed")

(* UpdateDeviceSessionAndLastTimeConnected, of the device found or created. *)
StoreSession(c) ==
    /\ At(c, "reuse") \/ At(c, "stamp")
    /\ Write(c, [device[Target(c)] EXCEPT !.session = c, !.time = call[c].time], "lookup")
    /\ UNCHANGED <<nextId, clock, got, raced>>

(* UpdateDeviceFromConfiguration. *)
Overwrite(c) ==
    /\ At(c, "overwrite")
    /\ Write(c, [device[Target(c)] EXCEPT !.ext = call[c].ext, !.session = c,
                                          !.time = call[c].time], "lookup")
    /\ UNCHANGED <<nextId, clock, got, raced>>

Count(c) ==
    /\ At(c, "count")
    /\ Goto(c, IF Cardinality(Devices) < Limit THEN "recheck" ELSE "findInactive")
    /\ UNCHANGED <<device, nextId, clock, got, raced>>

-----------------------------------------------------------------------------
(* createDeviceInternal, for a client or an administrator. *)

(* Variant: the number of devices is not looked at again. *)
NoRecheck(c) ==
    /\ At(c, "recheck")
    /\ Goto(c, "insert")
    /\ UNCHANGED <<device, nextId, clock, got, raced>>

Recheck(c) ==
    /\ At(c, "recheck")
    /\ \/ /\ Cardinality(Devices) < Limit
          /\ Goto(c, "insert")
          /\ Note(IF \E b \in Call \ {c} : At(b, "insert") THEN {"limit"} ELSE {})
       \/ /\ Cardinality(Devices) >= Limit
          /\ Goto(c, "failed")
          /\ UNCHANGED raced
    /\ UNCHANGED <<device, nextId, clock, got>>

(* Variant: the identifier of the new device is not kept. *)
InsertForgettingId(c) ==
    /\ At(c, "insert")
    /\ nextId <= MaxDevices
    /\ nextId' = nextId + 1
    /\ \E k \in Key :
        device' = [device EXCEPT ![nextId] =
            [ext |-> call[c].ext, session |-> NoSession, time |-> 0, key |-> k, peered |-> FALSE]]
    /\ Goto(c, IF call[c].op = "assign" THEN "stamp" ELSE "done")
    /\ UNCHANGED <<clock, got, raced>>

Insert(c) ==
    /\ At(c, "insert")
    /\ nextId <= MaxDevices
    /\ nextId' = nextId + 1
    /\ \E k \in Key :
        device' = [device EXCEPT ![nextId] =
            [ext |-> call[c].ext, session |-> NoSession, time |-> 0, key |-> k, peered |-> FALSE]]
    /\ GotoWith(c, CASE HasServer -> "connect"
                     [] ~HasServer /\ call[c].op = "assign" -> "stamp"
                     [] OTHER -> "done", nextId)
    /\ UNCHANGED <<clock, got, raced>>

(* CreateAdjacency: it fails if there is one, or no device. The check and the  *)
(* insertion are one step.                                                 *)
Connect(c) ==
    /\ At(c, "connect")
    /\ IF Exists(c) /\ ~device[Target(c)].peered
       THEN Write(c, [device[Target(c)] EXCEPT !.peered = TRUE], "clear")
       ELSE Goto(c, "failed") /\ UNCHANGED device
    /\ UNCHANGED <<nextId, clock, got, raced>>

(* InvalidateDeviceSession. *)
ClearSession(c) ==
    /\ At(c, "clear")
    /\ Write(c, [device[Target(c)] EXCEPT !.session = NoSession],
             IF call[c].op = "assign" THEN "stamp" ELSE "done")
    /\ UNCHANGED <<nextId, clock, got, raced>>

-----------------------------------------------------------------------------
(* The rest of GetConfiguration: the device is looked up again, and its       *)
(* configuration and its adjacencies are read one after the other.         *)

Lookup(c) == At(c, "lookup") /\ Choose(c, WithExt(call[c].ext), "readKey", "failed")

ReadKey(c) ==
    /\ At(c, "readKey")
    /\ IF Exists(c)
       THEN /\ Goto(c, "readPeers")
            /\ got' = [got EXCEPT ![c] = [device |-> Target(c), key |-> device[Target(c)].key,
                                          peered |-> FALSE]]
       ELSE Goto(c, "failed") /\ UNCHANGED got
    /\ UNCHANGED <<device, nextId, clock, raced>>

ReadPeers(c) ==
    /\ At(c, "readPeers")
    /\ Goto(c, "served")
    /\ got' = [got EXCEPT ![c].peered = Exists(c) /\ device[Target(c)].peered]
    /\ UNCHANGED <<device, nextId, clock, raced>>

-----------------------------------------------------------------------------
(* The administrator's calls. *)

(* Variant: the session is cleared before the writes. *)
UpdateDeviceClearingFirst(c) ==
    /\ At(c, "write")
    /\ IF Exists(c) /\ call[c].new # call[c].old
       THEN /\ device' = [device EXCEPT ![Target(c)].session = NoSession]
            /\ call' = [call EXCEPT ![c].old = call[c].new]
       ELSE Write(c, [device[Target(c)] EXCEPT !.key = call[c].new], "done")
    /\ UNCHANGED <<nextId, clock, got, raced>>

(* The transaction of UpdateDevice. Whether the session is cleared then is    *)
(* decided with the row read before.                                       *)
UpdateDevice(c) ==
    /\ At(c, "write")
    /\ Write(c, [device[Target(c)] EXCEPT !.key = call[c].new],
             IF call[c].new = call[c].old THEN "done" ELSE "clear")
    /\ Note(IF Exists(c) /\ device[Target(c)].key # call[c].old THEN {"update"} ELSE {})
    /\ UNCHANGED <<nextId, clock, got>>

(* The adjacency is read and deleted in one step. *)
DeleteAdjacency(c) ==
    /\ At(c, "disconnect")
    /\ IF Exists(c) /\ device[Target(c)].peered
       THEN Write(c, [device[Target(c)] EXCEPT !.peered = FALSE], "clear")
       ELSE Goto(c, "failed") /\ UNCHANGED device
    /\ UNCHANGED <<nextId, clock, got, raced>>

(* DeleteDevice: the adjacencies first. *)
Unpeer(c) ==
    /\ At(c, "unpeer")
    /\ Write(c, [device[Target(c)] EXCEPT !.peered = FALSE], "remove")
    /\ UNCHANGED <<nextId, clock, got, raced>>

Remove(c) ==
    /\ At(c, "remove")
    /\ Write(c, None, "done")
    /\ UNCHANGED <<nextId, clock, got, raced>>

-----------------------------------------------------------------------------
(* What may happen to any call. *)

(* Changed, and its session not cleared yet. *)
Pending(d) == \E c \in Call : call[c].pc \in {"clear", "remove"} /\ Target(c) = d

(* A query fails or the call's context ends. *)
Fail(c) ==
    /\ UnderWay(c)
    /\ Goto(c, "failed")
    /\ Note(IF call[c].pc \in {"clear", "remove"} THEN {"failed"} ELSE {})
    /\ UNCHANGED <<device, nextId, clock, got>>

(* InvalidateOldDeviceSessions; changes of the user or of the template clear *)
(* all sessions of the user likewise.                                      *)
ExpireSessions(threshold) ==
    /\ device' = [d \in Device |->
            IF d \in Devices /\ device[d].time # 0 /\ device[d].time < threshold
            THEN [device[d] EXCEPT !.session = NoSession] ELSE device[d]]
    /\ UNCHANGED <<nextId, clock, call, got, raced>>

(* The order in which EnforceDPULimit deletes. *)
DeletedBefore(d, e) ==
    LET Rank(f) == <<device[f].ext # NoExt, device[f].time # 0, device[f].session # NoSession>>
        Differ(i) == Rank(d)[i] # Rank(e)[i] /\ \A j \in 1..i - 1 : Rank(d)[j] = Rank(e)[j]
    IN  \/ \E i \in 1..3 : Differ(i) /\ Rank(e)[i]
        \/ /\ Rank(d) = Rank(e)
           /\ \/ device[d].time # 0 /\ device[d].time < device[e].time
              \/ device[d].time = 0 /\ device[d].session # NoSession /\ d < e

(* The orchestrator is stopped and started; the calls under way end where     *)
(* they are, and the devices beyond the limit are deleted.                 *)
Restart ==
    /\ \E excess \in SUBSET Devices :
        /\ Cardinality(Devices \ excess) = (IF Cardinality(Devices) < Limit
                                            THEN Cardinality(Devices) ELSE Limit)
        /\ \A d \in excess, e \in Devices \ excess : ~DeletedBefore(e, d)
        /\ device' = [d \in Device |-> IF d \in excess THEN None ELSE device[d]]
    /\ call' = [c \in Call |-> IF UnderWay(c) THEN [call[c] EXCEPT !.pc = "failed"] ELSE call[c]]
    /\ raced' = (raced \ {"limit"}) \cup
                IF \E d \in Devices : Pending(d) THEN {"failed"} ELSE {}
    /\ UNCHANGED <<nextId, clock, got>>

Start(c) ==
    \/ \E ext \in ExtId : AssignDeviceSlot(c, ext)
    \/ CreateDevice(c)
    \/ \E d \in Devices, key \in Key : ReadDevice(c, d, key)
    \/ \E d \in Devices, first \in {"connect", "disconnect", "unpeer"} : Change(c, d, first)

Step(c) ==
    \/ FindDevice(c) \/ FindFree(c) \/ FindInactive(c) \/ FindOldest(c)
    \/ StoreSession(c) \/ Overwrite(c) \/ Count(c)
    \/ Recheck(c) \/ Insert(c) \/ Connect(c) \/ ClearSession(c)
    \/ Lookup(c) \/ ReadKey(c) \/ ReadPeers(c)
    \/ UpdateDevice(c) \/ DeleteAdjacency(c) \/ Unpeer(c) \/ Remove(c)

Next ==
    \/ \E c \in Call : Start(c) \/ Step(c) \/ Fail(c)
    \/ \E threshold \in 1..clock + 1 : ExpireSessions(threshold)
    \/ Restart

Spec == Init /\ [][Next]_vars

-----------------------------------------------------------------------------
(* Properties. *)

(* The user has no more devices than the limit, whatever clients and          *)
(* administrators do at once, unless two calls were both between the check *)
(* in createDeviceInternal and the insertion.                              *)
LimitUnlessRaced == "limit" \notin raced => Cardinality(Devices) <= Limit

(* No two devices carry one external id, though nothing in the database says  *)
(* so, unless two calls of the client with that id overlapped.             *)
DistinctUnlessRaced ==
    "id" \notin raced =>
        \A d, e \in Devices :
            device[d].ext = device[e].ext /\ device[d].ext # NoExt => d = e

(* A client whose session is valid has the configuration of the device the    *)
(* session is for, as it is in the database: whoever changes it clears the *)
(* session after the change, and AssignDeviceSlot stores the session before *)
(* the configuration is read. Left out are an invalidation still to come or *)
(* that failed, an update that overwrote another one it had not seen, and  *)
(* overlapping calls with one external id.                                 *)
SessionMeansCurrent ==
    raced \cap {"id", "update", "failed"} = {} =>
        \A c \in Call, d \in Devices :
            At(c, "served") /\ device[d].session = c /\ ~Pending(d) =>
                got[c] = [device |-> d, key |-> device[d].key, peered |-> device[d].peered]

(* "Open source version of EntGuard allows one device per user"               *)
(* (entguard-guide.md), where Limit is 1.                                  *)
OneDevicePerUser == Cardinality(Devices) <= 1

(* "When this attribute changes, should the session be invalidated? [...]     *)
(* Private & public key - yes" (session.go): with no call under way and    *)
(* none that failed, a client with a valid session has its device's key.   *)
KeyChangeInvalidates ==
    raced \cap {"id", "failed"} = {} /\ (\A c \in Call : ~UnderWay(c)) =>
        \A c \in Call, d \in Devices :
            At(c, "served") /\ device[d].session = c => got[c].key = device[d].key

(* "Device with matching external_device_id exists -> reuse it, update        *)
(* session" (device.go): the session stored in a device was made for the   *)
(* client whose external id the device carries.                            *)
SessionMatchesDevice ==
    \A d \in Devices :
        device[d].session \in Call => call[device[d].session].ext = device[d].ext
=============================================================================
