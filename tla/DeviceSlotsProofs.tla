-------------------------- MODULE DeviceSlotsProofs --------------------------
(***************************************************************************)
(* Proofs about DeviceSlots, for any sets of calls, external ids and keys  *)
(* and any limit. For the limit, the inductive invariant adds what a call  *)
(* about to insert knows: while nothing has raced there is one such call,  *)
(* and there is still room for its device (IInv). For sessions it adds what*)
(* a call knows of its device between two queries: that no other device    *)
(* carries its external id, that its session is stored nowhere else, and   *)
(* that what it has read is current until somebody is about to clear the   *)
(* session (SInv).                                                         *)
(***************************************************************************)
EXTENDS DeviceSlots, FiniteSetTheorems, TLAPS

(* Room for the one call that is about to insert a device.                   *)
Room ==
    "limit" \notin raced =>
        /\ \A c \in Call : At(c, "insert") => Cardinality(Devices) < Limit
        /\ \A b, c \in Call : At(b, "insert") /\ At(c, "insert") => b = c

IInv == TypeOK /\ LimitUnlessRaced /\ Room

(* The devices are finite in number. *)
LEMMA DevicesFinite ==
  ASSUME NEW ds, ds \subseteq Device
  PROVE  IsFiniteSet(ds) /\ Cardinality(ds) \in Nat
  <1>1. IsFiniteSet(Device)
    BY FS_Interval, LimitAssumption DEF Device
  <1> QED
    BY <1>1, FS_Subset, FS_CardinalityType

(* Fewer devices are not more.                                               *)
LEMMA Fewer ==
  ASSUME NEW ds, ds \subseteq Device, NEW es, es \subseteq ds
  PROVE  Cardinality(es) <= Cardinality(ds)
  BY DevicesFinite, FS_Subset

(* The initial state satisfies the inductive invariant. *)
LEMMA InitIInv == Init => IInv
<1> SUFFICES ASSUME Init PROVE IInv
  OBVIOUS
<1>1. PICK n \in 0..Limit :
        /\ n <= MaxDevices
        /\ nextId = n + 1
        /\ device \in [Device -> InitialRow \cup {None}]
        /\ \A d \in Device : device[d] # None <=> d <= n
  BY DEF Init
<1>2. InitialRow \subseteq Row
  BY ServerAssumption, SessionAssumption DEF InitialRow, Row, Session
<1>3. TypeOK
  BY <1>1, <1>2, LimitAssumption
     DEF Init, TypeOK, DevicesOK, CallsOK, GotOK, CallRecord, Untargeted, Devices, Device,
         Idle, Op, Pc, Ended, At
<1>4. Devices = 1..n
  BY <1>1, LimitAssumption DEF Devices, Device
<1>5. Cardinality(Devices) <= Limit
  BY <1>1, <1>4, FS_Interval, LimitAssumption
<1>6. Room
  BY DEF Init, Room, At, Idle
<1> QED
  BY <1>3, <1>5, <1>6 DEF IInv, LimitUnlessRaced

(* A call that only goes on to its next query keeps the types.               *)
LEMMA GotoTyped ==
  ASSUME CallsOK, NEW c \in Call, NEW pc \in Pc,
         call[c].target = None => pc \in Untargeted, pc # "write", Goto(c, pc)
  PROVE  /\ CallsOK'
         /\ \A b \in Call : call'[b].pc = IF b = c THEN pc ELSE call[b].pc
  BY DEF CallsOK, CallRecord, Goto, At

(* So does a call that has found or made its device.                         *)
LEMMA GotoWithTyped ==
  ASSUME CallsOK, NEW c \in Call, NEW pc \in Pc, NEW d \in Device, pc # "write",
         GotoWith(c, pc, d)
  PROVE  /\ CallsOK'
         /\ \A b \in Call : call'[b].pc = IF b = c THEN pc ELSE call[b].pc
  BY NoneAssumption DEF CallsOK, CallRecord, GotoWith, At

(* A query that replaces a row by a row keeps the types and the set of         *)
(* devices.                                                                *)
LEMMA WriteTyped ==
  ASSUME DevicesOK, CallsOK, NEW c \in Call, NEW row, NEW next \in Pc,
         call[c].target # None, next # "write",
         Exists(c) => row \in Row, Write(c, row, next), UNCHANGED nextId
  PROVE  /\ DevicesOK' /\ CallsOK' /\ Devices' = Devices
         /\ \A b \in Call : call'[b].pc \in IF b = c THEN {next, "failed"} ELSE {call[b].pc}
<1>1. /\ CallsOK'
      /\ \A b \in Call : call'[b].pc \in IF b = c THEN {next, "failed"} ELSE {call[b].pc}
  BY GotoTyped DEF Write, Ended, Pc
<1>2. Target(c) \in Device
  BY DEF CallsOK, CallRecord, Target
<1>3. DevicesOK' /\ Devices' = Devices
  BY <1>2, NoneAssumption DEF DevicesOK, Devices, Write, Exists, Goto
<1> QED
  BY <1>1, <1>3

(* The row a call's device has.                                              *)
LEMMA RowTyped ==
  ASSUME DevicesOK, CallsOK, NEW c \in Call, call[c].target # None, Exists(c)
  PROVE  device[Target(c)] \in Row
  BY DEF DevicesOK, CallsOK, CallRecord, Exists, Target

(* What clients were given stays typed while no call goes on to reading.     *)
LEMMA GotKept ==
  ASSUME GotOK, UNCHANGED got,
         \A b \in Call : call'[b].pc = "readPeers" => call[b].pc = "readPeers"
  PROVE  GotOK'
  BY DEF GotOK, At

(* Every step of DeviceSlots keeps the types. *)
LEMMA TypeStep == TypeOK /\ [Next]_vars => TypeOK'
<1> SUFFICES ASSUME TypeOK, [Next]_vars PROVE TypeOK'
  OBVIOUS
<1> USE DEF TypeOK
<1> DEFINE others == {"readPeers", "write"}
<1>a. ASSUME NEW c \in Call, call[c].target # None, NEW next \in Pc \ others, NEW row,
             Exists(c) => row \in Row, Write(c, row, next),
             UNCHANGED <<nextId, clock, got>>,
             raced' \subseteq {"limit", "id", "update", "failed"}
      PROVE  TypeOK'
  <2>1. /\ DevicesOK' /\ CallsOK'
        /\ \A b \in Call : call'[b].pc \in IF b = c THEN {next, "failed"} ELSE {call[b].pc}
    BY <1>a, WriteTyped
  <2> QED
    BY <1>a, <2>1, GotKept
<1>b. ASSUME NEW c \in Call, NEW r \in CallRecord, r.target = None => r.pc \in Untargeted,
             r.new = None => r.pc # "write",
             r.pc # "readPeers", Begin(c, r), clock' \in Nat,
             raced' \subseteq {"limit", "id", "update", "failed"}
      PROVE  TypeOK'
  <2>1. CallsOK' /\ \A b \in Call : call'[b].pc = IF b = c THEN r.pc ELSE call[b].pc
    BY <1>b DEF Begin, CallsOK, At
  <2>2. DevicesOK'
    BY <1>b DEF Begin, DevicesOK, Devices
  <2> QED
    BY <1>b, <2>1, <2>2, GotKept DEF Begin
<1>c. ASSUME NEW c \in Call, NEW pc \in Pc \ others,
             call[c].target = None => pc \in Untargeted, Goto(c, pc),
             UNCHANGED <<device, nextId, clock, got>>,
             raced' \subseteq {"limit", "id", "update", "failed"}
      PROVE  TypeOK'
  <2>1. CallsOK' /\ \A b \in Call : call'[b].pc = IF b = c THEN pc ELSE call[b].pc
    BY <1>c, GotoTyped
  <2>2. DevicesOK'
    BY <1>c DEF DevicesOK, Devices
  <2> QED
    BY <1>c, <2>1, <2>2, GotKept
<1>1. ASSUME NEW c \in Call, NEW ext \in ExtId, AssignDeviceSlot(c, ext) PROVE TypeOK'
  <2> DEFINE r == [op |-> "assign", pc |-> "find", ext |-> ext, time |-> clock + 1,
                   target |-> None, old |-> None, new |-> None]
  <2>1. /\ r \in CallRecord
        /\ r.target = None => r.pc \in Untargeted
        /\ r.pc = "find" /\ (r.new = None => r.pc # "write")
    BY DEF CallRecord, Untargeted, Op, Pc
  <2>2. Begin(c, r) /\ clock' \in Nat /\ raced' \subseteq {"limit", "id", "update", "failed"}
    BY <1>1 DEF AssignDeviceSlot, Note
  <2> HIDE DEF r
  <2> QED
    BY <2>1, <2>2, <1>b
<1>2. ASSUME NEW c \in Call, CreateDevice(c) PROVE TypeOK'
  BY <1>2, <1>b DEF CreateDevice, CallRecord, Untargeted, Op, Pc
<1>3. ASSUME NEW c \in Call, NEW d \in Devices, NEW key \in Key, ReadDevice(c, d, key)
      PROVE  TypeOK'
  <2> DEFINE r == [op |-> "update", pc |-> "write", ext |-> NoExt, time |-> 0,
                   target |-> d, old |-> device[d].key, new |-> key]
  <2>1. device[d].key \in Key /\ d \in Device
    BY DEF DevicesOK, Devices, Row
  <2>2. r \in CallRecord /\ r.target # None /\ r.new # None /\ r.pc # "readPeers"
    BY <2>1, NoneAssumption DEF CallRecord, Op, Pc
  <2>3. Begin(c, r) /\ UNCHANGED <<clock, raced>>
    BY <1>3 DEF ReadDevice
  <2> HIDE DEF r
  <2> QED
    BY <2>2, <2>3, <1>b
<1>4. ASSUME NEW c \in Call, NEW d \in Devices,
             NEW first \in {"connect", "disconnect", "unpeer"}, Change(c, d, first)
      PROVE  TypeOK'
  BY <1>4, <1>b, NoneAssumption DEF Change, CallRecord, Op, Pc, Devices
<1>5. ASSUME NEW c \in Call, NEW ds \in SUBSET Device,
             NEW found \in Pc \ others, NEW otherwise \in Untargeted,
             Choose(c, ds, found, otherwise)
      PROVE  TypeOK'
  <2>1. CASE Goto(c, otherwise)
    BY <1>5, <2>1, <1>c DEF Choose, Untargeted, Ended, Pc
  <2>2. ASSUME NEW d \in ds, GotoWith(c, found, d) PROVE TypeOK'
    <3>1. CallsOK' /\ \A b \in Call : call'[b].pc = IF b = c THEN found ELSE call[b].pc
      BY <2>2, GotoWithTyped
    <3>2. DevicesOK'
      BY <1>5 DEF Choose, DevicesOK, Devices
    <3> QED
      BY <1>5, <3>1, <3>2, GotKept DEF Choose
  <2> QED
    BY <1>5, <2>1, <2>2 DEF Choose
<1>6. ASSUME NEW c \in Call,
             \/ FindDevice(c) \/ FindFree(c) \/ FindInactive(c) \/ FindOldest(c) \/ Lookup(c)
      PROVE  TypeOK'
  BY <1>5, <1>6 DEF FindDevice, FindFree, FindInactive, FindOldest, Lookup,
     WithExt, Inactive, Oldest, Devices, Pc, Untargeted, Ended
<1> DEFINE targeted(c) == call[c].target # None
<1>7. ASSUME NEW c \in Call, call[c].pc \notin Untargeted PROVE targeted(c)
  BY <1>7 DEF CallsOK
<1>8. ASSUME NEW c \in Call, StoreSession(c) \/ Overwrite(c) PROVE TypeOK'
  <2>1. targeted(c)
    BY <1>8, <1>7 DEF StoreSession, Overwrite, At, Untargeted, Ended
  <2>2. call[c].ext \in ExtId \cup {NoExt} /\ call[c].time \in Nat
    BY DEF CallsOK, CallRecord
  <2>3. CASE StoreSession(c)
    <3> DEFINE row == [device[Target(c)] EXCEPT !.session = c, !.time = call[c].time]
    <3>1. Exists(c) => row \in Row
      BY <2>1, <2>2, RowTyped DEF Row, Session
    <3>2. Write(c, row, "lookup") /\ UNCHANGED <<nextId, clock, got, raced>>
      BY <2>3 DEF StoreSession
    <3> HIDE DEF row
    <3> QED
      BY <3>1, <3>2, <2>1, <1>a DEF Pc
  <2>4. CASE Overwrite(c)
    <3> DEFINE row == [device[Target(c)] EXCEPT !.ext = call[c].ext, !.session = c,
                                                !.time = call[c].time]
    <3>1. Exists(c) => row \in Row
      BY <2>1, <2>2, RowTyped DEF Row, Session
    <3>2. Write(c, row, "lookup") /\ UNCHANGED <<nextId, clock, got, raced>>
      BY <2>4 DEF Overwrite
    <3> HIDE DEF row
    <3> QED
      BY <3>1, <3>2, <2>1, <1>a DEF Pc
  <2> QED
    BY <1>8, <2>3, <2>4
<1>9. ASSUME NEW c \in Call, Count(c) \/ Recheck(c) PROVE TypeOK'
  <2>1. CASE Count(c)
    BY <2>1, <1>c DEF Count, Pc, Untargeted
  <2>2. CASE Recheck(c)
    BY <2>2, <1>c DEF Recheck, Note, Pc, Untargeted, Ended
  <2> QED
    BY <1>9, <2>1, <2>2
<1>10. ASSUME NEW c \in Call, Insert(c) PROVE TypeOK'
  <2>1. PICK k \in Key : device' = [device EXCEPT ![nextId] =
            [ext |-> call[c].ext, session |-> NoSession, time |-> 0, key |-> k,
             peered |-> FALSE]]
    BY <1>10 DEF Insert
  <2>2. nextId \in Device /\ nextId' = nextId + 1
    BY <1>10, LimitAssumption DEF Insert, DevicesOK, Device
  <2>3. [ext |-> call[c].ext, session |-> NoSession, time |-> 0, key |-> k,
         peered |-> FALSE] \in Row
    BY DEF CallsOK, CallRecord, Row, Session
  <2>4. DevicesOK'
    BY <2>1, <2>2, <2>3, LimitAssumption DEF DevicesOK, Devices, Device
  <2>5. PICK pc \in {"connect", "stamp", "done"} : GotoWith(c, pc, nextId)
    BY <1>10 DEF Insert
  <2>6. CallsOK' /\ \A b \in Call : call'[b].pc = IF b = c THEN pc ELSE call[b].pc
    BY <2>2, <2>5, GotoWithTyped DEF Pc, Ended
  <2> QED
    BY <1>10, <2>4, <2>6, GotKept DEF Insert
<1>11. ASSUME NEW c \in Call, Connect(c) \/ DeleteAdjacency(c) PROVE TypeOK'
  <2>1. targeted(c)
    BY <1>11, <1>7 DEF Connect, DeleteAdjacency, At, Untargeted, Ended
  <2>2. ASSUME NEW p \in BOOLEAN, Exists(c)
        PROVE  [device[Target(c)] EXCEPT !.peered = p] \in Row
    BY <2>1, <2>2, RowTyped DEF Row
  <2>3. CASE Goto(c, "failed") /\ UNCHANGED <<device, nextId, clock, got, raced>>
    BY <2>3, <1>c DEF Pc, Untargeted, Ended
  <2>4. ASSUME NEW p \in BOOLEAN, Write(c, [device[Target(c)] EXCEPT !.peered = p], "clear"),
               UNCHANGED <<nextId, clock, got, raced>>
        PROVE  TypeOK'
    BY <2>1, <2>2, <2>4, <1>a DEF Pc
  <2> QED
    BY <1>11, <2>3, <2>4 DEF Connect, DeleteAdjacency
<1>12. ASSUME NEW c \in Call, ClearSession(c) PROVE TypeOK'
  <2> DEFINE row == [device[Target(c)] EXCEPT !.session = NoSession]
  <2>1. targeted(c)
    BY <1>12, <1>7 DEF ClearSession, At, Untargeted, Ended
  <2>2. Exists(c) => row \in Row
    BY <2>1, RowTyped DEF Row, Session
  <2>3. PICK next \in {"stamp", "done"} : Write(c, row, next)
    BY <1>12 DEF ClearSession
  <2> HIDE DEF row
  <2> QED
    BY <1>12, <2>1, <2>2, <2>3, <1>a DEF ClearSession, Pc, Ended
<1>13. ASSUME NEW c \in Call, ReadKey(c) PROVE TypeOK'
  <2>1. targeted(c) /\ Target(c) \in Device
    BY <1>13, <1>7 DEF ReadKey, At, Untargeted, Ended, CallsOK, CallRecord, Target
  <2>2. CASE Exists(c)
    <3>1. device[Target(c)].key \in Key
      BY <2>1, <2>2, RowTyped DEF Row
    <3>2. CallsOK' /\ \A b \in Call : call'[b].pc = IF b = c THEN "readPeers" ELSE call[b].pc
      BY <1>13, <2>1, <2>2, GotoTyped DEF ReadKey, Pc
    <3>3. DevicesOK'
      BY <1>13 DEF ReadKey, DevicesOK, Devices
    <3>4. got' = [got EXCEPT ![c] = [device |-> Target(c), key |-> device[Target(c)].key,
                                     peered |-> FALSE]]
      BY <1>13, <2>2 DEF ReadKey
    <3>5. GotOK'
      <4> DEFINE g == [device |-> Target(c), key |-> device[Target(c)].key, peered |-> FALSE]
      <4>1. g \in Configuration
        BY <2>1, <3>1 DEF Configuration
      <4> HIDE DEF g
      <4>2. g # None
        BY <4>1, NoneAssumption
      <4>3. got' = [got EXCEPT ![c] = g]
        BY <3>4 DEF g
      <4> QED
        BY <4>1, <4>3, <4>2, <3>2 DEF GotOK, At
    <3> QED
      BY <1>13, <3>2, <3>3, <3>5 DEF ReadKey
  <2>3. CASE ~Exists(c)
    BY <1>13, <2>1, <2>3, <1>c DEF ReadKey, Pc, Ended
  <2> QED
    BY <2>2, <2>3
<1>14. ASSUME NEW c \in Call, ReadPeers(c) PROVE TypeOK'
  <2>1. CallsOK' /\ \A b \in Call : call'[b].pc = IF b = c THEN "served" ELSE call[b].pc
    BY <1>14, GotoTyped DEF ReadPeers, Pc, Untargeted, Ended
  <2>2. DevicesOK'
    BY <1>14 DEF ReadPeers, DevicesOK, Devices
  <2>3. PICK p \in BOOLEAN : got' = [got EXCEPT ![c].peered = p]
    <3>1. call[c].target # None /\ (Exists(c) => device[Target(c)].peered \in BOOLEAN)
      BY <1>14, <1>7, RowTyped DEF ReadPeers, At, Untargeted, Ended, Row
    <3> QED
      BY <1>14, <3>1 DEF ReadPeers
  <2>4. got[c] \in Configuration
    BY <1>14 DEF ReadPeers, GotOK
  <2>5. GotOK'
    BY <2>1, <2>3, <2>4, NoneAssumption DEF GotOK, At, Configuration
  <2> QED
    BY <1>14, <2>1, <2>2, <2>5 DEF ReadPeers
<1>15. ASSUME NEW c \in Call, UpdateDevice(c) PROVE TypeOK'
  <2> DEFINE row == [device[Target(c)] EXCEPT !.key = call[c].new]
  <2>1. targeted(c)
    BY <1>15, <1>7 DEF UpdateDevice, At, Untargeted, Ended
  <2>2. Exists(c) => row \in Row
    <3>1. call[c].new \in Key
      BY <1>15 DEF UpdateDevice, CallsOK, CallRecord
    <3> QED
      BY <2>1, <3>1, RowTyped DEF Row
  <2>3. PICK next \in {"clear", "done"} : Write(c, row, next)
    BY <1>15 DEF UpdateDevice
  <2> HIDE DEF row
  <2> QED
    BY <1>15, <2>1, <2>2, <2>3, <1>a DEF UpdateDevice, Note, Pc, Ended
<1>16. ASSUME NEW c \in Call, Unpeer(c) \/ Remove(c) PROVE TypeOK'
  <2>1. targeted(c)
    BY <1>16, <1>7 DEF Unpeer, Remove, At, Untargeted, Ended
  <2>2. CASE Unpeer(c)
    <3> DEFINE row == [device[Target(c)] EXCEPT !.peered = FALSE]
    <3>1. Exists(c) => row \in Row
      BY <2>1, RowTyped DEF Row
    <3>2. Write(c, row, "remove") /\ UNCHANGED <<nextId, clock, got, raced>>
      BY <2>2 DEF Unpeer
    <3> HIDE DEF row
    <3> QED
      BY <3>1, <3>2, <2>1, <1>a DEF Pc
  <2>3. CASE Remove(c)
    <3>1. PICK pc \in {"done", "failed"} : Goto(c, pc)
      BY <2>3 DEF Remove, Write
    <3>2. CallsOK' /\ \A b \in Call : call'[b].pc = IF b = c THEN pc ELSE call[b].pc
      BY <3>1, GotoTyped DEF Pc, Untargeted, Ended
    <3>3. DevicesOK'
      BY <2>3 DEF Remove, Write, DevicesOK, Devices
    <3> QED
      BY <2>3, <3>2, <3>3, GotKept DEF Remove
  <2> QED
    BY <1>16, <2>2, <2>3
<1>17. ASSUME NEW c \in Call, Fail(c) PROVE TypeOK'
  BY <1>17, <1>c DEF Fail, Note, Pc, Untargeted, Ended
<1>18. ASSUME NEW threshold \in 1..clock + 1, ExpireSessions(threshold) PROVE TypeOK'
  <2>1. \A r \in Row : [r EXCEPT !.session = NoSession] \in Row
    BY DEF Row, Session
  <2>2. DevicesOK'
    BY <1>18, <2>1, NoneAssumption DEF ExpireSessions, DevicesOK, Devices
  <2> QED
    BY <1>18, <2>2 DEF ExpireSessions, CallsOK, GotOK, At
<1>19. CASE Restart
  <2>1. DevicesOK'
    BY <1>19 DEF Restart, DevicesOK, Devices
  <2>2. CallsOK'
    BY <1>19 DEF Restart, CallsOK, CallRecord, UnderWay, Pc, Untargeted, Ended, At
  <2>3. \A b \in Call : call'[b].pc # "readPeers"
    BY <1>19 DEF Restart, CallsOK, CallRecord, UnderWay, Ended
  <2> QED
    BY <1>19, <2>1, <2>2, <2>3, GotKept DEF Restart
<1>20. CASE UNCHANGED vars
  BY <1>20 DEF vars, CallsOK, GotOK, DevicesOK, Devices, At
<1> QED
  BY <1>1, <1>2, <1>3, <1>4, <1>6, <1>8, <1>9, <1>10, <1>11, <1>12, <1>13, <1>14,
     <1>15, <1>16, <1>17, <1>18, <1>19, <1>20 DEF Next, Start, Step

-----------------------------------------------------------------------------
(* A step that adds no device and brings no call to the insertion. *)
Quiet ==
    /\ Devices' \subseteq Devices
    /\ \A b \in Call : call'[b].pc = "insert" => call[b].pc = "insert"
    /\ raced \subseteq raced'

(* Such a step keeps the limit, and the room for the call that is at the       *)
(* insertion.                                                              *)
LEMMA QuietKeeps ==
  ASSUME IInv, Quiet
  PROVE  LimitUnlessRaced' /\ Room'
<1>1. /\ Cardinality(Devices) \in Nat /\ Cardinality(Devices') \in Nat
      /\ Cardinality(Devices') <= Cardinality(Devices)
  BY DevicesFinite, Fewer DEF Quiet, Devices
<1>2. LimitUnlessRaced'
  BY <1>1, LimitAssumption DEF IInv, Quiet, LimitUnlessRaced
<1>3. Room'
  BY <1>1, LimitAssumption DEF IInv, Quiet, Room, At
<1> QED
  BY <1>2, <1>3

(* A call that goes on to another query than the insertion.                  *)
LEMMA GotoQuiet ==
  ASSUME CallsOK, NEW c \in Call, NEW pc, pc # "insert",
         Goto(c, pc) \/ \E d : GotoWith(c, pc, d)
  PROVE  \A b \in Call : call'[b].pc = "insert" => call[b].pc = "insert"
  BY DEF CallsOK, CallRecord, Goto, GotoWith

(* A query that changes a row, or deletes it.                                *)
LEMMA WriteQuiet ==
  ASSUME DevicesOK, CallsOK, NEW c \in Call, NEW row, NEW next, next # "insert",
         Write(c, row, next), raced \subseteq raced'
  PROVE  Quiet
<1>1. Devices' \subseteq Devices
  BY DEF Write, Exists, DevicesOK, Devices
<1>2. Goto(c, next) \/ Goto(c, "failed")
  BY DEF Write
<1> QED
  BY <1>1, <1>2, GotoQuiet DEF Quiet

(* Every step keeps the limit: only createDeviceInternal comes to insert, and  *)
(* only after the count.                                                   *)
LEMMA LimitStep == IInv /\ [Next]_vars => LimitUnlessRaced' /\ Room'
<1> SUFFICES ASSUME IInv, [Next]_vars PROVE LimitUnlessRaced' /\ Room'
  OBVIOUS
<1> USE DEF IInv, TypeOK
<1>a. ASSUME NEW c \in Call, NEW r, r.pc # "insert", Begin(c, r), raced \subseteq raced'
      PROVE  Quiet
  BY <1>a DEF Quiet, Begin, CallsOK, Devices
<1>1. ASSUME NEW c \in Call, Start(c) PROVE Quiet
  <2>1. ASSUME NEW ext \in ExtId, AssignDeviceSlot(c, ext) PROVE Quiet
    BY <2>1, <1>a DEF AssignDeviceSlot, Note
  <2>2. CASE CreateDevice(c)
    BY <2>2, <1>a DEF CreateDevice
  <2>3. ASSUME NEW d \in Devices, NEW key \in Key, ReadDevice(c, d, key) PROVE Quiet
    BY <2>3, <1>a DEF ReadDevice
  <2>4. ASSUME NEW d \in Devices, NEW first \in {"connect", "disconnect", "unpeer"},
               Change(c, d, first)
        PROVE  Quiet
    BY <2>4, <1>a DEF Change
  <2> QED
    BY <1>1, <2>1, <2>2, <2>3, <2>4 DEF Start
<1>2. ASSUME NEW c \in Call, NEW ds, NEW found, NEW otherwise,
             found # "insert", otherwise # "insert", Choose(c, ds, found, otherwise)
      PROVE  Quiet
  BY <1>2, GotoQuiet DEF Choose, Quiet, Devices
<1>3. ASSUME NEW c \in Call,
             FindDevice(c) \/ FindFree(c) \/ FindInactive(c) \/ FindOldest(c) \/ Lookup(c)
      PROVE  Quiet
  BY <1>2, <1>3 DEF FindDevice, FindFree, FindInactive, FindOldest, Lookup
<1>4. ASSUME NEW c \in Call,
             StoreSession(c) \/ Overwrite(c) \/ ClearSession(c) \/ UpdateDevice(c)
                \/ Unpeer(c) \/ Remove(c)
      PROVE  Quiet
  <2>1. CASE StoreSession(c)
    BY <2>1, WriteQuiet DEF StoreSession
  <2>2. CASE Overwrite(c)
    BY <2>2, WriteQuiet DEF Overwrite
  <2>3. CASE ClearSession(c)
    BY <2>3, WriteQuiet DEF ClearSession
  <2>4. CASE UpdateDevice(c)
    BY <2>4, WriteQuiet DEF UpdateDevice, Note
  <2>5. CASE Unpeer(c) \/ Remove(c)
    BY <2>5, WriteQuiet DEF Unpeer, Remove
  <2> QED
    BY <1>4, <2>1, <2>2, <2>3, <2>4, <2>5
<1>5. ASSUME NEW c \in Call, Connect(c) \/ DeleteAdjacency(c) PROVE Quiet
  <2>1. CASE Goto(c, "failed") /\ UNCHANGED <<device, raced>>
    BY <2>1, GotoQuiet DEF Quiet, Devices
  <2>2. ASSUME NEW row, Write(c, row, "clear"), UNCHANGED raced PROVE Quiet
    BY <2>2, WriteQuiet
  <2> QED
    BY <1>5, <2>1, <2>2 DEF Connect, DeleteAdjacency
<1>6. ASSUME NEW c \in Call, Count(c) \/ ReadKey(c) \/ ReadPeers(c) \/ Fail(c) PROVE Quiet
  <2>1. \E pc : pc # "insert" /\ Goto(c, pc)
    BY <1>6 DEF Count, ReadKey, ReadPeers, Fail
  <2> QED
    BY <1>6, <2>1, GotoQuiet DEF Quiet, Devices, Count, ReadKey, ReadPeers, Fail, Note
<1>7. ASSUME NEW threshold, ExpireSessions(threshold) PROVE Quiet
  BY <1>7 DEF ExpireSessions, Quiet, Devices
<1>8. CASE UNCHANGED vars
  <2>1. Quiet
    BY <1>8 DEF vars, Quiet, Devices
  <2> QED
    BY <2>1, QuietKeeps
<1>9. ASSUME NEW c \in Call, Recheck(c) PROVE LimitUnlessRaced' /\ Room'
  <2>1. Devices' = Devices /\ LimitUnlessRaced'
    BY <1>9 DEF Recheck, Devices, Note, LimitUnlessRaced
  <2>2. CASE Goto(c, "failed") /\ UNCHANGED raced
    <3>1. Quiet
      BY <2>1, <2>2, GotoQuiet DEF Quiet
    <3> QED
      BY <3>1, QuietKeeps
  <2>3. CASE /\ Cardinality(Devices) < Limit
             /\ Goto(c, "insert")
             /\ Note(IF \E b \in Call \ {c} : At(b, "insert") THEN {"limit"} ELSE {})
    <3>1. \A b \in Call : call'[b].pc = IF b = c THEN "insert" ELSE call[b].pc
      BY <2>3 DEF Goto, CallsOK, CallRecord
    <3>2. "limit" \notin raced' => \A b \in Call : At(b, "insert")' => b = c
      BY <2>3, <3>1 DEF Note, At
    <3> QED
      BY <2>1, <2>3, <3>2 DEF Room
  <2> QED
    BY <1>9, <2>2, <2>3 DEF Recheck
<1>10. ASSUME NEW c \in Call, Insert(c) PROVE LimitUnlessRaced' /\ Room'
  <2>1. At(c, "insert") /\ raced' = raced
    BY <1>10 DEF Insert
  <2>2. Devices' \subseteq Devices \cup {nextId}
    BY <1>10 DEF Insert, Devices, DevicesOK
  <2>3. Cardinality(Devices') <= Cardinality(Devices) + 1
    <3>1. nextId \in Device
      BY <1>10, LimitAssumption DEF Insert, DevicesOK, Device
    <3>2. IsFiniteSet(Devices) /\ nextId \notin Devices
      BY DevicesFinite DEF DevicesOK, Devices, Device
    <3>3. Cardinality(Devices \cup {nextId}) = Cardinality(Devices) + 1
      BY <3>2, FS_AddElement
    <3> QED
      BY <2>2, <3>1, <3>3, Fewer DEF Devices
  <2>4. Cardinality(Devices) \in Nat /\ Cardinality(Devices') \in Nat
    BY DevicesFinite DEF Devices
  <2>5. \A b \in Call : At(b, "insert")' => b # c /\ At(b, "insert")
    BY <1>10 DEF Insert, GotoWith, CallsOK, CallRecord, At
  <2>6. LimitUnlessRaced'
    BY <2>1, <2>3, <2>4, LimitAssumption DEF Room, LimitUnlessRaced
  <2>7. Room'
    BY <2>1, <2>5 DEF Room
  <2> QED
    BY <2>6, <2>7
<1>11. CASE Restart
  <2>1. PICK excess \in SUBSET Devices :
          /\ Cardinality(Devices \ excess) = (IF Cardinality(Devices) < Limit
                                              THEN Cardinality(Devices) ELSE Limit)
          /\ device' = [d \in Device |-> IF d \in excess THEN None ELSE device[d]]
    BY <1>11 DEF Restart
  <2>2. Devices' = Devices \ excess
    BY <2>1 DEF Devices
  <2>3. Cardinality(Devices') <= Limit
    BY <2>1, <2>2, DevicesFinite, LimitAssumption DEF Devices
  <2>4. \A b \in Call : call'[b].pc # "insert"
    BY <1>11 DEF Restart, CallsOK, CallRecord, UnderWay, Ended
  <2> QED
    BY <2>3, <2>4 DEF LimitUnlessRaced, Room, At
<1>12. ASSUME Quiet PROVE LimitUnlessRaced' /\ Room'
  BY <1>12, QuietKeeps
<1> QED
  BY <1>1, <1>3, <1>4, <1>5, <1>6, <1>7, <1>8, <1>9, <1>10, <1>11, <1>12 DEF Next, Step

(* In every reachable state of AssignDeviceSlot, GetConfiguration and the      *)
(* administrator's calls the variables have their types; in particular no  *)
(* device has an identifier that is still to be given out, and no call     *)
(* reaches a query of its device without having one.                       *)
THEOREM SlotsTypeCorrect == Spec => []TypeOK
<1>1. Init => TypeOK
  BY InitIInv DEF IInv
<1> QED
  BY <1>1, TypeStep, PTL DEF Spec

(* However many calls run at once, whatever their order, and wherever they     *)
(* fail or the orchestrator restarts: the user never has more devices than *)
(* the limit, unless two calls were between the check of                   *)
(* createDeviceInternal and the insertion together.                        *)
THEOREM LimitCorrect == Spec => []LimitUnlessRaced
<1>1. IInv /\ [Next]_vars => IInv'
  BY TypeStep, LimitStep DEF IInv
<1>2. IInv => LimitUnlessRaced
  BY DEF IInv
<1> QED
  BY InitIInv, <1>1, <1>2, PTL DEF Spec

-----------------------------------------------------------------------------
(* Sessions and external ids: what a call knows of its device.               *)

ClientPc ==
    {"find", "reuse", "findFree", "count", "stamp", "findInactive", "findOldest",
     "overwrite", "lookup", "readKey", "readPeers", "served"}
AdminPc == {"write", "disconnect", "unpeer", "remove"}

(* Only the calls of clients have an external id.                            *)
Kinds ==
    \A c \in Call :
        /\ call[c].op = "assign" => call[c].ext # NoExt
        /\ call[c].op # "assign" => call[c].ext = NoExt
        /\ call[c].pc \in ClientPc => call[c].op = "assign"
        /\ call[c].pc \in AdminPc => call[c].op # "assign"

(* A client's call that is looking for a device has seen that none carries its*)
(* id, and one that has a device has the only one that may; with another    *)
(* call of that client neither would stay so.                              *)
Looking == {"findFree", "count", "recheck", "insert", "findInactive", "findOldest", "overwrite"}
Having == {"reuse", "connect", "clear", "stamp", "lookup"}

Distinct ==
    \A d, e \in Devices : device[d].ext = device[e].ext /\ device[d].ext # NoExt => d = e
OneCaller ==
    \A b, c \in Call :
        UnderWay(b) /\ UnderWay(c) /\ call[b].ext = call[c].ext /\ call[b].ext # NoExt => b = c
Carriers ==
    \A c \in Call, d \in Devices :
        call[c].ext # NoExt /\ device[d].ext = call[c].ext =>
            /\ call[c].pc \notin Looking
            /\ call[c].pc \in Having => d = Target(c)
IdsKnown == "id" \notin raced => Distinct /\ OneCaller /\ Carriers

(* A session is stored by its call only, and the call reads the configuration *)
(* of the device that has it.                                              *)
Reading == {"lookup", "readKey", "readPeers"}
Stored ==
    \A c \in Call, d \in Devices :
        device[d].session = c =>
            /\ call[c].pc \in Reading \cup {"served", "failed"}
            /\ call[c].pc \in Reading => d = Target(c)
SessionsKnown == "id" \notin raced => Stored

(* What has been read is current while the session is valid and nobody is     *)
(* about to clear it.                                                      *)
Current ==
    \A c \in Call, d \in Devices :
        device[d].session = c /\ ~Pending(d) =>
            /\ At(c, "readPeers") => got[c].device = d /\ got[c].key = device[d].key
            /\ At(c, "served") =>
                got[c] = [device |-> d, key |-> device[d].key, peered |-> device[d].peered]
ReadsKnown == raced \cap {"id", "update", "failed"} = {} => Current

SInv == TypeOK /\ Kinds /\ IdsKnown /\ SessionsKnown /\ ReadsKnown

(* What a step of a call leaves alone.                                       *)
OtherCalls(c) == \A b \in Call \ {c} : call'[b] = call[b]
OtherRows(d) == \A e \in Device \ {d} : device'[e] = device[e]
MovedTo(c, pc, d) ==
    /\ OtherCalls(c)
    /\ call'[c].pc = pc /\ call'[c].target = d
    /\ call'[c].op = call[c].op /\ call'[c].ext = call[c].ext
Moved(c, pc) == MovedTo(c, pc, Target(c))

(* The query finds the device gone, or changes its row.                      *)
Lost(c) == ~Exists(c) /\ Moved(c, "failed") /\ UNCHANGED device
Changed(c, next) ==
    /\ Exists(c) /\ Moved(c, next)
    /\ Target(c) \in Device /\ OtherRows(Target(c))
    /\ device'[Target(c)] \in Row

LEMMA GotoMoves ==
  ASSUME CallsOK, NEW c \in Call, NEW pc, Goto(c, pc)
  PROVE  Moved(c, pc)
  BY DEF CallsOK, CallRecord, Goto, Moved, MovedTo, OtherCalls, Target

LEMMA GotoWithMoves ==
  ASSUME CallsOK, NEW c \in Call, NEW pc, NEW d, GotoWith(c, pc, d)
  PROVE  MovedTo(c, pc, d)
  BY DEF CallsOK, CallRecord, GotoWith, MovedTo, OtherCalls

LEMMA WriteMoves ==
  ASSUME DevicesOK, CallsOK, NEW c \in Call, Target(c) # None, NEW row, NEW next,
         Exists(c) => row \in Row, Write(c, row, next)
  PROVE  Lost(c) \/ (Changed(c, next) /\ device'[Target(c)] = row)
<1>1. Target(c) \in Device
  BY DEF CallsOK, CallRecord, Target
<1>2. CASE Exists(c)
  BY <1>1, <1>2, GotoMoves DEF Write, Changed, OtherRows, DevicesOK
<1>3. CASE ~Exists(c)
  BY <1>3, GotoMoves DEF Write, Lost
<1> QED
  BY <1>2, <1>3

(* A call at a query of its device has one.                                  *)
LEMMA HasTarget ==
  ASSUME CallsOK, NEW c \in Call, call[c].pc \notin Untargeted
  PROVE  Target(c) # None /\ Target(c) \in Device
  BY DEF CallsOK, CallRecord, Target

(* The effects of the queries, one by one.                                   *)
LEMMA StoreEffect ==
  ASSUME TypeOK, NEW c \in Call, StoreSession(c)
  PROVE  /\ call[c].pc \in {"reuse", "stamp"} /\ UNCHANGED <<got, raced>>
         /\ \/ Lost(c)
            \/ /\ Changed(c, "lookup")
               /\ device'[Target(c)].session = c
               /\ device'[Target(c)].ext = device[Target(c)].ext
<1> DEFINE row == [device[Target(c)] EXCEPT !.session = c, !.time = call[c].time]
<1>1. call[c].pc \in {"reuse", "stamp"} /\ UNCHANGED <<got, raced>> /\ Write(c, row, "lookup")
  BY DEF StoreSession, At
<1>2. Target(c) # None /\ call[c].time \in Nat
  BY <1>1, HasTarget DEF TypeOK, Untargeted, Ended, CallsOK, CallRecord
<1>3. Exists(c) => /\ row \in Row /\ row.session = c
                   /\ row.ext = device[Target(c)].ext
  BY <1>2, RowTyped DEF TypeOK, Row, Session, Target
<1> HIDE DEF row
<1> QED
  BY <1>1, <1>2, <1>3, WriteMoves DEF TypeOK, Changed

LEMMA OverwriteEffect ==
  ASSUME TypeOK, NEW c \in Call, Overwrite(c)
  PROVE  /\ call[c].pc = "overwrite" /\ UNCHANGED <<got, raced>>
         /\ \/ Lost(c)
            \/ /\ Changed(c, "lookup")
               /\ device'[Target(c)].session = c
               /\ device'[Target(c)].ext = call[c].ext
<1> DEFINE row == [device[Target(c)] EXCEPT !.ext = call[c].ext, !.session = c,
                                            !.time = call[c].time]
<1>1. call[c].pc = "overwrite" /\ UNCHANGED <<got, raced>> /\ Write(c, row, "lookup")
  BY DEF Overwrite, At
<1>2. Target(c) # None /\ call[c].time \in Nat /\ call[c].ext \in ExtId \cup {NoExt}
  BY <1>1, HasTarget DEF TypeOK, Untargeted, Ended, CallsOK, CallRecord
<1>3. Exists(c) => row \in Row /\ row.session = c /\ row.ext = call[c].ext
  BY <1>2, RowTyped DEF TypeOK, Row, Session, Target
<1> HIDE DEF row
<1> QED
  BY <1>1, <1>2, <1>3, WriteMoves DEF TypeOK, Changed

LEMMA ClearEffect ==
  ASSUME TypeOK, NEW c \in Call, ClearSession(c)
  PROVE  /\ call[c].pc = "clear" /\ UNCHANGED <<got, raced>>
         /\ \/ Lost(c)
            \/ /\ Changed(c, IF call[c].op = "assign" THEN "stamp" ELSE "done")
               /\ device'[Target(c)].session = NoSession
               /\ device'[Target(c)].ext = device[Target(c)].ext
<1> DEFINE row == [device[Target(c)] EXCEPT !.session = NoSession]
<1>1. /\ call[c].pc = "clear" /\ UNCHANGED <<got, raced>>
      /\ Write(c, row, IF call[c].op = "assign" THEN "stamp" ELSE "done")
  BY DEF ClearSession, At
<1>2. Target(c) # None
  BY <1>1, HasTarget DEF TypeOK, Untargeted, Ended
<1>3. Exists(c) => /\ row \in Row /\ row.session = NoSession
                   /\ row.ext = device[Target(c)].ext
  BY <1>2, RowTyped DEF TypeOK, Row, Session, Target
<1> HIDE DEF row
<1> QED
  BY <1>1, <1>2, <1>3, WriteMoves DEF TypeOK, Changed

(* A query that sets only whether the adjacency is peered.                   *)
LEMMA PeeredEffect ==
  ASSUME TypeOK, NEW c \in Call, Target(c) # None, NEW p \in BOOLEAN, NEW next,
         Write(c, [device[Target(c)] EXCEPT !.peered = p], next)
  PROVE  \/ Lost(c)
         \/ /\ Changed(c, next)
            /\ device'[Target(c)].session = device[Target(c)].session
            /\ device'[Target(c)].ext = device[Target(c)].ext
            /\ device'[Target(c)].key = device[Target(c)].key
<1> DEFINE row == [device[Target(c)] EXCEPT !.peered = p]
<1>1. Exists(c) => /\ row \in Row /\ row.session = device[Target(c)].session
                   /\ row.ext = device[Target(c)].ext /\ row.key = device[Target(c)].key
  BY RowTyped DEF TypeOK, Row, Target
<1>2. Write(c, row, next)
  OBVIOUS
<1> HIDE DEF row
<1> QED
  BY <1>1, <1>2, WriteMoves DEF TypeOK, Changed

LEMMA PeerStepEffect ==
  ASSUME TypeOK, NEW c \in Call, Connect(c) \/ DeleteAdjacency(c) \/ Unpeer(c)
  PROVE  /\ call[c].pc \in {"connect", "disconnect", "unpeer"} /\ UNCHANGED <<got, raced>>
         /\ \/ Moved(c, "failed") /\ UNCHANGED device
            \/ /\ Changed(c, IF call[c].pc = "unpeer" THEN "remove" ELSE "clear")
               /\ device'[Target(c)].session = device[Target(c)].session
               /\ device'[Target(c)].ext = device[Target(c)].ext
               /\ device'[Target(c)].key = device[Target(c)].key
<1>1. call[c].pc \in {"connect", "disconnect", "unpeer"} /\ UNCHANGED <<got, raced>>
  BY DEF Connect, DeleteAdjacency, Unpeer, At
<1>2. Target(c) # None
  BY <1>1, HasTarget DEF TypeOK, Untargeted, Ended
<1>3. \/ Goto(c, "failed") /\ UNCHANGED device
      \/ \E p \in BOOLEAN :
            Write(c, [device[Target(c)] EXCEPT !.peered = p],
                  IF call[c].pc = "unpeer" THEN "remove" ELSE "clear")
  BY DEF Connect, DeleteAdjacency, Unpeer, At
<1> QED
  BY <1>1, <1>2, <1>3, GotoMoves, PeeredEffect DEF TypeOK, Lost

(* UpdateDevice leaves the session for the next query, unless the key is the  *)
(* one it read, which is then the key that was there.                      *)
LEMMA UpdateEffect ==
  ASSUME TypeOK, NEW c \in Call, UpdateDevice(c)
  PROVE  /\ call[c].pc = "write" /\ UNCHANGED got /\ raced \subseteq raced'
         /\ \/ Lost(c)
            \/ /\ \/ Changed(c, "clear")
                  \/ /\ Changed(c, "done")
                     /\ "update" \notin raced' =>
                            device'[Target(c)].key = device[Target(c)].key
               /\ device'[Target(c)].session = device[Target(c)].session
               /\ device'[Target(c)].ext = device[Target(c)].ext
               /\ device'[Target(c)].peered = device[Target(c)].peered
<1> DEFINE row == [device[Target(c)] EXCEPT !.key = call[c].new]
           next == IF call[c].new = call[c].old THEN "done" ELSE "clear"
<1>1. /\ call[c].pc = "write" /\ UNCHANGED got /\ raced \subseteq raced'
      /\ Write(c, row, next)
  BY DEF UpdateDevice, At, Note
<1>2. Exists(c) /\ "update" \notin raced' => device[Target(c)].key = call[c].old
  BY DEF UpdateDevice, Note
<1>3. Target(c) # None /\ call[c].new \in Key
  BY <1>1, HasTarget DEF TypeOK, Untargeted, Ended, CallsOK, CallRecord, At
<1>4. Exists(c) => /\ row \in Row /\ row.session = device[Target(c)].session
                   /\ row.ext = device[Target(c)].ext
                   /\ row.peered = device[Target(c)].peered /\ row.key = call[c].new
  BY <1>3, RowTyped DEF TypeOK, Row, Target
<1> HIDE DEF row
<1>5. Lost(c) \/ (Changed(c, next) /\ device'[Target(c)] = row)
  BY <1>1, <1>3, <1>4, WriteMoves DEF TypeOK
<1>6. ASSUME Changed(c, next), device'[Target(c)] = row
      PROVE  /\ \/ Changed(c, "clear")
                \/ /\ Changed(c, "done")
                   /\ "update" \notin raced' =>
                            device'[Target(c)].key = device[Target(c)].key
             /\ device'[Target(c)].session = device[Target(c)].session
             /\ device'[Target(c)].ext = device[Target(c)].ext
             /\ device'[Target(c)].peered = device[Target(c)].peered
  <2>1. Exists(c)
    BY <1>6 DEF Changed
  <2>2. /\ device'[Target(c)].session = device[Target(c)].session
        /\ device'[Target(c)].ext = device[Target(c)].ext
        /\ device'[Target(c)].peered = device[Target(c)].peered
        /\ device'[Target(c)].key = call[c].new
    BY <1>4, <1>6, <2>1
  <2>3. CASE call[c].new = call[c].old
    BY <1>2, <1>6, <2>1, <2>2, <2>3
  <2>4. CASE call[c].new # call[c].old
    BY <1>6, <2>2, <2>4
  <2> QED
    BY <2>3, <2>4
<1> QED
  BY <1>1, <1>5, <1>6

LEMMA RemoveEffect ==
  ASSUME TypeOK, NEW c \in Call, Remove(c)
  PROVE  /\ call[c].pc = "remove" /\ UNCHANGED <<got, raced>>
         /\ \/ Lost(c)
            \/ /\ Moved(c, "done") /\ device'[Target(c)] = None /\ OtherRows(Target(c))
               /\ Target(c) \in Device
<1>1. call[c].pc = "remove" /\ UNCHANGED <<got, raced>> /\ Write(c, None, "done")
  BY DEF Remove, At
<1>2. Target(c) \in Device
  BY <1>1, HasTarget DEF TypeOK, Untargeted, Ended
<1>3. CASE Exists(c)
  BY <1>1, <1>2, <1>3, GotoMoves DEF Write, TypeOK, DevicesOK, OtherRows
<1>4. CASE ~Exists(c)
  BY <1>1, <1>4, GotoMoves DEF Write, TypeOK, Lost
<1> QED
  BY <1>1, <1>3, <1>4

LEMMA InsertEffect ==
  ASSUME TypeOK, NEW c \in Call, Insert(c)
  PROVE  /\ call[c].pc = "insert" /\ UNCHANGED <<got, raced>>
         /\ nextId \in Device /\ nextId \notin Devices /\ OtherRows(nextId)
         /\ device'[nextId] \in Row
         /\ device'[nextId].ext = call[c].ext /\ device'[nextId].session = NoSession
         /\ \E pc \in {"connect", "stamp", "done"} :
                MovedTo(c, pc, nextId) /\ (pc = "stamp" => call[c].op = "assign")
<1>1. PICK k \in Key : device' = [device EXCEPT ![nextId] =
          [ext |-> call[c].ext, session |-> NoSession, time |-> 0, key |-> k,
           peered |-> FALSE]]
  BY DEF Insert
<1>2. nextId \in Device /\ call[c].pc = "insert" /\ UNCHANGED <<got, raced>>
  BY LimitAssumption DEF Insert, TypeOK, DevicesOK, Device, At
<1>3. nextId \notin Devices
  BY LimitAssumption DEF TypeOK, DevicesOK, Devices, Device
<1> DEFINE row == [ext |-> call[c].ext, session |-> NoSession, time |-> 0, key |-> k,
                   peered |-> FALSE]
<1>4. row \in Row /\ row.ext = call[c].ext /\ row.session = NoSession
  BY DEF TypeOK, CallsOK, CallRecord, Row, Session
<1>5. device'[nextId] = row /\ OtherRows(nextId)
  BY <1>1, <1>2 DEF TypeOK, DevicesOK, OtherRows
<1> HIDE DEF row
<1>6. \E pc \in {"connect", "stamp", "done"} :
        GotoWith(c, pc, nextId) /\ (pc = "stamp" => call[c].op = "assign")
  BY DEF Insert
<1> QED
  BY <1>2, <1>3, <1>4, <1>5, <1>6, GotoWithMoves DEF TypeOK

(* A query for a device.                                                     *)
LEMMA ChooseEffect ==
  ASSUME TypeOK, NEW c \in Call, NEW ds \in SUBSET Device, NEW found, NEW otherwise,
         Choose(c, ds, found, otherwise)
  PROVE  /\ UNCHANGED <<device, got, raced>>
         /\ \/ ds = {} /\ Moved(c, otherwise)
            \/ \E d \in ds : MovedTo(c, found, d)
  BY GotoMoves, GotoWithMoves DEF Choose, TypeOK

-----------------------------------------------------------------------------
(* The kinds of calls.                                                       *)

LEMMA KindsKept ==
  ASSUME TypeOK, Kinds, NEW c \in Call, NEW pc, NEW d, MovedTo(c, pc, d),
         pc \in ClientPc => call[c].op = "assign",
         pc \in AdminPc => call[c].op # "assign"
  PROVE  Kinds'
  BY DEF Kinds, MovedTo, OtherCalls

(* Beginning a call. *)
LEMMA BeginEffect ==
  ASSUME TypeOK, NEW c \in Call, NEW r, Begin(c, r)
  PROVE  /\ call[c].pc = "idle" /\ call'[c] = r /\ OtherCalls(c)
         /\ UNCHANGED <<device, got>>
  BY DEF Begin, At, TypeOK, CallsOK, OtherCalls

LEMMA StartEffect ==
  ASSUME TypeOK, NEW c \in Call, Start(c)
  PROVE  /\ call[c].pc = "idle" /\ OtherCalls(c) /\ UNCHANGED <<device, got>>
         /\ raced \subseteq raced'
         /\ \/ /\ call'[c].op = "assign" /\ call'[c].ext \in ExtId /\ call'[c].pc = "find"
               /\ "id" \notin raced' =>
                    \A b \in Call : UnderWay(b) => call[b].ext # call'[c].ext
            \/ /\ call'[c].op # "assign" /\ call'[c].ext = NoExt
               /\ call'[c].pc \in {"recheck", "write", "connect", "disconnect", "unpeer"}
<1>1. ASSUME NEW ext \in ExtId, AssignDeviceSlot(c, ext)
      PROVE  /\ call[c].pc = "idle" /\ OtherCalls(c) /\ UNCHANGED <<device, got>>
             /\ raced \subseteq raced'
             /\ call'[c].op = "assign" /\ call'[c].ext = ext /\ call'[c].pc = "find"
             /\ "id" \notin raced' => \A b \in Call : UnderWay(b) => call[b].ext # ext
  BY <1>1, BeginEffect DEF AssignDeviceSlot, Note
<1>2. CASE CreateDevice(c)
  BY <1>2, BeginEffect DEF CreateDevice
<1>3. ASSUME NEW d \in Devices, NEW key \in Key, ReadDevice(c, d, key)
      PROVE  /\ call[c].pc = "idle" /\ OtherCalls(c) /\ UNCHANGED <<device, got, raced>>
             /\ call'[c].op # "assign" /\ call'[c].ext = NoExt /\ call'[c].pc = "write"
  BY <1>3, BeginEffect DEF ReadDevice
<1>4. ASSUME NEW d \in Devices, NEW first \in {"connect", "disconnect", "unpeer"},
             Change(c, d, first)
      PROVE  /\ call[c].pc = "idle" /\ OtherCalls(c) /\ UNCHANGED <<device, got, raced>>
             /\ call'[c].op # "assign" /\ call'[c].ext = NoExt /\ call'[c].pc = first
  BY <1>4, BeginEffect DEF Change
<1> QED
  BY <1>1, <1>2, <1>3, <1>4 DEF Start

(* A query for a device, or a step that changes no device.                   *)
Searches(c) ==
    FindDevice(c) \/ FindFree(c) \/ FindInactive(c) \/ FindOldest(c) \/ Lookup(c)
Plain(c) == Count(c) \/ Recheck(c) \/ ReadKey(c) \/ ReadPeers(c) \/ Fail(c)

SearchFrom(pc) ==
    CASE pc = "find" -> {"reuse", "findFree"}
      [] pc = "findFree" -> {"overwrite", "count"}
      [] pc = "findInactive" -> {"overwrite", "findOldest"}
      [] pc = "findOldest" -> {"overwrite", "failed"}
      [] pc = "lookup" -> {"readKey", "failed"}

(* Without a device found, the target stays.                                 *)
LEMMA SearchEffect ==
  ASSUME TypeOK, NEW c \in Call, Searches(c)
  PROVE  /\ UNCHANGED <<device, got, raced>>
         /\ call[c].pc \in {"find", "findFree", "findInactive", "findOldest", "lookup"}
         /\ \E pc \in SearchFrom(call[c].pc) : \E d : MovedTo(c, pc, d)
         /\ call[c].pc = "find" =>
              \/ Moved(c, "findFree") /\ WithExt(call[c].ext) = {}
              \/ \E d \in WithExt(call[c].ext) : MovedTo(c, "reuse", d)
         /\ call[c].pc = "lookup" =>
              \/ Moved(c, "failed")
              \/ \E d \in WithExt(call[c].ext) : MovedTo(c, "readKey", d)
<1>1. \A ext : WithExt(ext) \subseteq Device
  BY DEF WithExt, Devices
<1>2. Oldest(Inactive) \subseteq Device /\ Oldest(Devices) \subseteq Device
  BY DEF Oldest, Inactive, Devices
<1>3. CASE FindDevice(c)
  <2>1. /\ UNCHANGED <<device, got, raced>> /\ call[c].pc = "find"
        /\ \/ WithExt(call[c].ext) = {} /\ Moved(c, "findFree")
           \/ \E d \in WithExt(call[c].ext) : MovedTo(c, "reuse", d)
    BY <1>1, <1>3, ChooseEffect DEF FindDevice, At
  <2> QED
    BY <2>1 DEF SearchFrom, Moved
<1>4. CASE FindFree(c)
  <2>1. /\ UNCHANGED <<device, got, raced>> /\ call[c].pc = "findFree"
        /\ Moved(c, "count") \/ \E d \in Device : MovedTo(c, "overwrite", d)
    BY <1>1, <1>4, ChooseEffect DEF FindFree, At
  <2> QED
    BY <2>1 DEF SearchFrom, Moved
<1>5. CASE FindInactive(c)
  <2>1. /\ UNCHANGED <<device, got, raced>> /\ call[c].pc = "findInactive"
        /\ Moved(c, "findOldest") \/ \E d \in Device : MovedTo(c, "overwrite", d)
    BY <1>2, <1>5, ChooseEffect DEF FindInactive, At
  <2> QED
    BY <2>1 DEF SearchFrom, Moved
<1>6. CASE FindOldest(c)
  <2>1. /\ UNCHANGED <<device, got, raced>> /\ call[c].pc = "findOldest"
        /\ Moved(c, "failed") \/ \E d \in Device : MovedTo(c, "overwrite", d)
    BY <1>2, <1>6, ChooseEffect DEF FindOldest, At
  <2> QED
    BY <2>1 DEF SearchFrom, Moved
<1>7. CASE Lookup(c)
  <2>1. /\ UNCHANGED <<device, got, raced>> /\ call[c].pc = "lookup"
        /\ \/ Moved(c, "failed")
           \/ \E d \in WithExt(call[c].ext) : MovedTo(c, "readKey", d)
    BY <1>1, <1>7, ChooseEffect DEF Lookup, At
  <2> QED
    BY <2>1 DEF SearchFrom, Moved
<1> QED
  BY <1>3, <1>4, <1>5, <1>6, <1>7 DEF Searches

PlainFrom(pc) ==
    CASE pc = "count" -> {"recheck", "findInactive", "failed"}
      [] pc = "recheck" -> {"insert", "failed"}
      [] pc = "readKey" -> {"readPeers", "failed"}
      [] pc = "readPeers" -> {"served", "failed"}
      [] OTHER -> {"failed"}

LEMMA PlainEffect ==
  ASSUME TypeOK, NEW c \in Call, Plain(c)
  PROVE  /\ UnderWay(c) /\ UNCHANGED device /\ raced \subseteq raced'
         /\ \E pc \in PlainFrom(call[c].pc) : Moved(c, pc)
<1>1. CASE Count(c)
  <2>1. /\ call[c].pc = "count" /\ UNCHANGED <<device, raced>>
        /\ \E pc \in {"recheck", "findInactive"} : Goto(c, pc)
    BY <1>1 DEF Count, At
  <2> QED
    BY <2>1, GotoMoves DEF TypeOK, UnderWay, Ended, PlainFrom
<1>2. CASE Recheck(c)
  <2>1. /\ call[c].pc = "recheck" /\ UNCHANGED device /\ raced \subseteq raced'
        /\ \E pc \in {"insert", "failed"} : Goto(c, pc)
    BY <1>2 DEF Recheck, At, Note
  <2> QED
    BY <2>1, GotoMoves DEF TypeOK, UnderWay, Ended, PlainFrom
<1>3. CASE ReadKey(c)
  <2>1. /\ call[c].pc = "readKey" /\ UNCHANGED <<device, raced>>
        /\ \E pc \in {"readPeers", "failed"} : Goto(c, pc)
    BY <1>3 DEF ReadKey, At
  <2> QED
    BY <2>1, GotoMoves DEF TypeOK, UnderWay, Ended, PlainFrom
<1>4. CASE ReadPeers(c)
  <2>1. call[c].pc = "readPeers" /\ UNCHANGED <<device, raced>> /\ Goto(c, "served")
    BY <1>4 DEF ReadPeers, At
  <2> QED
    BY <2>1, GotoMoves DEF TypeOK, UnderWay, Ended, PlainFrom
<1>5. CASE Fail(c)
  <2>1. UnderWay(c) /\ UNCHANGED device /\ raced \subseteq raced' /\ Goto(c, "failed")
    BY <1>5 DEF Fail, Note
  <2>2. "failed" \in PlainFrom(call[c].pc)
    BY DEF PlainFrom
  <2> QED
    BY <2>1, <2>2, GotoMoves DEF TypeOK
<1> QED
  BY <1>1, <1>2, <1>3, <1>4, <1>5 DEF Plain

LEMMA NextByWhom ==
  ASSUME Next
  PROVE  \/ \E c \in Call :
              \/ Start(c) \/ Searches(c) \/ Plain(c) \/ Insert(c) \/ StoreSession(c)
              \/ Overwrite(c) \/ ClearSession(c) \/ UpdateDevice(c) \/ Remove(c)
              \/ Connect(c) \/ DeleteAdjacency(c) \/ Unpeer(c)
         \/ \E threshold \in 1..clock + 1 : ExpireSessions(threshold)
         \/ Restart
  BY DEF Next, Step, Searches, Plain

(* A restart ends the calls under way where they are, and deletes devices.   *)
LEMMA RestartEffect ==
  ASSUME TypeOK, Restart
  PROVE  /\ \A c \in Call :
              /\ call'[c].op = call[c].op /\ call'[c].ext = call[c].ext
              /\ call'[c].pc = IF UnderWay(c) THEN "failed" ELSE call[c].pc
         /\ \A d \in Devices' : d \in Devices /\ device'[d] = device[d]
         /\ "id" \in raced => "id" \in raced'
         /\ "update" \in raced => "update" \in raced'
         /\ "failed" \in raced => "failed" \in raced'
         /\ (\E d \in Devices : Pending(d)) => "failed" \in raced'
         /\ UNCHANGED got
<1>1. /\ call' = [c \in Call |-> IF UnderWay(c) THEN [call[c] EXCEPT !.pc = "failed"]
                                 ELSE call[c]]
      /\ UNCHANGED got
      /\ raced' = (raced \ {"limit"}) \cup
                IF \E d \in Devices : Pending(d) THEN {"failed"} ELSE {}
      /\ \E excess \in SUBSET Devices :
            device' = [d \in Device |-> IF d \in excess THEN None ELSE device[d]]
  BY DEF Restart
<1>2. \A c \in Call :
        /\ call'[c].op = call[c].op /\ call'[c].ext = call[c].ext
        /\ call'[c].pc = IF UnderWay(c) THEN "failed" ELSE call[c].pc
  BY <1>1 DEF TypeOK, CallsOK, CallRecord
<1>3. \A d \in Devices' : d \in Devices /\ device'[d] = device[d]
  BY <1>1 DEF Devices
<1> QED
  BY <1>1, <1>2, <1>3

LEMMA ExpireEffect ==
  ASSUME TypeOK, NEW threshold, ExpireSessions(threshold)
  PROVE  /\ UNCHANGED <<call, got, raced>>
         /\ Devices' = Devices
         /\ \A d \in Devices :
              \/ device'[d] = device[d]
              \/ /\ device'[d].session = NoSession
                 /\ device'[d].ext = device[d].ext
<1>1. /\ device' = [d \in Device |->
            IF d \in Devices /\ device[d].time # 0 /\ device[d].time < threshold
            THEN [device[d] EXCEPT !.session = NoSession] ELSE device[d]]
      /\ UNCHANGED <<call, got, raced>>
  BY DEF ExpireSessions
<1>2. \A d \in Devices : device[d] \in Row
  BY DEF TypeOK, DevicesOK, Devices
<1>3. \A r \in Row : /\ [r EXCEPT !.session = NoSession] \in Row
                     /\ [r EXCEPT !.session = NoSession].session = NoSession
                     /\ [r EXCEPT !.session = NoSession].ext = r.ext
  BY DEF Row, Session
<1>4. Devices' = Devices
  BY <1>1, <1>2, <1>3, NoneAssumption DEF Devices
<1>5. \A d \in Devices :
        \/ device'[d] = device[d]
        \/ device'[d].session = NoSession /\ device'[d].ext = device[d].ext
  BY <1>1, <1>2, <1>3 DEF Devices
<1> QED
  BY <1>1, <1>4, <1>5

LEMMA KindsStep == TypeOK /\ Kinds /\ [Next]_vars => Kinds'
<1> SUFFICES ASSUME TypeOK, Kinds, [Next]_vars PROVE Kinds'
  OBVIOUS
<1>1. ASSUME NEW c \in Call, Start(c) PROVE Kinds'
  <2>1. \/ /\ call'[c].op = "assign" /\ call'[c].ext \in ExtId /\ call'[c].pc = "find"
        \/ /\ call'[c].op # "assign" /\ call'[c].ext = NoExt
           /\ call'[c].pc \in {"recheck", "write", "connect", "disconnect", "unpeer"}
    BY <1>1, StartEffect
  <2>2. OtherCalls(c)
    BY <1>1, StartEffect
  <2>3. /\ call'[c].op = "assign" => call'[c].ext # NoExt
        /\ call'[c].op # "assign" => call'[c].ext = NoExt
        /\ call'[c].pc \in ClientPc => call'[c].op = "assign"
        /\ call'[c].pc \in AdminPc => call'[c].op # "assign"
    BY <2>1, SessionAssumption DEF ClientPc, AdminPc
  <2> QED
    BY <2>2, <2>3 DEF Kinds, OtherCalls
<1>2. ASSUME NEW c \in Call, Searches(c) PROVE Kinds'
  <2>1. PICK pc, d : pc \in SearchFrom(call[c].pc) /\ MovedTo(c, pc, d)
    BY <1>2, SearchEffect
  <2>2. call[c].pc \in {"find", "findFree", "findInactive", "findOldest", "lookup"}
    BY <1>2, SearchEffect
  <2>3. call[c].op = "assign" /\ pc \notin AdminPc
    BY <2>1, <2>2 DEF Kinds, ClientPc, AdminPc, SearchFrom
  <2> QED
    BY <2>1, <2>3, KindsKept
<1>3. ASSUME NEW c \in Call, Plain(c) PROVE Kinds'
  <2>1. PICK pc \in PlainFrom(call[c].pc) : Moved(c, pc)
    BY <1>3, PlainEffect
  <2>2. pc \notin AdminPc /\ (pc \in ClientPc => call[c].pc \in ClientPc)
    BY <2>1 DEF ClientPc, AdminPc, PlainFrom
  <2>3. call[c].pc \in ClientPc => call[c].op = "assign"
    BY DEF Kinds
  <2> QED
    BY <2>1, <2>2, <2>3, KindsKept DEF Moved
<1>4. ASSUME NEW c \in Call, Insert(c) PROVE Kinds'
  <2>1. PICK pc \in {"connect", "stamp", "done"} :
            MovedTo(c, pc, nextId) /\ (pc = "stamp" => call[c].op = "assign")
    BY <1>4, InsertEffect
  <2> QED
    BY <2>1, KindsKept DEF ClientPc, AdminPc
<1>5. ASSUME NEW c \in Call, StoreSession(c) \/ Overwrite(c) PROVE Kinds'
  <2>1. call[c].pc \in ClientPc /\ \E pc \in {"lookup", "failed"} : Moved(c, pc)
    BY <1>5, StoreEffect, OverwriteEffect DEF Lost, Changed, ClientPc
  <2> QED
    BY <2>1, KindsKept DEF Moved, Kinds, AdminPc
<1>6. ASSUME NEW c \in Call, ClearSession(c) PROVE Kinds'
  <2>1. PICK pc \in {"stamp", "done", "failed"} :
            Moved(c, pc) /\ (pc = "stamp" => call[c].op = "assign")
    BY <1>6, ClearEffect DEF Lost, Changed
  <2> QED
    BY <2>1, KindsKept DEF Moved, ClientPc, AdminPc
<1>7. ASSUME NEW c \in Call, UpdateDevice(c) \/ Remove(c) PROVE Kinds'
  <2>1. \E pc \in {"clear", "done", "failed"} : Moved(c, pc)
    BY <1>7, UpdateEffect, RemoveEffect DEF Lost, Changed
  <2> QED
    BY <2>1, KindsKept DEF Moved, ClientPc, AdminPc
<1>8. ASSUME NEW c \in Call, Connect(c) \/ DeleteAdjacency(c) \/ Unpeer(c) PROVE Kinds'
  <2>1. PICK pc \in {"clear", "remove", "failed"} :
            Moved(c, pc) /\ (pc = "remove" => call[c].pc = "unpeer")
    BY <1>8, PeerStepEffect DEF Changed
  <2> QED
    BY <2>1, KindsKept DEF Moved, ClientPc, AdminPc, Kinds
<1>9. ASSUME NEW threshold, ExpireSessions(threshold) PROVE Kinds'
  BY <1>9, ExpireEffect DEF Kinds
<1>10. CASE Restart
  BY <1>10, RestartEffect DEF Kinds, ClientPc, AdminPc
<1>11. CASE UNCHANGED vars
  BY <1>11 DEF vars, Kinds
<1> QED
  BY <1>1, <1>2, <1>3, <1>4, <1>5, <1>6, <1>7, <1>8, <1>9, <1>10, <1>11, NextByWhom

-----------------------------------------------------------------------------
(* The external ids.                                                         *)

(* What a step may do to a call without learning anything.                   *)
Learns(b) ==
    \/ call'[b].ext = NoExt
    \/ /\ call'[b].ext = call[b].ext
       /\ UnderWay(b)' => UnderWay(b)
       /\ call'[b].pc \in Looking => call[b].pc \in Looking
       /\ call'[b].pc \in Having => call[b].pc \in Having /\ Target(b)' = Target(b)

(* The rows keep their ids, if they are not deleted.                         *)
IdsKept == \A d \in Devices' : d \in Devices /\ device'[d].ext = device[d].ext

LEMMA IdsByKept ==
  ASSUME Distinct, OneCaller, Carriers, IdsKept, \A b \in Call : Learns(b)
  PROVE  Distinct' /\ OneCaller' /\ Carriers'
<1>1. Distinct'
  BY DEF Distinct, IdsKept
<1>2. OneCaller'
  BY DEF OneCaller, Learns
<1>3. Carriers'
  BY DEF Carriers, IdsKept, Learns
<1> QED
  BY <1>1, <1>2, <1>3

(* A call that did nothing, and one that went on.                            *)
LEMMA LearnsNothing ==
  ASSUME NEW b \in Call, call'[b] = call[b]
  PROVE  Learns(b)
  BY DEF Learns, UnderWay, Target

LEMMA LearnsOne ==
  ASSUME NEW c \in Call, OtherCalls(c), Learns(c)
  PROVE  \A b \in Call : Learns(b)
  BY LearnsNothing DEF OtherCalls

LEMMA LearnsMoved ==
  ASSUME NEW c \in Call, UnderWay(c), NEW pc, NEW d, MovedTo(c, pc, d),
         \/ call[c].ext = NoExt
         \/ /\ pc \in Looking => call[c].pc \in Looking
            /\ pc \in Having => call[c].pc \in Having /\ d = Target(c)
  PROVE  \A b \in Call : Learns(b)
<1>1. Learns(c)
  BY DEF Learns, MovedTo, Target
<1> QED
  BY <1>1, LearnsOne DEF MovedTo

LEMMA SameIds == UNCHANGED device => IdsKept
  BY DEF IdsKept, Devices

LEMMA ChangedDevices ==
  ASSUME TypeOK, NEW c \in Call, NEW next, Changed(c, next)
  PROVE  /\ Devices' = Devices /\ Target(c) \in Devices
         /\ \A d \in Devices \ {Target(c)} : device'[d] = device[d]
  BY NoneAssumption DEF Changed, Exists, OtherRows, Devices

LEMMA SameIdsChanged ==
  ASSUME TypeOK, NEW c \in Call, NEW next, Changed(c, next),
         device'[Target(c)].ext = device[Target(c)].ext
  PROVE  IdsKept
  BY ChangedDevices DEF IdsKept

(* A row gets the id of the call under way, whose device it is then.         *)
LEMMA IdsByWrite ==
  ASSUME TypeOK, Distinct, OneCaller, Carriers,
         NEW c \in Call, UnderWay(c), call[c].pc \in Looking, NEW d \in Device, NEW pc,
         MovedTo(c, pc, d), pc \notin Looking,
         device'[d].ext = call[c].ext,
         \A e \in Devices' \ {d} : e \in Devices /\ device'[e] = device[e]
  PROVE  Distinct' /\ OneCaller' /\ Carriers'
<1>1. \A e \in Devices' \ {d} : call[c].ext # NoExt => device'[e].ext # call[c].ext
  BY DEF Carriers
<1>2. Distinct'
  BY <1>1 DEF Distinct
<1>3. OneCaller'
  BY DEF OneCaller, MovedTo, OtherCalls, UnderWay
<1>4. ASSUME NEW b \in Call, NEW e \in Devices', call'[b].ext # NoExt,
             device'[e].ext = call'[b].ext
      PROVE  /\ call'[b].pc \notin Looking
             /\ call'[b].pc \in Having => e = call'[b].target
  <2>1. CASE b = c
    BY <1>1, <1>4, <2>1 DEF MovedTo
  <2>2. CASE b # c /\ e # d
    BY <1>4, <2>2 DEF Carriers, MovedTo, OtherCalls, Target
  <2>3. CASE b # c /\ e = d
    <3>1. call[b].ext = call[c].ext /\ call'[b] = call[b]
      BY <1>4, <2>3 DEF MovedTo, OtherCalls
    <3>2. ~UnderWay(b)
      BY <1>4, <2>3, <3>1 DEF OneCaller
    <3>3. call[b].pc \in Ended \cup {"idle"}
      BY <3>2 DEF UnderWay
    <3> QED
      BY <3>1, <3>3 DEF Looking, Having, Ended
  <2> QED
    BY <2>1, <2>2, <2>3
<1>5. Carriers'
  BY <1>4 DEF Carriers, Target
<1> QED
  BY <1>2, <1>3, <1>5

(* FindDevice: the one device that carries the id, or none does.             *)
LEMMA IdsByFind ==
  ASSUME TypeOK, Distinct, OneCaller, Carriers, NEW c \in Call, FindDevice(c)
  PROVE  Distinct' /\ OneCaller' /\ Carriers'
<1>1. /\ UNCHANGED device /\ call[c].pc = "find"
      /\ \/ Moved(c, "findFree") /\ WithExt(call[c].ext) = {}
         \/ \E d \in WithExt(call[c].ext) : MovedTo(c, "reuse", d)
  BY SearchEffect DEF Searches, FindDevice, At
<1>2. /\ OtherCalls(c) /\ call'[c].ext = call[c].ext
      /\ Devices' = Devices
  BY <1>1 DEF Moved, MovedTo, Devices
<1>3. Distinct' /\ OneCaller'
  BY <1>1, <1>2 DEF Distinct, OneCaller, OtherCalls, UnderWay, Ended
<1>4. ASSUME NEW d \in Devices, call[c].ext # NoExt, device[d].ext = call[c].ext
      PROVE  /\ call'[c].pc \notin Looking
             /\ call'[c].pc \in Having => d = call'[c].target
  <2>1. d \in WithExt(call[c].ext)
    BY <1>4 DEF WithExt
  <2>2. PICK e \in WithExt(call[c].ext) : MovedTo(c, "reuse", e)
    BY <1>1, <2>1
  <2>3. e = d
    BY <1>4, <2>2 DEF Distinct, WithExt
  <2> QED
    BY <2>2, <2>3 DEF MovedTo, Looking
<1>5. Carriers'
  BY <1>1, <1>2, <1>4 DEF Carriers, OtherCalls, Target
<1> QED
  BY <1>3, <1>5

LEMMA IdsStep == TypeOK /\ Kinds /\ IdsKnown /\ [Next]_vars => IdsKnown'
<1> SUFFICES ASSUME TypeOK, Kinds, IdsKnown, [Next]_vars, "id" \notin raced'
             PROVE  Distinct' /\ OneCaller' /\ Carriers'
  BY DEF IdsKnown
<1>a. ASSUME raced \subseteq raced' \/ ("id" \in raced => "id" \in raced')
      PROVE  Distinct /\ OneCaller /\ Carriers
  BY <1>a DEF IdsKnown
<1>b. ASSUME Distinct /\ OneCaller /\ Carriers, NEW c \in Call, NEW pc, NEW d,
             MovedTo(c, pc, d), UnderWay(c), IdsKept,
             \/ call[c].ext = NoExt
             \/ /\ pc \in Looking => call[c].pc \in Looking
                /\ pc \in Having => call[c].pc \in Having /\ d = Target(c)
      PROVE  Distinct' /\ OneCaller' /\ Carriers'
  BY <1>b, LearnsMoved, IdsByKept
<1>1. ASSUME NEW c \in Call, Start(c) PROVE Distinct' /\ OneCaller' /\ Carriers'
  <2>1. /\ OtherCalls(c) /\ UNCHANGED device /\ Distinct /\ OneCaller /\ Carriers
    BY <1>1, <1>a, StartEffect
  <2>2. IdsKept
    BY <2>1, SameIds
  <2>3. CASE call'[c].ext = NoExt
    BY <2>1, <2>2, <2>3, LearnsOne, IdsByKept DEF Learns
  <2>4. CASE call'[c].ext # NoExt
    <3>1. /\ call'[c].pc = "find"
          /\ \A b \in Call : UnderWay(b) => call[b].ext # call'[c].ext
      BY <1>1, <2>4, StartEffect
    <3>2. Distinct'
      BY <2>1, <2>2 DEF Distinct, IdsKept
    <3>3. OneCaller'
      BY <2>1, <3>1 DEF OneCaller, OtherCalls, UnderWay
    <3>4. Carriers'
      BY <2>1, <2>2, <3>1 DEF Carriers, OtherCalls, IdsKept, Target, Looking, Having
    <3> QED
      BY <3>2, <3>3, <3>4
  <2> QED
    BY <2>3, <2>4
<1>2. ASSUME NEW c \in Call, Searches(c) PROVE Distinct' /\ OneCaller' /\ Carriers'
  <2>1. /\ UNCHANGED <<device, raced>>
        /\ call[c].pc \in {"find", "findFree", "findInactive", "findOldest", "lookup"}
    BY <1>2, SearchEffect
  <2>2. Distinct /\ OneCaller /\ Carriers
    BY <1>a, <2>1
  <2>3. CASE FindDevice(c)
    BY <2>2, <2>3, IdsByFind
  <2>4. CASE ~FindDevice(c)
    <3>1. call[c].pc # "find"
      BY <1>2, <2>4 DEF Searches, FindFree, FindInactive, FindOldest, Lookup, At
    <3>2. PICK pc, d : pc \in SearchFrom(call[c].pc) /\ MovedTo(c, pc, d)
      BY <1>2, SearchEffect
    <3>3. UnderWay(c) /\ pc \notin Having /\ (pc \in Looking => call[c].pc \in Looking)
      BY <2>1, <3>1, <3>2 DEF UnderWay, Ended, SearchFrom, Having, Looking
    <3> QED
      BY <1>b, <2>1, <2>2, <3>2, <3>3, SameIds
  <2> QED
    BY <2>3, <2>4
<1>3. ASSUME NEW c \in Call, Plain(c) PROVE Distinct' /\ OneCaller' /\ Carriers'
  <2>1. UnderWay(c) /\ IdsKept /\ Distinct /\ OneCaller /\ Carriers
    BY <1>3, <1>a, PlainEffect, SameIds
  <2>2. PICK pc \in PlainFrom(call[c].pc) : Moved(c, pc)
    BY <1>3, PlainEffect
  <2>3. pc \notin Having /\ (pc \in Looking => call[c].pc \in Looking)
    BY <2>2 DEF PlainFrom, Having, Looking
  <2> QED
    BY <1>b, <2>1, <2>2, <2>3 DEF Moved
<1>4. ASSUME NEW c \in Call, Insert(c) PROVE Distinct' /\ OneCaller' /\ Carriers'
  <2>1. /\ call[c].pc = "insert" /\ UNCHANGED raced /\ nextId \in Device
        /\ OtherRows(nextId) /\ device'[nextId].ext = call[c].ext
    BY <1>4, InsertEffect
  <2>2. PICK pc \in {"connect", "stamp", "done"} : MovedTo(c, pc, nextId)
    BY <1>4, InsertEffect
  <2>3. \A e \in Devices' \ {nextId} : e \in Devices /\ device'[e] = device[e]
    BY <2>1 DEF OtherRows, Devices
  <2>4. UnderWay(c) /\ call[c].pc \in Looking /\ pc \notin Looking
    BY <2>1 DEF UnderWay, Ended, Looking
  <2> QED
    BY <1>a, <2>1, <2>2, <2>3, <2>4, IdsByWrite
<1>c. ASSUME NEW c \in Call, Lost(c), UnderWay(c), Distinct /\ OneCaller /\ Carriers
      PROVE  Distinct' /\ OneCaller' /\ Carriers'
  BY <1>b, <1>c, SameIds DEF Lost, Moved, Looking, Having
<1>d. ASSUME NEW c \in Call, NEW next, Changed(c, next), UnderWay(c),
             Distinct /\ OneCaller /\ Carriers,
             device'[Target(c)].ext = device[Target(c)].ext,
             \/ call[c].ext = NoExt
             \/ /\ next \notin Looking
                /\ next \in Having => call[c].pc \in Having
      PROVE  Distinct' /\ OneCaller' /\ Carriers'
  <2>1. IdsKept
    BY <1>d, SameIdsChanged
  <2> QED
    BY <1>b, <1>d, <2>1 DEF Changed, Moved
<1>5. ASSUME NEW c \in Call, StoreSession(c) PROVE Distinct' /\ OneCaller' /\ Carriers'
  <2>1. UnderWay(c) /\ call[c].pc \in Having /\ Distinct /\ OneCaller /\ Carriers
    BY <1>5, <1>a, StoreEffect DEF UnderWay, Ended, Having
  <2> QED
    BY <1>5, <1>c, <1>d, <2>1, StoreEffect DEF Looking
<1>6. ASSUME NEW c \in Call, Overwrite(c) PROVE Distinct' /\ OneCaller' /\ Carriers'
  <2>1. /\ UnderWay(c) /\ call[c].pc \in Looking /\ Distinct /\ OneCaller /\ Carriers
    BY <1>6, <1>a, OverwriteEffect DEF UnderWay, Ended, Looking
  <2>2. CASE Lost(c)
    BY <1>c, <2>1, <2>2
  <2>3. CASE Changed(c, "lookup") /\ device'[Target(c)].ext = call[c].ext
    <3>1. /\ Target(c) \in Device /\ MovedTo(c, "lookup", Target(c))
      BY <2>3 DEF Changed, Moved
    <3>2. \A e \in Devices' \ {Target(c)} : e \in Devices /\ device'[e] = device[e]
      BY <2>3, ChangedDevices
    <3> QED
      BY <2>1, <2>3, <3>1, <3>2, IdsByWrite DEF Looking
  <2> QED
    BY <1>6, <2>2, <2>3, OverwriteEffect
<1>7. ASSUME NEW c \in Call, ClearSession(c) PROVE Distinct' /\ OneCaller' /\ Carriers'
  <2>1. UnderWay(c) /\ call[c].pc \in Having /\ Distinct /\ OneCaller /\ Carriers
    BY <1>7, <1>a, ClearEffect DEF UnderWay, Ended, Having
  <2> QED
    BY <1>7, <1>c, <1>d, <2>1, ClearEffect DEF Looking
<1>8. ASSUME NEW c \in Call, UpdateDevice(c) PROVE Distinct' /\ OneCaller' /\ Carriers'
  <2>1. UnderWay(c) /\ call[c].ext = NoExt /\ Distinct /\ OneCaller /\ Carriers
    BY <1>8, <1>a, UpdateEffect DEF UnderWay, Ended, Kinds, AdminPc
  <2> QED
    BY <1>8, <1>c, <1>d, <2>1, UpdateEffect
<1>9. ASSUME NEW c \in Call, Remove(c) PROVE Distinct' /\ OneCaller' /\ Carriers'
  <2>1. UnderWay(c) /\ Distinct /\ OneCaller /\ Carriers
    BY <1>9, <1>a, RemoveEffect DEF UnderWay, Ended
  <2>2. CASE Moved(c, "done") /\ device'[Target(c)] = None /\ OtherRows(Target(c))
    <3>1. IdsKept
      BY <2>2 DEF IdsKept, OtherRows, Devices
    <3> QED
      BY <1>b, <2>1, <2>2, <3>1 DEF Moved, Looking, Having
  <2> QED
    BY <1>9, <1>c, <2>1, <2>2, RemoveEffect
<1>10. ASSUME NEW c \in Call, Connect(c) \/ DeleteAdjacency(c) \/ Unpeer(c)
       PROVE  Distinct' /\ OneCaller' /\ Carriers'
  <2>1. /\ UnderWay(c) /\ Distinct /\ OneCaller /\ Carriers
        /\ call[c].pc \in {"connect", "disconnect", "unpeer"}
    BY <1>10, <1>a, PeerStepEffect DEF UnderWay, Ended
  <2>2. call[c].ext = NoExt \/ call[c].pc \in Having
    BY <2>1 DEF Kinds, AdminPc, Having
  <2>3. CASE Moved(c, "failed") /\ UNCHANGED device
    BY <1>b, <2>1, <2>3, SameIds DEF Moved, Looking, Having
  <2>4. CASE ~(Moved(c, "failed") /\ UNCHANGED device)
    BY <1>10, <1>d, <2>1, <2>2, <2>4, PeerStepEffect DEF Looking
  <2> QED
    BY <2>3, <2>4
<1>11. ASSUME NEW threshold, ExpireSessions(threshold)
       PROVE  Distinct' /\ OneCaller' /\ Carriers'
  <2>1. UNCHANGED <<call, raced>> /\ IdsKept
    BY <1>11, ExpireEffect DEF IdsKept
  <2> QED
    BY <1>a, <2>1, LearnsNothing, IdsByKept
<1>12. CASE Restart
  <2>1. IdsKept /\ Distinct /\ OneCaller /\ Carriers
    BY <1>12, <1>a, RestartEffect DEF IdsKept
  <2>2. \A b \in Call : Learns(b)
    <3> SUFFICES ASSUME NEW b \in Call PROVE Learns(b)
      OBVIOUS
    <3>1. /\ call'[b].ext = call[b].ext
          /\ call'[b].pc = IF UnderWay(b) THEN "failed" ELSE call[b].pc
      BY <1>12, RestartEffect
    <3>2. call'[b].pc \notin Looking \cup Having /\ ~UnderWay(b)'
      BY <3>1 DEF UnderWay, Ended, Looking, Having
    <3> QED
      BY <3>1, <3>2 DEF Learns
  <2> QED
    BY <2>1, <2>2, IdsByKept
<1>13. CASE UNCHANGED vars
  BY <1>13, <1>a, SameIds, LearnsNothing, IdsByKept DEF vars
<1> QED
  BY <1>1, <1>2, <1>3, <1>4, <1>5, <1>6, <1>7, <1>8, <1>9, <1>10, <1>11, <1>12, <1>13,
     NextByWhom

-----------------------------------------------------------------------------
(* The sessions.                                                             *)

(* Rows lose their sessions, or are deleted, but get none.                   *)
NoNewSession ==
    \A c \in Call, d \in Devices' :
        device'[d].session = c => d \in Devices /\ device[d].session = c

(* A call that may have stored its session goes on with the same device.     *)
GoesOn(b) ==
    call[b].pc \in Reading \cup {"served", "failed"} =>
        /\ call'[b].pc \in Reading \cup {"served", "failed"}
        /\ call'[b].pc \in Reading => call[b].pc \in Reading /\ Target(b)' = Target(b)

LEMMA StoredKept ==
  ASSUME Stored, NoNewSession, \A b \in Call : GoesOn(b)
  PROVE  Stored'
  BY DEF Stored, NoNewSession, GoesOn

LEMMA GoesOnOne ==
  ASSUME NEW c \in Call, OtherCalls(c), GoesOn(c)
  PROVE  \A b \in Call : GoesOn(b)
  BY DEF OtherCalls, GoesOn, Target

LEMMA GoesOnElsewhere ==
  ASSUME NEW c \in Call, OtherCalls(c), call[c].pc \notin Reading \cup {"served", "failed"}
  PROVE  \A b \in Call : GoesOn(b)
  BY GoesOnOne DEF GoesOn

LEMMA SameSessions == UNCHANGED device => NoNewSession
  BY DEF NoNewSession, Devices

(* The rows a step changed, if it set no session.                            *)
LEMMA ChangedSessions ==
  ASSUME TypeOK, NEW c \in Call, NEW next, Changed(c, next),
         \/ device'[Target(c)].session = device[Target(c)].session
         \/ device'[Target(c)].session = NoSession
  PROVE  NoNewSession
  BY ChangedDevices, SessionAssumption DEF NoNewSession

(* The call that stores its session in the row of its device.                *)
LEMMA StoredByWrite ==
  ASSUME TypeOK, Stored, NEW c \in Call, Changed(c, "lookup"),
         device'[Target(c)].session = c,
         call[c].pc \notin Reading \cup {"served", "failed"}
  PROVE  Stored'
<1>1. /\ OtherCalls(c) /\ call'[c].pc = "lookup" /\ Target(c)' = Target(c)
  BY DEF Changed, Moved, MovedTo, Target
<1>2. Devices' = Devices /\ \A d \in Devices \ {Target(c)} : device'[d] = device[d]
  BY ChangedDevices
<1>3. ASSUME NEW b \in Call, NEW d \in Devices', device'[d].session = b
      PROVE  /\ call'[b].pc \in Reading \cup {"served", "failed"}
             /\ call'[b].pc \in Reading => d = Target(b)'
  <2>1. CASE b = c
    <3>1. d = Target(c)
      BY <1>2, <1>3, <2>1 DEF Stored
    <3> QED
      BY <1>1, <2>1, <3>1 DEF Reading
  <2>2. CASE b # c
    <3>1. d # Target(c)
      BY <1>3, <2>2
    <3>2. d \in Devices /\ device[d].session = b /\ call'[b] = call[b]
      BY <1>1, <1>2, <1>3, <2>2, <3>1 DEF OtherCalls
    <3> QED
      BY <3>2 DEF Stored, Target
  <2> QED
    BY <2>1, <2>2
<1> QED
  BY <1>3 DEF Stored

(* What the queries that store no session do to the stored ones.             *)
LEMMA QuietSessions ==
  ASSUME TypeOK, NEW c \in Call,
         ClearSession(c) \/ UpdateDevice(c) \/ Remove(c) \/ Insert(c)
            \/ Connect(c) \/ DeleteAdjacency(c) \/ Unpeer(c)
  PROVE  /\ NoNewSession /\ OtherCalls(c)
         /\ call[c].pc \notin Reading \cup {"served", "failed"}
         /\ UNCHANGED got /\ raced \subseteq raced'
<1>1. CASE ClearSession(c)
  BY <1>1, ClearEffect, ChangedSessions, SameSessions
     DEF Lost, Changed, Moved, MovedTo, Reading
<1>2. CASE UpdateDevice(c)
  BY <1>2, UpdateEffect, ChangedSessions, SameSessions
     DEF Lost, Changed, Moved, MovedTo, Reading
<1>3. CASE Remove(c)
  <2>1. /\ call[c].pc = "remove" /\ UNCHANGED <<got, raced>> /\ OtherCalls(c)
        /\ UNCHANGED device \/ (device'[Target(c)] = None /\ OtherRows(Target(c)))
    BY <1>3, RemoveEffect DEF Lost, Moved, MovedTo
  <2>2. NoNewSession
    BY <2>1, SameSessions DEF NoNewSession, Devices, OtherRows
  <2> QED
    BY <2>1, <2>2 DEF Reading
<1>4. CASE Insert(c)
  <2>1. /\ call[c].pc = "insert" /\ UNCHANGED <<got, raced>> /\ OtherCalls(c)
        /\ OtherRows(nextId) /\ device'[nextId].session = NoSession
    BY <1>4, InsertEffect DEF MovedTo
  <2>2. NoNewSession
    BY <2>1, SessionAssumption DEF NoNewSession, Devices, OtherRows
  <2> QED
    BY <2>1, <2>2 DEF Reading
<1>5. CASE Connect(c) \/ DeleteAdjacency(c) \/ Unpeer(c)
  BY <1>5, PeerStepEffect, ChangedSessions, SameSessions
     DEF Changed, Moved, MovedTo, Reading
<1> QED
  BY <1>1, <1>2, <1>3, <1>4, <1>5

LEMMA SessionsStep ==
  TypeOK /\ Kinds /\ IdsKnown /\ SessionsKnown /\ [Next]_vars => SessionsKnown'
<1> SUFFICES ASSUME TypeOK, Kinds, IdsKnown, SessionsKnown, [Next]_vars, "id" \notin raced'
             PROVE  Stored'
  BY DEF SessionsKnown
<1>a. ASSUME raced \subseteq raced' \/ ("id" \in raced => "id" \in raced')
      PROVE  Carriers /\ Stored
  BY <1>a DEF IdsKnown, SessionsKnown
<1>1. ASSUME NEW c \in Call, Start(c) PROVE Stored'
  <2>1. /\ call[c].pc = "idle" /\ OtherCalls(c) /\ NoNewSession /\ Stored
    BY <1>1, <1>a, StartEffect, SameSessions
  <2> QED
    BY <2>1, GoesOnElsewhere, StoredKept DEF Reading
<1>2. ASSUME NEW c \in Call, Searches(c) PROVE Stored'
  <2>1. NoNewSession /\ Carriers /\ Stored
    BY <1>2, <1>a, SearchEffect, SameSessions
  <2>2. PICK pc, d : pc \in SearchFrom(call[c].pc) /\ MovedTo(c, pc, d)
    BY <1>2, SearchEffect
  <2>3. GoesOn(c)
    <3>1. CASE call[c].pc # "lookup"
      BY <1>2, <3>1, SearchEffect DEF GoesOn, Reading
    <3>2. CASE call[c].pc = "lookup"
      <4>1. call[c].ext # NoExt
        BY <3>2 DEF Kinds, ClientPc
      <4>2. \A e \in WithExt(call[c].ext) : e = Target(c)
        BY <2>1, <3>2, <4>1 DEF Carriers, WithExt, Having
      <4>3. Moved(c, "failed") \/ MovedTo(c, "readKey", Target(c))
        BY <1>2, <3>2, <4>2, SearchEffect
      <4> QED
        BY <3>2, <4>3 DEF GoesOn, Moved, MovedTo, Reading, Target
    <3> QED
      BY <3>1, <3>2
  <2> QED
    BY <2>1, <2>2, <2>3, GoesOnOne, StoredKept DEF MovedTo
<1>3. ASSUME NEW c \in Call, Plain(c) PROVE Stored'
  <2>1. NoNewSession /\ Stored /\ UnderWay(c)
    BY <1>3, <1>a, PlainEffect, SameSessions
  <2>2. PICK pc \in PlainFrom(call[c].pc) : Moved(c, pc)
    BY <1>3, PlainEffect
  <2>3. GoesOn(c)
    BY <2>1, <2>2 DEF GoesOn, Moved, MovedTo, Reading, PlainFrom, Target, UnderWay, Ended
  <2> QED
    BY <2>1, <2>2, <2>3, GoesOnOne, StoredKept DEF Moved, MovedTo
<1>4. ASSUME NEW c \in Call,
             ClearSession(c) \/ UpdateDevice(c) \/ Remove(c) \/ Insert(c)
                \/ Connect(c) \/ DeleteAdjacency(c) \/ Unpeer(c)
      PROVE  Stored'
  BY <1>4, <1>a, QuietSessions, GoesOnElsewhere, StoredKept
<1>5. ASSUME NEW c \in Call, StoreSession(c) \/ Overwrite(c) PROVE Stored'
  <2>1. /\ call[c].pc \notin Reading \cup {"served", "failed"} /\ Stored
        /\ Lost(c) \/ (Changed(c, "lookup") /\ device'[Target(c)].session = c)
    BY <1>5, <1>a, StoreEffect, OverwriteEffect DEF Reading
  <2>2. CASE Lost(c)
    BY <2>1, <2>2, SameSessions, GoesOnElsewhere, StoredKept DEF Lost, Moved, MovedTo
  <2> QED
    BY <2>1, <2>2, StoredByWrite
<1>6. ASSUME NEW threshold, ExpireSessions(threshold) PROVE Stored'
  <2>1. UNCHANGED <<call, raced>>
    BY <1>6, ExpireEffect
  <2>2. NoNewSession
    BY <1>6, ExpireEffect, SessionAssumption DEF NoNewSession
  <2>3. \A b \in Call : GoesOn(b)
    BY <2>1 DEF GoesOn, Target
  <2> QED
    BY <1>a, <2>1, <2>2, <2>3, StoredKept
<1>7. CASE Restart
  <2>1. NoNewSession /\ Stored
    BY <1>7, <1>a, RestartEffect DEF NoNewSession
  <2>2. \A b \in Call : GoesOn(b)
    BY <1>7, RestartEffect DEF GoesOn, UnderWay, Ended, Reading
  <2> QED
    BY <2>1, <2>2, StoredKept
<1>8. CASE UNCHANGED vars
  <2>1. \A b \in Call : GoesOn(b)
    BY <1>8 DEF vars, GoesOn, Target
  <2> QED
    BY <1>8, <1>a, <2>1, SameSessions, StoredKept DEF vars
<1> QED
  BY <1>1, <1>2, <1>3, <1>4, <1>5, <1>6, <1>7, <1>8, NextByWhom

-----------------------------------------------------------------------------
(* What clients have read.                                                   *)

HasRead == {"readPeers", "served"}

(* The row a session is for is as it was, and nobody has come to be about to  *)
(* clear the session who has gone without doing so.                        *)
AsItWas(c, d) ==
    /\ d \in Devices /\ device[d].session = c /\ ~Pending(d)
    /\ device'[d].key = device[d].key /\ device'[d].peered = device[d].peered

LEMMA CurrentKept ==
  ASSUME Current,
         \A c \in Call : call'[c].pc \in HasRead =>
            call'[c].pc = call[c].pc /\ got'[c] = got[c],
         \A c \in Call, d \in Devices' :
            device'[d].session = c /\ call'[c].pc \in HasRead /\ ~Pending(d)' => AsItWas(c, d)
  PROVE  Current'
  BY DEF Current, AsItWas, At, HasRead

(* Who is about to clear a session stays so when another call goes on, and    *)
(* with another device.                                                    *)
LEMMA PendingStays ==
  ASSUME NEW c \in Call, OtherCalls(c), NEW d, Pending(d),
         call[c].pc \notin {"clear", "remove"} \/ d # Target(c)
  PROVE  Pending(d)'
  BY DEF Pending, OtherCalls, Target

(* A call that does not come to have read.                                   *)
LEMMA ReadBefore ==
  ASSUME NEW c \in Call, OtherCalls(c), call'[c].pc \notin HasRead, UNCHANGED got
  PROVE  \A b \in Call : call'[b].pc \in HasRead =>
            call'[b].pc = call[b].pc /\ got'[b] = got[b]
  BY DEF OtherCalls

(* A step of a call that changes no row.                                     *)
LEMMA CurrentByCall ==
  ASSUME Current, NEW c \in Call, OtherCalls(c), call'[c].pc \notin HasRead,
         UNCHANGED <<device, got>>,
         \/ call[c].pc \notin {"clear", "remove"}
         \/ Target(c) \notin Devices
  PROVE  Current'
<1>1. \A b \in Call, d \in Devices' :
        device'[d].session = b /\ call'[b].pc \in HasRead /\ ~Pending(d)' => AsItWas(b, d)
  BY PendingStays DEF AsItWas, Devices
<1> QED
  BY <1>1, ReadBefore, CurrentKept

(* A step of a call that changes the row of its device: either its session is *)
(* of no call that has read, or the row is as it was, or the call has yet   *)
(* to clear the session.                                                   *)
LEMMA CurrentByRow ==
  ASSUME TypeOK, Current, NEW c \in Call, NEW next, Changed(c, next), next \notin HasRead,
         UNCHANGED got,
         \/ \A b \in Call \ {c} : device'[Target(c)].session # b
         \/ next \in {"clear", "remove"}
         \/ /\ call[c].pc \notin {"clear", "remove"}
            /\ device'[Target(c)].session = device[Target(c)].session
            /\ device'[Target(c)].key = device[Target(c)].key
            /\ device'[Target(c)].peered = device[Target(c)].peered
  PROVE  Current'
<1>1. /\ OtherCalls(c) /\ call'[c].pc = next /\ Target(c)' = Target(c)
  BY DEF Changed, Moved, MovedTo, Target
<1>2. /\ Devices' = Devices /\ Target(c) \in Devices
      /\ \A d \in Devices \ {Target(c)} : device'[d] = device[d]
  BY ChangedDevices
<1>3. ASSUME NEW b \in Call, NEW d \in Devices',
             device'[d].session = b, call'[b].pc \in HasRead, ~Pending(d)'
      PROVE  AsItWas(b, d)
  <2>1. CASE d # Target(c)
    BY <1>1, <1>2, <1>3, <2>1, PendingStays DEF AsItWas
  <2>2. CASE d = Target(c)
    <3>1. b # c
      BY <1>1, <1>3
    <3>2. next \notin {"clear", "remove"}
      BY <1>1, <1>3, <2>2 DEF Pending
    <3>3. /\ call[c].pc \notin {"clear", "remove"}
          /\ device'[Target(c)].session = device[Target(c)].session
          /\ device'[Target(c)].key = device[Target(c)].key
          /\ device'[Target(c)].peered = device[Target(c)].peered
      BY <1>3, <2>2, <3>1, <3>2
    <3>4. ~Pending(d)
      BY <1>1, <1>3, <3>3, PendingStays
    <3> QED
      BY <1>2, <1>3, <2>2, <3>3, <3>4 DEF AsItWas
  <2> QED
    BY <2>1, <2>2
<1> QED
  BY <1>1, <1>3, ReadBefore, CurrentKept

(* The client reads the configuration of the device that has its session ... *)
LEMMA CurrentByReadKey ==
  ASSUME TypeOK, Stored, Current, NEW c \in Call, ReadKey(c)
  PROVE  Current'
<1>1. UNCHANGED device /\ call[c].pc = "readKey"
  BY DEF ReadKey, At
<1>2. CASE ~Exists(c)
  <2>1. Moved(c, "failed") /\ UNCHANGED got
    BY <1>2, GotoMoves DEF ReadKey, TypeOK
  <2> QED
    BY <1>1, <2>1, CurrentByCall DEF Moved, MovedTo, HasRead
<1>3. CASE Exists(c)
  <2> DEFINE g == [device |-> Target(c), key |-> device[Target(c)].key, peered |-> FALSE]
  <2>1. Moved(c, "readPeers") /\ got' = [got EXCEPT ![c] = g]
    BY <1>3, GotoMoves DEF ReadKey, TypeOK
  <2>2. g.device = Target(c) /\ g.key = device[Target(c)].key
    OBVIOUS
  <2> HIDE DEF g
  <2>3. got'[c] = g /\ \A b \in Call \ {c} : got'[b] = got[b]
    BY <2>1 DEF TypeOK, GotOK
  <2>4. OtherCalls(c) /\ call'[c].pc = "readPeers"
    BY <2>1 DEF Moved, MovedTo
  <2>5. \A d : Pending(d) => Pending(d)'
    BY <1>1, <2>4, PendingStays
  <2>6. ASSUME NEW b \in Call, NEW d \in Devices', device'[d].session = b, ~Pending(d)'
        PROVE  /\ At(b, "readPeers")' => got'[b].device = d /\ got'[b].key = device'[d].key
               /\ At(b, "served")' => got'[b] = [device |-> d, key |-> device'[d].key,
                                                 peered |-> device'[d].peered]
    <3>1. d \in Devices /\ device'[d] = device[d] /\ ~Pending(d)
      BY <1>1, <2>5, <2>6 DEF Devices
    <3>2. CASE b = c
      <4>1. d = Target(c)
        BY <1>1, <2>6, <3>1, <3>2 DEF Stored, Reading
      <4> QED
        BY <2>2, <2>3, <2>4, <3>1, <3>2, <4>1 DEF At
    <3>3. CASE b # c
      BY <2>3, <2>4, <2>6, <3>1, <3>3 DEF Current, OtherCalls, At
    <3> QED
      BY <3>2, <3>3
  <2> QED
    BY <2>6 DEF Current
<1> QED
  BY <1>2, <1>3

(* ... and then its adjacencies.                                             *)
LEMMA CurrentByReadPeers ==
  ASSUME TypeOK, Stored, Current, NEW c \in Call, ReadPeers(c)
  PROVE  Current'
<1> DEFINE p == Exists(c) /\ device[Target(c)].peered
<1>1. /\ UNCHANGED device /\ call[c].pc = "readPeers" /\ Moved(c, "served")
      /\ got' = [got EXCEPT ![c].peered = p]
  BY GotoMoves DEF ReadPeers, At, TypeOK
<1>2. got[c] \in Configuration
  BY <1>1 DEF TypeOK, GotOK, At
<1>3. /\ got'[c] = [got[c] EXCEPT !.peered = p]
      /\ \A b \in Call \ {c} : got'[b] = got[b]
  BY <1>1 DEF TypeOK, GotOK
<1>4. OtherCalls(c) /\ call'[c].pc = "served"
  BY <1>1 DEF Moved, MovedTo
<1>5. \A d : Pending(d) => Pending(d)'
  BY <1>1, <1>4, PendingStays
<1> HIDE DEF p
<1>6. got'[c] = [device |-> got[c].device, key |-> got[c].key, peered |-> p]
  BY <1>2, <1>3 DEF Configuration
<1>7. ASSUME NEW b \in Call, NEW d \in Devices', device'[d].session = b, ~Pending(d)'
      PROVE  /\ At(b, "readPeers")' => got'[b].device = d /\ got'[b].key = device'[d].key
             /\ At(b, "served")' => got'[b] = [device |-> d, key |-> device'[d].key,
                                               peered |-> device'[d].peered]
  <2>1. d \in Devices /\ device'[d] = device[d] /\ ~Pending(d)
    BY <1>1, <1>5, <1>7 DEF Devices
  <2>2. CASE b = c
    <3>1. d = Target(c)
      BY <1>1, <1>7, <2>1, <2>2 DEF Stored, Reading
    <3>2. got[c].device = d /\ got[c].key = device[d].key
      <4>1. device[d].session = c /\ At(c, "readPeers")
        BY <1>1, <1>7, <2>1, <2>2 DEF At
      <4> QED
        BY <2>1, <4>1 DEF Current
    <3>3. device[d].peered \in BOOLEAN
      BY <2>1 DEF TypeOK, DevicesOK, Devices, Row
    <3>4. p = device[d].peered
      BY <2>1, <3>1, <3>3 DEF p, Exists, Devices
    <3> QED
      BY <1>4, <1>6, <2>1, <2>2, <3>2, <3>4 DEF At
  <2>3. CASE b # c
    BY <1>3, <1>4, <1>7, <2>1, <2>3 DEF Current, OtherCalls, At
  <2> QED
    BY <2>2, <2>3
<1> QED
  BY <1>7 DEF Current

LEMMA ReadsStep ==
  TypeOK /\ SessionsKnown /\ ReadsKnown /\ [Next]_vars => ReadsKnown'
<1> SUFFICES ASSUME TypeOK, SessionsKnown, ReadsKnown, [Next]_vars,
                    raced' \cap {"id", "update", "failed"} = {}
             PROVE  Current'
  BY DEF ReadsKnown
<1>0. "id" \notin raced' /\ "update" \notin raced' /\ "failed" \notin raced'
  OBVIOUS
<1>a. ASSUME raced \subseteq raced' PROVE Current /\ Stored
  BY <1>0, <1>a DEF ReadsKnown, SessionsKnown
<1>b. ASSUME Current, NEW c \in Call, Lost(c), UNCHANGED got PROVE Current'
  BY <1>b, CurrentByCall DEF Lost, Moved, MovedTo, HasRead, Exists, Devices
<1>1. ASSUME NEW c \in Call, Start(c) PROVE Current'
  BY <1>1, <1>a, StartEffect, CurrentByCall DEF HasRead
<1>2. ASSUME NEW c \in Call, Searches(c) PROVE Current'
  <2>1. /\ UNCHANGED <<device, got>> /\ Current
        /\ call[c].pc \in {"find", "findFree", "findInactive", "findOldest", "lookup"}
    BY <1>2, <1>a, SearchEffect
  <2>2. PICK pc, d : pc \in SearchFrom(call[c].pc) /\ MovedTo(c, pc, d)
    BY <1>2, SearchEffect
  <2>3. pc \notin HasRead
    BY <2>1, <2>2 DEF SearchFrom, HasRead
  <2> QED
    BY <2>1, <2>2, <2>3, CurrentByCall DEF MovedTo
<1>3. ASSUME NEW c \in Call, Count(c) \/ Recheck(c) \/ Fail(c) PROVE Current'
  <2>1. /\ UNCHANGED <<device, got>> /\ Current
        /\ \E pc \in {"recheck", "findInactive", "insert", "failed"} : Moved(c, pc)
        /\ call[c].pc \notin {"clear", "remove"}
    <3>1. UNCHANGED device /\ Current
      BY <1>3, <1>a, PlainEffect DEF Plain
    <3>2. UNCHANGED got
      BY <1>3 DEF Count, Recheck, Fail
    <3>3. \E pc \in {"recheck", "findInactive", "insert", "failed"} : Goto(c, pc)
      BY <1>3 DEF Count, Recheck, Fail
    <3>4. call[c].pc \notin {"clear", "remove"}
      BY <1>0, <1>3 DEF Count, Recheck, Fail, At, Note
    <3> QED
      BY <3>1, <3>2, <3>3, <3>4, GotoMoves DEF TypeOK
  <2> QED
    BY <2>1, CurrentByCall DEF Moved, MovedTo, HasRead
<1>4. ASSUME NEW c \in Call, ReadKey(c) \/ ReadPeers(c) PROVE Current'
  <2>1. Current /\ Stored
    BY <1>4, <1>a DEF ReadKey, ReadPeers
  <2> QED
    BY <1>4, <2>1, CurrentByReadKey, CurrentByReadPeers
<1>5. ASSUME NEW c \in Call, Insert(c) PROVE Current'
  <2>1. /\ call[c].pc = "insert" /\ UNCHANGED <<got, raced>> /\ OtherRows(nextId)
        /\ device'[nextId].session = NoSession
        /\ \E pc \in {"connect", "stamp", "done"} : MovedTo(c, pc, nextId)
    BY <1>5, InsertEffect
  <2>2. OtherCalls(c) /\ call'[c].pc \notin HasRead /\ Current
    BY <1>a, <2>1 DEF MovedTo, HasRead
  <2>3. \A b \in Call, d \in Devices' :
          device'[d].session = b /\ call'[b].pc \in HasRead /\ ~Pending(d)' => AsItWas(b, d)
    BY <2>1, <2>2, PendingStays, SessionAssumption DEF AsItWas, OtherRows, Devices
  <2> QED
    BY <2>1, <2>2, <2>3, ReadBefore, CurrentKept
<1>6. ASSUME NEW c \in Call, StoreSession(c) \/ Overwrite(c) PROVE Current'
  <2>1. /\ Current /\ UNCHANGED got
        /\ Lost(c) \/ (Changed(c, "lookup") /\ device'[Target(c)].session = c)
    BY <1>6, <1>a, StoreEffect, OverwriteEffect
  <2> QED
    BY <1>b, <2>1, CurrentByRow DEF HasRead
<1>7. ASSUME NEW c \in Call, ClearSession(c) PROVE Current'
  <2>1. /\ Current /\ UNCHANGED got
        /\ \/ Lost(c)
           \/ \E next \in {"stamp", "done"} :
                Changed(c, next) /\ device'[Target(c)].session = NoSession
    BY <1>7, <1>a, ClearEffect
  <2> QED
    BY <1>b, <2>1, CurrentByRow, SessionAssumption DEF HasRead
<1>8. ASSUME NEW c \in Call, UpdateDevice(c) PROVE Current'
  <2>1. /\ Current /\ UNCHANGED got /\ call[c].pc = "write"
        /\ \/ Lost(c)
           \/ Changed(c, "clear")
           \/ /\ Changed(c, "done")
              /\ device'[Target(c)].key = device[Target(c)].key
              /\ device'[Target(c)].session = device[Target(c)].session
              /\ device'[Target(c)].peered = device[Target(c)].peered
    BY <1>0, <1>8, <1>a, UpdateEffect
  <2> QED
    BY <1>b, <2>1, CurrentByRow DEF HasRead
<1>9. ASSUME NEW c \in Call, Connect(c) \/ DeleteAdjacency(c) \/ Unpeer(c) PROVE Current'
  <2>1. /\ Current /\ UNCHANGED got /\ call[c].pc \in {"connect", "disconnect", "unpeer"}
        /\ \/ Moved(c, "failed") /\ UNCHANGED device
           \/ \E next \in {"clear", "remove"} : Changed(c, next)
    BY <1>9, <1>a, PeerStepEffect
  <2>2. CASE Moved(c, "failed") /\ UNCHANGED device
    BY <2>1, <2>2, CurrentByCall DEF Moved, MovedTo, HasRead
  <2> QED
    BY <2>1, <2>2, CurrentByRow DEF HasRead
<1>10. ASSUME NEW c \in Call, Remove(c) PROVE Current'
  <2>1. Current /\ UNCHANGED got
    BY <1>10, <1>a, RemoveEffect
  <2>2. CASE /\ Moved(c, "done") /\ device'[Target(c)] = None /\ OtherRows(Target(c))
             /\ Target(c) \in Device
    <3>1. OtherCalls(c) /\ call'[c].pc \notin HasRead
      BY <2>2 DEF Moved, MovedTo, HasRead
    <3>2. \A b \in Call, d \in Devices' :
            device'[d].session = b /\ call'[b].pc \in HasRead /\ ~Pending(d)' =>
                AsItWas(b, d)
      BY <2>2, <3>1, PendingStays DEF AsItWas, OtherRows, Devices
    <3> QED
      BY <2>1, <3>1, <3>2, ReadBefore, CurrentKept
  <2> QED
    BY <1>10, <1>b, <2>1, <2>2, RemoveEffect
<1>11. ASSUME NEW threshold, ExpireSessions(threshold) PROVE Current'
  <2>1. UNCHANGED <<call, got, raced>> /\ Devices' = Devices /\ Current
    BY <1>11, <1>a, ExpireEffect
  <2>2. \A d : Pending(d)' <=> Pending(d)
    BY <2>1 DEF Pending, Target
  <2>3. \A d \in Devices : device'[d] = device[d] \/ device'[d].session = NoSession
    BY <1>11, ExpireEffect
  <2>4. \A b \in Call, d \in Devices' :
          device'[d].session = b /\ call'[b].pc \in HasRead /\ ~Pending(d)' => AsItWas(b, d)
    BY <2>1, <2>2, <2>3, SessionAssumption DEF AsItWas
  <2> QED
    BY <2>1, <2>4, CurrentKept
<1>12. CASE Restart
  <2>1. /\ UNCHANGED got /\ \A d \in Devices : ~Pending(d)
        /\ \A d \in Devices' : d \in Devices /\ device'[d] = device[d]
    BY <1>0, <1>12, RestartEffect
  <2>2. Current
    BY <1>0, <1>12, RestartEffect DEF ReadsKnown
  <2>3. \A b \in Call : call'[b].pc \in HasRead => call'[b].pc = call[b].pc
    BY <1>12, RestartEffect DEF HasRead
  <2>4. \A b \in Call, d \in Devices' :
          device'[d].session = b /\ call'[b].pc \in HasRead /\ ~Pending(d)' => AsItWas(b, d)
    BY <2>1 DEF AsItWas
  <2> QED
    BY <2>1, <2>2, <2>3, <2>4, CurrentKept
<1>13. CASE UNCHANGED vars
  BY <1>13, <1>a DEF vars, Current, Pending, Devices, Target, At
<1> QED
  BY <1>1, <1>2, <1>3, <1>4, <1>5, <1>6, <1>7, <1>8, <1>9, <1>10, <1>11, <1>12, <1>13,
     NextByWhom DEF Plain

(* The initial state: no call has begun.                                     *)
LEMMA InitSInv == Init => SInv
<1> SUFFICES ASSUME Init PROVE SInv
  OBVIOUS
<1>1. TypeOK
  BY InitIInv DEF IInv
<1>2. \A c \in Call : /\ call[c].op = "none" /\ call[c].pc = "idle" /\ call[c].ext = NoExt
  BY DEF Init, Idle
<1>3. Kinds
  BY <1>2 DEF Kinds, ClientPc, AdminPc
<1>4. Distinct
  BY DEF Init, Distinct
<1>5. OneCaller /\ Carriers
  BY <1>2 DEF OneCaller, Carriers, UnderWay
<1>6. \A d \in Devices : device[d] \in InitialRow
  BY DEF Init, Devices
<1>7. \A d \in Devices : device[d].session \in {NoSession, OldSession}
  BY <1>6 DEF InitialRow
<1>8. Stored /\ Current
  BY <1>7, SessionAssumption DEF Stored, Current
<1> QED
  BY <1>1, <1>3, <1>4, <1>5, <1>8 DEF SInv, IdsKnown, SessionsKnown, ReadsKnown

LEMMA SessionInvariance == Spec => []SInv
<1>1. SInv /\ [Next]_vars => SInv'
  BY TypeStep, KindsStep, IdsStep, SessionsStep, ReadsStep DEF SInv
<1> QED
  BY InitSInv, <1>1, PTL DEF Spec

(* Nothing in the database keeps two devices from having one external id; but*)
(* unless two calls of the client with that id overlap, no order of the     *)
(* queries of AssignDeviceSlot, of creations, deletions, failures and      *)
(* restarts gives it to two.                                               *)
THEOREM DistinctCorrect == Spec => []DistinctUnlessRaced
<1>1. SInv => DistinctUnlessRaced
  BY DEF SInv, IdsKnown, Distinct, DistinctUnlessRaced
<1> QED
  BY <1>1, SessionInvariance, PTL

(* A client with a valid session has the configuration of the device it is    *)
(* for, as it is in the database, unless an invalidation is still to come   *)
(* or failed, an update overwrote one it had not seen, or two calls of one  *)
(* client overlapped (AssignDeviceSlot, GetConfiguration, UpdateDevice).    *)
THEOREM SessionCorrect == Spec => []SessionMeansCurrent
<1>1. SInv => SessionMeansCurrent
  BY DEF SInv, ReadsKnown, Current, SessionMeansCurrent
<1> QED
  BY <1>1, SessionInvariance, PTL
=============================================================================
