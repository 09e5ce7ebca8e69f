--------------------------- MODULE AccountsProofs ---------------------------
(***************************************************************************)
(* Proofs about Accounts, for any sets of calls and names and any bounds.  *)
(* The inductive invariant says what a call under way knows: that the name *)
(* it is about to write is still free, that the code it was given is newer *)
(* than the counters, that the session it stored is its own user's.        *)
(***************************************************************************)
EXTENDS Accounts, TLAPS

(* What a call may look like, by its kind.                                   *)
Login ==
    [kind : {"login"}, stage : {"mfa", "ca", "count", "slot", "done"}, user : User,
     row : Row, how : MFAType, key : Version, code : Counter \cup {0}]
Creation == [kind : {"create"}, stage : {"write", "done"}, name : Name]
Update ==
    [kind : {"update"}, stage : {"check", "write", "invalidate", "done"}, user : User,
     name : Name, mfa : MFAType, old : Row]
Password == [kind : {"password"}, stage : {"write", "invalidate", "done"}, user : User]
SecretChange ==
    [kind : {"create secret", "update secret"}, stage : {"write", "invalidate", "done"},
     user : User, old : Row]
Certificates == [kind : {"certificates"}, stage : {"invalidate", "done"}]
Deletion == [kind : {"delete"}, stage : {"write", "done"}, user : User]

CallRecord ==
    {Fresh} \cup Login \cup Creation \cup Update \cup Password \cup SecretChange
        \cup Certificates \cup Deletion

CallsTyped == call \in [Call -> CallRecord]

(* The conjuncts of TypeOK about other variables than call. *)
TablesTyped ==
    /\ exists \subseteq 1..inserted
    /\ inserted \in User
    /\ row \in [User -> Row]
    /\ totp \in [User -> SUBSET Secret]
    /\ trusted \in BOOLEAN
    /\ revoked \in BOOLEAN
    /\ device \subseteq exists
    /\ session \in [User -> Call \cup {None}]
    /\ \A u \in User \ device : session[u] = None
    /\ clock \in 1..MaxClock
    /\ disturbed \subseteq Call
    /\ excuse \in [Call -> Cause]
    /\ raced \subseteq Name

Typed == TablesTyped /\ CallsTyped

-----------------------------------------------------------------------------
(* The kind and the stage of a call tell which fields it has. *)
LEMMA Kinds ==
  ASSUME NEW r \in CallRecord
  PROVE  /\ r.kind = "login" \/ r.stage \in {"mfa", "ca", "count", "slot"} => r \in Login
         /\ r.kind = "create" => r \in Creation
         /\ r.kind = "update" \/ r.stage = "check" => r \in Update
         /\ r.kind = "password" => r \in Password
         /\ r.kind \in {"create secret", "update secret"} => r \in SecretChange
         /\ r.kind = "certificates" => r \in Certificates
         /\ r.kind = "delete" => r \in Deletion
         /\ r.stage \in Stage
<1>1. /\ r = Fresh => r.kind = "none" /\ r.stage = "new"
      /\ r \in Login => r.kind = "login" /\ r.stage \in {"mfa", "ca", "count", "slot", "done"}
  BY DEF Fresh, Login
<1>2. /\ r \in Creation => r.kind = "create" /\ r.stage \in {"write", "done"}
      /\ r \in Update => r.kind = "update" /\ r.stage \in {"check", "write", "invalidate", "done"}
  BY DEF Creation, Update
<1>3. /\ r \in Password => r.kind = "password" /\ r.stage \in {"write", "invalidate", "done"}
      /\ r \in Deletion => r.kind = "delete" /\ r.stage \in {"write", "done"}
  BY DEF Password, Deletion
<1>4. /\ r \in SecretChange => /\ r.kind \in {"create secret", "update secret"}
                               /\ r.stage \in {"write", "invalidate", "done"}
      /\ r \in Certificates => r.kind = "certificates" /\ r.stage \in {"invalidate", "done"}
  BY DEF SecretChange, Certificates
<1> QED
  BY <1>1, <1>2, <1>3, <1>4 DEF CallRecord, Stage

(* Typed is what TypeOK says, and what the calls of administrators look like. *)
LEMMA TypedOK == Typed => TypeOK
<1> SUFFICES ASSUME Typed PROVE TypeOK
  OBVIOUS
<1>1. ASSUME NEW c \in Call
      PROVE  /\ call[c].stage \in Stage
             /\ call[c].kind = "login" => call[c] \in Login
  BY Kinds DEF Typed, CallsTyped
<1> QED
  BY <1>1 DEF Typed, TablesTyped, TypeOK, Login

(* The initial state has the types. *)
LEMMA InitTyped == Init => Typed
<1> SUFFICES ASSUME Init PROVE Typed
  OBVIOUS
<1>1. CallsTyped
  BY DEF Init, CallsTyped, CallRecord
<1>2. row \in [User -> Row]
  BY FirstAssumption DEF Init, Row, Version
<1>3. totp \in [User -> SUBSET Secret]
  BY ClockAssumption DEF Init, Secret, Version
<1>4. /\ session \in [User -> Call \cup {None}] /\ excuse \in [Call -> Cause]
      /\ \A u \in User \ device : session[u] = None
  BY DEF Init, Cause
<1>5. exists \subseteq 1..inserted /\ inserted \in User /\ clock \in 1..MaxClock
  BY UserAssumption, ClockAssumption DEF Init, User
<1> QED
  BY <1>1, <1>2, <1>3, <1>4, <1>5 DEF Init, Typed, TablesTyped

(* The steps from one stage of a call to another keep its kind. *)
LEMMA Stages ==
  ASSUME NEW r \in CallRecord
  PROVE  /\ r.stage # "new" => [r EXCEPT !.stage = "done"] \in CallRecord
         /\ r.kind \in {"update", "password", "create secret", "update secret"}
              => [r EXCEPT !.stage = "invalidate"] \in CallRecord
         /\ r.stage = "check" => [r EXCEPT !.stage = "write"] \in CallRecord
         /\ r.stage \in {"mfa", "ca", "count"} => [r EXCEPT !.stage = "slot"] \in CallRecord
<1> USE DEF CallRecord
<1>1. CASE r \in Login
  BY <1>1, Kinds DEF Login
<1>2. CASE r \in Creation
  BY <1>2, Kinds DEF Creation
<1>3. CASE r \in Update
  BY <1>3, Kinds DEF Update
<1>4. CASE r \in Password
  BY <1>4, Kinds DEF Password
<1>5. CASE r \in SecretChange
  BY <1>5, Kinds DEF SecretChange
<1>6. CASE r \in Certificates
  BY <1>6, Kinds DEF Certificates
<1>7. CASE r \in Deletion
  BY <1>7, Kinds DEF Deletion
<1>8. CASE r = Fresh
  BY <1>8 DEF Fresh
<1> QED
  BY <1>1, <1>2, <1>3, <1>4, <1>5, <1>6, <1>7, <1>8

(* One call begins or goes on. *)
LEMMA OneCall ==
  ASSUME CallsTyped, NEW c \in Call, NEW r \in CallRecord, call' = [call EXCEPT ![c] = r]
  PROVE  /\ CallsTyped'
         /\ \A b \in Call : call'[b] = IF b = c THEN r ELSE call[b]
  BY DEF CallsTyped

(* A call goes to a stage that its kind has. *)
LEMMA GotoTyped ==
  ASSUME CallsTyped, NEW c \in Call, NEW stage,
         [call[c] EXCEPT !.stage = stage] \in CallRecord, Goto(c, stage)
  PROVE  CallsTyped'
  BY OneCall DEF Goto

(* Every step keeps the calls typed. *)
LEMMA CallStep == Typed /\ [Next]_vars => CallsTyped'
<1> SUFFICES ASSUME Typed, [Next]_vars PROVE CallsTyped'
  OBVIOUS
<1> USE DEF Typed
<1>a. ASSUME NEW c \in Call
      PROVE  /\ call[c] \in CallRecord
             /\ call[c].stage # "new" => (Goto(c, "done") => CallsTyped')
             /\ call[c].kind \in {"update", "password", "create secret", "update secret"}
                  => (Goto(c, "invalidate") => CallsTyped')
             /\ call[c].stage = "check" => (Goto(c, "write") => CallsTyped')
             /\ call[c].stage \in {"mfa", "ca", "count"} => (Goto(c, "slot") => CallsTyped')
  <2>1. call[c] \in CallRecord
    BY DEF CallsTyped
  <2> QED
    BY <2>1, Stages, GotoTyped
<1>1. ASSUME NEW c \in Call, LoginStep(c) PROVE CallsTyped'
  <2>1. ASSUME NEW u \in User, BasicAuth(c, u) PROVE CallsTyped'
    <3> DEFINE r == [kind |-> "login", stage |-> IF row[u].mfa = "none" THEN "slot" ELSE "mfa",
                     user |-> u, row |-> row[u], how |-> "none", key |-> None, code |-> 0]
    <3>1. r \in CallRecord
      BY DEF TablesTyped, CallRecord, Login, MFAType, Version
    <3>2. call' = [call EXCEPT ![c] = r]
      BY <2>1 DEF BasicAuth
    <3> HIDE DEF r
    <3> QED
      BY <3>1, <3>2, OneCall
  <2>2. CASE ReadSecret(c)
    <3>1. call[c] \in Login
      BY <1>a, <2>2, Kinds DEF ReadSecret
    <3>2. PICK s \in totp[call[c].user] : \E code \in Authenticate(s) :
            call' = [call EXCEPT ![c].stage = "count", ![c].how = "totp",
                                 ![c].key = s.key, ![c].code = code]
      BY <2>2 DEF ReadSecret
    <3>3. PICK code \in Authenticate(s) :
            call' = [call EXCEPT ![c].stage = "count", ![c].how = "totp",
                                 ![c].key = s.key, ![c].code = code]
      BY <3>2
    <3>4. s \in Secret /\ code \in Counter
      BY <3>1 DEF TablesTyped, Login, Authenticate
    <3> DEFINE r == [call[c] EXCEPT !.stage = "count", !.how = "totp", !.key = s.key,
                                    !.code = code]
    <3>5. r \in CallRecord
      BY <3>1, <3>4 DEF Login, CallRecord, MFAType, Secret
    <3>6. call' = [call EXCEPT ![c] = r]
      BY <3>3
    <3> HIDE DEF r
    <3> QED
      BY <3>5, <3>6, OneCall
  <2>3. CASE ReadCRLs(c)
    <3>1. call[c] \in Login
      BY <1>a, <2>3, Kinds DEF ReadCRLs
    <3> DEFINE r == [call[c] EXCEPT !.stage = "ca", !.how = "cert"]
    <3>2. r \in CallRecord
      BY <3>1 DEF Login, CallRecord, MFAType
    <3>3. call' = [call EXCEPT ![c] = r]
      BY <2>3 DEF ReadCRLs
    <3> HIDE DEF r
    <3> QED
      BY <3>2, <3>3, OneCall
  <2>4. CASE UpdateCounter(c) \/ ReadCAs(c) \/ AssignDeviceSlot(c)
    BY <2>4, <1>a DEF UpdateCounter, ReadCAs, AssignDeviceSlot
  <2> QED
    BY <1>1, <2>1, <2>2, <2>3, <2>4 DEF LoginStep
<1>2. ASSUME NEW c \in Call, NEW r \in CallRecord, Begin(c, r) PROVE CallsTyped'
  BY <1>2, OneCall DEF Begin
<1>3. ASSUME NEW c \in Call, NEW n \in Name, CreateUser(c, n) PROVE CallsTyped'
  BY <1>2, <1>3 DEF CreateUser, CallRecord, Creation
<1>4. ASSUME NEW c \in Call, NEW u \in User, NEW n \in Name, NEW m \in MFAType,
             UpdateUser(c, u, n, m)
      PROVE  CallsTyped'
  <2> DEFINE r == [kind |-> "update", stage |-> IF n = row[u].name THEN "write" ELSE "check",
                   user |-> u, name |-> n, mfa |-> m, old |-> row[u]]
  <2>1. r \in CallRecord
    BY DEF TablesTyped, CallRecord, Update
  <2>2. Begin(c, r)
    BY <1>4 DEF UpdateUser
  <2> HIDE DEF r
  <2> QED
    BY <2>1, <2>2, <1>2
<1>5. ASSUME NEW c \in Call, NEW u \in User, UpdateUserPassword(c, u) PROVE CallsTyped'
  BY <1>2, <1>5 DEF UpdateUserPassword, CallRecord, Password
<1>6. ASSUME NEW c \in Call, NEW u \in User, NEW op \in {"create secret", "update secret"},
             ChangeSecret(c, u, op)
      PROVE  CallsTyped'
  <2> DEFINE r == [kind |-> op, stage |-> "write", user |-> u, old |-> row[u]]
  <2>1. r \in CallRecord
    BY DEF TablesTyped, CallRecord, SecretChange
  <2>2. Begin(c, r)
    BY <1>6 DEF ChangeSecret
  <2> HIDE DEF r
  <2> QED
    BY <2>1, <2>2, <1>2
<1>7. ASSUME NEW c \in Call, MFADeleteCA(c) \/ MFACreateCRL(c) PROVE CallsTyped'
  BY <1>2, <1>7 DEF MFADeleteCA, MFACreateCRL, RevokeCertificates, CallRecord, Certificates
<1>8. ASSUME NEW c \in Call, NEW u \in exists, DeleteUser(c, u) PROVE CallsTyped'
  <2>1. u \in User
    BY UserAssumption DEF TablesTyped, User
  <2> QED
    BY <2>1, <1>2, <1>8 DEF DeleteUser, CallRecord, Deletion
<1>9. ASSUME NEW c \in Call,
             InsertUser(c) \/ CheckUsername(c) \/ WriteUser(c) \/ WritePassword(c)
                \/ WriteSecret(c) \/ Invalidate(c) \/ DeleteRow(c)
      PROVE  CallsTyped'
  <2>1. CASE InsertUser(c) \/ CheckUsername(c)
    BY <2>1, <1>a DEF InsertUser, CheckUsername
  <2>2. CASE WriteUser(c)
    BY <2>2, <1>a DEF WriteUser
  <2>3. CASE WritePassword(c)
    BY <2>3, <1>a DEF WritePassword
  <2>4. CASE WriteSecret(c)
    BY <2>4, <1>a DEF WriteSecret
  <2>5. CASE Invalidate(c) \/ DeleteRow(c)
    BY <2>5, <1>a DEF Invalidate, DeleteRow
  <2> QED
    BY <1>9, <2>1, <2>2, <2>3, <2>4, <2>5
<1>10. CASE UNCHANGED call
  BY <1>10 DEF CallsTyped
<1> QED
  BY <1>1, <1>3, <1>4, <1>5, <1>6, <1>7, <1>8, <1>9, <1>10
     DEF Next, AdminStep, MFACreateCA, MFADeleteCRL, RestoreCertificates, CreateDevice, Tick, vars

(* Every step keeps the tables and the histories typed. *)
LEMMA TableStep == Typed /\ [Next]_vars => TablesTyped'
<1> SUFFICES ASSUME Typed, [Next]_vars PROVE TablesTyped'
  OBVIOUS
<1> USE DEF Typed, TablesTyped
<1>a. ASSUME NEW c \in Call PROVE call[c] \in CallRecord
  BY DEF CallsTyped
<1>b. exists \subseteq User /\ device \subseteq User
  BY UserAssumption DEF User
<1>c. ASSUME NEW C, NEW cause \in Cause, Excuse(C, cause) PROVE excuse' \in [Call -> Cause]
  BY <1>c DEF Excuse
<1>d. ASSUME NEW U, Clear(U), device \ U \subseteq device', device' \subseteq exists',
             exists' \subseteq 1..inserted
      PROVE  /\ session' \in [User -> Call \cup {None}]
             /\ \A u \in User \ device' : session'[u] = None
  BY <1>d DEF Clear
<1>e. ASSUME NEW c \in Call, NEW n, n \in Name, Race(c, n) PROVE raced' \subseteq Name
  BY <1>e DEF Race
<1>f. ASSUME NEW u PROVE Counting(u) \subseteq Call
  BY DEF Counting
<1>1. ASSUME NEW c \in Call, LoginStep(c) PROVE TablesTyped'
  <2>1. CASE UpdateCounter(c)
    <3> DEFINE u == call[c].user
    <3> DEFINE code == call[c].code
    <3>1. call[c] \in Login
      BY <1>a, <2>1, Kinds DEF UpdateCounter
    <3>2. u \in User /\ code \in 0..MaxClock + 1
      BY <3>1, ClockAssumption DEF Login, Counter
    <3>3. ASSUME NEW s \in Secret PROVE [s EXCEPT !.counter = code] \in Secret
      BY <3>2 DEF Secret
    <3>4. totp' = [totp EXCEPT ![u] =
            (totp[u] \ Older(u, code)) \cup {[s EXCEPT !.counter = code] : s \in Older(u, code)}]
      BY <2>1 DEF UpdateCounter
    <3> HIDE DEF u, code
    <3>5. Older(u, code) \subseteq Secret
      BY <3>2 DEF Older
    <3>6. totp' \in [User -> SUBSET Secret]
      BY <3>2, <3>3, <3>4, <3>5
    <3> QED
      BY <2>1, <3>6 DEF UpdateCounter, history
  <2>2. CASE AssignDeviceSlot(c)
    <3>1. excuse' \in [Call -> Cause]
      BY <2>2, <1>c DEF AssignDeviceSlot, Cause
    <3> QED
      BY <2>2, <3>1 DEF AssignDeviceSlot, table
  <2>3. CASE UNCHANGED <<table, session, clock, history>>
    BY <2>3 DEF table, history
  <2> QED
    BY <1>1, <2>1, <2>2, <2>3 DEF LoginStep, BasicAuth, ReadSecret, ReadCRLs, ReadCAs
<1>2. ASSUME NEW c \in Call,
             \/ \E n \in Name : CreateUser(c, n)
             \/ CheckUsername(c)
      PROVE  TablesTyped'
  <2>1. \E n \in Name : Race(c, n)
    BY <1>2, <1>a, Kinds DEF CreateUser, CheckUsername, Update
  <2> QED
    BY <1>2, <2>1, <1>e DEF CreateUser, CheckUsername, table
<1>3. ASSUME NEW c \in Call, InsertUser(c) PROVE TablesTyped'
  <2>1. call[c].name \in Name
    BY <1>3, <1>a, Kinds DEF InsertUser, Creation
  <2>2. PICK m \in MFAType :
          row' = [row EXCEPT ![inserted + 1] = [name |-> call[c].name, password |-> c, mfa |-> m]]
    BY <1>3 DEF InsertUser
  <2>3. row' \in [User -> Row]
    BY <2>1, <2>2 DEF Row, Version
  <2>4. inserted' \in User /\ exists' \subseteq 1..inserted' /\ device' \subseteq exists'
    BY <1>3, UserAssumption DEF InsertUser, User
  <2> QED
    BY <1>3, <2>3, <2>4 DEF InsertUser, history
<1>4. ASSUME NEW c \in Call, WriteUser(c) PROVE TablesTyped'
  <2> DEFINE u == call[c].user
  <2> DEFINE new == [row[u] EXCEPT !.name = call[c].name, !.mfa = call[c].mfa]
  <2>1. u \in User /\ call[c].name \in Name /\ call[c].mfa \in MFAType
    BY <1>4, <1>a, Kinds DEF WriteUser, Update
  <2>2. new \in Row /\ new.name \in Name
    BY <2>1 DEF Row
  <2>3. row' = [row EXCEPT ![u] = new] /\ raced' \subseteq raced \cup {new.name}
    BY <1>4 DEF WriteUser
  <2>4. excuse' \in [Call -> Cause]
    BY <1>4, <1>c DEF WriteUser, Cause
  <2> HIDE DEF new
  <2>5. row' \in [User -> Row] /\ raced' \subseteq Name
    BY <2>1, <2>2, <2>3
  <2> QED
    BY <1>4, <2>4, <2>5 DEF WriteUser
<1>5. ASSUME NEW c \in Call, WritePassword(c) PROVE TablesTyped'
  <2>1. row' \in [User -> Row]
    BY <1>5 DEF WritePassword, Row, Version
  <2> QED
    BY <1>5, <2>1 DEF WritePassword, history
<1>6. ASSUME NEW c \in Call, WriteSecret(c) PROVE TablesTyped'
  <2>1. [key |-> c, counter |-> 0] \in Secret
    BY ClockAssumption DEF Secret, Version
  <2>2. totp' \in [User -> SUBSET Secret]
    <3> DEFINE new == [key |-> c, counter |-> 0]
    <3> HIDE DEF new
    <3>1. new \in Secret /\ \E u \in User : totp' = [totp EXCEPT ![u] = @ \cup {new}]
                                          \/ totp' = [totp EXCEPT ![u] = {new}]
      BY <1>6, <2>1, <1>a, Kinds DEF WriteSecret, SecretChange, new
    <3> QED
      BY <3>1
  <2>3. excuse' \in [Call -> Cause] /\ disturbed' \subseteq Call
    BY <1>6, <1>c, <1>f DEF WriteSecret, Cause
  <2> QED
    BY <1>6, <2>2, <2>3 DEF WriteSecret
<1>7. ASSUME NEW c \in Call, MFADeleteCA(c) \/ MFACreateCRL(c) PROVE TablesTyped'
  BY <1>7 DEF MFADeleteCA, MFACreateCRL, RevokeCertificates, history
<1>8. ASSUME NEW c \in Call, Invalidate(c) PROVE TablesTyped'
  <2>1. CASE Clear(Concerned(c)) /\ UNCHANGED excuse
    <3>1. /\ session' \in [User -> Call \cup {None}]
          /\ \A u \in User \ device' : session'[u] = None
      BY <2>1, <1>8, <1>d DEF Invalidate, table
    <3> QED
      BY <1>8, <2>1, <3>1 DEF Invalidate, table
  <2>2. CASE Excuse(Sessions(Concerned(c)), "failed") /\ UNCHANGED session
    BY <1>8, <2>2, <1>c DEF Invalidate, table, Cause
  <2> QED
    BY <1>8, <2>1, <2>2 DEF Invalidate
<1>9. ASSUME NEW c \in Call, NEW u \in exists, DeleteUser(c, u) PROVE TablesTyped'
  <2>1. /\ session' \in [User -> Call \cup {None}]
        /\ \A v \in User \ device' : session'[v] = None
    BY <1>9, <1>d DEF DeleteUser
  <2> QED
    BY <1>9, <2>1 DEF DeleteUser, history
<1>10. ASSUME NEW c \in Call, DeleteRow(c) PROVE TablesTyped'
  <2>1. device' = device \ {call[c].user} /\ exists' = exists \ {call[c].user}
    BY <1>10 DEF DeleteRow
  <2>2. /\ session' \in [User -> Call \cup {None}]
        /\ \A v \in User \ device' : session'[v] = None
    BY <1>10, <2>1, <1>d DEF DeleteRow
  <2>3. totp' \in [User -> SUBSET Secret] /\ disturbed' \subseteq Call
    BY <1>10, <1>f DEF DeleteRow
  <2> QED
    BY <1>10, <2>1, <2>2, <2>3 DEF DeleteRow
<1>11. CASE Tick
  BY <1>11, ClockAssumption DEF Tick, table, history
<1>12. ASSUME NEW u \in User, CreateDevice(u) PROVE TablesTyped'
  BY <1>12 DEF CreateDevice, history
<1>13. CASE MFACreateCA \/ MFADeleteCRL
  BY <1>13 DEF MFACreateCA, MFADeleteCRL, RestoreCertificates, history
<1>14. CASE UNCHANGED <<table, session, clock, history>>
  BY <1>14 DEF table, history
<1> QED
  BY <1>1, <1>2, <1>3, <1>4, <1>5, <1>6, <1>7, <1>8, <1>9, <1>10, <1>11, <1>12, <1>13, <1>14
     DEF Next, AdminStep, UpdateUser, UpdateUserPassword, ChangeSecret, vars

(* The typing invariant is inductive. *)
LEMMA TypedStep == Typed /\ [Next]_vars => Typed'
  BY CallStep, TableStep DEF Typed

-----------------------------------------------------------------------------
(* Calls between the check of a name and its writing.  An update that keeps  *)
(* the name it has read checks nothing.                                     *)
Writing(c) == call[c].stage = "write" /\ call[c].kind \in {"create", "update"}

NewName(c) ==
    /\ Writing(c)
    /\ call[c].kind = "update" => call[c].name # call[c].old.name

(* A name that was found free still is, and only one call is about to write it. *)
NamesFree ==
    /\ \A c \in Call, u \in exists :
        NewName(c) /\ row[u].name = call[c].name => call[c].name \in raced
    /\ \A c, d \in Call :
        c # d /\ NewName(c) /\ Writing(d) /\ call[c].name = call[d].name
            => call[c].name \in raced

NamesInv == Typed /\ NamesDistinctUnlessRaced /\ NamesFree

NoNewWriter == \A c \in Call : Writing(c)' => call'[c] = call[c]

NoNewName ==
    /\ exists' \subseteq exists
    /\ \A u \in exists' : row'[u].name = row[u].name

(* Steps that bring no call to the writing of a name. *)
LEMMA NotWriting ==
  ASSUME CallsTyped, NEW c \in Call, NEW r, call' = [call EXCEPT ![c] = r],
         r.stage # "write" \/ r.kind \notin {"create", "update"}
  PROVE  NoNewWriter
  BY DEF CallsTyped, NoNewWriter, Writing

(* In particular those that end the writing. *)
LEMMA GotoNotWriting ==
  ASSUME CallsTyped, NEW c \in Call, NEW stage \in Stage \ {"write"}, Goto(c, stage)
  PROVE  NoNewWriter
<1> DEFINE r == [call[c] EXCEPT !.stage = stage]
<1>1. call[c] \in CallRecord
  BY DEF CallsTyped
<1>2. r.stage # "write"
  <2> USE DEF r
  <2>1. CASE call[c] \in Login
    BY <2>1 DEF Login
  <2>2. CASE call[c] \in Creation \/ call[c] \in Password
    BY <2>2 DEF Creation, Password
  <2>3. CASE call[c] \in Update
    BY <2>3 DEF Update
  <2>4. CASE call[c] \in SecretChange
    BY <2>4 DEF SecretChange
  <2>5. CASE call[c] \in Certificates \/ call[c] \in Deletion
    BY <2>5 DEF Certificates, Deletion
  <2>6. CASE call[c] = Fresh
    BY <2>6 DEF Fresh
  <2> QED
    BY <1>1, <2>1, <2>2, <2>3, <2>4, <2>5, <2>6 DEF CallRecord
<1>3. call' = [call EXCEPT ![c] = r]
  BY DEF Goto
<1> HIDE DEF r
<1> QED
  BY <1>2, <1>3, NotWriting

(* A step that gives no name to anyone and brings nobody to writing one. *)
LEMMA NamesQuiet ==
  ASSUME NamesInv, NoNewWriter, NoNewName, raced \subseteq raced'
  PROVE  NamesDistinctUnlessRaced' /\ NamesFree'
<1>1. ASSUME NEW c \in Call, Writing(c)'
      PROVE  Writing(c) /\ call'[c].name = call[c].name
  BY <1>1 DEF NoNewWriter, Writing
<1>2. NamesDistinctUnlessRaced'
  BY DEF NamesInv, NamesDistinctUnlessRaced, NoNewName
<1>3. ASSUME NEW c \in Call, NewName(c)', call'[c].name \notin raced'
      PROVE  /\ \A u \in exists' : row'[u].name # call'[c].name
             /\ \A d \in Call : c # d /\ Writing(d)' => call'[c].name # call'[d].name
  <2>1. call'[c] = call[c]
    BY <1>3 DEF NoNewWriter, NewName
  <2>2. NewName(c) /\ call'[c].name = call[c].name /\ call[c].name \notin raced
    BY <1>3, <2>1 DEF NewName, Writing
  <2> QED
    BY <1>1, <2>2 DEF NamesInv, NamesFree, NoNewName
<1>4. NamesFree'
  BY <1>3 DEF NamesFree
<1> QED
  BY <1>2, <1>4

(* A call comes to write a name that it has found free: another that is about  *)
(* to write it makes the two a race.                                         *)
LEMMA NamesChecked ==
  ASSUME NamesInv, NEW c \in Call, NEW n, call'[c].name = n, ~NameExists(n), Race(c, n),
         \A b \in Call \ {c} : call'[b] = call[b], UNCHANGED <<exists, row>>
  PROVE  NamesDistinctUnlessRaced' /\ NamesFree'
<1>1. raced \subseteq raced'
  BY DEF Race
<1>2. NamesDistinctUnlessRaced'
  BY <1>1 DEF NamesInv, NamesDistinctUnlessRaced
<1>3. ASSUME NEW d \in Call, d # c, Writing(d)
      PROVE  call[d].name = n => n \in raced'
  BY <1>3 DEF Race, Writing
<1>4. ASSUME NEW d \in Call, d # c
      PROVE  /\ call'[d].name = call[d].name
             /\ Writing(d)' => Writing(d)
             /\ NewName(d)' => NewName(d) /\ Writing(d)
  BY <1>4 DEF NewName, Writing
<1>5. ASSUME NEW d \in Call, NEW u \in exists, NewName(d)', row[u].name = call'[d].name
      PROVE  call'[d].name \in raced'
  BY <1>1, <1>4, <1>5 DEF NameExists, NamesInv, NamesFree
<1>6. ASSUME NEW d \in Call, NEW e \in Call, d # e, NewName(d)', Writing(e)',
             call'[d].name = call'[e].name
      PROVE  call'[d].name \in raced'
  <2>1. CASE d = c
    BY <1>3, <1>4, <1>6, <2>1
  <2>2. CASE e = c
    BY <1>3, <1>4, <1>6, <2>2
  <2>3. CASE d # c /\ e # c
    BY <1>1, <1>4, <1>6, <2>3 DEF NamesInv, NamesFree
  <2> QED
    BY <2>1, <2>2, <2>3
<1>7. NamesFree'
  BY <1>5, <1>6 DEF NamesFree
<1> QED
  BY <1>2, <1>7

(* A call writes a name into one row: either it had found the name free, or the  *)
(* name counts as raced.                                                     *)
LEMMA NamesWritten ==
  ASSUME NamesInv, NEW c \in Call, Writing(c), NEW v, NEW n, n = call[c].name,
         exists' \subseteq exists \cup {v}, row'[v].name = n,
         \A u \in exists \ {v} : row'[u].name = row[u].name,
         NoNewWriter, ~Writing(c)', raced \subseteq raced', NewName(c) \/ n \in raced'
  PROVE  NamesDistinctUnlessRaced' /\ NamesFree'
<1>1. ASSUME NEW u \in exists \ {v}, row[u].name = n PROVE n \in raced'
  BY <1>1 DEF NamesInv, NamesFree
<1>2. ASSUME NEW u \in exists', u # v
      PROVE  /\ u \in exists \ {v} /\ row'[u].name = row[u].name
             /\ row'[u].name = n => n \in raced'
  BY <1>1, <1>2
<1>3. NamesDistinctUnlessRaced'
  <2> SUFFICES ASSUME NEW t \in exists', NEW u \in exists', t # u, row'[t].name = row'[u].name
               PROVE  row'[t].name \in raced'
    BY DEF NamesDistinctUnlessRaced
  <2>1. CASE t = v \/ u = v
    BY <1>2, <2>1
  <2>2. CASE t # v /\ u # v
    BY <1>2, <2>2 DEF NamesInv, NamesDistinctUnlessRaced
  <2> QED
    BY <2>1, <2>2
<1>4. ASSUME NEW d \in Call, Writing(d)'
      PROVE  d # c /\ Writing(d) /\ call'[d].name = call[d].name
  BY <1>4 DEF NoNewWriter, Writing
<1>5. ASSUME NEW d \in Call, NewName(d)'
      PROVE  /\ NewName(d) /\ d # c /\ call'[d].name = call[d].name
             /\ call[d].name = n => n \in raced'
  <2>1. Writing(d)' /\ call'[d] = call[d]
    BY <1>5 DEF NewName, NoNewWriter
  <2>2. NewName(d)
    BY <1>5, <2>1 DEF NewName, Writing
  <2>3. d # c /\ Writing(d) /\ call'[d].name = call[d].name
    BY <1>4, <2>1
  <2>4. call[d].name = n => n \in raced'
    BY <2>2, <2>3 DEF NamesInv, NamesFree
  <2> QED
    BY <2>2, <2>3, <2>4
<1>6. ASSUME NEW d \in Call, NEW u \in exists', NewName(d)', row'[u].name = call'[d].name
      PROVE  call'[d].name \in raced'
  <2>1. CASE u = v
    BY <1>5, <1>6, <2>1
  <2>2. CASE u # v
    BY <1>2, <1>5, <1>6, <2>2 DEF NamesInv, NamesFree
  <2> QED
    BY <2>1, <2>2
<1>7. ASSUME NEW d \in Call, NEW e \in Call, d # e, NewName(d)', Writing(e)',
             call'[d].name = call'[e].name
      PROVE  call'[d].name \in raced'
  BY <1>4, <1>5, <1>7 DEF NamesInv, NamesFree
<1>8. NamesFree'
  BY <1>6, <1>7 DEF NamesFree
<1> QED
  BY <1>3, <1>8

(* Every step keeps the names distinct and those that were checked free. *)
LEMMA NamesStep == NamesInv /\ [Next]_vars => NamesDistinctUnlessRaced' /\ NamesFree'
<1> SUFFICES ASSUME NamesInv, [Next]_vars PROVE NamesDistinctUnlessRaced' /\ NamesFree'
  OBVIOUS
<1> DEFINE Goal == NamesDistinctUnlessRaced' /\ NamesFree'
<1>a. Typed /\ CallsTyped /\ \A c \in Call : call[c] \in CallRecord
  BY DEF NamesInv, Typed, CallsTyped
<1>b. ASSUME UNCHANGED <<exists, row, raced>>, NoNewWriter PROVE Goal
  BY <1>b, NamesQuiet DEF NoNewName
<1>c. ASSUME NEW c \in Call, NEW stage \in Stage \ {"write"}, Goto(c, stage) PROVE NoNewWriter
  BY <1>a, <1>c, GotoNotWriting
<1>d. ASSUME NEW c \in Call, NEW r, call' = [call EXCEPT ![c] = r],
             r.stage # "write" \/ r.kind \notin {"create", "update"}
      PROVE  NoNewWriter
  BY <1>a, <1>d, NotWriting
<1> HIDE DEF Goal
<1>1. ASSUME NEW c \in Call, LoginStep(c) PROVE Goal
  <2>1. UNCHANGED <<exists, row, raced>>
    BY <1>1 DEF LoginStep, BasicAuth, ReadSecret, UpdateCounter, ReadCRLs, ReadCAs,
                AssignDeviceSlot, table, history
  <2>2. ASSUME NEW u \in User, BasicAuth(c, u) PROVE NoNewWriter
    <3> DEFINE r == [kind |-> "login", stage |-> IF row[u].mfa = "none" THEN "slot" ELSE "mfa",
                     user |-> u, row |-> row[u], how |-> "none", key |-> None, code |-> 0]
    <3>1. call' = [call EXCEPT ![c] = r]
      BY <2>2 DEF BasicAuth
    <3>2. r.kind \notin {"create", "update"}
      OBVIOUS
    <3> HIDE DEF r
    <3> QED
      BY <3>1, <3>2, <1>d
  <2>3. ASSUME ReadSecret(c) PROVE NoNewWriter
    <3>0. call[c] \in Login
      BY <1>a, <2>3, Kinds DEF ReadSecret
    <3>1. PICK s \in totp[call[c].user] : \E code \in Authenticate(s) :
            call' = [call EXCEPT ![c].stage = "count", ![c].how = "totp",
                                 ![c].key = s.key, ![c].code = code]
      BY <2>3 DEF ReadSecret
    <3>2. PICK code \in Authenticate(s) :
            call' = [call EXCEPT ![c] = [call[c] EXCEPT !.stage = "count", !.how = "totp",
                                                        !.key = s.key, !.code = code]]
      BY <3>1
    <3> DEFINE r == [call[c] EXCEPT !.stage = "count", !.how = "totp", !.key = s.key,
                                    !.code = code]
    <3>3. r.stage = "count"
      BY <3>0 DEF Login
    <3>4. call' = [call EXCEPT ![c] = r]
      BY <3>2
    <3> HIDE DEF r
    <3> QED
      BY <3>3, <3>4, <1>d
  <2>4. ASSUME ReadCRLs(c) PROVE NoNewWriter
    <3>0. call[c] \in Login
      BY <1>a, <2>4, Kinds DEF ReadCRLs
    <3> DEFINE r == [call[c] EXCEPT !.stage = "ca", !.how = "cert"]
    <3>1. r.stage = "ca"
      BY <3>0 DEF Login
    <3>2. call' = [call EXCEPT ![c] = r]
      BY <2>4 DEF ReadCRLs
    <3> HIDE DEF r
    <3> QED
      BY <3>1, <3>2, <1>d
  <2>5. ASSUME UpdateCounter(c) \/ ReadCAs(c) \/ AssignDeviceSlot(c) PROVE NoNewWriter
    BY <2>5, <1>c DEF UpdateCounter, ReadCAs, AssignDeviceSlot, Stage
  <2> QED
    BY <1>1, <1>b, <2>1, <2>2, <2>3, <2>4, <2>5 DEF LoginStep
<1>2. ASSUME NEW c \in Call, NEW n \in Name, CreateUser(c, n) PROVE Goal
  <2>1. /\ call'[c].name = n
        /\ \A b \in Call \ {c} : call'[b] = call[b]
    BY <1>2, <1>a DEF CreateUser, Begin, CallsTyped
  <2>2. ~NameExists(n) /\ Race(c, n) /\ UNCHANGED <<exists, row>>
    BY <1>2 DEF CreateUser, table
  <2> QED
    BY <2>1, <2>2, NamesChecked DEF Goal
<1>3. ASSUME NEW c \in Call, CheckUsername(c) PROVE Goal
  <2>1. call[c] \in Update
    BY <1>3, <1>a, Kinds DEF CheckUsername
  <2>2. /\ call'[c].name = call[c].name
        /\ \A b \in Call \ {c} : call'[b] = call[b]
    BY <1>3, <1>a, <2>1 DEF CheckUsername, Goto, CallsTyped, Update
  <2>3. /\ ~NameExists(call[c].name) /\ Race(c, call[c].name)
        /\ UNCHANGED <<exists, row>>
    BY <1>3 DEF CheckUsername, table
  <2> QED
    BY <2>2, <2>3, NamesChecked DEF Goal
<1>4. ASSUME NEW c \in Call, NEW u \in User, NEW n \in Name, NEW m \in MFAType,
             UpdateUser(c, u, n, m)
      PROVE  Goal
  <2> DEFINE r == [kind |-> "update", stage |-> IF n = row[u].name THEN "write" ELSE "check",
                   user |-> u, name |-> n, mfa |-> m, old |-> row[u]]
  <2>1. call' = [call EXCEPT ![c] = r] /\ UNCHANGED <<exists, row, raced>> /\ u \in exists
    BY <1>4 DEF UpdateUser, Begin, table, history
  <2>2. CASE n # row[u].name
    <3>1. r.stage # "write"
      BY <2>2
    <3> HIDE DEF r
    <3> QED
      BY <2>1, <3>1, <1>b, <1>d
  <2>3. CASE n = row[u].name
    <3>1. r.name = n /\ r.kind = "update" /\ r.old.name = n
      BY <2>3
    <3> HIDE DEF r
    <3>2. call'[c] = r /\ \A d \in Call \ {c} : call'[d] = call[d]
      BY <2>1, <1>a DEF CallsTyped
    <3>3. ~NewName(c)'
      BY <3>1, <3>2 DEF NewName
    <3>4. ASSUME NEW d \in Call, d # c
          PROVE  /\ call'[d].name = call[d].name
                 /\ Writing(d)' => Writing(d)
                 /\ NewName(d)' => NewName(d)
      BY <3>2, <3>4 DEF NewName, Writing
    <3>5. ASSUME NEW d \in Call, NewName(d)'
          PROVE  /\ d # c /\ NewName(d) /\ call'[d].name = call[d].name
                 /\ call[d].name = n => n \in raced
      BY <3>3, <3>4, <3>5, <2>1, <2>3 DEF NamesInv, NamesFree
    <3>6. ASSUME NEW d \in Call, NEW e \in Call, d # e, NewName(d)', Writing(e)',
                 call'[d].name = call'[e].name
          PROVE  call'[d].name \in raced
      <4>1. CASE e = c
        BY <4>1, <3>1, <3>2, <3>5, <3>6
      <4>2. CASE e # c
        BY <4>2, <3>4, <3>5, <3>6 DEF NamesInv, NamesFree
      <4> QED
        BY <4>1, <4>2
    <3>7. ASSUME NEW d \in Call, NEW v \in exists, NewName(d)', row[v].name = call'[d].name
          PROVE  call'[d].name \in raced
      BY <3>5, <3>7 DEF NamesInv, NamesFree
    <3>8. NamesFree'
      BY <3>6, <3>7, <2>1 DEF NamesFree
    <3>9. NamesDistinctUnlessRaced'
      BY <2>1 DEF NamesInv, NamesDistinctUnlessRaced
    <3> QED
      BY <3>8, <3>9 DEF Goal
  <2> QED
    BY <2>2, <2>3
<1>5. ASSUME NEW c \in Call, NEW u \in User,
             \/ UpdateUserPassword(c, u)
             \/ \E op \in {"create secret", "update secret"} : ChangeSecret(c, u, op)
      PROVE  Goal
  <2>1. CASE UpdateUserPassword(c, u)
    BY <2>1, <1>b, <1>d DEF UpdateUserPassword, Begin, table, history
  <2>2. ASSUME NEW op \in {"create secret", "update secret"}, ChangeSecret(c, u, op) PROVE Goal
    <3> DEFINE r == [kind |-> op, stage |-> "write", user |-> u, old |-> row[u]]
    <3>1. call' = [call EXCEPT ![c] = r] /\ UNCHANGED <<exists, row, raced>>
      BY <2>2 DEF ChangeSecret, Begin, table, history
    <3>2. r.kind \notin {"create", "update"}
      OBVIOUS
    <3> HIDE DEF r
    <3> QED
      BY <3>1, <3>2, <1>b, <1>d
  <2> QED
    BY <1>5, <2>1, <2>2
<1>6. ASSUME NEW c \in Call, MFADeleteCA(c) \/ MFACreateCRL(c) PROVE Goal
  <2>1. /\ call' = [call EXCEPT ![c] = [kind |-> "certificates", stage |-> "invalidate"]]
        /\ UNCHANGED <<exists, row, raced>>
    BY <1>6 DEF MFADeleteCA, MFACreateCRL, RevokeCertificates, Begin, history
  <2> QED
    BY <2>1, <1>b, <1>d
<1>7. ASSUME NEW c \in Call, NEW u \in exists, DeleteUser(c, u) PROVE Goal
  <2>1. /\ call' = [call EXCEPT ![c] = [kind |-> "delete", stage |-> "write", user |-> u]]
        /\ UNCHANGED <<exists, row, raced>>
    BY <1>7 DEF DeleteUser, Begin, history
  <2> QED
    BY <2>1, <1>b, <1>d
<1>8. ASSUME NEW c \in Call, WritePassword(c) \/ WriteSecret(c) \/ Invalidate(c) \/ DeleteRow(c)
      PROVE  Goal
  <2>1. raced' = raced /\ NoNewWriter
    BY <1>8, <1>c DEF WritePassword, WriteSecret, Invalidate, DeleteRow, history, Stage
  <2>2. NoNewName
    <3>1. CASE WritePassword(c)
      BY <1>a, <3>1 DEF WritePassword, NoNewName, Typed, TablesTyped, Row
    <3>2. CASE UNCHANGED row
      BY <1>8, <3>2 DEF WritePassword, WriteSecret, Invalidate, DeleteRow, table, NoNewName
    <3> QED
      BY <1>8, <3>1, <3>2 DEF WriteSecret, Invalidate, DeleteRow, table
  <2> QED
    BY <2>1, <2>2, NamesQuiet DEF Goal
<1>9. ASSUME NEW c \in Call, InsertUser(c) PROVE Goal
  <2>1. Writing(c) /\ NewName(c) /\ NoNewWriter /\ raced' = raced
    BY <1>9, <1>c DEF InsertUser, Writing, NewName, history, Stage
  <2>2. ~Writing(c)'
    BY <1>9, <1>a, Kinds DEF InsertUser, Goto, Writing, CallsTyped, Creation
  <2>3. PICK m \in MFAType :
          row' = [row EXCEPT ![inserted + 1] = [name |-> call[c].name, password |-> c, mfa |-> m]]
    BY <1>9 DEF InsertUser
  <2>4. inserted + 1 \in User /\ exists' = exists \cup {inserted + 1}
    BY <1>9, <1>a, UserAssumption DEF InsertUser, Typed, TablesTyped, User
  <2>5. /\ row'[inserted + 1].name = call[c].name
        /\ \A u \in exists \ {inserted + 1} : row'[u].name = row[u].name
    BY <1>a, <2>3, <2>4 DEF Typed, TablesTyped
  <2> QED
    BY <2>1, <2>2, <2>4, <2>5, NamesWritten DEF Goal
<1>10. ASSUME NEW c \in Call, WriteUser(c) PROVE Goal
  <2> DEFINE u == call[c].user
  <2> DEFINE old == call[c].old
  <2> DEFINE stale == row[u].name # old.name \/ row[u].mfa # old.mfa
  <2> DEFINE new == [row[u] EXCEPT !.name = call[c].name, !.mfa = call[c].mfa]
  <2>1. call[c] \in Update
    BY <1>10, <1>a, Kinds DEF WriteUser
  <2>2. u \in User /\ row[u] \in Row /\ new.name = call[c].name
    BY <1>a, <2>1 DEF Update, Typed, TablesTyped, Row
  <2>3. /\ row' = [row EXCEPT ![u] = new]
        /\ raced' = IF stale THEN raced \cup {new.name} ELSE raced
        /\ u \in exists /\ UNCHANGED exists
        /\ Goto(c, "done") \/ Goto(c, "invalidate")
    BY <1>10 DEF WriteUser
  <2>4. NoNewWriter
    BY <1>c, <2>3 DEF Stage
  <2>5. Writing(c) /\ ~Writing(c)'
    BY <1>10, <2>1, <2>3, <1>a DEF WriteUser, Goto, Writing, CallsTyped, Update
  <2>6. raced \subseteq raced' /\ (stale => call[c].name \in raced')
    BY <2>2, <2>3
  <2> HIDE DEF new
  <2>7. /\ row'[u].name = call[c].name
        /\ \A v \in exists \ {u} : row'[v].name = row[v].name
    BY <1>a, <2>2, <2>3 DEF Typed, TablesTyped
  <2>8. CASE stale \/ NewName(c)
    BY <2>3, <2>4, <2>5, <2>6, <2>7, <2>8, NamesWritten DEF Goal
  <2>9. CASE ~stale /\ ~NewName(c)
    <3>1. row[u].name = call[c].name
      BY <2>5, <2>9 DEF NewName
    <3>2. NoNewName
      BY <2>3, <2>7, <3>1 DEF NoNewName
    <3> QED
      BY <2>4, <2>6, <3>2, NamesQuiet DEF Goal
  <2> QED
    BY <2>8, <2>9
<1>11. ASSUME UNCHANGED <<exists, row, raced, call>> PROVE Goal
  BY <1>11, <1>b DEF NoNewWriter
<1> QED
  BY <1>1, <1>2, <1>3, <1>4, <1>5, <1>6, <1>7, <1>8, <1>9, <1>10, <1>11
     DEF Goal, Next, AdminStep, MFACreateCA, MFADeleteCRL, RestoreCertificates, CreateDevice,
         Tick, table, history, vars

(* Users always have their types, and distinct names unless two calls raced for  *)
(* one name or an update wrote an old name back (CreateUser, UpdateUser).    *)
THEOREM UsersCorrect == Spec => []UsersSound
<1>1. Init => NamesInv
  <2> SUFFICES ASSUME Init PROVE NamesInv
    OBVIOUS
  <2>1. NamesDistinctUnlessRaced /\ \A c \in Call : ~Writing(c)
    BY DEF Init, NamesDistinctUnlessRaced, Writing, Fresh
  <2> QED
    BY <2>1, InitTyped DEF NamesInv, NamesFree, NewName
<1>2. NamesInv /\ [Next]_vars => NamesInv'
  BY TypedStep, NamesStep DEF NamesInv
<1>3. NamesInv => UsersSound
  BY TypedOK DEF NamesInv, UsersSound
<1> QED
  BY <1>1, <1>2, <1>3, PTL DEF Spec

-----------------------------------------------------------------------------
(* The calls that have written a secret; the secret's key is the call. *)
Written ==
    {c \in Call : call[c].kind \in {"create secret", "update secret"} /\ call[c].stage # "write"}

(* Logins whose code was accepted, and those that have a code and no answer yet. *)
Accepted(c) ==
    /\ c \notin disturbed
    /\ call[c].kind = "login" /\ call[c].stage \in {"slot", "done"} /\ call[c].how = "totp"

Pending(c) == c \notin disturbed /\ call[c].kind = "login" /\ call[c].stage = "count"

(* Secrets come from calls that have written them. *)
SecretsKnown == \A u \in User : \A r \in totp[u] : r.key \in Written \cup {None}

LoginsKnown ==
    \A c \in Call : call[c].kind = "login" =>
        /\ call[c].key \in Written \cup {None}
        /\ call[c].stage = "ca" => call[c].how = "cert"

(* The counter of a secret is never below a code accepted for it. *)
CodesUsed ==
    \A c \in Call : Accepted(c) =>
        \A r \in totp[call[c].user] : r.key = call[c].key => call[c].code <= r.counter

(* A login with a code that was accepted for another cannot go on. *)
CodesTaken ==
    \A c, d \in Call :
        /\ Accepted(c) /\ Pending(d)
        /\ call[c].user = call[d].user
        /\ call[c].key = call[d].key
        /\ call[c].code = call[d].code
        => \A r \in totp[call[d].user] : call[d].code <= r.counter

CodesOK == SecretsKnown /\ LoginsKnown /\ CodesUsed /\ CodesTaken /\ CodeAcceptedOnce

CodesInv == Typed /\ CodesOK

(* What steps that are not about codes leave alone. *)
AcceptedKept ==
    \A c \in Call : Accepted(c)' =>
        /\ Accepted(c)
        /\ call'[c].user = call[c].user
        /\ call'[c].key = call[c].key
        /\ call'[c].code = call[c].code

PendingKept ==
    \A c \in Call : Pending(c)' =>
        /\ Pending(c)
        /\ call'[c].user = call[c].user
        /\ call'[c].key = call[c].key
        /\ call'[c].code = call[c].code

LoginsKept ==
    /\ Written \subseteq Written'
    /\ \A c \in Call : call'[c].kind = "login" =>
        /\ call'[c].key = None \/ (call[c].kind = "login" /\ call'[c].key = call[c].key)
        /\ call'[c].stage = "ca" => call'[c].how = "cert"

(* Accepted codes stay distinct as long as no further one is accepted. *)
LEMMA OnceKept ==
  ASSUME CodeAcceptedOnce, AcceptedKept
  PROVE  CodeAcceptedOnce'
<1> SUFFICES ASSUME NEW c \in Call, NEW d \in Call, c # d, Accepted(c)', Accepted(d)',
                    call'[c].user = call'[d].user, call'[c].key = call'[d].key
             PROVE  call'[c].code # call'[d].code
  BY DEF CodeAcceptedOnce, Accepted
<1>1. /\ Accepted(c) /\ call'[c].user = call[c].user /\ call'[c].key = call[c].key
      /\ call'[c].code = call[c].code
  BY DEF AcceptedKept
<1>2. /\ Accepted(d) /\ call'[d].user = call[d].user /\ call'[d].key = call[d].key
      /\ call'[d].code = call[d].code
  BY DEF AcceptedKept
<1> QED
  BY <1>1, <1>2 DEF CodeAcceptedOnce, Accepted

(* Steps that are not about codes keep what is known of them. *)
LEMMA CodesQuiet ==
  ASSUME CodesOK, UNCHANGED totp, AcceptedKept, PendingKept, LoginsKept
  PROVE  CodesOK'
<1> USE DEF CodesOK
<1>1. SecretsKnown'
  BY DEF SecretsKnown, LoginsKept
<1>2. LoginsKnown'
  BY DEF LoginsKnown, LoginsKept
<1>3. CodesUsed'
  BY DEF CodesUsed, AcceptedKept
<1>4. CodesTaken'
  <2> SUFFICES ASSUME NEW c \in Call, NEW d \in Call, Accepted(c)', Pending(d)',
                      call'[c].user = call'[d].user, call'[c].key = call'[d].key,
                      call'[c].code = call'[d].code
               PROVE  \A r \in totp[call'[d].user] : call'[d].code <= r.counter
    BY DEF CodesTaken
  <2>1. /\ Accepted(c) /\ call'[c].user = call[c].user /\ call'[c].key = call[c].key
        /\ call'[c].code = call[c].code
    BY DEF AcceptedKept
  <2>2. /\ Pending(d) /\ call'[d].user = call[d].user /\ call'[d].key = call[d].key
        /\ call'[d].code = call[d].code
    BY DEF PendingKept
  <2> QED
    BY <2>1, <2>2 DEF CodesTaken
<1>5. CodeAcceptedOnce'
  BY OnceKept
<1> QED
  BY <1>1, <1>2, <1>3, <1>4, <1>5

(* So does a step of a call that is no login, if it keeps what it has written. *)
LEMMA NoLogin ==
  ASSUME NEW c \in Call, call[c].kind # "login", call'[c].kind # "login",
         c \in Written => c \in Written', \A b \in Call \ {c} : call'[b] = call[b],
         LoginsKnown, disturbed \subseteq disturbed'
  PROVE  AcceptedKept /\ PendingKept /\ LoginsKept
<1>1. AcceptedKept
  BY DEF AcceptedKept, Accepted
<1>2. PendingKept
  BY DEF PendingKept, Pending
<1>3. Written \subseteq Written'
  BY DEF Written
<1>4. LoginsKept
  BY <1>3 DEF LoginsKept, LoginsKnown
<1> QED
  BY <1>1, <1>2, <1>4

(* TryToUpdateUserTOTPCounter raises counters, up to the code at least, and keeps  *)
(* the keys.                                                                 *)
LEMMA CounterRaised ==
  ASSUME NEW u \in User, NEW code \in 0..MaxClock + 1, totp \in [User -> SUBSET Secret],
         totp' = [totp EXCEPT ![u] =
            (totp[u] \ Older(u, code)) \cup {[r EXCEPT !.counter = code] : r \in Older(u, code)}]
  PROVE  /\ \A v \in User \ {u} : totp'[v] = totp[v]
         /\ \A r \in totp'[u] :
              /\ code <= r.counter
              /\ \E s \in totp[u] : s.key = r.key /\ s.counter <= r.counter
         /\ \A s \in totp[u] : \E r \in totp'[u] : r.key = s.key
<1>1. totp[u] \subseteq Secret /\ Older(u, code) \subseteq totp[u]
  BY DEF Older
<1>2. totp'[u] = (totp[u] \ Older(u, code)) \cup {[r EXCEPT !.counter = code] : r \in Older(u, code)}
  OBVIOUS
<1>3. ASSUME NEW r \in Secret
      PROVE  /\ [r EXCEPT !.counter = code].key = r.key
             /\ [r EXCEPT !.counter = code].counter = code
             /\ r.counter \in Nat
  BY ClockAssumption DEF Secret
<1>4. ASSUME NEW s \in totp[u] PROVE \E r \in totp'[u] : r.key = s.key
  BY <1>1, <1>2, <1>3
<1>5. ASSUME NEW r \in totp'[u]
      PROVE  /\ code <= r.counter
             /\ \E s \in totp[u] : s.key = r.key /\ s.counter <= r.counter
  <2>1. CASE r \in totp[u] \ Older(u, code)
    BY <1>1, <1>3, <2>1, ClockAssumption DEF Older
  <2>2. ASSUME NEW s \in Older(u, code), r = [s EXCEPT !.counter = code]
        PROVE  /\ code <= r.counter
               /\ \E t \in totp[u] : t.key = r.key /\ t.counter <= r.counter
    <3>1. s \in totp[u] /\ s.counter < code /\ r.key = s.key /\ r.counter = code
      BY <1>1, <1>3, <2>2 DEF Older
    <3> QED
      BY <1>1, <1>3, <3>1, ClockAssumption
  <2> QED
    BY <1>2, <1>5, <2>1, <2>2
<1> QED
  BY <1>4, <1>5

(* An accepted code raises the counters: no login that holds it is accepted.   *)
LEMMA CodesAccept ==
  ASSUME CodesInv, NEW c \in Call, UpdateCounter(c)
  PROVE  CodesOK'
<1> USE DEF CodesInv, CodesOK
<1> DEFINE u == call[c].user
<1> DEFINE code == call[c].code
<1>1. call[c] \in Login
  BY Kinds DEF UpdateCounter, Typed, CallsTyped
<1>2. u \in User /\ code \in 0..MaxClock + 1
  BY <1>1, ClockAssumption DEF Login, Counter
<1>3. totp \in [User -> SUBSET Secret]
  BY DEF Typed, TablesTyped
<1>4. /\ \A v \in User \ {u} : totp'[v] = totp[v]
      /\ \A r \in totp'[u] :
          /\ code <= r.counter
          /\ \E s \in totp[u] : s.key = r.key /\ s.counter <= r.counter
  BY <1>2, <1>3, CounterRaised DEF UpdateCounter
<1>5. \E s \in totp[u] : s.counter < code
  BY DEF UpdateCounter, Older
<1>6. call' = [call EXCEPT ![c] = [call[c] EXCEPT !.stage = "slot"]] /\ UNCHANGED disturbed
  BY DEF UpdateCounter, Goto, history
<1>7. /\ \A b \in Call \ {c} : call'[b] = call[b]
      /\ call'[c] = [call[c] EXCEPT !.stage = "slot"]
  BY <1>6 DEF Typed, CallsTyped
<1>8. /\ call'[c].kind = "login" /\ call'[c].stage = "slot" /\ call'[c].user = u
      /\ call'[c].key = call[c].key /\ call'[c].code = code
  BY <1>1, <1>7 DEF Login
<1>9. call[c].kind = "login" /\ call[c].stage = "count"
  BY <1>1 DEF UpdateCounter, Login
<1>10. \A r \in totp[u] : r.counter \in Nat
  BY <1>2, <1>3, ClockAssumption DEF Secret
<1>11. \A d \in Call : Accepted(d) \/ Pending(d) => call[d].user \in User /\ call[d].code \in Nat
  <2>1. \A d \in Call : call[d].kind = "login" => call[d] \in Login
    BY Kinds DEF Typed, CallsTyped
  <2>2. \A l \in Login : l.user \in User /\ l.code \in Nat
    BY ClockAssumption DEF Login, Counter
  <2> QED
    BY <2>1, <2>2 DEF Accepted, Pending
<1> HIDE DEF u, code
<1>12. ASSUME NEW d \in Call, d # c
       PROVE  /\ call'[d].user = call[d].user /\ call'[d].key = call[d].key
              /\ call'[d].code = call[d].code
              /\ Accepted(d)' => Accepted(d)
              /\ Pending(d)' => Pending(d)
  BY <1>6, <1>7, <1>12 DEF Accepted, Pending
<1>13. ~Pending(c)' /\ (Accepted(c)' => Pending(c))
  BY <1>6, <1>8, <1>9 DEF Pending, Accepted
<1>14. ASSUME NEW r \in totp'[u]
       PROVE  /\ code <= r.counter
              /\ \E s \in totp[u] : s.key = r.key /\ s.counter <= r.counter
              /\ r.counter \in Nat
  <2>1. totp'[u] \subseteq Secret
    BY <1>2, TableStep DEF Typed, TablesTyped, Next, LoginStep
  <2> QED
    BY <1>4, <2>1, ClockAssumption DEF Secret
<1>15. Written' = Written
  BY <1>7, <1>8, <1>9 DEF Written
<1>16. SecretsKnown'
  BY <1>2, <1>4, <1>14, <1>15 DEF SecretsKnown
<1>17. LoginsKnown'
  BY <1>7, <1>8, <1>9, <1>15 DEF LoginsKnown
<1>18. CodesUsed'
  <2> SUFFICES ASSUME NEW d \in Call, Accepted(d)', NEW r \in totp'[call'[d].user],
                      r.key = call'[d].key
               PROVE  call'[d].code <= r.counter
    BY DEF CodesUsed
  <2>1. CASE d = c
    BY <1>8, <1>14, <2>1
  <2>2. CASE d # c /\ call[d].user = u
    <3>1. call[d].code \in Nat
      BY <1>11, <1>12, <2>2
    <3>2. PICK s \in totp[u] : s.key = r.key /\ s.counter <= r.counter
      BY <1>12, <1>14, <2>2
    <3>3. call[d].code <= s.counter
      BY <1>12, <2>2, <3>2 DEF CodesUsed
    <3> QED
      BY <1>10, <1>12, <1>14, <2>2, <3>1, <3>2, <3>3
  <2>3. CASE d # c /\ call[d].user # u
    BY <1>4, <1>11, <1>12, <2>3 DEF CodesUsed
  <2> QED
    BY <2>1, <2>2, <2>3
<1>19. CodesTaken'
  <2> SUFFICES ASSUME NEW d \in Call, NEW e \in Call, Accepted(d)', Pending(e)',
                      call'[d].user = call'[e].user, call'[d].key = call'[e].key,
                      call'[d].code = call'[e].code, NEW r \in totp'[call'[e].user]
               PROVE  call'[e].code <= r.counter
    BY DEF CodesTaken
  <2>1. e # c
    BY <1>13
  <2>2. CASE d = c
    BY <1>8, <1>14, <2>1, <2>2
  <2>3. CASE d # c /\ call[e].user = u
    <3>1. call[e].code \in Nat
      BY <1>11, <1>12, <2>1
    <3>2. PICK s \in totp[u] : s.counter <= r.counter
      BY <1>12, <1>14, <2>1, <2>3
    <3>3. call[e].code <= s.counter
      BY <1>12, <2>1, <2>3, <3>2 DEF CodesTaken
    <3> QED
      BY <1>10, <1>12, <1>14, <2>1, <2>3, <3>1, <3>2, <3>3
  <2>4. CASE d # c /\ call[e].user # u
    BY <1>4, <1>11, <1>12, <2>1, <2>4 DEF CodesTaken
  <2> QED
    BY <2>2, <2>3, <2>4
<1>20. CodeAcceptedOnce'
  <2> SUFFICES ASSUME NEW d \in Call, NEW e \in Call, d # e, Accepted(d)', Accepted(e)',
                      call'[d].user = call'[e].user, call'[d].key = call'[e].key,
                      call'[d].code = call'[e].code
               PROVE  FALSE
    BY DEF CodeAcceptedOnce, Accepted
  <2>1. ASSUME NEW b \in Call, b # c, Accepted(c)', Accepted(b)', call'[b].user = u,
               call'[b].key = call[c].key, call'[b].code = code
        PROVE  FALSE
    <3>1. Accepted(b) /\ Pending(c)
      BY <1>12, <1>13, <2>1
    <3>2. /\ call[b].user = call[c].user /\ call[b].key = call[c].key
          /\ call[b].code = call[c].code
      BY <1>12, <2>1 DEF u, code
    <3>3. \A r \in totp[u] : code <= r.counter
      BY <3>1, <3>2 DEF CodesTaken, u, code
    <3> QED
      BY <1>2, <1>5, <1>10, <3>3, ClockAssumption
  <2>2. CASE d = c \/ e = c
    BY <1>8, <2>1, <2>2
  <2>3. CASE d # c /\ e # c
    BY <1>12, <2>3 DEF CodeAcceptedOnce, Accepted
  <2> QED
    BY <2>2, <2>3
<1> QED
  BY <1>16, <1>17, <1>18, <1>19, <1>20

(* A secret is written or the secrets of a user are deleted: the new key is     *)
(* nobody's, and logins with a code of the old ones are disturbed.          *)
LEMMA CodesReplaced ==
  ASSUME CodesInv, NEW c \in Call, NEW u \in User, NEW S,
         totp' = [totp EXCEPT ![u] = S],
         \A r \in S : r \in totp[u] \/ (r.key = c /\ c \in Written'),
         c \notin Written, call[c].kind # "login", call'[c].kind # "login",
         \A b \in Call \ {c} : call'[b] = call[b], disturbed' = disturbed \cup Counting(u)
  PROVE  CodesOK'
<1> USE DEF CodesInv, CodesOK
<1>1. AcceptedKept /\ PendingKept /\ LoginsKept
  BY NoLogin
<1>2. totp'[u] = S /\ \A v \in User \ {u} : totp'[v] = totp[v]
  BY DEF Typed, TablesTyped
<1>3. \A d \in Call : call[d].kind = "login" => call[d].user \in User
  <2>1. \A d \in Call : call[d].kind = "login" => call[d] \in Login
    BY Kinds DEF Typed, CallsTyped
  <2> QED
    BY <2>1 DEF Login
<1>4. SecretsKnown'
  <2> SUFFICES ASSUME NEW v \in User, NEW r \in totp'[v]
               PROVE  r.key \in Written' \cup {None}
    BY DEF SecretsKnown
  <2>1. Written \subseteq Written'
    BY <1>1 DEF LoginsKept
  <2> QED
    BY <1>2, <2>1 DEF SecretsKnown
<1>5. LoginsKnown'
  BY <1>1 DEF LoginsKnown, LoginsKept
<1>6. CodesUsed'
  <2> SUFFICES ASSUME NEW d \in Call, Accepted(d)', NEW r \in totp'[call'[d].user],
                      r.key = call'[d].key
               PROVE  call'[d].code <= r.counter
    BY DEF CodesUsed
  <2>1. /\ Accepted(d) /\ call'[d].user = call[d].user /\ call'[d].key = call[d].key
        /\ call'[d].code = call[d].code
    BY <1>1 DEF AcceptedKept
  <2>2. call[d].key # c /\ call[d].user \in User
    BY <1>3, <2>1, NoCallAssumption DEF LoginsKnown, Accepted
  <2>3. r \in totp[call[d].user]
    BY <1>2, <2>1, <2>2
  <2> QED
    BY <2>1, <2>3 DEF CodesUsed
<1>7. CodesTaken'
  <2> SUFFICES ASSUME NEW d \in Call, NEW e \in Call, Accepted(d)', Pending(e)',
                      call'[d].user = call'[e].user, call'[d].key = call'[e].key,
                      call'[d].code = call'[e].code, NEW r \in totp'[call'[e].user]
               PROVE  call'[e].code <= r.counter
    BY DEF CodesTaken
  <2>1. /\ Accepted(d) /\ call'[d].user = call[d].user /\ call'[d].key = call[d].key
        /\ call'[d].code = call[d].code
    BY <1>1 DEF AcceptedKept
  <2>2. /\ Pending(e) /\ call'[e].user = call[e].user /\ call'[e].key = call[e].key
        /\ call'[e].code = call[e].code
    BY <1>1 DEF PendingKept
  <2>3. call[e].user # u
    BY <2>2 DEF Pending, Counting
  <2>4. call[e].user \in User
    BY <1>3, <2>2 DEF Pending
  <2> QED
    BY <1>2, <2>1, <2>2, <2>3, <2>4 DEF CodesTaken
<1>8. CodeAcceptedOnce'
  BY <1>1, OnceKept
<1> QED
  BY <1>4, <1>5, <1>6, <1>7, <1>8

(* A login reads a secret: its code is later than the counter, so it is not one  *)
(* that was accepted.                                                        *)
LEMMA CodesRead ==
  ASSUME CodesInv, NEW c \in Call, ReadSecret(c)
  PROVE  CodesOK'
<1> USE DEF CodesInv, CodesOK
<1>1. call[c] \in Login /\ call[c].stage = "mfa"
  BY Kinds DEF ReadSecret, Typed, CallsTyped
<1> DEFINE u == call[c].user
<1>2. u \in User /\ call[c].kind = "login"
  BY <1>1 DEF Login
<1>3. PICK s \in totp[u] : \E code \in Authenticate(s) :
        call' = [call EXCEPT ![c].stage = "count", ![c].how = "totp",
                             ![c].key = s.key, ![c].code = code]
  BY DEF ReadSecret
<1>4. PICK code \in Authenticate(s) :
        call' = [call EXCEPT ![c] = [call[c] EXCEPT !.stage = "count", !.how = "totp",
                                                    !.key = s.key, !.code = code]]
  BY <1>3
<1>5. code > s.counter /\ code \in Nat /\ s.counter \in Nat
  <2>1. s \in Secret
    BY <1>2 DEF Typed, TablesTyped
  <2> QED
    BY <2>1, ClockAssumption DEF Authenticate, Counter, Secret
<1>6. /\ call'[c] = [call[c] EXCEPT !.stage = "count", !.how = "totp",
                                     !.key = s.key, !.code = code]
      /\ \A b \in Call \ {c} : call'[b] = call[b]
  BY <1>4 DEF Typed, CallsTyped
<1>7. /\ call'[c].kind = "login" /\ call'[c].stage = "count" /\ call'[c].user = u
      /\ call'[c].key = s.key /\ call'[c].code = code
  BY <1>1, <1>6 DEF Login
<1>8. totp' = totp /\ disturbed' = disturbed
  BY DEF ReadSecret, table, history
<1> HIDE DEF u
<1>9. AcceptedKept
  BY <1>6, <1>7, <1>8 DEF AcceptedKept, Accepted
<1>10. ASSUME NEW d \in Call, d # c
       PROVE  /\ call'[d].user = call[d].user /\ call'[d].key = call[d].key
              /\ call'[d].code = call[d].code
              /\ Pending(d)' => Pending(d)
  BY <1>6, <1>8, <1>10 DEF Pending
<1>11. Written' = Written
  BY <1>2, <1>6, <1>7 DEF Written
<1>12. SecretsKnown'
  BY <1>8, <1>11 DEF SecretsKnown
<1>13. LoginsKnown'
  <2>1. s.key \in Written \cup {None}
    BY <1>2 DEF SecretsKnown
  <2> QED
    BY <2>1, <1>6, <1>7, <1>11 DEF LoginsKnown
<1>14. CodesUsed'
  BY <1>8, <1>9 DEF CodesUsed, AcceptedKept
<1>15. CodesTaken'
  <2> SUFFICES ASSUME NEW d \in Call, NEW e \in Call, Accepted(d)', Pending(e)',
                      call'[d].user = call'[e].user, call'[d].key = call'[e].key,
                      call'[d].code = call'[e].code, NEW r \in totp[call'[e].user]
               PROVE  call'[e].code <= r.counter
    BY <1>8 DEF CodesTaken
  <2>1. /\ Accepted(d) /\ call'[d].user = call[d].user /\ call'[d].key = call[d].key
        /\ call'[d].code = call[d].code
    BY <1>9 DEF AcceptedKept
  <2>2. CASE e = c
    <3>1. call[d].code <= s.counter
      BY <1>7, <2>1, <2>2 DEF CodesUsed
    <3>2. call[d].code = code
      BY <1>7, <2>1, <2>2
    <3> QED
      BY <1>5, <3>1, <3>2
  <2>3. CASE e # c
    BY <1>10, <2>1, <2>3 DEF CodesTaken
  <2> QED
    BY <2>2, <2>3
<1>16. CodeAcceptedOnce'
  BY <1>9, OnceKept
<1> QED
  BY <1>12, <1>13, <1>14, <1>15, <1>16

(* A login that goes on without a code of its own. *)
LEMMA OtherLogin ==
  ASSUME CodesInv, NEW c \in Call, \A b \in Call \ {c} : call'[b] = call[b],
         UNCHANGED disturbed,
         call[c].kind \in {"none", "login"}, call'[c].kind = "login",
         call'[c].stage # "count",
         \/ /\ call'[c].how # "totp"
            /\ call'[c].stage = "ca" => call'[c].how = "cert"
            /\ call'[c].key = None \/ (call[c].kind = "login" /\ call'[c].key = call[c].key)
         \/ /\ call[c].kind = "login" /\ call[c].stage = "slot" /\ call'[c].stage = "done"
            /\ call'[c].how = call[c].how /\ call'[c].user = call[c].user
            /\ call'[c].key = call[c].key /\ call'[c].code = call[c].code
  PROVE  AcceptedKept /\ PendingKept /\ LoginsKept
<1>1. AcceptedKept
  BY DEF AcceptedKept, Accepted
<1>2. PendingKept
  BY DEF PendingKept, Pending
<1>3. Written \subseteq Written'
  BY DEF Written
<1>4. LoginsKept
  BY <1>3 DEF LoginsKept, LoginsKnown, CodesInv, CodesOK
<1> QED
  BY <1>1, <1>2, <1>4

(* Every step keeps what is known of codes. *)
LEMMA CodesStep == CodesInv /\ [Next]_vars => CodesOK'
<1> SUFFICES ASSUME CodesInv, [Next]_vars PROVE CodesOK'
  OBVIOUS
<1>a. Typed /\ CodesOK /\ LoginsKnown
  BY DEF CodesInv, CodesOK
<1>b. \A c \in Call : call[c] \in CallRecord
  BY <1>a DEF Typed, CallsTyped
<1>c. ASSUME NEW c \in Call, NEW r, call' = [call EXCEPT ![c] = r]
      PROVE  call'[c] = r /\ \A b \in Call \ {c} : call'[b] = call[b]
  BY <1>a, <1>c DEF Typed, CallsTyped
<1>d. ASSUME NEW c \in Call, NEW r, Begin(c, r), r.kind # "login", UNCHANGED <<totp, disturbed>>
      PROVE  CodesOK'
  <2>1. call'[c] = r /\ \A b \in Call \ {c} : call'[b] = call[b]
    BY <1>c, <1>d DEF Begin
  <2>2. call[c].kind = "none"
    BY <1>d DEF Begin, Fresh
  <2>3. c \notin Written
    BY <2>2 DEF Written
  <2> QED
    BY <1>a, <1>d, <2>1, <2>2, <2>3, NoLogin, CodesQuiet
<1>e. ASSUME NEW c \in Call, call[c].kind # "login", call[c].kind # "none",
             NEW stage \in {"write", "invalidate", "done"}, Goto(c, stage)
      PROVE  /\ call'[c].kind = call[c].kind /\ call'[c].stage = stage
             /\ \A b \in Call \ {c} : call'[b] = call[b]
  <2>1. /\ call'[c] = [call[c] EXCEPT !.stage = stage]
        /\ \A b \in Call \ {c} : call'[b] = call[b]
    BY <1>c, <1>e DEF Goto
  <2>2. CASE call[c] \in Creation \/ call[c] \in Password
    BY <2>1, <2>2 DEF Creation, Password
  <2>3. CASE call[c] \in Update
    BY <2>1, <2>3 DEF Update
  <2>4. CASE call[c] \in SecretChange
    BY <2>1, <2>4 DEF SecretChange
  <2>5. CASE call[c] \in Certificates \/ call[c] \in Deletion
    BY <2>1, <2>5 DEF Certificates, Deletion
  <2>6. call[c] \notin Login /\ call[c] # Fresh
    BY <1>e DEF Login, Fresh
  <2> QED
    BY <1>b, <2>2, <2>3, <2>4, <2>5, <2>6 DEF CallRecord
<1>f. ASSUME NEW c \in Call, call[c].kind # "login", call[c].kind # "none",
             NEW stage \in {"write", "invalidate", "done"}, Goto(c, stage),
             UNCHANGED <<totp, disturbed>>, stage # "write" \/ call[c].stage = "check"
      PROVE  CodesOK'
  <2>1. /\ call'[c].kind = call[c].kind /\ call'[c].stage = stage
        /\ \A b \in Call \ {c} : call'[b] = call[b]
    BY <1>e, <1>f
  <2>2. call[c].stage = "check" => call[c].kind = "update"
    BY <1>b, Kinds DEF Update
  <2>3. c \in Written => c \in Written'
    BY <1>f, <2>1, <2>2 DEF Written
  <2> QED
    BY <1>a, <1>f, <2>1, <2>3, NoLogin, CodesQuiet
<1>1. ASSUME NEW c \in Call, LoginStep(c) PROVE CodesOK'
  <2>1. ASSUME NEW u \in User, BasicAuth(c, u) PROVE CodesOK'
    <3> DEFINE r == [kind |-> "login", stage |-> IF row[u].mfa = "none" THEN "slot" ELSE "mfa",
                     user |-> u, row |-> row[u], how |-> "none", key |-> None, code |-> 0]
    <3>1. /\ call' = [call EXCEPT ![c] = r] /\ call[c] = Fresh
          /\ UNCHANGED <<totp, disturbed>>
      BY <2>1 DEF BasicAuth, table, history
    <3>2. r.kind = "login" /\ r.how = "none" /\ r.key = None /\ r.stage \in {"slot", "mfa"}
      OBVIOUS
    <3> HIDE DEF r
    <3>3. call'[c] = r /\ \A b \in Call \ {c} : call'[b] = call[b]
      BY <1>c, <3>1
    <3>4. call[c].kind = "none"
      BY <3>1 DEF Fresh
    <3>5. AcceptedKept /\ PendingKept /\ LoginsKept
      BY <3>1, <3>2, <3>3, <3>4, OtherLogin
    <3> QED
      BY <1>a, <3>1, <3>5, CodesQuiet
  <2>2. CASE ReadSecret(c)
    BY <2>2, CodesRead
  <2>3. CASE UpdateCounter(c)
    BY <2>3, CodesAccept
  <2>4. ASSUME ReadCRLs(c) \/ ReadCAs(c) \/ AssignDeviceSlot(c) PROVE CodesOK'
    <3>1. call[c] \in Login /\ UNCHANGED <<totp, disturbed>>
      BY <1>b, <2>4, Kinds DEF ReadCRLs, ReadCAs, AssignDeviceSlot, table, history
    <3>2. call[c].kind = "login"
      BY <3>1 DEF Login
    <3>3. CASE ReadCRLs(c)
      <4> DEFINE r == [call[c] EXCEPT !.stage = "ca", !.how = "cert"]
      <4>1. call' = [call EXCEPT ![c] = r]
        BY <3>3 DEF ReadCRLs
      <4>2. r.stage = "ca" /\ r.how = "cert" /\ r.kind = "login" /\ r.key = call[c].key
        BY <3>1 DEF Login
      <4> HIDE DEF r
      <4>3. call'[c] = r /\ \A b \in Call \ {c} : call'[b] = call[b]
        BY <1>c, <4>1
      <4>4. AcceptedKept /\ PendingKept /\ LoginsKept
        BY <3>1, <3>2, <4>2, <4>3, OtherLogin
      <4> QED
        BY <1>a, <3>1, <4>4, CodesQuiet
    <3>4. CASE ReadCAs(c)
      <4>1. /\ call'[c] = [call[c] EXCEPT !.stage = "slot"]
            /\ \A b \in Call \ {c} : call'[b] = call[b]
        BY <1>c, <3>4 DEF ReadCAs, Goto
      <4>2. /\ call'[c].stage = "slot" /\ call'[c].kind = "login"
            /\ call'[c].how = call[c].how /\ call'[c].key = call[c].key
        BY <3>1, <4>1 DEF Login
      <4>3. call[c].how = "cert"
        BY <1>a, <3>2, <3>4 DEF LoginsKnown, ReadCAs
      <4>4. AcceptedKept /\ PendingKept /\ LoginsKept
        BY <3>1, <3>2, <4>1, <4>2, <4>3, OtherLogin
      <4> QED
        BY <1>a, <3>1, <4>4, CodesQuiet
    <3>5. CASE AssignDeviceSlot(c)
      <4>1. /\ call'[c] = [call[c] EXCEPT !.stage = "done"]
            /\ \A b \in Call \ {c} : call'[b] = call[b]
        BY <1>c, <3>5 DEF AssignDeviceSlot, Goto
      <4>2. /\ call'[c].stage = "done" /\ call'[c].kind = "login"
            /\ call'[c].how = call[c].how /\ call'[c].key = call[c].key
            /\ call'[c].user = call[c].user /\ call'[c].code = call[c].code
        BY <3>1, <4>1 DEF Login
      <4>3. call[c].stage = "slot"
        BY <3>5 DEF AssignDeviceSlot
      <4>4. AcceptedKept /\ PendingKept /\ LoginsKept
        BY <3>1, <3>2, <4>1, <4>2, <4>3, OtherLogin
      <4> QED
        BY <1>a, <3>1, <4>4, CodesQuiet
    <3> QED
      BY <2>4, <3>3, <3>4, <3>5
  <2> QED
    BY <1>1, <2>1, <2>2, <2>3, <2>4 DEF LoginStep
<1>2. ASSUME NEW c \in Call,
             \/ \E n \in Name : CreateUser(c, n)
             \/ \E u \in User : UpdateUserPassword(c, u)
             \/ MFADeleteCA(c) \/ MFACreateCRL(c)
             \/ \E u \in exists : DeleteUser(c, u)
      PROVE  CodesOK'
  <2>1. UNCHANGED <<totp, disturbed>>
    BY <1>2 DEF CreateUser, UpdateUserPassword, MFADeleteCA, MFACreateCRL, RevokeCertificates,
                DeleteUser, table, history
  <2>2. \E r : r.kind # "login" /\ Begin(c, r)
    BY <1>2 DEF CreateUser, UpdateUserPassword, MFADeleteCA, MFACreateCRL, RevokeCertificates,
                DeleteUser
  <2> QED
    BY <1>d, <2>1, <2>2
<1>3. ASSUME NEW c \in Call, NEW u \in User,
             \/ \E n \in Name, m \in MFAType : UpdateUser(c, u, n, m)
             \/ \E op \in {"create secret", "update secret"} : ChangeSecret(c, u, op)
      PROVE  CodesOK'
  <2>1. UNCHANGED <<totp, disturbed>>
    BY <1>3 DEF UpdateUser, ChangeSecret, table, history
  <2>2. ASSUME NEW n \in Name, NEW m \in MFAType, UpdateUser(c, u, n, m) PROVE CodesOK'
    <3> DEFINE r == [kind |-> "update", stage |-> IF n = row[u].name THEN "write" ELSE "check",
                     user |-> u, name |-> n, mfa |-> m, old |-> row[u]]
    <3>1. Begin(c, r) /\ r.kind # "login"
      BY <2>2 DEF UpdateUser
    <3> HIDE DEF r
    <3> QED
      BY <1>d, <2>1, <3>1
  <2>3. ASSUME NEW op \in {"create secret", "update secret"}, ChangeSecret(c, u, op)
        PROVE  CodesOK'
    <3> DEFINE r == [kind |-> op, stage |-> "write", user |-> u, old |-> row[u]]
    <3>1. Begin(c, r) /\ r.kind # "login"
      BY <2>3 DEF ChangeSecret
    <3> HIDE DEF r
    <3> QED
      BY <1>d, <2>1, <3>1
  <2> QED
    BY <1>3, <2>2, <2>3
<1>4. ASSUME NEW c \in Call,
             InsertUser(c) \/ CheckUsername(c) \/ WriteUser(c) \/ WritePassword(c) \/ Invalidate(c)
      PROVE  CodesOK'
  <2>1. UNCHANGED <<totp, disturbed>>
    BY <1>4 DEF InsertUser, CheckUsername, WriteUser, WritePassword, Invalidate, table, history
  <2>2. call[c].kind # "login" /\ call[c].kind # "none"
    <3>1. call[c].stage \in {"write", "check", "invalidate"}
      BY <1>4 DEF InsertUser, CheckUsername, WriteUser, WritePassword, Invalidate
    <3>2. call[c] \notin Login /\ call[c] # Fresh
      BY <3>1 DEF Login, Fresh
    <3>3. \A r \in CallRecord : r.kind = "none" => r = Fresh
      BY DEF CallRecord, Login, Creation, Update, Password, SecretChange, Certificates, Deletion
    <3> QED
      BY <1>b, <3>2, <3>3, Kinds
  <2>3. \E stage \in {"write", "invalidate", "done"} :
          Goto(c, stage) /\ (stage # "write" \/ call[c].stage = "check")
    BY <1>4 DEF InsertUser, CheckUsername, WriteUser, WritePassword, Invalidate
  <2> QED
    BY <1>f, <2>1, <2>2, <2>3
<1>5. ASSUME NEW c \in Call, WriteSecret(c) PROVE CodesOK'
  <2> DEFINE u == call[c].user
  <2> DEFINE new == [key |-> c, counter |-> 0]
  <2>1. /\ call[c].kind \in {"create secret", "update secret"} /\ call[c].stage = "write"
        /\ disturbed' = disturbed \cup Counting(u)
    BY <1>5 DEF WriteSecret
  <2>2. u \in User
    BY <1>b, <2>1, Kinds DEF SecretChange
  <2>3. PICK S : /\ totp' = [totp EXCEPT ![u] = S]
                 /\ S \subseteq totp[u] \cup {new}
    BY <1>5 DEF WriteSecret
  <2>4. PICK stage \in {"invalidate", "done"} : Goto(c, stage)
    BY <1>5 DEF WriteSecret
  <2>5. /\ call'[c].kind = call[c].kind /\ call'[c].stage = stage
        /\ \A b \in Call \ {c} : call'[b] = call[b]
    BY <1>e, <2>1, <2>4
  <2>6. c \notin Written /\ c \in Written' /\ call[c].kind # "login" /\ call'[c].kind # "login"
    BY <2>1, <2>5 DEF Written
  <2>7. \A r \in S : r \in totp[u] \/ (r.key = c /\ c \in Written')
    BY <2>3, <2>6
  <2> HIDE DEF u, new
  <2> QED
    BY <2>1, <2>2, <2>3, <2>5, <2>6, <2>7, CodesReplaced
<1>6. ASSUME NEW c \in Call, DeleteRow(c) PROVE CodesOK'
  <2> DEFINE u == call[c].user
  <2>1. call[c].kind = "delete" /\ Goto(c, "done") /\ disturbed' = disturbed \cup Counting(u)
    BY <1>6 DEF DeleteRow
  <2>2. u \in User
    BY <1>b, <2>1, Kinds DEF Deletion
  <2>3. totp' = [totp EXCEPT ![u] = {}]
    BY <1>6 DEF DeleteRow
  <2>4. /\ call'[c].kind = call[c].kind
        /\ \A b \in Call \ {c} : call'[b] = call[b]
    BY <1>e, <2>1
  <2>5. c \notin Written /\ call[c].kind # "login" /\ call'[c].kind # "login"
    BY <2>1, <2>4 DEF Written
  <2> DEFINE S == {}
  <2>6. totp' = [totp EXCEPT ![u] = S] /\ \A r \in S : r \in totp[u]
    BY <2>3
  <2> HIDE DEF u, S
  <2> QED
    BY <2>1, <2>2, <2>4, <2>5, <2>6, CodesReplaced
<1>7. ASSUME UNCHANGED <<totp, disturbed, call>> PROVE CodesOK'
  BY <1>a, <1>7 DEF CodesOK, SecretsKnown, LoginsKnown, CodesUsed, CodesTaken, CodeAcceptedOnce,
                    Written, Accepted, Pending
<1> QED
  BY <1>1, <1>2, <1>3, <1>4, <1>5, <1>6, <1>7
     DEF Next, AdminStep, MFACreateCA, MFADeleteCRL, RestoreCertificates, CreateDevice,
         Tick, table, history, vars

(* No two logins ever succeed with one code of one secret, unless the secrets of  *)
(* the user changed between the read and the update of one of them          *)
(* (MFAAuthenticate, TryToUpdateUserTOTPCounter).                            *)
THEOREM CodesCorrect == Spec => []CodeAcceptedOnce
<1>1. Init => CodesInv
  <2> SUFFICES ASSUME Init PROVE CodesInv
    OBVIOUS
  <2>1. \A c \in Call : call[c].kind = "none"
    BY DEF Init, Fresh
  <2>2. LoginsKnown /\ CodesUsed /\ CodesTaken /\ CodeAcceptedOnce
    BY <2>1 DEF LoginsKnown, CodesUsed, CodesTaken, CodeAcceptedOnce, Accepted
  <2>3. SecretsKnown
    BY DEF Init, SecretsKnown
  <2> QED
    BY <2>2, <2>3, InitTyped DEF CodesInv, CodesOK
<1>2. CodesInv /\ [Next]_vars => CodesInv'
  BY TypedStep, CodesStep DEF CodesInv
<1>3. CodesInv => CodeAcceptedOnce
  BY DEF CodesInv, CodesOK
<1> QED
  BY <1>1, <1>2, <1>3, PTL DEF Spec

-----------------------------------------------------------------------------
(* A session is that of a login of the device's user that has ended. *)
SessionsKnown ==
    \A u \in User : session[u] # None =>
        /\ call[session[u]].kind = "login"
        /\ call[session[u]].stage = "done"
        /\ call[session[u]].user = u

(* The session of u need not be in force: it is excused or about to be cleared. *)
Covered(u) ==
    \/ excuse[session[u]] # "no"
    \/ \E c \in Call : call[c].stage = "invalidate" /\ u \in Concerned(c)

SessionsInv == Typed /\ SessionsKnown /\ SessionFollowsCredentials

(* A session that a step leaves in its device. *)
Kept(u) == session[u] # None /\ session'[u] = session[u]

(* A call that has ended stays as it is, and one about to invalidate does so.  *)
LEMMA CallsMove ==
  ASSUME Typed, [Next]_vars
  PROVE  \A c \in Call :
            /\ call[c].stage = "done" => call'[c] = call[c]
            /\ call[c].stage = "invalidate" => call'[c] = call[c] \/ Invalidate(c)
<1> DEFINE Moves(c) ==
            /\ call[c].stage # "done"
            /\ call[c].stage = "invalidate" => Invalidate(c)
            /\ \A b \in Call \ {c} : call'[b] = call[b]
<1>1. ASSUME NEW c \in Call, NEW r, Begin(c, r) PROVE Moves(c)
  <2>1. call[c].stage = "new"
    BY <1>1 DEF Begin, Fresh
  <2> QED
    BY <1>1, <2>1 DEF Begin, Typed, CallsTyped
<1>2. ASSUME NEW c \in Call, NEW r, call' = [call EXCEPT ![c] = r],
             call[c].stage \notin {"done", "invalidate"}
      PROVE  Moves(c)
  BY <1>2 DEF Typed, CallsTyped
<1>3. ASSUME NEW c \in Call, NEW stage, Goto(c, stage),
             call[c].stage \notin {"done", "invalidate"}
      PROVE  Moves(c)
  BY <1>3, <1>2 DEF Goto
<1>4. ASSUME NEW c \in Call, Invalidate(c) PROVE Moves(c)
  BY <1>4 DEF Invalidate, Goto, Typed, CallsTyped
<1> HIDE DEF Moves
<1>5. ASSUME NEW c \in Call, LoginStep(c) PROVE Moves(c)
  <2>1. ASSUME NEW u \in User, BasicAuth(c, u) PROVE Moves(c)
    BY <2>1, <1>1 DEF BasicAuth, Begin
  <2>2. CASE ReadSecret(c) \/ ReadCRLs(c)
    <3>1. \E r : call' = [call EXCEPT ![c] = r] /\ call[c].stage = "mfa"
      BY <2>2 DEF ReadSecret, ReadCRLs
    <3> QED
      BY <3>1, <1>2
  <2>3. CASE UpdateCounter(c) \/ ReadCAs(c) \/ AssignDeviceSlot(c)
    BY <2>3, <1>3 DEF UpdateCounter, ReadCAs, AssignDeviceSlot
  <2> QED
    BY <1>5, <2>1, <2>2, <2>3 DEF LoginStep
<1>6. ASSUME NEW c \in Call, AdminStep(c) PROVE Moves(c)
  <2>1. CASE \/ \E n \in Name : CreateUser(c, n)
             \/ \E u \in User, n \in Name, m \in MFAType : UpdateUser(c, u, n, m)
             \/ \E u \in User : UpdateUserPassword(c, u)
             \/ \E u \in User, op \in {"create secret", "update secret"} : ChangeSecret(c, u, op)
             \/ MFADeleteCA(c) \/ MFACreateCRL(c)
             \/ \E u \in exists : DeleteUser(c, u)
    <3>1. \E r : Begin(c, r)
      BY <2>1 DEF CreateUser, UpdateUser, UpdateUserPassword, ChangeSecret, MFADeleteCA,
                  MFACreateCRL, RevokeCertificates, DeleteUser
    <3> QED
      BY <3>1, <1>1
  <2>2. CASE InsertUser(c) \/ CheckUsername(c) \/ WriteUser(c) \/ WritePassword(c)
                \/ WriteSecret(c) \/ DeleteRow(c)
    <3>1. /\ call[c].stage \in {"check", "write"}
          /\ \E stage : Goto(c, stage)
      BY <2>2 DEF InsertUser, CheckUsername, WriteUser, WritePassword, WriteSecret, DeleteRow
    <3> QED
      BY <3>1, <1>3
  <2> QED
    BY <1>6, <1>4, <2>1, <2>2 DEF AdminStep
<1>7. CASE UNCHANGED call
  BY <1>7
<1>8. CASE \E c \in Call : Moves(c)
  BY <1>8 DEF Moves
<1> QED
  BY <1>5, <1>6, <1>7, <1>8
     DEF Next, MFACreateCA, MFADeleteCRL, RestoreCertificates, CreateDevice, Tick, vars

(* A session that a step leaves alone stays covered if it was. *)
LEMMA SessionKept ==
  ASSUME SessionsInv, Typed', NEW u \in device', Kept(u), Outdated(session[u]),
         row'[u].mfa = row[u].mfa,
         excuse[session[u]] # "no" => excuse'[session[u]] # "no",
         \A c \in Call : call[c].stage = "invalidate" /\ u \in Concerned(c) => call'[c] = call[c]
  PROVE  Covered(u)'
<1>1. u \in User /\ u \in exists' /\ u \in device
  <2>1. u \in exists' /\ exists' \subseteq 1..inserted' /\ inserted' \in User
    BY DEF Typed, TablesTyped
  <2>2. u \in User
    BY <2>1, UserAssumption DEF User
  <2> QED
    BY <2>1, <2>2 DEF SessionsInv, Typed, TablesTyped, Kept
<1>2. Covered(u)
  BY <1>1 DEF SessionsInv, SessionFollowsCredentials, Covered, Kept
<1>3. CASE excuse[session[u]] # "no"
  BY <1>3 DEF Covered, Kept
<1>4. ASSUME NEW c \in Call, call[c].stage = "invalidate", u \in Concerned(c)
      PROVE  call'[c].stage = "invalidate" /\ u \in Concerned(c)'
  BY <1>1, <1>4 DEF Concerned
<1> QED
  BY <1>2, <1>3, <1>4 DEF Covered

(* A step outdates no login whose user's row and keys it leaves alone, if it   *)
(* does not make certificates worthless.                                     *)
LEMMA NotOutdated ==
  ASSUME NEW c \in Call, call'[c] = call[c], NEW u, call[c].user = u, row'[u] = row[u],
         row[u].mfa = "cert" => (revoked' \/ ~trusted' => revoked \/ ~trusted),
         row[u].mfa = "totp" => \A s \in totp[u] : \E r \in totp'[u] : r.key = s.key,
         Outdated(c)'
  PROVE  Outdated(c)
  BY DEF Outdated

(* Where the sessions of the next state come from. *)
LEMMA SessionsMove ==
  ASSUME Typed, [Next]_vars, NEW u \in User, session'[u] # None
  PROVE  \/ Kept(u)
         \/ \E c \in Call : AssignDeviceSlot(c) /\ u = call[c].user /\ session'[u] = c
<1>1. ASSUME NEW U, Clear(U) PROVE Kept(u)
  BY <1>1 DEF Clear, Kept
<1>2. ASSUME NEW c \in Call, AssignDeviceSlot(c), u # call[c].user PROVE Kept(u)
  BY <1>2 DEF AssignDeviceSlot, Kept, Typed, TablesTyped
<1>3. ASSUME NEW c \in Call, AssignDeviceSlot(c), u = call[c].user PROVE session'[u] = c
  BY <1>3 DEF AssignDeviceSlot, Typed, TablesTyped
<1>4. CASE UNCHANGED session
  BY <1>4 DEF Kept
<1>5. CASE \E c \in Call : AssignDeviceSlot(c)
  BY <1>2, <1>3, <1>5
<1>6. CASE \E U : Clear(U)
  BY <1>1, <1>6
<1>7. ASSUME NEW c \in Call, LoginStep(c)
      PROVE  UNCHANGED session \/ AssignDeviceSlot(c)
  BY <1>7 DEF LoginStep, BasicAuth, ReadSecret, UpdateCounter, ReadCRLs, ReadCAs
<1>8. ASSUME NEW c \in Call, AdminStep(c)
      PROVE  UNCHANGED session \/ \E U : Clear(U)
  BY <1>8 DEF AdminStep, CreateUser, InsertUser, UpdateUser, CheckUsername, WriteUser,
              UpdateUserPassword, WritePassword, ChangeSecret, WriteSecret, MFADeleteCA,
              MFACreateCRL, RevokeCertificates, Invalidate, DeleteUser, DeleteRow
<1> QED
  BY <1>4, <1>5, <1>6, <1>7, <1>8
     DEF Next, MFACreateCA, MFADeleteCRL, RestoreCertificates, CreateDevice, Tick, vars

(* Sessions are of logins that have ended: these do not change. *)
LEMMA SessionsKnownStep ==
  ASSUME SessionsInv, [Next]_vars
  PROVE  SessionsKnown'
<1> SUFFICES ASSUME NEW u \in User, session'[u] # None
             PROVE  /\ call'[session'[u]].kind = "login"
                    /\ call'[session'[u]].stage = "done"
                    /\ call'[session'[u]].user = u
  BY DEF SessionsKnown
<1>1. CASE Kept(u)
  <2>1. session[u] \in Call /\ call[session[u]].stage = "done"
    BY <1>1 DEF Kept, SessionsInv, SessionsKnown, Typed, TablesTyped
  <2>2. call'[session[u]] = call[session[u]]
    BY <2>1, CallsMove DEF SessionsInv
  <2> QED
    BY <1>1, <2>2 DEF Kept, SessionsInv, SessionsKnown
<1>2. ASSUME NEW c \in Call, AssignDeviceSlot(c), u = call[c].user, session'[u] = c
      PROVE  call'[c].kind = "login" /\ call'[c].stage = "done" /\ call'[c].user = u
  <2>1. call[c] \in Login
    BY <1>2, Kinds DEF AssignDeviceSlot, SessionsInv, Typed, CallsTyped
  <2>2. call'[c] = [call[c] EXCEPT !.stage = "done"]
    BY <1>2 DEF AssignDeviceSlot, Goto, SessionsInv, Typed, CallsTyped
  <2> QED
    BY <1>2, <2>1, <2>2 DEF Login
<1> QED
  BY <1>1, <1>2, SessionsMove DEF SessionsInv

(* An excuse is never taken back. *)
LEMMA Excused ==
  ASSUME NEW C, NEW cause, cause # "no", Excuse(C, cause), NEW c \in Call
  PROVE  (excuse[c] # "no" \/ c \in C) => excuse'[c] # "no"
  BY DEF Excuse

(* A step that leaves a session and what it relies on alone keeps it covered.   *)
LEMMA SessionQuiet ==
  ASSUME SessionsInv, Typed', [Next]_vars, NEW u \in device', Kept(u), Outdated(session[u])',
         row'[u] = row[u],
         row[u].mfa = "cert" => (revoked' \/ ~trusted' => revoked \/ ~trusted),
         row[u].mfa = "totp" => \A s \in totp[u] : \E r \in totp'[u] : r.key = s.key,
         \A c \in Call : excuse[c] # "no" => excuse'[c] # "no",
         \A c \in Call : call[c].stage = "invalidate" /\ u \in Concerned(c) => call'[c] = call[c]
  PROVE  Covered(u)'
<1>1. u \in User
  <2>1. u \in exists' /\ exists' \subseteq 1..inserted' /\ inserted' \in User
    BY DEF Typed, TablesTyped
  <2> QED
    BY <2>1, UserAssumption DEF User
<1>2. PICK l \in Call : l = session[u] /\ l = session'[u]
  BY <1>1 DEF Kept, SessionsInv, Typed, TablesTyped
<1>3. call[l].user = u /\ call[l].stage = "done"
  BY <1>1, <1>2 DEF Kept, SessionsInv, SessionsKnown
<1>4. call'[l] = call[l]
  BY <1>3, CallsMove DEF SessionsInv
<1>5. Outdated(l)'
  BY <1>2 DEF Outdated
<1>6. Outdated(l)
  BY <1>3, <1>4, <1>5, NotOutdated
<1>7. Outdated(session[u])
  BY <1>2, <1>6
<1>8. excuse[session[u]] # "no" => excuse'[session[u]] # "no"
  BY <1>2
<1> QED
  BY <1>7, <1>8, SessionKept

(* Every step leaves each session in force, excused or about to be cleared. *)
LEMMA SessionsStep ==
  ASSUME SessionsInv, Typed', [Next]_vars
  PROVE  SessionFollowsCredentials'
<1> SUFFICES ASSUME NEW u \in device', session'[u] # None, Outdated(session[u])'
             PROVE  Covered(u)'
  BY DEF SessionFollowsCredentials, Covered
<1>a. u \in User /\ Typed
  <2>1. u \in exists' /\ exists' \subseteq 1..inserted' /\ inserted' \in User
    BY DEF Typed, TablesTyped
  <2> QED
    BY <2>1, UserAssumption DEF User, SessionsInv
<1>b. Kept(u) => u \in device /\ u \in exists
  BY <1>a DEF Kept, Typed, TablesTyped
<1>c. \A c \in Call : call[c] \in CallRecord
  BY <1>a DEF Typed, CallsTyped
<1> DEFINE Waiting == \A b \in Call : call[b].stage = "invalidate" => call'[b] = call[b]
<1>d. ASSUME UNCHANGED <<row, totp, trusted, revoked, excuse>>, Kept(u), Waiting
      PROVE  Covered(u)'
  BY <1>d, SessionQuiet
<1>e. ASSUME NEW c \in Call, NEW r, call' = [call EXCEPT ![c] = r], call[c].stage # "invalidate"
      PROVE  Waiting /\ call'[c] = r
  BY <1>a, <1>e DEF Typed, CallsTyped
<1>f. ASSUME NEW c \in Call, NEW r, Begin(c, r) PROVE Waiting /\ call'[c] = r
  <2>1. call[c].stage # "invalidate"
    BY <1>f DEF Begin, Fresh
  <2> QED
    BY <2>1, <1>e, <1>f DEF Begin
<1>g. ASSUME NEW c \in Call, NEW stage, Goto(c, stage), call[c].stage # "invalidate"
      PROVE  Waiting /\ call'[c] = [call[c] EXCEPT !.stage = stage]
  BY <1>e, <1>g DEF Goto
<1>h. ASSUME NEW c \in Call, call'[c].stage = "invalidate", u \in Concerned(c)'
      PROVE  Covered(u)'
  BY <1>h DEF Covered
<1>i. UNCHANGED session => Kept(u)
  BY DEF Kept
<1> HIDE DEF Waiting
<1>1. ASSUME NEW c \in Call, LoginStep(c) PROVE Covered(u)'
  <2>1. CASE (\E v \in User : BasicAuth(c, v)) \/ ReadSecret(c) \/ ReadCRLs(c)
    <3>1. Waiting
      <4>1. ASSUME NEW v \in User, BasicAuth(c, v) PROVE \E req : Begin(c, req)
        <5> DEFINE r == [kind |-> "login", stage |-> IF row[v].mfa = "none" THEN "slot" ELSE "mfa",
                         user |-> v, row |-> row[v], how |-> "none", key |-> None, code |-> 0]
        <5>1. Begin(c, r)
          BY <4>1 DEF BasicAuth, Begin
        <5> QED
          BY <5>1
      <4>2. ASSUME ReadSecret(c) \/ ReadCRLs(c)
            PROVE  call[c].stage # "invalidate" /\ \E r : call' = [call EXCEPT ![c] = r]
        BY <4>2 DEF ReadSecret, ReadCRLs
      <4> QED
        BY <2>1, <4>1, <4>2, <1>e, <1>f
    <3>2. UNCHANGED <<row, totp, trusted, revoked, excuse, session>>
      BY <2>1 DEF BasicAuth, ReadSecret, ReadCRLs, table, history
    <3> QED
      BY <3>1, <3>2, <1>d, <1>i
  <2>2. CASE ReadCAs(c)
    BY <2>2, <1>d, <1>g, <1>i DEF ReadCAs, table, history
  <2>3. CASE UpdateCounter(c)
    <3>1. call[c] \in Login
      BY <1>c, <2>3, Kinds DEF UpdateCounter
    <3>2. call[c].user \in User /\ call[c].code \in 0..MaxClock + 1
      BY <3>1, ClockAssumption DEF Login, Counter
    <3>3. \A s \in totp[u] : \E r \in totp'[u] : r.key = s.key
      BY <1>a, <2>3, <3>2, CounterRaised DEF UpdateCounter, Typed, TablesTyped
    <3>4. UNCHANGED <<row, trusted, revoked, excuse, session>> /\ Waiting
      BY <2>3, <1>g DEF UpdateCounter, history
    <3> QED
      BY <3>3, <3>4, <1>i, SessionQuiet DEF Waiting
  <2>4. CASE AssignDeviceSlot(c)
    <3>1. UNCHANGED <<row, totp, trusted, revoked>> /\ Waiting
      BY <2>4, <1>g DEF AssignDeviceSlot, table
    <3>2. PICK C : Excuse(C, "late") /\ (Outdated(c) => c \in C)
      BY <2>4 DEF AssignDeviceSlot
    <3>3. \A b \in Call : excuse[b] # "no" \/ b \in C => excuse'[b] # "no"
      BY <3>2, Excused
    <3>4. CASE Kept(u)
      BY <3>1, <3>3, <3>4, SessionQuiet DEF Waiting
    <3>5. CASE u = call[c].user /\ session'[u] = c
      <4>1. call[c] \in Login
        BY <1>c, <2>4, Kinds DEF AssignDeviceSlot
      <4>2. call'[c] = [call[c] EXCEPT !.stage = "done"]
        BY <2>4, <1>g DEF AssignDeviceSlot
      <4>3. /\ call'[c].user = call[c].user /\ call'[c].row = call[c].row
            /\ call'[c].how = call[c].how /\ call'[c].key = call[c].key
        BY <4>1, <4>2 DEF Login
      <4>4. Outdated(c)'
        BY <3>5 DEF Outdated
      <4>5. Outdated(c)
        BY <4>3, <4>4, <3>1 DEF Outdated
      <4> QED
        BY <3>2, <3>3, <3>5, <4>5 DEF Covered
    <3>6. Kept(u) \/ (u = call[c].user /\ session'[u] = c)
      BY <1>a, <2>4 DEF AssignDeviceSlot, Kept, Typed, TablesTyped
    <3> QED
      BY <3>4, <3>5, <3>6
  <2> QED
    BY <1>1, <2>1, <2>2, <2>3, <2>4 DEF LoginStep
<1>2. ASSUME NEW c \in Call,
             \/ \E n \in Name : CreateUser(c, n)
             \/ \E v \in User, n \in Name, m \in MFAType : UpdateUser(c, v, n, m)
             \/ \E v \in User : UpdateUserPassword(c, v)
             \/ \E v \in User, op \in {"create secret", "update secret"} : ChangeSecret(c, v, op)
      PROVE  Covered(u)'
  <2>1. \E r : Begin(c, r)
    BY <1>2 DEF CreateUser, UpdateUser, UpdateUserPassword, ChangeSecret
  <2>2. UNCHANGED <<row, totp, trusted, revoked, excuse, session>>
    BY <1>2 DEF CreateUser, UpdateUser, UpdateUserPassword, ChangeSecret, table, history
  <2> QED
    BY <2>1, <2>2, <1>d, <1>f, <1>i
<1>3. ASSUME NEW c \in Call, CheckUsername(c) PROVE Covered(u)'
  BY <1>3, <1>d, <1>g, <1>i DEF CheckUsername, table
<1>4. ASSUME NEW c \in Call, InsertUser(c) PROVE Covered(u)'
  <2>1. Kept(u) /\ UNCHANGED <<totp, trusted, revoked, excuse>> /\ Waiting
    BY <1>4, <1>g, <1>i DEF InsertUser, history
  <2>2. row'[u] = row[u]
    <3>1. u # inserted + 1
      BY <1>a, <1>b, <2>1, UserAssumption DEF Typed, TablesTyped, User
    <3> QED
      BY <1>4, <1>a, <3>1 DEF InsertUser, Typed, TablesTyped
  <2> QED
    BY <2>1, <2>2, SessionQuiet DEF Waiting
<1>5. ASSUME NEW c \in Call, NEW v \in exists, DeleteUser(c, v) PROVE Covered(u)'
  <2>1. /\ UNCHANGED <<row, totp, trusted, revoked, excuse>>
        /\ \E r : Begin(c, r)
    BY <1>5 DEF DeleteUser, history
  <2>2. Kept(u)
    BY <1>5, <1>a DEF DeleteUser, Clear, Kept
  <2> QED
    BY <2>1, <2>2, <1>d, <1>f
<1>6. ASSUME NEW c \in Call, DeleteRow(c) PROVE Covered(u)'
  <2>1. Kept(u) /\ u # call[c].user
    BY <1>6, <1>a DEF DeleteRow, Clear, Kept
  <2>2. totp'[u] = totp[u]
    BY <1>6, <1>a, <2>1 DEF DeleteRow, Typed, TablesTyped
  <2>3. UNCHANGED <<row, trusted, revoked, excuse>> /\ Waiting
    BY <1>6, <1>g DEF DeleteRow
  <2> QED
    BY <2>1, <2>2, <2>3, SessionQuiet DEF Waiting
<1>7. ASSUME NEW c \in Call, Invalidate(c) PROVE Covered(u)'
  <2>1. /\ UNCHANGED <<row, totp, trusted, revoked>>
        /\ \A b \in Call \ {c} : call'[b] = call[b]
    BY <1>7, <1>a DEF Invalidate, table, Goto, Typed, CallsTyped
  <2>2. CASE Clear(Concerned(c)) /\ UNCHANGED excuse
    <3>1. Kept(u) /\ u \notin Concerned(c)
      BY <1>a, <2>2 DEF Clear, Kept
    <3> QED
      BY <2>1, <2>2, <3>1, SessionQuiet
  <2>3. CASE Excuse(Sessions(Concerned(c)), "failed") /\ UNCHANGED session
    <3>1. \A b \in Call : excuse[b] # "no" \/ b \in Sessions(Concerned(c)) => excuse'[b] # "no"
      BY <2>3, Excused
    <3>2. CASE u \in Concerned(c)
      <4>1. session'[u] \in Sessions(Concerned(c)) /\ session'[u] \in Call
        BY <1>a, <2>3, <3>2 DEF Sessions, Typed, TablesTyped
      <4> QED
        BY <3>1, <4>1 DEF Covered
    <3>3. CASE u \notin Concerned(c)
      BY <1>i, <2>1, <2>3, <3>1, <3>3, SessionQuiet
    <3> QED
      BY <3>2, <3>3
  <2> QED
    BY <1>7, <2>2, <2>3 DEF Invalidate
<1>8. CASE MFACreateCA \/ MFADeleteCRL
  <2>1. /\ UNCHANGED <<row, totp, excuse, session, call>>
        /\ revoked' \/ ~trusted' => revoked \/ ~trusted
    BY <1>8 DEF MFACreateCA, MFADeleteCRL, RestoreCertificates, history
  <2> QED
    BY <1>i, <2>1, SessionQuiet
<1>9. ASSUME UNCHANGED <<row, totp, trusted, revoked, excuse, session, call>> PROVE Covered(u)'
  BY <1>9, <1>d, <1>i DEF Waiting
<1>10. ASSUME NEW c \in Call, WriteUser(c) PROVE Covered(u)'
  <2>1. call[c] \in Update
    BY <1>c, <1>10, Kinds DEF WriteUser
  <2> DEFINE v == call[c].user
  <2> DEFINE old == call[c].old
  <2> DEFINE new == [row[v] EXCEPT !.name = call[c].name, !.mfa = call[c].mfa]
  <2> DEFINE stale == row[v].name # old.name \/ row[v].mfa # old.mfa
  <2>2. PICK stage \in {"done", "invalidate"} :
          Goto(c, stage) /\ (stage = "done" => new.name = old.name /\ new.mfa = old.mfa)
    BY <1>10 DEF WriteUser
  <2>3. /\ Waiting /\ call'[c].stage = stage /\ call'[c].user = v
        /\ call'[c].kind = "update"
    <3>1. Waiting /\ call'[c] = [call[c] EXCEPT !.stage = stage]
      BY <1>10, <1>g, <2>2 DEF WriteUser
    <3> QED
      BY <2>1, <3>1 DEF Update
  <2>4. row' = [row EXCEPT ![v] = new] /\ UNCHANGED <<totp, trusted, revoked, session>>
    BY <1>10 DEF WriteUser
  <2>5. PICK C : Excuse(C, "overlap") /\ (stale => C = Sessions({v}))
    BY <1>10 DEF WriteUser
  <2>6. \A b \in Call : excuse[b] # "no" \/ b \in C => excuse'[b] # "no"
    BY <2>5, Excused
  <2>7. CASE u # v
    <3>1. row'[u] = row[u]
      BY <1>a, <2>4, <2>7 DEF Typed, TablesTyped
    <3> QED
      BY <1>i, <2>3, <2>4, <2>6, <3>1, SessionQuiet DEF Waiting
  <2>8. CASE u = v /\ stale
    <3>1. session'[u] \in C /\ session'[u] \in Call
      BY <1>a, <2>4, <2>5, <2>8 DEF Sessions, Typed, TablesTyped
    <3> QED
      BY <2>6, <3>1 DEF Covered
  <2>9. CASE u = v /\ ~stale /\ stage = "done"
    <3>1. row[u] \in Row /\ row'[u] = new /\ new.name = row[u].name /\ new.mfa = row[u].mfa
      BY <1>a, <2>2, <2>4, <2>9 DEF Typed, TablesTyped
    <3>2. row'[u] = row[u]
      <4>1. \A r \in Row : \A n, m : n = r.name /\ m = r.mfa => [r EXCEPT !.name = n, !.mfa = m] = r
        BY DEF Row
      <4>2. new.name = call[c].name /\ new.mfa = call[c].mfa
        BY <3>1, <2>9 DEF Row
      <4>3. [row[u] EXCEPT !.name = call[c].name, !.mfa = call[c].mfa] = row[u]
        BY <3>1, <4>1, <4>2
      <4>4. new = [row[u] EXCEPT !.name = call[c].name, !.mfa = call[c].mfa]
        BY <2>9
      <4> HIDE DEF new
      <4> QED
        BY <3>1, <4>3, <4>4
    <3> QED
      BY <1>i, <2>3, <2>4, <2>6, <3>2, SessionQuiet DEF Waiting
  <2>10. CASE u = v /\ stage = "invalidate"
    BY <1>h, <2>3, <2>10 DEF Concerned
  <2> QED
    BY <2>2, <2>7, <2>8, <2>9, <2>10
<1>11. ASSUME NEW c \in Call, WritePassword(c) PROVE Covered(u)'
  <2>1. call[c] \in Password
    BY <1>c, <1>11, Kinds DEF WritePassword
  <2>2. Waiting /\ call'[c] = [call[c] EXCEPT !.stage = "invalidate"]
    BY <1>11, <1>g DEF WritePassword
  <2>3. CASE u = call[c].user
    BY <1>h, <2>1, <2>2, <2>3 DEF Concerned, Password
  <2>4. CASE u # call[c].user
    <3>1. row'[u] = row[u] /\ UNCHANGED <<totp, trusted, revoked, session, excuse>>
      BY <1>11, <1>a, <2>4 DEF WritePassword, history, Typed, TablesTyped
    <3> QED
      BY <1>i, <2>2, <3>1, SessionQuiet DEF Waiting
  <2> QED
    BY <2>3, <2>4
<1>12. ASSUME NEW c \in Call, WriteSecret(c) PROVE Covered(u)'
  <2>1. call[c] \in SecretChange
    BY <1>c, <1>12, Kinds DEF WriteSecret
  <2> DEFINE v == call[c].user
  <2>2. PICK stage \in {"done", "invalidate"} :
          Goto(c, stage) /\ (call[c].old.mfa = "totp" => stage = "invalidate")
    BY <1>12 DEF WriteSecret
  <2>3. /\ Waiting /\ call'[c].stage = stage /\ call'[c].user = v
        /\ call'[c].kind # "certificates"
    <3>1. Waiting /\ call'[c] = [call[c] EXCEPT !.stage = stage]
      BY <1>12, <1>g, <2>2 DEF WriteSecret
    <3> QED
      BY <2>1, <3>1 DEF SecretChange
  <2>4. UNCHANGED <<row, trusted, revoked, session>>
    BY <1>12 DEF WriteSecret
  <2>5. PICK C : Excuse(C, "overlap") /\ (row[v].mfa # call[c].old.mfa => C = Sessions({v}))
    BY <1>12 DEF WriteSecret
  <2>6. \A b \in Call : excuse[b] # "no" \/ b \in C => excuse'[b] # "no"
    BY <2>5, Excused
  <2>7. CASE u # v
    <3>1. totp'[u] = totp[u]
      BY <1>12, <1>a, <2>7 DEF WriteSecret, Typed, TablesTyped
    <3> QED
      BY <1>i, <2>3, <2>4, <2>6, <3>1, SessionQuiet DEF Waiting
  <2>8. CASE u = v /\ stage = "invalidate"
    BY <1>h, <2>3, <2>8 DEF Concerned
  <2>9. CASE u = v /\ row[v].mfa # call[c].old.mfa
    <3>1. session'[u] \in C /\ session'[u] \in Call
      BY <1>a, <2>4, <2>5, <2>9 DEF Sessions, Typed, TablesTyped
    <3> QED
      BY <2>6, <3>1 DEF Covered
  <2>10. CASE u = v /\ row[v].mfa = call[c].old.mfa /\ stage = "done"
    <3>1. row[u].mfa # "totp"
      BY <2>2, <2>10
    <3> QED
      BY <1>i, <2>3, <2>4, <2>6, <3>1, SessionQuiet DEF Waiting
  <2> QED
    BY <2>2, <2>7, <2>8, <2>9, <2>10
<1>13. ASSUME NEW c \in Call, MFADeleteCA(c) \/ MFACreateCRL(c) PROVE Covered(u)'
  <2>1. /\ UNCHANGED <<exists, row, totp, session, excuse>>
        /\ Begin(c, [kind |-> "certificates", stage |-> "invalidate"])
    BY <1>13 DEF MFADeleteCA, MFACreateCRL, RevokeCertificates, history
  <2>2. Waiting /\ call'[c] = [kind |-> "certificates", stage |-> "invalidate"]
    BY <1>f, <2>1
  <2>3. CASE row[u].mfa = "cert"
    BY <1>b, <1>h, <1>i, <2>1, <2>2, <2>3 DEF Concerned
  <2>4. CASE row[u].mfa # "cert"
    BY <1>i, <2>1, <2>2, <2>4, SessionQuiet DEF Waiting
  <2> QED
    BY <2>3, <2>4
<1> QED
  BY <1>1, <1>2, <1>3, <1>4, <1>5, <1>6, <1>7, <1>8, <1>9, <1>10, <1>11,
     <1>12, <1>13 DEF Next, AdminStep, CreateDevice, Tick, table, history, vars

(* A client's session is only ever outdated by the name, password, MFA type,      *)
(* secret or certificates now in force if a call is about to clear it, its  *)
(* login stored it after the change, or the clearing failed or was of an    *)
(* outdated row (AssignDeviceSlot, DeleteInvalidSessionsByUser).             *)
THEOREM SessionsCorrect == Spec => []SessionFollowsCredentials
<1>1. Init => SessionsInv
  <2> SUFFICES ASSUME Init PROVE SessionsInv
    OBVIOUS
  <2>1. \A u \in User : session[u] = None
    BY DEF Init
  <2>2. device \subseteq User
    BY UserAssumption DEF Init, User
  <2> QED
    BY <2>1, <2>2, InitTyped DEF SessionsInv, SessionsKnown, SessionFollowsCredentials
<1>2. SessionsInv /\ [Next]_vars => SessionsInv'
  BY TypedStep, SessionsKnownStep, SessionsStep DEF SessionsInv
<1>3. SessionsInv => SessionFollowsCredentials
  BY DEF SessionsInv
<1> QED
  BY <1>1, <1>2, <1>3, PTL DEF Spec
=============================================================================
