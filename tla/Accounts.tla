------------------------------ MODULE Accounts ------------------------------
(***************************************************************************)
(* Users and how their clients log in.  A client's GetConfiguration passes  *)
(* the interceptors BasicAuth and MfaAuth and then stores a session in the  *)
(* device of the user (which device is the subject of DeviceSlots); each of *)
(* these reads the database in a statement of its own.  Meanwhile the REST  *)
(* API creates, changes and deletes users, their passwords, TOTP secrets    *)
(* and the MFA certificates, again in several statements, and invalidates   *)
(* the sessions that a change concerns in the last one.                     *)
(* The username stands for the notification text too, which is compared and *)
(* stored with it.  Users of LDAP and the limit of the licence, which this  *)
(* edition does not have, are left out.                                     *)
(***************************************************************************)
EXTENDS Naturals, FiniteSets

CONSTANTS
    Call,         \* calls of clients and administrators, each made at most once
    Name,         \* usernames
    First,        \* the name of the user that exists from the start
    MaxUser,      \* bound on the users ever inserted
    MaxClock,     \* bound on the periods of 30 seconds that pass
    None

User == 1..MaxUser
Counter == 1..MaxClock + 1
MFAType == {"none", "totp", "cert"}
Version == Call \cup {None}       \* a password or key by the call that set it
Cause == {"no", "late", "failed", "overlap"}

ASSUME FirstAssumption == First \in Name
ASSUME UserAssumption == MaxUser \in Nat \ {0}
ASSUME ClockAssumption == MaxClock \in Nat \ {0}
ASSUME NoCallAssumption == None \notin Call

VARIABLES
    exists,       \* the ids in the users table
    inserted,     \* the ids given so far
    row,          \* row[u]: name, password and MFA type of user u
    totp,         \* totp[u]: the rows of the totp table for u
    trusted,      \* whether the CA of the users' certificates is stored
    revoked,      \* whether a stored CRL revokes them
    device,       \* users that have a device
    session,      \* session[u]: the login whose session is in the device of u
    clock,        \* the TOTP counter of the current time
    call,         \* call[c]: how far a call has got and what it has read
    disturbed,    \* history: logins whose user's secrets changed before their update
    excuse,       \* history: why the session of a login may be outdated
    raced         \* history: names checked by two calls at a time or written back

table == <<exists, inserted, row, totp, trusted, revoked, device>>
history == <<disturbed, excuse, raced>>
vars == <<table, session, clock, call, history>>

Row == [name : Name, password : Version, mfa : MFAType]
Secret == [key : Version, counter : 0..MaxClock + 1]
Fresh == [kind |-> "none", stage |-> "new"]
Stage == {"new", "mfa", "ca", "count", "slot", "check", "write", "invalidate", "done"}

TypeOK ==
    /\ exists \subseteq 1..inserted
    /\ inserted \in User
    /\ row \in [User -> Row]
    /\ totp \in [User -> SUBSET Secret]
    /\ trusted \in BOOLEAN
    /\ revoked \in BOOLEAN
    /\ device \subseteq exists
    /\ session \in [User -> Call \cup {None}]
    /\ \A u \in User \ device : session[u] = None
    /\ clock \in 1..MaxClock
    /\ \A c \in Call :
        /\ call[c].stage \in Stage
        /\ call[c].kind = "login" =>
            /\ call[c].user \in User
            /\ call[c].row \in Row
            /\ call[c].how \in MFAType
            /\ call[c].key \in Version
            /\ call[c].code \in Counter \cup {0}
    /\ disturbed \subseteq Call
    /\ excuse \in [Call -> Cause]
    /\ raced \subseteq Name

Init ==
    /\ exists = {1}
    /\ inserted = 1
    /\ \E m \in MFAType :
        row = [u \in User |-> [name |-> First, password |-> None, mfa |-> m]]
    /\ \E S \in {{}, {[key |-> None, counter |-> 0]}} :
        totp = [u \in User |-> IF u = 1 THEN S ELSE {}]
    /\ trusted = TRUE
    /\ revoked = FALSE
    /\ device = {1}
    /\ session = [u \in User |-> None]
    /\ clock = 1
    /\ call = [c \in Call |-> Fresh]
    /\ disturbed = {}
    /\ excuse = [c \in Call |-> "no"]
    /\ raced = {}

-----------------------------------------------------------------------------
(* Statements and what they return. *)

Goto(c, stage) == call' = [call EXCEPT ![c].stage = stage]

(* CheckUsernameExists. *)
NameExists(n) == \E u \in exists : row[u].name = n

(* The rows that TryToUpdateUserTOTPCounter changes. *)
Older(u, code) == {r \in totp[u] : r.counter < code}

(* Logins that have read a secret of u and not updated its counter yet. *)
Counting(u) ==
    {c \in Call : call[c].kind = "login" /\ call[c].stage = "count" /\ call[c].user = u}

(* What a login relied on is not in the database any more. *)
Outdated(c) ==
    LET l == call[c]
        now == row[l.user] IN
    \/ now # l.row
    \/ now.mfa = "totp" /\ l.how = "totp" /\ l.key \notin {r.key : r \in totp[l.user]}
    \/ now.mfa = "cert" /\ l.how = "cert" /\ (revoked \/ ~trusted)

Sessions(U) == {session[u] : u \in U} \ {None}

Clear(U) == session' = [u \in User |-> IF u \in U THEN None ELSE session[u]]

(* A session that outlives a change, for the given cause. *)
Excuse(C, cause) ==
    excuse' = [c \in Call |-> IF c \in C /\ excuse[c] = "no" THEN cause ELSE excuse[c]]

-----------------------------------------------------------------------------
(* A client logs in. *)

(* The client knows the name and the password of the user.  The MFA type read *)
(* here decides whether a second factor is asked for, its kind is the client's *)
(* choice (MfaAuth).                                                         *)
GetUserByNameAndPassword(u) == u \in exists

BasicAuth(c, u) ==
    /\ call[c] = Fresh
    /\ GetUserByNameAndPassword(u)
    /\ call' = [call EXCEPT ![c] =
        [kind |-> "login", stage |-> IF row[u].mfa = "none" THEN "slot" ELSE "mfa",
         user |-> u, row |-> row[u], how |-> "none", key |-> None, code |-> 0]]
    /\ UNCHANGED <<table, session, clock, history>>

(* A code fits in the previous, this or the next period, if it is later than  *)
(* the last that was used.                                                   *)
Authenticate(r) == {code \in Counter : code \in {clock - 1, clock, clock + 1} /\ code > r.counter}

(* GetUserTOTP returns any row of the user. *)
ReadSecret(c) ==
    /\ call[c].stage = "mfa"
    /\ \E r \in totp[call[c].user] : \E code \in Authenticate(r) :
        call' = [call EXCEPT ![c].stage = "count", ![c].how = "totp",
                             ![c].key = r.key, ![c].code = code]
    /\ UNCHANGED <<table, session, clock, history>>

(* Variant: UpdateUserTOTPCounterUnsafe. *)
UpdateCounterUnsafe(c) ==
    /\ call[c].stage = "count"
    /\ LET u == call[c].user IN
        totp' = [totp EXCEPT ![u] = {[r EXCEPT !.counter = call[c].code] : r \in totp[u]}]
    /\ Goto(c, "slot")
    /\ UNCHANGED <<exists, inserted, row, trusted, revoked, device, session, clock, history>>

(* TryToUpdateUserTOTPCounter: no row means that the code was used meanwhile. *)
UpdateCounter(c) ==
    /\ call[c].stage = "count"
    /\ LET u == call[c].user
           code == call[c].code IN
        /\ Older(u, code) # {}
        /\ totp' = [totp EXCEPT ![u] =
            (totp[u] \ Older(u, code)) \cup {[r EXCEPT !.counter = code] : r \in Older(u, code)}]
    /\ Goto(c, "slot")
    /\ UNCHANGED <<exists, inserted, row, trusted, revoked, device, session, clock, history>>

(* A certificate is checked with the CRLs read first and the CAs read next. *)
ReadCRLs(c) ==
    /\ call[c].stage = "mfa"
    /\ ~revoked
    /\ call' = [call EXCEPT ![c].stage = "ca", ![c].how = "cert"]
    /\ UNCHANGED <<table, session, clock, history>>

ReadCAs(c) ==
    /\ call[c].stage = "ca"
    /\ trusted
    /\ Goto(c, "slot")
    /\ UNCHANGED <<table, session, clock, history>>

AssignDeviceSlot(c) ==
    /\ call[c].stage = "slot"
    /\ LET u == call[c].user IN
        /\ u \in device
        /\ session' = [session EXCEPT ![u] = c]
    /\ Excuse(IF Outdated(c) THEN {c} ELSE {}, "late")
    /\ Goto(c, "done")
    /\ UNCHANGED <<table, clock, disturbed, raced>>

-----------------------------------------------------------------------------
(* An administrator changes a user.  A call that is refused ends there. *)

Begin(c, request) ==
    /\ call[c] = Fresh
    /\ call' = [call EXCEPT ![c] = request]

(* A name is about to be written by c: is another call about to write it? *)
Race(c, n) ==
    raced' = IF \E x \in Call \ {c} :
                   /\ call[x].stage = "write"
                   /\ call[x].kind \in {"create", "update"}
                   /\ call[x].name = n
             THEN raced \cup {n} ELSE raced

CreateUser(c, n) ==
    /\ ~NameExists(n)
    /\ Begin(c, [kind |-> "create", stage |-> "write", name |-> n])
    /\ Race(c, n)
    /\ UNCHANGED <<table, session, clock, disturbed, excuse>>

InsertUser(c) ==
    /\ call[c].kind = "create"
    /\ call[c].stage = "write"
    /\ inserted < MaxUser
    /\ inserted' = inserted + 1
    /\ exists' = exists \cup {inserted + 1}
    /\ \E m \in MFAType :
        row' = [row EXCEPT ![inserted + 1] =
            [name |-> call[c].name, password |-> c, mfa |-> m]]
    /\ Goto(c, "done")
    /\ UNCHANGED <<totp, trusted, revoked, device, session, clock, history>>

UpdateUser(c, u, n, m) ==
    /\ u \in exists
    /\ Begin(c, [kind |-> "update", stage |-> IF n = row[u].name THEN "write" ELSE "check",
                 user |-> u, name |-> n, mfa |-> m, old |-> row[u]])
    /\ UNCHANGED <<table, session, clock, history>>

(* Variant: the name is not checked. *)
SkipCheckUsername(c) ==
    /\ call[c].stage = "check"
    /\ Goto(c, "write")
    /\ Race(c, call[c].name)
    /\ UNCHANGED <<table, session, clock, disturbed, excuse>>

CheckUsername(c) ==
    /\ call[c].stage = "check"
    /\ ~NameExists(call[c].name)
    /\ Goto(c, "write")
    /\ Race(c, call[c].name)
    /\ UNCHANGED <<table, session, clock, disturbed, excuse>>

(* DeleteInvalidSessionsByUser compares what was read with what is written:   *)
(* if the row has changed meanwhile that need not be what changes.          *)
WriteUser(c) ==
    /\ call[c].kind = "update"
    /\ call[c].stage = "write"
    /\ LET u == call[c].user
           old == call[c].old
           new == [row[u] EXCEPT !.name = call[c].name, !.mfa = call[c].mfa]
           stale == row[u].name # old.name \/ row[u].mfa # old.mfa IN
        /\ u \in exists
        /\ row' = [row EXCEPT ![u] = new]
        /\ Goto(c, IF new.name = old.name /\ new.mfa = old.mfa THEN "done" ELSE "invalidate")
        /\ Excuse(IF stale THEN Sessions({u}) ELSE {}, "overlap")
        /\ raced' = IF stale THEN raced \cup {new.name} ELSE raced
    /\ UNCHANGED <<exists, inserted, totp, trusted, revoked, device, session, clock, disturbed>>

UpdateUserPassword(c, u) ==
    /\ u \in exists
    /\ Begin(c, [kind |-> "password", stage |-> "write", user |-> u])
    /\ UNCHANGED <<table, session, clock, history>>

(* Variant: the sessions are left as they are. *)
WritePasswordOnly(c) ==
    /\ call[c].kind = "password"
    /\ call[c].stage = "write"
    /\ call[c].user \in exists
    /\ row' = [row EXCEPT ![call[c].user].password = c]
    /\ Goto(c, "done")
    /\ UNCHANGED <<exists, inserted, totp, trusted, revoked, device, session, clock, history>>

WritePassword(c) ==
    /\ call[c].kind = "password"
    /\ call[c].stage = "write"
    /\ call[c].user \in exists
    /\ row' = [row EXCEPT ![call[c].user].password = c]
    /\ Goto(c, "invalidate")
    /\ UNCHANGED <<exists, inserted, totp, trusted, revoked, device, session, clock, history>>

(* MFACreateTOTPSecret and MFAUpdateTOTPSecret read the user first. *)
ChangeSecret(c, u, op) ==
    /\ u \in exists
    /\ Begin(c, [kind |-> op, stage |-> "write", user |-> u, old |-> row[u]])
    /\ UNCHANGED <<table, session, clock, history>>

(* Creation adds a row to those there are; an update changes them all.  The   *)
(* sessions are invalidated if the user that was read uses TOTP.             *)
WriteSecret(c) ==
    /\ call[c].kind \in {"create secret", "update secret"}
    /\ call[c].stage = "write"
    /\ LET u == call[c].user
           new == [key |-> c, counter |-> 0] IN
        /\ u \in exists
        /\ \/ /\ call[c].kind = "create secret"
              /\ totp' = [totp EXCEPT ![u] = @ \cup {new}]
           \/ /\ call[c].kind = "update secret"
              /\ totp[u] # {}
              /\ totp' = [totp EXCEPT ![u] = {new}]
        /\ disturbed' = disturbed \cup Counting(u)
        /\ Goto(c, IF call[c].old.mfa = "totp" THEN "invalidate" ELSE "done")
        /\ Excuse(IF row[u].mfa # call[c].old.mfa THEN Sessions({u}) ELSE {}, "overlap")
    /\ UNCHANGED <<exists, inserted, row, trusted, revoked, device, session, clock, raced>>

RevokeCertificates(c) ==
    /\ Begin(c, [kind |-> "certificates", stage |-> "invalidate"])
    /\ UNCHANGED <<exists, inserted, row, totp, device, session, clock, history>>

MFADeleteCA(c) == trusted /\ trusted' = FALSE /\ UNCHANGED revoked /\ RevokeCertificates(c)

MFACreateCRL(c) == ~revoked /\ revoked' = TRUE /\ UNCHANGED trusted /\ RevokeCertificates(c)

(* These two invalidate nothing. *)
RestoreCertificates ==
    UNCHANGED <<exists, inserted, row, totp, device, session, clock, call, history>>

MFACreateCA == ~trusted /\ trusted' = TRUE /\ UNCHANGED revoked /\ RestoreCertificates

MFADeleteCRL == revoked /\ revoked' = FALSE /\ UNCHANGED trusted /\ RestoreCertificates

(* Whose sessions the last statement of a call clears. *)
Concerned(c) ==
    IF call[c].kind = "certificates"
    THEN {u \in exists : row[u].mfa = "cert"}
    ELSE {call[c].user}

Invalidate(c) ==
    /\ call[c].stage = "invalidate"
    /\ \/ Clear(Concerned(c)) /\ UNCHANGED excuse
       \/ Excuse(Sessions(Concerned(c)), "failed") /\ UNCHANGED session
    /\ Goto(c, "done")
    /\ UNCHANGED <<table, clock, disturbed, raced>>

(* DeleteDeviceTemplateByUserID is a transaction of its own. *)
DeleteUser(c, u) ==
    /\ Begin(c, [kind |-> "delete", stage |-> "write", user |-> u])
    /\ device' = device \ {u}
    /\ Clear({u})
    /\ UNCHANGED <<exists, inserted, row, totp, trusted, revoked, clock, history>>

(* Variant: the devices of the user are not deleted with the row. *)
DeleteRowOnly(c) ==
    /\ call[c].kind = "delete"
    /\ call[c].stage = "write"
    /\ call[c].user \in exists
    /\ exists' = exists \ {call[c].user}
    /\ Goto(c, "done")
    /\ UNCHANGED <<inserted, row, totp, trusted, revoked, device, session, clock, history>>

DeleteRow(c) ==
    /\ call[c].kind = "delete"
    /\ call[c].stage = "write"
    /\ call[c].user \in exists
    /\ exists' = exists \ {call[c].user}
    /\ totp' = [totp EXCEPT ![call[c].user] = {}]
    /\ device' = device \ {call[c].user}
    /\ Clear({call[c].user})
    /\ disturbed' = disturbed \cup Counting(call[c].user)
    /\ Goto(c, "done")
    /\ UNCHANGED <<inserted, row, trusted, revoked, clock, excuse, raced>>

CreateDevice(u) ==
    /\ u \in exists \ device
    /\ device' = device \cup {u}
    /\ UNCHANGED <<exists, inserted, row, totp, trusted, revoked, session, clock, call, history>>

Tick ==
    /\ clock < MaxClock
    /\ clock' = clock + 1
    /\ UNCHANGED <<table, session, call, history>>

-----------------------------------------------------------------------------
LoginStep(c) ==
    \/ \E u \in User : BasicAuth(c, u)
    \/ ReadSecret(c)
    \/ UpdateCounter(c)
    \/ ReadCRLs(c)
    \/ ReadCAs(c)
    \/ AssignDeviceSlot(c)

AdminStep(c) ==
    \/ \E n \in Name : CreateUser(c, n)
    \/ InsertUser(c)
    \/ \E u \in User, n \in Name, m \in MFAType : UpdateUser(c, u, n, m)
    \/ CheckUsername(c)
    \/ WriteUser(c)
    \/ \E u \in User : UpdateUserPassword(c, u)
    \/ WritePassword(c)
    \/ \E u \in User, op \in {"create secret", "update secret"} : ChangeSecret(c, u, op)
    \/ WriteSecret(c)
    \/ MFADeleteCA(c)
    \/ MFACreateCRL(c)
    \/ Invalidate(c)
    \/ \E u \in exists : DeleteUser(c, u)
    \/ DeleteRow(c)

Next ==
    \/ \E c \in Call : LoginStep(c) \/ AdminStep(c)
    \/ MFACreateCA
    \/ MFADeleteCRL
    \/ \E u \in User : CreateDevice(u)
    \/ Tick

Spec == Init /\ [][Next]_vars

-----------------------------------------------------------------------------
(* Two logins never succeed with one code of one secret, however their reads  *)
(* and updates interleave (MFAAuthenticate), unless the user's secrets were   *)
(* created or replaced between the read and the update of one of them.       *)
CodeAcceptedOnce ==
    \A c, d \in Call :
        /\ c # d
        /\ {c, d} \cap disturbed = {}
        /\ call[c].kind = "login" /\ call[c].stage \in {"slot", "done"} /\ call[c].how = "totp"
        /\ call[d].kind = "login" /\ call[d].stage \in {"slot", "done"} /\ call[d].how = "totp"
        /\ call[c].user = call[d].user /\ call[c].key = call[d].key
        => call[c].code # call[d].code

(* The session in a device was given for the name, the password, the MFA type *)
(* and the secret or certificates in force now, or a call is about to clear   *)
(* it, unless the login stored it only after the change was complete, the     *)
(* invalidation failed or the change was written over another one            *)
(* (DeleteInvalidSessionsByUser and its siblings, AssignDeviceSlot).         *)
SessionFollowsCredentials ==
    \A u \in device :
        session[u] # None /\ Outdated(session[u]) =>
            \/ excuse[session[u]] # "no"
            \/ \E c \in Call : call[c].stage = "invalidate" /\ u \in Concerned(c)

(* Users have distinct names, which nothing in the database ensures, unless   *)
(* two calls were between their check of one name and their writing of it, or *)
(* an update wrote a name back that it had read before another changed it.   *)
NamesDistinctUnlessRaced ==
    \A u, v \in exists : u # v /\ row[u].name = row[v].name => row[u].name \in raced

(* The types, with devices, sessions and secrets only of users that exist, and *)
(* that the users have distinct names (CreateUser, UpdateUser).               *)
UsersSound ==
    /\ TypeOK
    /\ NamesDistinctUnlessRaced
=============================================================================
