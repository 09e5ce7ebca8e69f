---------------------------- MODULE Adjacencies ----------------------------
(***************************************************************************)
(* Adjacencies, which connect devices to servers, and the templates from    *)
(* which a user's devices get them.  Every request of the REST API reads    *)
(* what it depends on, checks it and writes, each in a statement of its     *)
(* own; the session of a device whose configuration has changed is cleared  *)
(* in one more.  The resynchronisation of a user's devices with the         *)
(* templates is a long sequence of such statements.                         *)
(* An address is that of a host; an interface of a server is its own        *)
(* address and the addresses in its networks.  The allowed IPs and the      *)
(* preshared key that a client gets for an adjacency are one value, a       *)
(* route; two adjacencies share an allowed IP if their routes are equal.    *)
(* The healthcheck address among the allowed IPs is the subject of Servers. *)
(***************************************************************************)
EXTENDS Naturals, FiniteSets, Functions

CONSTANTS
    Call,         \* requests, each made at most once
    Server,
    Device,
    Own,          \* the devices of the user whose templates are modelled
    Addr,
    Iface,        \* interfaces a server may be given
    Route,
    Offer,        \* lists of addresses that a request may bring
    Linked,       \* servers that the devices of others are connected to at first
    Home,         \* Home[d]: the address a device has at first
    None

ASSUME ServerAssumption == IsFiniteSet(Server)
ASSUME OwnAssumption == Own \subseteq Device
ASSUME IfaceAssumption == Iface \subseteq [own : Addr, net : SUBSET Addr]
ASSUME OfferAssumption == Offer \subseteq SUBSET Addr /\ {} \notin Offer
ASSUME LinkedAssumption == Linked \subseteq Server
ASSUME HomeAssumption == Home \in Injection(Device, Addr)

VARIABLES
    server,       \* servers that exist
    device,       \* devices that exist
    addr,         \* addr[d]: the addresses of the device's interface
    iface,        \* iface[s]: the interface of the server
    row,          \* the adjacencies table
    template,     \* the adjacency_templates table, for one user
    session,      \* session[d]: is there one, and has its client what there is now
    call,         \* call[c]: how far a request has got and what it has read
    raced,        \* history: rows written when what was checked had changed
    unchecked,    \* history: rows that a resynchronisation gave an address in use
    excuse,       \* history: why a session may be outdated
    disturbed     \* history: requests since whose start another one has written

table == <<server, device, addr, iface, row, template>>
history == <<raced, unchecked, excuse, disturbed>>
vars == <<table, session, call, history>>

(* Identifiers are given once: a request numbers the rows it makes.           *)
Id == ({None} \X (Server \X Device)) \cup (Call \X Nat)
Row == [id : Id, server : Server, device : Device, addrs : SUBSET Addr, route : Route,
        ip : Addr \cup {None}]
Template == [id : (Call \cup {None}) \X Server, server : Server, route : Route]
ASSUME NoneAssumption ==
    None \notin Call \cup Server \cup Device \cup Addr \cup Route \cup Row \cup Template

Session == {"none", "current", "outdated"}
Cause == {"no", "failed", "overlap", "server"}

Blank == [kind |-> "none", stage |-> "new", server |-> None, device |-> None, addrs |-> {},
          route |-> None, ip |-> None, iface |-> None, old |-> None, seen |-> {}, clear |-> {},
          todo |-> {}, peers |-> {}, left |-> {}, plan |-> None, before |-> {}, made |-> 0,
          failed |-> FALSE]

Request(kind, stage, s, d) ==
    [Blank EXCEPT !.kind = kind, !.stage = stage, !.server = s, !.device = d]

TypeOK ==
    /\ server \subseteq Server
    /\ device \subseteq Device
    /\ addr \in [Device -> SUBSET Addr]
    /\ iface \in [Server -> Iface]
    /\ row \subseteq Row
    /\ \A q \in row : q.server \in server /\ q.device \in device
    /\ \A q, r \in row : q.id = r.id => q = r
    /\ template \subseteq Template
    /\ \A t \in template : t.server \in server
    /\ session \in [Device -> Session]
    /\ \A c \in Call :
        /\ DOMAIN call[c] = DOMAIN Blank
        /\ call[c].seen \subseteq Row \cup Template
        /\ call[c].clear \subseteq Device
    /\ raced \cup unchecked \subseteq Id \cup ((Call \cup {None}) \X Server)
    /\ excuse \in [Device -> Cause]
    /\ disturbed \subseteq Call

(* What requests that did not overlap may have left: each device has an        *)
(* address of its own that the servers it is connected to reach; the user's     *)
(* devices and templates are connected to any servers.                      *)
Init ==
    /\ server = Server
    /\ device \in {Device, Device \ Own}
    /\ addr = [d \in Device |-> IF d \in device THEN {Home[d]} ELSE {}]
    /\ \E i \in Iface :
        /\ \A d \in Device : Home[d] \in i.net \ {i.own}
        /\ iface = [s \in Server |-> i]
    /\ \E f \in Injection(Server, Route), S \in SUBSET Server :
        row = {[id |-> <<None, pair>>, server |-> pair[1], device |-> pair[2],
                addrs |-> addr[pair[2]], route |-> f[pair[1]], ip |-> Home[pair[2]]] :
               pair \in (Linked \X (device \ Own)) \cup (S \X (device \cap Own))}
    /\ \E f \in Injection(Server, Route), S \in SUBSET Server :
        template = {[id |-> <<None, s>>, server |-> s, route |-> f[s]] : s \in S}
    /\ session = [d \in Device |-> IF d \in device THEN "current" ELSE "none"]
    /\ call = [c \in Call |-> Blank]
    /\ raced = {}
    /\ unchecked = {}
    /\ excuse = [d \in Device |-> "no"]
    /\ disturbed = {}

-----------------------------------------------------------------------------
(* What requests have in common. *)

Begin(c, request) ==
    /\ call[c] = Blank
    /\ call' = [call EXCEPT ![c] = request]

(* The end; what a request had read goes with it. *)
Finish(l) ==
    [l EXCEPT !.stage = "done", !.server = None, !.addrs = {}, !.route = None, !.ip = None,
              !.iface = None, !.old = None, !.seen = {}, !.before = {}]

(* What comes after a statement that a request got through.                   *)
Proceed(l) ==
    IF l.kind = "resync" /\ l.peers \cup l.left # {} THEN [l EXCEPT !.stage = "server"]
    ELSE IF l.kind \in {"resync", "createDevice"} /\ l.todo # {} THEN [l EXCEPT !.stage = "next"]
    ELSE Finish(l)

(* A resynchronisation notes an error and goes on; nothing else does.         *)
Fail(l) ==
    IF l.kind = "resync" THEN Proceed([l EXCEPT !.failed = TRUE])
    ELSE Finish([l EXCEPT !.failed = TRUE])

Set(c, l) == call' = [call EXCEPT ![c] = l]

(* getServerSideAllowedIP: an address of the device in a network of the server. *)
Reach(s, d) == addr[d] \cap iface[s].net

Near(s, d) == {q \in row : q.server = s \/ q.device = d}

SamePair(q, r) == q.server = r.server /\ q.device = r.device

(* DeleteInvalidSessionsByAdjacency: the devices a change of a row concerns. *)
Concerned(old, new) ==
    IF old.device # new.device THEN {old.device, new.device}
    ELSE IF old.server # new.server \/ old.route # new.route THEN {new.device} ELSE {}

(* The configuration of the devices D changes; for those in E nobody will      *)
(* clear the session.                                                        *)
Affect(D, E, cause) ==
    /\ session' = [d \in Device |-> IF d \in D /\ session[d] = "current" THEN "outdated" ELSE session[d]]
    /\ excuse' = [d \in Device |-> IF d \in E /\ session'[d] = "outdated" THEN cause ELSE excuse[d]]

(* Requests that bring rows in line with the templates and have company.      *)
Disturb(C) ==
    disturbed' = disturbed \cup {c \in C : call[c].kind \in {"resync", "createDevice"}}

Ids(rows) == {q.id : q \in rows}

-----------------------------------------------------------------------------
(* One adjacency. *)

(* Variant: nobody asks whether the two are connected already.               *)
Reachable(l) ==
    /\ l.server \in server
    /\ l.device \in device
    /\ Reach(l.server, l.device) # {}

(* The statements up to the address; an update of the same pair does not ask   *)
(* whether there is one.                                                     *)
Acceptable(l) ==
    /\ Reachable(l)
    /\ \A q \in row : SamePair(q, l) => l.old # None /\ SamePair(q, l.old)

Prepare(c, l) ==
    /\ IF Acceptable(l)
       THEN \E ip \in Reach(l.server, l.device) :
            Set(c, [l EXCEPT !.stage = "check", !.ip = ip, !.iface = iface[l.server],
                             !.seen = Near(l.server, l.device)])
       ELSE Set(c, Fail(l))
    /\ UNCHANGED <<table, session, history>>

(* A request that is refused before it has written anything is no step.       *)
CreateAdjacency(c, s, d, A, r) ==
    /\ call[c] = Blank
    /\ LET l == [Request("create", "check", s, d) EXCEPT !.addrs = A, !.route = r] IN
        Acceptable(l) /\ Prepare(c, l)

UpdateAdjacency(c, q, s, d, A, r) ==
    /\ call[c] = Blank
    /\ q \in row
    /\ LET l == [Request("update", "check", s, d) EXCEPT !.addrs = A, !.route = r, !.old = q] IN
        Acceptable(l) /\ Prepare(c, l)

Mine(l, q) == l.old # None /\ SamePair(q, l.old)

SameRoute(l, q) == q.device = l.device /\ q.route = l.route

SameAddress(l, q) == q.server = l.server /\ l.ip \in q.addrs

(* Variant: the addresses of the server's other adjacencies are not checked. *)
ClashOfRoutes(l, q) == ~Mine(l, q) /\ SameRoute(l, q)

(* What the device and the server already have must not clash.               *)
Clash(l, q) == ~Mine(l, q) /\ (SameRoute(l, q) \/ SameAddress(l, q))

(* What has changed since the request asked whether the two are connected was  *)
(* not there for both questions.                                             *)
Check(c) ==
    /\ call[c].stage = "check"
    /\ Set(c, IF \E q \in row : Clash(call[c], q) THEN Fail(call[c])
              ELSE [call[c] EXCEPT !.stage = "write", !.seen = @ \cap row])
    /\ UNCHANGED <<table, session, history>>

(* The rows that make a row of l a raced one: new since they were checked, or  *)
(* itself if the interface has changed.                                      *)
Overtaken(l, id) ==
    LET new == Near(l.server, l.device) \ l.seen IN
    IF new # {} \/ iface[l.server] # l.iface THEN Ids(new) \cup {id} ELSE {}

(* A resynchronisation writes without asking what is there.                   *)
Unchecked(l, id) ==
    IF l.kind = "resync" /\ \E q \in row : q.id # id /\ (SameRoute(l, q) \/ SameAddress(l, q))
    THEN {id} ELSE {}

InsertRow(c) ==
    /\ call[c].kind # "update"
    /\ call[c].stage = "write"
    /\ call[c].old = None
    /\ call[c].server \in server
    /\ call[c].device \in device
    /\ LET l == call[c]
           id == <<c, l.made>>
           new == [id |-> id, server |-> l.server, device |-> l.device,
                   addrs |-> l.addrs \cup {l.ip}, route |-> l.route, ip |-> l.ip] IN
        /\ row' = row \cup {new}
        /\ raced' = raced \cup Overtaken(l, id)
        /\ unchecked' = unchecked \cup Unchecked(l, id)
        /\ Affect({l.device}, {}, "no")
        /\ Set(c, [l EXCEPT !.stage = "invalidate", !.clear = {l.device}, !.seen = @ \cup {new},
                        !.made = @ + 1])
    /\ Disturb(Call \ {c})
    /\ UNCHANGED <<server, device, addr, iface, template>>

(* The addresses of the request as they are; one that brings none keeps those    *)
(* of the row, also when it moves.                                           *)
Kept(l, q) == IF l.addrs = {} THEN q.addrs ELSE l.addrs

UpdateRow(c) ==
    /\ call[c].stage = "write"
    /\ call[c].server \in server
    /\ call[c].device \in device
    /\ LET l == call[c] IN
        \E q \in row :
            LET addrs == Kept(l, q)
                new == [id |-> q.id, server |-> l.server, device |-> l.device, addrs |-> addrs,
                        route |-> l.route, ip |-> IF l.ip \in addrs THEN l.ip ELSE None]
                touched == Concerned(q, new)
                clear == Concerned(l.old, new) IN
            /\ l.old # None
            /\ q.id = l.old.id
            /\ row' = (row \ {q}) \cup {new}
            /\ raced' = raced \cup Overtaken([l EXCEPT !.seen = @ \cup {q}], q.id)
            /\ unchecked' = unchecked \cup Unchecked(l, q.id)
            /\ Affect(touched, touched \ clear, "overlap")
            /\ Set(c, [l EXCEPT !.stage = "invalidate", !.clear = clear, !.seen = @ \cup {new}])
    /\ Disturb(Call \ {c})
    /\ UNCHANGED <<server, device, addr, iface, template>>

(* The server, the device or the row has gone in the meantime. *)
WriteFails(c) ==
    /\ call[c].stage = "write"
    /\ LET l == call[c] IN
        /\ \/ l.server \notin server
           \/ l.device \notin device
           \/ l.old # None /\ l.old.id \notin Ids(row)
        /\ Set(c, Fail(l))
    /\ UNCHANGED <<table, session, history>>

(* Variant: the session is left as it is. *)
KeepSession(c) ==
    /\ call[c].stage = "invalidate"
    /\ Set(c, Proceed([call[c] EXCEPT !.clear = {}]))
    /\ UNCHANGED <<table, session, history>>

(* InvalidateDeviceSession for each device; it may fail. *)
Invalidate(c) ==
    /\ call[c].stage = "invalidate"
    /\ LET l == call[c]
           after == [l EXCEPT !.clear = {}] IN
        \E D \in SUBSET l.clear :
            /\ session' = [d \in Device |-> IF d \in D THEN "none" ELSE session[d]]
            /\ excuse' = [d \in Device |-> IF d \in l.clear \ D /\ session[d] = "outdated"
                                           THEN "failed" ELSE excuse[d]]
            /\ Set(c, IF D = l.clear THEN Proceed(after) ELSE Fail(after))
    /\ UNCHANGED <<table, raced, unchecked, disturbed>>

ReadRow(c, q) ==
    /\ q \in row
    /\ Begin(c, [Request("delete", "delete", q.server, q.device) EXCEPT !.old = q])
    /\ UNCHANGED <<table, session, history>>

(* By its identifier, whatever it has become; also in a resynchronisation.    *)
DeleteAdjacency(c) ==
    /\ call[c].stage = "delete"
    /\ LET l == call[c]
           gone == {q \in row : q.id = l.old.id}
           D == {q.device : q \in gone} IN
        /\ row' = row \ gone
        /\ Affect(D, D \ {l.device}, "overlap")
        /\ Set(c, [l EXCEPT !.stage = "invalidate", !.clear = {l.device}])
    /\ Disturb(Call \ {c})
    /\ UNCHANGED <<server, device, addr, iface, template, raced, unchecked>>

-----------------------------------------------------------------------------
(* Devices. *)

(* Variant: the foreign key of the adjacencies is forgotten. *)
Unconnected(d) == FALSE

(* The adjacencies of a device forbid to delete it. *)
Connected(d) == \E q \in row : q.device = d

(* A device is not created a second time. *)
Fresh(d) ==
    /\ d \in Own \ device
    /\ \A c \in Call : call[c].kind = "deleteDevice" => call[c].device # d

CreateDevice(c, d, a) ==
    /\ Fresh(d)
    /\ Begin(c, [Request("createDevice", "address", None, d) EXCEPT !.before = {a}])
    /\ device' = device \cup {d}
    /\ Disturb(Call \ {c})
    /\ UNCHANGED <<server, addr, iface, row, template, session, raced, unchecked, excuse>>

InsertAddress(c) ==
    /\ call[c].stage = "address"
    /\ LET l == call[c] IN
        IF l.device \in device
        THEN /\ addr' = [addr EXCEPT ![l.device] = @ \cup l.before]
             /\ Set(c, [l EXCEPT !.stage = "templates"])
        ELSE /\ Set(c, Fail(l))
             /\ UNCHANGED addr
    /\ UNCHANGED <<server, device, iface, row, template, session, history>>

(* createAdjacenciesForNewDevice up to its loop. *)
ReadTemplates(c) ==
    /\ call[c].stage = "templates"
    /\ LET l == call[c] IN
        Set(c, IF Connected(l.device) THEN Fail(l)
               ELSE Proceed([l EXCEPT !.todo = template]))
    /\ UNCHANGED <<table, session, history>>

NextTemplate(c, t) ==
    /\ call[c].kind = "createDevice"
    /\ call[c].stage = "next"
    /\ t \in call[c].todo
    /\ Prepare(c, [call[c] EXCEPT !.todo = @ \ {t}, !.server = t.server, !.route = t.route])

UpdateDevice(c, d, A) ==
    /\ d \in device
    /\ Begin(c, [Request("updateDevice", "writeDevice", None, d)
                 EXCEPT !.addrs = A, !.before = addr[d]])
    /\ UNCHANGED <<table, session, history>>

WriteDevice(c) ==
    /\ call[c].stage = "writeDevice"
    /\ LET l == call[c]
           d == l.device
           touched == IF l.addrs = addr[d] THEN {} ELSE {d}
           clear == IF l.addrs = l.before THEN {} ELSE {d} IN
        IF d \in device
        THEN /\ addr' = [addr EXCEPT ![d] = l.addrs]
             /\ Affect(touched, touched \ clear, "overlap")
             /\ Set(c, [l EXCEPT !.stage = "invalidate", !.clear = clear])
             /\ Disturb(Call \ {c})
        ELSE /\ Set(c, Fail(l))
             /\ UNCHANGED <<addr, session, excuse, disturbed>>
    /\ UNCHANGED <<server, device, iface, row, template, raced, unchecked>>

ReadRows(c, d) ==
    /\ d \in device
    /\ Begin(c, [Request("deleteDevice", "rows", None, d)
                 EXCEPT !.peers = {q \in row : q.device = d}])
    /\ UNCHANGED <<table, session, history>>

DeleteRowOfDevice(c, q) ==
    /\ call[c].stage = "rows"
    /\ q \in call[c].peers
    /\ LET gone == {r \in row : r.id = q.id}
           D == {r.device : r \in gone} IN
        /\ row' = row \ gone
        /\ Affect(D, D \ {q.device}, "overlap")
    /\ call' = [call EXCEPT ![c].peers = @ \ {q}]
    /\ Disturb(Call \ {c})
    /\ UNCHANGED <<server, device, addr, iface, template, raced, unchecked>>

DeleteDevice(c) ==
    /\ call[c].stage = "rows"
    /\ call[c].peers = {}
    /\ LET l == call[c]
           d == l.device IN
        IF Connected(d)
        THEN /\ Affect({}, {d}, "failed")
             /\ Set(c, Fail(l))
             /\ UNCHANGED <<device, addr, disturbed>>
        ELSE /\ device' = device \ {d}
             /\ addr' = [addr EXCEPT ![d] = {}]
             /\ session' = [session EXCEPT ![d] = "none"]
             /\ Set(c, Proceed(l))
             /\ Disturb(Call \ {c})
             /\ UNCHANGED excuse
    /\ UNCHANGED <<server, iface, row, template, raced, unchecked>>

(* A client gets the configuration there is now. *)
Login(d) ==
    /\ d \in device
    /\ session[d] # "current"
    /\ session' = [session EXCEPT ![d] = "current"]
    /\ excuse' = [excuse EXCEPT ![d] = "no"]
    /\ UNCHANGED <<table, call, raced, unchecked, disturbed>>

-----------------------------------------------------------------------------
(* Servers. *)

(* The adjacencies and templates of the server go with it, the sessions of its *)
(* devices stay.                                                             *)
DeleteServer(c, s) ==
    /\ s \in server
    /\ Begin(c, Request("deleteServer", "done", s, None))
    /\ server' = server \ {s}
    /\ row' = {q \in row : q.server # s}
    /\ template' = {t \in template : t.server # s}
    /\ LET D == {q.device : q \in row \ row'} IN Affect(D, D, "server")
    /\ Disturb(Call \ {c})
    /\ UNCHANGED <<device, addr, iface, raced, unchecked>>

(* UpdateWireGuardServerConfig: the adjacencies must be covered by the new     *)
(* networks, and the server's own address must not be one of theirs.         *)
UpdateInterface(c, s, i) ==
    /\ s \in server
    /\ \A q \in row : q.server = s => q.addrs \subseteq i.net \ {i.own}
    /\ Begin(c, [Request("interface", "writeInterface", s, None)
                 EXCEPT !.iface = i, !.seen = {q \in row : q.server = s}])
    /\ UNCHANGED <<table, session, history>>

(* The addresses of a server are not among what ends sessions. *)
WriteInterface(c) ==
    /\ call[c].stage = "writeInterface"
    /\ LET l == call[c] IN
        IF l.server \in server
        THEN /\ iface' = [iface EXCEPT ![l.server] = l.iface]
             /\ raced' = raced \cup Ids({q \in row : q.server = l.server} \ l.seen)
             /\ Set(c, Proceed(l))
             /\ Disturb(Call \ {c})
        ELSE /\ Set(c, Fail(l))
             /\ UNCHANGED <<iface, raced, disturbed>>
    /\ UNCHANGED <<server, device, addr, row, template, session, unchecked, excuse>>

-----------------------------------------------------------------------------
(* Templates. *)

CreateTemplate(c, s, r) ==
    /\ s \in server
    /\ \A t \in template : t.server # s /\ t.route # r
    /\ Begin(c, [Request("createTemplate", "writeTemplate", s, None)
                 EXCEPT !.route = r, !.seen = template])
    /\ UNCHANGED <<table, session, history>>

UpdateTemplate(c, old, s, r) ==
    /\ s \in server
    /\ old \in template
    /\ old.server # s => \A t \in template : t.server # s
    /\ \A t \in template \ {old} : t.route # r
    /\ Begin(c, [Request("updateTemplate", "writeTemplate", s, None)
                 EXCEPT !.route = r, !.old = old, !.seen = template])
    /\ UNCHANGED <<table, session, history>>

(* The statement and, if the server or the template has gone, its error. *)
WriteTemplate(c) ==
    /\ call[c].stage = "writeTemplate"
    /\ LET l == call[c]
           replaced == IF l.old = None THEN {} ELSE {t \in template : t.id = l.old.id}
           id == IF l.old = None THEN <<c, l.server>> ELSE l.old.id
           new == template \ (l.seen \cup replaced) IN
        IF l.server \in server /\ (l.old # None => replaced # {})
        THEN /\ template' = (template \ replaced) \cup
                             {[id |-> id, server |-> l.server, route |-> l.route]}
             /\ raced' = IF new = {} THEN raced ELSE raced \cup Ids(new) \cup {id}
             /\ Set(c, Proceed(l))
             /\ Disturb(Call \ {c})
        ELSE /\ Set(c, Fail(l))
             /\ UNCHANGED <<template, raced, disturbed>>
    /\ UNCHANGED <<server, device, addr, iface, row, session, unchecked, excuse>>

DeleteTemplate(c, t) ==
    /\ t \in template
    /\ Begin(c, Request("deleteTemplate", "done", t.server, None))
    /\ template' = template \ {t}
    /\ Disturb(Call \ {c})
    /\ UNCHANGED <<server, device, addr, iface, row, session, raced, unchecked, excuse>>

-----------------------------------------------------------------------------
(* ResyncDeviceAdjacencies: of one device after the other, the adjacencies it   *)
(* has and then the ones it lacks.  Of two with a server it sees one.         *)

OneEach(S) == {f \in [{t.server : t \in S} -> S] : \A s \in DOMAIN f : f[s].server = s}

ReadPlan(c) ==
    /\ \E f \in OneEach(template) :
        Begin(c, Proceed([Request("resync", "next", None, None) EXCEPT
            !.plan = [s \in Server |-> IF s \in DOMAIN f THEN f[s].route ELSE None],
            !.todo = Own \cap device]))
    /\ UNCHANGED <<table, session, history>>

NextDevice(c, d) ==
    /\ call[c].kind = "resync"
    /\ call[c].stage = "next"
    /\ d \in call[c].todo
    /\ LET l == call[c]
           rows == {q \in row : q.device = d} IN
        \E f \in OneEach(rows) :
            Set(c, Proceed([l EXCEPT
                !.todo = @ \ {d}, !.device = d, !.seen = rows,
                !.peers = {f[s] : s \in DOMAIN f},
                !.left = {s \in Server \ DOMAIN f : l.plan[s] # None}]))
    /\ UNCHANGED <<table, session, history>>

(* Variant: only the allowed IPs of the client are compared. *)
SameForClient(l, ip) == l.old # None /\ l.old.route = l.route

(* Nothing has to change. *)
InPlace(l, ip) == l.old # None /\ l.old.route = l.route /\ l.old.addrs = {ip}

(* The row for the template's route and an address the server can reach; the   *)
(* reads before the write, and the write only if something has to change.     *)
Recompute(c, l) ==
    IF l.server \in server /\ Reach(l.server, l.device) # {}
    THEN \E ip \in Reach(l.server, l.device) :
        Set(c, IF InPlace(l, ip) THEN Proceed(l)
               ELSE [l EXCEPT !.stage = "write", !.ip = ip, !.addrs = {ip}, !.iface = iface[l.server],
                              !.seen = @ \cup {q \in row : q.server = l.server /\ q.device # l.device}])
    ELSE Set(c, Fail(l))

ResyncRow(c, q) ==
    /\ call[c].kind = "resync"
    /\ call[c].stage = "server"
    /\ q \in call[c].peers
    /\ LET l == [call[c] EXCEPT !.peers = @ \ {q}, !.server = q.server, !.old = q,
                                !.route = call[c].plan[q.server]] IN
        IF l.route = None THEN Set(c, [l EXCEPT !.stage = "delete"]) ELSE Recompute(c, l)
    /\ UNCHANGED <<table, session, history>>

ResyncMissing(c, s) ==
    /\ call[c].kind = "resync"
    /\ call[c].stage = "server"
    /\ call[c].peers = {}
    /\ s \in call[c].left
    /\ Recompute(c, [call[c] EXCEPT !.left = @ \ {s}, !.server = s, !.old = None,
                                    !.route = call[c].plan[s]])
    /\ UNCHANGED <<table, session, history>>

-----------------------------------------------------------------------------
Start(c) ==
    \/ \E s \in Server, d \in Device, A \in Offer \cup {{}}, r \in Route :
        \/ CreateAdjacency(c, s, d, A, r)
        \/ \E q \in row : UpdateAdjacency(c, q, s, d, A, r)
    \/ \E q \in row : ReadRow(c, q)
    \/ \E d \in Device : CreateDevice(c, d, Home[d])
    \/ \E d \in Device, A \in Offer : UpdateDevice(c, d, A)
    \/ \E d \in Device : ReadRows(c, d)
    \/ \E s \in Server, i \in Iface : UpdateInterface(c, s, i)
    \/ \E s \in Server, r \in Route :
        \/ CreateTemplate(c, s, r)
        \/ \E t \in template : UpdateTemplate(c, t, s, r)
    \/ \E s \in Server : DeleteServer(c, s)
    \/ \E t \in template : DeleteTemplate(c, t)
    \/ ReadPlan(c)

Continue(c) ==
    \/ Check(c)
    \/ InsertRow(c)
    \/ UpdateRow(c)
    \/ WriteFails(c)
    \/ Invalidate(c)
    \/ DeleteAdjacency(c)
    \/ InsertAddress(c)
    \/ ReadTemplates(c)
    \/ \E t \in call[c].todo : NextTemplate(c, t)
    \/ WriteDevice(c)
    \/ \E q \in call[c].peers : DeleteRowOfDevice(c, q)
    \/ DeleteDevice(c)
    \/ WriteInterface(c)
    \/ WriteTemplate(c)
    \/ \E d \in call[c].todo : NextDevice(c, d)
    \/ \E q \in call[c].peers : ResyncRow(c, q)
    \/ \E s \in call[c].left : ResyncMissing(c, s)

Next ==
    \/ \E c \in Call : Start(c) \/ Continue(c)
    \/ \E d \in device : Login(d)

Spec == Init /\ [][Next]_vars

-----------------------------------------------------------------------------
(* Only two requests that overlap give a device two adjacencies with one       *)
(* server, or a user two templates: both ask before they write, and the        *)
(* tables have no constraint.                                                *)
OnePerServer ==
    /\ \A q, r \in row : SamePair(q, r) => q = r \/ {q.id, r.id} \subseteq raced
    /\ \A t, u \in template : t.server = u.server => t = u \/ {t.id, u.id} \subseteq raced

(* What an adjacency was checked for stays true of it: no other adjacency of    *)
(* the server has its address, none of the device has its allowed IPs, and     *)
(* the address is in a network of the server -- whatever is done to it, to      *)
(* the others, the device and the interface afterwards, unless requests        *)
(* overlapped or a resynchronisation wrote over it.                          *)
SoundUnlessRaced ==
    \A q \in row :
        /\ q.id \notin raced => q.ip \in iface[q.server].net \cup {None}
        /\ \A r \in row \ {q} : {q.id, r.id} \cap (raced \cup unchecked) = {} =>
            /\ q.device = r.device => q.route # r.route
            /\ q.server = r.server => q.ip = None \/ q.ip # r.ip

(* What is in the tables is what a single request would have let in: types and *)
(* foreign keys, one adjacency per pair, and what each was checked for.        *)
RowsSound ==
    /\ TypeOK
    /\ OnePerServer
    /\ SoundUnlessRaced

(* A client that has another configuration than the one there is now will be   *)
(* told by the end of its session, except for the causes that history names:    *)
(* the statement that ends it fails, the change was computed from a row that    *)
(* another request has changed since, or a server was deleted.               *)
SessionFollowsAdjacencies ==
    \A d \in Device : session[d] = "outdated" /\ excuse[d] = "no" =>
        \E c \in Call :
            \/ d \in call[c].clear
            \/ call[c].kind = "deleteDevice" /\ call[c].stage = "rows" /\ call[c].device = d

(* The devices that a request was to bring in line with the templates. *)
Treated(l) ==
    IF l.kind = "resync" THEN Own \cap device
    ELSE IF l.kind = "createDevice" THEN {l.device} ELSE {}

InLine(d) ==
    LET rows == {q \in row : q.device = d} IN
    /\ {<<q.server, q.route>> : q \in rows} = {<<t.server, t.route>> : t \in template}
    /\ Cardinality(rows) = Cardinality(template)
    /\ \A q \in rows : \E ip \in Reach(q.server, d) : q.addrs = {ip}

(* A resynchronisation without errors, and a creation, leave the devices with   *)
(* exactly the adjacencies of the templates, each with an address of the       *)
(* device that its server reaches, if nothing else was written meanwhile and    *)
(* it did not start from rows that overlapping requests had left behind.      *)
DevicesInLine ==
    \A c \in Call \ disturbed :
        call[c].stage = "done" /\ ~call[c].failed =>
            \A d \in Treated(call[c]) :
                \/ InLine(d)
                \/ Ids(template \cup {q \in row : q.device = d}) \cap raced # {}

(* A new adjacency of a device and the deletion of one end its session          *)
(* (session.go); the deletion of a server, which takes its adjacencies with     *)
(* it, does not.                                                             *)
ServerDeletionEndsSessions ==
    \A d \in Device : ~(session[d] = "outdated" /\ excuse[d] = "server")
=============================================================================
