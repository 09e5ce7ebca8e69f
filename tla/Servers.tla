------------------------------ MODULE Servers ------------------------------
(***************************************************************************)
(* Servers and what follows from a change of one.  A server may have a      *)
(* healthcheck address, which must be among the allowed IPs of its           *)
(* adjacencies, of the templates of adjacencies and of the servers in LDAP    *)
(* templates (entries): whoever writes an entry adds the address that the    *)
(* server had when it was asked, and a change of the address is carried to    *)
(* the entries one by one, after the server was written.  What clients were   *)
(* given of a server -- its endpoint, the healthcheck address, its keys --    *)
(* ends their sessions in one more statement.                                *)
(* An allowed IP is the prefix of one address or of a network that contains   *)
(* them all; of an entry, the rest is in Adjacencies.                        *)
(***************************************************************************)
EXTENDS Naturals, FiniteSets

CONSTANTS
    Call,         \* requests, each made at most once
    Server,
    Device,
    Addr,         \* addresses of healthcheck services, and their prefixes
    Network,      \* a prefix that contains all of Addr
    Value,        \* endpoints, and keys and ports of interfaces
    Gift,         \* lists of allowed IPs that a request may bring
    First,        \* sets of kinds of entries that one server has at first
    None

Prefix == Addr \cup {Network}

ASSUME GiftAssumption == Gift \subseteq SUBSET Prefix
ASSUME NetworkAssumption == Network \notin Addr
ASSUME NoneAssumption == None \notin Call \cup Server \cup Device \cup Prefix \cup Value

VARIABLES
    server,       \* servers that exist
    record,       \* record[s]: what is in the servers table
    interface,    \* interface[s]: what clients are given of its interface
    entry,        \* adjacencies, templates and servers of the LDAP template
    session,      \* session[d]: is there one, and has its client what there is now
    call,         \* call[c]: how far a request has got and what it has read
    stale,        \* history: entries written from what was no longer so
    crossed,      \* history: servers that two requests changed at a time
    aborted,      \* history: where carrying an address failed, <<pass, server>>
    excuse        \* history: why a session may be outdated

table == <<server, record, interface, entry>>
history == <<stale, crossed, aborted, excuse>>
vars == <<table, session, call, history>>

Kind == {"adjacency", "template", "ldap"}
ASSUME CallAssumption == Call \cap Kind = {}
ASSUME FirstAssumption == First \subseteq SUBSET Kind

Record == [hc : Addr \cup {None}, endpoint : Value]
Entry == [id : Call \cup Kind, kind : Kind, server : Server, owner : Device \cup {None},
          ips : SUBSET Prefix, given : SUBSET Prefix]
Session == {"none", "current", "outdated"}
Cause == {"no", "failed", "overlap", "server"}

Blank == [kind |-> "none", stage |-> "new", server |-> None, owner |-> None, old |-> None,
          new |-> None, hc |-> None, given |-> {}, ips |-> {}, pass |-> "none", of |-> "none",
          todo |-> {}, clear |-> {}]

Request(kind, stage, s) == [Blank EXCEPT !.kind = kind, !.stage = stage, !.server = s]

TypeOK ==
    /\ server \subseteq Server
    /\ record \in [Server -> Record]
    /\ interface \in [Server -> Value]
    /\ entry \subseteq Entry
    /\ \A e \in entry : e.server \in server /\ (e.ips = {} => e.kind = "ldap" /\ e.given = {})
    /\ \A e, f \in entry : e.id = f.id => e = f
    /\ session \in [Device -> Session]
    /\ \A c \in Call :
        /\ DOMAIN call[c] = DOMAIN Blank
        /\ call[c].todo \subseteq Entry
        /\ call[c].clear \subseteq Device
    /\ stale \subseteq Call \cup Kind
    /\ crossed \subseteq Server
    /\ aborted \subseteq {"remove", "add"} \X Server
    /\ excuse \in [Device -> Cause]

(* IsHealthcheckAddrInAllowedIPs *)
Covers(ips, hc) == hc = None \/ hc \in ips \/ Network \in ips

(* EnsureHealthcheckAddrInAllowedIPs *)
Ensure(ips, hc) == IF Covers(ips, hc) THEN ips ELSE ips \cup {hc}

(* One server has entries, of the first devices and templates.               *)
Init ==
    /\ server \in SUBSET Server \ {{}}
    /\ \E h \in Addr \cup {None}, v \in Value :
        /\ record = [s \in Server |-> [hc |-> h, endpoint |-> v]]
        /\ interface = [s \in Server |-> v]
    /\ \E s \in server, d \in Device, K \in First, g \in Gift :
        /\ g = {} => K \subseteq {"ldap"}
        /\ entry = {[id |-> k, kind |-> k, server |-> s,
                     owner |-> IF k = "adjacency" THEN d ELSE None,
                     ips |-> Ensure(g, record[s].hc), given |-> g] : k \in K}
    /\ session = [d \in Device |-> "current"]
    /\ call = [c \in Call |-> Blank]
    /\ stale = {}
    /\ crossed = {}
    /\ aborted = {}
    /\ excuse = [d \in Device |-> "no"]

-----------------------------------------------------------------------------
(* What requests have in common. *)

Begin(c, request) ==
    /\ call[c] = Blank
    /\ call' = [call EXCEPT ![c] = request]

Set(c, l) == call' = [call EXCEPT ![c] = l]

Goto(c, stage) == Set(c, [call[c] EXCEPT !.stage = stage])

(* What the request had read goes with it. *)
Return(c) == Set(c, Request(call[c].kind, "done", call[c].server))

Connected(s) == {e.owner : e \in {f \in entry : f.kind = "adjacency" /\ f.server = s}}

(* The configuration of the devices D changes; for those in E nobody will      *)
(* clear the session.                                                        *)
Affect(D, E, cause) ==
    /\ session' = [d \in Device |-> IF d \in D /\ session[d] = "current" THEN "outdated" ELSE session[d]]
    /\ excuse' = [d \in Device |-> IF d \in E /\ session'[d] = "outdated" THEN cause ELSE excuse[d]]

(* The statement that ends the sessions of D, or its failure. *)
End(D) ==
    \/ /\ session' = [d \in Device |-> IF d \in D THEN "none" ELSE session[d]]
       /\ UNCHANGED excuse
    \/ /\ D # {}
       /\ excuse' = [d \in Device |-> IF d \in D /\ session[d] = "outdated" THEN "failed" ELSE excuse[d]]
       /\ UNCHANGED session

Login(d) ==
    /\ session[d] # "current"
    /\ session' = [session EXCEPT ![d] = "current"]
    /\ excuse' = [excuse EXCEPT ![d] = "no"]
    /\ UNCHANGED <<table, call, stale, crossed, aborted>>

-----------------------------------------------------------------------------
(* Entries.  A request that is refused before it has written is no step.       *)

(* The statements name an adjacency and a template by their identifier, a       *)
(* server of the LDAP template by the template and the server.               *)
Same(e, f) ==
    IF e.kind = "ldap" THEN f.kind = "ldap" /\ f.server = e.server ELSE f.id = e.id

Ids(entries) == {e.id : e \in entries}

Owner(e) == IF e.kind = "adjacency" THEN {e.owner} ELSE {}

(* An update does not meet its own entry: adjacencies are compared by server.   *)
Mine(old, e) == old # None /\ IF e.kind = "adjacency" THEN e.server = old.server ELSE e.id = old.id

(* A device, or a user, has one with each server and an allowed IP only once,   *)
(* and a list must be given; nobody asks for the LDAP template.              *)
Allowed(k, s, o, g, old) ==
    /\ s \in server
    /\ k # "ldap" =>
        /\ g # {}
        /\ \A e \in entry : e.kind = k /\ e.owner = o =>
            /\ old = None \/ old.server # s => e.server # s
            /\ Mine(old, e) \/ e.ips \cap Ensure(g, record[s].hc) = {}

(* The sessions of the devices D are still to be ended. *)
Clearing(s, D) == [Request("entry", "invalidate", s) EXCEPT !.clear = D]

CreateEntry(c, k, s, o, g) ==
    LET hc == record[s].hc IN
    /\ Allowed(k, s, o, g, None)
    /\ Begin(c, [Request("entry", "insert", s) EXCEPT
            !.of = k, !.owner = o, !.hc = hc, !.given = g, !.ips = Ensure(g, hc)])
    /\ UNCHANGED <<table, session, history>>

InsertEntry(c) ==
    /\ call[c].stage = "insert"
    /\ LET l == call[c]
           new == [id |-> c, kind |-> l.of, server |-> l.server, owner |-> l.owner,
                   ips |-> l.ips, given |-> l.given] IN
        IF l.server \in server
        THEN /\ entry' = entry \cup {new}
             /\ stale' = IF record[l.server].hc = l.hc THEN stale ELSE stale \cup {c}
             /\ Affect(Owner(new), {}, "no")
             /\ Set(c, Clearing(l.server, Owner(new)))
        ELSE /\ Return(c)
             /\ UNCHANGED <<entry, stale, session, excuse>>
    /\ UNCHANGED <<server, record, interface, crossed, aborted>>

UpdateEntry(c, e, s, g) ==
    LET hc == record[s].hc IN
    /\ e \in entry
    /\ Allowed(e.kind, s, e.owner, g, e)
    /\ Begin(c, [Request("entry", "update", s) EXCEPT
            !.old = e, !.hc = hc, !.given = g, !.ips = Ensure(g, hc)])
    /\ UNCHANGED <<table, session, history>>

(* The entry may move to another server.  The sessions end if it, or the allowed  *)
(* IPs, differ from what was read; an entry or a server that has gone is an error. *)
WriteEntry(c) ==
    /\ call[c].stage = "update"
    /\ LET l == call[c]
           target == {f \in entry : Same(l.old, f)}
           touched == UNION {Owner(f) : f \in {e \in target : e.ips # l.ips \/ e.server # l.server}}
           clear == IF l.ips = l.old.ips /\ l.server = l.old.server THEN {} ELSE Owner(l.old) IN
        IF target # {} /\ l.server \in server
        THEN /\ entry' = (entry \ target) \cup
                   {[f EXCEPT !.server = l.server, !.ips = l.ips, !.given = l.given] : f \in target}
             /\ stale' = IF l.hc = record[l.server].hc THEN stale \ Ids(target) ELSE stale \cup Ids(target)
             /\ Affect(touched, touched \ clear, "overlap")
             /\ Set(c, Clearing(l.server, clear))
        ELSE /\ Return(c)
             /\ UNCHANGED <<entry, stale, session, excuse>>
    /\ UNCHANGED <<server, record, interface, crossed, aborted>>

DeleteEntry(c, e) ==
    /\ e \in entry
    /\ Begin(c, Clearing(e.server, Owner(e)))
    /\ entry' = {f \in entry : ~Same(e, f)}
    /\ Affect(Owner(e), {}, "no")
    /\ UNCHANGED <<server, record, interface, stale, crossed, aborted>>

-----------------------------------------------------------------------------
(* Servers. *)

CreateServer(c, s, r, v) ==
    /\ s \in Server \ server
    /\ \A b \in Call : call[b].kind = "delete server" => call[b].server # s
    /\ Begin(c, Request("create server", "done", s))
    /\ server' = server \cup {s}
    /\ record' = [record EXCEPT ![s] = r]
    /\ interface' = [interface EXCEPT ![s] = v]
    /\ UNCHANGED <<entry, session, history>>

(* Its entries go with it, the sessions of its devices stay.                  *)
DeleteServer(c, s) ==
    /\ s \in server
    /\ Begin(c, Request("delete server", "done", s))
    /\ server' = server \ {s}
    /\ entry' = {e \in entry : e.server # s}
    /\ Affect(Connected(s), Connected(s), "server")
    /\ UNCHANGED <<record, interface, stale, crossed, aborted>>

UpdateServer(c, s, r) ==
    /\ s \in server
    /\ Begin(c, [Request("server", "write server", s) EXCEPT !.old = record[s], !.new = r])
    /\ UNCHANGED <<table, session, history>>

(* Variant: the address that was stays. *)
RemovesNothing(l) == FALSE

(* First the address that was is removed, then the new one is added. *)
Removes(l) == l.old.hc \notin {None, l.new.hc}

Adds(l) == l.new.hc \notin {None, l.old.hc}

Pass(l, pass) == [l EXCEPT !.stage = "carry", !.pass = pass, !.of = "none", !.todo = {}]

ToInvalidate(l) == [l EXCEPT !.stage = "invalidate", !.pass = "none", !.of = "none", !.todo = {}]

AfterRemoval(l) == IF Adds(l) THEN Pass(l, "add") ELSE ToInvalidate(l)

(* Whether the pass got through or failed, which is only logged. *)
AfterPass(l) == IF l.pass = "remove" THEN AfterRemoval(l) ELSE ToInvalidate(l)

Changing(s) == {b \in Call : /\ call[b].kind = "server"
                             /\ call[b].server = s
                             /\ call[b].stage # "done"}

WriteServer(c) ==
    /\ call[c].stage = "write server"
    /\ LET l == call[c]
           s == l.server
           touched == IF l.new = record[s] THEN {} ELSE Connected(s) IN
        IF s \in server
        THEN /\ record' = [record EXCEPT ![s] = l.new]
             /\ crossed' = IF Changing(s) = {c} THEN crossed ELSE crossed \cup {s}
             /\ aborted' = IF l.new.hc = l.old.hc THEN aborted ELSE aborted \ {<<"add", s>>}
             /\ Affect(touched, IF l.new = l.old THEN touched ELSE {}, "overlap")
             /\ Set(c, IF Removes(l) THEN Pass(l, "remove") ELSE AfterRemoval(l))
        ELSE /\ Return(c)
             /\ UNCHANGED <<record, crossed, aborted, session, excuse>>
    /\ UNCHANGED <<server, interface, entry, stale>>

(* Variant: the LDAP templates are forgotten. *)
AfterWithoutLdap(k) ==
    CASE k = "none" -> "adjacency" [] k = "adjacency" -> "template" [] OTHER -> "end"

(* The entries of one kind after the other. *)
After(k) ==
    CASE k = "none" -> "adjacency" [] k = "adjacency" -> "template" [] k = "template" -> "ldap" [] k = "ldap" -> "end"

ListEntries(c) ==
    /\ call[c].stage = "carry"
    /\ call[c].todo = {}
    /\ LET l == call[c]
           k == After(l.of) IN
        Set(c, IF k # "end"
               THEN [l EXCEPT !.of = k, !.todo = {e \in entry : e.kind = k /\ e.server = l.server}]
               ELSE AfterPass(l))
    /\ UNCHANGED <<table, session, history>>

(* RemoveHealthcheckAddrFromAllowedIPs, or EnsureHealthcheckAddrInAllowedIPs.   *)
Rewritten(l, e) ==
    IF l.pass = "remove" THEN e.ips \ {l.old.hc} ELSE Ensure(e.ips, l.new.hc)

(* Variant: the column accepts an entry without allowed IPs. *)
NothingRefused(ips) == FALSE

(* An empty list becomes NULL, which the column of allowed IPs refuses. *)
Refused(ips) == ips = {}

(* What is computed from the entry as it was listed is written over it, if it     *)
(* differs from what was listed.                                             *)
Rewrite(c, e) ==
    /\ call[c].stage = "carry"
    /\ e \in call[c].todo
    /\ LET l == call[c]
           ips == Rewritten(l, e)
           target == IF ips = e.ips THEN {} ELSE {f \in entry : Same(e, f)}
           touched == UNION {Owner(f) : f \in target} IN
        /\ ips = e.ips \/ ~Refused(ips)
        /\ entry' = (entry \ target) \cup {[f EXCEPT !.ips = ips] : f \in target}
        /\ stale' = stale \cup Ids({f \in target : f.ips # e.ips \/ f.server # l.server})
        /\ Affect(touched, touched \ Connected(l.server), "overlap")
        /\ Set(c, [l EXCEPT !.todo = @ \ {e}])
    /\ UNCHANGED <<server, record, interface, crossed, aborted>>

(* A listing or an update may fail, or run out of the time that a pass has; the    *)
(* rest of the pass is left.                                                 *)
CarryFails(c) ==
    /\ call[c].stage = "carry"
    /\ LET l == call[c] IN
        /\ \/ l.todo = {} /\ After(l.of) # "end"
           \/ \E e \in l.todo : Rewritten(l, e) # e.ips
        /\ aborted' = aborted \cup {<<l.pass, l.server>>}
        /\ Set(c, AfterPass(l))
    /\ UNCHANGED <<table, session, stale, crossed, excuse>>

UpdateInterface(c, s, v) ==
    /\ s \in server
    /\ Begin(c, [Request("interface", "write interface", s) EXCEPT !.old = interface[s], !.new = v])
    /\ UNCHANGED <<table, session, history>>

WriteInterface(c) ==
    /\ call[c].stage = "write interface"
    /\ LET l == call[c]
           s == l.server
           touched == IF l.new = interface[s] THEN {} ELSE Connected(s) IN
        IF s \in server
        THEN /\ interface' = [interface EXCEPT ![s] = l.new]
             /\ Affect(touched, IF l.new = l.old THEN touched ELSE {}, "overlap")
             /\ Goto(c, "invalidate")
        ELSE /\ Return(c)
             /\ UNCHANGED <<interface, session, excuse>>
    /\ UNCHANGED <<server, record, entry, stale, crossed, aborted>>

(* Variant: a change of the interface ends no session. *)
ConcernedByServer(l) == IF l.kind = "server" /\ l.old # l.new THEN Connected(l.server) ELSE l.clear

(* The devices connected to a server that has changed, or of the entry.        *)
Concerned(l) ==
    IF l.kind \in {"server", "interface"}
    THEN IF l.old # l.new THEN Connected(l.server) ELSE {}
    ELSE l.clear

Invalidate(c) ==
    /\ call[c].stage = "invalidate"
    /\ End(Concerned(call[c]))
    /\ Return(c)
    /\ UNCHANGED <<table, stale, crossed, aborted>>

Start(c) ==
    \/ \E k \in Kind, s \in Server, g \in Gift :
        \E o \in IF k = "adjacency" THEN Device ELSE {None} : CreateEntry(c, k, s, o, g)
    \/ \E e \in entry :
        \/ DeleteEntry(c, e)
        \/ \E s \in Server, g \in Gift : UpdateEntry(c, e, s, g)
    \/ \E s \in Server :
        \/ DeleteServer(c, s)
        \/ \E r \in Record : UpdateServer(c, s, r)
        \/ \E v \in Value : UpdateInterface(c, s, v)
        \/ \E r \in Record, v \in Value : CreateServer(c, s, r, v)

Continue(c) ==
    \/ InsertEntry(c)
    \/ WriteEntry(c)
    \/ WriteServer(c)
    \/ ListEntries(c)
    \/ \E e \in call[c].todo : Rewrite(c, e)
    \/ CarryFails(c)
    \/ WriteInterface(c)
    \/ Invalidate(c)

Next ==
    \/ \E c \in Call : Start(c) \/ Continue(c)
    \/ \E d \in Device : Login(d)

Spec == Init /\ [][Next]_vars

-----------------------------------------------------------------------------
Carrying(s) == \E c \in Changing(s) : call[c].stage = "carry"

(* Once a change of a server has been carried through, the healthcheck address  *)
(* is among the allowed IPs of all its entries, whatever was written before,     *)
(* after and meanwhile -- except for the entries that were written from an       *)
(* address or a list that another request had changed, for servers that two      *)
(* requests changed at a time and for those to whose entries the last address    *)
(* could not be added; the next change of it makes up for the failure.           *)
HealthcheckCovered ==
    \A e \in entry :
        \/ Covers(e.ips, record[e.server].hc)
        \/ e.id \in stale
        \/ e.server \in crossed
        \/ <<"add", e.server>> \in aborted
        \/ Carrying(e.server)

(* Carrying the address to an entry loses no network that a request gave it, and *)
(* the address of the past goes, unless removing it has failed.                *)
OnlyWhatWasGiven ==
    \A e \in entry :
        \/ e.id \in stale
        \/ /\ Network \in e.given => Network \in e.ips
           /\ \/ e.ips \subseteq e.given \cup {record[e.server].hc}
              \/ e.server \in crossed
              \/ <<"remove", e.server>> \in aborted
              \/ Carrying(e.server)

(* The types, with entries of existing servers of which none is empty but a       *)
(* server of the LDAP template that was given nothing, and that an entry has     *)
(* what it was given and the address of its server.                          *)
EntriesSound ==
    /\ TypeOK
    /\ OnlyWhatWasGiven

(* A client that was given what is no longer so of its servers or adjacencies   *)
(* will be told by the end of its session, except for the causes that history   *)
(* names.                                                                    *)
SessionFollowsServers ==
    \A d \in Device : session[d] = "outdated" /\ excuse[d] = "no" =>
        \E c \in Call :
            \/ d \in call[c].clear
            \/ /\ call[c].kind \in {"server", "interface"}
               /\ call[c].stage \in {"carry", "invalidate"}
               /\ call[c].old # call[c].new
               /\ d \in Connected(call[c].server)
=============================================================================
