--------------------------- MODULE ServersProofs ---------------------------
(***************************************************************************)
(* The healthcheck address of a server and what follows from a change of a   *)
(* server, for any requests, servers, devices, addresses and lists of allowed *)
(* IPs.                                                                    *)
(*                                                                         *)
(* None of the properties is inductive.  A change of the address is carried   *)
(* to the entries one by one, from lists that were read before: the           *)
(* invariant says, of a request in the middle of it, which entries may still   *)
(* lack the new address or have the old one (Adding, Removing), and that the   *)
(* server is as the request has written it unless another one was at work      *)
(* too.  What a request has read of an entry names the same device and kind as *)
(* the entry has now (SeenAgree), because identifiers are given once; the      *)
(* server may be another, and then the entry counts as written from a stale    *)
(* list.  A pass that fails is recorded, and the invariant owes nothing more to *)
(* the entries that it has left.                                            *)
(***************************************************************************)
EXTENDS Servers, TLAPS

Stage == {"new", "insert", "update", "invalidate", "done", "write server", "carry",
          "write interface"}

EntryForm(e) ==
    /\ e \in Entry
    /\ e.ips = {} => e.kind = "ldap" /\ e.given = {}
    /\ e.kind = "adjacency" => e.owner \in Device

(* A request, by the statement it will execute next. *)
CallForm(l) ==
    /\ DOMAIN l = DOMAIN Blank
    /\ l.stage \in Stage
    /\ l.stage = "new" => l.kind = "none"
    /\ l.clear \subseteq Device
    /\ l.stage \in {"new", "insert", "update", "done"} \/ l.kind \in {"server", "interface"}
        => l.clear = {}
    /\ l.stage \in {"insert", "update"} =>
        /\ l.kind = "entry"
        /\ l.server \in Server
        /\ l.given \in Gift
        /\ l.hc \in Addr \cup {None}
        /\ l.ips = Ensure(l.given, l.hc)
    /\ l.stage = "insert" =>
        /\ l.of \in Kind
        /\ l.given = {} => l.of = "ldap"
        /\ l.owner \in Device \cup {None}
        /\ l.of = "adjacency" => l.owner \in Device
    /\ l.stage = "update" => EntryForm(l.old) /\ (l.given = {} => l.old.kind = "ldap")
    /\ l.stage \in {"write server", "carry"} => l.kind = "server"
    /\ l.kind = "server" /\ l.stage # "done" =>
        l.server \in Server /\ l.old \in Record /\ l.new \in Record
    /\ l.stage = "write interface" => l.kind = "interface"
    /\ l.kind = "interface" /\ l.stage # "done" => l.server \in Server /\ l.new \in Value
    /\ l.stage # "carry" => l.todo = {}
    /\ l.stage = "carry" =>
        /\ \/ l.pass = "remove" /\ Removes(l)
           \/ l.pass = "add" /\ Adds(l)
        /\ l.of \in Kind \cup {"none"}
        /\ \A t \in l.todo : EntryForm(t) /\ t.kind = l.of /\ t.server = l.server

Calls == DOMAIN call = Call /\ \A c \in Call : CallForm(call[c])

Tables ==
    /\ server \subseteq Server
    /\ record \in [Server -> Record]
    /\ interface \in [Server -> Value]
    /\ \A e \in entry : EntryForm(e) /\ e.server \in server
    /\ \A e, f \in entry : e.id = f.id => e = f
    /\ session \in [Device -> Session]
    /\ stale \subseteq Call \cup Kind
    /\ crossed \subseteq Server
    /\ aborted \subseteq {"remove", "add"} \X Server
    /\ excuse \in [Device -> Cause]

-----------------------------------------------------------------------------
(* What is known of requests. *)

LEMMA Begun ==
    ASSUME Calls, NEW c \in Call, NEW r, Begin(c, r)
    PROVE  /\ call[c] = Blank
           /\ call' = [call EXCEPT ![c] = r]
           /\ DOMAIN call' = Call
           /\ call'[c] = r
           /\ \A b \in Call : b # c => call'[b] = call[b]
BY DEF Begin, Calls

LEMMA SetTo ==
    ASSUME Calls, NEW c \in Call, NEW r, Set(c, r)
    PROVE  /\ DOMAIN call' = Call
           /\ call'[c] = r
           /\ \A b \in Call : b # c => call'[b] = call[b]
BY DEF Set, Calls

LEMMA BlankForm ==
    /\ CallForm(Blank)
    /\ Blank.kind = "none"
    /\ Blank.stage = "new"
    /\ Blank.clear = {}
    /\ Blank.todo = {}
BY DEF CallForm, Blank, Stage

LEMMA CallsKept ==
    ASSUME Calls, NEW c \in Call, DOMAIN call' = Call, CallForm(call'[c]),
           \A b \in Call : b # c => call'[b] = call[b]
    PROVE  Calls'
<1>1. \A b \in Call : CallForm(call'[b])
  BY DEF Calls
<1> QED
  BY <1>1 DEF Calls

(* With the address of its server added, a list of allowed IPs is empty only if *)
(* it was.                                                                  *)
LEMMA Ensured ==
    ASSUME NEW g \in SUBSET Prefix, NEW hc \in Addr \cup {None}
    PROVE  /\ Ensure(g, hc) \in SUBSET Prefix
           /\ Ensure(g, hc) = {} => g = {}
           /\ g \subseteq Ensure(g, hc)
           /\ Ensure(g, hc) \subseteq g \cup {hc}
           /\ Covers(Ensure(g, hc), hc)
BY DEF Ensure, Covers, Prefix

(* Configurations that change make sessions outdated; a new reason to be so     *)
(* without excuse is in D only.                                             *)
LEMMA Affecting ==
    ASSUME session \in [Device -> Session], excuse \in [Device -> Cause],
           NEW D, NEW E, NEW cause \in Cause, cause # "no" \/ E = {}, Affect(D, E, cause)
    PROVE  /\ session' \in [Device -> Session]
           /\ excuse' \in [Device -> Cause]
           /\ \A d \in Device : session'[d] = "outdated" /\ excuse'[d] = "no" =>
                 d \notin E /\ (d \in D \/ (session[d] = "outdated" /\ excuse[d] = "no"))
BY DEF Affect, Session, Cause

(* Sessions end, or it is recorded that they should have. *)
LEMMA Ending ==
    ASSUME session \in [Device -> Session], excuse \in [Device -> Cause], NEW D, End(D)
    PROVE  /\ session' \in [Device -> Session]
           /\ excuse' \in [Device -> Cause]
           /\ \A d \in Device : session'[d] = "outdated" /\ excuse'[d] = "no" =>
                 d \notin D /\ session[d] = "outdated" /\ excuse[d] = "no"
BY DEF End, Session, Cause

-----------------------------------------------------------------------------
(* What each statement does to the request that executes it. *)

(* The other requests stay where they are. *)
Others(c) ==
    /\ DOMAIN call' = Call
    /\ \A b \in Call : b # c => call'[b] = call[b]

(* A request begins. *)
LEMMA CreateEntryEffect ==
    ASSUME Calls, Tables, NEW c \in Call, NEW k \in Kind, NEW s \in Server, NEW g \in Gift,
           NEW o \in IF k = "adjacency" THEN Device ELSE {None}, CreateEntry(c, k, s, o, g)
    PROVE  /\ Others(c) /\ call[c] = Blank
           /\ CallForm(call'[c])
           /\ call'[c].kind = "entry" /\ call'[c].stage = "insert"
           /\ call'[c].clear = {} /\ call'[c].todo = {}
           /\ UNCHANGED <<table, session, history>>
<1> DEFINE hc == record[s].hc
           r == [Request("entry", "insert", s) EXCEPT
                    !.of = k, !.owner = o, !.hc = hc, !.given = g, !.ips = Ensure(g, hc)]
<1>1. Begin(c, r) /\ UNCHANGED <<table, session, history>>
  BY DEF CreateEntry
<1>0. g = {} => k = "ldap"
  BY DEF CreateEntry, Allowed
<1>2. hc \in Addr \cup {None}
  BY DEF Tables, Record
<1>3. /\ DOMAIN r = DOMAIN Blank
      /\ r.kind = "entry" /\ r.stage = "insert" /\ r.server = s /\ r.of = k /\ r.owner = o
      /\ r.hc = hc /\ r.given = g /\ r.ips = Ensure(g, hc)
      /\ r.clear = {} /\ r.todo = {}
  BY DEF Request, Blank
<1> HIDE DEF r, hc
<1>4. CallForm(r)
  BY <1>0, <1>2, <1>3 DEF CallForm, Stage
<1> QED
  BY <1>1, <1>3, <1>4, Begun DEF Others

LEMMA UpdateEntryEffect ==
    ASSUME Calls, Tables, NEW c \in Call, NEW e \in entry, NEW s \in Server, NEW g \in Gift,
           UpdateEntry(c, e, s, g)
    PROVE  /\ Others(c) /\ call[c] = Blank
           /\ CallForm(call'[c])
           /\ call'[c].kind = "entry" /\ call'[c].stage = "update"
           /\ call'[c].old = e
           /\ call'[c].clear = {} /\ call'[c].todo = {}
           /\ UNCHANGED <<table, session, history>>
<1> DEFINE hc == record[s].hc
           r == [Request("entry", "update", s) EXCEPT
                    !.old = e, !.hc = hc, !.given = g, !.ips = Ensure(g, hc)]
<1>1. Begin(c, r) /\ UNCHANGED <<table, session, history>>
  BY DEF UpdateEntry
<1>2. EntryForm(e) /\ (g = {} => e.kind = "ldap")
  BY DEF Tables, UpdateEntry, Allowed
<1>3. hc \in Addr \cup {None}
  BY <1>2 DEF Tables, Record
<1>4. /\ DOMAIN r = DOMAIN Blank
      /\ r.kind = "entry" /\ r.stage = "update" /\ r.server = s /\ r.old = e
      /\ r.hc = hc /\ r.given = g /\ r.ips = Ensure(g, hc)
      /\ r.clear = {} /\ r.todo = {}
  BY DEF Request, Blank
<1> HIDE DEF r, hc
<1>5. CallForm(r)
  BY <1>2, <1>3, <1>4 DEF CallForm, Stage
<1> QED
  BY <1>1, <1>4, <1>5, Begun DEF Others

LEMMA UpdateServerEffect ==
    ASSUME Calls, Tables, NEW c \in Call, NEW s \in Server, NEW n \in Record, UpdateServer(c, s, n)
    PROVE  /\ Others(c) /\ call[c] = Blank
           /\ CallForm(call'[c])
           /\ call'[c].kind = "server" /\ call'[c].stage = "write server"
           /\ call'[c].server = s /\ call'[c].old = record[s] /\ s \in server
           /\ call'[c].clear = {} /\ call'[c].todo = {}
           /\ UNCHANGED <<table, session, history>>
<1> DEFINE r == [Request("server", "write server", s) EXCEPT !.old = record[s], !.new = n]
<1>1. Begin(c, r) /\ s \in server /\ UNCHANGED <<table, session, history>>
  BY DEF UpdateServer
<1>2. record[s] \in Record
  BY DEF Tables
<1>3. /\ DOMAIN r = DOMAIN Blank
      /\ r.kind = "server" /\ r.stage = "write server" /\ r.server = s
      /\ r.old = record[s] /\ r.new = n
      /\ r.clear = {} /\ r.todo = {}
  BY DEF Request, Blank
<1> HIDE DEF r
<1>4. CallForm(r)
  BY <1>2, <1>3 DEF CallForm, Stage
<1> QED
  BY <1>1, <1>3, <1>4, Begun DEF Others

LEMMA UpdateInterfaceEffect ==
    ASSUME Calls, Tables, NEW c \in Call, NEW s \in Server, NEW v \in Value, UpdateInterface(c, s, v)
    PROVE  /\ Others(c) /\ call[c] = Blank
           /\ CallForm(call'[c])
           /\ call'[c].kind = "interface" /\ call'[c].stage = "write interface"
           /\ call'[c].clear = {} /\ call'[c].todo = {}
           /\ UNCHANGED <<table, session, history>>
<1> DEFINE r == [Request("interface", "write interface", s) EXCEPT !.old = interface[s], !.new = v]
<1>1. Begin(c, r) /\ UNCHANGED <<table, session, history>>
  BY DEF UpdateInterface
<1>2. /\ DOMAIN r = DOMAIN Blank
      /\ r.kind = "interface" /\ r.stage = "write interface" /\ r.server = s
      /\ r.new = v
      /\ r.clear = {} /\ r.todo = {}
  BY DEF Request, Blank
<1> HIDE DEF r
<1>3. CallForm(r)
  BY <1>2 DEF CallForm, Stage
<1> QED
  BY <1>1, <1>2, <1>3, Begun DEF Others

LEMMA CreateServerEffect ==
    ASSUME Calls, Tables, NEW c \in Call, NEW s \in Server, NEW n \in Record, NEW v \in Value,
           CreateServer(c, s, n, v)
    PROVE  /\ Others(c) /\ call[c] = Blank
           /\ CallForm(call'[c])
           /\ call'[c].kind = "create server" /\ call'[c].stage = "done"
           /\ call'[c].clear = {} /\ call'[c].todo = {}
           /\ s \notin server
           /\ \A b \in Call : call[b].kind = "delete server" => call[b].server # s
           /\ server' = server \cup {s}
           /\ record' \in [Server -> Record]
           /\ \A x \in Server : x # s => record'[x] = record[x]
           /\ interface' \in [Server -> Value]
           /\ UNCHANGED <<entry, session, history>>
<1> DEFINE r == Request("create server", "done", s)
<1>1. /\ Begin(c, r)
      /\ s \notin server
      /\ \A b \in Call : call[b].kind = "delete server" => call[b].server # s
      /\ server' = server \cup {s}
      /\ UNCHANGED <<entry, session, history>>
  BY DEF CreateServer
<1>2. /\ DOMAIN r = DOMAIN Blank
      /\ r.kind = "create server" /\ r.stage = "done"
      /\ r.clear = {} /\ r.todo = {}
  BY DEF Request, Blank
<1>3. /\ record' \in [Server -> Record]
      /\ \A x \in Server : x # s => record'[x] = record[x]
      /\ interface' \in [Server -> Value]
  BY DEF CreateServer, Tables
<1> HIDE DEF r
<1>4. CallForm(r)
  BY <1>2 DEF CallForm, Stage
<1>5. call[c] = Blank /\ call'[c] = r /\ Others(c)
  BY <1>1, Begun DEF Others
<1> QED
  BY <1>1, <1>2, <1>3, <1>4, <1>5

LEMMA DeleteServerEffect ==
    ASSUME Calls, Tables, NEW c \in Call, NEW s \in Server, DeleteServer(c, s)
    PROVE  /\ Others(c) /\ call[c] = Blank
           /\ CallForm(call'[c])
           /\ call'[c].kind = "delete server" /\ call'[c].stage = "done" /\ call'[c].server = s
           /\ call'[c].clear = {} /\ call'[c].todo = {}
           /\ server' = server \ {s}
           /\ entry' = {e \in entry : e.server # s}
           /\ Affect(Connected(s), Connected(s), "server")
           /\ UNCHANGED <<record, interface, stale, crossed, aborted>>
<1> DEFINE r == Request("delete server", "done", s)
<1>1. /\ Begin(c, r)
      /\ server' = server \ {s}
      /\ entry' = {e \in entry : e.server # s}
      /\ Affect(Connected(s), Connected(s), "server")
      /\ UNCHANGED <<record, interface, stale, crossed, aborted>>
  BY DEF DeleteServer
<1>2. /\ DOMAIN r = DOMAIN Blank
      /\ r.kind = "delete server" /\ r.stage = "done" /\ r.server = s
      /\ r.clear = {} /\ r.todo = {}
  BY DEF Request, Blank
<1> HIDE DEF r
<1>3. CallForm(r)
  BY <1>2 DEF CallForm, Stage
<1> QED
  BY <1>1, <1>2, <1>3, Begun DEF Others

LEMMA DeleteEntryEffect ==
    ASSUME Calls, Tables, NEW c \in Call, NEW e \in entry, DeleteEntry(c, e)
    PROVE  /\ Others(c) /\ call[c] = Blank
           /\ CallForm(call'[c])
           /\ call'[c].kind = "entry" /\ call'[c].stage = "invalidate"
           /\ call'[c].clear = Owner(e) /\ call'[c].todo = {}
           /\ entry' = {f \in entry : ~Same(e, f)}
           /\ Affect(Owner(e), {}, "no")
           /\ UNCHANGED <<server, record, interface, stale, crossed, aborted>>
<1> DEFINE r == Clearing(e.server, Owner(e))
<1>1. /\ Begin(c, r)
      /\ entry' = {f \in entry : ~Same(e, f)}
      /\ Affect(Owner(e), {}, "no")
      /\ UNCHANGED <<server, record, interface, stale, crossed, aborted>>
  BY DEF DeleteEntry
<1>2. Owner(e) \subseteq Device
  BY DEF Tables, EntryForm, Owner
<1>3. /\ DOMAIN r = DOMAIN Blank
      /\ r.kind = "entry" /\ r.stage = "invalidate"
      /\ r.clear = Owner(e) /\ r.todo = {}
  BY DEF Clearing, Request, Blank
<1> HIDE DEF r
<1>4. CallForm(r)
  BY <1>2, <1>3 DEF CallForm, Stage
<1> QED
  BY <1>1, <1>3, <1>4, Begun DEF Others

(* The request goes to another stage and keeps what it has. *)
LEMMA GotoEffect ==
    ASSUME Calls, NEW c \in Call, NEW stage \in Stage, Goto(c, stage)
    PROVE  /\ Others(c)
           /\ DOMAIN call'[c] = DOMAIN call[c]
           /\ call'[c].stage = stage
           /\ call'[c].kind = call[c].kind /\ call'[c].server = call[c].server
           /\ call'[c].old = call[c].old /\ call'[c].new = call[c].new
           /\ call'[c].clear = call[c].clear /\ call'[c].todo = call[c].todo
<1> DEFINE r == [call[c] EXCEPT !.stage = stage]
<1>1. Set(c, r)
  BY DEF Goto
<1>2. DOMAIN call[c] = DOMAIN Blank
  BY DEF Calls, CallForm
<1>3. /\ DOMAIN r = DOMAIN call[c]
      /\ r.stage = stage
      /\ r.kind = call[c].kind /\ r.server = call[c].server
      /\ r.old = call[c].old /\ r.new = call[c].new
      /\ r.clear = call[c].clear /\ r.todo = call[c].todo
  BY <1>2 DEF Blank
<1> HIDE DEF r
<1> QED
  BY <1>1, <1>3, SetTo DEF Others

(* The request returns and keeps nothing but its kind and server. *)
LEMMA ReturnEffect ==
    ASSUME Calls, NEW c \in Call, Return(c)
    PROVE  /\ Others(c)
           /\ call'[c].stage = "done"
           /\ call'[c].kind = call[c].kind /\ call'[c].server = call[c].server
           /\ call'[c].clear = {} /\ call'[c].todo = {}
           /\ CallForm(call'[c])
<1> DEFINE r == Request(call[c].kind, "done", call[c].server)
<1>1. Set(c, r)
  BY DEF Return
<1>2. /\ DOMAIN r = DOMAIN Blank
      /\ r.stage = "done"
      /\ r.kind = call[c].kind /\ r.server = call[c].server
      /\ r.clear = {} /\ r.todo = {}
  BY DEF Request, Blank
<1> HIDE DEF r
<1>3. CallForm(r)
  BY <1>2 DEF CallForm, Stage
<1> QED
  BY <1>1, <1>2, <1>3, SetTo DEF Others

(* What a request for a change of a server keeps until it returns. *)
SameChange(l, m) ==
    /\ DOMAIN m = DOMAIN l
    /\ m.kind = l.kind /\ m.server = l.server /\ m.old = l.old /\ m.new = l.new
    /\ m.clear = l.clear

LEMMA PassFields ==
    ASSUME NEW l, DOMAIN l = DOMAIN Blank, NEW pass
    PROVE  /\ SameChange(l, Pass(l, pass))
           /\ Pass(l, pass).stage = "carry" /\ Pass(l, pass).pass = pass
           /\ Pass(l, pass).of = "none" /\ Pass(l, pass).todo = {}
BY DEF Pass, Blank, SameChange

(* After the removal, or when there is nothing to remove, the address is added *)
(* if it is new; else the sessions are ended.                               *)
LEMMA AfterRemovalFields ==
    ASSUME NEW l, DOMAIN l = DOMAIN Blank
    PROVE  /\ SameChange(l, AfterRemoval(l))
           /\ AfterRemoval(l).todo = {}
           /\ \/ /\ Adds(l)
                 /\ AfterRemoval(l).stage = "carry" /\ AfterRemoval(l).pass = "add"
                 /\ AfterRemoval(l).of = "none"
              \/ ~Adds(l) /\ AfterRemoval(l).stage = "invalidate"
           /\ SameChange(l, ToInvalidate(l))
           /\ ToInvalidate(l).todo = {} /\ ToInvalidate(l).stage = "invalidate"
<1>0. /\ SameChange(l, ToInvalidate(l))
      /\ ToInvalidate(l).todo = {} /\ ToInvalidate(l).stage = "invalidate"
  BY DEF ToInvalidate, Blank, SameChange
<1>1. CASE Adds(l)
  BY <1>0, <1>1, PassFields DEF AfterRemoval
<1>2. CASE ~Adds(l)
  BY <1>0, <1>2 DEF AfterRemoval
<1> QED
  BY <1>1, <1>2

(* A pass is over: after a removal the address may still have to be added. *)
LEMMA AfterPassFields ==
    ASSUME NEW l, DOMAIN l = DOMAIN Blank
    PROVE  /\ SameChange(l, AfterPass(l))
           /\ AfterPass(l).todo = {}
           /\ \/ /\ l.pass = "remove" /\ Adds(l)
                 /\ AfterPass(l).stage = "carry" /\ AfterPass(l).pass = "add"
                 /\ AfterPass(l).of = "none"
              \/ /\ l.pass = "remove" => ~Adds(l)
                 /\ AfterPass(l).stage = "invalidate"
BY AfterRemovalFields DEF AfterPass

(* The form of a request that changes a server depends on what it keeps, on its *)
(* stage and on where it is in carrying the address.                        *)
LEMMA ChangeForm ==
    ASSUME NEW l, CallForm(l), l.kind = "server", l.stage # "done", NEW m, SameChange(l, m),
           \/ m.stage = "carry" /\ m.todo = {} /\ m.of = "none"
              /\ ((m.pass = "remove" /\ Removes(l)) \/ (m.pass = "add" /\ Adds(l)))
           \/ m.stage \in {"invalidate", "done"} /\ m.todo = {}
    PROVE  CallForm(m)
BY DEF CallForm, SameChange, Stage, Removes, Adds

LEMMA InsertEntryEffect ==
    ASSUME Calls, Tables, NEW c \in Call, InsertEntry(c)
    PROVE  /\ Others(c)
           /\ CallForm(call'[c])
           /\ call[c].stage = "insert" /\ call'[c].todo = {}
           /\ call[c].kind = "entry" /\ call'[c].kind = "entry"
           /\ UNCHANGED <<server, record, interface, crossed, aborted>>
           /\ \/ /\ \E new \in Entry :
                      /\ EntryForm(new) /\ new.id = c
                      /\ new.server \in server
                      /\ new.given \subseteq new.ips
                      /\ new.ips \subseteq new.given \cup {call[c].hc}
                      /\ Covers(new.ips, call[c].hc)
                      /\ entry' = entry \cup {new}
                      /\ stale' = IF record[new.server].hc = call[c].hc THEN stale ELSE stale \cup {c}
                      /\ Affect(Owner(new), {}, "no")
                      /\ call'[c].clear = Owner(new)
                 /\ call'[c].stage = "invalidate"
              \/ /\ call'[c].stage = "done" /\ call'[c].clear = {}
                 /\ UNCHANGED <<entry, stale, session, excuse>>
<1> DEFINE l == call[c]
           new == [id |-> c, kind |-> l.of, server |-> l.server, owner |-> l.owner,
                   ips |-> l.ips, given |-> l.given]
           r == Clearing(l.server, Owner(new))
<1>1. /\ CallForm(l) /\ DOMAIN l = DOMAIN Blank /\ l.stage = "insert" /\ l.kind = "entry"
      /\ l.clear = {} /\ l.todo = {}
      /\ l.server \in Server /\ l.given \in SUBSET Prefix /\ (l.given = {} => l.of = "ldap") /\ l.hc \in Addr \cup {None}
      /\ l.ips = Ensure(l.given, l.hc)
      /\ l.of \in Kind /\ l.owner \in Device \cup {None} /\ (l.of = "adjacency" => l.owner \in Device)
  BY GiftAssumption DEF InsertEntry, Calls, CallForm
<1>2. UNCHANGED <<server, record, interface, crossed, aborted>>
  BY DEF InsertEntry
<1>3. CASE l.server \in server
  <2>1. /\ entry' = entry \cup {new}
        /\ stale' = IF record[l.server].hc = l.hc THEN stale ELSE stale \cup {c}
        /\ Affect(Owner(new), {}, "no")
        /\ Set(c, r)
    BY <1>3 DEF InsertEntry
  <2>2. /\ new.id = c /\ new.kind = l.of /\ new.server = l.server /\ new.owner = l.owner
        /\ new.ips = l.ips /\ new.given = l.given
    OBVIOUS
  <2>3. l.ips \in SUBSET Prefix /\ (l.ips = {} => l.given = {}) /\ l.given \subseteq l.ips
        /\ l.ips \subseteq l.given \cup {l.hc} /\ Covers(l.ips, l.hc)
    BY <1>1, Ensured
  <2>4. new \in Entry
    BY <1>1, <2>3 DEF Entry
  <2> HIDE DEF new
  <2>5. EntryForm(new) /\ Owner(new) \subseteq Device
    BY <1>1, <2>2, <2>3, <2>4 DEF EntryForm, Owner
  <2>6. /\ DOMAIN r = DOMAIN Blank /\ r.kind = "entry" /\ r.stage = "invalidate"
        /\ r.clear = Owner(new) /\ r.todo = {}
    BY DEF Clearing, Request, Blank
  <2> HIDE DEF r
  <2>7. CallForm(r)
    BY <2>5, <2>6 DEF CallForm, Stage
  <2>8. Others(c) /\ call'[c] = r
    BY <2>1, SetTo DEF Others
  <2> QED
    BY <1>1, <1>2, <1>3, <2>1, <2>2, <2>3, <2>4, <2>5, <2>6, <2>7, <2>8
<1>4. CASE l.server \notin server
  <2>1. Return(c) /\ UNCHANGED <<entry, stale, session, excuse>>
    BY <1>4 DEF InsertEntry
  <2>2. /\ Others(c) /\ CallForm(call'[c])
        /\ call'[c].stage = "done" /\ call'[c].kind = l.kind
        /\ call'[c].clear = {} /\ call'[c].todo = {}
    BY <2>1, ReturnEffect
  <2> QED
    BY <1>1, <1>2, <2>1, <2>2
<1> QED
  BY <1>3, <1>4

LEMMA WriteEntryEffect ==
    ASSUME Calls, Tables, NEW c \in Call, WriteEntry(c)
    PROVE  LET l == call[c]
               m == call'[c]
               target == {f \in entry : Same(l.old, f)}
               touched == UNION {Owner(f) : f \in {e \in target : e.ips # l.ips \/ e.server # l.server}} IN
           /\ Others(c)
           /\ CallForm(m)
           /\ l.stage = "update" /\ l.kind = "entry"
           /\ EntryForm(l.old) /\ l.server \in Server
           /\ l.ips \in SUBSET Prefix /\ l.given \subseteq l.ips
           /\ l.ips = {} => l.old.kind = "ldap" /\ l.given = {}
           /\ l.given \in SUBSET Prefix
           /\ l.ips \subseteq l.given \cup {l.hc} /\ Covers(l.ips, l.hc)
           /\ m.kind = "entry" /\ m.todo = {}
           /\ l.clear = {}
           /\ \/ /\ l.server \in server
                 /\ m.stage = "invalidate"
                 /\ entry' = (entry \ target) \cup
                       {[f EXCEPT !.server = l.server, !.ips = l.ips, !.given = l.given] : f \in target}
                 /\ stale' = IF l.hc = record[l.server].hc THEN stale \ Ids(target) ELSE stale \cup Ids(target)
                 /\ Affect(touched, touched \ m.clear, "overlap")
              \/ /\ m.stage = "done" /\ m.clear = {}
                 /\ UNCHANGED <<entry, stale, session, excuse>>
           /\ UNCHANGED <<server, record, interface, crossed, aborted>>
<1> DEFINE l == call[c]
           target == {f \in entry : Same(l.old, f)}
           touched == UNION {Owner(f) : f \in {e \in target : e.ips # l.ips \/ e.server # l.server}}
           clear == IF l.ips = l.old.ips /\ l.server = l.old.server THEN {} ELSE Owner(l.old)
           r == Clearing(l.server, clear)
<1>1. /\ l.stage = "update" /\ l.kind = "entry"
      /\ l.clear = {}
      /\ l.server \in Server /\ l.given \in SUBSET Prefix /\ l.hc \in Addr \cup {None}
      /\ l.ips = Ensure(l.given, l.hc)
      /\ EntryForm(l.old) /\ (l.given = {} => l.old.kind = "ldap")
  BY GiftAssumption DEF WriteEntry, Calls, CallForm
<1>2. UNCHANGED <<server, record, interface, crossed, aborted>>
  BY DEF WriteEntry
<1>3. /\ l.ips \in SUBSET Prefix /\ l.given \subseteq l.ips
      /\ l.ips = {} => l.old.kind = "ldap" /\ l.given = {}
      /\ l.ips \subseteq l.given \cup {l.hc} /\ Covers(l.ips, l.hc)
  <2>1. l.given \in SUBSET Prefix /\ l.hc \in Addr \cup {None}
    BY <1>1
  <2>2. l.ips = Ensure(l.given, l.hc) /\ (l.given = {} => l.old.kind = "ldap")
    BY <1>1
  <2> HIDE DEF l
  <2>3. /\ Ensure(l.given, l.hc) \in SUBSET Prefix
        /\ Ensure(l.given, l.hc) = {} => l.given = {}
        /\ l.given \subseteq Ensure(l.given, l.hc)
        /\ Ensure(l.given, l.hc) \subseteq l.given \cup {l.hc}
        /\ Covers(Ensure(l.given, l.hc), l.hc)
    BY <2>1, Ensured
  <2> QED
    BY <2>2, <2>3
<1>4. CASE target # {} /\ l.server \in server
  <2>1. /\ entry' = (entry \ target) \cup
              {[f EXCEPT !.server = l.server, !.ips = l.ips, !.given = l.given] : f \in target}
        /\ stale' = IF l.hc = record[l.server].hc THEN stale \ Ids(target) ELSE stale \cup Ids(target)
        /\ Affect(touched, touched \ clear, "overlap")
        /\ Set(c, r)
    BY <1>4 DEF WriteEntry
  <2>2. clear \subseteq Device
    BY <1>1 DEF EntryForm, Owner
  <2>3. /\ DOMAIN r = DOMAIN Blank /\ r.kind = "entry" /\ r.stage = "invalidate"
        /\ r.clear = clear /\ r.todo = {}
    BY DEF Clearing, Request, Blank
  <2> HIDE DEF r, clear
  <2>4. CallForm(r)
    BY <2>2, <2>3 DEF CallForm, Stage
  <2>5. Others(c) /\ call'[c] = r
    BY <2>1, SetTo DEF Others
  <2> QED
    BY <1>1, <1>2, <1>3, <1>4, <2>1, <2>3, <2>4, <2>5
<1>5. CASE ~(target # {} /\ l.server \in server)
  <2>1. Return(c) /\ UNCHANGED <<entry, stale, session, excuse>>
    BY <1>5 DEF WriteEntry
  <2>2. /\ Others(c) /\ CallForm(call'[c])
        /\ call'[c].stage = "done" /\ call'[c].kind = l.kind
        /\ call'[c].clear = {} /\ call'[c].todo = {}
    BY <2>1, ReturnEffect
  <2> QED
    BY <1>1, <1>2, <1>3, <2>1, <2>2
<1> QED
  BY <1>4, <1>5

LEMMA WriteServerEffect ==
    ASSUME Calls, Tables, NEW c \in Call, WriteServer(c)
    PROVE  LET l == call[c]
               m == call'[c]
               s == l.server
               touched == IF l.new = record[s] THEN {} ELSE Connected(s) IN
           /\ Others(c)
           /\ CallForm(m)
           /\ l.stage = "write server" /\ l.kind = "server" /\ s \in Server
           /\ l.new \in Record /\ l.clear = {}
           /\ m.kind = "server" /\ m.server = s /\ m.clear = {} /\ m.todo = {}
           /\ \/ /\ s \in server
                 /\ SameChange(l, m)
                 /\ aborted' = IF l.new.hc = l.old.hc THEN aborted ELSE aborted \ {<<"add", s>>}
                 /\ record' = [record EXCEPT ![s] = l.new]
                 /\ crossed' = IF Changing(s) = {c} THEN crossed ELSE crossed \cup {s}
                 /\ Affect(touched, IF l.new = l.old THEN touched ELSE {}, "overlap")
                 /\ \/ m.stage = "carry" /\ m.pass = "remove" /\ m.of = "none" /\ Removes(l)
                    \/ m.stage = "carry" /\ m.pass = "add" /\ m.of = "none" /\ ~Removes(l) /\ Adds(l)
                    \/ m.stage = "invalidate" /\ ~Removes(l) /\ ~Adds(l)
              \/ /\ s \notin server
                 /\ m.stage = "done"
                 /\ UNCHANGED <<record, crossed, aborted, session, excuse>>
           /\ UNCHANGED <<server, interface, entry, stale>>
<1> DEFINE l == call[c]
           s == l.server
           touched == IF l.new = record[s] THEN {} ELSE Connected(s)
           r == IF Removes(l) THEN Pass(l, "remove") ELSE AfterRemoval(l)
<1>1. /\ CallForm(l) /\ DOMAIN l = DOMAIN Blank /\ l.stage = "write server" /\ l.kind = "server"
      /\ s \in Server /\ l.new \in Record /\ l.clear = {} /\ l.todo = {}
  BY DEF WriteServer, Calls, CallForm
<1>2. UNCHANGED <<server, interface, entry, stale>>
  BY DEF WriteServer
<1>3. CASE s \in server
  <2>1. /\ record' = [record EXCEPT ![s] = l.new]
        /\ crossed' = IF Changing(s) = {c} THEN crossed ELSE crossed \cup {s}
        /\ aborted' = IF l.new.hc = l.old.hc THEN aborted ELSE aborted \ {<<"add", s>>}
        /\ Affect(touched, IF l.new = l.old THEN touched ELSE {}, "overlap")
        /\ Set(c, r)
    BY <1>3 DEF WriteServer
  <2>2. /\ SameChange(l, r) /\ r.todo = {}
        /\ \/ r.stage = "carry" /\ r.pass = "remove" /\ r.of = "none" /\ Removes(l)
           \/ r.stage = "carry" /\ r.pass = "add" /\ r.of = "none" /\ ~Removes(l) /\ Adds(l)
           \/ r.stage = "invalidate" /\ ~Removes(l) /\ ~Adds(l)
    <3>1. CASE Removes(l)
      <4>1. r = Pass(l, "remove")
        BY <3>1
      <4>2. /\ SameChange(l, Pass(l, "remove"))
            /\ Pass(l, "remove").stage = "carry" /\ Pass(l, "remove").pass = "remove"
            /\ Pass(l, "remove").of = "none" /\ Pass(l, "remove").todo = {}
        BY <1>1, PassFields
      <4> HIDE DEF r
      <4> QED
        BY <3>1, <4>1, <4>2
    <3>2. CASE ~Removes(l)
      <4>1. r = AfterRemoval(l)
        BY <3>2
      <4>2. /\ SameChange(l, AfterRemoval(l))
            /\ AfterRemoval(l).todo = {}
            /\ \/ /\ Adds(l)
                  /\ AfterRemoval(l).stage = "carry" /\ AfterRemoval(l).pass = "add"
                  /\ AfterRemoval(l).of = "none"
               \/ ~Adds(l) /\ AfterRemoval(l).stage = "invalidate"
        BY <1>1, AfterRemovalFields
      <4> HIDE DEF r
      <4> QED
        BY <3>2, <4>1, <4>2
    <3> QED
      BY <3>1, <3>2
  <2> HIDE DEF r
  <2>3. CallForm(r)
    <3> HIDE DEF l
    <3>1. CallForm(l) /\ l.kind = "server" /\ l.stage # "done"
      BY <1>1
    <3>2. \/ r.stage = "carry" /\ r.todo = {} /\ r.of = "none"
             /\ ((r.pass = "remove" /\ Removes(l)) \/ (r.pass = "add" /\ Adds(l)))
          \/ r.stage \in {"invalidate", "done"} /\ r.todo = {}
      BY <2>2
    <3>3. SameChange(l, r)
      BY <2>2
    <3> QED
      BY <3>1, <3>2, <3>3, ChangeForm
  <2>4. Others(c) /\ call'[c] = r
    BY <2>1, SetTo DEF Others
  <2>5. r.kind = "server" /\ r.server = s /\ r.clear = {}
    BY <1>1, <2>2 DEF SameChange
  <2> QED
    BY <1>1, <1>2, <1>3, <2>1, <2>2, <2>3, <2>4, <2>5
<1>4. CASE s \notin server
  <2>1. Return(c) /\ UNCHANGED <<record, crossed, aborted, session, excuse>>
    BY <1>4 DEF WriteServer
  <2>2. /\ Others(c) /\ CallForm(call'[c])
        /\ call'[c].stage = "done" /\ call'[c].kind = l.kind /\ call'[c].server = s
        /\ call'[c].clear = {} /\ call'[c].todo = {}
    BY <2>1, ReturnEffect
  <2> QED
    BY <1>1, <1>2, <1>4, <2>1, <2>2
<1> QED
  BY <1>3, <1>4

LEMMA ListEntriesEffect ==
    ASSUME Calls, Tables, NEW c \in Call, ListEntries(c)
    PROVE  LET l == call[c]
               m == call'[c]
               k == After(l.of) IN
           /\ Others(c)
           /\ CallForm(m)
           /\ l.stage = "carry" /\ l.kind = "server" /\ l.todo = {} /\ l.server \in Server
           /\ SameChange(l, m)
           /\ \/ /\ k # "end"
                 /\ m.stage = "carry" /\ m.pass = l.pass /\ m.of = k
                 /\ m.todo = {e \in entry : e.kind = k /\ e.server = l.server}
              \/ /\ k = "end" /\ l.pass = "remove" /\ Adds(l)
                 /\ m.stage = "carry" /\ m.pass = "add" /\ m.of = "none" /\ m.todo = {}
              \/ /\ k = "end" /\ (l.pass = "remove" => ~Adds(l))
                 /\ m.stage = "invalidate" /\ m.todo = {}
           /\ UNCHANGED <<table, session, history>>
<1> DEFINE l == call[c]
           k == After(l.of)
           T == {e \in entry : e.kind = k /\ e.server = l.server}
           listing == [l EXCEPT !.of = k, !.todo = T]
<1>1. /\ CallForm(l) /\ DOMAIN l = DOMAIN Blank /\ l.stage = "carry" /\ l.kind = "server"
      /\ l.todo = {} /\ l.of \in Kind \cup {"none"} /\ l.pass \in {"remove", "add"}
      /\ l.server \in Server
  BY DEF ListEntries, Calls, CallForm
<1>2. /\ Set(c, IF k # "end" THEN listing ELSE AfterPass(l))
      /\ UNCHANGED <<table, session, history>>
  BY DEF ListEntries
<1>3. k \in Kind \cup {"end"}
  BY <1>1 DEF After, Kind
<1>4. CASE k # "end"
  <2>1. /\ SameChange(l, listing) /\ listing.stage = "carry" /\ listing.pass = l.pass
        /\ listing.of = k /\ listing.todo = T
    BY <1>1 DEF Blank, SameChange
  <2>2. \A t \in T : EntryForm(t) /\ t.kind = k /\ t.server = l.server
    BY DEF Tables
  <2>3. Others(c) /\ call'[c] = listing
    BY <1>2, <1>4, SetTo DEF Others
  <2> HIDE DEF listing, T, k
  <2>4. CallForm(listing)
    BY <1>1, <1>3, <1>4, <2>1, <2>2 DEF CallForm, SameChange, Removes, Adds
  <2> QED
    BY <1>1, <1>2, <1>4, <2>1, <2>3, <2>4 DEF k, T
<1>5. CASE k = "end"
  <2>1. Others(c) /\ call'[c] = AfterPass(l)
    BY <1>2, <1>5, SetTo DEF Others
  <2>2. /\ SameChange(l, AfterPass(l))
        /\ AfterPass(l).todo = {}
        /\ \/ /\ l.pass = "remove" /\ Adds(l)
              /\ AfterPass(l).stage = "carry" /\ AfterPass(l).pass = "add"
              /\ AfterPass(l).of = "none"
           \/ (l.pass = "remove" => ~Adds(l)) /\ AfterPass(l).stage = "invalidate"
    BY <1>1, AfterPassFields
  <2>3. CallForm(AfterPass(l))
    BY <1>1, <2>2, ChangeForm
  <2> QED
    BY <1>1, <1>2, <1>5, <2>1, <2>2, <2>3
<1> QED
  BY <1>4, <1>5

(* An address is removed only if there was another one. *)
LEMMA RewrittenFacts ==
    ASSUME NEW l, CallForm(l), l.stage = "carry", NEW e \in l.todo
    PROVE  /\ Rewritten(l, e) \in SUBSET Prefix
           /\ Network \in e.ips => Network \in Rewritten(l, e)
           /\ l.pass = "remove" => Rewritten(l, e) = e.ips \ {l.old.hc}
           /\ l.pass = "add" => /\ Covers(Rewritten(l, e), l.new.hc)
                                /\ Rewritten(l, e) = {} => Rewritten(l, e) = e.ips
                                /\ Rewritten(l, e) \subseteq e.ips \cup {l.new.hc}
                                /\ Rewritten(l, e) = e.ips => Covers(e.ips, l.new.hc)
<1>1. e.ips \in SUBSET Prefix
  BY DEF CallForm, EntryForm, Entry
<1>2. /\ l.kind = "server" /\ l.old \in Record /\ l.new \in Record
      /\ l.pass = "remove" \/ l.pass = "add"
      /\ l.pass = "remove" => Removes(l)
  BY DEF CallForm
<1>3. l.old.hc \in Addr \cup {None} /\ l.new.hc \in Addr \cup {None}
  BY <1>2 DEF Record
<1>4. CASE l.pass = "remove"
  <2>1. l.old.hc \in Addr
    BY <1>2, <1>3, <1>4 DEF Removes
  <2> QED
    BY <1>1, <1>4, <2>1, NetworkAssumption DEF Rewritten
<1>5. CASE l.pass = "add"
  <2>1. Rewritten(l, e) = Ensure(e.ips, l.new.hc)
    BY <1>5 DEF Rewritten
  <2>2. /\ Ensure(e.ips, l.new.hc) \in SUBSET Prefix
        /\ Ensure(e.ips, l.new.hc) = {} => e.ips = {}
        /\ e.ips \subseteq Ensure(e.ips, l.new.hc)
        /\ Ensure(e.ips, l.new.hc) \subseteq e.ips \cup {l.new.hc}
        /\ Covers(Ensure(e.ips, l.new.hc), l.new.hc)
    BY <1>1, <1>3, Ensured
  <2> QED
    BY <1>5, <2>1, <2>2
<1> QED
  BY <1>2, <1>4, <1>5

LEMMA RewriteEffect ==
    ASSUME Calls, Tables, NEW c \in Call, NEW e \in call[c].todo, Rewrite(c, e)
    PROVE  LET l == call[c]
               m == call'[c]
               ips == Rewritten(l, e)
               target == IF ips = e.ips THEN {} ELSE {f \in entry : Same(e, f)}
               touched == UNION {Owner(f) : f \in target} IN
           /\ Others(c)
           /\ CallForm(m)
           /\ l.stage = "carry" /\ l.kind = "server" /\ l.server \in Server /\ l.clear = {}
           /\ EntryForm(e) /\ e.server = l.server /\ e.kind = l.of
           /\ SameChange(l, m)
           /\ ips = {} => ips = e.ips
           /\ m.stage = "carry" /\ m.pass = l.pass /\ m.of = l.of
           /\ m.todo = l.todo \ {e}
           /\ entry' = (entry \ target) \cup {[f EXCEPT !.ips = ips] : f \in target}
           /\ stale' = stale \cup Ids({f \in target : f.ips # e.ips \/ f.server # l.server})
           /\ Affect(touched, touched \ Connected(l.server), "overlap")
           /\ UNCHANGED <<server, record, interface, crossed, aborted>>
<1> DEFINE l == call[c]
           ips == Rewritten(l, e)
           target == IF ips = e.ips THEN {} ELSE {f \in entry : Same(e, f)}
           touched == UNION {Owner(f) : f \in target}
           r == [l EXCEPT !.todo = @ \ {e}]
<1>1. /\ CallForm(l) /\ DOMAIN l = DOMAIN Blank /\ l.stage = "carry" /\ l.kind = "server"
      /\ l.server \in Server /\ l.clear = {} /\ l.of \in Kind \cup {"none"}
      /\ \/ l.pass = "remove" /\ Removes(l)
         \/ l.pass = "add" /\ Adds(l)
      /\ \A t \in l.todo : EntryForm(t) /\ t.kind = l.of /\ t.server = l.server
  BY DEF Rewrite, Calls, CallForm
<1>2. /\ ips = {} => ips = e.ips
      /\ entry' = (entry \ target) \cup {[f EXCEPT !.ips = ips] : f \in target}
      /\ stale' = stale \cup Ids({f \in target : f.ips # e.ips \/ f.server # l.server})
      /\ Affect(touched, touched \ Connected(l.server), "overlap")
      /\ Set(c, r)
      /\ UNCHANGED <<server, record, interface, crossed, aborted>>
  BY DEF Rewrite, Refused
<1>3. /\ SameChange(l, r) /\ r.stage = "carry" /\ r.pass = l.pass /\ r.of = l.of
      /\ r.todo = l.todo \ {e}
  BY <1>1 DEF Blank, SameChange
<1> HIDE DEF r
<1>4. CallForm(r)
  <2> HIDE DEF l
  <2> QED
    BY <1>1, <1>3 DEF CallForm, SameChange, Removes, Adds
<1>5. Others(c) /\ call'[c] = r
  BY <1>2, SetTo DEF Others
<1> HIDE DEF ips
<1>6. EntryForm(e) /\ e.server = l.server /\ e.kind = l.of
  BY <1>1
<1> QED
  BY <1>1, <1>2, <1>3, <1>4, <1>5, <1>6 DEF ips

LEMMA CarryFailsEffect ==
    ASSUME Calls, Tables, NEW c \in Call, CarryFails(c)
    PROVE  LET l == call[c]
               m == call'[c] IN
           /\ Others(c)
           /\ CallForm(m)
           /\ l.stage = "carry" /\ l.kind = "server" /\ l.server \in Server /\ l.clear = {}
           /\ SameChange(l, m) /\ m.todo = {}
           /\ \/ /\ l.pass = "remove" /\ Adds(l)
                 /\ m.stage = "carry" /\ m.pass = "add" /\ m.of = "none"
              \/ /\ l.pass = "add" \/ (l.pass = "remove" /\ Removes(l) /\ ~Adds(l))
                 /\ m.stage = "invalidate"
           /\ aborted' = aborted \cup {<<l.pass, l.server>>}
           /\ UNCHANGED <<table, session, stale, crossed, excuse>>
<1> DEFINE l == call[c]
<1>1. /\ CallForm(l) /\ DOMAIN l = DOMAIN Blank /\ l.stage = "carry" /\ l.kind = "server"
      /\ l.server \in Server /\ l.clear = {}
      /\ \/ l.pass = "remove" /\ Removes(l)
         \/ l.pass = "add" /\ Adds(l)
  BY DEF CarryFails, Calls, CallForm
<1>2. /\ Set(c, AfterPass(l))
      /\ aborted' = aborted \cup {<<l.pass, l.server>>}
      /\ UNCHANGED <<table, session, stale, crossed, excuse>>
  BY DEF CarryFails
<1>3. Others(c) /\ call'[c] = AfterPass(l)
  BY <1>2, SetTo DEF Others
<1>4. /\ SameChange(l, AfterPass(l))
      /\ AfterPass(l).todo = {}
      /\ \/ /\ l.pass = "remove" /\ Adds(l)
            /\ AfterPass(l).stage = "carry" /\ AfterPass(l).pass = "add"
            /\ AfterPass(l).of = "none"
         \/ (l.pass = "remove" => ~Adds(l)) /\ AfterPass(l).stage = "invalidate"
  BY <1>1, AfterPassFields
<1> HIDE DEF l
<1>5. CallForm(AfterPass(l))
  <2>1. \/ /\ AfterPass(l).stage = "carry" /\ AfterPass(l).todo = {}
           /\ AfterPass(l).of = "none"
           /\ AfterPass(l).pass = "add" /\ Adds(l)
        \/ AfterPass(l).stage \in {"invalidate", "done"} /\ AfterPass(l).todo = {}
    BY <1>4
  <2>2. l.stage # "done"
    BY <1>1
  <2> QED
    BY <1>1, <1>4, <2>1, <2>2, ChangeForm
<1> QED
  BY <1>1, <1>2, <1>3, <1>4, <1>5 DEF l

LEMMA WriteInterfaceEffect ==
    ASSUME Calls, Tables, NEW c \in Call, WriteInterface(c)
    PROVE  LET l == call[c]
               m == call'[c]
               s == l.server
               touched == IF l.new = interface[s] THEN {} ELSE Connected(s) IN
           /\ Others(c)
           /\ CallForm(m)
           /\ l.stage = "write interface" /\ l.kind = "interface" /\ s \in Server /\ l.clear = {}
           /\ m.kind = "interface" /\ m.server = s
           /\ m.clear = {} /\ m.todo = {}
           /\ \/ /\ s \in server
                 /\ interface' \in [Server -> Value]
                 /\ Affect(touched, IF l.new = l.old THEN touched ELSE {}, "overlap")
                 /\ m.stage = "invalidate" /\ m.old = l.old /\ m.new = l.new
              \/ /\ s \notin server
                 /\ m.stage = "done"
                 /\ UNCHANGED <<interface, session, excuse>>
           /\ UNCHANGED <<server, record, entry, stale, crossed, aborted>>
<1> DEFINE l == call[c]
           s == l.server
           touched == IF l.new = interface[s] THEN {} ELSE Connected(s)
<1>1. /\ CallForm(l) /\ DOMAIN l = DOMAIN Blank /\ l.stage = "write interface"
      /\ l.kind = "interface" /\ s \in Server /\ l.new \in Value /\ l.clear = {} /\ l.todo = {}
  BY DEF WriteInterface, Calls, CallForm
<1>2. UNCHANGED <<server, record, entry, stale, crossed, aborted>>
  BY DEF WriteInterface
<1>3. CASE s \in server
  <2>1. /\ interface' = [interface EXCEPT ![s] = l.new]
        /\ Affect(touched, IF l.new = l.old THEN touched ELSE {}, "overlap")
        /\ Goto(c, "invalidate")
    BY <1>3 DEF WriteInterface
  <2>2. "invalidate" \in Stage
    BY DEF Stage
  <2>3. /\ Others(c)
        /\ DOMAIN call'[c] = DOMAIN l
        /\ call'[c].stage = "invalidate" /\ call'[c].kind = l.kind /\ call'[c].server = s
        /\ call'[c].old = l.old /\ call'[c].new = l.new
        /\ call'[c].clear = l.clear /\ call'[c].todo = l.todo
    BY <2>1, <2>2, GotoEffect
  <2>4. CallForm(call'[c])
    BY <1>1, <2>2, <2>3 DEF CallForm
  <2>5. interface' \in [Server -> Value]
    BY <1>1, <2>1 DEF Tables
  <2> QED
    BY <1>1, <1>2, <1>3, <2>1, <2>3, <2>4, <2>5
<1>4. CASE s \notin server
  <2>1. Return(c) /\ UNCHANGED <<interface, session, excuse>>
    BY <1>4 DEF WriteInterface
  <2>2. /\ Others(c) /\ CallForm(call'[c])
        /\ call'[c].stage = "done" /\ call'[c].kind = l.kind /\ call'[c].server = s
        /\ call'[c].clear = {} /\ call'[c].todo = {}
    BY <2>1, ReturnEffect
  <2> QED
    BY <1>1, <1>2, <1>4, <2>1, <2>2
<1> QED
  BY <1>3, <1>4

LEMMA InvalidateEffect ==
    ASSUME Calls, Tables, NEW c \in Call, Invalidate(c)
    PROVE  /\ Others(c)
           /\ CallForm(call'[c])
           /\ call[c].stage = "invalidate"
           /\ call'[c].stage = "done" /\ call'[c].clear = {} /\ call'[c].todo = {}
           /\ call'[c].kind = call[c].kind /\ call'[c].server = call[c].server
           /\ End(Concerned(call[c]))
           /\ UNCHANGED <<table, stale, crossed, aborted>>
<1>1. /\ call[c].stage = "invalidate"
      /\ End(Concerned(call[c]))
      /\ Return(c)
      /\ UNCHANGED <<table, stale, crossed, aborted>>
  BY DEF Invalidate
<1> QED
  BY <1>1, ReturnEffect

-----------------------------------------------------------------------------
(* An entry while a request carries the address of its server.               *)

(* Entries that are still to be listed, when those of the kind k are. *)
Later(k) ==
    CASE k = "none" -> Kind [] k = "adjacency" -> {"template", "ldap"} [] k = "template" -> {"ldap"} [] OTHER -> {}

(* The request l will add the new address to the entry e, or remove the old one. *)
Adding(l, e) ==
    \/ e.kind \in Later(l.of)
    \/ \E t \in l.todo : Same(t, e) /\ ~Covers(t.ips, l.new.hc)

Removing(l, e) ==
    \/ e.kind \in Later(l.of)
    \/ \E t \in l.todo : Same(t, e) /\ l.old.hc \in t.ips

(* How far the request l has got with the entry e, with the aborted changes A. *)
CarriedTo(l, e, A) ==
    /\ l.pass = "add" => Covers(e.ips, l.new.hc) \/ Adding(l, e)
    /\ <<"remove", l.server>> \notin A =>
        /\ l.pass = "add" => e.ips \subseteq e.given \cup {l.new.hc}
        /\ l.pass = "remove" =>
            \/ e.ips \subseteq e.given \cup {l.new.hc}
            \/ e.ips \subseteq e.given \cup {l.old.hc, l.new.hc} /\ Removing(l, e)

(* Written with the new address while it is carried. *)
LEMMA WrittenMeanwhile ==
    ASSUME NEW l, NEW e, NEW A,
           e.ips \subseteq e.given \cup {l.new.hc}, Covers(e.ips, l.new.hc)
    PROVE  CarriedTo(l, e, A)
BY DEF CarriedTo

(* The carrying begins, from an entry that had the old address at most. *)
LEMMA CarryingBegins ==
    ASSUME NEW l, CallForm(l), l.kind = "server", NEW e, EntryForm(e), NEW A,
           NEW m, SameChange(l, m), m.of = "none", m.todo = {},
           \/ m.pass = "remove" /\ Removes(l)
           \/ m.pass = "add" /\ ~Removes(l) /\ Adds(l),
           <<"remove", l.server>> \notin A => e.ips \subseteq e.given \cup {l.old.hc}
    PROVE  CarriedTo(m, e, A)
<1>1. e.kind \in Kind /\ e.ips \subseteq Prefix
  BY DEF EntryForm, Entry
<1>2. /\ m.server = l.server /\ m.old = l.old /\ m.new = l.new
      /\ e.kind \in Later(m.of)
  BY <1>1 DEF SameChange, Later
<1>3. Adding(m, e) /\ Removing(m, e)
  BY <1>2 DEF Adding, Removing
<1>4. CASE m.pass = "remove"
  BY <1>2, <1>3, <1>4 DEF CarriedTo
<1>5. CASE m.pass = "add" /\ ~Removes(l) /\ Adds(l)
  <2>1. l.old.hc = None
    BY <1>5 DEF Removes, Adds
  <2>2. None \notin e.ips
    BY <1>1, NoneAssumption
  <2> QED
    BY <1>2, <1>3, <1>5, <2>1, <2>2 DEF CarriedTo
<1> QED
  BY <1>4, <1>5

(* The entries of the next kind are listed. *)
LEMMA ListedNext ==
    ASSUME NEW l, CallForm(l), l.stage = "carry", l.todo = {}, NEW e, EntryForm(e), NEW A,
           CarriedTo(l, e, A),
           NEW m, SameChange(l, m), m.pass = l.pass, m.of = After(l.of), m.of # "end",
           e.kind = m.of => e \in m.todo
    PROVE  CarriedTo(m, e, A)
<1>1. m.server = l.server /\ m.old = l.old /\ m.new = l.new
  BY DEF SameChange
<1>2. e.kind \in Later(l.of) => e.kind \in Later(m.of) \/ e \in m.todo
  BY DEF CallForm, EntryForm, Entry, Kind, Later, After
<1>3. Same(e, e)
  BY DEF Same
<1>4. Adding(l, e) => Covers(e.ips, l.new.hc) \/ Adding(m, e)
  BY <1>1, <1>2, <1>3 DEF Adding
<1>5. Removing(l, e) => l.old.hc \notin e.ips \/ Removing(m, e)
  BY <1>1, <1>2, <1>3 DEF Removing
<1> QED
  BY <1>1, <1>4, <1>5 DEF CarriedTo

(* All the entries have been listed and gone through. *)
LEMMA CarriedThrough ==
    ASSUME NEW l, CallForm(l), l.stage = "carry", l.todo = {}, After(l.of) = "end",
           NEW e, EntryForm(e), NEW A, CarriedTo(l, e, A)
    PROVE  /\ <<"remove", l.server>> \notin A => e.ips \subseteq e.given \cup {l.new.hc}
           /\ (l.pass = "remove" => ~Adds(l)) => Covers(e.ips, l.new.hc)
<1>1. l.of = "ldap"
  BY DEF CallForm, Kind, After
<1>2. ~Adding(l, e) /\ ~Removing(l, e)
  BY <1>1 DEF Adding, Removing, Later
<1>3. \/ l.pass = "remove" /\ Removes(l)
      \/ l.pass = "add" /\ Adds(l)
  BY DEF CallForm
<1>4. Removes(l) /\ ~Adds(l) => l.new.hc = None
  BY DEF Removes, Adds
<1> QED
  BY <1>2, <1>3, <1>4 DEF CarriedTo, Covers

(* After the removal, the new address is still to be added everywhere. *)
LEMMA AddingBegins ==
    ASSUME NEW l, NEW e, EntryForm(e), NEW A,
           <<"remove", l.server>> \notin A => e.ips \subseteq e.given \cup {l.new.hc},
           NEW m, SameChange(l, m), m.pass = "add", m.of = "none", m.todo = {}
    PROVE  CarriedTo(m, e, A)
<1>1. m.server = l.server /\ m.new = l.new
  BY DEF SameChange
<1>2. Adding(m, e)
  BY DEF Adding, Later, EntryForm, Entry
<1> QED
  BY <1>1, <1>2 DEF CarriedTo

(* Another entry has been rewritten, or this one had nothing to change. *)
LEMMA PassedOver ==
    ASSUME NEW l, CallForm(l), l.stage = "carry", NEW t \in l.todo, NEW e, NEW A,
           CarriedTo(l, e, A), Same(t, e) => Rewritten(l, t) = t.ips,
           NEW m, SameChange(l, m), m.pass = l.pass, m.of = l.of, m.todo = l.todo \ {t}
    PROVE  CarriedTo(m, e, A)
<1>1. m.server = l.server /\ m.old = l.old /\ m.new = l.new
  BY DEF SameChange
<1>2. Rewritten(l, t) = t.ips =>
        /\ l.pass = "add" => Covers(t.ips, l.new.hc)
        /\ l.pass = "remove" => l.old.hc \notin t.ips
  BY RewrittenFacts
<1>3. l.pass = "add" /\ Adding(l, e) => Adding(m, e)
  BY <1>1, <1>2 DEF Adding
<1>4. l.pass = "remove" /\ Removing(l, e) => Removing(m, e)
  BY <1>1, <1>2 DEF Removing
<1> QED
  BY <1>1, <1>3, <1>4 DEF CarriedTo

(* The entry has been rewritten from what was listed, which it still was. *)
LEMMA RewrittenNow ==
    ASSUME NEW l, CallForm(l), l.stage = "carry", NEW t \in l.todo, NEW e, NEW A,
           CarriedTo(l, e, A), e.ips = t.ips,
           NEW m, SameChange(l, m), m.pass = l.pass,
           NEW f, f.ips = Rewritten(l, t), f.given = e.given
    PROVE  CarriedTo(m, f, A)
<1>1. m.server = l.server /\ m.old = l.old /\ m.new = l.new
  BY DEF SameChange
<1>2. l.pass \in {"add", "remove"}
  BY DEF CallForm
<1>3. CASE l.pass = "add"
  BY <1>1, <1>3, RewrittenFacts DEF CarriedTo
<1>4. CASE l.pass = "remove"
  <2>1. f.ips = t.ips \ {l.old.hc}
    BY <1>4, RewrittenFacts
  <2> QED
    BY <1>1, <1>4, <2>1 DEF CarriedTo
<1> QED
  BY <1>2, <1>3, <1>4

-----------------------------------------------------------------------------
(* The invariant. *)

(* A server is deleted for good while a change of it runs. *)
Deleted(s) == \E x \in Call : call[x].kind = "delete server" /\ call[x].server = s

Served ==
    \A c \in Call : call[c].kind = "server" /\ call[c].stage # "done" =>
        call[c].server \in server \/ Deleted(call[c].server)

(* The entries that there are, and those that requests have read. *)
Listed == UNION {call[c].todo : c \in Call}

Read == {call[c].old : c \in {x \in Call : call[x].stage = "update"}}

Seen == entry \cup Listed \cup Read

Alike(e, f) == e.id = f.id /\ e.kind = f.kind /\ e.owner = f.owner

Inserted(l) == l.kind = "entry" /\ l.stage \notin {"new", "insert"}

SeenAgree ==
    /\ \A e \in Seen : EntryForm(e) /\ (e.id \in Call => Inserted(call[e.id]))
    /\ \A e, f \in Seen : e.id = f.id => Alike(e, f)

(* A change of a server knows what the server is, or was written over. *)
AsRead ==
    \A c \in Call : call[c].stage = "write server" /\ call[c].server \notin crossed =>
        record[call[c].server] = call[c].old

AloneOrCrossed ==
    \A b, c \in Call : /\ call[b].stage = "carry" /\ call[c].stage = "carry"
                       /\ call[b].server = call[c].server /\ b # c
                       => call[c].server \in crossed

Carried ==
    \A c \in Call : call[c].stage = "carry" /\ call[c].server \notin crossed =>
        /\ record[call[c].server] = call[c].new
        /\ \A e \in entry : e.server = call[c].server /\ e.id \notin stale =>
            CarriedTo(call[c], e, aborted)

Address == AsRead /\ AloneOrCrossed /\ Carried /\ OnlyWhatWasGiven /\ HealthcheckCovered

IInv == Tables /\ Calls /\ Served /\ SeenAgree /\ Address /\ SessionFollowsServers

LEMMA CarryingMeans ==
    ASSUME NEW s
    PROVE  /\ Calls => (Carrying(s) <=> \E b \in Call : call[b].stage = "carry" /\ call[b].server = s)
           /\ Calls' => (Carrying(s)' <=> \E b \in Call : call'[b].stage = "carry" /\ call'[b].server = s)
BY DEF Carrying, Changing, Calls, CallForm

-----------------------------------------------------------------------------
(* What one step leaves alone. *)

LEMMA SeenMeans ==
    /\ \A e : e \in Seen <=>
            \/ e \in entry
            \/ \E b \in Call : e \in call[b].todo \/ (call[b].stage = "update" /\ e = call[b].old)
    /\ \A e : e \in Seen' <=>
            \/ e \in entry'
            \/ \E b \in Call : e \in call'[b].todo \/ (call'[b].stage = "update" /\ e = call'[b].old)
<1>1. \A e : e \in Listed <=> \E b \in Call : e \in call[b].todo
  BY DEF Listed
<1>2. \A e : e \in Read <=> \E b \in Call : call[b].stage = "update" /\ e = call[b].old
  BY DEF Read
<1>3. \A e : e \in Listed' <=> \E b \in Call : e \in call'[b].todo
  BY DEF Listed
<1>4. \A e : e \in Read' <=> \E b \in Call : call'[b].stage = "update" /\ e = call'[b].old
  BY DEF Read
<1>5. \A e : e \in Seen <=> e \in entry \/ e \in Listed \/ e \in Read
  BY DEF Seen
<1>6. \A e : e \in Seen' <=> e \in entry' \/ e \in Listed' \/ e \in Read'
  BY DEF Seen
<1>7. \A e : e \in Seen <=>
          \/ e \in entry
          \/ \E b \in Call : e \in call[b].todo \/ (call[b].stage = "update" /\ e = call[b].old)
  BY <1>1, <1>2, <1>5
<1>8. \A e : e \in Seen' <=>
          \/ e \in entry'
          \/ \E b \in Call : e \in call'[b].todo \/ (call'[b].stage = "update" /\ e = call'[b].old)
  BY <1>3, <1>4, <1>6
<1> QED
  BY <1>7, <1>8

LEMMA SeenStep ==
    ASSUME SeenAgree, NEW c \in Call, Others(c),
           Inserted(call[c]) => Inserted(call'[c]),
           \A e \in entry' : EntryForm(e) /\ \E g \in Seen : Alike(e, g),
           \A e \in call'[c].todo : e \in Seen,
           call'[c].stage = "update" => call'[c].old \in Seen
    PROVE  SeenAgree'
<1>1. \A b \in Call : Inserted(call[b]) => Inserted(call'[b])
  BY DEF Others
<1>2. \A e \in Seen' : EntryForm(e) /\ \E g \in Seen : Alike(e, g)
  <2> SUFFICES ASSUME NEW e \in Seen'
               PROVE  EntryForm(e) /\ \E g \in Seen : Alike(e, g)
    OBVIOUS
  <2>1. CASE e \in entry'
    BY <2>1
  <2>2. ASSUME e \in Seen
        PROVE  EntryForm(e) /\ \E g \in Seen : Alike(e, g)
    <3>1. EntryForm(e) /\ Alike(e, e)
      BY <2>2 DEF SeenAgree, Alike
    <3> QED
      BY <2>2, <3>1
  <2>3. CASE e \notin entry'
    <3>1. \E b \in Call : e \in call'[b].todo \/ (call'[b].stage = "update" /\ e = call'[b].old)
      BY <2>3, SeenMeans
    <3>2. PICK b \in Call : e \in call'[b].todo \/ (call'[b].stage = "update" /\ e = call'[b].old)
      BY <3>1
    <3>3. CASE b = c
      BY <2>2, <3>2, <3>3
    <3>4. CASE b # c
      <4>1. call'[b] = call[b]
        BY <3>4 DEF Others
      <4>2. e \in Seen
        BY <3>2, <4>1, SeenMeans
      <4> QED
        BY <2>2, <4>2
    <3> QED
      BY <3>3, <3>4
  <2> QED
    BY <2>1, <2>3
<1>3. \A e \in Seen' : EntryForm(e) /\ (e.id \in Call => Inserted(call'[e.id]))
  BY <1>1, <1>2 DEF SeenAgree, Alike
<1>4. \A e, f \in Seen' : e.id = f.id => Alike(e, f)
  <2> SUFFICES ASSUME NEW e \in Seen', NEW f \in Seen', e.id = f.id
               PROVE  Alike(e, f)
    OBVIOUS
  <2>1. PICK g \in Seen : Alike(e, g)
    BY <1>2
  <2>2. PICK h \in Seen : Alike(f, h)
    BY <1>2
  <2>3. g.id = h.id
    BY <2>1, <2>2 DEF Alike
  <2>4. Alike(g, h)
    BY <2>3 DEF SeenAgree
  <2> QED
    BY <2>1, <2>2, <2>4 DEF Alike
<1> QED
  BY <1>3, <1>4 DEF SeenAgree

LEMMA EntriesSeen ==
    ASSUME SeenAgree
    PROVE  /\ \A e \in entry : e \in Seen /\ EntryForm(e) /\ \E g \in Seen : Alike(e, g)
           /\ \A c \in Call : call[c].todo \subseteq Seen
           /\ \A c \in Call : call[c].stage = "update" => call[c].old \in Seen
<1>1. \A e \in entry : e \in Seen
  BY SeenMeans
<1>2. \A e \in entry : EntryForm(e) /\ Alike(e, e)
  BY <1>1 DEF SeenAgree, Alike
<1>3. \A c \in Call : call[c].todo \subseteq Seen
  BY SeenMeans
<1>4. \A c \in Call : call[c].stage = "update" => call[c].old \in Seen
  BY SeenMeans
<1> QED
  BY <1>1, <1>2, <1>3, <1>4

(* Where only sessions, other requests or fewer entries are concerned. *)
LEMMA AddressKept ==
    ASSUME Calls, Calls', Address, NEW c \in Call, Others(c),
           call[c].stage # "carry", call'[c].stage # "carry",
           entry' \subseteq entry, UNCHANGED <<stale, crossed, aborted>>,
           \A e \in entry' : record'[e.server] = record[e.server],
           \A b \in Call : call[b].stage \in {"write server", "carry"} =>
               record'[call[b].server] = record[call[b].server],
           call'[c].stage = "write server" => record'[call'[c].server] = call'[c].old
    PROVE  Address'
<1>1. AsRead'
  <2> SUFFICES ASSUME NEW b \in Call, call'[b].stage = "write server", call'[b].server \notin crossed'
               PROVE  record'[call'[b].server] = call'[b].old
    BY DEF AsRead
  <2>1. CASE b # c
    <3>1. call'[b] = call[b]
      BY <2>1 DEF Others
    <3> QED
      BY <3>1 DEF Address, AsRead
  <2> QED
    BY <2>1
<1>0. \A b \in Call : call'[b].stage = "carry" => call'[b] = call[b]
  BY DEF Others
<1>2. AloneOrCrossed'
  <2> SUFFICES ASSUME NEW b \in Call, NEW d \in Call, call'[b].stage = "carry", call'[d].stage = "carry",
                      call'[b].server = call'[d].server, b # d
               PROVE  call'[d].server \in crossed'
    BY DEF AloneOrCrossed
  <2>1. call'[b] = call[b] /\ call'[d] = call[d]
    BY <1>0
  <2> QED
    BY <2>1 DEF Address, AloneOrCrossed
<1>3. Carried'
  <2> SUFFICES ASSUME NEW b \in Call, call'[b].stage = "carry", call'[b].server \notin crossed'
               PROVE  /\ record'[call'[b].server] = call'[b].new
                      /\ \A e \in entry' : e.server = call'[b].server /\ e.id \notin stale' =>
                             CarriedTo(call'[b], e, aborted')
    BY DEF Carried
  <2>1. call'[b] = call[b] /\ record'[call[b].server] = record[call[b].server]
    BY <1>0
  <2> QED
    BY <2>1 DEF Address, Carried
<1>4. \A s : Carrying(s) => Carrying(s)'
  <2> SUFFICES ASSUME NEW s, Carrying(s)
               PROVE  Carrying(s)'
    OBVIOUS
  <2>1. PICK b \in Call : call[b].stage = "carry" /\ call[b].server = s
    BY CarryingMeans
  <2>2. call'[b] = call[b]
    BY <2>1 DEF Others
  <2> QED
    BY <2>1, <2>2, CarryingMeans
<1>5. OnlyWhatWasGiven'
  BY <1>4 DEF Address, OnlyWhatWasGiven
<1>6. HealthcheckCovered'
  BY <1>4 DEF Address, HealthcheckCovered
<1> QED
  BY <1>1, <1>2, <1>3, <1>5, <1>6 DEF Address

LEMMA ServedStep ==
    ASSUME Served, NEW c \in Call, Others(c),
           call[c].kind = "delete server" => call'[c].kind = "delete server" /\ call'[c].server = call[c].server,
           call'[c].kind = "server" /\ call'[c].stage # "done" =>
               \/ call'[c].server \in server
               \/ call[c].kind = "server" /\ call[c].stage # "done" /\ call'[c].server = call[c].server,
           \A s \in server : s \in server' \/ (call'[c].kind = "delete server" /\ call'[c].server = s)
    PROVE  Served'
<1>1. \A s : Deleted(s) => Deleted(s)'
  <2> SUFFICES ASSUME NEW s, NEW x \in Call, call[x].kind = "delete server", call[x].server = s
               PROVE  call'[x].kind = "delete server" /\ call'[x].server = s
    BY DEF Deleted
  <2> QED
    BY DEF Others
<1>2. \A s \in server : s \in server' \/ Deleted(s)'
  BY DEF Deleted
<1> SUFFICES ASSUME NEW b \in Call, call'[b].kind = "server", call'[b].stage # "done"
             PROVE  call'[b].server \in server' \/ \E x \in Call : /\ call'[x].kind = "delete server"
                                                                   /\ call'[x].server = call'[b].server
  BY DEF Served, Deleted
<1>3. PICK s : s = call'[b].server
  OBVIOUS
<1>4. s \in server \/ Deleted(s)
  BY <1>3 DEF Served, Others
<1>5. s \in server' \/ Deleted(s)'
  BY <1>1, <1>2, <1>4
<1> QED
  BY <1>3, <1>5 DEF Deleted

(* The request c will end the session of the device d. *)
ToldBy(c, d) ==
    \/ d \in call[c].clear
    \/ /\ call[c].kind \in {"server", "interface"}
       /\ call[c].stage \in {"carry", "invalidate"}
       /\ call[c].old # call[c].new
       /\ d \in Connected(call[c].server)

LEMMA ToldStep ==
    ASSUME SessionFollowsServers, NEW c \in Call, Others(c),
           \A d \in Device : session'[d] = "outdated" /\ excuse'[d] = "no" =>
               \/ ToldBy(c, d)'
               \/ /\ session[d] = "outdated" /\ excuse[d] = "no"
                  /\ ~ToldBy(c, d)
                  /\ \A s : d \in Connected(s) => d \in Connected(s)'
    PROVE  SessionFollowsServers'
<1> SUFFICES ASSUME NEW d \in Device, session'[d] = "outdated", excuse'[d] = "no"
             PROVE  \E b \in Call : ToldBy(b, d)'
  BY DEF SessionFollowsServers, ToldBy
<1>1. CASE ToldBy(c, d)'
  BY <1>1
<1>2. CASE ~ToldBy(c, d)'
  <2>1. /\ session[d] = "outdated" /\ excuse[d] = "no"
        /\ ~ToldBy(c, d)
        /\ \A s : d \in Connected(s) => d \in Connected(s)'
    BY <1>2
  <2>2. PICK b \in Call : ToldBy(b, d)
    BY <2>1 DEF SessionFollowsServers, ToldBy
  <2>3. b # c
    BY <2>1, <2>2
  <2>4. call'[b] = call[b]
    BY <2>3 DEF Others
  <2>5. ToldBy(b, d)'
    <3>1. CASE d \in call[b].clear
      BY <2>4, <3>1 DEF ToldBy
    <3>2. CASE d \notin call[b].clear
      <4>1. /\ call[b].kind \in {"server", "interface"} /\ call[b].stage \in {"carry", "invalidate"}
            /\ call[b].old # call[b].new /\ d \in Connected(call[b].server)
        BY <2>2, <3>2 DEF ToldBy
      <4>2. PICK s : s = call[b].server
        OBVIOUS
      <4>3. d \in Connected(s)'
        BY <2>1, <4>1, <4>2
      <4>4. s = call'[b].server
        BY <2>4, <4>2
      <4>5. d \in Connected(call[b].server)'
        BY <4>3, <4>4
      <4> QED
        BY <2>4, <4>1, <4>5 DEF ToldBy
    <3> QED
      BY <3>1, <3>2
  <2> QED
    BY <2>5
<1> QED
  BY <1>1, <1>2

(* Entries that are written keep their identity, kind and owner; who is connected *)
(* to a server changes only with entries that move to another one.            *)
LEMMA Replaced ==
    ASSUME Tables, NEW T \in SUBSET entry, NEW R,
           \A f \in T : EntryForm(R[f]) /\ Alike(R[f], f) /\ R[f].server \in server,
           entry' = (entry \ T) \cup {R[f] : f \in T}
    PROVE  /\ \A e \in entry' : /\ EntryForm(e) /\ e.server \in server
                                /\ \/ e \in entry \ T
                                   \/ \E f \in T : e = R[f] /\ Alike(e, f)
                                /\ \E f \in entry : Alike(e, f)
           /\ \A e, f \in entry' : e.id = f.id => e = f
           /\ \A d : (\A f \in T : R[f].server = f.server \/ d \notin Owner(f)) =>
                  \A s : d \in Connected(s) => d \in Connected(s)'
           /\ (\A f \in T : R[f].server = f.server) => \A s : Connected(s)' = Connected(s)
<1>1. \A e \in entry : EntryForm(e) /\ e.server \in server
  BY DEF Tables
<1>2. \A e \in entry' : e \in entry \ T \/ \E f \in T : e = R[f] /\ Alike(e, f)
  OBVIOUS
<1>3. \A e \in entry' : EntryForm(e) /\ e.server \in server /\ \E f \in entry : Alike(e, f)
  BY <1>1, <1>2 DEF Alike
<1>4. \A e, f \in entry' : e.id = f.id => e = f
  <2> SUFFICES ASSUME NEW e \in entry', NEW f \in entry', e.id = f.id
               PROVE  e = f
    OBVIOUS
  <2>1. PICK g \in entry : e.id = g.id /\ ((g \notin T /\ e = g) \/ (g \in T /\ e = R[g]))
    BY <1>2 DEF Alike
  <2>2. PICK h \in entry : f.id = h.id /\ ((h \notin T /\ f = h) \/ (h \in T /\ f = R[h]))
    BY <1>2 DEF Alike
  <2>3. g = h
    BY <2>1, <2>2 DEF Tables
  <2> QED
    BY <2>1, <2>2, <2>3
<1>5. ASSUME NEW d, \A f \in T : R[f].server = f.server \/ d \notin Owner(f), NEW s, d \in Connected(s)
      PROVE  d \in Connected(s)'
  <2>1. PICK f \in entry : f.kind = "adjacency" /\ f.server = s /\ f.owner = d
    BY <1>5 DEF Connected
  <2>2. PICK e \in entry' : Alike(e, f) /\ e.server = f.server
    <3>1. CASE f \in T
      <4>1. d \in Owner(f)
        BY <2>1 DEF Owner
      <4>2. R[f] \in entry' /\ Alike(R[f], f) /\ R[f].server = f.server
        BY <1>5, <3>1, <4>1
      <4> QED
        BY <4>2
    <3>2. CASE f \notin T
      BY <3>2 DEF Alike
    <3> QED
      BY <3>1, <3>2
  <2> QED
    BY <2>1, <2>2 DEF Connected, Alike
<1>6. ASSUME \A f \in T : R[f].server = f.server, NEW s
      PROVE  Connected(s)' = Connected(s)
  <2>1. ASSUME NEW d \in Connected(s)'
        PROVE  d \in Connected(s)
    <3>1. PICK e \in entry' : e.kind = "adjacency" /\ e.server = s /\ e.owner = d
      BY <2>1 DEF Connected
    <3>2. PICK f \in entry : Alike(e, f) /\ e.server = f.server
      <4>1. CASE e \in entry \ T
        BY <4>1 DEF Alike
      <4>2. ASSUME NEW g \in T, e = R[g], Alike(e, g)
            PROVE  Alike(e, g) /\ e.server = g.server /\ g \in entry
        BY <1>6, <4>2
      <4> QED
        BY <1>2, <4>1, <4>2
    <3> QED
      BY <3>1, <3>2 DEF Connected, Alike
  <2>2. ASSUME NEW d \in Connected(s)
        PROVE  d \in Connected(s)'
    BY <1>5, <1>6, <2>2
  <2> QED
    BY <2>1, <2>2
<1> QED
  BY <1>2, <1>3, <1>4, <1>5, <1>6

-----------------------------------------------------------------------------
(* One lemma for each step. *)

(* A request that has read what it needs and has written nothing. *)
LEMMA RequestBegins ==
    ASSUME IInv, NEW c \in Call, Others(c), call[c] = Blank, CallForm(call'[c]),
           call'[c].kind \in {"entry", "server", "interface"},
           call'[c].stage \in {"insert", "update", "write server", "write interface"},
           call'[c].clear = {}, call'[c].todo = {},
           call'[c].stage = "update" => call'[c].old \in entry,
           call'[c].kind = "server" => call'[c].server \in server,
           call'[c].stage = "write server" => call'[c].old = record[call'[c].server],
           UNCHANGED <<table, session, history>>
    PROVE  IInv'
<1>1. /\ UNCHANGED <<server, record, interface, entry>>
      /\ UNCHANGED <<session, excuse>>
      /\ UNCHANGED <<stale, crossed, aborted>>
  BY DEF table, history
<1>2. /\ call[c].kind = "none" /\ call[c].stage = "new" /\ call[c].clear = {}
  BY BlankForm
<1>3. Tables'
  BY <1>1 DEF IInv, Tables
<1>4. Calls'
  BY CallsKept DEF IInv, Others
<1>5. Served'
  BY <1>1, <1>2, ServedStep DEF IInv
<1>6. SeenAgree'
  <2>1. \A e \in entry' : EntryForm(e) /\ \E g \in Seen : Alike(e, g)
    BY <1>1, EntriesSeen DEF IInv
  <2>2. call'[c].stage = "update" => call'[c].old \in Seen
    BY EntriesSeen DEF IInv
  <2> QED
    BY <1>2, <2>1, <2>2, SeenStep DEF IInv, Inserted
<1>7. Address'
  BY <1>1, <1>2, <1>4, AddressKept DEF IInv
<1>8. SessionFollowsServers'
  <2>1. \A s : Connected(s)' = Connected(s)
    BY <1>1 DEF Connected
  <2> QED
    BY <1>1, <1>2, <2>1, ToldStep DEF IInv, ToldBy
<1> QED
  BY <1>3, <1>4, <1>5, <1>6, <1>7, <1>8 DEF IInv

LEMMA CreateEntryStep ==
    ASSUME IInv, NEW c \in Call, NEW k \in Kind, NEW s \in Server, NEW g \in Gift,
           NEW o \in IF k = "adjacency" THEN Device ELSE {None}, CreateEntry(c, k, s, o, g)
    PROVE  IInv'
BY CreateEntryEffect, RequestBegins DEF IInv

LEMMA UpdateEntryStep ==
    ASSUME IInv, NEW c \in Call, NEW e \in entry, NEW s \in Server, NEW g \in Gift,
           UpdateEntry(c, e, s, g)
    PROVE  IInv'
BY UpdateEntryEffect, RequestBegins DEF IInv

LEMMA UpdateServerStep ==
    ASSUME IInv, NEW c \in Call, NEW s \in Server, NEW n \in Record, UpdateServer(c, s, n)
    PROVE  IInv'
<1>1. /\ Others(c) /\ call[c] = Blank
      /\ CallForm(call'[c])
      /\ call'[c].kind = "server" /\ call'[c].stage = "write server"
      /\ call'[c].server = s /\ call'[c].old = record[s] /\ s \in server
      /\ call'[c].clear = {} /\ call'[c].todo = {}
      /\ UNCHANGED <<table, session, history>>
  BY UpdateServerEffect DEF IInv
<1>2. call'[c].server \in server /\ call'[c].old = record[call'[c].server]
  BY <1>1
<1> QED
  BY <1>1, <1>2, RequestBegins

LEMMA UpdateInterfaceStep ==
    ASSUME IInv, NEW c \in Call, NEW s \in Server, NEW v \in Value, UpdateInterface(c, s, v)
    PROVE  IInv'
BY UpdateInterfaceEffect, RequestBegins DEF IInv

(* A server that comes into existence has no entries, and no request changes it. *)
LEMMA CreateServerStep ==
    ASSUME IInv, NEW c \in Call, NEW s \in Server, NEW n \in Record, NEW v \in Value,
           CreateServer(c, s, n, v)
    PROVE  IInv'
<1>1. /\ Others(c) /\ call[c] = Blank
      /\ CallForm(call'[c])
      /\ call'[c].kind = "create server" /\ call'[c].stage = "done"
      /\ call'[c].clear = {} /\ call'[c].todo = {}
      /\ s \notin server
      /\ \A b \in Call : call[b].kind = "delete server" => call[b].server # s
      /\ server' = server \cup {s}
      /\ record' \in [Server -> Record]
      /\ \A x \in Server : x # s => record'[x] = record[x]
      /\ interface' \in [Server -> Value]
      /\ UNCHANGED <<entry, session, history>>
  BY CreateServerEffect DEF IInv
<1>2. UNCHANGED <<stale, crossed, aborted>> /\ UNCHANGED <<session, excuse>> /\ entry' = entry
  BY <1>1 DEF history
<1>3. call[c].kind = "none" /\ call[c].stage = "new" /\ call[c].clear = {}
  BY <1>1, BlankForm
<1>4. Tables'
  BY <1>1, <1>2 DEF IInv, Tables
<1>5. Calls'
  BY <1>1, CallsKept DEF IInv, Others
<1>6. Served'
  BY <1>1, <1>3, ServedStep DEF IInv
<1>7. SeenAgree'
  <2>1. \A e \in entry' : EntryForm(e) /\ \E g \in Seen : Alike(e, g)
    BY <1>2, EntriesSeen DEF IInv
  <2> QED
    BY <1>1, <1>3, <2>1, SeenStep DEF IInv, Inserted
<1>8. Address'
  <2>1. \A e \in entry' : record'[e.server] = record[e.server]
    <3>1. \A e \in entry : e.server \in server /\ e.server \in Server
      BY DEF IInv, Tables
    <3> QED
      BY <1>1, <1>2, <3>1
  <2>2. ASSUME NEW b \in Call, call[b].stage \in {"write server", "carry"}
        PROVE  record'[call[b].server] = record[call[b].server]
    <3>1. call[b].kind = "server" /\ call[b].stage # "done" /\ call[b].server \in Server
      BY <2>2 DEF IInv, Calls, CallForm
    <3>2. call[b].server \in server \/ Deleted(call[b].server)
      BY <3>1 DEF IInv, Served
    <3>3. call[b].server # s
      BY <1>1, <3>2 DEF Deleted
    <3> QED
      BY <1>1, <3>1, <3>3
  <2> QED
    BY <1>1, <1>2, <1>3, <1>5, <2>1, <2>2, AddressKept DEF IInv
<1>9. SessionFollowsServers'
  <2>1. \A x : Connected(x)' = Connected(x)
    BY <1>2 DEF Connected
  <2> QED
    BY <1>1, <1>2, <1>3, <2>1, ToldStep DEF IInv, ToldBy
<1> QED
  BY <1>4, <1>5, <1>6, <1>7, <1>8, <1>9 DEF IInv

(* With a server go its entries; its devices are excused. *)
LEMMA DeleteServerStep ==
    ASSUME IInv, NEW c \in Call, NEW s \in Server, DeleteServer(c, s)
    PROVE  IInv'
<1>1. /\ Others(c) /\ call[c] = Blank
      /\ CallForm(call'[c])
      /\ call'[c].kind = "delete server" /\ call'[c].stage = "done" /\ call'[c].server = s
      /\ call'[c].clear = {} /\ call'[c].todo = {}
      /\ server' = server \ {s}
      /\ entry' = {e \in entry : e.server # s}
      /\ Affect(Connected(s), Connected(s), "server")
      /\ UNCHANGED <<record, interface, stale, crossed, aborted>>
  BY DeleteServerEffect DEF IInv
<1>2. call[c].kind = "none" /\ call[c].stage = "new" /\ call[c].clear = {}
  BY <1>1, BlankForm
<1>3. /\ session' \in [Device -> Session]
      /\ excuse' \in [Device -> Cause]
      /\ \A d \in Device : session'[d] = "outdated" /\ excuse'[d] = "no" =>
            d \notin Connected(s) /\ session[d] = "outdated" /\ excuse[d] = "no"
  <2>1. session \in [Device -> Session] /\ excuse \in [Device -> Cause]
    BY DEF IInv, Tables
  <2>2. "server" \in Cause /\ "server" # "no"
    BY DEF Cause
  <2> QED
    BY <1>1, <2>1, <2>2, Affecting
<1>4. Tables'
  BY <1>1, <1>3 DEF IInv, Tables
<1>5. Calls'
  BY <1>1, CallsKept DEF IInv, Others
<1>6. Served'
  BY <1>1, <1>2, ServedStep DEF IInv
<1>7. SeenAgree'
  <2>1. \A e \in entry' : EntryForm(e) /\ \E g \in Seen : Alike(e, g)
    BY <1>1, EntriesSeen DEF IInv
  <2> QED
    BY <1>1, <1>2, <2>1, SeenStep DEF IInv, Inserted
<1>8. Address'
  BY <1>1, <1>2, <1>5, AddressKept DEF IInv
<1>9. SessionFollowsServers'
  <2>1. ASSUME NEW d, d \notin Connected(s), NEW x, d \in Connected(x)
        PROVE  d \in Connected(x)'
    <3>1. PICK e \in entry : e.kind = "adjacency" /\ e.server = x /\ e.owner = d
      BY <2>1 DEF Connected
    <3>2. e.server # s
      BY <2>1, <3>1 DEF Connected
    <3>3. e \in entry'
      BY <1>1, <3>2
    <3> QED
      BY <3>1, <3>3 DEF Connected
  <2> QED
    BY <1>1, <1>2, <1>3, <2>1, ToldStep DEF IInv, ToldBy
<1> QED
  BY <1>4, <1>5, <1>6, <1>7, <1>8, <1>9 DEF IInv

(* The owner of an adjacency that is deleted will be told. *)
LEMMA DeleteEntryStep ==
    ASSUME IInv, NEW c \in Call, NEW e \in entry, DeleteEntry(c, e)
    PROVE  IInv'
<1>1. /\ Others(c) /\ call[c] = Blank
      /\ CallForm(call'[c])
      /\ call'[c].kind = "entry" /\ call'[c].stage = "invalidate"
      /\ call'[c].clear = Owner(e) /\ call'[c].todo = {}
      /\ entry' = {f \in entry : ~Same(e, f)}
      /\ Affect(Owner(e), {}, "no")
      /\ UNCHANGED <<server, record, interface, stale, crossed, aborted>>
  BY DeleteEntryEffect DEF IInv
<1>2. call[c].kind = "none" /\ call[c].stage = "new" /\ call[c].clear = {}
  BY <1>1, BlankForm
<1>3. /\ session' \in [Device -> Session]
      /\ excuse' \in [Device -> Cause]
      /\ \A d \in Device : session'[d] = "outdated" /\ excuse'[d] = "no" =>
            d \in Owner(e) \/ (session[d] = "outdated" /\ excuse[d] = "no")
  <2>1. session \in [Device -> Session] /\ excuse \in [Device -> Cause]
    BY DEF IInv, Tables
  <2>2. "no" \in Cause
    BY DEF Cause
  <2> QED
    BY <1>1, <2>1, <2>2, Affecting
<1>4. Tables'
  BY <1>1, <1>3 DEF IInv, Tables
<1>5. Calls'
  BY <1>1, CallsKept DEF IInv, Others
<1>6. Served'
  BY <1>1, <1>2, ServedStep DEF IInv
<1>7. SeenAgree'
  <2>1. \A f \in entry' : EntryForm(f) /\ \E g \in Seen : Alike(f, g)
    BY <1>1, EntriesSeen DEF IInv
  <2> QED
    BY <1>1, <1>2, <2>1, SeenStep DEF IInv, Inserted
<1>8. Address'
  BY <1>1, <1>2, <1>5, AddressKept DEF IInv
<1>9. SessionFollowsServers'
  <2>1. ASSUME NEW d, d \notin Owner(e), NEW x, d \in Connected(x)
        PROVE  d \in Connected(x)'
    <3>1. PICK f \in entry : f.kind = "adjacency" /\ f.server = x /\ f.owner = d
      BY <2>1 DEF Connected
    <3>2. ~Same(e, f)
      BY <2>1, <3>1 DEF Same, Owner, IInv, Tables
    <3>3. f \in entry'
      BY <1>1, <3>2
    <3> QED
      BY <3>1, <3>3 DEF Connected
  <2> QED
    BY <1>1, <1>2, <1>3, <2>1, ToldStep DEF IInv, ToldBy
<1> QED
  BY <1>4, <1>5, <1>6, <1>7, <1>8, <1>9 DEF IInv

(* After the statement that ends the sessions of those it concerns, a request  *)
(* has nobody to tell.                                                     *)
LEMMA InvalidateStep ==
    ASSUME IInv, NEW c \in Call, Invalidate(c)
    PROVE  IInv'
<1>1. /\ Others(c)
      /\ CallForm(call'[c])
      /\ call[c].stage = "invalidate"
      /\ call'[c].stage = "done" /\ call'[c].clear = {} /\ call'[c].todo = {}
      /\ call'[c].kind = call[c].kind /\ call'[c].server = call[c].server
      /\ End(Concerned(call[c]))
      /\ UNCHANGED <<stale, crossed, aborted>>
      /\ UNCHANGED <<server, record, interface, entry>>
  BY InvalidateEffect DEF IInv, table
<1>2. /\ session' \in [Device -> Session]
      /\ excuse' \in [Device -> Cause]
      /\ \A d \in Device : session'[d] = "outdated" /\ excuse'[d] = "no" =>
            d \notin Concerned(call[c]) /\ session[d] = "outdated" /\ excuse[d] = "no"
  <2>1. session \in [Device -> Session] /\ excuse \in [Device -> Cause]
    BY DEF IInv, Tables
  <2> QED
    BY <1>1, <2>1, Ending
<1>3. Tables'
  BY <1>1, <1>2 DEF IInv, Tables
<1>4. Calls'
  BY <1>1, CallsKept DEF IInv, Others
<1>5. Served'
  BY <1>1, ServedStep DEF IInv
<1>6. SeenAgree'
  <2>1. \A f \in entry' : EntryForm(f) /\ \E g \in Seen : Alike(f, g)
    BY <1>1, EntriesSeen DEF IInv
  <2>2. Inserted(call[c]) => Inserted(call'[c])
    BY <1>1 DEF Inserted
  <2> QED
    BY <1>1, <2>1, <2>2, SeenStep DEF IInv
<1>7. Address'
  BY <1>1, <1>4, AddressKept DEF IInv
<1>8. SessionFollowsServers'
  <2>1. CallForm(call[c])
    BY DEF IInv, Calls
  <2>2. \A d : ToldBy(c, d) => d \in Concerned(call[c])
    BY <1>1, <2>1 DEF ToldBy, Concerned, CallForm
  <2>3. \A x : Connected(x)' = Connected(x)
    BY <1>1 DEF Connected
  <2> QED
    BY <1>1, <1>2, <2>2, <2>3, ToldStep DEF IInv
<1> QED
  BY <1>3, <1>4, <1>5, <1>6, <1>7, <1>8 DEF IInv

LEMMA WriteInterfaceStep ==
    ASSUME IInv, NEW c \in Call, WriteInterface(c)
    PROVE  IInv'
<1> DEFINE l == call[c]
           s == l.server
           touched == IF l.new = interface[s] THEN {} ELSE Connected(s)
           excused == IF l.new = l.old THEN touched ELSE {}
<1>1. /\ Others(c)
      /\ CallForm(call'[c])
      /\ l.stage = "write interface" /\ l.kind = "interface" /\ s \in Server /\ l.clear = {}
      /\ call'[c].kind = "interface" /\ call'[c].server = s
      /\ call'[c].clear = {} /\ call'[c].todo = {}
      /\ UNCHANGED <<server, record, entry, stale, crossed, aborted>>
  BY WriteInterfaceEffect DEF IInv
<1>2. \/ /\ interface' \in [Server -> Value]
         /\ Affect(touched, excused, "overlap")
         /\ call'[c].stage = "invalidate"
         /\ call'[c].old = l.old /\ call'[c].new = l.new
      \/ /\ call'[c].stage = "done"
         /\ UNCHANGED <<interface, session, excuse>>
  BY WriteInterfaceEffect DEF IInv
<1>3. session \in [Device -> Session] /\ excuse \in [Device -> Cause] /\ interface \in [Server -> Value]
  BY DEF IInv, Tables
<1>4. /\ interface' \in [Server -> Value]
      /\ session' \in [Device -> Session]
      /\ excuse' \in [Device -> Cause]
      /\ \A d \in Device : session'[d] = "outdated" /\ excuse'[d] = "no" =>
            \/ d \in touched \ excused /\ call'[c].stage = "invalidate"
            \/ session[d] = "outdated" /\ excuse[d] = "no"
  <2>1. "overlap" \in Cause /\ "overlap" # "no"
    BY DEF Cause
  <2> HIDE DEF touched, excused
  <2>2. CASE Affect(touched, excused, "overlap") /\ call'[c].stage = "invalidate" /\ interface' \in [Server -> Value]
    BY <1>3, <2>1, <2>2, Affecting
  <2>3. CASE UNCHANGED <<interface, session, excuse>>
    BY <1>3, <2>3
  <2> QED
    BY <1>2, <2>2, <2>3
<1>5. Tables'
  BY <1>1, <1>4 DEF IInv, Tables
<1>6. Calls'
  BY <1>1, CallsKept DEF IInv, Others
<1>7. Served'
  BY <1>1, ServedStep DEF IInv
<1>8. SeenAgree'
  <2>1. \A f \in entry' : EntryForm(f) /\ \E g \in Seen : Alike(f, g)
    BY <1>1, EntriesSeen DEF IInv
  <2>2. ~Inserted(call[c]) /\ call'[c].stage # "update"
    BY <1>1, <1>2 DEF Inserted
  <2> QED
    BY <1>1, <2>1, <2>2, SeenStep DEF IInv
<1>9. Address'
  <2>1. call'[c].stage # "carry" /\ call'[c].stage # "write server"
    BY <1>2
  <2>2. \A e \in entry' : record'[e.server] = record[e.server]
    BY <1>1
  <2> QED
    BY <1>1, <1>6, <2>1, <2>2, AddressKept DEF IInv
<1>10. SessionFollowsServers'
  <2>1. \A x : Connected(x)' = Connected(x)
    BY <1>1 DEF Connected
  <2>2. \A d : ~ToldBy(c, d)
    BY <1>1 DEF ToldBy
  <2>3. ASSUME NEW d, d \in touched \ excused, call'[c].stage = "invalidate"
        PROVE  ToldBy(c, d)'
    <3>1. l.old # l.new /\ d \in Connected(s)
      BY <2>3
    <3>2. PICK x : x = s
      OBVIOUS
    <3>3. d \in Connected(x)'
      BY <2>1, <3>1, <3>2
    <3>4. d \in Connected(call[c].server)' 
      BY <1>1, <3>2, <3>3
    <3>5. call'[c].old = l.old /\ call'[c].new = l.new
      BY <1>2, <2>3
    <3> QED
      BY <1>1, <2>3, <3>1, <3>4, <3>5 DEF ToldBy
  <2> HIDE DEF touched, excused
  <2> QED
    BY <1>1, <1>4, <2>1, <2>2, <2>3, ToldStep DEF IInv
<1> QED
  BY <1>5, <1>6, <1>7, <1>8, <1>9, <1>10 DEF IInv

(* An entry is as it was, or recorded as stale, or has been written with the    *)
(* address that its server has.                                             *)
LEMMA AddressWritten ==
    ASSUME Calls, Calls', Address, NEW c \in Call, Others(c),
           call[c].stage # "carry", call'[c].stage \notin {"carry", "write server"},
           UNCHANGED <<record, crossed, aborted>>,
           \A e \in entry' :
               \/ e \in entry /\ (e.id \in stale => e.id \in stale')
               \/ e.id \in stale'
               \/ /\ e.given \subseteq e.ips
                  /\ e.ips \subseteq e.given \cup {record[e.server].hc}
                  /\ Covers(e.ips, record[e.server].hc)
    PROVE  Address'
<1>1. \A b \in Call : call'[b].stage \in {"carry", "write server"} => call'[b] = call[b]
  BY DEF Others
<1>2. AsRead'
  BY <1>1 DEF Address, AsRead
<1>3. AloneOrCrossed'
  <2> SUFFICES ASSUME NEW b \in Call, NEW d \in Call, call'[b].stage = "carry", call'[d].stage = "carry",
                      call'[b].server = call'[d].server, b # d
               PROVE  call'[d].server \in crossed'
    BY DEF AloneOrCrossed
  <2>1. call'[b] = call[b] /\ call'[d] = call[d]
    BY <1>1
  <2> QED
    BY <2>1 DEF Address, AloneOrCrossed
<1>4. Carried'
  <2> SUFFICES ASSUME NEW b \in Call, call'[b].stage = "carry", call'[b].server \notin crossed'
               PROVE  /\ record'[call'[b].server] = call'[b].new
                      /\ \A e \in entry' : e.server = call'[b].server /\ e.id \notin stale' =>
                             CarriedTo(call'[b], e, aborted')
    BY DEF Carried
  <2>1. /\ call'[b] = call[b] /\ call[b].stage = "carry" /\ call[b].server \notin crossed
        /\ record[call[b].server] = call[b].new
        /\ \A e \in entry : e.server = call[b].server /\ e.id \notin stale =>
               CarriedTo(call[b], e, aborted)
    BY <1>1 DEF Address, Carried
  <2>2. ASSUME NEW e \in entry', e.server = call[b].server, e.id \notin stale'
        PROVE  CarriedTo(call[b], e, aborted)
    <3>1. CASE e \in entry /\ e.id \notin stale
      BY <2>1, <2>2, <3>1
    <3>2. CASE /\ e.ips \subseteq e.given \cup {record[e.server].hc}
               /\ Covers(e.ips, record[e.server].hc)
      BY <2>1, <2>2, <3>2, WrittenMeanwhile
    <3> QED
      BY <2>2, <3>1, <3>2
  <2> QED
    BY <2>1, <2>2
<1>5. \A s : Carrying(s) => Carrying(s)'
  <2> SUFFICES ASSUME NEW s, Carrying(s)
               PROVE  Carrying(s)'
    OBVIOUS
  <2>1. PICK b \in Call : call[b].stage = "carry" /\ call[b].server = s
    BY CarryingMeans
  <2>2. call'[b] = call[b]
    BY <2>1 DEF Others
  <2> QED
    BY <2>1, <2>2, CarryingMeans
<1>6. OnlyWhatWasGiven'
  <2> SUFFICES ASSUME NEW e \in entry', e.id \notin stale'
               PROVE  /\ Network \in e.given => Network \in e.ips
                      /\ \/ e.ips \subseteq e.given \cup {record[e.server].hc}
                         \/ e.server \in crossed
                         \/ <<"remove", e.server>> \in aborted
                         \/ Carrying(e.server)'
    BY DEF OnlyWhatWasGiven
  <2>1. CASE e \in entry /\ e.id \notin stale
    BY <1>5, <2>1 DEF Address, OnlyWhatWasGiven
  <2> QED
    BY <2>1
<1>7. HealthcheckCovered'
  <2> SUFFICES ASSUME NEW e \in entry', e.id \notin stale'
               PROVE  \/ Covers(e.ips, record[e.server].hc)
                      \/ e.server \in crossed
                      \/ <<"add", e.server>> \in aborted
                      \/ Carrying(e.server)'
    BY DEF HealthcheckCovered
  <2>1. CASE e \in entry /\ e.id \notin stale
    BY <1>5, <2>1 DEF Address, HealthcheckCovered
  <2> QED
    BY <2>1
<1> QED
  BY <1>2, <1>3, <1>4, <1>6, <1>7 DEF Address

LEMMA InsertEntryStep ==
    ASSUME IInv, NEW c \in Call, InsertEntry(c)
    PROVE  IInv'
<1>1. /\ Others(c)
      /\ CallForm(call'[c])
      /\ call[c].stage = "insert" /\ call'[c].todo = {}
      /\ call[c].kind = "entry" /\ call'[c].kind = "entry"
      /\ call'[c].stage \in {"invalidate", "done"}
      /\ UNCHANGED <<server, record, interface, crossed, aborted>>
  BY InsertEntryEffect DEF IInv
<1>2. call[c].clear = {}
  BY <1>1 DEF IInv, Calls, CallForm
<1>3. session \in [Device -> Session] /\ excuse \in [Device -> Cause] /\ "no" \in Cause
  BY DEF IInv, Tables, Cause
<1>4. Calls'
  BY <1>1, CallsKept DEF IInv, Others
<1>5. Served'
  BY <1>1, ServedStep DEF IInv
<1>6. \A d : ~ToldBy(c, d)
  BY <1>1, <1>2 DEF ToldBy
<1>7. ASSUME NEW new \in Entry, EntryForm(new), new.id = c, new.server \in server,
             new.given \subseteq new.ips, new.ips \subseteq new.given \cup {call[c].hc},
             Covers(new.ips, call[c].hc),
             entry' = entry \cup {new},
             stale' = IF record[new.server].hc = call[c].hc THEN stale ELSE stale \cup {c},
             Affect(Owner(new), {}, "no"), call'[c].clear = Owner(new), call'[c].stage = "invalidate"
      PROVE  IInv'
  <2>1. /\ session' \in [Device -> Session]
        /\ excuse' \in [Device -> Cause]
        /\ \A d \in Device : session'[d] = "outdated" /\ excuse'[d] = "no" =>
              d \in Owner(new) \/ (session[d] = "outdated" /\ excuse[d] = "no")
    BY <1>3, <1>7, Affecting
  <2>2. \A e \in Seen : e.id # c
    BY <1>1 DEF IInv, SeenAgree, Inserted
  <2>3. \A e \in entry : e \in Seen /\ e.id # c /\ EntryForm(e)
    BY <2>2, EntriesSeen DEF IInv
  <2>4. \A e, f \in entry' : e.id = f.id => e = f
    BY <1>7, <2>3 DEF IInv, Tables
  <2>5. Tables'
    <3>1. \A e \in entry' : EntryForm(e) /\ e.server \in server'
      BY <1>1, <1>7 DEF IInv, Tables
    <3>2. stale' \subseteq Call \cup Kind
      BY <1>7 DEF IInv, Tables
    <3> QED
      BY <1>1, <2>1, <2>4, <3>1, <3>2 DEF IInv, Tables
  <2>6. SeenAgree'
    <3>1. \A e \in Seen' : e \in Seen \/ e = new
      <4> SUFFICES ASSUME NEW e \in Seen', e # new
                   PROVE  e \in Seen
        OBVIOUS
      <4>1. CASE e \in entry
        BY <2>3, <4>1
      <4>2. CASE e \notin entry
        <5>1. PICK b \in Call : e \in call'[b].todo \/ (call'[b].stage = "update" /\ e = call'[b].old)
          BY <1>7, <4>2, SeenMeans
        <5>2. call'[b] = call[b]
          BY <1>1, <1>7, <5>1 DEF Others
        <5> QED
          BY <5>1, <5>2, SeenMeans
      <4> QED
        BY <4>1, <4>2
    <3>2. \A b \in Call : Inserted(call[b]) => Inserted(call'[b])
      BY <1>1 DEF Others, Inserted
    <3>3. Inserted(call'[c])
      BY <1>1, <1>7 DEF Inserted
    <3>4. \A e \in Seen' : EntryForm(e) /\ (e.id \in Call => Inserted(call'[e.id]))
      BY <1>7, <3>1, <3>2, <3>3 DEF IInv, SeenAgree
    <3>5. \A e, f \in Seen' : e.id = f.id => Alike(e, f)
      <4> SUFFICES ASSUME NEW e \in Seen', NEW f \in Seen', e.id = f.id
                   PROVE  Alike(e, f)
        OBVIOUS
      <4>1. CASE e \in Seen /\ f \in Seen
        BY <4>1 DEF IInv, SeenAgree
      <4>2. CASE e = f
        BY <4>2 DEF Alike
      <4> QED
        BY <1>7, <2>2, <3>1, <4>1, <4>2
    <3> QED
      BY <3>4, <3>5 DEF SeenAgree
  <2>7. Address'
    <3>1. ASSUME NEW e \in entry'
          PROVE  \/ e \in entry /\ (e.id \in stale => e.id \in stale')
                 \/ e.id \in stale'
                 \/ /\ e.given \subseteq e.ips
                    /\ e.ips \subseteq e.given \cup {record[e.server].hc}
                    /\ Covers(e.ips, record[e.server].hc)
      BY <1>7
    <3> QED
      BY <1>1, <1>4, <3>1, AddressWritten DEF IInv
  <2>8. SessionFollowsServers'
    <3>1. \A x, d : d \in Connected(x) => d \in Connected(x)'
      BY <1>7 DEF Connected
    <3>2. \A d \in Owner(new) : ToldBy(c, d)'
      BY <1>7 DEF ToldBy
    <3> QED
      BY <1>1, <1>6, <2>1, <3>1, <3>2, ToldStep DEF IInv
  <2> QED
    BY <1>4, <1>5, <2>5, <2>6, <2>7, <2>8 DEF IInv
<1>8. CASE call'[c].stage = "done" /\ UNCHANGED <<entry, stale, session, excuse>>
  <2>1. Tables'
    BY <1>1, <1>8 DEF IInv, Tables
  <2>2. SeenAgree'
    <3>1. \A e \in entry' : EntryForm(e) /\ \E g \in Seen : Alike(e, g)
      BY <1>8, EntriesSeen DEF IInv
    <3> QED
      BY <1>1, <1>8, <3>1, SeenStep DEF IInv, Inserted
  <2>3. Address'
    BY <1>1, <1>4, <1>8, AddressKept DEF IInv
  <2>4. SessionFollowsServers'
    <3>1. \A x : Connected(x)' = Connected(x)
      BY <1>8 DEF Connected
    <3> QED
      BY <1>1, <1>6, <1>8, <3>1, ToldStep DEF IInv
  <2> QED
    BY <1>4, <1>5, <2>1, <2>2, <2>3, <2>4 DEF IInv
<1> QED
  BY <1>7, <1>8, InsertEntryEffect DEF IInv

(* The entry that a statement names has the kind of the one that was read, and  *)
(* its owner, or its server if it is of the LDAP template.                    *)
LEMMA SameIsAlike ==
    ASSUME SeenAgree, NEW e \in Seen, NEW f \in entry, Same(e, f)
    PROVE  /\ f.kind = e.kind
           /\ e.kind # "ldap" => f.owner = e.owner
           /\ e.kind = "ldap" => f.server = e.server
<1>1. f \in Seen
  BY EntriesSeen
<1>2. CASE e.kind = "ldap"
  BY <1>2 DEF Same
<1>3. CASE e.kind # "ldap"
  <2>1. f.id = e.id
    BY <1>3 DEF Same
  <2>2. Alike(e, f)
    BY <1>1, <2>1 DEF SeenAgree
  <2> QED
    BY <1>3, <2>2 DEF Alike
<1> QED
  BY <1>2, <1>3

LEMMA WriteEntryStep ==
    ASSUME IInv, NEW c \in Call, WriteEntry(c)
    PROVE  IInv'
<1> DEFINE l == call[c]
           target == {f \in entry : Same(l.old, f)}
           touched == UNION {Owner(f) : f \in {e \in target : e.ips # l.ips \/ e.server # l.server}}
           R == [f \in target |-> [f EXCEPT !.server = l.server, !.ips = l.ips, !.given = l.given]]
<1>1. /\ Others(c)
      /\ CallForm(call'[c])
      /\ l.stage = "update" /\ l.kind = "entry"
      /\ EntryForm(l.old) /\ l.server \in Server
      /\ l.clear = {}
      /\ call'[c].kind = "entry" /\ call'[c].todo = {}
      /\ UNCHANGED <<server, record, interface, crossed, aborted>>
  BY WriteEntryEffect DEF IInv
<1>2. /\ l.ips \in SUBSET Prefix /\ l.given \subseteq l.ips
      /\ l.ips = {} => l.old.kind = "ldap" /\ l.given = {}
      /\ l.given \in SUBSET Prefix
      /\ l.ips \subseteq l.given \cup {l.hc} /\ Covers(l.ips, l.hc)
  BY WriteEntryEffect DEF IInv
<1>3. \/ /\ l.server \in server /\ call'[c].stage = "invalidate"
         /\ entry' = (entry \ target) \cup
               {[f EXCEPT !.server = l.server, !.ips = l.ips, !.given = l.given] : f \in target}
         /\ stale' = IF l.hc = record[l.server].hc THEN stale \ Ids(target) ELSE stale \cup Ids(target)
         /\ Affect(touched, touched \ call'[c].clear, "overlap")
      \/ /\ call'[c].stage = "done" /\ call'[c].clear = {}
         /\ UNCHANGED <<entry, stale, session, excuse>>
  BY WriteEntryEffect DEF IInv
<1>11. Calls'
  BY <1>1, CallsKept DEF IInv, Others
<1>12. Served'
  BY <1>1, ServedStep DEF IInv
<1>16. \A d : ~ToldBy(c, d)
  BY <1>1 DEF ToldBy
<1>17. ASSUME l.server \in server, call'[c].stage = "invalidate",
              entry' = (entry \ target) \cup
                  {[f EXCEPT !.server = l.server, !.ips = l.ips, !.given = l.given] : f \in target},
              stale' = IF l.hc = record[l.server].hc THEN stale \ Ids(target) ELSE stale \cup Ids(target),
              Affect(touched, touched \ call'[c].clear, "overlap")
       PROVE  IInv'
  <2>4. entry' = (entry \ target) \cup {R[f] : f \in target}
    BY <1>17
  <2>5. \A f \in target : /\ f \in entry /\ EntryForm(f)
                          /\ EntryForm(R[f]) /\ Alike(R[f], f)
                          /\ R[f].server = l.server /\ R[f].ips = l.ips /\ R[f].given = l.given
    <3> SUFFICES ASSUME NEW f \in target
                 PROVE  /\ f \in entry /\ EntryForm(f)
                        /\ EntryForm(R[f]) /\ Alike(R[f], f)
                        /\ R[f].server = l.server /\ R[f].ips = l.ips /\ R[f].given = l.given
      OBVIOUS
    <3>1. l.old \in Seen
      BY <1>1, EntriesSeen DEF IInv
    <3>2. f \in entry /\ Same(l.old, f)
      OBVIOUS
    <3>3. EntryForm(f)
      BY <3>2 DEF IInv, Tables
    <3>4. f.kind = l.old.kind
      BY <1>1, <3>1, <3>2, SameIsAlike DEF IInv
    <3>5. R[f] = [f EXCEPT !.server = l.server, !.ips = l.ips, !.given = l.given]
      OBVIOUS
    <3> HIDE DEF R
    <3>6. /\ EntryForm(R[f]) /\ Alike(R[f], f)
          /\ R[f].server = l.server /\ R[f].ips = l.ips /\ R[f].given = l.given
      BY <1>1, <1>2, <3>3, <3>4, <3>5 DEF EntryForm, Entry, Alike
    <3> QED
      BY <3>2, <3>3, <3>6
  <2>6. target \in SUBSET entry
    OBVIOUS
  <2>16. \A d, f : f \in target /\ d \in Owner(f) /\ d \notin touched => R[f].server = f.server
    BY <2>5
  <2> HIDE DEF target, R
  <2>17. \A f \in target : EntryForm(R[f]) /\ Alike(R[f], f) /\ R[f].server \in server
    BY <1>17, <2>5
  <2>7. /\ \A e \in entry' : /\ EntryForm(e) /\ e.server \in server
                             /\ \/ e \in entry \ target
                                \/ \E f \in target : e = R[f] /\ Alike(e, f)
                             /\ \E f \in entry : Alike(e, f)
        /\ \A e, f \in entry' : e.id = f.id => e = f
        /\ \A d : (\A f \in target : R[f].server = f.server \/ d \notin Owner(f)) =>
               \A x : d \in Connected(x) => d \in Connected(x)'
    BY <2>4, <2>6, <2>17, Replaced DEF IInv
  <2>8. \A f \in entry \ target : f.id \notin Ids(target)
    BY <2>6 DEF IInv, Tables, Ids
  <2>9. /\ session' \in [Device -> Session]
        /\ excuse' \in [Device -> Cause]
        /\ \A d \in Device : session'[d] = "outdated" /\ excuse'[d] = "no" =>
              d \in call'[c].clear \/ (d \notin touched /\ session[d] = "outdated" /\ excuse[d] = "no")
    <3>1. session \in [Device -> Session] /\ excuse \in [Device -> Cause]
      BY DEF IInv, Tables
    <3>2. "overlap" \in Cause /\ "overlap" # "no"
      BY DEF Cause
    <3>3. Affect(touched, touched \ call'[c].clear, "overlap")
      BY <1>17
    <3> HIDE DEF touched
    <3>4. /\ session' \in [Device -> Session]
          /\ excuse' \in [Device -> Cause]
          /\ \A d \in Device : session'[d] = "outdated" /\ excuse'[d] = "no" =>
                /\ d \notin touched \ call'[c].clear
                /\ d \in touched \/ (session[d] = "outdated" /\ excuse[d] = "no")
      BY <3>1, <3>2, <3>3, Affecting
    <3> QED
      BY <3>4
  <2>10. Tables'
    <3>1. stale' \subseteq Call \cup Kind
      <4>1. Ids(target) \subseteq Call \cup Kind
        BY <2>5 DEF Ids, EntryForm, Entry
      <4> QED
        BY <1>17, <4>1 DEF IInv, Tables
    <3> QED
      BY <1>1, <2>7, <2>9, <3>1 DEF IInv, Tables
  <2>13. SeenAgree'
    <3>1. \A e \in entry' : EntryForm(e) /\ \E g \in Seen : Alike(e, g)
      BY <2>7, EntriesSeen DEF IInv
    <3> QED
      BY <1>1, <1>17, <3>1, SeenStep DEF IInv, Inserted
  <2>14. Address'
    <3>1. ASSUME NEW e \in entry'
          PROVE  \/ e \in entry /\ (e.id \in stale => e.id \in stale')
                 \/ e.id \in stale'
                 \/ /\ e.given \subseteq e.ips
                    /\ e.ips \subseteq e.given \cup {record[e.server].hc}
                    /\ Covers(e.ips, record[e.server].hc)
      <4>1. CASE e \in entry \ target
        BY <1>17, <2>8, <4>1
      <4>2. ASSUME NEW f \in target, e = R[f]
            PROVE  \/ e.id \in stale'
                   \/ /\ e.given \subseteq e.ips
                      /\ e.ips \subseteq e.given \cup {record[e.server].hc}
                      /\ Covers(e.ips, record[e.server].hc)
        <5>1. e.id \in Ids(target) /\ e.server = l.server /\ e.ips = l.ips /\ e.given = l.given
          BY <2>5, <4>2 DEF Ids, Alike
        <5>2. CASE l.hc = record[l.server].hc
          BY <1>2, <5>1, <5>2
        <5>3. CASE l.hc # record[l.server].hc
          BY <1>17, <5>1, <5>3
        <5> QED
          BY <5>2, <5>3
      <4> QED
        BY <2>7, <4>1, <4>2
    <3> QED
      BY <1>1, <1>11, <1>17, <3>1, AddressWritten DEF IInv
  <2>15. SessionFollowsServers'
    <3>1. \A d \in call'[c].clear : ToldBy(c, d)'
      BY DEF ToldBy
    <3> HIDE DEF touched
    <3>2. \A d : d \notin touched => \A x : d \in Connected(x) => d \in Connected(x)'
      BY <2>7, <2>16
    <3> QED
      BY <1>1, <1>16, <2>9, <3>1, <3>2, ToldStep DEF IInv
  <2> QED
    BY <1>11, <1>12, <2>10, <2>13, <2>14, <2>15 DEF IInv
<1>18. CASE call'[c].stage = "done" /\ UNCHANGED <<entry, stale, session, excuse>>
  <2>1. Tables'
    BY <1>1, <1>18 DEF IInv, Tables
  <2>2. SeenAgree'
    <3>1. \A e \in entry' : EntryForm(e) /\ \E g \in Seen : Alike(e, g)
      BY <1>18, EntriesSeen DEF IInv
    <3> QED
      BY <1>1, <1>18, <3>1, SeenStep DEF IInv, Inserted
  <2>3. Address'
    BY <1>1, <1>11, <1>18, AddressKept DEF IInv
  <2>4. SessionFollowsServers'
    <3>1. \A x : Connected(x)' = Connected(x)
      BY <1>18 DEF Connected
    <3> QED
      BY <1>1, <1>16, <1>18, <3>1, ToldStep DEF IInv
  <2> QED
    BY <1>11, <1>12, <2>1, <2>2, <2>3, <2>4 DEF IInv
<1> HIDE DEF target, touched
<1> QED
  BY <1>3, <1>17, <1>18

(* A step of a request that changes the server s: nothing happens to the other  *)
(* servers, and for s either another request was at work too or this one is     *)
(* where its next stage says.                                              *)
LEMMA AddressAt ==
    ASSUME Calls, Calls', Address, NEW c \in Call, NEW s, Others(c),
           call[c].server = s, call'[c].server = s, call'[c].stage # "write server",
           \A x \in Server : x # s => record'[x] = record[x],
           crossed' \in {crossed, crossed \cup {s}},
           \A x : x # s => \A p : <<p, x>> \in aborted' <=> <<p, x>> \in aborted,
           stale \subseteq stale',
           \A e \in entry' : e.server \in Server /\ (e.server # s => e \in entry \/ e.id \in stale'),
           \A e \in entry' : e.server = s /\ e.id \notin stale' => (Network \in e.given => Network \in e.ips),
           s \notin crossed' =>
               /\ \A b \in Call : b # c /\ call[b].server = s =>
                      /\ call[b].stage # "carry"
                      /\ call[b].stage = "write server" => record'[s] = call[b].old
               /\ call'[c].stage = "carry" => record'[s] = call'[c].new
               /\ \A e \in entry' : e.server = s /\ e.id \notin stale' =>
                      IF call'[c].stage = "carry"
                      THEN CarriedTo(call'[c], e, aborted')
                      ELSE /\ Covers(e.ips, record'[s].hc) \/ <<"add", s>> \in aborted'
                           /\ <<"remove", s>> \notin aborted' => e.ips \subseteq e.given \cup {record'[s].hc}
    PROVE  Address'
<1>1. \A b \in Call : b # c => call'[b] = call[b]
  BY DEF Others
<1>0. \A b \in Call : call[b].stage \in {"carry", "write server"} => call[b].server \in Server
  BY DEF Calls, CallForm
<1>2. AsRead'
  <2> SUFFICES ASSUME NEW b \in Call, call'[b].stage = "write server", call'[b].server \notin crossed'
               PROVE  record'[call'[b].server] = call'[b].old
    BY DEF AsRead
  <2>1. b # c /\ call'[b] = call[b]
    BY <1>1
  <2>2. CASE call[b].server = s
    BY <2>1, <2>2
  <2>3. CASE call[b].server # s
    <3>1. /\ call[b].stage = "write server" /\ call[b].server \notin crossed
          /\ call[b].server \in Server
      BY <1>0, <2>1
    <3>2. record[call[b].server] = call[b].old
      BY <3>1 DEF Address, AsRead
    <3> QED
      BY <2>1, <2>3, <3>1, <3>2
  <2> QED
    BY <2>2, <2>3
<1>3. AloneOrCrossed'
  <2> SUFFICES ASSUME NEW b \in Call, NEW d \in Call, call'[b].stage = "carry", call'[d].stage = "carry",
                      call'[b].server = call'[d].server, b # d, call'[d].server \notin crossed'
               PROVE  FALSE
    BY DEF AloneOrCrossed
  <2>1. CASE b = c
    <3>1. call'[d] = call[d] /\ call[d].server = s
      BY <1>1, <2>1
    <3> QED
      BY <2>1, <3>1
  <2>2. CASE d = c
    <3>1. call'[b] = call[b] /\ call[b].server = s
      BY <1>1, <2>2
    <3> QED
      BY <2>2, <3>1
  <2>3. CASE b # c /\ d # c
    BY <1>1, <2>3 DEF Address, AloneOrCrossed
  <2> QED
    BY <2>1, <2>2, <2>3
<1>4. Carried'
  <2> SUFFICES ASSUME NEW b \in Call, call'[b].stage = "carry", call'[b].server \notin crossed'
               PROVE  /\ record'[call'[b].server] = call'[b].new
                      /\ \A e \in entry' : e.server = call'[b].server /\ e.id \notin stale' =>
                             CarriedTo(call'[b], e, aborted')
    BY DEF Carried
  <2>1. CASE b = c
    BY <2>1
  <2>2. CASE b # c
    <3>1. call'[b] = call[b]
      BY <1>1, <2>2
    <3>2. call[b].server # s
      BY <2>2, <3>1
    <3>3. /\ record[call[b].server] = call[b].new
          /\ \A e \in entry : e.server = call[b].server /\ e.id \notin stale =>
                 CarriedTo(call[b], e, aborted)
      BY <3>1, <3>2 DEF Address, Carried
    <3>4. ASSUME NEW e \in entry', e.server = call[b].server, e.id \notin stale'
          PROVE  CarriedTo(call[b], e, aborted')
      <4>1. CarriedTo(call[b], e, aborted)
        BY <3>2, <3>3, <3>4
      <4>2. <<"remove", call[b].server>> \in aborted' <=> <<"remove", call[b].server>> \in aborted
        BY <3>2
      <4> QED
        BY <4>1, <4>2 DEF CarriedTo
    <3> QED
      BY <1>0, <3>1, <3>2, <3>3, <3>4
  <2> QED
    BY <2>1, <2>2
<1>5. ASSUME NEW x, x # s, Carrying(x)
      PROVE  Carrying(x)'
  <2>1. PICK b \in Call : call[b].stage = "carry" /\ call[b].server = x
    BY <1>5, CarryingMeans
  <2>2. call'[b] = call[b]
    BY <1>1, <1>5, <2>1
  <2> QED
    BY <2>1, <2>2, CarryingMeans
<1>6. call'[c].stage = "carry" => Carrying(s)'
  BY CarryingMeans
<1>7. OnlyWhatWasGiven'
  <2> SUFFICES ASSUME NEW e \in entry', e.id \notin stale'
               PROVE  /\ Network \in e.given => Network \in e.ips
                      /\ \/ e.ips \subseteq e.given \cup {record'[e.server].hc}
                         \/ e.server \in crossed'
                         \/ <<"remove", e.server>> \in aborted'
                         \/ Carrying(e.server)'
    BY DEF OnlyWhatWasGiven
  <2>1. CASE e.server = s
    BY <1>6, <2>1
  <2>2. CASE e.server # s
    BY <1>5, <2>2 DEF Address, OnlyWhatWasGiven
  <2> QED
    BY <2>1, <2>2
<1>8. HealthcheckCovered'
  <2> SUFFICES ASSUME NEW e \in entry', e.id \notin stale'
               PROVE  \/ Covers(e.ips, record'[e.server].hc)
                      \/ e.server \in crossed'
                      \/ <<"add", e.server>> \in aborted'
                      \/ Carrying(e.server)'
    BY DEF HealthcheckCovered
  <2>1. CASE e.server = s
    BY <1>6, <2>1
  <2>2. CASE e.server # s
    BY <1>5, <2>2 DEF Address, HealthcheckCovered
  <2> QED
    BY <2>1, <2>2
<1> QED
  BY <1>2, <1>3, <1>4, <1>7, <1>8 DEF Address

LEMMA WriteServerStep ==
    ASSUME IInv, NEW c \in Call, WriteServer(c)
    PROVE  IInv'
<1> DEFINE l == call[c]
           m == call'[c]
           s == l.server
           touched == IF l.new = record[s] THEN {} ELSE Connected(s)
           excused == IF l.new = l.old THEN touched ELSE {}
<1>1. /\ Others(c)
      /\ CallForm(m)
      /\ l.stage = "write server" /\ l.kind = "server" /\ s \in Server
      /\ l.new \in Record /\ l.clear = {}
      /\ m.kind = "server" /\ m.server = s /\ m.clear = {} /\ m.todo = {}
      /\ UNCHANGED <<server, interface, entry, stale>>
  BY WriteServerEffect DEF IInv
<1>2. \/ /\ s \in server
         /\ SameChange(l, m)
         /\ aborted' = IF l.new.hc = l.old.hc THEN aborted ELSE aborted \ {<<"add", s>>}
         /\ record' = [record EXCEPT ![s] = l.new]
         /\ crossed' = IF Changing(s) = {c} THEN crossed ELSE crossed \cup {s}
         /\ Affect(touched, excused, "overlap")
         /\ \/ m.stage = "carry" /\ m.pass = "remove" /\ m.of = "none" /\ Removes(l)
            \/ m.stage = "carry" /\ m.pass = "add" /\ m.of = "none" /\ ~Removes(l) /\ Adds(l)
            \/ m.stage = "invalidate" /\ ~Removes(l) /\ ~Adds(l)
      \/ /\ s \notin server
         /\ m.stage = "done"
         /\ UNCHANGED <<record, crossed, aborted, session, excuse>>
  BY WriteServerEffect DEF IInv
<1>3. /\ session \in [Device -> Session] /\ excuse \in [Device -> Cause]
      /\ record \in [Server -> Record]
      /\ \A e \in entry : EntryForm(e) /\ e.server \in Server
  BY DEF IInv, Tables
<1>4. CallForm(l)
  BY DEF IInv, Calls
<1>5. Calls'
  BY <1>1, CallsKept DEF IInv, Others
<1>6. Served'
  BY <1>1, <1>4, ServedStep DEF IInv
<1>7. SeenAgree'
  <2>1. \A e \in entry' : EntryForm(e) /\ \E g \in Seen : Alike(e, g)
    BY <1>1, EntriesSeen DEF IInv
  <2>2. m.stage # "update" /\ ~Inserted(l)
    BY <1>1, <1>2 DEF Inserted
  <2> QED
    BY <1>1, <2>1, <2>2, SeenStep DEF IInv
<1>8. \A x : Connected(x)' = Connected(x)
  BY <1>1 DEF Connected
<1>9. \A d : ~ToldBy(c, d)
  BY <1>1 DEF ToldBy
<1>10. CASE /\ SameChange(l, m)
            /\ aborted' = IF l.new.hc = l.old.hc THEN aborted ELSE aborted \ {<<"add", s>>}
            /\ record' = [record EXCEPT ![s] = l.new]
            /\ crossed' = IF Changing(s) = {c} THEN crossed ELSE crossed \cup {s}
            /\ Affect(touched, excused, "overlap")
            /\ \/ m.stage = "carry" /\ m.pass = "remove" /\ m.of = "none" /\ Removes(l)
               \/ m.stage = "carry" /\ m.pass = "add" /\ m.of = "none" /\ ~Removes(l) /\ Adds(l)
               \/ m.stage = "invalidate" /\ ~Removes(l) /\ ~Adds(l)
  <2>1. /\ session' \in [Device -> Session]
        /\ excuse' \in [Device -> Cause]
        /\ \A d \in Device : session'[d] = "outdated" /\ excuse'[d] = "no" =>
              d \in touched \ excused \/ (session[d] = "outdated" /\ excuse[d] = "no")
    <3>1. "overlap" \in Cause /\ "overlap" # "no"
      BY DEF Cause
    <3>2. Affect(touched, excused, "overlap")
      BY <1>10
    <3> HIDE DEF touched, excused
    <3>3. /\ session' \in [Device -> Session]
          /\ excuse' \in [Device -> Cause]
          /\ \A d \in Device : session'[d] = "outdated" /\ excuse'[d] = "no" =>
                d \notin excused /\ (d \in touched \/ (session[d] = "outdated" /\ excuse[d] = "no"))
      BY <1>3, <3>1, <3>2, Affecting
    <3> QED
      BY <3>3
  <2>2. Tables'
    <3>1. /\ record' \in [Server -> Record] /\ crossed' \subseteq Server
          /\ aborted' \subseteq {"remove", "add"} \X Server
      BY <1>1, <1>3, <1>10 DEF IInv, Tables
    <3> QED
      BY <1>1, <2>1, <3>1 DEF IInv, Tables
  <2>3. /\ \A x \in Server : x # s => record'[x] = record[x]
        /\ record'[s] = l.new
        /\ crossed' \in {crossed, crossed \cup {s}}
        /\ s \notin crossed' => s \notin crossed /\ Changing(s) = {c}
        /\ m.old = l.old /\ m.new = l.new
    BY <1>1, <1>3, <1>10 DEF SameChange
  <2>8. /\ \A x : x # s => \A p : <<p, x>> \in aborted' <=> <<p, x>> \in aborted
        /\ <<"remove", s>> \in aborted' <=> <<"remove", s>> \in aborted
        /\ l.new.hc = l.old.hc => aborted' = aborted
    <3>1. CASE aborted' = aborted
      BY <3>1
    <3>2. CASE l.new.hc # l.old.hc /\ aborted' = aborted \ {<<"add", s>>}
      BY <3>2
    <3> QED
      BY <1>10, <3>1, <3>2
  <2>4. \A e \in entry' : e.server = s /\ e.id \notin stale' => (Network \in e.given => Network \in e.ips)
    BY <1>1 DEF IInv, Address, OnlyWhatWasGiven
  <2>5. ASSUME s \notin crossed'
        PROVE  /\ \A b \in Call : b # c /\ call[b].server = s =>
                      /\ call[b].stage # "carry"
                      /\ call[b].stage = "write server" => record'[s] = call[b].old
               /\ \A e \in entry' : e.server = s /\ e.id \notin stale' =>
                      IF m.stage = "carry"
                      THEN CarriedTo(m, e, aborted')
                      ELSE /\ Covers(e.ips, record'[s].hc) \/ <<"add", s>> \in aborted'
                           /\ <<"remove", s>> \notin aborted' => e.ips \subseteq e.given \cup {record'[s].hc}
    <3>1. \A b \in Call : call[b].server = s /\ call[b].stage \in {"carry", "write server"} => b = c
      BY <2>3, <2>5 DEF Changing, IInv, Calls, CallForm
    <3>2. ~Carrying(s)
      <4> SUFFICES ASSUME Carrying(s)
                   PROVE  FALSE
        OBVIOUS
      <4>1. PICK b \in Call : call[b].stage = "carry" /\ call[b].server = s
        BY CarryingMeans DEF IInv
      <4>2. b = c
        BY <3>1, <4>1
      <4> QED
        BY <1>1, <4>1, <4>2
    <3>3. record[s] = l.old
      BY <1>1, <2>3, <2>5 DEF IInv, Address, AsRead
    <3>4. ASSUME NEW e \in entry, e.server = s, e.id \notin stale
          PROVE  /\ Covers(e.ips, l.old.hc) \/ <<"add", s>> \in aborted
                 /\ <<"remove", s>> \notin aborted => e.ips \subseteq e.given \cup {l.old.hc}
      BY <2>3, <2>5, <3>2, <3>3, <3>4 DEF IInv, Address, OnlyWhatWasGiven, HealthcheckCovered
    <3>5. ASSUME NEW e \in entry, e.server = s, e.id \notin stale
          PROVE  IF m.stage = "carry"
                 THEN CarriedTo(m, e, aborted')
                 ELSE /\ Covers(e.ips, l.new.hc) \/ <<"add", s>> \in aborted'
                      /\ <<"remove", s>> \notin aborted' => e.ips \subseteq e.given \cup {l.new.hc}
      <4>1. EntryForm(e)
        BY <1>3
      <4>2. CASE m.stage = "carry"
        <5>1. \/ m.pass = "remove" /\ Removes(l)
              \/ m.pass = "add" /\ ~Removes(l) /\ Adds(l)
          BY <1>10, <4>2
        <5>2. m.of = "none"
          BY <1>10, <4>2
        <5>3. <<"remove", s>> \notin aborted' => e.ips \subseteq e.given \cup {l.old.hc}
          BY <2>8, <3>4, <3>5
        <5>4. /\ CallForm(l) /\ l.kind = "server" /\ l.stage # "done"
              /\ SameChange(l, m) /\ m.todo = {}
          BY <1>1, <1>4, <1>10
        <5> HIDE DEF m, l
        <5>5. CarriedTo(m, e, aborted')
          BY <4>1, <5>1, <5>2, <5>3, <5>4, CarryingBegins DEF s
        <5> QED
          BY <4>2, <5>5
      <4>3. CASE m.stage # "carry"
        <5>1. ~Removes(l) /\ ~Adds(l)
          BY <1>10, <4>3
        <5>2. l.old.hc = l.new.hc
          BY <5>1 DEF Removes, Adds
        <5> QED
          BY <2>8, <3>4, <3>5, <4>3, <5>2
      <4> QED
        BY <4>2, <4>3
    <3> QED
      BY <1>1, <2>3, <3>1, <3>5
  <2>6. Address'
    <3>1. m.stage # "write server"
      BY <1>10
    <3>2. s \notin crossed' => (m.stage = "carry" => record'[s] = m.new)
      BY <2>3
    <3>3. \A e \in entry' : e.server \in Server /\ (e.server # s => e \in entry)
      BY <1>1, <1>3
    <3>4. l.server = s /\ m.server = s /\ stale \subseteq stale'
      BY <1>1
    <3>5. \A x : x # s => \A p : <<p, x>> \in aborted' <=> <<p, x>> \in aborted
      BY <2>8
    <3> HIDE DEF s
    <3> QED
      BY <1>1, <1>5, <2>3, <2>4, <2>5, <3>5, <3>1, <3>2, <3>3, <3>4, AddressAt DEF IInv
  <2>7. SessionFollowsServers'
    <3>1. ASSUME NEW d, d \in touched \ excused
          PROVE  ToldBy(c, d)'
      <4>1. l.old # l.new /\ d \in Connected(s)
        BY <3>1
      <4>2. PICK x : x = s
        OBVIOUS
      <4>3. d \in Connected(x)'
        BY <1>8, <4>1, <4>2
      <4>4. d \in Connected(call[c].server)'
        BY <1>1, <4>2, <4>3
      <4>5. m.stage \in {"carry", "invalidate"}
        BY <1>10
      <4> QED
        BY <1>1, <2>3, <4>1, <4>4, <4>5 DEF ToldBy
    <3> HIDE DEF touched, excused
    <3> QED
      BY <1>1, <1>8, <1>9, <2>1, <3>1, ToldStep DEF IInv
  <2> QED
    BY <1>5, <1>6, <1>7, <2>2, <2>6, <2>7 DEF IInv
<1>11. CASE m.stage = "done" /\ UNCHANGED <<record, crossed, aborted, session, excuse>>
  <2>1. Tables'
    BY <1>1, <1>11 DEF IInv, Tables
  <2>2. Address'
    BY <1>1, <1>5, <1>11, AddressKept DEF IInv
  <2>3. SessionFollowsServers'
    BY <1>1, <1>8, <1>9, <1>11, ToldStep DEF IInv
  <2> QED
    BY <1>5, <1>6, <1>7, <2>1, <2>2, <2>3 DEF IInv
<1> QED
  BY <1>2, <1>10, <1>11

(* A request in the middle of carrying the address. *)
LEMMA InTheMiddle ==
    ASSUME IInv, NEW c \in Call, call[c].stage = "carry", call[c].server \notin crossed
    PROVE  /\ record[call[c].server] = call[c].new
           /\ \A e \in entry : e.server = call[c].server /\ e.id \notin stale =>
                  EntryForm(e) /\ CarriedTo(call[c], e, aborted)
           /\ \A b \in Call : b # c /\ call[b].server = call[c].server =>
                  /\ call[b].stage # "carry"
                  /\ call[b].stage = "write server" => record[call[c].server] = call[b].old
<1>1. \A e \in entry : EntryForm(e)
  BY DEF IInv, Tables
<1>2. /\ record[call[c].server] = call[c].new
      /\ \A e \in entry : e.server = call[c].server /\ e.id \notin stale => CarriedTo(call[c], e, aborted)
  BY DEF IInv, Address, Carried
<1>3. \A b \in Call : b # c /\ call[b].server = call[c].server => call[b].stage # "carry"
  BY DEF IInv, Address, AloneOrCrossed
<1>4. \A b \in Call : call[b].server = call[c].server /\ call[b].stage = "write server" =>
          record[call[c].server] = call[b].old
  BY DEF IInv, Address, AsRead
<1> QED
  BY <1>1, <1>2, <1>3, <1>4

(* Whom a change of a server concerns, it concerns until it ends their sessions. *)
LEMMA StillTold ==
    ASSUME NEW c \in Call, SameChange(call[c], call'[c]), call[c].kind = "server",
           call'[c].stage \in {"carry", "invalidate"},
           \A x : Connected(x)' = Connected(x)
    PROVE  \A d : ToldBy(c, d) => ToldBy(c, d)'
<1> SUFFICES ASSUME NEW d, ToldBy(c, d)
             PROVE  ToldBy(c, d)'
  OBVIOUS
<1>1. /\ call'[c].kind = "server" /\ call'[c].server = call[c].server
      /\ call'[c].old = call[c].old /\ call'[c].new = call[c].new /\ call'[c].clear = call[c].clear
  BY DEF SameChange
<1>2. CASE d \in call[c].clear
  BY <1>1, <1>2 DEF ToldBy
<1>3. CASE call[c].old # call[c].new /\ d \in Connected(call[c].server)
  <2>1. PICK x : x = call[c].server
    OBVIOUS
  <2>2. d \in Connected(x)'
    BY <1>3, <2>1
  <2>3. d \in Connected(call[c].server)'
    BY <1>1, <2>1, <2>2
  <2> QED
    BY <1>1, <1>3, <2>3 DEF ToldBy
<1> QED
  BY <1>2, <1>3 DEF ToldBy

LEMMA ListEntriesStep ==
    ASSUME IInv, NEW c \in Call, ListEntries(c)
    PROVE  IInv'
<1> DEFINE l == call[c]
           m == call'[c]
           s == l.server
           k == After(l.of)
<1>1. /\ Others(c)
      /\ CallForm(m)
      /\ l.stage = "carry" /\ l.kind = "server" /\ l.todo = {} /\ s \in Server
      /\ SameChange(l, m)
      /\ \/ /\ k # "end"
            /\ m.stage = "carry" /\ m.pass = l.pass /\ m.of = k
            /\ m.todo = {e \in entry : e.kind = k /\ e.server = s}
         \/ /\ k = "end" /\ l.pass = "remove" /\ Adds(l)
            /\ m.stage = "carry" /\ m.pass = "add" /\ m.of = "none" /\ m.todo = {}
         \/ /\ k = "end" /\ (l.pass = "remove" => ~Adds(l))
            /\ m.stage = "invalidate" /\ m.todo = {}
  BY ListEntriesEffect DEF IInv
<1>2. /\ UNCHANGED <<server, record, interface, entry>>
      /\ UNCHANGED <<session, excuse>>
      /\ UNCHANGED <<stale, crossed, aborted>>
  BY ListEntriesEffect DEF IInv, table, history
<1>3. /\ m.kind = "server" /\ m.server = s /\ m.old = l.old /\ m.new = l.new /\ m.clear = l.clear
      /\ m.stage \in {"carry", "invalidate"}
      /\ CallForm(l)
  BY <1>1 DEF SameChange, IInv, Calls
<1>4. Tables'
  BY <1>2 DEF IInv, Tables
<1>5. Calls'
  BY <1>1, CallsKept DEF IInv, Others
<1>6. Served'
  BY <1>1, <1>2, <1>3, ServedStep DEF IInv
<1>7. SeenAgree'
  <2>1. \A e \in entry' : EntryForm(e) /\ \E g \in Seen : Alike(e, g)
    BY <1>2, EntriesSeen DEF IInv
  <2>2. \A e \in m.todo : e \in Seen
    BY <1>1, EntriesSeen DEF IInv
  <2>3. m.stage # "update" /\ ~Inserted(l)
    BY <1>1, <1>3 DEF Inserted
  <2> QED
    BY <1>1, <2>1, <2>2, <2>3, SeenStep DEF IInv
<1>8. Address'
  <2>1. \A e \in entry' : e.server \in Server /\ (e.server # s => e \in entry)
    BY <1>2 DEF IInv, Tables
  <2>2. \A e \in entry' : e.server = s /\ e.id \notin stale' => (Network \in e.given => Network \in e.ips)
    BY <1>2 DEF IInv, Address, OnlyWhatWasGiven
  <2>3. ASSUME s \notin crossed, NEW e \in entry, e.server = s, e.id \notin stale
        PROVE  IF m.stage = "carry"
               THEN CarriedTo(m, e, aborted)
               ELSE /\ Covers(e.ips, l.new.hc)
                    /\ <<"remove", s>> \notin aborted => e.ips \subseteq e.given \cup {l.new.hc}
    <3>1. EntryForm(e) /\ CarriedTo(l, e, aborted)
      BY <1>1, <2>3, InTheMiddle
    <3>2. CASE /\ k # "end"
               /\ m.stage = "carry" /\ m.pass = l.pass /\ m.of = k
               /\ m.todo = {f \in entry : f.kind = k /\ f.server = s}
      <4>1. e.kind = m.of => e \in m.todo
        BY <2>3, <3>2
      <4>2. m.pass = l.pass /\ m.of = After(l.of) /\ m.of # "end" /\ m.stage = "carry"
        BY <3>2
      <4>3. CallForm(l) /\ l.stage = "carry" /\ l.todo = {} /\ SameChange(l, m)
        BY <1>1, <1>3
      <4> HIDE DEF l, m
      <4>4. CarriedTo(m, e, aborted)
        BY <3>1, <4>1, <4>2, <4>3, ListedNext
      <4> QED
        BY <4>2, <4>4
    <3>3. CASE k = "end"
      <4>1. /\ <<"remove", l.server>> \notin aborted => e.ips \subseteq e.given \cup {l.new.hc}
            /\ (l.pass = "remove" => ~Adds(l)) => Covers(e.ips, l.new.hc)
        <5>1. CallForm(l) /\ l.stage = "carry" /\ l.todo = {} /\ After(l.of) = "end"
          BY <1>1, <1>3, <3>3
        <5> HIDE DEF l
        <5> QED
          BY <3>1, <5>1, CarriedThrough
      <4>2. CASE m.stage = "carry"
        <5>1. m.pass = "add" /\ m.of = "none" /\ m.todo = {} /\ SameChange(l, m)
          BY <1>1, <3>3, <4>2
        <5> HIDE DEF l, m
        <5>2. CarriedTo(m, e, aborted)
          BY <3>1, <4>1, <5>1, AddingBegins
        <5> QED
          BY <4>2, <5>2
      <4>3. CASE m.stage # "carry"
        BY <1>1, <3>3, <4>1, <4>3
      <4> QED
        BY <4>2, <4>3
    <3> QED
      BY <1>1, <3>2, <3>3
  <2>4. s \notin crossed =>
            /\ record[s] = l.new
            /\ \A b \in Call : b # c /\ call[b].server = s =>
                  /\ call[b].stage # "carry"
                  /\ call[b].stage = "write server" => record[s] = call[b].old
    BY <1>1, InTheMiddle
  <2>5. s \notin crossed' =>
            /\ \A b \in Call : b # c /\ call[b].server = s =>
                  /\ call[b].stage # "carry"
                  /\ call[b].stage = "write server" => record'[s] = call[b].old
            /\ m.stage = "carry" => record'[s] = m.new
            /\ \A e \in entry' : e.server = s /\ e.id \notin stale' =>
                  IF m.stage = "carry"
                  THEN CarriedTo(m, e, aborted')
                  ELSE /\ Covers(e.ips, record'[s].hc) \/ <<"add", s>> \in aborted'
                       /\ <<"remove", s>> \notin aborted' => e.ips \subseteq e.given \cup {record'[s].hc}
    BY <1>2, <1>3, <2>3, <2>4
  <2>6. l.server = s /\ m.server = s /\ m.stage # "write server" /\ Address /\ Calls
    BY <1>3 DEF IInv
  <2>7. /\ \A x \in Server : x # s => record'[x] = record[x]
        /\ crossed' \in {crossed, crossed \cup {s}}
        /\ \A x : x # s => \A p : <<p, x>> \in aborted' <=> <<p, x>> \in aborted
        /\ stale \subseteq stale'
    BY <1>2
  <2> HIDE DEF s
  <2> QED
    BY <1>1, <1>5, <2>1, <2>2, <2>5, <2>6, <2>7, AddressAt
<1>9. SessionFollowsServers'
  <2>1. \A x : Connected(x)' = Connected(x)
    BY <1>2 DEF Connected
  <2>2. \A d : ToldBy(c, d) => ToldBy(c, d)'
    BY <1>1, <1>3, <2>1, StillTold
  <2> QED
    BY <1>1, <1>2, <2>1, <2>2, ToldStep DEF IInv
<1> QED
  BY <1>4, <1>5, <1>6, <1>7, <1>8, <1>9 DEF IInv

(* The pass is left: nothing is owed to the entries any more but what the next     *)
(* one does.                                                                *)
LEMMA CarryFailsStep ==
    ASSUME IInv, NEW c \in Call, CarryFails(c)
    PROVE  IInv'
<1> DEFINE l == call[c]
           m == call'[c]
           s == l.server
<1>1. /\ Others(c)
      /\ CallForm(m)
      /\ l.stage = "carry" /\ l.kind = "server" /\ s \in Server /\ l.clear = {}
      /\ SameChange(l, m) /\ m.todo = {}
      /\ \/ /\ l.pass = "remove" /\ Adds(l)
            /\ m.stage = "carry" /\ m.pass = "add" /\ m.of = "none"
         \/ /\ l.pass = "add" \/ (l.pass = "remove" /\ Removes(l) /\ ~Adds(l))
            /\ m.stage = "invalidate"
      /\ aborted' = aborted \cup {<<l.pass, s>>}
  BY CarryFailsEffect DEF IInv
<1>2. /\ UNCHANGED <<server, record, interface, entry>>
      /\ UNCHANGED <<session, excuse>>
      /\ UNCHANGED <<stale, crossed>>
  BY CarryFailsEffect DEF IInv, table
<1>3. /\ m.kind = "server" /\ m.server = s /\ m.old = l.old /\ m.new = l.new /\ m.clear = {}
      /\ m.stage \in {"carry", "invalidate"}
      /\ l.pass \in {"remove", "add"}
  BY <1>1 DEF SameChange
<1>4. Tables'
  BY <1>1, <1>2, <1>3 DEF IInv, Tables
<1>5. Calls'
  BY <1>1, CallsKept DEF IInv, Others
<1>6. Served'
  BY <1>1, <1>2, <1>3, ServedStep DEF IInv
<1>7. SeenAgree'
  <2>1. \A e \in entry' : EntryForm(e) /\ \E g \in Seen : Alike(e, g)
    BY <1>2, EntriesSeen DEF IInv
  <2>2. m.stage # "update" /\ ~Inserted(l)
    BY <1>1, <1>3 DEF Inserted
  <2> QED
    BY <1>1, <2>1, <2>2, SeenStep DEF IInv
<1>8. Address'
  <2>1. \A e \in entry' : e.server \in Server /\ (e.server # s => e \in entry \/ e.id \in stale')
    BY <1>2 DEF IInv, Tables
  <2>2. \A e \in entry' : e.server = s /\ e.id \notin stale' => (Network \in e.given => Network \in e.ips)
    BY <1>2 DEF IInv, Address, OnlyWhatWasGiven
  <2>3. ASSUME s \notin crossed, NEW e \in entry, e.server = s, e.id \notin stale
        PROVE  IF m.stage = "carry"
               THEN CarriedTo(m, e, aborted')
               ELSE /\ Covers(e.ips, l.new.hc) \/ <<"add", s>> \in aborted'
                    /\ <<"remove", s>> \notin aborted' => e.ips \subseteq e.given \cup {l.new.hc}
    <3>1. EntryForm(e) /\ CarriedTo(l, e, aborted)
      BY <1>1, <2>3, InTheMiddle
    <3>2. CASE m.stage = "carry"
      <4>1. <<"remove", l.server>> \in aborted'
        BY <1>1, <3>2
      <4>2. m.pass = "add" /\ m.of = "none" /\ m.todo = {} /\ SameChange(l, m)
        BY <1>1, <3>2
      <4> HIDE DEF l, m
      <4>3. CarriedTo(m, e, aborted')
        BY <3>1, <4>1, <4>2, AddingBegins
      <4> QED
        BY <3>2, <4>3
    <3>3. CASE m.stage # "carry" /\ l.pass = "add"
      BY <1>1, <3>1, <3>3 DEF CarriedTo
    <3>4. CASE m.stage # "carry" /\ l.pass = "remove"
      <4>1. Removes(l) /\ ~Adds(l) /\ <<"remove", s>> \in aborted'
        BY <1>1, <3>4
      <4>2. l.new.hc = None
        BY <4>1 DEF Removes, Adds
      <4> QED
        BY <3>4, <4>1, <4>2 DEF Covers
    <3> QED
      BY <1>3, <3>2, <3>3, <3>4
  <2>4. s \notin crossed =>
            /\ record[s] = l.new
            /\ \A b \in Call : b # c /\ call[b].server = s =>
                  /\ call[b].stage # "carry"
                  /\ call[b].stage = "write server" => record[s] = call[b].old
    BY <1>1, InTheMiddle
  <2>5. s \notin crossed' =>
            /\ \A b \in Call : b # c /\ call[b].server = s =>
                  /\ call[b].stage # "carry"
                  /\ call[b].stage = "write server" => record'[s] = call[b].old
            /\ m.stage = "carry" => record'[s] = m.new
            /\ \A e \in entry' : e.server = s /\ e.id \notin stale' =>
                  IF m.stage = "carry"
                  THEN CarriedTo(m, e, aborted')
                  ELSE /\ Covers(e.ips, record'[s].hc) \/ <<"add", s>> \in aborted'
                       /\ <<"remove", s>> \notin aborted' => e.ips \subseteq e.given \cup {record'[s].hc}
    BY <1>2, <1>3, <2>3, <2>4
  <2>6. l.server = s /\ m.server = s /\ m.stage # "write server" /\ Address /\ Calls
    BY <1>3 DEF IInv
  <2>7. /\ \A x \in Server : x # s => record'[x] = record[x]
        /\ crossed' \in {crossed, crossed \cup {s}}
        /\ \A x : x # s => \A p : <<p, x>> \in aborted' <=> <<p, x>> \in aborted
        /\ stale \subseteq stale'
    BY <1>1, <1>2
  <2> HIDE DEF s
  <2> QED
    BY <1>1, <1>5, <2>1, <2>2, <2>5, <2>6, <2>7, AddressAt
<1>9. SessionFollowsServers'
  <2>1. \A x : Connected(x)' = Connected(x)
    BY <1>2 DEF Connected
  <2>2. \A d : ToldBy(c, d) => ToldBy(c, d)'
    BY <1>1, <1>3, <2>1, StillTold
  <2> QED
    BY <1>1, <1>2, <2>1, <2>2, ToldStep DEF IInv
<1> QED
  BY <1>4, <1>5, <1>6, <1>7, <1>8, <1>9 DEF IInv

LEMMA RewriteStep ==
    ASSUME IInv, NEW c \in Call, NEW t \in call[c].todo, Rewrite(c, t)
    PROVE  IInv'
<1> DEFINE l == call[c]
           m == call'[c]
           s == l.server
           ips == Rewritten(l, t)
           target == IF ips = t.ips THEN {} ELSE {f \in entry : Same(t, f)}
           touched == UNION {Owner(f) : f \in target}
           R == [f \in target |-> [f EXCEPT !.ips = ips]]
<1>1. /\ Others(c)
      /\ CallForm(m)
      /\ l.stage = "carry" /\ l.kind = "server" /\ s \in Server /\ l.clear = {}
      /\ EntryForm(t) /\ t.server = s
      /\ SameChange(l, m)
      /\ UNCHANGED <<server, record, interface, crossed, aborted>>
  BY RewriteEffect DEF IInv
<1>2. /\ ips = {} => ips = t.ips
      /\ m.stage = "carry" /\ m.pass = l.pass /\ m.of = l.of
      /\ m.todo = l.todo \ {t}
      /\ entry' = (entry \ target) \cup {[f EXCEPT !.ips = ips] : f \in target}
      /\ stale' = stale \cup Ids({f \in target : f.ips # t.ips \/ f.server # s})
      /\ Affect(touched, touched \ Connected(s), "overlap")
  BY RewriteEffect DEF IInv
<1>3. /\ m.kind = "server" /\ m.server = s /\ m.old = l.old /\ m.new = l.new /\ m.clear = {}
      /\ m.stage \in {"carry", "invalidate"}
      /\ CallForm(l)
      /\ \/ l.pass = "remove" /\ Removes(l)
         \/ l.pass = "add" /\ Adds(l)
  BY <1>1, <1>2 DEF SameChange, IInv, Calls, CallForm
<1>4. Calls'
  BY <1>1, CallsKept DEF IInv, Others
<1>5. Served'
  BY <1>1, <1>3, ServedStep DEF IInv
<1>6. /\ \A x \in Server : x # s => record'[x] = record[x]
      /\ crossed' \in {crossed, crossed \cup {s}}
  BY <1>1
<1>7. s \notin crossed =>
          /\ record[s] = l.new
          /\ \A e \in entry : e.server = s /\ e.id \notin stale =>
                EntryForm(e) /\ CarriedTo(l, e, aborted)
          /\ \A b \in Call : b # c /\ call[b].server = s =>
                /\ call[b].stage # "carry"
                /\ call[b].stage = "write server" => record[s] = call[b].old
  BY <1>1, InTheMiddle
<1>8. \A e \in entry : EntryForm(e) /\ e.server \in Server
  BY DEF IInv, Tables
<1>9. Address /\ Calls /\ SeenAgree /\ Tables
  BY DEF IInv
<1>21. entry' = (entry \ target) \cup {R[f] : f \in target}
  BY <1>2
<1>22. target \in SUBSET entry
  OBVIOUS
<1>23. t \in Seen
  BY <1>9, EntriesSeen
<1>24. ips \in SUBSET Prefix /\ (Network \in t.ips => Network \in ips)
  BY <1>1, <1>3, RewrittenFacts
<1>25. \A f \in target : /\ Same(t, f)
                        /\ EntryForm(R[f]) /\ Alike(R[f], f)
                        /\ R[f].ips = ips /\ R[f].given = f.given /\ R[f].server = f.server
  <2> SUFFICES ASSUME NEW f \in target
               PROVE  /\ Same(t, f)
                      /\ EntryForm(R[f]) /\ Alike(R[f], f)
                      /\ R[f].ips = ips /\ R[f].given = f.given /\ R[f].server = f.server
    OBVIOUS
  <2>1. f \in entry /\ Same(t, f) /\ ips # t.ips
    OBVIOUS
  <2>3. EntryForm(f)
    BY <1>8, <2>1
  <2>4. R[f] = [f EXCEPT !.ips = ips]
    OBVIOUS
  <2>5. ips # {}
    BY <1>2, <2>1
  <2> HIDE DEF R, ips
  <2>6. EntryForm(R[f]) /\ Alike(R[f], f)
        /\ R[f].ips = ips /\ R[f].given = f.given /\ R[f].server = f.server
    BY <1>24, <2>3, <2>4, <2>5 DEF EntryForm, Entry, Alike
  <2> QED
    BY <2>1, <2>6
<1>26. ips = t.ips => target = {}
  OBVIOUS
<1>27. \A f \in entry \ target : Same(t, f) => ips = t.ips
  OBVIOUS
<1>28. /\ m.stage = "carry" /\ m.pass = l.pass /\ m.of = l.of /\ m.todo = l.todo \ {t}
       /\ stale' = stale \cup Ids({f \in target : f.ips # t.ips \/ f.server # s})
       /\ Affect(touched, touched \ Connected(s), "overlap")
       /\ aborted' = aborted
  BY <1>1, <1>2
<1> HIDE DEF target, R
<1>29. /\ \A e \in entry' : /\ EntryForm(e) /\ e.server \in server
                            /\ \/ e \in entry \ target
                               \/ \E f \in target : e = R[f] /\ Alike(e, f)
                            /\ \E f \in entry : Alike(e, f)
       /\ \A e, f \in entry' : e.id = f.id => e = f
       /\ \A x : Connected(x)' = Connected(x)
  <2>1. \A f \in target : R[f].server \in server
    BY <1>9, <1>22, <1>25 DEF Tables
  <2>2. \A f \in target : EntryForm(R[f]) /\ Alike(R[f], f) /\ R[f].server \in server
    BY <1>25, <2>1
  <2>3. \A f \in target : R[f].server = f.server
    BY <1>25
  <2>4. Tables
    BY <1>9
  <2>5. /\ \A e \in entry' : /\ EntryForm(e) /\ e.server \in server
                             /\ \/ e \in entry \ target
                                \/ \E f \in target : e = R[f] /\ Alike(e, f)
                             /\ \E f \in entry : Alike(e, f)
        /\ \A e, f \in entry' : e.id = f.id => e = f
        /\ (\A f \in target : R[f].server = f.server) => \A x : Connected(x)' = Connected(x)
    BY <1>21, <1>22, <2>2, <2>4, Replaced
  <2> QED
    BY <2>3, <2>5
<1>30. /\ session' \in [Device -> Session]
       /\ excuse' \in [Device -> Cause]
       /\ \A d \in Device : session'[d] = "outdated" /\ excuse'[d] = "no" =>
             (d \in touched /\ d \in Connected(s)) \/ (session[d] = "outdated" /\ excuse[d] = "no")
  <2>1. session \in [Device -> Session] /\ excuse \in [Device -> Cause] /\ "no" \in Cause
    BY <1>9 DEF Tables, Cause
  <2>2. Affect(touched, touched \ Connected(s), "overlap") /\ "overlap" \in Cause /\ "overlap" # "no"
    BY <1>28 DEF Cause
  <2> HIDE DEF touched
  <2> QED
    BY <2>1, <2>2, Affecting
<1>31. Tables'
  <2>1. stale' \subseteq Call \cup Kind
    <3>1. Ids({f \in target : f.ips # t.ips \/ f.server # s}) \subseteq Call \cup Kind
      BY <1>8, <1>22 DEF Ids, EntryForm, Entry
    <3> QED
      BY <1>28, <3>1 DEF IInv, Tables
  <2> QED
    BY <1>1, <1>28, <1>29, <1>30, <2>1 DEF IInv, Tables
<1>32. SeenAgree'
  <2>1. \A e \in entry' : EntryForm(e) /\ \E g \in Seen : Alike(e, g)
    BY <1>9, <1>29, EntriesSeen
  <2>2. \A e \in m.todo : e \in Seen
    BY <1>9, <1>28, EntriesSeen
  <2>3. m.stage # "update" /\ ~Inserted(l)
    BY <1>1, <1>28 DEF Inserted
  <2> QED
    BY <1>1, <1>9, <2>1, <2>2, <2>3, SeenStep
<1>33. Address'
  <2>1. \A e \in entry' : e.server \in Server /\ (e.server # s => e \in entry \/ e.id \in stale')
    <3>1. \A e \in entry' : e.server \in Server
      BY <1>9, <1>29 DEF Tables
    <3>2. ASSUME NEW f \in target, R[f].server # s
          PROVE  R[f].id \in stale'
      <4>1. f.server # s /\ R[f].id = f.id
        BY <1>25, <3>2 DEF Alike
      <4> QED
        BY <1>28, <4>1 DEF Ids
    <3> QED
      BY <1>29, <3>1, <3>2
  <2>2. \A e \in entry \ target : e.id \in stale => e.id \in stale'
    BY <1>28
  <2>3. ASSUME NEW f \in target, R[f].id \notin stale'
        PROVE  f \in entry /\ f.id \notin stale /\ f.ips = t.ips /\ f.server = s
    <3>1. R[f].id = f.id
      BY <1>25 DEF Alike
    <3> QED
      BY <1>22, <1>25, <1>28, <2>3, <3>1 DEF Ids
  <2>4. \A e \in entry' : e.server = s /\ e.id \notin stale' => (Network \in e.given => Network \in e.ips)
    <3>1. \A e \in entry : e.id \notin stale => (Network \in e.given => Network \in e.ips)
      BY <1>9 DEF Address, OnlyWhatWasGiven
    <3>2. ASSUME NEW f \in target, R[f].id \notin stale'
          PROVE  Network \in R[f].given => Network \in R[f].ips
      BY <1>24, <1>25, <2>3, <3>1, <3>2
    <3>3. ASSUME NEW e \in entry \ target, e.id \notin stale'
          PROVE  Network \in e.given => Network \in e.ips
      BY <2>2, <3>1, <3>3
    <3> QED
      BY <1>29, <3>2, <3>3
  <2>5. ASSUME s \notin crossed, NEW e \in entry', e.server = s, e.id \notin stale'
        PROVE  CarriedTo(m, e, aborted)
    <3>1. CASE e \in entry \ target
      <4>1. CarriedTo(l, e, aborted)
        BY <1>7, <2>2, <2>5, <3>1
      <4>2. Same(t, e) => Rewritten(l, t) = t.ips
        BY <1>27, <3>1
      <4>3. CallForm(l) /\ l.stage = "carry" /\ SameChange(l, m) /\ t \in l.todo
        BY <1>1, <1>3
      <4> HIDE DEF l, m
      <4> QED
        BY <1>28, <4>1, <4>2, <4>3, PassedOver
    <3>2. ASSUME NEW f \in target, e = R[f]
          PROVE  CarriedTo(m, e, aborted)
      <4>1. f \in entry /\ f.id \notin stale /\ f.ips = t.ips /\ f.server = s
        BY <2>3, <2>5, <3>2
      <4>2. CarriedTo(l, f, aborted)
        BY <1>7, <2>5, <4>1
      <4>3. e.ips = Rewritten(l, t) /\ e.given = f.given
        BY <1>25, <3>2
      <4>4. CallForm(l) /\ l.stage = "carry" /\ SameChange(l, m) /\ t \in l.todo
        BY <1>1, <1>3
      <4> HIDE DEF l, m, ips
      <4> QED
        BY <1>28, <4>1, <4>2, <4>3, <4>4, RewrittenNow
    <3> QED
      BY <1>29, <3>1, <3>2
  <2>6. s \notin crossed' =>
            /\ \A b \in Call : b # c /\ call[b].server = s =>
                  /\ call[b].stage # "carry"
                  /\ call[b].stage = "write server" => record'[s] = call[b].old
            /\ m.stage = "carry" => record'[s] = m.new
            /\ \A e \in entry' : e.server = s /\ e.id \notin stale' =>
                  IF m.stage = "carry"
                  THEN CarriedTo(m, e, aborted')
                  ELSE /\ Covers(e.ips, record'[s].hc) \/ <<"add", s>> \in aborted'
                       /\ <<"remove", s>> \notin aborted' => e.ips \subseteq e.given \cup {record'[s].hc}
    BY <1>1, <1>3, <1>7, <1>28, <2>5
  <2>7. /\ l.server = s /\ m.server = s /\ m.stage # "write server"
        /\ \A x : x # s => \A p : <<p, x>> \in aborted' <=> <<p, x>> \in aborted
        /\ stale \subseteq stale'
    BY <1>1, <1>2, <1>3
  <2> HIDE DEF s
  <2> QED
    BY <1>1, <1>4, <1>6, <1>9, <2>1, <2>4, <2>6, <2>7, AddressAt
<1>34. SessionFollowsServers'
  <2>1. \A d : ToldBy(c, d) => ToldBy(c, d)'
    BY <1>1, <1>3, <1>29, StillTold
  <2>2. ASSUME NEW d \in Connected(s)
        PROVE  ToldBy(c, d)
    <3>1. l.old # l.new
      BY <1>3 DEF Removes, Adds
    <3> QED
      BY <1>1, <2>2, <3>1 DEF ToldBy
  <2> HIDE DEF touched
  <2> QED
    BY <1>1, <1>29, <1>30, <2>1, <2>2, ToldStep DEF IInv
<1> QED
  BY <1>4, <1>5, <1>31, <1>32, <1>33, <1>34 DEF IInv

(* A client that logs in gets the configuration as it is. *)
LEMMA LoginStep ==
    ASSUME IInv, NEW d \in Device, Login(d)
    PROVE  IInv'
<1>1. /\ UNCHANGED <<server, record, interface, entry>>
      /\ UNCHANGED <<call, stale, crossed, aborted>>
  BY DEF Login, table
<1>2. Tables'
  BY <1>1 DEF Login, IInv, Tables, Session, Cause
<1>3. Calls'
  BY <1>1 DEF IInv, Calls
<1>4. Served'
  BY <1>1 DEF IInv, Served, Deleted
<1>5. SeenAgree'
  BY <1>1 DEF IInv, SeenAgree, Seen, Listed, Read
<1>6. Address'
  BY <1>1 DEF IInv, Address, AsRead, AloneOrCrossed, Carried, OnlyWhatWasGiven, HealthcheckCovered, Carrying, Changing
<1>7. SessionFollowsServers'
  <2> SUFFICES ASSUME NEW e \in Device, session'[e] = "outdated", excuse'[e] = "no"
               PROVE  \E c \in Call : ToldBy(c, e)'
    BY DEF SessionFollowsServers, ToldBy
  <2>1. session[e] = "outdated" /\ excuse[e] = "no"
    BY DEF Login, IInv, Tables
  <2>2. PICK c \in Call : ToldBy(c, e)
    BY <2>1 DEF IInv, SessionFollowsServers, ToldBy
  <2>3. ToldBy(c, e)'
    BY <1>1, <2>2 DEF ToldBy, Connected
  <2> QED
    BY <2>3
<1> QED
  BY <1>2, <1>3, <1>4, <1>5, <1>6, <1>7 DEF IInv

LEMMA Stuttering ==
    ASSUME IInv, UNCHANGED vars
    PROVE  IInv'
<1>1. /\ UNCHANGED <<server, record, interface, entry>>
      /\ UNCHANGED <<session, call>>
      /\ UNCHANGED <<stale, crossed, aborted, excuse>>
  BY DEF vars, table, history
<1>2. Tables' /\ Calls' /\ Served'
  BY <1>1 DEF IInv, Tables, Calls, Served, Deleted
<1>3. SeenAgree'
  BY <1>1 DEF IInv, SeenAgree, Seen, Listed, Read
<1>4. Address'
  BY <1>1 DEF IInv, Address, AsRead, AloneOrCrossed, Carried, OnlyWhatWasGiven, HealthcheckCovered, Carrying, Changing
<1>5. SessionFollowsServers'
  BY <1>1 DEF IInv, SessionFollowsServers, Connected
<1> QED
  BY <1>2, <1>3, <1>4, <1>5 DEF IInv

-----------------------------------------------------------------------------
(* Together. *)

LEMMA Initially == Init => IInv
<1> SUFFICES ASSUME Init
             PROVE  IInv
  OBVIOUS
<1>1. /\ server \subseteq Server
      /\ session = [d \in Device |-> "current"]
      /\ call = [c \in Call |-> Blank]
      /\ stale = {} /\ crossed = {} /\ aborted = {}
      /\ excuse = [d \in Device |-> "no"]
  BY DEF Init
<1>2. record \in [Server -> Record] /\ interface \in [Server -> Value]
  BY DEF Init, Record
<1>3. PICK s \in server, d \in Device, K \in First, g \in Gift :
        /\ g = {} => K \subseteq {"ldap"}
        /\ entry = {[id |-> k, kind |-> k, server |-> s,
                     owner |-> IF k = "adjacency" THEN d ELSE None,
                     ips |-> Ensure(g, record[s].hc), given |-> g] : k \in K}
  BY DEF Init
<1>4. PICK ips : ips = Ensure(g, record[s].hc)
  OBVIOUS
<1>5. /\ g \in SUBSET Prefix /\ s \in Server
      /\ ips \in SUBSET Prefix /\ (ips = {} => g = {}) /\ g \subseteq ips
      /\ ips \subseteq g \cup {record[s].hc} /\ Covers(ips, record[s].hc)
  <2>1. g \in SUBSET Prefix
    BY GiftAssumption
  <2>2. record[s].hc \in Addr \cup {None}
    BY <1>1, <1>2 DEF Record
  <2> QED
    BY <1>1, <1>4, <2>1, <2>2, Ensured
<1>6. \A e \in entry : /\ e \in Entry /\ e.id = e.kind /\ e.kind \in Kind /\ e.server = s
                       /\ e.owner = (IF e.kind = "adjacency" THEN d ELSE None)
                       /\ e.ips = ips /\ e.given = g
                       /\ g = {} => e.kind = "ldap"
  BY <1>3, <1>4, <1>5, FirstAssumption DEF Entry
<1>7. \A e, f \in entry : e.id = f.id => e = f
  BY <1>3
<1>8. \A e \in entry : EntryForm(e)
  BY <1>5, <1>6 DEF EntryForm
<1>9. Tables
  BY <1>1, <1>2, <1>6, <1>7, <1>8 DEF Tables, Session, Cause
<1>10. Calls
  BY <1>1, BlankForm DEF Calls
<1>11. Served
  BY <1>1, BlankForm DEF Served
<1>12. SeenAgree
  <2>1. \A e \in Seen : e \in entry
    BY <1>1, BlankForm, SeenMeans
  <2>2. \A e \in Seen : EntryForm(e) /\ e.id \notin Call
    BY <1>6, <1>8, <2>1, CallAssumption
  <2>3. \A e, f \in Seen : e.id = f.id => Alike(e, f)
    BY <1>7, <2>1 DEF Alike
  <2> QED
    BY <2>2, <2>3 DEF SeenAgree
<1>13. Address
  <2>1. AsRead /\ AloneOrCrossed /\ Carried
    BY <1>1, BlankForm DEF AsRead, AloneOrCrossed, Carried
  <2>2. OnlyWhatWasGiven /\ HealthcheckCovered
    BY <1>5, <1>6 DEF OnlyWhatWasGiven, HealthcheckCovered
  <2> QED
    BY <2>1, <2>2 DEF Address
<1>14. SessionFollowsServers
  BY <1>1 DEF SessionFollowsServers
<1> QED
  BY <1>9, <1>10, <1>11, <1>12, <1>13, <1>14 DEF IInv

LEMMA Stepwise == IInv /\ [Next]_vars => IInv'
<1> SUFFICES ASSUME IInv, [Next]_vars
             PROVE  IInv'
  OBVIOUS
<1>1. CASE UNCHANGED vars
  BY <1>1, Stuttering
<1>2. ASSUME NEW d \in Device, Login(d)
      PROVE  IInv'
  BY <1>2, LoginStep
<1>3. ASSUME NEW c \in Call, Start(c)
      PROVE  IInv'
  <2>1. ASSUME NEW k \in Kind, NEW s \in Server, NEW g \in Gift,
               NEW o \in IF k = "adjacency" THEN Device ELSE {None}, CreateEntry(c, k, s, o, g)
        PROVE  IInv'
    BY <2>1, CreateEntryStep
  <2>2. ASSUME NEW e \in entry, DeleteEntry(c, e)
        PROVE  IInv'
    BY <2>2, DeleteEntryStep
  <2>3. ASSUME NEW e \in entry, NEW s \in Server, NEW g \in Gift,
           UpdateEntry(c, e, s, g)
        PROVE  IInv'
    BY <2>3, UpdateEntryStep
  <2>4. ASSUME NEW s \in Server, DeleteServer(c, s)
        PROVE  IInv'
    BY <2>4, DeleteServerStep
  <2>5. ASSUME NEW s \in Server, NEW r \in Record, UpdateServer(c, s, r)
        PROVE  IInv'
    BY <2>5, UpdateServerStep
  <2>6. ASSUME NEW s \in Server, NEW v \in Value, UpdateInterface(c, s, v)
        PROVE  IInv'
    BY <2>6, UpdateInterfaceStep
  <2>7. ASSUME NEW s \in Server, NEW r \in Record, NEW v \in Value, CreateServer(c, s, r, v)
        PROVE  IInv'
    BY <2>7, CreateServerStep
  <2> QED
    BY <1>3, <2>1, <2>2, <2>3, <2>4, <2>5, <2>6, <2>7 DEF Start
<1>4. ASSUME NEW c \in Call, Continue(c)
      PROVE  IInv'
  <2>1. CASE InsertEntry(c)
    BY <2>1, InsertEntryStep
  <2>2. CASE WriteEntry(c)
    BY <2>2, WriteEntryStep
  <2>3. CASE WriteServer(c)
    BY <2>3, WriteServerStep
  <2>4. CASE ListEntries(c)
    BY <2>4, ListEntriesStep
  <2>5. ASSUME NEW e \in call[c].todo, Rewrite(c, e)
        PROVE  IInv'
    BY <2>5, RewriteStep
  <2>6. CASE CarryFails(c)
    BY <2>6, CarryFailsStep
  <2>7. CASE WriteInterface(c)
    BY <2>7, WriteInterfaceStep
  <2>8. CASE Invalidate(c)
    BY <2>8, InvalidateStep
  <2> QED
    BY <1>4, <2>1, <2>2, <2>3, <2>4, <2>5, <2>6, <2>7, <2>8 DEF Continue
<1> QED
  BY <1>1, <1>2, <1>3, <1>4 DEF Next

LEMMA Invariance == Spec => []IInv
BY Initially, Stepwise, PTL DEF Spec

LEMMA Typed ==
    ASSUME Tables, Calls
    PROVE  TypeOK
<1>1. \A c \in Call : /\ DOMAIN call[c] = DOMAIN Blank
                      /\ call[c].todo \subseteq Entry
                      /\ call[c].clear \subseteq Device
  <2> SUFFICES ASSUME NEW c \in Call
               PROVE  /\ DOMAIN call[c] = DOMAIN Blank
                      /\ call[c].todo \subseteq Entry
                      /\ call[c].clear \subseteq Device
    OBVIOUS
  <2>1. CallForm(call[c])
    BY DEF Calls
  <2>2. \A t \in call[c].todo : EntryForm(t)
    BY <2>1 DEF CallForm
  <2> QED
    BY <2>1, <2>2 DEF CallForm, EntryForm
<1> QED
  BY <1>1 DEF TypeOK, Tables, EntryForm

(* Whatever the requests, only servers that exist have entries, and no entry is   *)
(* without allowed IPs but a server of the LDAP template that was given none;     *)
(* unless it was written from what was stale, an entry keeps the network it was   *)
(* given, and has nothing but what it was given and the address of its server --  *)
(* once no change of that server is being carried, and unless two changed it at a *)
(* time or the removal of an address has failed (CreateAdjacency, UpdateServer,   *)
(* RemoveHealthcheckAddrFromAllowedIPs and what they call).                     *)
THEOREM EntriesCorrect == Spec => []EntriesSound
<1>1. IInv => EntriesSound
  BY Typed DEF IInv, Address, EntriesSound
<1> QED
  BY <1>1, Invariance, PTL

(* The healthcheck address of a server is among the allowed IPs of all its       *)
(* entries when UpdateServer has carried it through, for as many requests,       *)
(* servers and entries as one likes, except for entries written from what was    *)
(* stale, servers that two requests changed at a time and those to whose entries  *)
(* the address could not be added, which UpdateServer only logs.               *)
THEOREM HealthcheckCorrect == Spec => []HealthcheckCovered
<1>1. IInv => HealthcheckCovered
  BY DEF IInv, Address
<1> QED
  BY <1>1, Invariance, PTL

(* Every client whose configuration has changed since it logged in, with a       *)
(* server, an interface or an adjacency, is still to be told by a request that    *)
(* is running, or one of the recorded causes is why it is not.                   *)
THEOREM ServerSessionsCorrect == Spec => []SessionFollowsServers
<1>1. IInv => SessionFollowsServers
  BY DEF IInv
<1> QED
  BY <1>1, Invariance, PTL
=============================================================================
