------------------------- MODULE AdjacenciesProofs -------------------------
(***************************************************************************)
(* What an adjacency was checked for stays true of it, and the sessions that *)
(* a change concerns end, for any requests, servers, devices, addresses and *)
(* interfaces.                                                             *)
(*                                                                         *)
(* RowsSound is not inductive: a row is sound because of what the request    *)
(* that wrote it had seen.  The invariant says, of a request on its way to    *)
(* the statement that writes, what is so of everything it has seen: none of   *)
(* it is of the pair it will write but the row it will replace (FreeForSeen), *)
(* and after the check none of it clashes (ClearOfSeen).  A row it has not     *)
(* seen is new, and then both are raced.  A resynchronisation keeps the same   *)
(* knowledge over many writes of its own (Resyncs).                         *)
(*                                                                         *)
(* DevicesInLine needs to know, at every statement of a resynchronisation, of  *)
(* which devices the rows are right already and which row is still to come or  *)
(* about to be written (ResyncAligns), and likewise of a creation              *)
(* (CreationAligns); of a request that no other has disturbed, since every     *)
(* other statement that matters to it is noted (HarmlessOrNoted).             *)
(***************************************************************************)
EXTENDS Adjacencies, FiniteSetTheorems, TLAPS

Stage == {"new", "check", "write", "invalidate", "delete", "address", "templates", "next",
          "writeDevice", "rows", "writeInterface", "writeTemplate", "server", "done"}

RowForm(q) == q \in Row /\ q.ip \in q.addrs \cup {None}

(* What a request knows that is about to check or to write a row, ...          *)
WriteForm(l) ==
    /\ l.kind \in {"create", "update", "createDevice", "resync"}
    /\ l.server \in Server /\ l.device \in Device /\ l.route \in Route
    /\ l.addrs \subseteq Addr
    /\ l.ip \in Addr /\ l.iface \in Iface /\ l.ip \in l.iface.net
    /\ l.kind \in {"create", "createDevice"} => l.old = None
    /\ l.kind = "update" => l.old # None
    /\ l.old # None => l.old \in Row
    /\ \A q \in l.seen : RowForm(q)

(* ... an interface or a template, ...                                          *)
InterfaceForm(l) ==
    /\ l.server \in Server
    /\ l.iface \in Iface
    /\ \A q \in l.seen : RowForm(q) /\ q.addrs \subseteq l.iface.net

TemplateForm(l) ==
    /\ l.server \in Server
    /\ l.route \in Route
    /\ l.seen \subseteq Template
    /\ l.old # None => l.old \in Template

(* ... that creates or deletes a device, or brings devices in line.            *)
CreationForm(l) ==
    /\ l.device \in Device
    /\ l.old = None
    /\ l.addrs \subseteq Addr
    /\ l.todo \subseteq Template

DeletionForm(l) ==
    /\ l.device \in Device
    /\ \A q \in l.peers : q \in Row /\ q.device = l.device

ResyncForm(l) ==
    /\ l.plan \in [Server -> Route \cup {None}]
    /\ l.todo \subseteq Device
    /\ l.peers \cup l.left # {} => l.device \in Device
    /\ \A q \in l.seen : RowForm(q)
    /\ \A q \in l.peers : q \in Row /\ q.device = l.device
    /\ l.left \subseteq Server

(* A request by its kind and the statement it will execute next.               *)
CallForm(l) ==
    /\ DOMAIN l = DOMAIN Blank
    /\ l.stage \in Stage
    /\ l.made \in Nat
    /\ l.clear \subseteq Device
    /\ l.seen \subseteq Row \cup Template
    /\ l.stage # "invalidate" => l.clear = {}
    /\ l.stage = "new" => l.kind = "none"
    /\ l.stage = "rows" => l.kind = "deleteDevice"
    /\ l.stage = "check" => l.kind # "resync"
    /\ l.stage = "writeDevice" => l.kind = "updateDevice"
    /\ l.stage \in {"address", "templates"} => l.kind = "createDevice"
    /\ l.stage = "server" => l.kind = "resync"
    /\ l.stage = "writeDevice" => l.device \in Device /\ l.addrs \subseteq Addr
    /\ l.stage = "address" => l.before \subseteq Addr
    /\ l.stage = "delete" => l.old \in Row /\ l.device \in Device
    /\ l.stage \in {"check", "write"} => WriteForm(l)
    /\ l.stage = "writeInterface" => InterfaceForm(l)
    /\ l.stage = "writeTemplate" => TemplateForm(l)
    /\ l.kind = "createDevice" => CreationForm(l)
    /\ l.kind = "deleteDevice" => DeletionForm(l)
    /\ l.kind = "resync" => ResyncForm(l)

Calls == DOMAIN call = Call /\ \A c \in Call : CallForm(call[c])

Tables ==
    /\ server \subseteq Server
    /\ device \subseteq Device
    /\ addr \in [Device -> SUBSET Addr]
    /\ iface \in [Server -> Iface]
    /\ \A q \in row : RowForm(q) /\ q.server \in server /\ q.device \in device
    /\ \A q, r \in row : q.id = r.id => q = r
    /\ template \subseteq Template
    /\ \A t \in template : t.server \in server
    /\ raced \cup unchecked \subseteq Id \cup ((Call \cup {None}) \X Server)

Sessions ==
    /\ session \in [Device -> Session]
    /\ excuse \in [Device -> Cause]
    /\ disturbed \subseteq Call

(* The rows that a request has made are numbered below the next one.           *)
Numbered == \A q \in row : q.id[1] \in Call => q.id[2] < call[q.id[1]].made

(* Two rows, or two templates, that are one or that the history R names.       *)
SameOrRaced(q, r, R) == q.id = r.id \/ {q.id, r.id} \subseteq R

(* Of the pair that a request will write it has seen at most the row it will    *)
(* replace.                                                                *)
FreeForSeen(l, R) ==
    /\ \A q \in l.seen : SamePair(q, l) => l.old # None /\ SamePair(q, l.old)
    /\ l.old # None => \A q \in l.seen : SamePair(q, l.old) => SameOrRaced(q, l.old, R)

ClearOfSeen(l) == \A q \in l.seen : ~Clash(l, q)

TemplateFree(l, R) ==
    \A t \in l.seen : t.server = l.server => l.old # None /\ SameOrRaced(t, l.old, R)

Knows(l, R) ==
    /\ l.stage \in {"check", "write"} => FreeForSeen(l, R)
    /\ l.stage = "write" /\ l.kind # "resync" => ClearOfSeen(l)
    /\ l.stage = "writeTemplate" => TemplateFree(l, R)

(* Of the servers that a resynchronisation has still to come to for a device,   *)
(* it has seen no rows but those it is going to change.                      *)
Resyncs(l, R) ==
    l.kind = "resync" =>
        /\ \A p, q \in l.peers : p.server = q.server => p = q
        /\ \A p \in l.peers, q \in l.seen : SamePair(q, p) => SameOrRaced(q, p, R)
        /\ \A p \in l.peers : p.server \notin l.left
        /\ \A s \in l.left : l.plan[s] # None
        /\ \A q \in l.seen : q.device = l.device => q.server \notin l.left
        /\ l.stage \in {"write", "invalidate", "delete"} =>
            /\ l.server \notin l.left
            /\ \A p \in l.peers : p.server # l.server

Knowing == \A c \in Call : Knows(call[c], raced) /\ Resyncs(call[c], raced)

Sound == Tables /\ OnePerServer /\ SoundUnlessRaced

IInv == Sound /\ Sessions /\ Numbered /\ Calls /\ Knowing /\ SessionFollowsAdjacencies

-----------------------------------------------------------------------------
(* What is known of requests.                                                *)

(* Request b is where l is, but for its stage, its error and, at the end, what   *)
(* it had read.                                                              *)
AsBefore(b, l) ==
    /\ DOMAIN b = DOMAIN l
    /\ b.kind = l.kind /\ b.device = l.device /\ b.clear = l.clear /\ b.todo = l.todo
    /\ b.peers = l.peers /\ b.left = l.left /\ b.plan = l.plan /\ b.made = l.made
    /\ IF b.stage = "done"
       THEN b.addrs = {} /\ b.old = None /\ b.seen = {}
       ELSE /\ b.server = l.server /\ b.addrs = l.addrs /\ b.route = l.route /\ b.ip = l.ip
            /\ b.iface = l.iface /\ b.old = l.old /\ b.seen = l.seen /\ b.before = l.before

(* For whom a request that is under way will end the session.                *)
ToldBy(l, d) ==
    \/ d \in l.clear
    \/ l.kind = "deleteDevice" /\ l.stage = "rows" /\ l.device = d

Quiet(l) == \A d : ~ToldBy(l, d)

(* A request as it is between two statements.                                 *)
Fine(l, R) == CallForm(l) /\ Knows(l, R) /\ Resyncs(l, R)

LEMMA QuietWhen ==
    ASSUME NEW l, CallForm(l), l.stage \notin {"invalidate", "rows"}
    PROVE  Quiet(l)
BY DEF CallForm, Quiet, ToldBy

LEMMA KnowsMore ==
    ASSUME NEW l, NEW R, NEW Q, R \subseteq Q, Fine(l, R)
    PROVE  Fine(l, Q)
<1>1. \A q, r : SameOrRaced(q, r, R) => SameOrRaced(q, r, Q)
  BY DEF SameOrRaced
<1>2. Knows(l, Q)
  BY <1>1 DEF Fine, Knows, FreeForSeen, TemplateFree
<1>3. Resyncs(l, Q)
  BY <1>1 DEF Fine, Resyncs
<1> QED
  BY <1>2, <1>3 DEF Fine

LEMMA BlankFields ==
    /\ CallForm(Blank)
    /\ Blank.kind = "none" /\ Blank.stage = "new" /\ Blank.made = 0
    /\ Blank.clear = {} /\ Blank.seen = {} /\ Blank.todo = {} /\ Blank.peers = {}
    /\ Blank.left = {} /\ Blank.before = {} /\ Blank.old = None /\ Blank.addrs = {}
<1>1. /\ Blank.kind = "none" /\ Blank.stage = "new" /\ Blank.made = 0
      /\ Blank.clear = {} /\ Blank.seen = {} /\ Blank.todo = {} /\ Blank.peers = {}
      /\ Blank.left = {} /\ Blank.before = {} /\ Blank.old = None /\ Blank.addrs = {}
  BY DEF Blank
<1> QED
  BY <1>1 DEF Stage, CallForm

LEMMA SeenByResync ==
    ASSUME NEW l, ResyncForm(l)
    PROVE  l.seen \subseteq Row \cup Template
BY DEF ResyncForm, RowForm

LEMMA RequestFields ==
    ASSUME NEW k, NEW st, NEW s, NEW d
    PROVE  LET r == Request(k, st, s, d) IN
           /\ DOMAIN r = DOMAIN Blank
           /\ r.kind = k /\ r.stage = st /\ r.server = s /\ r.device = d /\ r.made = 0
           /\ r.clear = {} /\ r.seen = {} /\ r.todo = {} /\ r.peers = {}
           /\ r.left = {} /\ r.before = {} /\ r.old = None /\ r.addrs = {}
BY DEF Request, Blank

(* After a statement comes the next one, or the end.                          *)
LEMMA Proceeding ==
    ASSUME NEW l, DOMAIN l = DOMAIN Blank
    PROVE  LET m == Proceed(l) IN
           /\ AsBefore(m, l)
           /\ m.stage \in {"server", "next", "done"}
           /\ m.stage = "server" => l.kind = "resync"
<1>1. CASE Proceed(l) = [l EXCEPT !.stage = "server"] /\ l.kind = "resync"
  BY <1>1 DEF AsBefore, Blank
<1>2. CASE Proceed(l) = [l EXCEPT !.stage = "next"]
  BY <1>2 DEF AsBefore, Blank
<1>3. CASE Proceed(l) = Finish(l)
  BY <1>3 DEF AsBefore, Blank, Finish
<1> QED
  BY <1>1, <1>2, <1>3 DEF Proceed

LEMMA Failing ==
    ASSUME NEW l, DOMAIN l = DOMAIN Blank
    PROVE  LET m == Fail(l) IN
           /\ AsBefore(m, l)
           /\ m.stage \in {"server", "next", "done"}
           /\ m.stage = "server" => l.kind = "resync"
<1> DEFINE k == [l EXCEPT !.failed = TRUE]
<1>1. /\ DOMAIN k = DOMAIN Blank
      /\ k.kind = l.kind /\ k.server = l.server /\ k.device = l.device /\ k.addrs = l.addrs
      /\ k.route = l.route /\ k.ip = l.ip /\ k.iface = l.iface /\ k.old = l.old
      /\ k.seen = l.seen /\ k.clear = l.clear /\ k.todo = l.todo /\ k.peers = l.peers
      /\ k.left = l.left /\ k.plan = l.plan /\ k.before = l.before /\ k.made = l.made
  BY DEF Blank
<1>2. CASE l.kind = "resync"
  <2>1. Fail(l) = Proceed(k)
    BY <1>2 DEF Fail
  <2> HIDE DEF k
  <2> QED
    BY <1>1, <2>1, Proceeding DEF AsBefore
<1>3. CASE l.kind # "resync"
  <2>1. Fail(l) = Finish(k)
    BY <1>3 DEF Fail
  <2> HIDE DEF k
  <2>2. Finish(k).stage = "done" /\ AsBefore(Finish(k), k)
    BY <1>1 DEF AsBefore, Finish, Blank
  <2> QED
    BY <1>1, <2>1, <2>2 DEF AsBefore
<1> QED
  BY <1>2, <1>3

(* Neither makes a request wrong that has nothing left to clear.               *)
LEMMA MovesOn ==
    ASSUME NEW l, NEW R, CallForm(l), Resyncs(l, R), l.clear = {},
           NEW m, m \in {Proceed(l), Fail(l)}
    PROVE  Fine(m, R) /\ Quiet(m) /\ m.made = l.made
<1>1. /\ AsBefore(m, l)
      /\ m.stage \in {"server", "next", "done"}
      /\ m.stage = "server" => l.kind = "resync"
  BY Proceeding, Failing DEF CallForm
<1>2. CallForm(m)
  BY <1>1 DEF CallForm, CreationForm, DeletionForm, ResyncForm, AsBefore, Stage
<1>3. Resyncs(m, R)
  BY <1>1 DEF Resyncs, AsBefore
<1>4. Knows(m, R)
  BY <1>1 DEF Knows
<1> QED
  BY <1>1, <1>2, <1>3, <1>4, QuietWhen DEF Fine, AsBefore

(* The other requests stay where they are.                                     *)
Others(c) ==
    /\ DOMAIN call' = Call
    /\ \A b \in Call : b # c => call'[b] = call[b]

LEMMA Begun ==
    ASSUME Calls, NEW c \in Call, NEW r, Begin(c, r)
    PROVE  Others(c) /\ call'[c] = r /\ call[c] = Blank
BY DEF Begin, Calls, Others

LEMMA SetTo ==
    ASSUME Calls, NEW c \in Call, NEW r, Set(c, r)
    PROVE  Others(c) /\ call'[c] = r
BY DEF Set, Calls, Others

(* A step of c keeps what is known of the requests.                            *)
LEMMA CallsStep ==
    ASSUME Calls, Knowing, NEW c \in Call, Others(c), Fine(call'[c], raced'),
           raced \subseteq raced'
    PROVE  Calls' /\ Knowing'
<1>1. \A b \in Call : Fine(call'[b], raced')
  <2> TAKE b \in Call
  <2>1. CASE b = c
    BY <2>1
  <2>2. CASE b # c
    <3>1. Fine(call[b], raced) /\ call'[b] = call[b]
      BY <2>2 DEF Calls, Knowing, Fine, Others
    <3> QED
      BY <3>1, KnowsMore
  <2> QED
    BY <2>1, <2>2
<1> QED
  BY <1>1 DEF Calls, Knowing, Fine, Others

-----------------------------------------------------------------------------
(* Statements that read and decide, and write nothing.                         *)

(* What such a statement does: it moves its own request.                       *)
Reads(c) ==
    /\ Others(c)
    /\ Fine(call'[c], raced)
    /\ call'[c].made = call[c].made
    /\ Quiet(call[c])
    /\ UNCHANGED <<table, session, history>>

(* A request as Prepare takes it.                                              *)
Ready(l) ==
    /\ DOMAIN l = DOMAIN Blank
    /\ l.server \in Server /\ l.device \in Device /\ l.route \in Route /\ l.addrs \subseteq Addr
    /\ l.kind \in {"create", "update", "createDevice"}
    /\ l.clear = {}
    /\ l.made \in Nat
    /\ l.kind # "update" => l.old = None
    /\ l.kind = "update" => l.old \in row /\ l.old # None
    /\ l.todo \subseteq Template

LEMMA Prepared ==
    ASSUME Tables, Calls, OnePerServer, NEW c \in Call, NEW l, Ready(l),
           Acceptable(l), Prepare(c, l)
    PROVE  /\ Others(c)
           /\ Fine(call'[c], raced)
           /\ call'[c].made = l.made
           /\ UNCHANGED <<table, session, history>>
<1> USE DEF Ready
<1>0. PICK ip \in Reach(l.server, l.device) :
        Set(c, [l EXCEPT !.stage = "check", !.ip = ip, !.iface = iface[l.server],
                         !.seen = Near(l.server, l.device)])
  BY DEF Prepare
<1> DEFINE m == [l EXCEPT !.stage = "check", !.ip = ip, !.iface = iface[l.server],
                          !.seen = Near(l.server, l.device)]
<1>1. /\ DOMAIN m = DOMAIN Blank /\ m.stage = "check" /\ m.ip = ip /\ m.iface = iface[l.server]
      /\ m.seen = Near(l.server, l.device) /\ m.kind = l.kind /\ m.server = l.server
      /\ m.device = l.device /\ m.addrs = l.addrs /\ m.route = l.route /\ m.old = l.old
      /\ m.clear = {} /\ m.todo = l.todo /\ m.made = l.made
  BY DEF Blank
<1>9. Others(c) /\ call'[c] = m
  BY <1>0, SetTo
<1> HIDE DEF m
<1>2. ip \in Addr /\ iface[l.server] \in Iface /\ ip \in iface[l.server].net
  BY DEF Tables, Reach
<1>3. Near(l.server, l.device) \subseteq row
  BY DEF Near
<1>4. \A q \in Near(l.server, l.device) : RowForm(q)
  BY <1>3 DEF Tables
<1>5. l.old # None => l.old \in Row
  BY DEF Tables, RowForm
<1>6. CallForm(m)
  BY <1>1, <1>2, <1>4, <1>5 DEF CallForm, WriteForm, CreationForm, RowForm, Stage
<1>7. FreeForSeen(m, raced)
  <2>1. \A q \in m.seen : SamePair(q, m) => m.old # None /\ SamePair(q, m.old)
    BY <1>1, <1>3 DEF Acceptable, SamePair
  <2>2. m.old # None => \A q \in m.seen : SamePair(q, m.old) => SameOrRaced(q, m.old, raced)
    <3> SUFFICES ASSUME m.old # None, NEW q \in m.seen, SamePair(q, m.old)
                 PROVE  SameOrRaced(q, m.old, raced)
      OBVIOUS
    <3>1. m.old \in row /\ q \in row
      BY <1>1, <1>3
    <3>2. q = m.old \/ {q.id, m.old.id} \subseteq raced
      BY <3>1 DEF OnePerServer
    <3> QED
      BY <3>2 DEF SameOrRaced
  <2> QED
    BY <2>1, <2>2 DEF FreeForSeen
<1>8. Knows(m, raced) /\ Resyncs(m, raced)
  BY <1>1, <1>7 DEF Knows, Resyncs
<1>10. UNCHANGED <<table, session, history>>
  BY DEF Prepare
<1> QED
  BY <1>1, <1>6, <1>8, <1>9, <1>10 DEF Fine

LEMMA CreateAdjacencyReads ==
    ASSUME Tables, Calls, OnePerServer, NEW c \in Call, NEW s \in Server, NEW d \in Device,
           NEW A \in Offer \cup {{}}, NEW r \in Route, CreateAdjacency(c, s, d, A, r)
    PROVE  Reads(c)
<1> DEFINE l == [Request("create", "check", s, d) EXCEPT !.addrs = A, !.route = r]
<1>1. Acceptable(l) /\ Prepare(c, l) /\ call[c] = Blank
  BY DEF CreateAdjacency
<1>2. /\ DOMAIN l = DOMAIN Blank /\ l.server = s /\ l.device = d /\ l.route = r /\ l.addrs = A
      /\ l.kind = "create" /\ l.clear = {} /\ l.made = 0 /\ l.old = None /\ l.todo = {}
  BY DEF Request, Blank
<1>3. A \subseteq Addr
  BY OfferAssumption
<1> HIDE DEF l
<1>4. Ready(l)
  BY <1>2, <1>3 DEF Ready
<1>5. Others(c) /\ Fine(call'[c], raced) /\ call'[c].made = l.made /\ UNCHANGED <<table, session, history>>
  BY <1>1, <1>4, Prepared
<1> QED
  BY <1>1, <1>2, <1>5, QuietWhen, BlankFields DEF Reads

LEMMA UpdateAdjacencyReads ==
    ASSUME Tables, Calls, OnePerServer, NEW c \in Call, NEW q \in row, NEW s \in Server,
           NEW d \in Device, NEW A \in Offer \cup {{}}, NEW r \in Route, UpdateAdjacency(c, q, s, d, A, r)
    PROVE  Reads(c)
<1> DEFINE l == [Request("update", "check", s, d) EXCEPT !.addrs = A, !.route = r, !.old = q]
<1>1. Acceptable(l) /\ Prepare(c, l) /\ call[c] = Blank
  BY DEF UpdateAdjacency
<1>2. /\ DOMAIN l = DOMAIN Blank /\ l.server = s /\ l.device = d /\ l.route = r /\ l.addrs = A
      /\ l.kind = "update" /\ l.clear = {} /\ l.made = 0 /\ l.old = q /\ l.todo = {}
  BY DEF Request, Blank
<1>3. A \subseteq Addr
  BY OfferAssumption
<1>4. q # None
  BY NoneAssumption DEF Tables, RowForm
<1> HIDE DEF l
<1>5. Ready(l)
  BY <1>2, <1>3, <1>4 DEF Ready
<1>6. Others(c) /\ Fine(call'[c], raced) /\ call'[c].made = l.made /\ UNCHANGED <<table, session, history>>
  BY <1>1, <1>5, Prepared
<1> QED
  BY <1>1, <1>2, <1>6, QuietWhen, BlankFields DEF Reads

LEMMA NextTemplateReads ==
    ASSUME Tables, Calls, Knowing, OnePerServer, NEW c \in Call, NEW t \in call[c].todo,
           NextTemplate(c, t)
    PROVE  Reads(c)
<1> DEFINE l == [call[c] EXCEPT !.todo = @ \ {t}, !.server = t.server, !.route = t.route]
<1>1. call[c].kind = "createDevice" /\ call[c].stage = "next" /\ Prepare(c, l)
  BY DEF NextTemplate
<1>2. CallForm(call[c]) /\ t \in Template
  BY <1>1 DEF Calls, CallForm, CreationForm
<1>3. /\ DOMAIN l = DOMAIN Blank /\ l.server = t.server /\ l.route = t.route
      /\ l.todo = call[c].todo \ {t} /\ l.device = call[c].device /\ l.addrs = call[c].addrs
      /\ l.kind = "createDevice" /\ l.stage = "next" /\ l.clear = {} /\ l.made = call[c].made
      /\ l.old = None /\ l.seen = call[c].seen
  BY <1>1, <1>2 DEF CallForm, CreationForm, Blank
<1> HIDE DEF l
<1>4. Quiet(call[c])
  BY <1>1, <1>2, QuietWhen
<1>5. CASE Acceptable(l)
  <2>1. Ready(l)
    BY <1>1, <1>2, <1>3 DEF Ready, CallForm, CreationForm, Template
  <2>2. Others(c) /\ Fine(call'[c], raced) /\ call'[c].made = l.made /\ UNCHANGED <<table, session, history>>
    BY <1>1, <1>5, <2>1, Prepared
  <2> QED
    BY <1>3, <1>4, <2>2 DEF Reads
<1>6. CASE ~Acceptable(l)
  <2>1. Set(c, Fail(l)) /\ UNCHANGED <<table, session, history>>
    BY <1>1, <1>6 DEF Prepare
  <2>2. CallForm(l)
    BY <1>1, <1>2, <1>3 DEF CallForm, CreationForm, Stage, Template
  <2>3. Resyncs(l, raced)
    BY <1>3 DEF Resyncs
  <2>4. Fine(Fail(l), raced) /\ Fail(l).made = l.made
    BY <1>3, <2>2, <2>3, MovesOn
  <2>5. Others(c) /\ call'[c] = Fail(l)
    BY <2>1, SetTo
  <2> QED
    BY <1>3, <1>4, <2>1, <2>4, <2>5 DEF Reads
<1> QED
  BY <1>5, <1>6

LEMMA CheckReads ==
    ASSUME Tables, Calls, Knowing, NEW c \in Call, Check(c)
    PROVE  Reads(c)
<1> DEFINE l == call[c]
<1>1. l.stage = "check" /\ CallForm(l) /\ Knows(l, raced) /\ Resyncs(l, raced)
  BY DEF Check, Calls, Knowing
<1>2. Quiet(l)
  BY <1>1, QuietWhen
<1>3. UNCHANGED <<table, session, history>>
  BY DEF Check
<1>4. CASE \E q \in row : Clash(l, q)
  <2>1. Set(c, Fail(l))
    BY <1>4 DEF Check
  <2>2. Fine(Fail(l), raced) /\ Fail(l).made = l.made
    BY <1>1, MovesOn DEF CallForm, WriteForm
  <2> QED
    BY <1>2, <1>3, <2>1, <2>2, SetTo DEF Reads
<1>5. CASE \A q \in row : ~Clash(l, q)
  <2> DEFINE m == [l EXCEPT !.stage = "write", !.seen = @ \cap row]
  <2>1. Set(c, m)
    BY <1>5 DEF Check
  <2>2. /\ DOMAIN m = DOMAIN Blank /\ m.stage = "write" /\ m.seen = l.seen \cap row
        /\ m.kind = l.kind /\ m.server = l.server /\ m.device = l.device /\ m.addrs = l.addrs
        /\ m.route = l.route /\ m.ip = l.ip /\ m.iface = l.iface /\ m.old = l.old
        /\ m.clear = l.clear /\ m.todo = l.todo /\ m.made = l.made
    BY <1>1 DEF CallForm, Blank
  <2> HIDE DEF m
  <2>3. l.kind \in {"create", "update", "createDevice"} /\ l.clear = {}
    BY <1>1 DEF CallForm, WriteForm
  <2>4. CallForm(m)
    BY <1>1, <2>2, <2>3 DEF CallForm, WriteForm, CreationForm, Stage
  <2>5. \A q : Clash(m, q) <=> Clash(l, q)
    BY <2>2 DEF Clash, Mine, SameRoute, SameAddress
  <2>6. FreeForSeen(l, raced)
    BY <1>1 DEF Knows
  <2>7. FreeForSeen(m, raced)
    BY <2>2, <2>6 DEF FreeForSeen, SamePair
  <2>8. ClearOfSeen(m)
    BY <1>5, <2>2, <2>5 DEF ClearOfSeen
  <2>9. Knows(m, raced) /\ Resyncs(m, raced)
    BY <2>2, <2>3, <2>7, <2>8 DEF Knows, Resyncs
  <2>10. Others(c) /\ call'[c] = m
    BY <2>1, SetTo
  <2> QED
    BY <1>2, <1>3, <2>2, <2>4, <2>9, <2>10 DEF Reads, Fine
<1> QED
  BY <1>4, <1>5

LEMMA WriteFailsReads ==
    ASSUME Tables, Calls, Knowing, NEW c \in Call, WriteFails(c)
    PROVE  Reads(c)
<1>1. /\ call[c].stage = "write" /\ CallForm(call[c])
      /\ Resyncs(call[c], raced)
      /\ Set(c, Fail(call[c])) /\ UNCHANGED <<table, session, history>>
  BY DEF WriteFails, Calls, Knowing
<1>2. Fine(Fail(call[c]), raced) /\ Fail(call[c]).made = call[c].made
  BY <1>1, MovesOn DEF CallForm, WriteForm
<1> QED
  BY <1>1, <1>2, SetTo, QuietWhen DEF Reads

LEMMA ReadTemplatesReads ==
    ASSUME Tables, Calls, Knowing, NEW c \in Call, ReadTemplates(c)
    PROVE  Reads(c)
<1> DEFINE l == call[c]
           k == [l EXCEPT !.todo = template]
<1>1. l.stage = "templates" /\ CallForm(l) /\ Resyncs(l, raced)
  BY DEF ReadTemplates, Calls, Knowing
<1>2. l.kind = "createDevice" /\ l.clear = {}
  BY <1>1 DEF CallForm
<1>3. Set(c, Fail(l)) \/ Set(c, Proceed(k))
  BY DEF ReadTemplates
<1>4. UNCHANGED <<table, session, history>>
  BY DEF ReadTemplates
<1>5. /\ DOMAIN k = DOMAIN Blank /\ k.todo = template /\ k.stage = l.stage
      /\ k.kind = l.kind /\ k.device = l.device /\ k.addrs = l.addrs /\ k.old = l.old
      /\ k.clear = l.clear /\ k.made = l.made /\ k.seen = l.seen
  BY <1>1 DEF CallForm, Blank
<1> HIDE DEF k
<1>6. CallForm(k)
  BY <1>1, <1>2, <1>5 DEF CallForm, CreationForm, Stage, Tables
<1>7. Resyncs(k, raced)
  BY <1>2, <1>5 DEF Resyncs
<1>8. Fine(Fail(l), raced) /\ Fail(l).made = l.made
  BY <1>1, <1>2, MovesOn
<1>9. Fine(Proceed(k), raced) /\ Proceed(k).made = l.made
  BY <1>2, <1>5, <1>6, <1>7, MovesOn
<1> QED
  BY <1>1, <1>3, <1>4, <1>8, <1>9, SetTo, QuietWhen DEF Reads

(* A request that begins has nothing to keep.                                  *)
LEMMA BeginsReads ==
    ASSUME Calls, NEW c \in Call, NEW r, Begin(c, r), Fine(r, raced), r.made = 0,
           UNCHANGED <<table, session, history>>
    PROVE  Reads(c)
BY Begun, QuietWhen, BlankFields DEF Reads

LEMMA ReadRowReads ==
    ASSUME Tables, Calls, NEW c \in Call, NEW q \in row, ReadRow(c, q)
    PROVE  Reads(c)
<1> DEFINE r == [Request("delete", "delete", q.server, q.device) EXCEPT !.old = q]
<1>1. Begin(c, r) /\ UNCHANGED <<table, session, history>>
  BY DEF ReadRow
<1>2. /\ DOMAIN r = DOMAIN Blank /\ r.stage = "delete" /\ r.kind = "delete" /\ r.old = q
      /\ r.device = q.device /\ r.clear = {} /\ r.made = 0 /\ r.seen = {}
  BY DEF Request, Blank
<1> HIDE DEF r
<1>3. q \in Row /\ q.device \in Device
  BY DEF Tables, RowForm
<1>4. CallForm(r)
  BY <1>2, <1>3 DEF Stage, CallForm
<1>5. Knows(r, raced) /\ Resyncs(r, raced)
  BY <1>2 DEF Knows, Resyncs
<1> QED
  BY <1>1, <1>2, <1>4, <1>5, BeginsReads DEF Fine

LEMMA UpdateDeviceReads ==
    ASSUME Tables, Calls, NEW c \in Call, NEW d \in Device, NEW A \in Offer, UpdateDevice(c, d, A)
    PROVE  Reads(c)
<1> DEFINE r == [Request("updateDevice", "writeDevice", None, d)
                 EXCEPT !.addrs = A, !.before = addr[d]]
<1>1. Begin(c, r) /\ UNCHANGED <<table, session, history>>
  BY DEF UpdateDevice
<1>2. /\ DOMAIN r = DOMAIN Blank /\ r.stage = "writeDevice" /\ r.kind = "updateDevice"
      /\ r.device = d /\ r.addrs = A /\ r.clear = {} /\ r.made = 0 /\ r.seen = {}
  BY DEF Request, Blank
<1> HIDE DEF r
<1>3. CallForm(r)
  <2>1. A \subseteq Addr
    BY OfferAssumption
  <2> QED
    BY <1>2, <2>1 DEF Stage, CallForm
<1>4. Knows(r, raced) /\ Resyncs(r, raced)
  BY <1>2 DEF Knows, Resyncs
<1> QED
  BY <1>1, <1>2, <1>3, <1>4, BeginsReads DEF Fine

LEMMA ReadRowsReads ==
    ASSUME Tables, Calls, NEW c \in Call, NEW d \in Device, ReadRows(c, d)
    PROVE  Reads(c)
<1> DEFINE r == [Request("deleteDevice", "rows", None, d) EXCEPT !.peers = {q \in row : q.device = d}]
<1>1. Begin(c, r) /\ UNCHANGED <<table, session, history>>
  BY DEF ReadRows
<1>2. /\ DOMAIN r = DOMAIN Blank /\ r.stage = "rows" /\ r.kind = "deleteDevice"
      /\ r.device = d /\ r.peers = {q \in row : q.device = d} /\ r.clear = {} /\ r.made = 0
      /\ r.seen = {}
  BY DEF Request, Blank
<1> HIDE DEF r
<1>3. CallForm(r)
  <2>1. \A q \in r.peers : q \in Row /\ q.device = d
    BY <1>2 DEF Tables, RowForm
  <2> QED
    BY <1>2, <2>1 DEF Stage, CallForm, DeletionForm
<1>4. Knows(r, raced) /\ Resyncs(r, raced)
  BY <1>2 DEF Knows, Resyncs
<1> QED
  BY <1>1, <1>2, <1>3, <1>4, BeginsReads DEF Fine

LEMMA UpdateInterfaceReads ==
    ASSUME Tables, Calls, NEW c \in Call, NEW s \in Server, NEW i \in Iface, UpdateInterface(c, s, i)
    PROVE  Reads(c)
<1> DEFINE r == [Request("interface", "writeInterface", s, None)
                 EXCEPT !.iface = i, !.seen = {q \in row : q.server = s}]
<1>1. Begin(c, r) /\ UNCHANGED <<table, session, history>>
  BY DEF UpdateInterface
<1>2. /\ DOMAIN r = DOMAIN Blank /\ r.stage = "writeInterface" /\ r.kind = "interface"
      /\ r.server = s /\ r.iface = i /\ r.seen = {q \in row : q.server = s}
      /\ r.clear = {} /\ r.made = 0
  BY DEF Request, Blank
<1> HIDE DEF r
<1>3. \A q \in r.seen : RowForm(q) /\ q.addrs \subseteq i.net
  BY <1>2 DEF UpdateInterface, Tables
<1>4. CallForm(r)
  BY <1>2, <1>3 DEF Stage, CallForm, InterfaceForm, RowForm
<1>5. Knows(r, raced) /\ Resyncs(r, raced)
  BY <1>2 DEF Knows, Resyncs
<1> QED
  BY <1>1, <1>2, <1>4, <1>5, BeginsReads DEF Fine

LEMMA CreateTemplateReads ==
    ASSUME Tables, Calls, NEW c \in Call, NEW s \in Server, NEW r \in Route, CreateTemplate(c, s, r)
    PROVE  Reads(c)
<1> DEFINE m == [Request("createTemplate", "writeTemplate", s, None)
                 EXCEPT !.route = r, !.seen = template]
<1>1. Begin(c, m) /\ UNCHANGED <<table, session, history>>
  BY DEF CreateTemplate
<1>2. /\ DOMAIN m = DOMAIN Blank /\ m.stage = "writeTemplate" /\ m.kind = "createTemplate"
      /\ m.server = s /\ m.route = r /\ m.seen = template /\ m.old = None
      /\ m.clear = {} /\ m.made = 0
  BY DEF Request, Blank
<1> HIDE DEF m
<1>3. CallForm(m)
  <2>1. m.seen \subseteq Template
    BY <1>2 DEF Tables
  <2> QED
    BY <1>2, <2>1 DEF Stage, CallForm, TemplateForm
<1>4. TemplateFree(m, raced)
  BY <1>2 DEF CreateTemplate, TemplateFree
<1>5. Knows(m, raced) /\ Resyncs(m, raced)
  BY <1>2, <1>4 DEF Knows, Resyncs
<1> QED
  BY <1>1, <1>2, <1>3, <1>5, BeginsReads DEF Fine

LEMMA UpdateTemplateReads ==
    ASSUME Tables, Calls, OnePerServer, NEW c \in Call, NEW t \in template, NEW s \in Server,
           NEW r \in Route, UpdateTemplate(c, t, s, r)
    PROVE  Reads(c)
<1> DEFINE m == [Request("updateTemplate", "writeTemplate", s, None)
                 EXCEPT !.route = r, !.old = t, !.seen = template]
<1>1. Begin(c, m) /\ UNCHANGED <<table, session, history>>
  BY DEF UpdateTemplate
<1>2. /\ DOMAIN m = DOMAIN Blank /\ m.stage = "writeTemplate" /\ m.kind = "updateTemplate"
      /\ m.server = s /\ m.route = r /\ m.seen = template /\ m.old = t
      /\ m.clear = {} /\ m.made = 0
  BY DEF Request, Blank
<1> HIDE DEF m
<1>3. t \in Template /\ t # None
  BY NoneAssumption DEF Tables
<1>4. CallForm(m)
  <2>1. m.seen \subseteq Template
    BY <1>2 DEF Tables
  <2> QED
    BY <1>2, <1>3, <2>1 DEF Stage, CallForm, TemplateForm
<1>5. TemplateFree(m, raced)
  <2> SUFFICES ASSUME NEW u \in template, u.server = s
               PROVE  SameOrRaced(u, t, raced)
    BY <1>2, <1>3 DEF TemplateFree
  <2>1. t.server = s
    BY DEF UpdateTemplate
  <2>2. u = t \/ {u.id, t.id} \subseteq raced
    BY <2>1 DEF OnePerServer
  <2> QED
    BY <2>2 DEF SameOrRaced
<1>6. Knows(m, raced) /\ Resyncs(m, raced)
  BY <1>2, <1>5 DEF Knows, Resyncs
<1> QED
  BY <1>1, <1>2, <1>4, <1>6, BeginsReads DEF Fine

LEMMA ReadPlanReads ==
    ASSUME Tables, Calls, NEW c \in Call, ReadPlan(c)
    PROVE  Reads(c)
<1>1. PICK f \in OneEach(template) :
        Begin(c, Proceed([Request("resync", "next", None, None) EXCEPT
            !.plan = [s \in Server |-> IF s \in DOMAIN f THEN f[s].route ELSE None],
            !.todo = Own \cap device]))
  BY DEF ReadPlan
<1> DEFINE plan == [s \in Server |-> IF s \in DOMAIN f THEN f[s].route ELSE None]
           r == [Request("resync", "next", None, None) EXCEPT !.plan = plan, !.todo = Own \cap device]
<1>2. plan \in [Server -> Route \cup {None}]
  BY DEF OneEach, Tables, Template
<1>3. Begin(c, Proceed(r))
  BY <1>1
<1> HIDE DEF plan
<1>4. /\ DOMAIN r = DOMAIN Blank /\ r.stage = "next" /\ r.kind = "resync" /\ r.plan = plan
      /\ r.todo = Own \cap device /\ r.seen = {} /\ r.peers = {} /\ r.left = {} /\ r.clear = {}
      /\ r.made = 0
  BY DEF Request, Blank
<1> HIDE DEF r
<1>5. CallForm(r)
  BY <1>2, <1>4, OwnAssumption DEF CallForm, ResyncForm, Stage
<1>6. Resyncs(r, raced)
  BY <1>4 DEF Resyncs
<1>7. Fine(Proceed(r), raced) /\ Proceed(r).made = 0
  BY <1>4, <1>5, <1>6, MovesOn
<1>8. UNCHANGED <<table, session, history>>
  BY DEF ReadPlan
<1> QED
  BY <1>3, <1>7, <1>8, BeginsReads

LEMMA NextDeviceReads ==
    ASSUME Tables, Calls, OnePerServer, NEW c \in Call, NEW d \in call[c].todo, NextDevice(c, d)
    PROVE  Reads(c)
<1> DEFINE l == call[c]
           rows == {q \in row : q.device = d}
<1>1. PICK f \in OneEach(rows) :
        Set(c, Proceed([l EXCEPT
            !.todo = @ \ {d}, !.device = d, !.seen = rows,
            !.peers = {f[s] : s \in DOMAIN f},
            !.left = {s \in Server \ DOMAIN f : l.plan[s] # None}]))
  BY DEF NextDevice
<1> DEFINE peers == {f[s] : s \in DOMAIN f}
           left == {s \in Server \ DOMAIN f : l.plan[s] # None}
           r == [l EXCEPT !.todo = @ \ {d}, !.device = d, !.seen = rows, !.peers = peers,
                          !.left = left]
<1>2. l.kind = "resync" /\ l.stage = "next" /\ CallForm(l) /\ UNCHANGED <<table, session, history>>
  BY DEF NextDevice, Calls
<1>3. Set(c, Proceed(r))
  BY <1>1
<1>4. /\ \A q \in rows : q \in row /\ RowForm(q) /\ q.device = d
      /\ \A q \in rows : q.server \in DOMAIN f
      /\ \A q \in peers : q \in rows /\ f[q.server] = q /\ q.server \in DOMAIN f
      /\ left \subseteq Server
      /\ \A s \in left : l.plan[s] # None /\ s \notin DOMAIN f
  BY DEF Tables, OneEach
<1> HIDE DEF peers, left, rows
<1>5. /\ DOMAIN r = DOMAIN Blank /\ r.stage = "next" /\ r.kind = "resync" /\ r.plan = l.plan
      /\ r.todo = l.todo \ {d} /\ r.device = d /\ r.seen = rows /\ r.peers = peers
      /\ r.left = left /\ r.clear = {} /\ r.made = l.made
  BY <1>2 DEF CallForm, Blank
<1> HIDE DEF r
<1>6. CallForm(r)
  <2>1. ResyncForm(l) /\ l.made \in Nat
    BY <1>2 DEF CallForm
  <2>2. \A q \in peers : q \in Row /\ q.device = d
    BY <1>4 DEF RowForm
  <2>3. ResyncForm(r)
    BY <1>4, <1>5, <2>1, <2>2 DEF ResyncForm
  <2> QED
    BY <1>5, <2>1, <2>3, SeenByResync DEF CallForm, Stage
<1>7. Resyncs(r, raced)
  <2>1. \A p \in peers, q \in rows : SamePair(q, p) => SameOrRaced(q, p, raced)
    BY <1>4 DEF OnePerServer, SameOrRaced
  <2> QED
    BY <1>4, <1>5, <2>1 DEF Resyncs
<1>8. Fine(Proceed(r), raced) /\ Proceed(r).made = l.made
  BY <1>5, <1>6, <1>7, MovesOn
<1> QED
  BY <1>2, <1>3, <1>8, SetTo, QuietWhen DEF Reads

(* A resynchronisation that has turned to the next server: l is the request     *)
(* before it has read the address.                                          *)
Turned(l) ==
    /\ l.kind = "resync" /\ l.stage = "server"
    /\ CallForm(l)
    /\ Resyncs(l, raced)
    /\ l.device \in Device
    /\ l.server \in Server
    /\ l.route \in Route
    /\ l.server \notin l.left
    /\ \A p \in l.peers : p.server # l.server
    /\ IF l.old = None
       THEN \A q \in l.seen : ~SamePair(q, l)
       ELSE /\ l.old \in Row
            /\ SamePair(l.old, l)
            /\ \A q \in l.seen : SamePair(q, l.old) => SameOrRaced(q, l.old, raced)

LEMMA Recomputed ==
    ASSUME Tables, Calls, NEW c \in Call, NEW l, Turned(l), Recompute(c, l)
    PROVE  Others(c) /\ Fine(call'[c], raced) /\ call'[c].made = l.made
<1>1. /\ l.kind = "resync" /\ l.stage = "server" /\ CallForm(l) /\ Resyncs(l, raced)
      /\ l.clear = {}
  BY DEF Turned, CallForm
<1>2. \A m \in {Proceed(l), Fail(l)} : Fine(m, raced) /\ m.made = l.made
  BY <1>1, MovesOn
<1>3. CASE Set(c, Proceed(l)) \/ Set(c, Fail(l))
  BY <1>2, <1>3, SetTo
<1>4. ASSUME NEW ip \in Reach(l.server, l.device),
             Set(c, [l EXCEPT !.stage = "write", !.ip = ip, !.addrs = {ip},
                              !.iface = iface[l.server],
                              !.seen = @ \cup {q \in row : q.server = l.server /\ q.device # l.device}])
      PROVE  Others(c) /\ Fine(call'[c], raced) /\ call'[c].made = l.made
  <2> DEFINE others == {q \in row : q.server = l.server /\ q.device # l.device}
             m == [l EXCEPT !.stage = "write", !.ip = ip, !.addrs = {ip},
                            !.iface = iface[l.server], !.seen = @ \cup others]
  <2>1. Others(c) /\ call'[c] = m
    BY <1>4, SetTo
  <2>2. \A q \in others : RowForm(q) /\ q.device # l.device
    BY DEF Tables
  <2> HIDE DEF others
  <2>3. /\ DOMAIN m = DOMAIN Blank /\ m.stage = "write" /\ m.ip = ip /\ m.addrs = {ip}
        /\ m.iface = iface[l.server] /\ m.seen = l.seen \cup others /\ m.kind = "resync"
        /\ m.server = l.server /\ m.device = l.device /\ m.route = l.route /\ m.old = l.old
        /\ m.clear = {} /\ m.todo = l.todo /\ m.peers = l.peers /\ m.left = l.left
        /\ m.plan = l.plan /\ m.made = l.made
    BY <1>1 DEF CallForm, Blank
  <2> HIDE DEF m
  <2>4. ip \in Addr /\ iface[l.server] \in Iface /\ ip \in iface[l.server].net
    BY DEF Tables, Reach, Turned
  <2>5. ResyncForm(l) /\ l.made \in Nat
    BY <1>1 DEF CallForm
  <2>6. ResyncForm(m)
    BY <2>2, <2>3, <2>5 DEF ResyncForm
  <2>7. WriteForm(m)
    BY <2>2, <2>3, <2>4, <2>5 DEF WriteForm, ResyncForm, Turned
  <2>8. CallForm(m)
    BY <2>3, <2>5, <2>6, <2>7, SeenByResync DEF CallForm, Stage
  <2>9. FreeForSeen(m, raced)
    BY <2>2, <2>3 DEF FreeForSeen, Turned, SamePair
  <2>10. Knows(m, raced)
    BY <2>3, <2>9 DEF Knows
  <2>11. Resyncs(m, raced)
    <3>1. \A p \in l.peers : p.device = l.device
      BY <2>5 DEF ResyncForm
    <3> QED
      BY <1>1, <2>2, <2>3, <3>1 DEF Resyncs, Turned, SamePair
  <2> QED
    BY <2>1, <2>3, <2>8, <2>10, <2>11 DEF Fine
<1> QED
  BY <1>3, <1>4 DEF Recompute

LEMMA ResyncRowReads ==
    ASSUME Tables, Calls, Knowing, NEW c \in Call, NEW q \in call[c].peers, ResyncRow(c, q)
    PROVE  Reads(c)
<1> DEFINE k == call[c]
           l == [k EXCEPT !.peers = @ \ {q}, !.server = q.server, !.old = q,
                          !.route = k.plan[q.server]]
<1>1. /\ k.kind = "resync" /\ k.stage = "server" /\ CallForm(k) /\ Resyncs(k, raced)
      /\ UNCHANGED <<table, session, history>>
  BY DEF ResyncRow, Calls, Knowing
<1>2. IF l.route = None THEN Set(c, [l EXCEPT !.stage = "delete"]) ELSE Recompute(c, l)
  BY DEF ResyncRow
<1>3. /\ DOMAIN l = DOMAIN Blank /\ l.stage = "server" /\ l.kind = "resync"
      /\ l.peers = k.peers \ {q} /\ l.server = q.server /\ l.old = q
      /\ l.route = k.plan[q.server] /\ l.device = k.device /\ l.seen = k.seen
      /\ l.clear = {} /\ l.todo = k.todo /\ l.left = k.left /\ l.plan = k.plan /\ l.made = k.made
  BY <1>1 DEF CallForm, Blank
<1> HIDE DEF l
<1>4. ResyncForm(k) /\ k.made \in Nat
  BY <1>1 DEF CallForm
<1>5. q \in Row /\ q.device = k.device /\ q.server \in Server /\ q.device \in Device /\ q # None
  BY <1>4, NoneAssumption DEF ResyncForm, Row
<1>6. ResyncForm(l)
  BY <1>3, <1>4, <1>5 DEF ResyncForm
<1>7. CallForm(l)
  BY <1>3, <1>4, <1>6, SeenByResync DEF CallForm, Stage
<1>8. /\ Resyncs(l, raced) /\ l.server \notin l.left
      /\ \A p \in l.peers : p.server # l.server
      /\ \A r \in l.seen : SamePair(r, q) => SameOrRaced(r, q, raced)
  BY <1>1, <1>3 DEF Resyncs
<1>9. CASE l.route = None
  <2> DEFINE m == [l EXCEPT !.stage = "delete"]
  <2>1. Others(c) /\ call'[c] = m
    BY <1>2, <1>9, SetTo
  <2>2. /\ DOMAIN m = DOMAIN Blank /\ m.stage = "delete" /\ m.kind = "resync"
        /\ m.peers = l.peers /\ m.server = l.server /\ m.old = q
        /\ m.device = l.device /\ m.seen = l.seen
        /\ m.clear = {} /\ m.todo = l.todo /\ m.left = l.left /\ m.plan = l.plan
        /\ m.made = l.made
    BY <1>3 DEF Blank
  <2> HIDE DEF m
  <2>3. ResyncForm(m)
    BY <1>6, <2>2 DEF ResyncForm
  <2>4. CallForm(m)
    BY <1>3, <1>4, <1>5, <2>2, <2>3, SeenByResync DEF CallForm, Stage
  <2>5. Knows(m, raced) /\ Resyncs(m, raced)
    BY <1>3, <1>8, <2>2 DEF Knows, Resyncs
  <2> QED
    BY <1>1, <1>3, <2>1, <2>2, <2>4, <2>5, QuietWhen DEF Reads, Fine
<1>10. CASE l.route # None
  <2>1. l.route \in Route
    BY <1>3, <1>4, <1>5, <1>10 DEF ResyncForm
  <2>2. Turned(l)
    BY <1>3, <1>5, <1>7, <1>8, <2>1 DEF Turned, SamePair
  <2>3. Recompute(c, l)
    BY <1>2, <1>10
  <2> QED
    BY <1>1, <1>3, <2>2, <2>3, Recomputed, QuietWhen DEF Reads
<1> QED
  BY <1>9, <1>10

LEMMA ResyncMissingReads ==
    ASSUME Tables, Calls, Knowing, NEW c \in Call, NEW s \in call[c].left, ResyncMissing(c, s)
    PROVE  Reads(c)
<1> DEFINE k == call[c]
           l == [k EXCEPT !.left = @ \ {s}, !.server = s, !.old = None, !.route = k.plan[s]]
<1>1. /\ k.kind = "resync" /\ k.stage = "server" /\ CallForm(k) /\ Resyncs(k, raced)
      /\ k.peers = {} /\ UNCHANGED <<table, session, history>>
  BY DEF ResyncMissing, Calls, Knowing
<1>2. Recompute(c, l)
  BY DEF ResyncMissing
<1>3. /\ DOMAIN l = DOMAIN Blank /\ l.stage = "server" /\ l.kind = "resync"
      /\ l.peers = {} /\ l.server = s /\ l.old = None
      /\ l.route = k.plan[s] /\ l.device = k.device /\ l.seen = k.seen
      /\ l.clear = {} /\ l.todo = k.todo /\ l.left = k.left \ {s} /\ l.plan = k.plan
      /\ l.made = k.made
  BY <1>1 DEF CallForm, Blank
<1> HIDE DEF l
<1>4. ResyncForm(k) /\ k.made \in Nat
  BY <1>1 DEF CallForm
<1>5. s \in Server /\ k.device \in Device
  BY <1>4 DEF ResyncForm
<1>6. ResyncForm(l)
  BY <1>3, <1>4, <1>5 DEF ResyncForm
<1>7. CallForm(l)
  BY <1>3, <1>4, <1>6, SeenByResync DEF CallForm, Stage
<1>8. Resyncs(l, raced) /\ l.route # None /\ \A q \in l.seen : ~SamePair(q, l)
  BY <1>1, <1>3 DEF Resyncs, SamePair
<1>9. l.route \in Route
  BY <1>3, <1>4, <1>5, <1>8 DEF ResyncForm
<1>10. Turned(l)
  BY <1>3, <1>5, <1>7, <1>8, <1>9 DEF Turned
<1> QED
  BY <1>1, <1>2, <1>3, <1>10, Recomputed, QuietWhen DEF Reads

-----------------------------------------------------------------------------
(* What a step keeps of the tables, of the numbers of rows and of sessions.     *)

(* Without a new row, template or interface nothing becomes wrong.             *)
LEMMA NothingNew ==
    ASSUME Sound, row' \subseteq row, template' \subseteq template, server' \subseteq server,
           device' \subseteq Device, addr' \in [Device -> SUBSET Addr],
           \A q \in row' : q.server \in server' /\ q.device \in device',
           \A t \in template' : t.server \in server',
           UNCHANGED <<iface, raced, unchecked>>
    PROVE  Sound'
<1>1. Tables'
  BY DEF Sound, Tables
<1>2. OnePerServer'
  BY DEF Sound, OnePerServer
<1>3. SoundUnlessRaced'
  BY DEF Sound, SoundUnlessRaced
<1> QED
  BY <1>1, <1>2, <1>3 DEF Sound

LEMMA IdParts ==
    ASSUME Tables, NEW q \in row, q.id[1] \in Call
    PROVE  q.id[2] \in Nat
BY NoneAssumption DEF Tables, RowForm, Row, Id

LEMMA NumbersKept ==
    ASSUME Tables, Numbered, Calls, NEW c \in Call, Others(c), row' \subseteq row,
           call'[c].made = call[c].made
    PROVE  Numbered'
<1>1. \A b \in Call : call'[b].made = call[b].made
  BY DEF Others
<1> QED
  BY <1>1 DEF Numbered

LEMMA ToldStep ==
    ASSUME SessionFollowsAdjacencies, NEW c \in Call, Others(c),
           \A d \in Device : session'[d] = "outdated" /\ excuse'[d] = "no" =>
              \/ ToldBy(call'[c], d)
              \/ /\ session[d] = "outdated" /\ excuse[d] = "no"
                 /\ ToldBy(call[c], d) => ToldBy(call'[c], d)
    PROVE  SessionFollowsAdjacencies'
<1> SUFFICES ASSUME NEW d \in Device, session'[d] = "outdated", excuse'[d] = "no"
             PROVE  \E b \in Call : ToldBy(call'[b], d)
  BY DEF SessionFollowsAdjacencies, ToldBy
<1>1. CASE ToldBy(call'[c], d)
  BY <1>1
<1>2. CASE ~ToldBy(call'[c], d)
  <2>1. session[d] = "outdated" /\ excuse[d] = "no" /\ ~ToldBy(call[c], d)
    BY <1>2
  <2>2. PICK b \in Call : ToldBy(call[b], d)
    BY <2>1 DEF SessionFollowsAdjacencies, ToldBy
  <2>3. b # c
    BY <2>1, <2>2
  <2> QED
    BY <2>2, <2>3 DEF Others
<1> QED
  BY <1>1, <1>2

(* Configurations that change make sessions outdated; a new reason to be so     *)
(* without excuse is in D only.                                             *)
LEMMA Affecting ==
    ASSUME Sessions, NEW D, NEW E, NEW cause \in Cause, cause # "no" \/ E = {},
           Affect(D, E, cause)
    PROVE  /\ session' \in [Device -> Session]
           /\ excuse' \in [Device -> Cause]
           /\ \A d \in Device : session'[d] = "outdated" /\ excuse'[d] = "no" =>
                 d \notin E /\ (d \in D \/ (session[d] = "outdated" /\ excuse[d] = "no"))
BY DEF Affect, Session, Cause, Sessions

LEMMA Disturbing ==
    ASSUME Sessions, NEW c \in Call, Disturb(Call \ {c})
    PROVE  disturbed' \subseteq Call
BY DEF Disturb, Sessions

(* A statement that only reads.                                                *)
LEMMA ReadsKeep ==
    ASSUME IInv, NEW c \in Call, Reads(c)
    PROVE  IInv'
<1>1. Sound'
  BY NothingNew DEF IInv, Sound, Tables, Reads, table, history
<1>2. Numbered'
  BY NumbersKept DEF IInv, Sound, Reads, table
<1>3. Calls' /\ Knowing'
  BY CallsStep DEF IInv, Reads, history
<1>4. SessionFollowsAdjacencies'
  BY ToldStep DEF IInv, Reads, Quiet, history
<1>5. Sessions'
  BY DEF IInv, Sessions, Reads, history
<1> QED
  BY <1>1, <1>2, <1>3, <1>4, <1>5 DEF IInv

-----------------------------------------------------------------------------
(* A row is written.                                                          *)

(* What the request has not seen of the rows it was checked against is raced,    *)
(* and so is the new one.                                                    *)
Surprise(l, kept, id, over) ==
    /\ \A r \in kept : r.server = l.server \/ r.device = l.device =>
          r \in l.seen \/ {r.id, id} \subseteq over
    /\ iface[l.server] # l.iface => id \in over

LEMMA Overtaking ==
    ASSUME NEW l, NEW k, NEW id, NEW kept, kept \subseteq row,
           k.server = l.server, k.device = l.device, k.iface = l.iface,
           \A r \in kept : r \in k.seen => r \in l.seen
    PROVE  /\ Surprise(l, kept, id, Overtaken(k, id))
           /\ Overtaken(k, id) \subseteq Ids(row) \cup {id}
<1> DEFINE new == Near(k.server, k.device) \ k.seen
<1>1. Overtaken(k, id) = IF new # {} \/ iface[k.server] # k.iface THEN Ids(new) \cup {id} ELSE {}
  BY DEF Overtaken
<1>2. new \subseteq row
  BY DEF Near
<1>3. \A r \in kept : r.server = l.server \/ r.device = l.device => r \in l.seen \/ r \in new
  BY DEF Near
<1>4. \A r \in new : r.id \in Ids(new)
  BY DEF Ids
<1>5. Ids(new) \subseteq Ids(row)
  BY <1>2 DEF Ids
<1> HIDE DEF new
<1> QED
  BY <1>1, <1>3, <1>4, <1>5 DEF Surprise

LEMMA RowWritten ==
    ASSUME Sound, NEW l, WriteForm(l), FreeForSeen(l, raced), l.kind # "resync" => ClearOfSeen(l),
           NEW id \in Id, NEW kept, kept \subseteq row, \A r \in kept : r.id # id,
           l.old # None => l.old.id = id,
           NEW new, RowForm(new), new.id = id, new.server = l.server, new.device = l.device,
           new.route = l.route, new.ip \in {l.ip, None},
           l.server \in server, l.device \in device,
           NEW over, Surprise(l, kept, id, over), over \subseteq Ids(row) \cup {id},
           row' = kept \cup {new},
           raced' = raced \cup over,
           unchecked' = unchecked \cup Unchecked(l, id),
           UNCHANGED <<server, device, addr, iface, template>>
    PROVE  Sound'
<1>1. raced \subseteq raced' /\ unchecked \subseteq unchecked'
  OBVIOUS
<1>2. \A r \in kept : SamePair(r, new) => {r.id, id} \subseteq raced'
  <2> SUFFICES ASSUME NEW r \in kept, SamePair(r, new)
               PROVE  {r.id, id} \subseteq raced'
    OBVIOUS
  <2>1. r.server = l.server /\ r.device = l.device
    BY DEF SamePair
  <2>2. CASE r \in l.seen
    <3>1. l.old # None /\ SamePair(r, l.old)
      BY <2>1, <2>2 DEF FreeForSeen, SamePair
    <3>2. SameOrRaced(r, l.old, raced)
      BY <2>2, <3>1 DEF FreeForSeen
    <3> QED
      BY <1>1, <3>1, <3>2 DEF SameOrRaced
  <2>3. CASE r \notin l.seen
    BY <2>1, <2>3 DEF Surprise
  <2> QED
    BY <2>2, <2>3
<1>3. id \notin raced' => new.ip \in iface[new.server].net \cup {None}
  BY DEF Surprise, WriteForm
<1>4. ASSUME NEW r \in kept, {r.id, id} \cap (raced' \cup unchecked') = {}
      PROVE  /\ r.device = new.device => r.route # new.route
             /\ r.server = new.server => r.ip = None \/ new.ip = None \/ r.ip # new.ip
  <2>1. r.server = l.server \/ r.device = l.device => r \in l.seen
    BY <1>4 DEF Surprise
  <2>2. r.id # id /\ r \in row /\ l.ip # None
    BY NoneAssumption DEF WriteForm
  <2>3. RowForm(r)
    BY <2>2 DEF Sound, Tables
  <2>4. r.server = l.server \/ r.device = l.device => ~SameRoute(l, r) /\ ~SameAddress(l, r)
    <3>1. CASE l.kind = "resync"
      <4>1. id \notin Unchecked(l, id)
        BY <1>4
      <4> QED
        BY <2>2, <3>1, <4>1 DEF Unchecked
    <3>2. CASE l.kind # "resync"
      <4> SUFFICES ASSUME r.server = l.server \/ r.device = l.device
                   PROVE  ~SameRoute(l, r) /\ ~SameAddress(l, r)
        OBVIOUS
      <4>1. ~Clash(l, r)
        BY <2>1, <3>2 DEF ClearOfSeen
      <4>2. ~Mine(l, r)
        <5> SUFFICES ASSUME l.old # None, SamePair(r, l.old) PROVE FALSE
          BY DEF Mine
        <5>1. SameOrRaced(r, l.old, raced)
          BY <2>1 DEF FreeForSeen
        <5> QED
          BY <1>1, <1>4, <2>2, <5>1 DEF SameOrRaced
      <4> QED
        BY <4>1, <4>2 DEF Clash
    <3> QED
      BY <3>1, <3>2
  <2> QED
    BY <2>3, <2>4 DEF SameRoute, SameAddress, RowForm
<1>5. Tables'
  <2>1. \A q \in row' : RowForm(q) /\ q.server \in server' /\ q.device \in device'
    BY DEF Sound, Tables
  <2>2. \A q, r \in row' : q.id = r.id => q = r
    BY DEF Sound, Tables
  <2>3. Ids(row) \subseteq Id
    BY DEF Sound, Tables, Ids, RowForm, Row
  <2>4. Unchecked(l, id) \subseteq {id}
    BY DEF Unchecked
  <2>5. raced' \cup unchecked' \subseteq Id \cup ((Call \cup {None}) \X Server)
    BY <2>3, <2>4 DEF Sound, Tables
  <2> QED
    BY <2>1, <2>2, <2>5 DEF Sound, Tables
<1>6. OnePerServer'
  <2>1. \A q, r \in row' : SamePair(q, r) => q = r \/ {q.id, r.id} \subseteq raced'
    BY <1>1, <1>2 DEF Sound, OnePerServer, SamePair
  <2>2. \A t, u \in template' : t.server = u.server => t = u \/ {t.id, u.id} \subseteq raced'
    BY <1>1 DEF Sound, OnePerServer
  <2> QED
    BY <2>1, <2>2 DEF OnePerServer
<1>7. SoundUnlessRaced'
  <2>1. \A q \in row' : q.id \notin raced' => q.ip \in iface'[q.server].net \cup {None}
    BY <1>1, <1>3 DEF Sound, SoundUnlessRaced
  <2>2. ASSUME NEW q \in row', NEW r \in row' \ {q}, {q.id, r.id} \cap (raced' \cup unchecked') = {}
        PROVE  /\ q.device = r.device => q.route # r.route
               /\ q.server = r.server => q.ip = None \/ q.ip # r.ip
    <3>1. CASE q \in kept /\ r \in kept
      <4>1. q \in row /\ r \in row \ {q} /\ {q.id, r.id} \cap (raced \cup unchecked) = {}
        BY <1>1, <2>2, <3>1
      <4> QED
        BY <4>1 DEF Sound, SoundUnlessRaced
    <3>2. CASE q = new /\ r \in kept
      BY <1>4, <2>2, <3>2
    <3>3. CASE q \in kept /\ r = new
      BY <1>4, <2>2, <3>3
    <3> QED
      BY <2>2, <3>1, <3>2, <3>3
  <2> QED
    BY <2>1, <2>2 DEF SoundUnlessRaced
<1> QED
  BY <1>5, <1>6, <1>7 DEF Sound

(* The request has seen the row that it has written. *)
LEMMA Written ==
    ASSUME NEW l, NEW R, Fine(l, R), l.stage = "write", NEW Q, R \subseteq Q,
           NEW new, RowForm(new), new.server = l.server, new.device = l.device,
           NEW m, DOMAIN m = DOMAIN Blank, m.stage = "invalidate", m.kind = l.kind,
           m.server = l.server, m.device = l.device, m.old = l.old, m.addrs = l.addrs,
           m.todo = l.todo, m.peers = l.peers, m.left = l.left, m.plan = l.plan,
           m.seen = l.seen \cup {new}, m.clear \subseteq Device, m.made \in Nat
    PROVE  Fine(m, Q)
<1>1. CallForm(l) /\ Resyncs(l, R) /\ WriteForm(l)
  BY DEF Fine, CallForm
<1>2. l.kind = "createDevice" => CreationForm(m)
  BY <1>1 DEF CallForm, CreationForm
<1>3. l.kind = "resync" => ResyncForm(m)
  BY <1>1 DEF CallForm, ResyncForm
<1>4. CallForm(m)
  BY <1>1, <1>2, <1>3 DEF CallForm, WriteForm, RowForm, Stage
<1>5. \A q, r : SameOrRaced(q, r, R) => SameOrRaced(q, r, Q)
  BY DEF SameOrRaced
<1>6. Resyncs(m, Q)
  <2> SUFFICES ASSUME l.kind = "resync" PROVE Resyncs(m, Q)
    BY DEF Resyncs
  <2>1. l.server \notin l.left /\ \A p \in l.peers : p.server # l.server
    BY <1>1 DEF Resyncs
  <2>2. \A p \in m.peers, q \in m.seen : SamePair(q, p) => SameOrRaced(q, p, Q)
    BY <1>1, <1>5, <2>1 DEF Resyncs, SamePair
  <2> QED
    BY <1>1, <2>1, <2>2 DEF Resyncs
<1>7. Knows(m, Q)
  BY DEF Knows
<1> QED
  BY <1>4, <1>6, <1>7 DEF Fine

LEMMA InsertRowKeeps ==
    ASSUME IInv, NEW c \in Call, InsertRow(c)
    PROVE  IInv'
<1> DEFINE l == call[c]
           id == <<c, l.made>>
           new == [id |-> id, server |-> l.server, device |-> l.device,
                   addrs |-> l.addrs \cup {l.ip}, route |-> l.route, ip |-> l.ip]
           m == [l EXCEPT !.stage = "invalidate", !.clear = {l.device}, !.seen = @ \cup {new},
                          !.made = @ + 1]
<1>1. /\ l.kind # "update" /\ l.stage = "write" /\ l.old = None
      /\ l.server \in server /\ l.device \in device
      /\ row' = row \cup {new}
      /\ raced' = raced \cup Overtaken(l, id)
      /\ unchecked' = unchecked \cup Unchecked(l, id)
      /\ Affect({l.device}, {}, "no")
      /\ Set(c, m)
      /\ Disturb(Call \ {c})
      /\ UNCHANGED <<server, device, addr, iface, template>>
  BY DEF InsertRow
<1>2. Sound /\ Tables /\ Sessions /\ Numbered /\ Calls /\ Knowing /\ SessionFollowsAdjacencies
  BY DEF IInv, Sound
<1>3. Fine(l, raced) /\ CallForm(l) /\ l.made \in Nat /\ WriteForm(l)
  BY <1>1, <1>2 DEF Calls, Knowing, Fine, CallForm
<1>4. FreeForSeen(l, raced) /\ (l.kind # "resync" => ClearOfSeen(l))
  BY <1>1, <1>3 DEF Fine, Knows
<1>5. /\ DOMAIN m = DOMAIN Blank /\ m.stage = "invalidate" /\ m.kind = l.kind
      /\ m.server = l.server /\ m.device = l.device /\ m.old = l.old /\ m.addrs = l.addrs
      /\ m.todo = l.todo /\ m.peers = l.peers /\ m.left = l.left /\ m.plan = l.plan
      /\ m.seen = l.seen \cup {new} /\ m.clear = {l.device} /\ m.made = l.made + 1
  BY <1>3 DEF CallForm, Blank
<1>6. id \in Id /\ id[1] = c /\ id[2] = l.made
  BY <1>3 DEF Id
<1>7. /\ RowForm(new) /\ new.id = id /\ new.server = l.server /\ new.device = l.device
      /\ new.route = l.route /\ new.ip = l.ip
  BY <1>3, <1>6 DEF RowForm, Row, WriteForm
<1>8. \A r \in row : r.id # id
  <2> SUFFICES ASSUME NEW r \in row, r.id = id PROVE FALSE
    OBVIOUS
  <2>1. l.made < call[c].made
    BY <1>2, <1>6 DEF Numbered
  <2> QED
    BY <1>3, <2>1
<1>9. Others(c) /\ call'[c] = m
  BY <1>1, <1>2, SetTo
<1> HIDE DEF l, id, new, m
<1>10. /\ Surprise(l, row, id, Overtaken(l, id))
       /\ Overtaken(l, id) \subseteq Ids(row) \cup {id}
  <2>1. row \subseteq row /\ \A r \in row : r \in l.seen => r \in l.seen
    OBVIOUS
  <2> QED
    BY <2>1, Overtaking
<1>11. Sound'
  BY <1>1, <1>2, <1>3, <1>4, <1>6, <1>7, <1>8, <1>10, RowWritten
<1>12. Fine(m, raced')
  <2>1. m.clear \subseteq Device /\ m.made \in Nat
    BY <1>3, <1>5 DEF WriteForm
  <2>2. raced \subseteq raced'
    BY <1>1
  <2> QED
    BY <1>1, <1>3, <1>5, <1>7, <2>1, <2>2, Written
<1>13. Calls' /\ Knowing'
  BY <1>1, <1>2, <1>9, <1>12, CallsStep
<1>14. Numbered'
  <2> SUFFICES ASSUME NEW q \in row', q.id[1] \in Call
               PROVE  q.id[2] < call'[q.id[1]].made
    BY DEF Numbered
  <2>1. CASE q = new
    BY <1>3, <1>5, <1>6, <1>7, <1>9, <2>1
  <2>2. CASE q \in row
    <3>1. q.id[2] < call[q.id[1]].made /\ q.id[2] \in Nat
      BY <1>2, <2>2, IdParts DEF Numbered
    <3>2. CASE q.id[1] = c
      BY <1>3, <1>5, <1>9, <3>1, <3>2 DEF l
    <3>3. CASE q.id[1] # c
      BY <1>9, <3>1, <3>3 DEF Others
    <3> QED
      BY <3>2, <3>3
  <2> QED
    BY <1>1, <2>1, <2>2
<1>15. /\ session' \in [Device -> Session] /\ excuse' \in [Device -> Cause]
       /\ \A d \in Device : session'[d] = "outdated" /\ excuse'[d] = "no" =>
             d \in {l.device} \/ (session[d] = "outdated" /\ excuse[d] = "no")
  BY <1>1, <1>2, Affecting DEF Cause
<1>16. Sessions'
  BY <1>1, <1>2, <1>15, Disturbing DEF Sessions
<1>17. SessionFollowsAdjacencies'
  <2>1. Quiet(l) \/ l.clear # {}
    BY <1>1, <1>3, QuietWhen
  <2>2. ~\E d : ToldBy(l, d)
    BY <1>1, <1>3, <2>1, QuietWhen DEF Quiet
  <2>3. ToldBy(call'[c], l.device)
    BY <1>5, <1>9 DEF ToldBy
  <2> QED
    BY <1>2, <1>9, <1>15, <2>2, <2>3, ToldStep DEF l
<1> QED
  BY <1>11, <1>13, <1>14, <1>16, <1>17 DEF IInv

LEMMA UpdateRowKeeps ==
    ASSUME IInv, NEW c \in Call, UpdateRow(c)
    PROVE  IInv'
<1> DEFINE l == call[c]
           New(q) == [id |-> q.id, server |-> l.server, device |-> l.device, addrs |-> Kept(l, q),
                      route |-> l.route, ip |-> IF l.ip \in Kept(l, q) THEN l.ip ELSE None]
<1>1. PICK q \in row :
        /\ l.old # None
        /\ q.id = l.old.id
        /\ row' = (row \ {q}) \cup {New(q)}
        /\ raced' = raced \cup Overtaken([l EXCEPT !.seen = @ \cup {q}], q.id)
        /\ unchecked' = unchecked \cup Unchecked(l, q.id)
        /\ Affect(Concerned(q, New(q)), Concerned(q, New(q)) \ Concerned(l.old, New(q)), "overlap")
        /\ Set(c, [l EXCEPT !.stage = "invalidate", !.clear = Concerned(l.old, New(q)),
                            !.seen = @ \cup {New(q)}])
  BY DEF UpdateRow
<1>2. /\ l.stage = "write" /\ l.server \in server /\ l.device \in device
      /\ Disturb(Call \ {c})
      /\ UNCHANGED <<server, device, addr, iface, template>>
  BY DEF UpdateRow
<1>3. Sound /\ Tables /\ Sessions /\ Numbered /\ Calls /\ Knowing /\ SessionFollowsAdjacencies
  BY DEF IInv, Sound
<1>4. Fine(l, raced) /\ CallForm(l) /\ l.made \in Nat /\ WriteForm(l)
  BY <1>2, <1>3 DEF Calls, Knowing, Fine, CallForm
<1>5. FreeForSeen(l, raced) /\ (l.kind # "resync" => ClearOfSeen(l))
  BY <1>2, <1>4 DEF Fine, Knows
<1> DEFINE new == New(q)
           k == [l EXCEPT !.seen = @ \cup {q}]
           m == [l EXCEPT !.stage = "invalidate", !.clear = Concerned(l.old, new),
                          !.seen = @ \cup {new}]
<1>6. /\ DOMAIN m = DOMAIN Blank /\ m.stage = "invalidate" /\ m.kind = l.kind
      /\ m.server = l.server /\ m.device = l.device /\ m.old = l.old /\ m.addrs = l.addrs
      /\ m.todo = l.todo /\ m.peers = l.peers /\ m.left = l.left /\ m.plan = l.plan
      /\ m.seen = l.seen \cup {new} /\ m.clear = Concerned(l.old, new) /\ m.made = l.made
  BY <1>4 DEF CallForm, Blank
<1>7. RowForm(q) /\ q.id \in Id /\ q.id = l.old.id
  BY <1>1, <1>3 DEF Tables, RowForm, Row
<1>8. /\ RowForm(new) /\ new.id = q.id /\ new.server = l.server /\ new.device = l.device
      /\ new.route = l.route /\ new.ip \in {l.ip, None}
  <2>1. Kept(l, q) \subseteq Addr
    BY <1>4, <1>7 DEF Kept, RowForm, Row, WriteForm
  <2> QED
    BY <1>4, <1>7, <2>1 DEF RowForm, Row, WriteForm
<1>9. \A r \in row \ {q} : r.id # q.id
  BY <1>3 DEF Tables
<1>10. Others(c) /\ call'[c] = m
  BY <1>1, <1>3, SetTo
<1>11. k.server = l.server /\ k.device = l.device /\ k.iface = l.iface /\ k.seen = l.seen \cup {q}
  BY <1>4 DEF CallForm, Blank
<1>12. /\ row' = (row \ {q}) \cup {new}
       /\ raced' = raced \cup Overtaken(k, q.id)
       /\ Affect(Concerned(q, new), Concerned(q, new) \ m.clear, "overlap")
  BY <1>1, <1>6
<1>13. Concerned(l.old, new) \subseteq Device
  BY <1>1, <1>4, <1>8 DEF Concerned, WriteForm, Row
<1> HIDE DEF l, k, m, new, New
<1>14. /\ Surprise(l, row \ {q}, q.id, Overtaken(k, q.id))
       /\ Overtaken(k, q.id) \subseteq Ids(row) \cup {q.id}
  <2>1. row \ {q} \subseteq row /\ \A r \in row \ {q} : r \in k.seen => r \in l.seen
    BY <1>11
  <2> QED
    BY <1>11, <2>1, Overtaking
<1>15. Sound'
  <2> DEFINE kept == row \ {q}
  <2>1. kept \subseteq row /\ \A r \in kept : r.id # q.id
    BY <1>9
  <2>2. row' = kept \cup {new} /\ Surprise(l, kept, q.id, Overtaken(k, q.id))
    BY <1>12, <1>14
  <2> HIDE DEF kept
  <2> QED
    BY <1>1, <1>2, <1>3, <1>4, <1>5, <1>7, <1>8, <1>12, <1>14, <2>1, <2>2, RowWritten
<1>16. Fine(m, raced')
  <2>1. m.clear \subseteq Device /\ m.made \in Nat /\ raced \subseteq raced'
    BY <1>4, <1>6, <1>12, <1>13
  <2> QED
    BY <1>2, <1>4, <1>6, <1>8, <2>1, Written
<1>17. Calls' /\ Knowing'
  BY <1>3, <1>10, <1>12, <1>16, CallsStep
<1>18. Numbered'
  <2>1. \A b \in Call : call'[b].made = call[b].made
    BY <1>6, <1>10 DEF Others, l
  <2> QED
    BY <1>3, <1>8, <1>12, <2>1 DEF Numbered
<1>19. /\ session' \in [Device -> Session] /\ excuse' \in [Device -> Cause]
       /\ \A d \in Device : session'[d] = "outdated" /\ excuse'[d] = "no" =>
             \/ d \in m.clear
             \/ session[d] = "outdated" /\ excuse[d] = "no"
  <2> DEFINE D == Concerned(q, new)
  <2>1. Affect(D, D \ m.clear, "overlap") /\ "overlap" \in Cause /\ "overlap" # "no"
    BY <1>12 DEF Cause
  <2> HIDE DEF D
  <2> QED
    BY <1>3, <2>1, Affecting
<1>20. Sessions'
  BY <1>2, <1>3, <1>19, Disturbing DEF Sessions
<1>21. SessionFollowsAdjacencies'
  <2>1. ~\E d : ToldBy(l, d)
    BY <1>2, <1>4, QuietWhen DEF Quiet
  <2>2. \A d \in m.clear : ToldBy(call'[c], d)
    BY <1>10 DEF ToldBy
  <2> QED
    BY <1>3, <1>10, <1>19, <2>1, <2>2, ToldStep DEF l
<1> QED
  BY <1>15, <1>17, <1>18, <1>20, <1>21 DEF IInv

-----------------------------------------------------------------------------
(* Everything else that is written.                                           *)

LEMMA Together ==
    ASSUME IInv, NEW c \in Call, Others(c), Fine(call'[c], raced'),
           call'[c].made = call[c].made, raced \subseteq raced', row' \subseteq row,
           Sound', Sessions', SessionFollowsAdjacencies'
    PROVE  IInv'
<1>1. Calls' /\ Knowing'
  BY CallsStep DEF IInv
<1>2. Numbered'
  BY NumbersKept DEF IInv, Sound
<1> QED
  BY <1>1, <1>2 DEF IInv

(* The requests that are made in a single statement. *)
LEMMA RequestFine ==
    ASSUME NEW k, k \in {"deleteServer", "deleteTemplate"}, NEW s, NEW R
    PROVE  LET r == Request(k, "done", s, None) IN Fine(r, R) /\ r.made = 0
BY RequestFields DEF Fine, CallForm, Knows, Resyncs, Stage

LEMMA DeleteServerKeeps ==
    ASSUME IInv, NEW c \in Call, NEW s, DeleteServer(c, s)
    PROVE  IInv'
<1> DEFINE D == {q.device : q \in row \ row'}
<1>1. /\ s \in server /\ Begin(c, Request("deleteServer", "done", s, None))
      /\ server' = server \ {s}
      /\ row' = {q \in row : q.server # s}
      /\ template' = {t \in template : t.server # s}
      /\ Affect(D, D, "server") /\ Disturb(Call \ {c})
      /\ UNCHANGED <<device, addr, iface, raced, unchecked>>
  BY DEF DeleteServer
<1> HIDE DEF D
<1>2. Sound /\ Tables /\ Sessions /\ Calls /\ SessionFollowsAdjacencies
  BY DEF IInv, Sound
<1>3. Others(c) /\ call'[c] = Request("deleteServer", "done", s, None) /\ call[c] = Blank
  BY <1>1, <1>2, Begun
<1>4. Fine(call'[c], raced') /\ call'[c].made = call[c].made
  BY <1>3, RequestFine, BlankFields
<1>5. Sound'
  BY <1>1, <1>2, NothingNew DEF Tables
<1>6. /\ session' \in [Device -> Session] /\ excuse' \in [Device -> Cause]
      /\ \A d \in Device : session'[d] = "outdated" /\ excuse'[d] = "no" =>
            session[d] = "outdated" /\ excuse[d] = "no"
  <2>1. "server" \in Cause /\ "server" # "no"
    BY DEF Cause
  <2> QED
    BY <1>1, <1>2, <2>1, Affecting
<1>7. Sessions'
  BY <1>1, <1>2, <1>6, Disturbing DEF Sessions
<1>8. \A d : ~ToldBy(call[c], d)
  BY <1>3, BlankFields DEF ToldBy
<1>9. SessionFollowsAdjacencies'
  BY <1>2, <1>3, <1>6, <1>8, ToldStep
<1> QED
  BY <1>1, <1>3, <1>4, <1>5, <1>7, <1>9, Together

LEMMA DeleteTemplateKeeps ==
    ASSUME IInv, NEW c \in Call, NEW t, DeleteTemplate(c, t)
    PROVE  IInv'
<1>1. /\ Begin(c, Request("deleteTemplate", "done", t.server, None))
      /\ template' = template \ {t} /\ Disturb(Call \ {c})
      /\ UNCHANGED <<server, device, addr, iface, row, session, raced, unchecked, excuse>>
  BY DEF DeleteTemplate
<1>2. Sound /\ Tables /\ Sessions /\ Calls /\ SessionFollowsAdjacencies
  BY DEF IInv, Sound
<1>3. Others(c) /\ call'[c] = Request("deleteTemplate", "done", t.server, None) /\ call[c] = Blank
  BY <1>1, <1>2, Begun
<1>4. Fine(call'[c], raced') /\ call'[c].made = call[c].made
  BY <1>3, RequestFine, BlankFields
<1>5. Sound'
  BY <1>1, <1>2, NothingNew DEF Tables
<1>6. Sessions'
  BY <1>1, <1>2, Disturbing DEF Sessions
<1>7. \A d : ~ToldBy(call[c], d)
  BY <1>3, BlankFields DEF ToldBy
<1>8. SessionFollowsAdjacencies'
  BY <1>1, <1>2, <1>3, <1>7, ToldStep
<1> QED
  BY <1>1, <1>3, <1>4, <1>5, <1>6, <1>8, Together

LEMMA HomeOf ==
    ASSUME NEW d \in Device
    PROVE  Home[d] \in Addr
BY HomeAssumption DEF Injection

LEMMA CreateDeviceKeeps ==
    ASSUME IInv, NEW c \in Call, NEW d \in Device, CreateDevice(c, d, Home[d])
    PROVE  IInv'
<1> DEFINE r == Request("createDevice", "address", None, d)
           m == [r EXCEPT !.before = {Home[d]}]
<1>1. /\ Begin(c, m)
      /\ device' = device \cup {d} /\ Disturb(Call \ {c})
      /\ UNCHANGED <<server, addr, iface, row, template, session, raced, unchecked, excuse>>
  BY DEF CreateDevice
<1>2. Sound /\ Tables /\ Sessions /\ Calls /\ SessionFollowsAdjacencies
  BY DEF IInv, Sound
<1>3. Others(c) /\ call'[c] = m /\ call[c] = Blank
  BY <1>1, <1>2, Begun
<1>4. /\ DOMAIN m = DOMAIN Blank /\ m.kind = "createDevice" /\ m.stage = "address"
      /\ m.device = d /\ m.made = 0 /\ m.clear = {} /\ m.todo = {} /\ m.before = {Home[d]}
      /\ m.old = None /\ m.addrs = {} /\ m.seen = {}
  <2>1. /\ DOMAIN r = DOMAIN Blank /\ r.kind = "createDevice" /\ r.stage = "address"
        /\ r.device = d /\ r.made = 0 /\ r.clear = {} /\ r.todo = {}
        /\ r.old = None /\ r.addrs = {} /\ r.seen = {}
    BY RequestFields
  <2> HIDE DEF r
  <2> QED
    BY <2>1 DEF Blank
<1> HIDE DEF m
<1>5. CallForm(m)
  BY <1>4, HomeOf DEF CallForm, CreationForm, Stage
<1>6. Fine(call'[c], raced') /\ call'[c].made = call[c].made
  BY <1>3, <1>4, <1>5, BlankFields DEF Fine, Knows, Resyncs
<1>7. Sound'
  BY <1>1, <1>2, NothingNew DEF Tables
<1>8. Sessions'
  BY <1>1, <1>2, Disturbing DEF Sessions
<1>9. \A e : ~ToldBy(call[c], e)
  BY <1>3, BlankFields DEF ToldBy
<1>10. SessionFollowsAdjacencies'
  BY <1>1, <1>2, <1>3, <1>9, ToldStep
<1> QED
  BY <1>1, <1>3, <1>6, <1>7, <1>8, <1>10, Together

LEMMA InsertAddressKeeps ==
    ASSUME IInv, NEW c \in Call, InsertAddress(c)
    PROVE  IInv'
<1> DEFINE l == call[c]
           m == [l EXCEPT !.stage = "templates"]
<1>1. /\ l.stage = "address"
      /\ IF l.device \in device
         THEN addr' = [addr EXCEPT ![l.device] = @ \cup l.before] /\ Set(c, m)
         ELSE Set(c, Fail(l)) /\ UNCHANGED addr
      /\ UNCHANGED <<server, device, iface, row, template, session, history>>
  BY DEF InsertAddress
<1>2. Sound /\ Tables /\ Sessions /\ Calls /\ Knowing /\ SessionFollowsAdjacencies
  BY DEF IInv, Sound
<1>3. /\ CallForm(l) /\ Resyncs(l, raced) /\ l.clear = {} /\ l.kind = "createDevice"
      /\ DOMAIN l = DOMAIN Blank /\ l.before \subseteq Addr /\ l.made \in Nat /\ CreationForm(l)
      /\ l.seen \subseteq Row \cup Template
  BY <1>1, <1>2 DEF Calls, Knowing, CallForm
<1>4. /\ DOMAIN m = DOMAIN Blank /\ m.kind = "createDevice" /\ m.stage = "templates"
      /\ m.device = l.device /\ m.made = l.made /\ m.clear = {} /\ m.todo = l.todo
      /\ m.old = l.old /\ m.addrs = l.addrs /\ m.seen = l.seen
  BY <1>3 DEF Blank
<1>5. ~\E d : ToldBy(l, d)
  BY <1>1, <1>3, QuietWhen DEF Quiet
<1>6. addr' \in [Device -> SUBSET Addr]
  BY <1>1, <1>2, <1>3 DEF Tables
<1> HIDE DEF m
<1>7. Fine(m, raced)
  BY <1>3, <1>4 DEF Fine, CallForm, CreationForm, Knows, Resyncs, Stage
<1>8. Fine(Fail(l), raced) /\ Fail(l).made = l.made
  BY <1>3, MovesOn
<1>9. Others(c) /\ call'[c] \in {m, Fail(l)}
  BY <1>1, <1>2, SetTo
<1>10. Fine(call'[c], raced') /\ call'[c].made = l.made
  BY <1>1, <1>4, <1>7, <1>8, <1>9 DEF history
<1>11. Sound'
  BY <1>1, <1>2, <1>6, NothingNew DEF Tables, history
<1>12. Sessions'
  BY <1>1, <1>2 DEF Sessions, history
<1>13. SessionFollowsAdjacencies'
  BY <1>1, <1>2, <1>5, <1>9, ToldStep DEF history
<1> QED
  BY <1>1, <1>9, <1>10, <1>11, <1>12, <1>13, Together DEF history

LEMMA WriteDeviceKeeps ==
    ASSUME IInv, NEW c \in Call, WriteDevice(c)
    PROVE  IInv'
<1> DEFINE l == call[c]
           d == l.device
           touched == IF l.addrs = addr[d] THEN {} ELSE {d}
           clear == IF l.addrs = l.before THEN {} ELSE {d}
           m == [l EXCEPT !.stage = "invalidate", !.clear = clear]
<1>1. /\ l.stage = "writeDevice"
      /\ UNCHANGED <<server, device, iface, row, template, raced, unchecked>>
  BY DEF WriteDevice
<1>2. IF d \in device
      THEN /\ addr' = [addr EXCEPT ![d] = l.addrs]
           /\ Affect(touched, touched \ clear, "overlap")
           /\ Set(c, m)
           /\ Disturb(Call \ {c})
      ELSE Set(c, Fail(l)) /\ UNCHANGED <<addr, session, excuse, disturbed>>
  BY DEF WriteDevice
<1>3. Sound /\ Tables /\ Sessions /\ Calls /\ Knowing /\ SessionFollowsAdjacencies
  BY DEF IInv, Sound
<1>4. /\ CallForm(l) /\ Resyncs(l, raced) /\ l.clear = {} /\ l.kind = "updateDevice"
      /\ DOMAIN l = DOMAIN Blank /\ l.made \in Nat /\ d \in Device /\ l.addrs \subseteq Addr
      /\ l.seen \subseteq Row \cup Template
  BY <1>1, <1>3 DEF Calls, Knowing, CallForm
<1>5. /\ DOMAIN m = DOMAIN Blank /\ m.kind = "updateDevice" /\ m.stage = "invalidate"
      /\ m.made = l.made /\ m.clear = clear /\ m.seen = l.seen
  BY <1>4 DEF Blank
<1>6. ~\E e : ToldBy(l, e)
  BY <1>1, <1>4, QuietWhen DEF Quiet
<1>7. clear \subseteq Device
  BY <1>4
<1> HIDE DEF m, clear, touched, l
<1>8. Fine(m, raced)
  BY <1>4, <1>5, <1>7 DEF Fine, CallForm, Knows, Resyncs, Stage
<1>9. Fine(Fail(l), raced) /\ Fail(l).made = l.made
  BY <1>4, MovesOn
<1>10. addr' \in [Device -> SUBSET Addr]
  BY <1>2, <1>3, <1>4 DEF Tables
<1>11. Sound'
  BY <1>1, <1>3, <1>10, NothingNew DEF Tables
<1>12. CASE d \in device
  <2>1. Others(c) /\ call'[c] = m
    BY <1>2, <1>3, <1>12, SetTo
  <2>2. Affect(touched, touched \ clear, "overlap") /\ Disturb(Call \ {c})
    BY <1>2, <1>12
  <2>3. /\ session' \in [Device -> Session] /\ excuse' \in [Device -> Cause]
        /\ \A e \in Device : session'[e] = "outdated" /\ excuse'[e] = "no" =>
              e \in clear \/ (session[e] = "outdated" /\ excuse[e] = "no")
    <3>1. "overlap" \in Cause /\ "overlap" # "no"
      BY DEF Cause
    <3> QED
      BY <1>3, <2>2, <3>1, Affecting
  <2>4. Sessions'
    BY <1>3, <2>2, <2>3, Disturbing DEF Sessions
  <2>5. \A e \in clear : ToldBy(call'[c], e)
    BY <1>5, <2>1 DEF ToldBy
  <2>6. SessionFollowsAdjacencies'
    BY <1>3, <1>6, <2>1, <2>3, <2>5, ToldStep DEF l
  <2>7. Fine(call'[c], raced') /\ call'[c].made = call[c].made
    BY <1>1, <1>5, <1>8, <2>1 DEF l
  <2> QED
    BY <1>1, <1>11, <2>1, <2>4, <2>6, <2>7, Together
<1>13. CASE d \notin device
  <2>1. Others(c) /\ call'[c] = Fail(l)
    BY <1>2, <1>3, <1>13, SetTo
  <2>2. UNCHANGED <<session, excuse, disturbed>>
    BY <1>2, <1>13
  <2>3. SessionFollowsAdjacencies'
    BY <1>3, <1>6, <2>1, <2>2, ToldStep DEF l
  <2>4. Fine(call'[c], raced') /\ call'[c].made = call[c].made
    BY <1>1, <1>9, <2>1 DEF l
  <2>5. Sessions'
    BY <1>3, <2>2 DEF Sessions
  <2> QED
    BY <1>1, <1>11, <2>1, <2>3, <2>4, <2>5, Together
<1> QED
  BY <1>12, <1>13

LEMMA DeleteAdjacencyKeeps ==
    ASSUME IInv, NEW c \in Call, DeleteAdjacency(c)
    PROVE  IInv'
<1> DEFINE l == call[c]
           gone == {q \in row : q.id = l.old.id}
           D == {q.device : q \in gone}
           m == [l EXCEPT !.stage = "invalidate", !.clear = {l.device}]
<1>1. /\ l.stage = "delete"
      /\ row' = row \ gone
      /\ Affect(D, D \ {l.device}, "overlap")
      /\ Set(c, m)
      /\ Disturb(Call \ {c})
      /\ UNCHANGED <<server, device, addr, iface, template, raced, unchecked>>
  BY DEF DeleteAdjacency
<1> HIDE DEF gone, D
<1>2. Sound /\ Tables /\ Sessions /\ Calls /\ Knowing /\ SessionFollowsAdjacencies
  BY DEF IInv, Sound
<1>3. /\ CallForm(l) /\ Resyncs(l, raced) /\ DOMAIN l = DOMAIN Blank /\ l.made \in Nat
      /\ l.device \in Device
  BY <1>1, <1>2 DEF Calls, Knowing, CallForm
<1>4. /\ DOMAIN m = DOMAIN Blank /\ m.stage = "invalidate" /\ m.kind = l.kind
      /\ m.server = l.server /\ m.device = l.device /\ m.old = l.old /\ m.addrs = l.addrs
      /\ m.todo = l.todo /\ m.peers = l.peers /\ m.left = l.left /\ m.plan = l.plan
      /\ m.seen = l.seen /\ m.clear = {l.device} /\ m.made = l.made
  BY <1>3 DEF Blank
<1> HIDE DEF m
<1>5. CallForm(m)
  BY <1>1, <1>3, <1>4 DEF CallForm, CreationForm, DeletionForm, ResyncForm, Stage
<1>6. Resyncs(m, raced)
  BY <1>1, <1>3, <1>4 DEF Resyncs
<1>7. Others(c) /\ call'[c] = m
  BY <1>1, <1>2, SetTo
<1>8. Fine(call'[c], raced') /\ call'[c].made = call[c].made
  BY <1>1, <1>4, <1>5, <1>6, <1>7 DEF Fine, Knows
<1>9. ~\E d : ToldBy(l, d)
  BY <1>1, <1>3, QuietWhen DEF Quiet
<1>10. /\ session' \in [Device -> Session] /\ excuse' \in [Device -> Cause]
       /\ \A d \in Device : session'[d] = "outdated" /\ excuse'[d] = "no" =>
             d = l.device \/ (session[d] = "outdated" /\ excuse[d] = "no")
  <2>1. "overlap" \in Cause /\ "overlap" # "no"
    BY DEF Cause
  <2> QED
    BY <1>1, <1>2, <2>1, Affecting
<1>11. Sessions'
  BY <1>1, <1>2, <1>10, Disturbing DEF Sessions
<1>12. ToldBy(call'[c], l.device)
  BY <1>4, <1>7 DEF ToldBy
<1>13. SessionFollowsAdjacencies'
  BY <1>2, <1>7, <1>9, <1>10, <1>12, ToldStep
<1>14. Sound'
  BY <1>1, <1>2, NothingNew DEF Tables
<1> QED
  BY <1>1, <1>7, <1>8, <1>11, <1>13, <1>14, Together

LEMMA DeleteRowOfDeviceKeeps ==
    ASSUME IInv, NEW c \in Call, NEW q \in call[c].peers, DeleteRowOfDevice(c, q)
    PROVE  IInv'
<1> DEFINE l == call[c]
           gone == {r \in row : r.id = q.id}
           D == {r.device : r \in gone}
           m == [l EXCEPT !.peers = @ \ {q}]
<1>1. /\ l.stage = "rows"
      /\ row' = row \ gone
      /\ Affect(D, D \ {q.device}, "overlap")
      /\ Set(c, m)
      /\ Disturb(Call \ {c})
      /\ UNCHANGED <<server, device, addr, iface, template, raced, unchecked>>
  BY DEF DeleteRowOfDevice, Set
<1> HIDE DEF gone, D
<1>2. Sound /\ Tables /\ Sessions /\ Calls /\ Knowing /\ SessionFollowsAdjacencies
  BY DEF IInv, Sound
<1>3. /\ CallForm(l) /\ DOMAIN l = DOMAIN Blank /\ l.made \in Nat /\ l.clear = {}
      /\ l.kind = "deleteDevice" /\ DeletionForm(l) /\ l.seen \subseteq Row \cup Template
  BY <1>1, <1>2 DEF Calls, CallForm
<1>4. /\ DOMAIN m = DOMAIN Blank /\ m.stage = "rows" /\ m.kind = "deleteDevice"
      /\ m.device = l.device /\ m.peers = l.peers \ {q} /\ m.clear = {} /\ m.made = l.made
      /\ m.seen = l.seen
  BY <1>1, <1>3 DEF Blank
<1>5. q.device = l.device
  BY <1>3 DEF DeletionForm
<1> HIDE DEF m
<1>6. CallForm(m)
  BY <1>3, <1>4 DEF CallForm, DeletionForm, Stage
<1>7. Others(c) /\ call'[c] = m
  BY <1>1, <1>2, SetTo
<1>8. Fine(call'[c], raced') /\ call'[c].made = call[c].made
  BY <1>4, <1>6, <1>7 DEF Fine, Knows, Resyncs
<1>9. \A d : ToldBy(l, d) <=> d = l.device
  BY <1>1, <1>3 DEF ToldBy
<1>10. \A d : ToldBy(m, d) <=> d = l.device
  BY <1>4 DEF ToldBy
<1>11. /\ session' \in [Device -> Session] /\ excuse' \in [Device -> Cause]
       /\ \A d \in Device : session'[d] = "outdated" /\ excuse'[d] = "no" =>
             d = q.device \/ (session[d] = "outdated" /\ excuse[d] = "no")
  <2>1. "overlap" \in Cause /\ "overlap" # "no"
    BY DEF Cause
  <2> QED
    BY <1>1, <1>2, <2>1, Affecting
<1>12. Sessions'
  BY <1>1, <1>2, <1>11, Disturbing DEF Sessions
<1>13. SessionFollowsAdjacencies'
  BY <1>2, <1>5, <1>7, <1>9, <1>10, <1>11, ToldStep
<1>14. Sound'
  BY <1>1, <1>2, NothingNew DEF Tables
<1> QED
  BY <1>1, <1>7, <1>8, <1>12, <1>13, <1>14, Together

LEMMA DeleteDeviceKeeps ==
    ASSUME IInv, NEW c \in Call, DeleteDevice(c)
    PROVE  IInv'
<1> DEFINE l == call[c]
           d == l.device
<1>1. /\ l.stage = "rows" /\ l.peers = {}
      /\ UNCHANGED <<server, iface, row, template, raced, unchecked>>
  BY DEF DeleteDevice
<1>2. Sound /\ Tables /\ Sessions /\ Calls /\ Knowing /\ SessionFollowsAdjacencies
  BY DEF IInv, Sound
<1>3. /\ CallForm(l) /\ Resyncs(l, raced) /\ l.clear = {} /\ l.kind = "deleteDevice"
      /\ DeletionForm(l) /\ d \in Device
  BY <1>1, <1>2 DEF Calls, Knowing, CallForm, DeletionForm
<1>4. \A e : ToldBy(l, e) => e = d
  BY <1>3 DEF ToldBy
<1>5. CASE Connected(d)
  <2>1. /\ Affect({}, {d}, "failed") /\ Set(c, Fail(l)) /\ UNCHANGED <<device, addr, disturbed>>
    BY <1>5 DEF DeleteDevice
  <2>2. Others(c) /\ call'[c] = Fail(l)
    BY <1>2, <2>1, SetTo
  <2>3. /\ session' \in [Device -> Session] /\ excuse' \in [Device -> Cause]
        /\ \A e \in Device : session'[e] = "outdated" /\ excuse'[e] = "no" =>
              e # d /\ session[e] = "outdated" /\ excuse[e] = "no"
    <3>1. "failed" \in Cause /\ "failed" # "no"
      BY DEF Cause
    <3> QED
      BY <1>2, <2>1, <3>1, Affecting
  <2>4. Sessions'
    BY <1>2, <2>1, <2>3 DEF Sessions
  <2>5. SessionFollowsAdjacencies'
    BY <1>2, <1>4, <2>2, <2>3, ToldStep
  <2>6. Fine(call'[c], raced') /\ call'[c].made = call[c].made
    BY <1>1, <1>3, <2>2, MovesOn
  <2>7. Sound'
    BY <1>1, <1>2, <2>1, NothingNew DEF Tables
  <2> QED
    BY <1>1, <2>2, <2>4, <2>5, <2>6, <2>7, Together
<1>6. CASE ~Connected(d)
  <2>1. /\ device' = device \ {d} /\ addr' = [addr EXCEPT ![d] = {}]
        /\ session' = [session EXCEPT ![d] = "none"]
        /\ Set(c, Proceed(l)) /\ Disturb(Call \ {c}) /\ UNCHANGED excuse
    BY <1>6 DEF DeleteDevice
  <2>2. Others(c) /\ call'[c] = Proceed(l)
    BY <1>2, <2>1, SetTo
  <2>3. \A q \in row : q.device # d
    BY <1>6 DEF Connected
  <2>4. Sound'
    BY <1>1, <1>2, <2>1, <2>3, NothingNew DEF Tables
  <2>5. Sessions'
    BY <1>2, <2>1, Disturbing DEF Sessions, Session
  <2>6. \A e \in Device : session'[e] = "outdated" => e # d /\ session[e] = "outdated"
    BY <1>2, <2>1 DEF Sessions
  <2>7. SessionFollowsAdjacencies'
    BY <1>2, <1>4, <2>1, <2>2, <2>6, ToldStep
  <2>8. Fine(call'[c], raced') /\ call'[c].made = call[c].made
    BY <1>1, <1>3, <2>2, MovesOn
  <2> QED
    BY <1>1, <2>2, <2>4, <2>5, <2>7, <2>8, Together
<1> QED
  BY <1>5, <1>6

LEMMA InvalidateKeeps ==
    ASSUME IInv, NEW c \in Call, Invalidate(c)
    PROVE  IInv'
<1> DEFINE l == call[c]
           after == [l EXCEPT !.clear = {}]
<1>1. /\ l.stage = "invalidate"
      /\ UNCHANGED <<table, raced, unchecked, disturbed>>
  BY DEF Invalidate
<1>2. PICK D \in SUBSET l.clear :
        /\ session' = [d \in Device |-> IF d \in D THEN "none" ELSE session[d]]
        /\ excuse' = [d \in Device |-> IF d \in l.clear \ D /\ session[d] = "outdated"
                                       THEN "failed" ELSE excuse[d]]
        /\ Set(c, IF D = l.clear THEN Proceed(after) ELSE Fail(after))
  BY DEF Invalidate
<1>3. Sound /\ Tables /\ Sessions /\ Calls /\ Knowing /\ SessionFollowsAdjacencies
  BY DEF IInv, Sound
<1>4. CallForm(l) /\ Resyncs(l, raced) /\ DOMAIN l = DOMAIN Blank /\ l.made \in Nat
  BY <1>3 DEF Calls, Knowing, CallForm
<1>5. /\ DOMAIN after = DOMAIN Blank /\ after.stage = "invalidate" /\ after.kind = l.kind
      /\ after.server = l.server /\ after.device = l.device /\ after.old = l.old
      /\ after.addrs = l.addrs /\ after.todo = l.todo /\ after.peers = l.peers
      /\ after.left = l.left /\ after.plan = l.plan /\ after.seen = l.seen
      /\ after.clear = {} /\ after.made = l.made
  BY <1>1, <1>4 DEF Blank
<1> HIDE DEF after
<1>6. CallForm(after)
  BY <1>1, <1>4, <1>5 DEF CallForm, CreationForm, DeletionForm, ResyncForm, Stage
<1>7. Resyncs(after, raced)
  BY <1>1, <1>4, <1>5 DEF Resyncs
<1>8. Others(c) /\ call'[c] \in {Proceed(after), Fail(after)}
  BY <1>2, <1>3, SetTo
<1>9. Fine(call'[c], raced') /\ call'[c].made = call[c].made
  BY <1>1, <1>5, <1>6, <1>7, <1>8, MovesOn
<1>10. Sessions'
  BY <1>1, <1>2, <1>3 DEF Sessions, Session, Cause
<1>11. \A d \in Device : session'[d] = "outdated" /\ excuse'[d] = "no" =>
          d \notin l.clear /\ session[d] = "outdated" /\ excuse[d] = "no"
  BY <1>2
<1>12. \A d : ToldBy(l, d) => d \in l.clear
  BY <1>1 DEF ToldBy
<1>13. SessionFollowsAdjacencies'
  BY <1>3, <1>8, <1>11, <1>12, ToldStep
<1>14. Sound'
  BY <1>1, <1>3, NothingNew DEF Tables, table
<1> QED
  BY <1>1, <1>8, <1>9, <1>10, <1>13, <1>14, Together DEF table

LEMMA LoginKeeps ==
    ASSUME IInv, NEW d \in device, Login(d)
    PROVE  IInv'
<1>1. /\ session' = [session EXCEPT ![d] = "current"]
      /\ excuse' = [excuse EXCEPT ![d] = "no"]
      /\ UNCHANGED <<table, call, raced, unchecked, disturbed>>
  BY DEF Login
<1>2. Sound' /\ Numbered' /\ Calls' /\ Knowing'
  <2>1. Sound'
    BY <1>1, NothingNew DEF IInv, Sound, Tables, table
  <2> QED
    BY <1>1, <2>1 DEF IInv, Numbered, Calls, Knowing, table
<1>3. Sessions'
  BY <1>1 DEF IInv, Sessions, Session, Cause
<1>4. \A e \in Device : session'[e] = "outdated" /\ excuse'[e] = "no" =>
         session[e] = "outdated" /\ excuse[e] = "no"
  BY <1>1 DEF IInv, Sessions
<1>5. SessionFollowsAdjacencies'
  BY <1>1, <1>4 DEF IInv, SessionFollowsAdjacencies
<1> QED
  BY <1>2, <1>3, <1>5 DEF IInv

LEMMA WriteInterfaceKeeps ==
    ASSUME IInv, NEW c \in Call, WriteInterface(c)
    PROVE  IInv'
<1> DEFINE l == call[c]
           new == {q \in row : q.server = l.server} \ l.seen
<1>1. /\ l.stage = "writeInterface"
      /\ UNCHANGED <<server, device, addr, row, template, session, unchecked, excuse>>
  BY DEF WriteInterface
<1>2. Sound /\ Tables /\ Sessions /\ Calls /\ Knowing /\ SessionFollowsAdjacencies
  BY DEF IInv, Sound
<1>3. /\ CallForm(l) /\ Resyncs(l, raced) /\ l.clear = {} /\ InterfaceForm(l)
  BY <1>1, <1>2 DEF Calls, Knowing, CallForm
<1>4. ~\E d : ToldBy(l, d)
  BY <1>1, <1>3, QuietWhen DEF Quiet
<1>5. CASE l.server \in server
  <2>1. /\ iface' = [iface EXCEPT ![l.server] = l.iface]
        /\ raced' = raced \cup Ids(new)
        /\ Set(c, Proceed(l)) /\ Disturb(Call \ {c})
    BY <1>5 DEF WriteInterface
  <2> HIDE DEF new
  <2>2. Others(c) /\ call'[c] = Proceed(l)
    BY <1>2, <2>1, SetTo
  <2>3. Fine(Proceed(l), raced) /\ call'[c].made = call[c].made
    BY <1>3, <2>2, MovesOn
  <2>4. Fine(call'[c], raced')
    BY <2>1, <2>2, <2>3, KnowsMore
  <2>5. Sessions'
    BY <1>1, <1>2, <2>1, Disturbing DEF Sessions
  <2>6. SessionFollowsAdjacencies'
    BY <1>1, <1>2, <1>4, <2>2, ToldStep
  <2>7. raced \subseteq raced' /\ \A q \in row : q.id \in Id
    BY <1>2, <2>1 DEF Tables, RowForm, Row
  <2>8. Tables'
    <3>1. Ids(new) \subseteq Id
      BY <2>7 DEF Ids, new
    <3>2. iface' \in [Server -> Iface]
      BY <1>2, <1>3, <2>1 DEF Tables, InterfaceForm
    <3> QED
      BY <1>1, <1>2, <2>1, <3>1, <3>2 DEF Tables
  <2>9. OnePerServer'
    BY <1>1, <1>2, <2>7 DEF Sound, OnePerServer
  <2>10. SoundUnlessRaced'
    <3>1. ASSUME NEW q \in row, q.id \notin raced'
          PROVE  q.ip \in iface'[q.server].net \cup {None}
      <4>1. q.id \notin raced /\ RowForm(q) /\ q.server \in Server
        BY <1>2, <2>7, <3>1 DEF Tables
      <4>2. CASE q.server = l.server
        <5>1. q \in l.seen
          BY <2>1, <3>1, <4>2 DEF Ids, new
        <5>2. q.addrs \subseteq l.iface.net
          BY <1>3, <5>1 DEF InterfaceForm
        <5>3. iface'[q.server] = l.iface
          BY <1>2, <2>1, <4>1, <4>2 DEF Tables
        <5> QED
          BY <4>1, <5>2, <5>3 DEF RowForm
      <4>3. CASE q.server # l.server
        BY <1>2, <2>1, <4>1, <4>3 DEF Sound, SoundUnlessRaced, Tables
      <4> QED
        BY <4>2, <4>3
    <3> QED
      BY <1>1, <1>2, <2>7, <3>1 DEF Sound, SoundUnlessRaced
  <2> QED
    BY <1>1, <2>2, <2>3, <2>4, <2>5, <2>6, <2>7, <2>8, <2>9, <2>10, Together DEF Sound
<1>6. CASE l.server \notin server
  <2>1. Set(c, Fail(l)) /\ UNCHANGED <<iface, raced, disturbed>>
    BY <1>6 DEF WriteInterface
  <2>2. Others(c) /\ call'[c] = Fail(l)
    BY <1>2, <2>1, SetTo
  <2>3. Fine(call'[c], raced') /\ call'[c].made = call[c].made
    BY <1>3, <2>1, <2>2, MovesOn
  <2>4. Sound'
    BY <1>1, <1>2, <2>1, NothingNew DEF Tables
  <2>5. Sessions' /\ SessionFollowsAdjacencies'
    BY <1>1, <1>2, <1>4, <2>1, <2>2, ToldStep DEF Sessions
  <2> QED
    BY <1>1, <2>1, <2>2, <2>3, <2>4, <2>5, Together
<1> QED
  BY <1>5, <1>6

LEMMA WriteTemplateKeeps ==
    ASSUME IInv, NEW c \in Call, WriteTemplate(c)
    PROVE  IInv'
<1> DEFINE l == call[c]
           replaced == IF l.old = None THEN {} ELSE {t \in template : t.id = l.old.id}
           id == IF l.old = None THEN <<c, l.server>> ELSE l.old.id
           new == template \ (l.seen \cup replaced)
           t0 == [id |-> id, server |-> l.server, route |-> l.route]
<1>1. /\ l.stage = "writeTemplate"
      /\ UNCHANGED <<server, device, addr, iface, row, session, unchecked, excuse>>
  BY DEF WriteTemplate
<1>2. Sound /\ Tables /\ Sessions /\ Calls /\ Knowing /\ SessionFollowsAdjacencies
  BY DEF IInv, Sound
<1>3. /\ CallForm(l) /\ Resyncs(l, raced) /\ l.clear = {} /\ TemplateForm(l)
      /\ TemplateFree(l, raced)
  BY <1>1, <1>2 DEF Calls, Knowing, Knows, CallForm
<1>4. ~\E d : ToldBy(l, d)
  BY <1>1, <1>3, QuietWhen DEF Quiet
<1>5. CASE l.server \in server /\ (l.old # None => replaced # {})
  <2>1. /\ template' = (template \ replaced) \cup {t0}
        /\ raced' = IF new = {} THEN raced ELSE raced \cup Ids(new) \cup {id}
        /\ Set(c, Proceed(l)) /\ Disturb(Call \ {c})
    BY <1>5 DEF WriteTemplate
  <2>2. t0 \in Template /\ t0.id = id /\ t0.server = l.server
    BY <1>3 DEF TemplateForm, Template
  <2>3. \A u \in template \ replaced : l.old # None => u.id # l.old.id
    OBVIOUS
  <2>4. l.old # None => id = l.old.id
    OBVIOUS
  <2>5. \A u \in template \ replaced : u \in l.seen \/ u \in new
    OBVIOUS
  <2>6. new \subseteq template
    OBVIOUS
  <2> HIDE DEF new, replaced, t0, id
  <2>7. Others(c) /\ call'[c] = Proceed(l)
    BY <1>2, <2>1, SetTo
  <2>8. raced \subseteq raced' /\ \A u \in new : {u.id, id} \subseteq raced'
    BY <2>1 DEF Ids
  <2>9. Fine(Proceed(l), raced) /\ call'[c].made = call[c].made
    BY <1>3, <2>7, MovesOn
  <2>10. Fine(call'[c], raced')
    BY <2>7, <2>8, <2>9, KnowsMore
  <2>11. Sessions'
    BY <1>1, <1>2, <2>1, Disturbing DEF Sessions
  <2>12. SessionFollowsAdjacencies'
    BY <1>1, <1>2, <1>4, <2>7, ToldStep
  <2>13. Tables'
    <3>1. \A u \in template : u.id \in (Call \cup {None}) \X Server
      BY <1>2 DEF Tables, Template
    <3>2. id \in (Call \cup {None}) \X Server
      BY <2>2 DEF Template
    <3>3. raced' \cup unchecked' \subseteq Id \cup ((Call \cup {None}) \X Server)
      BY <1>1, <1>2, <2>1, <2>6, <3>1, <3>2 DEF Tables, Ids
    <3>4. template' \subseteq Template /\ \A u \in template' : u.server \in server'
      BY <1>1, <1>2, <1>5, <2>1, <2>2 DEF Tables
    <3> QED
      BY <1>1, <1>2, <3>3, <3>4 DEF Tables
  <2>14. ASSUME NEW u \in template \ replaced, u.server = l.server
         PROVE  {u.id, id} \subseteq raced'
    <3>1. CASE u \in new
      BY <2>8, <3>1
    <3>2. CASE u \in l.seen
      <4>1. l.old # None /\ SameOrRaced(u, l.old, raced)
        BY <1>3, <2>14, <3>2 DEF TemplateFree
      <4> QED
        BY <2>3, <2>4, <2>8, <2>14, <4>1 DEF SameOrRaced
    <3> QED
      BY <2>5, <2>14, <3>1, <3>2
  <2>15. OnePerServer'
    <3>1. \A q, r \in row' : SamePair(q, r) => q = r \/ {q.id, r.id} \subseteq raced'
      BY <1>1, <1>2, <2>8 DEF Sound, OnePerServer
    <3>2. ASSUME NEW t \in template', NEW u \in template', t.server = u.server
          PROVE  t = u \/ {t.id, u.id} \subseteq raced'
      <4>1. CASE t \in template \ replaced /\ u \in template \ replaced
        BY <1>2, <2>8, <3>2, <4>1 DEF Sound, OnePerServer
      <4>2. CASE t = t0
        BY <2>1, <2>2, <2>14, <3>2, <4>2
      <4>3. CASE u = t0
        BY <2>1, <2>2, <2>14, <3>2, <4>3
      <4> QED
        BY <2>1, <4>1, <4>2, <4>3
    <3> QED
      BY <3>1, <3>2 DEF OnePerServer
  <2>16. SoundUnlessRaced'
    BY <1>1, <1>2, <2>8 DEF Sound, SoundUnlessRaced
  <2> QED
    BY <1>1, <2>7, <2>8, <2>9, <2>10, <2>11, <2>12, <2>13, <2>15, <2>16, Together DEF Sound
<1>6. CASE ~(l.server \in server /\ (l.old # None => replaced # {}))
  <2>1. Set(c, Fail(l)) /\ UNCHANGED <<template, raced, disturbed>>
    BY <1>6 DEF WriteTemplate
  <2>2. Others(c) /\ call'[c] = Fail(l)
    BY <1>2, <2>1, SetTo
  <2>3. Fine(call'[c], raced') /\ call'[c].made = call[c].made
    BY <1>3, <2>1, <2>2, MovesOn
  <2>4. Sound'
    BY <1>1, <1>2, <2>1, NothingNew DEF Tables
  <2>5. Sessions' /\ SessionFollowsAdjacencies'
    BY <1>1, <1>2, <1>4, <2>1, <2>2, ToldStep DEF Sessions
  <2> QED
    BY <1>1, <2>1, <2>2, <2>3, <2>4, <2>5, Together
<1> QED
  BY <1>5, <1>6

-----------------------------------------------------------------------------
LEMMA InitIInv == Init => IInv
<1> SUFFICES ASSUME Init PROVE IInv
  OBVIOUS
<1>1. /\ server = Server /\ device \in {Device, Device \ Own}
      /\ addr = [d \in Device |-> IF d \in device THEN {Home[d]} ELSE {}]
      /\ session = [d \in Device |-> IF d \in device THEN "current" ELSE "none"]
      /\ call = [c \in Call |-> Blank]
      /\ raced = {} /\ unchecked = {} /\ disturbed = {}
      /\ excuse = [d \in Device |-> "no"]
  BY DEF Init
<1>2. PICK i \in Iface : /\ \A d \in Device : Home[d] \in i.net
                         /\ iface = [s \in Server |-> i]
  BY DEF Init
<1>3. PICK f \in Injection(Server, Route), S \in SUBSET Server :
        row = {[id |-> <<None, pair>>, server |-> pair[1], device |-> pair[2],
                addrs |-> addr[pair[2]], route |-> f[pair[1]], ip |-> Home[pair[2]]] :
               pair \in (Linked \X (device \ Own)) \cup (S \X (device \cap Own))}
  BY DEF Init
<1>4. PICK g \in Injection(Server, Route), T \in SUBSET Server :
        template = {[id |-> <<None, s>>, server |-> s, route |-> g[s]] : s \in T}
  BY DEF Init
<1>5. /\ f \in [Server -> Route] /\ g \in [Server -> Route]
      /\ \A s, t \in Server : s # t => f[s] # f[t]
      /\ \A d, e \in Device : d # e => Home[d] # Home[e]
  BY HomeAssumption DEF Injection, IsInjective
<1>6. ASSUME NEW q \in row
      PROVE  /\ q = [id |-> <<None, <<q.server, q.device>>>>, server |-> q.server,
                     device |-> q.device, addrs |-> {Home[q.device]}, route |-> f[q.server],
                     ip |-> Home[q.device]]
             /\ q.server \in Server /\ q.device \in device /\ q.device \in Device
  <2>1. PICK pair \in (Linked \X (device \ Own)) \cup (S \X (device \cap Own)) :
          q = [id |-> <<None, pair>>, server |-> pair[1], device |-> pair[2],
               addrs |-> addr[pair[2]], route |-> f[pair[1]], ip |-> Home[pair[2]]]
    BY <1>3
  <2>2. pair = <<pair[1], pair[2]>> /\ pair[1] \in Server /\ pair[2] \in device
        /\ pair[2] \in Device
    BY <1>1, <2>1, LinkedAssumption
  <2>3. addr[pair[2]] = {Home[pair[2]]}
    BY <1>1, <2>2
  <2> QED
    BY <2>1, <2>2, <2>3
<1>7. \A q \in row : RowForm(q) /\ q.id[1] = None
  <2> TAKE q \in row
  <2>1. Home[q.device] \in Addr /\ f[q.server] \in Route
    BY <1>5, <1>6, HomeOf
  <2>2. q.id = <<None, <<q.server, q.device>>>> /\ q.addrs = {Home[q.device]}
        /\ q.ip = Home[q.device]
    BY <1>6
  <2>3. q.id \in Id
    BY <1>6, <2>2 DEF Id
  <2>4. q \in Row
    BY <1>6, <2>1, <2>2, <2>3 DEF Row
  <2> QED
    BY <2>2, <2>4 DEF RowForm
<1>8. \A q, r \in row : SamePair(q, r) => q = r
  BY <1>6 DEF SamePair
<1>9. \A q, r \in row : q.id = r.id => q = r
  <2> SUFFICES ASSUME NEW q \in row, NEW r \in row, q.id = r.id PROVE q = r
    OBVIOUS
  <2>1. q.id[2] = <<q.server, q.device>> /\ r.id[2] = <<r.server, r.device>>
    BY <1>6
  <2>2. q.id[2] = r.id[2]
    OBVIOUS
  <2>3. <<q.server, q.device>> = <<r.server, r.device>>
    BY <2>1, <2>2
  <2> QED
    BY <1>8, <2>3 DEF SamePair
<1>10. template \subseteq Template
       /\ \A t, u \in template : t.server = u.server => t = u
  <2>1. \A s \in T : [id |-> <<None, s>>, server |-> s, route |-> g[s]] \in Template
    BY <1>5 DEF Template
  <2> QED
    BY <1>4, <2>1
<1>11. Tables
  <2>1. addr \in [Device -> SUBSET Addr]
    BY <1>1, HomeOf
  <2>2. \A t \in template : t.server \in Server
    BY <1>10 DEF Template
  <2> QED
    BY <1>1, <1>2, <1>6, <1>7, <1>9, <1>10, <2>1, <2>2 DEF Tables
<1>12. OnePerServer
  BY <1>8, <1>10 DEF OnePerServer
<1>13. SoundUnlessRaced
  <2>1. \A q \in row : q.ip \in iface[q.server].net
    <3> TAKE q \in row
    <3>1. q.ip = Home[q.device] /\ q.server \in Server /\ q.device \in Device
      BY <1>6
    <3> QED
      BY <1>2, <3>1
  <2>2. ASSUME NEW q \in row, NEW r \in row \ {q}
        PROVE  /\ q.device = r.device => q.route # r.route
               /\ q.server = r.server => q.ip # r.ip
    <3>1. /\ q.route = f[q.server] /\ r.route = f[r.server]
          /\ q.ip = Home[q.device] /\ r.ip = Home[r.device]
      BY <1>6
    <3>2. ~SamePair(q, r)
      BY <1>8
    <3> QED
      BY <1>5, <1>6, <3>1, <3>2 DEF SamePair
  <2> QED
    BY <2>1, <2>2 DEF SoundUnlessRaced
<1>14. Sessions
  BY <1>1 DEF Sessions, Session, Cause
<1>15. Numbered
  BY <1>7, NoneAssumption DEF Numbered
<1>16. Calls
  BY <1>1, BlankFields DEF Calls
<1>17. Knowing
  BY <1>1, BlankFields DEF Knowing, Knows, Resyncs
<1>18. SessionFollowsAdjacencies
  BY <1>1 DEF SessionFollowsAdjacencies
<1> QED
  BY <1>11, <1>12, <1>13, <1>14, <1>15, <1>16, <1>17, <1>18 DEF IInv, Sound

LEMMA StartKeeps ==
    ASSUME IInv, NEW c \in Call, Start(c)
    PROVE  IInv'
<1>0. /\ Tables /\ Calls /\ Knowing /\ OnePerServer
      /\ device \subseteq Device
  BY DEF IInv, Sound, Tables
<1>1. CASE \E s \in Server, d \in Device, A \in Offer \cup {{}}, r \in Route :
             CreateAdjacency(c, s, d, A, r)
  BY <1>0, <1>1, CreateAdjacencyReads, ReadsKeep
<1>2. CASE \E s \in Server, d \in Device, A \in Offer \cup {{}}, r \in Route :
             \E q \in row : UpdateAdjacency(c, q, s, d, A, r)
  BY <1>0, <1>2, UpdateAdjacencyReads, ReadsKeep
<1>3. CASE \E q \in row : ReadRow(c, q)
  BY <1>0, <1>3, ReadRowReads, ReadsKeep
<1>4. CASE \E d \in Device : CreateDevice(c, d, Home[d])
  BY <1>4, CreateDeviceKeeps
<1>5. CASE \E d \in Device, A \in Offer : UpdateDevice(c, d, A)
  BY <1>0, <1>5, UpdateDeviceReads, ReadsKeep
<1>6. CASE \E d \in Device : ReadRows(c, d)
  BY <1>0, <1>6, ReadRowsReads, ReadsKeep
<1>7. CASE \E s \in Server, i \in Iface : UpdateInterface(c, s, i)
  BY <1>0, <1>7, UpdateInterfaceReads, ReadsKeep
<1>8. CASE \E s \in Server, r \in Route : CreateTemplate(c, s, r)
  BY <1>0, <1>8, CreateTemplateReads, ReadsKeep
<1>9. CASE \E s \in Server, r \in Route : \E t \in template : UpdateTemplate(c, t, s, r)
  BY <1>0, <1>9, UpdateTemplateReads, ReadsKeep
<1>10. CASE \E s \in Server : DeleteServer(c, s)
  BY <1>10, DeleteServerKeeps
<1>11. CASE \E t \in template : DeleteTemplate(c, t)
  BY <1>11, DeleteTemplateKeeps
<1>12. CASE ReadPlan(c)
  BY <1>0, <1>12, ReadPlanReads, ReadsKeep
<1> QED
  BY <1>1, <1>2, <1>3, <1>4, <1>5, <1>6, <1>7, <1>8, <1>9, <1>10, <1>11, <1>12 DEF Start

LEMMA ContinueKeeps ==
    ASSUME IInv, NEW c \in Call, Continue(c)
    PROVE  IInv'
<1>0. Tables /\ Calls /\ Knowing /\ OnePerServer
  BY DEF IInv, Sound
<1>1. CASE Check(c)
  BY <1>0, <1>1, CheckReads, ReadsKeep
<1>2. CASE InsertRow(c)
  BY <1>2, InsertRowKeeps
<1>3. CASE UpdateRow(c)
  BY <1>3, UpdateRowKeeps
<1>4. CASE WriteFails(c)
  BY <1>0, <1>4, WriteFailsReads, ReadsKeep
<1>5. CASE Invalidate(c)
  BY <1>5, InvalidateKeeps
<1>6. CASE DeleteAdjacency(c)
  BY <1>6, DeleteAdjacencyKeeps
<1>7. CASE InsertAddress(c)
  BY <1>7, InsertAddressKeeps
<1>8. CASE ReadTemplates(c)
  BY <1>0, <1>8, ReadTemplatesReads, ReadsKeep
<1>9. CASE \E t \in call[c].todo : NextTemplate(c, t)
  BY <1>0, <1>9, NextTemplateReads, ReadsKeep
<1>10. CASE WriteDevice(c)
  BY <1>10, WriteDeviceKeeps
<1>11. CASE \E q \in call[c].peers : DeleteRowOfDevice(c, q)
  BY <1>11, DeleteRowOfDeviceKeeps
<1>12. CASE DeleteDevice(c)
  BY <1>12, DeleteDeviceKeeps
<1>13. CASE WriteInterface(c)
  BY <1>13, WriteInterfaceKeeps
<1>14. CASE WriteTemplate(c)
  BY <1>14, WriteTemplateKeeps
<1>15. CASE \E d \in call[c].todo : NextDevice(c, d)
  BY <1>0, <1>15, NextDeviceReads, ReadsKeep
<1>16. CASE \E q \in call[c].peers : ResyncRow(c, q)
  BY <1>0, <1>16, ResyncRowReads, ReadsKeep
<1>17. CASE \E s \in call[c].left : ResyncMissing(c, s)
  BY <1>0, <1>17, ResyncMissingReads, ReadsKeep
<1> QED
  BY <1>1, <1>2, <1>3, <1>4, <1>5, <1>6, <1>7, <1>8, <1>9, <1>10, <1>11, <1>12, <1>13,
     <1>14, <1>15, <1>16, <1>17 DEF Continue

LEMMA Stepwise == IInv /\ [Next]_vars => IInv'
<1> SUFFICES ASSUME IInv, [Next]_vars PROVE IInv'
  OBVIOUS
<1>1. CASE \E c \in Call : Start(c) \/ Continue(c)
  BY <1>1, StartKeeps, ContinueKeeps
<1>2. CASE \E d \in device : Login(d)
  BY <1>2, LoginKeeps
<1>3. CASE UNCHANGED vars
  <2>1. UNCHANGED <<table, session, call, history>>
    BY <1>3 DEF vars
  <2>2. Sound' /\ Numbered' /\ Calls' /\ Knowing'
    <3>1. Sound'
      BY <2>1, NothingNew DEF IInv, Sound, Tables, table, history
    <3> QED
      BY <2>1, <3>1 DEF IInv, Numbered, Calls, Knowing, table, history
  <2>3. Sessions' /\ SessionFollowsAdjacencies'
    BY <2>1 DEF IInv, Sessions, SessionFollowsAdjacencies, history
  <2> QED
    BY <2>2, <2>3 DEF IInv
<1> QED
  BY <1>1, <1>2, <1>3 DEF Next

LEMMA Invariant == Spec => []IInv
BY InitIInv, Stepwise, PTL DEF Spec

LEMMA IInvRows == IInv => RowsSound
<1> SUFFICES ASSUME IInv PROVE TypeOK
  BY DEF IInv, Sound, RowsSound
<1>1. Tables /\ Sessions /\ Calls
  BY DEF IInv, Sound
<1> QED
  BY <1>1 DEF TypeOK, Tables, Sessions, Calls, CallForm, RowForm

-----------------------------------------------------------------------------
(* RowsSound: the tables of adjacencies and templates are what a single request *)
(* would have let in.  A device has one adjacency with a server, no two with    *)
(* the same allowed IPs, no address that another of the server's has, and one    *)
(* the server reaches, unless two requests overlapped or a resynchronisation    *)
(* wrote over it (CreateAdjacency and UpdateAdjacency of vcm/postgres.go).      *)
THEOREM RowsCorrect == Spec => []RowsSound
<1>1. Spec => []IInv
  BY Invariant
<1> QED
  BY <1>1, IInvRows, PTL

(* SessionFollowsAdjacencies: a client whose configuration has changed is told  *)
(* by the end of its session, unless the statement that ends it fails, the       *)
(* change was computed from a row that has changed since, or its server was     *)
(* deleted (DeleteInvalidSessionsByAdjacency of vcm/postgres.go).              *)
THEOREM AdjacencySessionsCorrect == Spec => []SessionFollowsAdjacencies
<1>1. IInv => SessionFollowsAdjacencies
  BY DEF IInv
<1>2. Spec => []IInv
  BY Invariant
<1> QED
  BY <1>1, <1>2, PTL

-----------------------------------------------------------------------------
(* Devices in line with the templates.                                       *)

(* A row with an address of its device that its server reaches, and no other.  *)
Lined(q) == \E ip \in Reach(q.server, q.device) : q.addrs = {ip}

(* A row that a resynchronisation has still to come to, or is about to change. *)
Pending(l, q) == q \in l.peers \/ (l.stage \in {"write", "delete"} /\ q = l.old)

(* The plan is the templates, but for raced ones.                              *)
PlanIsTemplates(l) ==
    /\ \A t \in template : l.plan[t.server] = t.route \/ t.id \in raced
    /\ \A s \in Server : l.plan[s] # None =>
          \E t \in template : t.server = s /\ t.route = l.plan[s]

(* Of the devices a resynchronisation has come to, each row is raced, in line   *)
(* or still to be changed, ...                                               *)
RowsAligned(l) ==
    \A q \in row : q.device \in (Own \cap device) \ l.todo =>
        \/ Pending(l, q)
        \/ q.id \in raced
        \/ q.route = l.plan[q.server] /\ Lined(q)

(* ... and each server of the plan has a row, or will get one.                *)
ServersAligned(l) ==
    \A d \in (Own \cap device) \ l.todo, s \in Server : l.plan[s] # None =>
        \/ \E q \in row : q.device = d /\ q.server = s
        \/ d = l.device /\ s \in l.left
        \/ d = l.device /\ l.stage = "write" /\ l.old = None /\ l.server = s

(* What a resynchronisation holds is what is in the tables.                    *)
HoldsRows(l) ==
    /\ l.peers \subseteq row
    /\ l.stage \in {"next", "done"} => l.peers = {} /\ l.left = {}
    /\ l.stage = "done" => l.todo = {}
    /\ l.stage = "delete" => l.old \in row /\ SamePair(l.old, l) /\ l.plan[l.server] = None
    /\ l.stage = "write" =>
          /\ l.route = l.plan[l.server]
          /\ l.addrs = {l.ip} /\ l.ip \in Reach(l.server, l.device)
          /\ l.old # None => l.old \in row /\ SamePair(l.old, l)

ResyncAligns(l) ==
    /\ l.stage \in {"server", "write", "delete", "invalidate", "next", "done"}
    /\ PlanIsTemplates(l)
    /\ RowsAligned(l)
    /\ ServersAligned(l)
    /\ HoldsRows(l)

(* A new device has rows for the templates it has come to, and no others.      *)
CreationAligns(l) ==
    /\ l.stage \in {"address", "templates", "next", "check", "write", "invalidate", "done"}
    /\ l.addrs = {}
    /\ l.stage \in {"next", "check", "write", "invalidate", "done"} =>
        /\ l.todo \subseteq template
        /\ \A q \in row : q.device = l.device =>
              Lined(q) /\ \E t \in template : t.server = q.server /\ t.route = q.route
        /\ \A t \in template :
              \/ t \in l.todo
              \/ l.stage \in {"check", "write"} /\ l.server = t.server /\ l.route = t.route
              \/ \E q \in row : q.device = l.device /\ q.server = t.server /\ q.route = t.route
        /\ l.stage = "done" => l.todo = {}
        /\ l.stage \in {"check", "write"} =>
              /\ l.ip \in Reach(l.server, l.device)
              /\ \E t \in template : t.server = l.server /\ t.route = l.route

Aligns(l) ==
    ~l.failed =>
        /\ l.kind = "resync" => ResyncAligns(l)
        /\ l.kind = "createDevice" => CreationAligns(l)

Aligning == \A c \in Call \ disturbed : Aligns(call[c])

-----------------------------------------------------------------------------
(* Where a request goes, and that it keeps its kind and its error.             *)

LEMMA ProceedsTo ==
    ASSUME NEW l, DOMAIN l = DOMAIN Blank
    PROVE  LET m == Proceed(l) IN
           /\ m.failed = l.failed
           /\ m.stage = "server" => l.kind = "resync"
           /\ l.kind = "resync" /\ m.stage \in {"next", "done"} => l.peers = {} /\ l.left = {}
           /\ l.kind \in {"resync", "createDevice"} /\ m.stage = "done" => l.todo = {}
<1>1. CASE l.kind = "resync" /\ l.peers \cup l.left # {}
  BY <1>1 DEF Proceed, Blank
<1>2. CASE /\ l.kind = "resync" => l.peers = {} /\ l.left = {}
           /\ l.kind \in {"resync", "createDevice"} /\ l.todo # {}
  BY <1>2 DEF Proceed, Blank
<1>3. CASE /\ l.kind = "resync" => l.peers = {} /\ l.left = {}
           /\ l.kind \in {"resync", "createDevice"} => l.todo = {}
  <2>1. Proceed(l) = Finish(l)
    BY <1>3 DEF Proceed
  <2>2. Proceed(l).stage = "done" /\ Proceed(l).failed = l.failed
    BY <2>1 DEF Finish, Blank
  <2> QED
    BY <1>3, <2>2
<1> QED
  BY <1>1, <1>2, <1>3

LEMMA FailsTo ==
    ASSUME NEW l, DOMAIN l = DOMAIN Blank
    PROVE  Fail(l).failed = TRUE
<1> DEFINE k == [l EXCEPT !.failed = TRUE]
<1>1. DOMAIN k = DOMAIN Blank /\ k.failed = TRUE
  BY DEF Blank
<1>2. CASE l.kind = "resync"
  <2>1. Fail(l) = Proceed(k)
    BY <1>2 DEF Fail
  <2> HIDE DEF k
  <2> QED
    BY <1>1, <2>1, ProceedsTo
<1>3. CASE l.kind # "resync"
  <2>1. Fail(l) = Finish(k)
    BY <1>3 DEF Fail
  <2> HIDE DEF k
  <2> QED
    BY <1>1, <2>1 DEF Finish, Blank
<1> QED
  BY <1>2, <1>3

(* A request goes on as the request it was.                                    *)
SameRequest(c, l) ==
    /\ Others(c)
    /\ call'[c].kind = l.kind
    /\ call'[c].failed = l.failed \/ call'[c].failed = TRUE

LEMMA SameWhenSet ==
    ASSUME Calls, NEW c \in Call, NEW k, NEW l, DOMAIN l = DOMAIN Blank, l.kind = k.kind,
           l.failed = k.failed, Set(c, l) \/ Set(c, Proceed(l)) \/ Set(c, Fail(l))
    PROVE  SameRequest(c, k)
<1>1. Others(c) /\ call'[c] \in {l, Proceed(l), Fail(l)}
  BY SetTo
<1>2. Proceed(l).kind = l.kind /\ Fail(l).kind = l.kind
  BY Proceeding, Failing DEF AsBefore
<1>3. Proceed(l).failed = l.failed /\ Fail(l).failed = TRUE
  BY ProceedsTo, FailsTo
<1> QED
  BY <1>1, <1>2, <1>3 DEF SameRequest

LEMMA PreparedSame ==
    ASSUME Calls, NEW c \in Call, NEW k, NEW l, DOMAIN l = DOMAIN Blank, l.kind = k.kind,
           l.failed = k.failed, Prepare(c, l)
    PROVE  SameRequest(c, k)
<1>1. CASE Acceptable(l)
  <2>1. PICK ip \in Reach(l.server, l.device) :
           Set(c, [l EXCEPT !.stage = "check", !.ip = ip, !.iface = iface[l.server],
                            !.seen = Near(l.server, l.device)])
    BY <1>1 DEF Prepare
  <2> DEFINE m == [l EXCEPT !.stage = "check", !.ip = ip, !.iface = iface[l.server],
                            !.seen = Near(l.server, l.device)]
  <2>2. DOMAIN m = DOMAIN Blank /\ m.kind = k.kind /\ m.failed = k.failed
    BY DEF Blank
  <2>3. Set(c, m)
    BY <2>1
  <2> HIDE DEF m
  <2> QED
    BY <2>2, <2>3, SameWhenSet
<1>2. CASE ~Acceptable(l)
  BY <1>2, SameWhenSet DEF Prepare
<1> QED
  BY <1>1, <1>2

LEMMA RecomputedSame ==
    ASSUME Calls, NEW c \in Call, NEW k, NEW l, DOMAIN l = DOMAIN Blank, l.kind = k.kind,
           l.failed = k.failed, Recompute(c, l)
    PROVE  SameRequest(c, k)
<1>1. CASE Set(c, Proceed(l)) \/ Set(c, Fail(l))
  BY <1>1, SameWhenSet
<1>2. ASSUME NEW ip, NEW seen,
             Set(c, [l EXCEPT !.stage = "write", !.ip = ip, !.addrs = {ip},
                              !.iface = iface[l.server], !.seen = seen])
      PROVE  SameRequest(c, k)
  <2> DEFINE m == [l EXCEPT !.stage = "write", !.ip = ip, !.addrs = {ip},
                            !.iface = iface[l.server], !.seen = seen]
  <2>1. DOMAIN m = DOMAIN Blank /\ m.kind = k.kind /\ m.failed = k.failed
    BY DEF Blank
  <2>2. Set(c, m)
    BY <1>2
  <2> HIDE DEF m
  <2> QED
    BY <2>1, <2>2, SameWhenSet
<1> QED
  BY <1>1, <1>2 DEF Recompute

LEMMA ContinuesSame ==
    ASSUME Calls, NEW c \in Call, Continue(c)
    PROVE  SameRequest(c, call[c])
<1> DEFINE l == call[c]
<1>0. DOMAIN l = DOMAIN Blank
  BY DEF Calls, CallForm
<1>1. CASE Check(c)
  <2> DEFINE m == [l EXCEPT !.stage = "write", !.seen = @ \cap row]
  <2>1. Set(c, m) \/ Set(c, Fail(l))
    BY <1>1 DEF Check
  <2>2. DOMAIN m = DOMAIN Blank /\ m.kind = l.kind /\ m.failed = l.failed
    BY <1>0 DEF Blank
  <2> HIDE DEF m
  <2> QED
    BY <1>0, <2>1, <2>2, SameWhenSet
<1>2. CASE InsertRow(c)
  <2>1. PICK new, clear, made : Set(c, [l EXCEPT !.stage = "invalidate", !.clear = clear,
                                                 !.seen = @ \cup {new}, !.made = made])
    BY <1>2 DEF InsertRow
  <2> DEFINE m == [l EXCEPT !.stage = "invalidate", !.clear = clear, !.seen = @ \cup {new},
                            !.made = made]
  <2>2. DOMAIN m = DOMAIN Blank /\ m.kind = l.kind /\ m.failed = l.failed
    BY <1>0 DEF Blank
  <2>3. Set(c, m)
    BY <2>1
  <2> HIDE DEF m
  <2> QED
    BY <2>2, <2>3, SameWhenSet
<1>3. CASE UpdateRow(c)
  <2>1. PICK new, clear : Set(c, [l EXCEPT !.stage = "invalidate", !.clear = clear,
                                           !.seen = @ \cup {new}])
    BY <1>3 DEF UpdateRow
  <2> DEFINE m == [l EXCEPT !.stage = "invalidate", !.clear = clear, !.seen = @ \cup {new}]
  <2>2. DOMAIN m = DOMAIN Blank /\ m.kind = l.kind /\ m.failed = l.failed
    BY <1>0 DEF Blank
  <2>3. Set(c, m)
    BY <2>1
  <2> HIDE DEF m
  <2> QED
    BY <2>2, <2>3, SameWhenSet
<1>4. CASE WriteFails(c)
  BY <1>0, <1>4, SameWhenSet DEF WriteFails
<1>5. CASE Invalidate(c)
  <2> DEFINE m == [l EXCEPT !.clear = {}]
  <2>1. Set(c, Proceed(m)) \/ Set(c, Fail(m))
    BY <1>5 DEF Invalidate
  <2>2. DOMAIN m = DOMAIN Blank /\ m.kind = l.kind /\ m.failed = l.failed
    BY <1>0 DEF Blank
  <2> HIDE DEF m
  <2> QED
    BY <2>1, <2>2, SameWhenSet
<1>6. CASE DeleteAdjacency(c)
  <2> DEFINE m == [l EXCEPT !.stage = "invalidate", !.clear = {l.device}]
  <2>1. Set(c, m)
    BY <1>6 DEF DeleteAdjacency
  <2>2. DOMAIN m = DOMAIN Blank /\ m.kind = l.kind /\ m.failed = l.failed
    BY <1>0 DEF Blank
  <2> HIDE DEF m
  <2> QED
    BY <2>1, <2>2, SameWhenSet
<1>7. CASE InsertAddress(c)
  <2> DEFINE m == [l EXCEPT !.stage = "templates"]
  <2>1. Set(c, m) \/ Set(c, Fail(l))
    BY <1>7 DEF InsertAddress
  <2>2. DOMAIN m = DOMAIN Blank /\ m.kind = l.kind /\ m.failed = l.failed
    BY <1>0 DEF Blank
  <2> HIDE DEF m
  <2> QED
    BY <1>0, <2>1, <2>2, SameWhenSet
<1>8. CASE ReadTemplates(c)
  <2> DEFINE m == [l EXCEPT !.todo = template]
  <2>1. Set(c, Proceed(m)) \/ Set(c, Fail(l))
    BY <1>8 DEF ReadTemplates
  <2>2. DOMAIN m = DOMAIN Blank /\ m.kind = l.kind /\ m.failed = l.failed
    BY <1>0 DEF Blank
  <2> HIDE DEF m
  <2> QED
    BY <1>0, <2>1, <2>2, SameWhenSet
<1>9. ASSUME NEW t \in l.todo, NextTemplate(c, t) PROVE SameRequest(c, l)
  <2> DEFINE m == [l EXCEPT !.todo = @ \ {t}, !.server = t.server, !.route = t.route]
  <2>1. Prepare(c, m)
    BY <1>9 DEF NextTemplate
  <2>2. DOMAIN m = DOMAIN Blank /\ m.kind = l.kind /\ m.failed = l.failed
    BY <1>0 DEF Blank
  <2> HIDE DEF m
  <2> QED
    BY <2>1, <2>2, PreparedSame
<1>10. CASE WriteDevice(c)
  <2>1. PICK clear : Set(c, [l EXCEPT !.stage = "invalidate", !.clear = clear]) \/ Set(c, Fail(l))
    BY <1>10 DEF WriteDevice
  <2> DEFINE m == [l EXCEPT !.stage = "invalidate", !.clear = clear]
  <2>2. DOMAIN m = DOMAIN Blank /\ m.kind = l.kind /\ m.failed = l.failed
    BY <1>0 DEF Blank
  <2>3. Set(c, m) \/ Set(c, Fail(l))
    BY <2>1
  <2> HIDE DEF m
  <2> QED
    BY <1>0, <2>2, <2>3, SameWhenSet
<1>11. ASSUME NEW q \in l.peers, DeleteRowOfDevice(c, q) PROVE SameRequest(c, l)
  BY <1>0, <1>11 DEF DeleteRowOfDevice, SameRequest, Others, Calls, Blank
<1>12. CASE DeleteDevice(c) \/ WriteInterface(c) \/ WriteTemplate(c)
  BY <1>0, <1>12, SameWhenSet DEF DeleteDevice, WriteInterface, WriteTemplate
<1>13. ASSUME NEW d \in l.todo, NextDevice(c, d) PROVE SameRequest(c, l)
  <2>1. PICK todo, seen, peers, left :
          Set(c, Proceed([l EXCEPT !.todo = todo, !.device = d, !.seen = seen, !.peers = peers,
                                   !.left = left]))
    BY <1>13 DEF NextDevice
  <2> DEFINE m == [l EXCEPT !.todo = todo, !.device = d, !.seen = seen, !.peers = peers,
                            !.left = left]
  <2>2. DOMAIN m = DOMAIN Blank /\ m.kind = l.kind /\ m.failed = l.failed
    BY <1>0 DEF Blank
  <2>3. Set(c, Proceed(m))
    BY <2>1
  <2> HIDE DEF m
  <2> QED
    BY <2>2, <2>3, SameWhenSet
<1>14. ASSUME NEW q \in l.peers, ResyncRow(c, q) PROVE SameRequest(c, l)
  <2> DEFINE m == [l EXCEPT !.peers = @ \ {q}, !.server = q.server, !.old = q,
                            !.route = l.plan[q.server]]
             n == [m EXCEPT !.stage = "delete"]
  <2>1. Set(c, n) \/ Recompute(c, m)
    BY <1>14 DEF ResyncRow
  <2>2. DOMAIN m = DOMAIN Blank /\ m.kind = l.kind /\ m.failed = l.failed
    BY <1>0 DEF Blank
  <2> HIDE DEF m
  <2>3. DOMAIN n = DOMAIN Blank /\ n.kind = l.kind /\ n.failed = l.failed
    BY <2>2 DEF Blank
  <2> HIDE DEF n
  <2> QED
    BY <2>1, <2>2, <2>3, SameWhenSet, RecomputedSame
<1>15. ASSUME NEW s \in l.left, ResyncMissing(c, s) PROVE SameRequest(c, l)
  <2> DEFINE m == [l EXCEPT !.left = @ \ {s}, !.server = s, !.old = None, !.route = l.plan[s]]
  <2>1. Recompute(c, m)
    BY <1>15 DEF ResyncMissing
  <2>2. DOMAIN m = DOMAIN Blank /\ m.kind = l.kind /\ m.failed = l.failed
    BY <1>0 DEF Blank
  <2> HIDE DEF m
  <2> QED
    BY <2>1, <2>2, RecomputedSame
<1> QED
  BY <1>1, <1>2, <1>3, <1>4, <1>5, <1>6, <1>7, <1>8, <1>9, <1>10, <1>11, <1>12, <1>13, <1>14,
     <1>15 DEF Continue

(* A step that leaves what devices are brought in line with as it is, but for   *)
(* an address more.                                                          *)
Harmless ==
    /\ UNCHANGED <<device, iface, row, template, disturbed>>
    /\ raced \subseteq raced'
    /\ \A d \in Device : addr[d] \subseteq addr'[d]

LEMMA HarmlessKeeps ==
    ASSUME Tables, NEW l, CallForm(l), Aligns(l), Harmless
    PROVE  Aligns(l)'
<1>1. \A s, d : d \in Device => Reach(s, d) \subseteq Reach(s, d)'
  BY DEF Harmless, Reach
<1>2. \A q \in row : Lined(q) => Lined(q)'
  BY <1>1 DEF Lined, Tables, RowForm, Row
<1>3. row' = row /\ template' = template /\ device' = device /\ raced \subseteq raced'
  BY DEF Harmless
<1>4. ResyncAligns(l) => ResyncAligns(l)'
  <2> SUFFICES ASSUME ResyncAligns(l) PROVE ResyncAligns(l)'
    OBVIOUS
  <2>1. PlanIsTemplates(l)'
    BY <1>3 DEF ResyncAligns, PlanIsTemplates
  <2>2. RowsAligned(l)'
    BY <1>2, <1>3 DEF ResyncAligns, RowsAligned, Pending
  <2>3. ServersAligned(l)'
    BY <1>3 DEF ResyncAligns, ServersAligned
  <2>4. HoldsRows(l)'
    BY <1>1, <1>3 DEF ResyncAligns, HoldsRows, CallForm, WriteForm
  <2> QED
    BY <2>1, <2>2, <2>3, <2>4 DEF ResyncAligns
<1>5. CreationAligns(l) => CreationAligns(l)'
  <2> SUFFICES ASSUME CreationAligns(l) PROVE CreationAligns(l)'
    OBVIOUS
  <2>1. l.stage \in {"check", "write"} => l.device \in Device
    BY DEF CallForm, WriteForm
  <2> QED
    BY <1>1, <1>2, <1>3, <2>1 DEF CreationAligns
<1> QED
  BY <1>4, <1>5 DEF Aligns

LEMMA ReadsHarmless ==
    ASSUME UNCHANGED <<table, history>>
    PROVE  Harmless
BY DEF Harmless, table, history

LEMMA AddressHarmless ==
    ASSUME Tables, NEW c \in Call, InsertAddress(c)
    PROVE  Harmless
<1> DEFINE l == call[c]
<1>1. /\ addr' = [addr EXCEPT ![l.device] = @ \cup l.before] \/ addr' = addr
      /\ UNCHANGED <<device, iface, row, template, history>>
  BY DEF InsertAddress
<1>2. \A d \in Device : addr[d] \subseteq addr'[d]
  BY <1>1 DEF Tables
<1> QED
  BY <1>1, <1>2 DEF Harmless, history

(* Every request either leaves the tables, or is noted by those that bring      *)
(* devices in line.                                                          *)
LEMMA HarmlessOrNoted ==
    ASSUME Tables, NEW c \in Call, Start(c) \/ Continue(c)
    PROVE  Harmless \/ Disturb(Call \ {c})
<1> USE ReadsHarmless
<1>1. CASE \E s \in Server, d \in Device, A \in Offer \cup {{}}, r \in Route :
             \/ CreateAdjacency(c, s, d, A, r)
             \/ \E q \in row : UpdateAdjacency(c, q, s, d, A, r)
  <2>1. ASSUME NEW l, Prepare(c, l) PROVE UNCHANGED <<table, history>>
    BY <2>1 DEF Prepare
  <2>2. \E l : Prepare(c, l)
    BY <1>1 DEF CreateAdjacency, UpdateAdjacency
  <2> QED
    BY <2>1, <2>2
<1>2. CASE \E q \in row : ReadRow(c, q)
  BY <1>2 DEF ReadRow
<1>3. CASE \E d \in Device : CreateDevice(c, d, Home[d])
  BY <1>3 DEF CreateDevice
<1>4. CASE \/ \E d \in Device, A \in Offer : UpdateDevice(c, d, A)
           \/ \E d \in Device : ReadRows(c, d)
           \/ \E s \in Server, i \in Iface : UpdateInterface(c, s, i)
  BY <1>4 DEF UpdateDevice, ReadRows, UpdateInterface
<1>5. CASE \E s \in Server, r \in Route :
             \/ CreateTemplate(c, s, r)
             \/ \E t \in template : UpdateTemplate(c, t, s, r)
  BY <1>5 DEF CreateTemplate, UpdateTemplate
<1>6. CASE \/ \E s \in Server : DeleteServer(c, s)
           \/ \E t \in template : DeleteTemplate(c, t)
  BY <1>6 DEF DeleteServer, DeleteTemplate
<1>7. CASE ReadPlan(c)
  BY <1>7 DEF ReadPlan
<1>8. CASE Start(c)
  BY <1>1, <1>2, <1>3, <1>4, <1>5, <1>6, <1>7, <1>8 DEF Start
<1>9. CASE Check(c) \/ WriteFails(c) \/ ReadTemplates(c)
  BY <1>9 DEF Check, WriteFails, ReadTemplates
<1>10. CASE InsertRow(c) \/ UpdateRow(c) \/ DeleteAdjacency(c)
  BY <1>10 DEF InsertRow, UpdateRow, DeleteAdjacency
<1>11. CASE Invalidate(c)
  BY <1>11 DEF Invalidate, Harmless, table
<1>12. CASE InsertAddress(c)
  BY <1>12, AddressHarmless
<1>13. CASE \E t \in call[c].todo : NextTemplate(c, t)
  BY <1>13 DEF NextTemplate, Prepare
<1>14. CASE WriteDevice(c)
  BY <1>14 DEF WriteDevice, Harmless
<1>15. CASE \E q \in call[c].peers : DeleteRowOfDevice(c, q)
  BY <1>15 DEF DeleteRowOfDevice
<1>16. CASE DeleteDevice(c)
  BY <1>16 DEF DeleteDevice, Harmless
<1>17. CASE WriteInterface(c) \/ WriteTemplate(c)
  BY <1>17 DEF WriteInterface, WriteTemplate, Harmless
<1>18. CASE \/ \E d \in call[c].todo : NextDevice(c, d)
            \/ \E q \in call[c].peers : ResyncRow(c, q)
            \/ \E s \in call[c].left : ResyncMissing(c, s)
  BY <1>18 DEF NextDevice, ResyncRow, ResyncMissing
<1> QED
  BY <1>8, <1>9, <1>10, <1>11, <1>12, <1>13, <1>14, <1>15, <1>16, <1>17, <1>18 DEF Continue

(* So a request that is not disturbed finds what it left, unless it is its own   *)
(* step.                                                                     *)
LEMMA OthersAlign ==
    ASSUME Tables, Calls, Aligning, NEW c \in Call, Start(c) \/ Continue(c), Others(c),
           NEW b \in Call \ {c}, b \notin disturbed'
    PROVE  Aligns(call[b])'
<1> DEFINE l == call[b]
<1>1. call'[b] = l
  BY DEF Others
<1>2. CASE l.kind \notin {"resync", "createDevice"}
  BY <1>1, <1>2 DEF Aligns
<1>3. CASE l.kind \in {"resync", "createDevice"}
  <2>1. ~Disturb(Call \ {c})
    BY <1>3 DEF Disturb
  <2>2. Harmless
    BY <2>1, HarmlessOrNoted
  <2>3. b \notin disturbed
    BY <2>2 DEF Harmless
  <2>4. PICK k : k = l
    OBVIOUS
  <2>5. Aligns(k)
    BY <2>3, <2>4 DEF Aligning
  <2>8. CallForm(k)
    BY <2>4 DEF Calls
  <2>6. Aligns(k)'
    BY <2>2, <2>5, <2>8, HarmlessKeeps
  <2>7. call'[b] = k
    BY <1>1, <2>4
  <2> HIDE DEF l
  <2> QED
    BY <2>6, <2>7
<1> QED
  BY <1>2, <1>3

-----------------------------------------------------------------------------
(* A resynchronisation keeps to its plan.                                      *)

(* Between two rows: nothing is about to be changed.                           *)
Settled(l) ==
    /\ DOMAIN l = DOMAIN Blank /\ l.kind = "resync"
    /\ PlanIsTemplates(l)
    /\ \A q \in row : q.device \in (Own \cap device) \ l.todo =>
          q \in l.peers \/ q.id \in raced \/ (q.route = l.plan[q.server] /\ Lined(q))
    /\ \A d \in (Own \cap device) \ l.todo, s \in Server : l.plan[s] # None =>
          (\E q \in row : q.device = d /\ q.server = s) \/ (d = l.device /\ s \in l.left)
    /\ l.peers \subseteq row

LEMMA SettledWhen ==
    ASSUME NEW l, DOMAIN l = DOMAIN Blank, l.kind = "resync", ResyncAligns(l),
           l.stage \notin {"write", "delete"}
    PROVE  Settled(l)
BY DEF ResyncAligns, RowsAligned, ServersAligned, HoldsRows, Pending, Settled

LEMMA SettledProceeds ==
    ASSUME NEW l, Settled(l)
    PROVE  Aligns(Proceed(l)) /\ Aligns(Fail(l))
<1>1. PICK m : m = Proceed(l)
  OBVIOUS
<1>2. /\ m.kind = "resync" /\ m.device = l.device /\ m.plan = l.plan /\ m.todo = l.todo
      /\ m.peers = l.peers /\ m.left = l.left
      /\ m.stage \in {"server", "next", "done"}
      /\ m.stage \in {"next", "done"} => l.peers = {} /\ l.left = {}
      /\ m.stage = "done" => l.todo = {}
  BY <1>1, Proceeding, ProceedsTo DEF Settled, AsBefore
<1>3. PlanIsTemplates(m)
  BY <1>2 DEF Settled, PlanIsTemplates
<1>4. RowsAligned(m) /\ ServersAligned(m)
  BY <1>2 DEF Settled, RowsAligned, ServersAligned, Pending
<1>5. HoldsRows(m)
  BY <1>2 DEF Settled, HoldsRows
<1>6. Aligns(m)
  BY <1>2, <1>3, <1>4, <1>5 DEF Aligns, ResyncAligns
<1>7. Fail(l).failed = TRUE
  BY FailsTo DEF Settled
<1> QED
  BY <1>1, <1>6, <1>7 DEF Aligns

LEMMA ReadPlanAligns ==
    ASSUME Tables, OnePerServer, Calls, NEW c \in Call, ReadPlan(c),
           NEW m, m = call'[c]
    PROVE  Aligns(m)
<1>1. PICK f \in OneEach(template) :
        Begin(c, Proceed([Request("resync", "next", None, None) EXCEPT
            !.plan = [s \in Server |-> IF s \in DOMAIN f THEN f[s].route ELSE None],
            !.todo = Own \cap device]))
  BY DEF ReadPlan
<1> DEFINE plan == [s \in Server |-> IF s \in DOMAIN f THEN f[s].route ELSE None]
           r == [Request("resync", "next", None, None) EXCEPT !.plan = plan, !.todo = Own \cap device]
<1>2. \A t \in template : plan[t.server] = t.route \/ t.id \in raced
  <2> SUFFICES ASSUME NEW t \in template PROVE plan[t.server] = t.route \/ t.id \in raced
    OBVIOUS
  <2>1. /\ t.server \in Server /\ t.server \in DOMAIN f
        /\ f[t.server] \in template /\ f[t.server].server = t.server
    BY DEF Tables, OneEach
  <2>2. f[t.server] = t \/ t.id \in raced
    BY <2>1 DEF OnePerServer
  <2> QED
    BY <2>1, <2>2
<1>3. \A s \in Server : plan[s] # None => \E t \in template : t.server = s /\ t.route = plan[s]
  BY DEF OneEach
<1>4. Begin(c, Proceed(r))
  BY <1>1
<1> HIDE DEF plan
<1>5. /\ DOMAIN r = DOMAIN Blank /\ r.kind = "resync" /\ r.plan = plan
      /\ r.todo = Own \cap device /\ r.peers = {} /\ r.left = {}
  BY DEF Request, Blank
<1> HIDE DEF r
<1>6. Settled(r)
  BY <1>2, <1>3, <1>5 DEF Settled, PlanIsTemplates
<1>7. call'[c] = Proceed(r)
  BY <1>4, Begun
<1> QED
  BY <1>6, <1>7, SettledProceeds

LEMMA NextDeviceAligns ==
    ASSUME Tables, OnePerServer, Calls, NEW c \in Call, Aligns(call[c]), ~call[c].failed,
           NEW d \in call[c].todo, NextDevice(c, d), NEW m, m = call'[c]
    PROVE  Aligns(m)
<1> DEFINE l == call[c]
           rows == {q \in row : q.device = d}
<1>1. PICK f \in OneEach(rows) :
        Set(c, Proceed([l EXCEPT
            !.todo = @ \ {d}, !.device = d, !.seen = rows,
            !.peers = {f[s] : s \in DOMAIN f},
            !.left = {s \in Server \ DOMAIN f : l.plan[s] # None}]))
  BY DEF NextDevice
<1> DEFINE peers == {f[s] : s \in DOMAIN f}
           left == {s \in Server \ DOMAIN f : l.plan[s] # None}
           r == [l EXCEPT !.todo = @ \ {d}, !.device = d, !.seen = rows, !.peers = peers,
                          !.left = left]
<1>2. l.kind = "resync" /\ l.stage = "next" /\ DOMAIN l = DOMAIN Blank
  BY DEF NextDevice, Calls, CallForm
<1>3. call'[c] = Proceed(r)
  BY <1>1, SetTo
<1>4. Settled(l) /\ l.peers = {} /\ l.left = {}
  <2>1. ResyncAligns(l)
    BY <1>2 DEF Aligns
  <2> QED
    BY <1>2, <2>1, SettledWhen DEF ResyncAligns, HoldsRows
<1>5. /\ peers \subseteq rows
      /\ \A s \in DOMAIN f : f[s] \in rows /\ f[s].server = s
      /\ \A q \in rows : q.server \in DOMAIN f
  BY DEF OneEach
<1>6. \A q \in rows : q \in peers \/ q.id \in raced
  <2> SUFFICES ASSUME NEW q \in rows PROVE q \in peers \/ q.id \in raced
    OBVIOUS
  <2>1. f[q.server] \in row /\ SamePair(f[q.server], q) /\ f[q.server] \in peers
    BY <1>5 DEF SamePair
  <2> QED
    BY <2>1 DEF OnePerServer
<1>7. \A s \in Server : l.plan[s] # None => s \in left \/ s \in DOMAIN f
  OBVIOUS
<1>8. rows \subseteq row /\ \A q \in row : q \in rows <=> q.device = d
  OBVIOUS
<1> HIDE DEF peers, left, rows
<1>9. /\ DOMAIN r = DOMAIN Blank /\ r.kind = "resync" /\ r.plan = l.plan
      /\ r.todo = l.todo \ {d} /\ r.device = d /\ r.peers = peers /\ r.left = left
  BY <1>2 DEF Blank
<1> HIDE DEF r, l
<1>10. \A q \in row : q.device \in (Own \cap device) \ r.todo =>
          q \in r.peers \/ q.id \in raced \/ (q.route = r.plan[q.server] /\ Lined(q))
  BY <1>4, <1>6, <1>8, <1>9 DEF Settled
<1>11. \A e \in (Own \cap device) \ r.todo, s \in Server : r.plan[s] # None =>
          (\E q \in row : q.device = e /\ q.server = s) \/ (e = r.device /\ s \in r.left)
  <2> SUFFICES ASSUME NEW e \in (Own \cap device) \ r.todo, NEW s \in Server, r.plan[s] # None
               PROVE  (\E q \in row : q.device = e /\ q.server = s) \/ (e = r.device /\ s \in r.left)
    OBVIOUS
  <2>1. CASE e = d
    <3>1. CASE s \in DOMAIN f
      BY <1>5, <1>8, <2>1, <3>1
    <3>2. CASE s \notin DOMAIN f
      BY <1>7, <1>9, <2>1, <3>2
    <3> QED
      BY <3>1, <3>2
  <2>2. CASE e # d
    BY <1>4, <1>9, <2>2 DEF Settled
  <2> QED
    BY <2>1, <2>2
<1>12. Settled(r)
  BY <1>4, <1>5, <1>8, <1>9, <1>10, <1>11 DEF Settled, PlanIsTemplates
<1> QED
  BY <1>3, <1>12, SettledProceeds

(* At the turn to the next server, before the address is read.                *)
Turning(l) ==
    /\ DOMAIN l = DOMAIN Blank /\ l.kind = "resync" /\ l.stage = "server"
    /\ PlanIsTemplates(l)
    /\ \A q \in row : q.device \in (Own \cap device) \ l.todo =>
          q \in l.peers \/ q = l.old \/ q.id \in raced \/ (q.route = l.plan[q.server] /\ Lined(q))
    /\ \A d \in (Own \cap device) \ l.todo, s \in Server : l.plan[s] # None =>
          \/ \E q \in row : q.device = d /\ q.server = s
          \/ d = l.device /\ s \in l.left
          \/ d = l.device /\ l.old = None /\ s = l.server
    /\ l.peers \subseteq row
    /\ l.route = l.plan[l.server]
    /\ l.old # None => l.old \in row /\ SamePair(l.old, l)

LEMMA RecomputedAligns ==
    ASSUME Calls, NEW c \in Call, NEW l, Turning(l), Recompute(c, l), NEW m, m = call'[c]
    PROVE  Aligns(m)
<1>1. CASE Set(c, Fail(l))
  <2>1. m = Fail(l)
    BY <1>1, SetTo
  <2>2. m.failed = TRUE
    BY <2>1, FailsTo DEF Turning
  <2> QED
    BY <2>2 DEF Aligns
<1>2. ASSUME NEW ip \in Reach(l.server, l.device), InPlace(l, ip), Set(c, Proceed(l))
      PROVE  Aligns(m)
  <2>1. m = Proceed(l)
    BY <1>2, SetTo
  <2>2. l.old # None /\ l.old \in row /\ SamePair(l.old, l)
    BY <1>2 DEF InPlace, Turning
  <2>3. l.old.route = l.plan[l.old.server] /\ Lined(l.old)
    BY <1>2, <2>2 DEF InPlace, Turning, SamePair, Lined
  <2>4. Settled(l)
    BY <2>2, <2>3 DEF Turning, Settled
  <2> QED
    BY <2>1, <2>4, SettledProceeds
<1>3. ASSUME NEW ip \in Reach(l.server, l.device), NEW seen,
             Set(c, [l EXCEPT !.stage = "write", !.ip = ip, !.addrs = {ip},
                              !.iface = iface[l.server], !.seen = seen])
      PROVE  Aligns(m)
  <2>1. m = [l EXCEPT !.stage = "write", !.ip = ip, !.addrs = {ip},
                      !.iface = iface[l.server], !.seen = seen]
    BY <1>3, SetTo
  <2>2. /\ m.kind = "resync" /\ m.stage = "write" /\ m.ip = ip /\ m.addrs = {ip}
        /\ m.server = l.server /\ m.device = l.device /\ m.route = l.route /\ m.old = l.old
        /\ m.todo = l.todo /\ m.peers = l.peers /\ m.left = l.left /\ m.plan = l.plan
    BY <2>1 DEF Turning, Blank
  <2>3. PlanIsTemplates(m) /\ RowsAligned(m) /\ ServersAligned(m)
    BY <2>2 DEF Turning, PlanIsTemplates, RowsAligned, ServersAligned, Pending
  <2>4. HoldsRows(m)
    BY <1>3, <2>2 DEF Turning, HoldsRows, SamePair
  <2> QED
    BY <2>2, <2>3, <2>4 DEF Aligns, ResyncAligns
<1> QED
  BY <1>1, <1>2, <1>3 DEF Recompute

LEMMA ResyncRowAligns ==
    ASSUME Calls, NEW c \in Call, Aligns(call[c]), ~call[c].failed,
           NEW q \in call[c].peers, ResyncRow(c, q), NEW m, m = call'[c]
    PROVE  Aligns(m)
<1> DEFINE k == call[c]
           l == [k EXCEPT !.peers = @ \ {q}, !.server = q.server, !.old = q,
                          !.route = k.plan[q.server]]
<1>1. /\ k.kind = "resync" /\ k.stage = "server" /\ DOMAIN k = DOMAIN Blank
      /\ ResyncForm(k)
  BY DEF ResyncRow, Calls, CallForm
<1>2. IF l.route = None THEN Set(c, [l EXCEPT !.stage = "delete"]) ELSE Recompute(c, l)
  BY DEF ResyncRow
<1>3. /\ DOMAIN l = DOMAIN Blank /\ l.stage = "server" /\ l.kind = "resync"
      /\ l.peers = k.peers \ {q} /\ l.server = q.server /\ l.old = q
      /\ l.route = k.plan[q.server] /\ l.device = k.device
      /\ l.todo = k.todo /\ l.left = k.left /\ l.plan = k.plan
  BY <1>1 DEF Blank
<1> HIDE DEF l
<1>4. Settled(k)
  <2>1. ResyncAligns(k)
    BY <1>1 DEF Aligns
  <2> QED
    BY <1>1, <2>1, SettledWhen
<1>5. q \in row /\ q.device = k.device
  BY <1>1, <1>4 DEF Settled, ResyncForm
<1> HIDE DEF k
<1>6. Turning(l)
  <2>1. l.old # None => l.old \in row /\ SamePair(l.old, l)
    BY <1>3, <1>5 DEF SamePair
  <2> QED
    BY <1>3, <1>4, <2>1 DEF Settled, Turning, PlanIsTemplates
<1>7. CASE l.route = None
  <2>1. m = [l EXCEPT !.stage = "delete"]
    BY <1>2, <1>7, SetTo
  <2>2. /\ m.stage = "delete" /\ m.kind = "resync" /\ m.peers = l.peers /\ m.old = q
        /\ m.server = l.server
        /\ m.device = l.device /\ m.todo = l.todo /\ m.left = l.left /\ m.plan = l.plan
    BY <1>3, <2>1 DEF Blank
  <2>3. PlanIsTemplates(m) /\ RowsAligned(m)
    BY <1>3, <1>6, <2>2 DEF Turning, PlanIsTemplates, RowsAligned, Pending
  <2>4. ServersAligned(m)
    BY <1>3, <1>4, <2>2 DEF Settled, ServersAligned
  <2>5. HoldsRows(m)
    BY <1>3, <1>5, <1>6, <1>7, <2>2 DEF Turning, HoldsRows, SamePair
  <2> QED
    BY <2>2, <2>3, <2>4, <2>5 DEF Aligns, ResyncAligns
<1>8. CASE l.route # None
  BY <1>2, <1>6, <1>8, RecomputedAligns
<1> QED
  BY <1>7, <1>8

LEMMA ResyncMissingAligns ==
    ASSUME Calls, NEW c \in Call, Aligns(call[c]), ~call[c].failed,
           NEW s \in call[c].left, ResyncMissing(c, s), NEW m, m = call'[c]
    PROVE  Aligns(m)
<1> DEFINE k == call[c]
           l == [k EXCEPT !.left = @ \ {s}, !.server = s, !.old = None, !.route = k.plan[s]]
<1>1. k.kind = "resync" /\ k.stage = "server" /\ DOMAIN k = DOMAIN Blank
  BY DEF ResyncMissing, Calls, CallForm
<1>2. Recompute(c, l)
  BY DEF ResyncMissing
<1>3. /\ DOMAIN l = DOMAIN Blank /\ l.stage = "server" /\ l.kind = "resync"
      /\ l.peers = k.peers /\ l.server = s /\ l.old = None
      /\ l.route = k.plan[s] /\ l.device = k.device
      /\ l.todo = k.todo /\ l.left = k.left \ {s} /\ l.plan = k.plan
  BY <1>1 DEF Blank
<1> HIDE DEF l
<1>4. Settled(k)
  <2>1. ResyncAligns(k)
    BY <1>1 DEF Aligns
  <2> QED
    BY <1>1, <2>1, SettledWhen
<1> HIDE DEF k
<1>5. Turning(l)
  BY <1>3, <1>4 DEF Settled, Turning, PlanIsTemplates
<1> QED
  BY <1>2, <1>5, RecomputedAligns

(* The row of a resynchronisation or of a creation is inserted. *)
LEMMA InsertRowAligns ==
    ASSUME Tables, Calls, NEW c \in Call, Aligns(call[c]), ~call[c].failed, InsertRow(c)
    PROVE  Aligns(call[c])'
<1>1. PICK l : l = call[c]
  OBVIOUS
<1> DEFINE new == [id |-> <<c, l.made>>, server |-> l.server, device |-> l.device,
                   addrs |-> l.addrs \cup {l.ip}, route |-> l.route, ip |-> l.ip]
           k == [l EXCEPT !.stage = "invalidate", !.clear = {l.device}, !.seen = @ \cup {new},
                          !.made = @ + 1]
<1>2. /\ l.kind # "update" /\ l.stage = "write" /\ l.old = None
      /\ l.server \in server /\ l.device \in device
      /\ row' = row \cup {new}
      /\ raced \subseteq raced'
      /\ Set(c, k)
      /\ UNCHANGED <<server, device, addr, iface, template>>
  BY <1>1 DEF InsertRow
<1>3. /\ DOMAIN l = DOMAIN Blank /\ WriteForm(l) /\ Aligns(l) /\ ~l.failed
      /\ l.kind = "resync" => ResyncForm(l)
  BY <1>1, <1>2 DEF Calls, CallForm
<1>4. PICK m : m = call'[c]
  OBVIOUS
<1>5. /\ m.kind = l.kind /\ m.stage = "invalidate" /\ m.device = l.device /\ m.addrs = l.addrs
      /\ m.todo = l.todo /\ m.peers = l.peers /\ m.left = l.left /\ m.plan = l.plan
  <2>1. m = k
    BY <1>2, <1>4, SetTo
  <2> QED
    BY <1>3, <2>1 DEF Blank
<1>6. PICK n : n = new
  OBVIOUS
<1>7. /\ row' = row \cup {n} /\ n.server = l.server /\ n.device = l.device /\ n.route = l.route
      /\ n.addrs = l.addrs \cup {l.ip}
  BY <1>2, <1>6
<1> HIDE DEF new, k
<1>8. \A q : Lined(q)' <=> Lined(q)
  BY <1>2 DEF Lined, Reach
<1>9. CASE l.kind = "resync"
  <2>1. ResyncAligns(l)
    BY <1>3, <1>9 DEF Aligns
  <2>2. /\ l.route = l.plan[l.server] /\ l.addrs = {l.ip} /\ l.ip \in Reach(l.server, l.device)
        /\ l.peers \subseteq row
    BY <1>2, <2>1 DEF ResyncAligns, HoldsRows
  <2>3. Lined(n)
    BY <1>7, <2>2 DEF Lined
  <2>4. PlanIsTemplates(m)'
    BY <1>2, <1>5, <2>1 DEF ResyncAligns, PlanIsTemplates
  <2>5. RowsAligned(m)'
    <3> SUFFICES ASSUME NEW q \in row', q.device \in (Own \cap device) \ l.todo
                 PROVE  q \in l.peers \/ q.id \in raced' \/ (q.route = l.plan[q.server] /\ Lined(q))
      BY <1>2, <1>5, <1>8 DEF RowsAligned, Pending
    <3>1. CASE q = n
      BY <1>7, <2>2, <2>3, <3>1
    <3>2. CASE q \in row
      <4>1. Pending(l, q) \/ q.id \in raced \/ (q.route = l.plan[q.server] /\ Lined(q))
        BY <2>1, <3>2 DEF ResyncAligns, RowsAligned
      <4>2. q # None
        BY <3>2, NoneAssumption DEF Tables, RowForm
      <4> QED
        BY <1>2, <4>1, <4>2 DEF Pending
    <3> QED
      BY <1>7, <3>1, <3>2
  <2>6. ServersAligned(m)'
    BY <1>2, <1>5, <1>7, <2>1 DEF ResyncAligns, ServersAligned
  <2>7. HoldsRows(m)'
    BY <1>5, <1>7, <2>2 DEF HoldsRows
  <2>8. Aligns(m)'
    BY <1>5, <1>9, <2>4, <2>5, <2>6, <2>7 DEF Aligns, ResyncAligns
  <2> QED
    BY <1>4, <2>8
<1>10. CASE l.kind = "createDevice"
  <2>1. CreationAligns(l)
    BY <1>3, <1>10 DEF Aligns
  <2>2. Lined(n)
    BY <1>2, <1>7, <2>1 DEF CreationAligns, Lined
  <2>3. CreationAligns(m)'
    <3>1. /\ m.addrs = {} /\ m.todo \subseteq template'
      BY <1>2, <1>5, <2>1 DEF CreationAligns
    <3>2. \A q \in row' : q.device = m.device =>
              Lined(q)' /\ \E t \in template' : t.server = q.server /\ t.route = q.route
      BY <1>2, <1>5, <1>7, <1>8, <2>1, <2>2 DEF CreationAligns
    <3>3. \A t \in template' :
              t \in m.todo \/ \E q \in row' : q.device = m.device /\ q.server = t.server
                                              /\ q.route = t.route
      BY <1>2, <1>5, <1>7, <2>1 DEF CreationAligns
    <3> QED
      BY <1>5, <3>1, <3>2, <3>3 DEF CreationAligns
  <2>4. Aligns(m)'
    BY <1>5, <1>10, <2>3 DEF Aligns
  <2> QED
    BY <1>4, <2>4
<1>11. CASE l.kind \notin {"resync", "createDevice"}
  <2>1. Aligns(m)'
    BY <1>5, <1>11 DEF Aligns
  <2> QED
    BY <1>4, <2>1
<1> QED
  BY <1>9, <1>10, <1>11

(* A resynchronisation updates the row it has come to. *)
LEMMA UpdateRowAligns ==
    ASSUME Tables, Calls, Knowing, NEW c \in Call, Aligns(call[c]), ~call[c].failed, UpdateRow(c),
           call[c].kind \in {"resync", "createDevice"}
    PROVE  Aligns(call[c])'
<1>1. PICK l : l = call[c]
  OBVIOUS
<1>2. /\ l.stage = "write" /\ l.old # None /\ l.server \in server /\ l.device \in device
      /\ raced \subseteq raced'
      /\ UNCHANGED <<server, device, addr, iface, template>>
  BY <1>1 DEF UpdateRow
<1> DEFINE made(q) == [id |-> q.id, server |-> l.server, device |-> l.device, addrs |-> Kept(l, q),
                       route |-> l.route, ip |-> IF l.ip \in Kept(l, q) THEN l.ip ELSE None]
           k(clear, new) == [l EXCEPT !.stage = "invalidate", !.clear = clear,
                                      !.seen = @ \cup {new}]
<1>3a. PICK q \in row :
        /\ q.id = l.old.id
        /\ row' = (row \ {q}) \cup {made(q)}
        /\ Set(c, k(Concerned(l.old, made(q)), made(q)))
  BY <1>1 DEF UpdateRow
<1>3b. PICK new : new = made(q)
  OBVIOUS
<1>3c. PICK clear : clear = Concerned(l.old, made(q))
  OBVIOUS
<1>3. /\ q.id = l.old.id
      /\ row' = (row \ {q}) \cup {new}
      /\ Set(c, k(clear, new))
  BY <1>3a, <1>3b, <1>3c
<1>4. /\ DOMAIN l = DOMAIN Blank /\ WriteForm(l) /\ Aligns(l) /\ ~l.failed
      /\ l.kind = "resync"
  BY <1>1, <1>2 DEF Calls, CallForm, WriteForm
<1>5. ResyncAligns(l)
  BY <1>4 DEF Aligns
<1>6. /\ l.route = l.plan[l.server] /\ l.addrs = {l.ip} /\ l.ip \in Reach(l.server, l.device)
      /\ l.peers \subseteq row /\ l.old \in row /\ SamePair(l.old, l)
  BY <1>2, <1>5 DEF ResyncAligns, HoldsRows
<1>7. q = l.old
  BY <1>3, <1>6 DEF Tables
<1>8. PICK m : m = call'[c]
  OBVIOUS
<1>9. /\ m.kind = "resync" /\ m.stage = "invalidate" /\ m.device = l.device
      /\ m.todo = l.todo /\ m.peers = l.peers /\ m.left = l.left /\ m.plan = l.plan
  <2>1. m = k(clear, new)
    BY <1>3, <1>8, SetTo
  <2> QED
    BY <1>4, <2>1 DEF Blank
<1>10. /\ new.server = l.server /\ new.device = l.device /\ new.route = l.route
       /\ new.addrs = l.addrs
  BY <1>3b, <1>6 DEF Kept
<1> HIDE DEF made, k
<1>11. \A r : Lined(r)' <=> Lined(r)
  BY <1>2 DEF Lined, Reach
<1>12. Lined(new)
  BY <1>6, <1>10 DEF Lined
<1>13. q \notin l.peers
  BY <1>1, <1>2, <1>4, <1>6, <1>7 DEF Knowing, Resyncs, SamePair
<1>14. PICK n : n = new
  OBVIOUS
<1>15. /\ row' = (row \ {q}) \cup {n} /\ n.server = q.server /\ n.device = q.device
       /\ n.server = l.server /\ n.route = l.route /\ Lined(n)
  BY <1>3, <1>6, <1>7, <1>10, <1>12, <1>14 DEF SamePair
<1>16. PlanIsTemplates(m)'
  BY <1>2, <1>5, <1>9 DEF ResyncAligns, PlanIsTemplates
<1>17. RowsAligned(m)'
  <2> SUFFICES ASSUME NEW r \in row', r.device \in (Own \cap device) \ l.todo
               PROVE  r \in l.peers \/ r.id \in raced' \/ (r.route = l.plan[r.server] /\ Lined(r))
    BY <1>2, <1>9, <1>11 DEF RowsAligned, Pending
  <2>1. CASE r = n
    BY <1>6, <1>15, <2>1
  <2>2. CASE r \in row /\ r # q
    <3>1. Pending(l, r) \/ r.id \in raced \/ (r.route = l.plan[r.server] /\ Lined(r))
      BY <1>5, <2>2 DEF ResyncAligns, RowsAligned
    <3> QED
      BY <1>2, <1>7, <2>2, <3>1 DEF Pending
  <2> QED
    BY <1>15, <2>1, <2>2
<1>18. ServersAligned(m)'
  <2> SUFFICES ASSUME NEW d \in (Own \cap device) \ l.todo, NEW s \in Server, l.plan[s] # None
               PROVE  (\E r \in row' : r.device = d /\ r.server = s) \/ (d = l.device /\ s \in l.left)
    BY <1>2, <1>9 DEF ServersAligned
  <2>1. (\E r \in row : r.device = d /\ r.server = s) \/ (d = l.device /\ s \in l.left)
    BY <1>2, <1>5 DEF ResyncAligns, ServersAligned
  <2> QED
    BY <1>15, <2>1
<1>19. HoldsRows(m)'
  BY <1>6, <1>9, <1>13, <1>15 DEF HoldsRows
<1>20. Aligns(m)'
  BY <1>9, <1>16, <1>17, <1>18, <1>19 DEF Aligns, ResyncAligns
<1> QED
  BY <1>8, <1>20

(* It deletes a row for whose server there is no template. *)
LEMMA DeleteAdjacencyAligns ==
    ASSUME Tables, Calls, Knowing, NEW c \in Call, Aligns(call[c]), ~call[c].failed,
           DeleteAdjacency(c), call[c].kind \in {"resync", "createDevice"}
    PROVE  Aligns(call[c])'
<1>1. PICK l : l = call[c]
  OBVIOUS
<1> DEFINE gone == {r \in row : r.id = l.old.id}
           k == [l EXCEPT !.stage = "invalidate", !.clear = {l.device}]
<1>2. /\ l.stage = "delete"
      /\ row' = row \ gone
      /\ Set(c, k)
      /\ UNCHANGED <<server, device, addr, iface, template, raced>>
  BY <1>1 DEF DeleteAdjacency
<1>3. DOMAIN l = DOMAIN Blank /\ Aligns(l) /\ ~l.failed /\ l.kind \in {"resync", "createDevice"}
  BY <1>1 DEF Calls, CallForm
<1>4. l.kind = "resync" /\ ResyncAligns(l)
  BY <1>2, <1>3 DEF Aligns, CreationAligns
<1>5. /\ l.old \in row /\ SamePair(l.old, l) /\ l.plan[l.server] = None /\ l.peers \subseteq row
  BY <1>2, <1>4 DEF ResyncAligns, HoldsRows
<1>6. gone = {l.old}
  BY <1>5 DEF Tables
<1>7. PICK m : m = call'[c]
  OBVIOUS
<1>8. /\ m.kind = "resync" /\ m.stage = "invalidate" /\ m.device = l.device
      /\ m.todo = l.todo /\ m.peers = l.peers /\ m.left = l.left /\ m.plan = l.plan
  <2>1. m = k
    BY <1>2, <1>7, SetTo
  <2> QED
    BY <1>3, <1>4, <2>1 DEF Blank
<1> HIDE DEF gone, k
<1>9. row' = row \ {l.old}
  BY <1>2, <1>6
<1>10. \A r : Lined(r)' <=> Lined(r)
  BY <1>2 DEF Lined, Reach
<1>11. l.old \notin l.peers
  BY <1>1, <1>2, <1>4, <1>5 DEF Knowing, Resyncs, SamePair
<1>12. PlanIsTemplates(m)'
  BY <1>2, <1>4, <1>8 DEF ResyncAligns, PlanIsTemplates
<1>13. RowsAligned(m)'
  BY <1>2, <1>4, <1>8, <1>9, <1>10 DEF ResyncAligns, RowsAligned, Pending
<1>14. ServersAligned(m)'
  <2> SUFFICES ASSUME NEW d \in (Own \cap device) \ l.todo, NEW s \in Server, l.plan[s] # None
               PROVE  (\E r \in row' : r.device = d /\ r.server = s) \/ (d = l.device /\ s \in l.left)
    BY <1>2, <1>8 DEF ServersAligned
  <2>1. (\E r \in row : r.device = d /\ r.server = s) \/ (d = l.device /\ s \in l.left)
    BY <1>2, <1>4 DEF ResyncAligns, ServersAligned
  <2>2. s # l.old.server
    BY <1>5 DEF SamePair
  <2> QED
    BY <1>9, <2>1, <2>2
<1>15. HoldsRows(m)'
  BY <1>5, <1>8, <1>9, <1>11 DEF HoldsRows
<1>16. Aligns(m)'
  BY <1>8, <1>12, <1>13, <1>14, <1>15 DEF Aligns, ResyncAligns
<1> QED
  BY <1>7, <1>16

-----------------------------------------------------------------------------
(* A creation follows the templates.                                          *)

(* Between two templates.                                                     *)
Following(l) ==
    /\ DOMAIN l = DOMAIN Blank /\ l.kind = "createDevice" /\ l.addrs = {}
    /\ l.todo \subseteq template
    /\ \A q \in row : q.device = l.device =>
          Lined(q) /\ \E t \in template : t.server = q.server /\ t.route = q.route
    /\ \A t \in template :
          t \in l.todo \/ \E q \in row : q.device = l.device /\ q.server = t.server
                                         /\ q.route = t.route

LEMMA FollowingProceeds ==
    ASSUME NEW l, Following(l)
    PROVE  Aligns(Proceed(l)) /\ Aligns(Fail(l))
<1>1. PICK m : m = Proceed(l)
  OBVIOUS
<1>2. /\ m.kind = "createDevice" /\ m.device = l.device /\ m.addrs = {} /\ m.todo = l.todo
      /\ m.stage \in {"next", "done"}
      /\ m.stage = "done" => l.todo = {}
  BY <1>1, Proceeding, ProceedsTo DEF Following, AsBefore
<1>3. CreationAligns(m)
  BY <1>2 DEF CreationAligns, Following
<1>4. Fail(l).failed = TRUE
  BY FailsTo DEF Following
<1> QED
  BY <1>1, <1>2, <1>3, <1>4 DEF Aligns

LEMMA CreateDeviceAligns ==
    ASSUME Calls, NEW c \in Call, NEW d \in Device, CreateDevice(c, d, Home[d])
    PROVE  Aligns(call[c])'
<1> DEFINE r == Request("createDevice", "address", None, d)
           m == [r EXCEPT !.before = {Home[d]}]
<1>1. Begin(c, m)
  BY DEF CreateDevice
<1>2. m.kind = "createDevice" /\ m.stage = "address" /\ m.addrs = {}
  BY DEF Request, Blank
<1>3. call'[c] = m
  BY <1>1, Begun
<1> HIDE DEF m
<1>4. PICK k : k = m
  OBVIOUS
<1>5. Aligns(k)'
  BY <1>2, <1>4 DEF Aligns, CreationAligns
<1> QED
  BY <1>3, <1>4, <1>5

LEMMA InsertAddressAligns ==
    ASSUME Calls, NEW c \in Call, Aligns(call[c]), ~call[c].failed, InsertAddress(c),
           NEW m, m = call'[c]
    PROVE  Aligns(m)
<1> DEFINE l == call[c]
           k == [l EXCEPT !.stage = "templates"]
<1>1. l.stage = "address" /\ (Set(c, k) \/ Set(c, Fail(l)))
  BY DEF InsertAddress
<1>2. l.kind = "createDevice" /\ DOMAIN l = DOMAIN Blank
  BY <1>1 DEF Calls, CallForm
<1>3. l.addrs = {}
  BY <1>2 DEF Aligns, CreationAligns
<1>4. k.kind = "createDevice" /\ k.stage = "templates" /\ k.addrs = {}
  BY <1>2, <1>3 DEF Blank
<1>5. Fail(l).failed = TRUE
  BY <1>2, FailsTo
<1> HIDE DEF k
<1>6. m \in {k, Fail(l)}
  BY <1>1, SetTo
<1> QED
  BY <1>4, <1>5, <1>6 DEF Aligns, CreationAligns

LEMMA ReadTemplatesAligns ==
    ASSUME Calls, NEW c \in Call, Aligns(call[c]), ~call[c].failed, ReadTemplates(c),
           NEW m, m = call'[c]
    PROVE  Aligns(m)
<1> DEFINE l == call[c]
           k == [l EXCEPT !.todo = template]
<1>1. /\ l.stage = "templates"
      /\ Set(c, Fail(l)) \/ (Set(c, Proceed(k)) /\ ~Connected(l.device))
  BY DEF ReadTemplates
<1>2. l.kind = "createDevice" /\ DOMAIN l = DOMAIN Blank
  BY <1>1 DEF Calls, CallForm
<1>3. l.addrs = {}
  BY <1>2 DEF Aligns, CreationAligns
<1>4. /\ DOMAIN k = DOMAIN Blank /\ k.kind = "createDevice" /\ k.addrs = {}
      /\ k.todo = template /\ k.device = l.device
  BY <1>2, <1>3 DEF Blank
<1>5. Fail(l).failed = TRUE
  BY <1>2, FailsTo
<1> HIDE DEF k
<1>6. CASE Set(c, Proceed(k)) /\ ~Connected(l.device)
  <2>1. m = Proceed(k)
    BY <1>6, SetTo
  <2>2. Following(k)
    BY <1>4, <1>6 DEF Following, Connected
  <2> QED
    BY <2>1, <2>2, FollowingProceeds
<1>7. CASE Set(c, Fail(l))
  BY <1>5, <1>7, SetTo DEF Aligns
<1> QED
  BY <1>1, <1>6, <1>7

LEMMA NextTemplateAligns ==
    ASSUME Calls, NEW c \in Call, Aligns(call[c]), ~call[c].failed, NEW t \in call[c].todo,
           NextTemplate(c, t), NEW m, m = call'[c]
    PROVE  Aligns(m)
<1> DEFINE k == call[c]
           l == [k EXCEPT !.todo = @ \ {t}, !.server = t.server, !.route = t.route]
           n(ip) == [l EXCEPT !.stage = "check", !.ip = ip, !.iface = iface[l.server],
                              !.seen = Near(l.server, l.device)]
<1>1. k.kind = "createDevice" /\ k.stage = "next" /\ Prepare(c, l)
  BY DEF NextTemplate
<1>2. CreationAligns(k) /\ DOMAIN k = DOMAIN Blank
  BY <1>1 DEF Aligns, Calls, CallForm
<1>3. /\ DOMAIN l = DOMAIN Blank /\ l.kind = "createDevice" /\ l.device = k.device
      /\ l.addrs = k.addrs /\ l.todo = k.todo \ {t} /\ l.server = t.server /\ l.route = t.route
  BY <1>1, <1>2 DEF Blank
<1>4. (\E ip \in Reach(l.server, l.device) : Set(c, n(ip))) \/ Set(c, Fail(l))
  BY <1>1 DEF Prepare
<1> HIDE DEF l
<1>5. ASSUME NEW ip \in Reach(l.server, l.device), Set(c, n(ip))
      PROVE  Aligns(m)
  <2>1. m = n(ip)
    BY <1>5, SetTo
  <2>2. /\ m.kind = "createDevice" /\ m.stage = "check" /\ m.ip = ip /\ m.device = k.device
        /\ m.addrs = k.addrs /\ m.todo = k.todo \ {t} /\ m.server = t.server /\ m.route = t.route
    BY <1>3, <2>1 DEF Blank
  <2> HIDE DEF n, k
  <2>3. m.ip \in Reach(m.server, m.device)
    BY <1>3, <2>2
  <2>4. /\ t \in k.todo /\ k.todo \subseteq template /\ k.addrs = {}
        /\ \A q \in row : q.device = k.device =>
              Lined(q) /\ \E u \in template : u.server = q.server /\ u.route = q.route
        /\ \A u \in template :
              u \in k.todo \/ \E q \in row : q.device = k.device /\ q.server = u.server
                                             /\ q.route = u.route
    <3>1. t \in k.todo
      BY DEF k
    <3> QED
      BY <1>1, <1>2, <3>1 DEF CreationAligns
  <2>5. \A u \in template :
           \/ u \in m.todo
           \/ m.stage \in {"check", "write"} /\ m.server = u.server /\ m.route = u.route
           \/ \E q \in row : q.device = m.device /\ q.server = u.server /\ q.route = u.route
    BY <2>2, <2>4
  <2>6. \E u \in template : u.server = m.server /\ u.route = m.route
    BY <2>2, <2>4
  <2>7. CreationAligns(m)
    BY <2>2, <2>3, <2>4, <2>5, <2>6 DEF CreationAligns
  <2> QED
    BY <2>2, <2>7 DEF Aligns
<1>6. CASE Set(c, Fail(l))
  <2>1. m = Fail(l)
    BY <1>6, SetTo
  <2>2. Fail(l).failed = TRUE
    BY <1>3, FailsTo
  <2> QED
    BY <2>1, <2>2 DEF Aligns
<1> HIDE DEF n
<1> QED
  BY <1>4, <1>5, <1>6

LEMMA CheckAligns ==
    ASSUME Calls, NEW c \in Call, Aligns(call[c]), ~call[c].failed, Check(c), NEW m, m = call'[c]
    PROVE  Aligns(m)
<1> DEFINE l == call[c]
           k == [l EXCEPT !.stage = "write", !.seen = @ \cap row]
<1>1. l.stage = "check" /\ (Set(c, k) \/ Set(c, Fail(l)))
  BY DEF Check
<1>2. DOMAIN l = DOMAIN Blank /\ l.kind # "resync"
  BY <1>1 DEF Calls, CallForm
<1>3. Fail(l).failed = TRUE
  BY <1>2, FailsTo
<1>4. /\ k.kind = l.kind /\ k.stage = "write" /\ k.ip = l.ip /\ k.device = l.device
      /\ k.addrs = l.addrs /\ k.todo = l.todo /\ k.server = l.server /\ k.route = l.route
  BY <1>2 DEF Blank
<1> HIDE DEF k
<1>5. Aligns(k)
  <2>1. CASE l.kind = "createDevice"
    <3>1. CreationAligns(l)
      BY <2>1 DEF Aligns
    <3>2. CreationAligns(k)
      BY <1>1, <1>4, <3>1 DEF CreationAligns
    <3> QED
      BY <1>4, <2>1, <3>2 DEF Aligns
  <2>2. CASE l.kind # "createDevice"
    BY <1>2, <1>4, <2>2 DEF Aligns
  <2> QED
    BY <2>1, <2>2
<1>6. m \in {k, Fail(l)}
  BY <1>1, SetTo
<1> QED
  BY <1>3, <1>5, <1>6 DEF Aligns

LEMMA InvalidateAligns ==
    ASSUME Calls, NEW c \in Call, Aligns(call[c]), ~call[c].failed, Invalidate(c),
           call[c].kind \in {"resync", "createDevice"}, NEW m, m = call'[c]
    PROVE  Aligns(m)
<1> DEFINE l == call[c]
           after == [l EXCEPT !.clear = {}]
<1>1. l.stage = "invalidate" /\ (Set(c, Proceed(after)) \/ Set(c, Fail(after)))
  BY DEF Invalidate
<1>2. DOMAIN l = DOMAIN Blank /\ (l.kind = "createDevice" => CreationForm(l))
  BY DEF Calls, CallForm
<1>3. /\ DOMAIN after = DOMAIN Blank /\ after.kind = l.kind /\ after.stage = "invalidate"
      /\ after.device = l.device /\ after.addrs = l.addrs /\ after.todo = l.todo
      /\ after.peers = l.peers /\ after.left = l.left /\ after.plan = l.plan
  BY <1>1, <1>2 DEF Blank
<1>4. m \in {Proceed(after), Fail(after)}
  BY <1>1, SetTo
<1> HIDE DEF after
<1>5. CASE l.kind = "resync"
  <2>1. ResyncAligns(l)
    BY <1>5 DEF Aligns
  <2>2. Settled(l)
    BY <1>1, <1>2, <1>5, <2>1, SettledWhen
  <2>3. Settled(after)
    BY <1>3, <2>2 DEF Settled, PlanIsTemplates
  <2> QED
    BY <1>4, <2>3, SettledProceeds
<1>6. CASE l.kind = "createDevice"
  <2>1. CreationAligns(l)
    BY <1>6 DEF Aligns
  <2>2. Following(after)
    BY <1>1, <1>3, <1>6, <2>1 DEF CreationAligns, Following
  <2> QED
    BY <1>4, <2>2, FollowingProceeds
<1> QED
  BY <1>5, <1>6

-----------------------------------------------------------------------------
(* Every step keeps undisturbed requests aligned.                              *)

LEMMA OwnHarmless ==
    ASSUME Tables, Calls', NEW c \in Call, NEW m, m = call'[c], Aligns(m), Harmless
    PROVE  Aligns(call[c])'
<1>1. CallForm(m)
  BY DEF Calls
<1>2. Aligns(m)'
  BY <1>1, HarmlessKeeps
<1> QED
  BY <1>2

LEMMA OtherKinds ==
    ASSUME NEW c \in Call, call'[c].kind \notin {"resync", "createDevice"}
    PROVE  Aligns(call[c])'
BY DEF Aligns

(* What begins is another kind of request, the reading of a plan or the        *)
(* creation of a device.                                                     *)
LEMMA Beginnings ==
    ASSUME Calls, NEW c \in Call, Start(c)
    PROVE  /\ Others(c)
           /\ \/ call'[c].kind \notin {"resync", "createDevice"}
              \/ \E d \in Device : CreateDevice(c, d, Home[d])
              \/ ReadPlan(c)
<1>1. CASE \E s \in Server, d \in Device, A \in Offer \cup {{}}, r \in Route :
             CreateAdjacency(c, s, d, A, r)
  <2>1. PICK s \in Server, d \in Device, A \in Offer \cup {{}}, r \in Route :
           CreateAdjacency(c, s, d, A, r)
    BY <1>1
  <2> DEFINE l == [Request("create", "check", s, d) EXCEPT !.addrs = A, !.route = r]
  <2>2. Prepare(c, l)
    BY <2>1 DEF CreateAdjacency
  <2>3. DOMAIN l = DOMAIN Blank /\ l.kind = "create"
    BY DEF Request, Blank
  <2> HIDE DEF l
  <2>4. SameRequest(c, l)
    BY <2>2, <2>3, PreparedSame
  <2> QED
    BY <2>3, <2>4 DEF SameRequest
<1>2. CASE \E s \in Server, d \in Device, A \in Offer \cup {{}}, r \in Route :
             \E q \in row : UpdateAdjacency(c, q, s, d, A, r)
  <2>1. PICK s \in Server, d \in Device, A \in Offer \cup {{}}, r \in Route, q \in row :
           UpdateAdjacency(c, q, s, d, A, r)
    BY <1>2
  <2> DEFINE l == [Request("update", "check", s, d) EXCEPT !.addrs = A, !.route = r, !.old = q]
  <2>2. Prepare(c, l)
    BY <2>1 DEF UpdateAdjacency
  <2>3. DOMAIN l = DOMAIN Blank /\ l.kind = "update"
    BY DEF Request, Blank
  <2> HIDE DEF l
  <2>4. SameRequest(c, l)
    BY <2>2, <2>3, PreparedSame
  <2> QED
    BY <2>3, <2>4 DEF SameRequest
<1>3. ASSUME NEW r, Begin(c, r), r.kind \notin {"resync", "createDevice"}
      PROVE  Others(c) /\ call'[c].kind \notin {"resync", "createDevice"}
  BY <1>3, Begun
<1>4. CASE \E q \in row : ReadRow(c, q)
  <2>1. PICK q \in row : Begin(c, [Request("delete", "delete", q.server, q.device) EXCEPT !.old = q])
    BY <1>4 DEF ReadRow
  <2> DEFINE r == [Request("delete", "delete", q.server, q.device) EXCEPT !.old = q]
  <2>2. r.kind = "delete"
    BY DEF Request, Blank
  <2>3. Begin(c, r)
    BY <2>1
  <2> HIDE DEF r
  <2> QED
    BY <1>3, <2>2, <2>3
<1>5. CASE \E d \in Device, A \in Offer : UpdateDevice(c, d, A)
  <2>1. PICK d \in Device, A \in Offer :
           Begin(c, [Request("updateDevice", "writeDevice", None, d)
                     EXCEPT !.addrs = A, !.before = addr[d]])
    BY <1>5 DEF UpdateDevice
  <2> DEFINE r == [Request("updateDevice", "writeDevice", None, d)
                   EXCEPT !.addrs = A, !.before = addr[d]]
  <2>2. r.kind = "updateDevice"
    BY DEF Request, Blank
  <2>3. Begin(c, r)
    BY <2>1
  <2> HIDE DEF r
  <2> QED
    BY <1>3, <2>2, <2>3
<1>6. CASE \E d \in Device : ReadRows(c, d)
  <2>1. PICK d \in Device : ReadRows(c, d)
    BY <1>6
  <2> DEFINE r == [Request("deleteDevice", "rows", None, d)
                   EXCEPT !.peers = {q \in row : q.device = d}]
  <2>2. r.kind = "deleteDevice"
    BY DEF Request, Blank
  <2>3. Begin(c, r)
    BY <2>1 DEF ReadRows
  <2> HIDE DEF r
  <2> QED
    BY <1>3, <2>2, <2>3
<1>7. CASE \E s \in Server, i \in Iface : UpdateInterface(c, s, i)
  <2>1. PICK s \in Server, i \in Iface :
           \E seen : Begin(c, [Request("interface", "writeInterface", s, None)
                               EXCEPT !.iface = i, !.seen = seen])
    BY <1>7 DEF UpdateInterface
  <2>2. PICK seen : Begin(c, [Request("interface", "writeInterface", s, None)
                              EXCEPT !.iface = i, !.seen = seen])
    BY <2>1
  <2> DEFINE r == [Request("interface", "writeInterface", s, None)
                   EXCEPT !.iface = i, !.seen = seen]
  <2>3. r.kind = "interface"
    BY DEF Request, Blank
  <2>4. Begin(c, r)
    BY <2>2
  <2> HIDE DEF r
  <2> QED
    BY <1>3, <2>3, <2>4
<1>8. CASE \E s \in Server, r \in Route : CreateTemplate(c, s, r)
  <2>1. PICK s \in Server, r \in Route :
           Begin(c, [Request("createTemplate", "writeTemplate", s, None)
                     EXCEPT !.route = r, !.seen = template])
    BY <1>8 DEF CreateTemplate
  <2> DEFINE k == [Request("createTemplate", "writeTemplate", s, None)
                   EXCEPT !.route = r, !.seen = template]
  <2>2. k.kind = "createTemplate"
    BY DEF Request, Blank
  <2>3. Begin(c, k)
    BY <2>1
  <2> HIDE DEF k
  <2> QED
    BY <1>3, <2>2, <2>3
<1>9. CASE \E s \in Server, r \in Route : \E t \in template : UpdateTemplate(c, t, s, r)
  <2>1. PICK s \in Server, r \in Route, t \in template :
           Begin(c, [Request("updateTemplate", "writeTemplate", s, None)
                     EXCEPT !.route = r, !.old = t, !.seen = template])
    BY <1>9 DEF UpdateTemplate
  <2> DEFINE k == [Request("updateTemplate", "writeTemplate", s, None)
                   EXCEPT !.route = r, !.old = t, !.seen = template]
  <2>2. k.kind = "updateTemplate"
    BY DEF Request, Blank
  <2>3. Begin(c, k)
    BY <2>1
  <2> HIDE DEF k
  <2> QED
    BY <1>3, <2>2, <2>3
<1>10. CASE \/ \E s \in Server : DeleteServer(c, s)
            \/ \E t \in template : DeleteTemplate(c, t)
  <2>1. PICK kind \in {"deleteServer", "deleteTemplate"}, s \in {t.server : t \in template} \cup Server :
           Begin(c, Request(kind, "done", s, None))
    BY <1>10 DEF DeleteServer, DeleteTemplate
  <2>2. Request(kind, "done", s, None).kind = kind
    BY DEF Request, Blank
  <2> QED
    BY <1>3, <2>1, <2>2
<1>11. CASE \E d \in Device : CreateDevice(c, d, Home[d])
  <2>1. PICK r : Begin(c, r)
    BY <1>11 DEF CreateDevice
  <2> QED
    BY <1>11, <2>1, Begun
<1>12. CASE ReadPlan(c)
  <2>1. PICK r : Begin(c, r)
    BY <1>12 DEF ReadPlan
  <2> QED
    BY <1>12, <2>1, Begun
<1> QED
  BY <1>1, <1>2, <1>4, <1>5, <1>6, <1>7, <1>8, <1>9, <1>10, <1>11, <1>12 DEF Start

LEMMA StartAligns ==
    ASSUME IInv, IInv', Aligning, NEW c \in Call, Start(c)
    PROVE  Aligning'
<1>1. Tables /\ Calls /\ OnePerServer
  BY DEF IInv, Sound
<1>2. Calls'
  BY DEF IInv
<1>3. /\ Others(c)
      /\ \/ call'[c].kind \notin {"resync", "createDevice"}
         \/ \E d \in Device : CreateDevice(c, d, Home[d])
         \/ ReadPlan(c)
  BY <1>1, Beginnings
<1>4. Aligns(call[c])'
  <2>1. CASE call'[c].kind \notin {"resync", "createDevice"}
    BY <2>1, OtherKinds
  <2>2. CASE \E d \in Device : CreateDevice(c, d, Home[d])
    BY <1>1, <2>2, CreateDeviceAligns
  <2>3. CASE ReadPlan(c)
    <3>1. PICK m : m = call'[c]
      OBVIOUS
    <3>2. Aligns(m)
      BY <1>1, <2>3, <3>1, ReadPlanAligns
    <3>3. Harmless
      BY <2>3, ReadsHarmless DEF ReadPlan
    <3> QED
      BY <1>1, <1>2, <3>1, <3>2, <3>3, OwnHarmless
  <2> QED
    BY <1>3, <2>1, <2>2, <2>3
<1>5. \A b \in Call \ {c} : b \notin disturbed' => Aligns(call[b])'
  BY <1>1, <1>3, OthersAlign
<1> QED
  BY <1>4, <1>5 DEF Aligning

LEMMA ContinueAligns ==
    ASSUME IInv, IInv', Aligning, NEW c \in Call, Continue(c)
    PROVE  Aligning'
<1> DEFINE l == call[c]
<1>1. Tables /\ Calls /\ OnePerServer /\ Knowing
  BY DEF IInv, Sound
<1>2. Calls'
  BY DEF IInv
<1>3. SameRequest(c, l)
  BY <1>1, ContinuesSame
<1>4. c \in disturbed => c \in disturbed'
  BY <1>1, HarmlessOrNoted DEF Harmless, Disturb
<1>5. ASSUME c \notin disturbed PROVE Aligns(call[c])'
  <2>1. Aligns(l) /\ CallForm(l)
    BY <1>1, <1>5 DEF Aligning, Calls
  <2>2. CASE l.kind \notin {"resync", "createDevice"}
    BY <1>3, <2>2, OtherKinds DEF SameRequest
  <2>3. CASE l.failed
    BY <1>3, <2>3 DEF SameRequest, Aligns
  <2>4. ASSUME l.kind \in {"resync", "createDevice"}, ~l.failed
        PROVE  Aligns(call[c])'
    <3>1. PICK m : m = call'[c]
      OBVIOUS
    <3>2. l.stage \notin {"rows", "writeDevice", "writeInterface", "writeTemplate"}
      BY <2>1, <2>4 DEF Aligns, ResyncAligns, CreationAligns
    <3>3. ~(\/ WriteDevice(c) \/ DeleteDevice(c) \/ WriteInterface(c) \/ WriteTemplate(c)
            \/ \E q \in call[c].peers : DeleteRowOfDevice(c, q))
      BY <3>2 DEF WriteDevice, DeleteDevice, WriteInterface, WriteTemplate, DeleteRowOfDevice
    <3>4. CASE InsertRow(c)
      BY <1>1, <2>1, <2>4, <3>4, InsertRowAligns
    <3>5. CASE UpdateRow(c)
      BY <1>1, <2>1, <2>4, <3>5, UpdateRowAligns
    <3>6. CASE DeleteAdjacency(c)
      BY <1>1, <2>1, <2>4, <3>6, DeleteAdjacencyAligns
    <3>7. ASSUME Aligns(m), Harmless PROVE Aligns(call[c])'
      BY <1>1, <1>2, <3>1, <3>7, OwnHarmless
    <3>8. CASE Check(c)
      <4>1. Aligns(m)
        BY <1>1, <2>1, <2>4, <3>1, <3>8, CheckAligns
      <4>2. Harmless
        BY <3>8, ReadsHarmless DEF Check
      <4> QED
        BY <3>7, <4>1, <4>2
    <3>9. CASE WriteFails(c)
      <4>1. m = Fail(l)
        BY <1>1, <3>1, <3>9, SetTo DEF WriteFails
      <4>2. m.failed = TRUE
        BY <2>1, <4>1, FailsTo DEF CallForm
      <4>3. Harmless
        BY <3>9, ReadsHarmless DEF WriteFails
      <4> QED
        BY <3>7, <4>2, <4>3 DEF Aligns
    <3>10. CASE Invalidate(c)
      <4>1. Aligns(m)
        BY <1>1, <2>1, <2>4, <3>1, <3>10, InvalidateAligns
      <4>2. Harmless
        BY <3>10 DEF Invalidate, Harmless, table
      <4> QED
        BY <3>7, <4>1, <4>2
    <3>11. CASE InsertAddress(c)
      <4>1. Aligns(m)
        BY <1>1, <2>1, <2>4, <3>1, <3>11, InsertAddressAligns
      <4>2. Harmless
        BY <1>1, <3>11, AddressHarmless
      <4> QED
        BY <3>7, <4>1, <4>2
    <3>12. CASE ReadTemplates(c)
      <4>1. Aligns(m)
        BY <1>1, <2>1, <2>4, <3>1, <3>12, ReadTemplatesAligns
      <4>2. Harmless
        BY <3>12, ReadsHarmless DEF ReadTemplates
      <4> QED
        BY <3>7, <4>1, <4>2
    <3>13. CASE \E t \in call[c].todo : NextTemplate(c, t)
      <4>1. Aligns(m)
        BY <1>1, <2>1, <2>4, <3>1, <3>13, NextTemplateAligns
      <4>2. Harmless
        BY <3>13, ReadsHarmless DEF NextTemplate, Prepare
      <4> QED
        BY <3>7, <4>1, <4>2
    <3>14. CASE \E d \in call[c].todo : NextDevice(c, d)
      <4>1. Aligns(m)
        BY <1>1, <2>1, <2>4, <3>1, <3>14, NextDeviceAligns
      <4>2. Harmless
        BY <3>14, ReadsHarmless DEF NextDevice
      <4> QED
        BY <3>7, <4>1, <4>2
    <3>15. CASE \E q \in call[c].peers : ResyncRow(c, q)
      <4>1. Aligns(m)
        BY <1>1, <2>1, <2>4, <3>1, <3>15, ResyncRowAligns
      <4>2. Harmless
        BY <3>15, ReadsHarmless DEF ResyncRow
      <4> QED
        BY <3>7, <4>1, <4>2
    <3>16. CASE \E s \in call[c].left : ResyncMissing(c, s)
      <4>1. Aligns(m)
        BY <1>1, <2>1, <2>4, <3>1, <3>16, ResyncMissingAligns
      <4>2. Harmless
        BY <3>16, ReadsHarmless DEF ResyncMissing
      <4> QED
        BY <3>7, <4>1, <4>2
    <3> QED
      BY <3>3, <3>4, <3>5, <3>6, <3>8, <3>9, <3>10, <3>11, <3>12, <3>13, <3>14, <3>15, <3>16
      DEF Continue
  <2> QED
    BY <2>2, <2>3, <2>4
<1>6. \A b \in Call \ {c} : b \notin disturbed' => Aligns(call[b])'
  BY <1>1, <1>3, OthersAlign DEF SameRequest
<1> QED
  BY <1>4, <1>5, <1>6 DEF Aligning

LEMMA AlignStep == IInv /\ IInv' /\ Aligning /\ [Next]_vars => Aligning'
<1> SUFFICES ASSUME IInv, IInv', Aligning, [Next]_vars PROVE Aligning'
  OBVIOUS
<1>1. CASE \E c \in Call : Start(c) \/ Continue(c)
  BY <1>1, StartAligns, ContinueAligns
<1>2. CASE (\E d \in device : Login(d)) \/ UNCHANGED vars
  <2>1. Harmless /\ call' = call
    BY <1>2 DEF Login, vars, Harmless, table, history
  <2>2. Tables /\ Calls
    BY DEF IInv, Sound
  <2>3. ASSUME NEW b \in Call, b \notin disturbed PROVE Aligns(call[b])'
    <3>1. PICK k : k = call[b]
      OBVIOUS
    <3>2. CallForm(k) /\ Aligns(k)
      BY <2>2, <2>3, <3>1 DEF Calls, Aligning
    <3>3. Aligns(k)'
      BY <2>1, <2>2, <3>2, HarmlessKeeps
    <3> QED
      BY <2>1, <3>1, <3>3
  <2> QED
    BY <2>1, <2>3 DEF Aligning, Harmless
<1> QED
  BY <1>1, <1>2 DEF Next

LEMMA InitAligning == Init => Aligning
BY DEF Init, Aligning, Aligns, Blank

-----------------------------------------------------------------------------
(* What has been aligned is in line.                                           *)

(* Of a set with one element per server there are as many as there are servers. *)
LEMMA CountedByServer ==
    ASSUME NEW S, \A q \in S : q.server \in Server, \A q, r \in S : q.server = r.server => q = r
    PROVE  Cardinality(S) = Cardinality({q.server : q \in S})
<1> DEFINE T == {q.server : q \in S}
           g == [s \in T |-> CHOOSE q \in S : q.server = s]
<1>1. IsFiniteSet(T)
  <2>1. T \subseteq Server
    OBVIOUS
  <2> QED
    BY <2>1, ServerAssumption, FS_Subset
<1>2. \A s \in T : g[s] \in S /\ g[s].server = s
  OBVIOUS
<1>3. \A q \in S : q.server \in T /\ g[q.server] = q
  BY <1>2
<1>4. g \in [T -> S]
  BY <1>2
<1> HIDE DEF g
<1>5. ExistsBijection(T, S)
  BY <1>2, <1>3, <1>4 DEF ExistsBijection, Bijection, Injection, Surjection, IsInjective
<1> QED
  BY <1>1, <1>5, FS_Bijection

(* Rows and templates that answer each other, one for each server.            *)
LEMMA AnsweredInLine ==
    ASSUME Tables, OnePerServer, NEW d,
           \A q \in row : q.device = d =>
              Lined(q) /\ \E t \in template : t.server = q.server /\ t.route = q.route,
           \A t \in template : \E q \in row : q.device = d /\ q.server = t.server
                                              /\ q.route = t.route,
           Ids(template \cup {q \in row : q.device = d}) \cap raced = {}
    PROVE  InLine(d)
<1> DEFINE rows == {q \in row : q.device = d}
<1>1. \A q \in rows : q.id \notin raced /\ q.server \in Server
  BY DEF Ids, Tables
<1>2. \A t \in template : t.id \notin raced /\ t.server \in Server
  BY DEF Ids, Tables
<1>3. \A q, r \in rows : q.server = r.server => q = r
  BY <1>1 DEF OnePerServer, SamePair
<1>4. \A t, u \in template : t.server = u.server => t = u
  BY <1>2 DEF OnePerServer
<1>5. Cardinality(rows) = Cardinality({q.server : q \in rows})
  <2> HIDE DEF rows
  <2> QED
    BY <1>1, <1>3, CountedByServer
<1>6. Cardinality(template) = Cardinality({t.server : t \in template})
  BY <1>2, <1>4, CountedByServer
<1>7. {q.server : q \in rows} = {t.server : t \in template}
  OBVIOUS
<1>8. {<<q.server, q.route>> : q \in rows} = {<<t.server, t.route>> : t \in template}
  OBVIOUS
<1>9. \A q \in rows : \E ip \in Reach(q.server, d) : q.addrs = {ip}
  BY DEF Lined
<1> QED
  BY <1>5, <1>6, <1>7, <1>8, <1>9 DEF InLine

LEMMA AlignedInLine == IInv /\ Aligning => DevicesInLine
<1> SUFFICES ASSUME IInv, Aligning, NEW c \in Call \ disturbed,
                    call[c].stage = "done", ~call[c].failed, NEW d \in Treated(call[c]),
                    Ids(template \cup {q \in row : q.device = d}) \cap raced = {}
             PROVE  InLine(d)
  BY DEF DevicesInLine
<1> DEFINE l == call[c]
<1>1. Tables /\ OnePerServer
  BY DEF IInv, Sound
<1>2. Aligns(l)
  BY DEF Aligning
<1>3. CASE l.kind = "resync"
  <2>1. ResyncAligns(l) /\ d \in Own \cap device
    BY <1>2, <1>3 DEF Aligns, Treated
  <2>2. l.todo = {} /\ l.peers = {} /\ l.left = {}
    BY <2>1 DEF ResyncAligns, HoldsRows
  <2>3. \A q \in row : q.device = d =>
           q.route # None /\ q.server \in Server /\ q.route = l.plan[q.server] /\ Lined(q)
    <3> SUFFICES ASSUME NEW q \in row, q.device = d
                 PROVE  q.route # None /\ q.server \in Server /\ q.route = l.plan[q.server] /\ Lined(q)
      OBVIOUS
    <3>1. q.id \notin raced
      BY DEF Ids
    <3>2. q.route \in Route /\ q.server \in Server
      BY <1>1 DEF Tables, RowForm, Row
    <3>3. ~Pending(l, q)
      BY <2>2 DEF Pending
    <3> QED
      BY <2>1, <2>2, <3>1, <3>2, <3>3, NoneAssumption DEF ResyncAligns, RowsAligned
  <2>4. \A t \in template : t.server \in Server /\ t.route # None /\ l.plan[t.server] = t.route
    <3> SUFFICES ASSUME NEW t \in template
                 PROVE  t.server \in Server /\ t.route # None /\ l.plan[t.server] = t.route
      OBVIOUS
    <3>1. t.id \notin raced
      BY DEF Ids
    <3>2. t.route \in Route /\ t.server \in Server
      BY <1>1 DEF Tables, Template
    <3> QED
      BY <2>1, <3>1, <3>2, NoneAssumption DEF ResyncAligns, PlanIsTemplates
  <2>5. \A q \in row : q.device = d =>
           Lined(q) /\ \E t \in template : t.server = q.server /\ t.route = q.route
    BY <2>1, <2>3 DEF ResyncAligns, PlanIsTemplates
  <2>6. \A t \in template : \E q \in row : q.device = d /\ q.server = t.server
                                           /\ q.route = t.route
    <3> SUFFICES ASSUME NEW t \in template
                 PROVE  \E q \in row : q.device = d /\ q.server = t.server /\ q.route = t.route
      OBVIOUS
    <3>1. \E q \in row : q.device = d /\ q.server = t.server
      BY <2>1, <2>2, <2>4 DEF ResyncAligns, ServersAligned
    <3> QED
      BY <2>3, <2>4, <3>1
  <2> QED
    BY <1>1, <2>5, <2>6, AnsweredInLine
<1>4. CASE l.kind = "createDevice"
  <2>1. CreationAligns(l) /\ d = l.device
    BY <1>2, <1>4 DEF Aligns, Treated
  <2>2. \A q \in row : q.device = d =>
           Lined(q) /\ \E t \in template : t.server = q.server /\ t.route = q.route
    BY <2>1 DEF CreationAligns
  <2>3. \A t \in template : \E q \in row : q.device = d /\ q.server = t.server
                                           /\ q.route = t.route
    BY <2>1 DEF CreationAligns
  <2> QED
    BY <1>1, <2>2, <2>3, AnsweredInLine
<1>5. CASE l.kind \notin {"resync", "createDevice"}
  BY <1>5 DEF Treated
<1> QED
  BY <1>3, <1>4, <1>5

(* DevicesInLine: a resynchronisation without errors, and the creation of a    *)
(* device, leave exactly the adjacencies of the templates, each with an address  *)
(* of the device that its server reaches, unless another request wrote          *)
(* meanwhile or overlapping ones had left their traces (ResyncDeviceAdjacencies  *)
(* and createAdjacenciesForNewDevice).                                        *)
THEOREM DevicesCorrect == Spec => []DevicesInLine
<1>1. Spec => []IInv
  BY Invariant
<1>2. Spec /\ []IInv => []Aligning
  BY InitAligning, AlignStep, PTL DEF Spec
<1> QED
  BY <1>1, <1>2, AlignedInLine, PTL

=============================================================================
