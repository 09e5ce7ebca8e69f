------------------------------ MODULE Addressing ------------------------------
(***************************************************************************)
(* Addresses of devices and the pools they come from.  A user's template     *)
(* names pools; a device of the user gets the first free address of each,     *)
(* chosen from the addresses in use when it was asked and written later.  A     *)
(* resynchronisation brings the devices of a template in line with its pools,   *)
(* one device after the other: addresses that fit are kept, pools without one    *)
(* give a new one, and a device for which a pool has none left is deleted.      *)
(* An address is a number of Width bits, a prefix an address with a mask.      *)
(***************************************************************************)
EXTENDS Naturals, FiniteSets, Sequences, SequencesExt

CONSTANTS
    Call,         \* requests, each made at most once
    Device,
    Template,
    Pool,
    Width,        \* bits of an address
    Span,        \* ranges that a request may give a pool
    Given,        \* lists of prefixes that a request may give a device
    Reserved,     \* addresses of the interfaces of servers
    None

Address == 0 .. 2^Width - 1
Prefix == [addr : Address, bits : 0 .. Width]

(* ToSubnetAddr and the size of a subnet *)
Block(bits) == 2^(Width - bits)
Subnet(a, bits) == a - (a % Block(bits))
Broadcast(a, bits) == Subnet(a, bits) + Block(bits) - 1

(* ValidateAddressPool *)
Valid(r) ==
    /\ r.lo <= r.hi
    /\ Subnet(r.lo, r.bits) = Subnet(r.hi, r.bits)

(* Powers of two are positive numbers, of which the provers know nothing.     *)
ASSUME WidthAssumption ==
    /\ Width \in Nat
    /\ \A bits \in 0 .. Width : Block(bits) \in Nat \ {0}
ASSUME SpanAssumption ==
    /\ Span \subseteq [lo : Address, hi : Address, bits : 0 .. Width]
    /\ \A r \in Span : Valid(r)
ASSUME PoolAssumption == IsFiniteSet(Pool)
ASSUME GivenAssumption == Given \subseteq Seq(Prefix) /\ <<>> \notin Given
ASSUME ReservedAssumption == Reserved \subseteq Address
ASSUME NoneAssumption == None \notin Call \cup Device \cup Template \cup Pool \cup Span \cup Prefix

VARIABLES
    range,        \* range[p]: of the pool p, or None
    template,     \* templates that exist
    pools,        \* pools[t]: the pools it names
    device,       \* device[d]: its template, or None
    addrs,        \* addrs[d]: the addresses of its interface
    session,      \* session[d]: is there one, and has its client what there is now
    call,         \* call[c]: how far a request has got and what it has read
    unsafe,       \* history: devices given addresses of others, or one twice, by hand,
                  \* or any by requests that were under way at a time
    moved,        \* history: templates a pool of which changed after it was looked at
    excuse        \* history: why a session may be outdated

table == <<range, template, pools, device, addrs>>
vars == <<table, session, call, unsafe, moved, excuse>>

Cause == {"no", "failed", "overlap", "resync"}

Blank == [kind |-> "none", stage |-> "new", template |-> None, device |-> None, pools |-> <<>>,
          addrs |-> <<>>, keep |-> <<>>, old |-> <<>>, covered |-> {}, todo |-> {}, handled |-> {},
          changed |-> FALSE, alone |-> TRUE]

Request(kind, stage) == [Blank EXCEPT !.kind = kind, !.stage = stage]

Exists(d) == device[d] # None

Overlap(r, q) == r.lo <= q.hi /\ q.lo <= r.hi

(* Of a set of pools as they are now. *)
Disjoint(P) == \A p, q \in P : p # q => ~Overlap(range[p], range[q])

Own(s) == {s[i].addr : i \in DOMAIN s}

(* No address comes twice. *)
Distinct(s) == \A i, j \in DOMAIN s : i # j => s[i].addr # s[j].addr

(* The addresses in use by others than d. *)
UsedBut(d) == Reserved \cup UNION {Own(addrs[e]) : e \in Device \ {d}}

TypeOK ==
    /\ range \in [Pool -> Span \cup {None}]
    /\ template \subseteq Template
    /\ pools \in [Template -> SUBSET Pool]
    /\ \A t \in template : \A p \in pools[t] : range[p] # None
    /\ \A d \in Device :
        /\ device[d] \in template \cup {None}
        /\ addrs[d] \in Seq(Prefix)
        /\ ~Exists(d) => addrs[d] = <<>> /\ session[d] = "none" /\ d \notin unsafe
    /\ session \in [Device -> {"none", "current", "outdated"}]
    /\ DOMAIN call = Call
    /\ \A c \in Call : DOMAIN call[c] = DOMAIN Blank
    /\ unsafe \subseteq Device
    /\ moved \subseteq Template
    /\ excuse \in [Device -> Cause]

Init ==
    /\ range \in [Pool -> Span]
    /\ template = Template
    /\ pools \in [Template -> SUBSET Pool \ {{}}]
    /\ \E D \in SUBSET Device, t \in Template, g \in [Device -> Given] :
        /\ device = [d \in Device |-> IF d \in D THEN t ELSE None]
        /\ addrs = [d \in Device |-> IF d \in D THEN g[d] ELSE <<>>]
        /\ session = [d \in Device |-> IF d \in D THEN "current" ELSE "none"]
        /\ \A d \in D : Own(addrs[d]) \cap UsedBut(d) = {} /\ Distinct(addrs[d])
    /\ unsafe = {}
    /\ call = [c \in Call |-> Blank]
    /\ moved = {t \in Template : ~Disjoint(pools[t])}
    /\ excuse = [d \in Device |-> "no"]

-----------------------------------------------------------------------------
(* What requests have in common.  A request that is refused before it has      *)
(* written is no step.                                                       *)

Begin(c, request) ==
    /\ call[c] = Blank
    /\ call' = [call EXCEPT ![c] = request]

Writes == {"create", "updateDevice", "resync", "deleteDevice", "deleteTemplate"}

(* Requests that write addresses are told apart from those that do so at a time. *)
BeginWriting(c, request) ==
    LET others == {b \in Call \ {c} : call[b].kind \in Writes /\ call[b].stage # "done"} IN
    /\ call[c] = Blank
    /\ call' = [b \in Call |-> IF b = c THEN [request EXCEPT !.alone = others = {}]
                              ELSE IF b \in others THEN [call[b] EXCEPT !.alone = FALSE]
                              ELSE call[b]]

Set(c, l) == call' = [call EXCEPT ![c] = l]

Goto(c, stage) == Set(c, [call[c] EXCEPT !.stage = stage])

(* The addresses of d are chosen by a request that was alone, from pools that    *)
(* had none in common, or not.                                               *)
Record(d, l) ==
    LET apart == \A i, j \in DOMAIN l.pools : i # j => ~Overlap(l.pools[i].range, l.pools[j].range) IN
    unsafe' = IF l.alone /\ apart THEN unsafe ELSE unsafe \cup {d}

(* Devices are deleted, with their addresses and sessions. *)
Erase(D) ==
    /\ device' = [d \in Device |-> IF d \in D THEN None ELSE device[d]]
    /\ addrs' = [d \in Device |-> IF d \in D THEN <<>> ELSE addrs[d]]
    /\ session' = [d \in Device |-> IF d \in D THEN "none" ELSE session[d]]
    /\ excuse' = [d \in Device |-> IF d \in D THEN "no" ELSE excuse[d]]
    /\ unsafe' = unsafe \ D

(* The client of d has addresses that are no longer so. *)
Outdate(d, cause) ==
    /\ session' = [session EXCEPT ![d] = IF @ = "current" THEN "outdated" ELSE @]
    /\ excuse' = [excuse EXCEPT ![d] = IF session'[d] = "outdated" /\ cause # "no" THEN cause ELSE @]

Login(d) ==
    /\ Exists(d)
    /\ session[d] # "current"
    /\ session' = [session EXCEPT ![d] = "current"]
    /\ excuse' = [excuse EXCEPT ![d] = "no"]
    /\ UNCHANGED <<table, call, unsafe, moved>>

-----------------------------------------------------------------------------
(* The first free address of a range, whatever the masks of those in use. *)

(* Variant: the addresses of servers are forgotten. *)
UsedByDevices(r) ==
    {a \in UNION {Own(addrs[d]) : d \in Device} : Subnet(a, r.bits) = Subnet(r.lo, r.bits)}

(* QueryUsedAddrsForSubnet *)
Used(r) ==
    {a \in Reserved \cup UNION {Own(addrs[d]) : d \in Device} :
        Subnet(a, r.bits) = Subnet(r.lo, r.bits)}

(* Variant: the broadcast address is one like the others. *)
FirstUnusedAddress(r, used) ==
    LET free == {a \in r.lo .. r.hi : a \notin used /\ a # Subnet(a, r.bits)} IN
    IF free = {} THEN None ELSE [addr |-> Min(free), bits |-> r.bits]

(* The search ends past the range, or at an address that is not used. *)
FirstAvailableAddress(r, used) ==
    LET next[a \in Nat] == IF a > r.hi \/ a \notin used THEN a ELSE next[a + 1]
        first == next[IF r.lo = Subnet(r.lo, r.bits) THEN r.lo + 1 ELSE r.lo] IN
    IF first > r.hi \/ first = Broadcast(first, r.bits)
    THEN None
    ELSE [addr |-> first, bits |-> r.bits]

(* What it should be: the least of those that a device may have.               *)
Usable(r) == {a \in r.lo .. r.hi : a \notin {Subnet(a, r.bits), Broadcast(a, r.bits)}}

-----------------------------------------------------------------------------
(* Pools. *)

(* Identifiers are used once: no request knows one that is new.              *)
CreateAddressPool(c, p, r) ==
    /\ range[p] = None
    /\ \A b \in Call : p \notin call[b].todo
    /\ Begin(c, Request("pool", "done"))
    /\ range' = [range EXCEPT ![p] = r]
    /\ UNCHANGED <<template, pools, device, addrs, session, unsafe, moved, excuse>>

(* Nobody asks whether the templates that name it still have disjoint pools.   *)
UpdateAddressPool(c, p, r) ==
    /\ range[p] # None
    /\ call[c] = Blank
    /\ call' = [b \in Call |-> IF b = c THEN Request("pool", "done")
                              ELSE IF p \in call[b].todo THEN [call[b] EXCEPT !.alone = FALSE]
                              ELSE call[b]]
    /\ range' = [range EXCEPT ![p] = r]
    /\ moved' = moved \cup {t \in template : p \in pools[t]}
    /\ UNCHANGED <<template, pools, device, addrs, session, unsafe, excuse>>

(* Variant: a pool is deleted from under the templates that name it. *)
NeverRestricted(p) == FALSE

(* ON DELETE RESTRICT: a pool that a template names stays. *)
Restricted(p) == \E t \in template : p \in pools[t]

DeleteAddressPool(c, p) ==
    /\ range[p] # None
    /\ ~Restricted(p)
    /\ Begin(c, Request("pool", "done"))
    /\ range' = [range EXCEPT ![p] = None]
    /\ UNCHANGED <<template, pools, device, addrs, session, unsafe, moved, excuse>>

-----------------------------------------------------------------------------
(* Templates: the pools are looked at, then named in a transaction. *)

(* Variant: only equal ranges are refused. *)
VerifyPoolsDiffer(P) == \A p, q \in P : p # q => range[p] # range[q]

VerifyPoolsNotOverlap(P) == Disjoint(P)

LookAtPools(c, t, P, changed) ==
    /\ \A p \in P : range[p] # None
    /\ VerifyPoolsNotOverlap(P)
    /\ t \notin template => \A b \in Call : call[b].stage # "done" => call[b].template # t
    /\ Begin(c, [Request("template", IF t \in template THEN "update" ELSE "insert") EXCEPT
            !.template = t, !.todo = P, !.changed = changed])
    /\ UNCHANGED <<table, session, unsafe, moved, excuse>>

WriteTemplate(c) ==
    /\ call[c].stage \in {"insert", "update"}
    /\ call[c].kind = "template"
    /\ LET l == call[c]
           t == l.template
           devices == {d \in Device : device[d] = t /\ l.changed /\ session[d] = "current"} IN
        IF (t \in template) = (l.stage = "update") /\ \A p \in l.todo : range[p] # None
        THEN /\ template' = template \cup {t}
             /\ pools' = [pools EXCEPT ![t] = l.todo]
             /\ moved' = IF l.alone THEN moved \ {t} ELSE moved \cup {t}
             /\ session' = [d \in Device |-> IF d \in devices THEN "outdated" ELSE session[d]]
             /\ Set(c, [l EXCEPT !.stage = IF l.changed THEN "endSessions" ELSE "done", !.todo = {}])
        ELSE /\ Set(c, [l EXCEPT !.stage = "done", !.todo = {}])
             /\ UNCHANGED <<template, pools, moved, session>>
    /\ UNCHANGED <<range, device, addrs, unsafe, excuse>>

(* DeleteInvalidSessionsByDeviceTemplate, of the devices that there are now.    *)
EndSessions(c) ==
    /\ call[c].stage = "endSessions"
    /\ LET D == {d \in Device : device[d] = call[c].template} IN
        \/ /\ session' = [d \in Device |-> IF d \in D THEN "none" ELSE session[d]]
           /\ UNCHANGED excuse
        \/ /\ excuse' = [d \in Device |-> IF d \in D /\ session[d] = "outdated" THEN "failed" ELSE excuse[d]]
           /\ UNCHANGED session
    /\ Goto(c, "done")
    /\ UNCHANGED <<table, unsafe, moved>>

DeleteTemplate(c, t) ==
    /\ t \in template
    /\ BeginWriting(c, Request("deleteTemplate", "done"))
    /\ template' = template \ {t}
    /\ pools' = [pools EXCEPT ![t] = {}]
    /\ moved' = moved \ {t}
    /\ Erase({d \in Device : device[d] = t})
    /\ UNCHANGED range

-----------------------------------------------------------------------------
(* Devices. *)

(* The pools of t as they are now, in any order. *)
Listed(t) == {[i \in DOMAIN s |-> [pool |-> s[i], range |-> range[s[i]]]] : s \in SetToSeqs(pools[t])}

(* CreateDeviceWithAutogenData, or the data that the form is filled with, which    *)
(* come back later.                                                          *)
CreateDevice(c, t) ==
    /\ t \in template
    /\ \E s \in Listed(t) :
        BeginWriting(c, [Request("create", "allocate") EXCEPT !.template = t, !.pools = s])
    /\ UNCHANGED <<table, session, unsafe, moved, excuse>>

CreateGivenDevice(c, t, g) ==
    /\ t \in template
    /\ BeginWriting(c, [Request("create", "insert") EXCEPT !.template = t, !.addrs = g])
    /\ UNCHANGED <<table, session, unsafe, moved, excuse>>

(* An address of the next pool that has none yet.  Nothing is written: the next   *)
(* pool is asked for with the same addresses in use.                           *)
Allocate(c) ==
    /\ call[c].stage = "allocate"
    /\ LET l == call[c]
           rest == {i \in DOMAIN l.pools : l.pools[i].pool \notin l.covered}
           p == l.pools[Min(rest)]
           a == FirstAvailableAddress(p.range, Used(p.range)) IN
        Set(c, IF rest = {} THEN [l EXCEPT !.stage = IF l.kind = "create" THEN "insert" ELSE "rewrite"]
               ELSE IF a = None THEN [l EXCEPT !.stage = IF l.kind = "create" THEN "done" ELSE "delete"]
               ELSE [l EXCEPT !.addrs = Append(@, a), !.covered = @ \cup {p.pool}])
    /\ UNCHANGED <<table, session, unsafe, moved, excuse>>

(* Identifiers are used once. *)
Unknown(d) == ~Exists(d) /\ \A b \in Call : d \notin {call[b].device} \cup call[b].todo \cup call[b].handled

InsertDevice(c, d) ==
    /\ call[c].stage = "insert"
    /\ call[c].kind = "create"
    /\ Unknown(d)
    /\ IF call[c].template \in template
       THEN /\ device' = [device EXCEPT ![d] = call[c].template]
            /\ Set(c, [call[c] EXCEPT !.stage = "insertAddress", !.device = d])
       ELSE /\ Goto(c, "done")
            /\ UNCHANGED device
    /\ UNCHANGED <<range, template, pools, addrs, session, unsafe, moved, excuse>>

InsertAddress(c) ==
    /\ call[c].stage = "insertAddress"
    /\ LET l == call[c]
           d == l.device IN
        IF l.addrs # <<>> /\ Exists(d)
        THEN /\ addrs' = [addrs EXCEPT ![d] = Append(@, Head(l.addrs))]
             /\ Set(c, [l EXCEPT !.addrs = Tail(@)])
             /\ IF l.pools = <<>>
                THEN unsafe' = IF Head(l.addrs).addr \in UsedBut(d) \cup Own(addrs[d]) THEN unsafe \cup {d} ELSE unsafe
                ELSE Record(d, l)
             /\ Outdate(d, "overlap")
        ELSE /\ Goto(c, "done")
             /\ UNCHANGED <<addrs, unsafe, session, excuse>>
    /\ UNCHANGED <<range, template, pools, device, moved>>

UpdateDevice(c, d, g) ==
    /\ Exists(d)
    /\ BeginWriting(c, [Request("updateDevice", "write") EXCEPT !.device = d, !.addrs = g, !.old = addrs[d]])
    /\ UNCHANGED <<table, session, unsafe, moved, excuse>>

(* Variant: only the number of the addresses is compared. *)
DiffersInLength(l) == Len(l.addrs) # Len(l.old)

(* DeleteInvalidSessionsByDevice *)
Differs(l) == l.addrs # l.old

WriteDevice(c) ==
    /\ call[c].stage = "write"
    /\ LET l == call[c]
           d == l.device IN
        IF Exists(d)
        THEN /\ addrs' = [addrs EXCEPT ![d] = l.addrs]
             /\ unsafe' = IF Own(l.addrs) \cap UsedBut(d) = {} /\ Distinct(l.addrs)
                          THEN unsafe \ {d} ELSE unsafe \cup {d}
             /\ IF addrs[d] = l.addrs
                THEN UNCHANGED <<session, excuse>>
                ELSE Outdate(d, IF l.addrs = l.old THEN "overlap" ELSE "no")
             /\ Goto(c, IF Differs(l) THEN "endSession" ELSE "done")
        ELSE /\ Goto(c, "done")
             /\ UNCHANGED <<addrs, unsafe, session, excuse>>
    /\ UNCHANGED <<range, template, pools, device, moved>>

EndSession(c) ==
    /\ call[c].stage = "endSession"
    /\ LET d == call[c].device IN
        \/ /\ session' = [session EXCEPT ![d] = "none"]
           /\ UNCHANGED excuse
        \/ /\ excuse' = [excuse EXCEPT ![d] = IF session[d] = "outdated" THEN "failed" ELSE @]
           /\ UNCHANGED session
    /\ Goto(c, "done")
    /\ UNCHANGED <<table, unsafe, moved>>

DeleteDevice(c, d) ==
    /\ Exists(d)
    /\ BeginWriting(c, Request("deleteDevice", "done"))
    /\ Erase({d})
    /\ UNCHANGED <<range, template, pools, moved>>

-----------------------------------------------------------------------------
(* The resynchronisation of a template. *)

Resync(c, t) ==
    /\ t \in template
    /\ \E s \in Listed(t) :
        BeginWriting(c, [Request("resync", "listDevices") EXCEPT !.template = t, !.pools = s])
    /\ UNCHANGED <<table, session, unsafe, moved, excuse>>

ListDevices(c) ==
    /\ call[c].stage = "listDevices"
    /\ Set(c, [call[c] EXCEPT !.stage = "nextDevice",
                             !.todo = {d \in Device : device[d] = call[c].template}])
    /\ UNCHANGED <<table, session, unsafe, moved, excuse>>

(* addressBelongsToPool: the mask is the pool's, too. *)
Belongs(a, r) == r.lo <= a.addr /\ a.addr <= r.hi /\ a.bits = r.bits

(* Variant: a pool may keep more than one address. *)
FindPoolAgain(a, listed, covered) ==
    LET candidates == {i \in DOMAIN listed : Belongs(a, listed[i].range)} IN
    IF candidates = {} THEN None ELSE listed[Min(candidates)].pool

(* findPoolForAddress: the smallest of the pools without an address, the first of   *)
(* them as they were listed.                                                 *)
FindPool(a, listed, covered) ==
    LET candidates == {i \in DOMAIN listed : listed[i].pool \notin covered /\ Belongs(a, listed[i].range)}
        size(i) == listed[i].range.hi - listed[i].range.lo
        smallest == {i \in candidates : \A j \in candidates : size(i) <= size(j)} IN
    IF candidates = {} THEN None ELSE listed[Min(smallest)].pool

(* What is kept of one more address. *)
Keeping(kept, a, listed) ==
    LET p == FindPool(a, listed, kept.covered) IN
    IF p = None THEN kept
    ELSE [keep |-> Append(kept.keep, a), covered |-> kept.covered \cup {p}]

(* Variant: what follows an address that does not fit is not looked at. *)
CategorizeUntilMisfit(s, listed) ==
    LET kept[n \in 0 .. Len(s)] ==
            IF n = 0 THEN [keep |-> <<>>, covered |-> {}]
            ELSE IF Len(kept[n - 1].keep) < n - 1 THEN kept[n - 1]
            ELSE Keeping(kept[n - 1], s[n], listed) IN
    kept[Len(s)]

(* categorizeDeviceAddresses *)
Categorize(s, listed) ==
    LET kept[n \in 0 .. Len(s)] ==
            IF n = 0 THEN [keep |-> <<>>, covered |-> {}] ELSE Keeping(kept[n - 1], s[n], listed) IN
    kept[Len(s)]

(* Its addresses are read, in any order. *)
NextDevice(c, d) ==
    /\ call[c].stage = "nextDevice"
    /\ d \in call[c].todo
    /\ \E s \in SetToSeqs(DOMAIN addrs[d]) :
        LET current == [i \in DOMAIN s |-> addrs[d][s[i]]]
            kept == Categorize(current, call[c].pools) IN
        Set(c, [call[c] EXCEPT !.stage = "allocate", !.device = d, !.todo = @ \ {d}, !.old = current,
                               !.keep = kept.keep, !.covered = kept.covered, !.addrs = <<>>])
    /\ UNCHANGED <<table, session, unsafe, moved, excuse>>

Handled(l) == [l EXCEPT !.stage = "nextDevice", !.handled = @ \cup {l.device}]

(* hasAddressChanges *)
Changes(l) == l.addrs # <<>> \/ Len(l.keep) # Len(l.old)

(* Sessions are not looked at. *)
Rewrite(c) ==
    /\ call[c].stage = "rewrite"
    /\ LET l == call[c]
           d == l.device IN
        IF Exists(d) /\ Changes(l)
        THEN /\ addrs' = [addrs EXCEPT ![d] = l.keep \o l.addrs]
             /\ Record(d, l)
             /\ Outdate(d, "resync")
        ELSE UNCHANGED <<addrs, unsafe, session, excuse>>
    /\ Set(c, Handled(call[c]))
    /\ UNCHANGED <<range, template, pools, device, moved>>

DeleteResynced(c) ==
    /\ call[c].stage = "delete"
    /\ Erase({call[c].device})
    /\ Set(c, Handled(call[c]))
    /\ UNCHANGED <<range, template, pools, moved>>

(* An error at one device -- its addresses cannot be read, no address of a pool     *)
(* asked for, the transaction not written, the device not deleted -- is noted, and  *)
(* the next one follows: the device stays as it was and counts as not handled.      *)
FailDevice(c) ==
    /\ call[c].kind = "resync"
    /\ call[c].stage \in {"allocate", "rewrite", "delete"}
    /\ Goto(c, "nextDevice")
    /\ UNCHANGED <<table, session, unsafe, moved, excuse>>

EndResync(c) ==
    /\ call[c].stage = "nextDevice"
    /\ call[c].todo = {}
    /\ Goto(c, "done")
    /\ UNCHANGED <<table, session, unsafe, moved, excuse>>

Start(c) ==
    \/ \E p \in Pool :
        \/ DeleteAddressPool(c, p)
        \/ \E r \in Span : CreateAddressPool(c, p, r) \/ UpdateAddressPool(c, p, r)
    \/ \E t \in Template :
        \/ \E P \in SUBSET Pool, changed \in BOOLEAN : LookAtPools(c, t, P, changed)
        \/ DeleteTemplate(c, t)
        \/ CreateDevice(c, t)
        \/ \E g \in Given : CreateGivenDevice(c, t, g)
        \/ Resync(c, t)
    \/ \E d \in Device :
        \/ DeleteDevice(c, d)
        \/ \E g \in Given : UpdateDevice(c, d, g)

Continue(c) ==
    \/ WriteTemplate(c)
    \/ EndSessions(c)
    \/ Allocate(c)
    \/ \E d \in Device : InsertDevice(c, d)
    \/ InsertAddress(c)
    \/ WriteDevice(c)
    \/ EndSession(c)
    \/ ListDevices(c)
    \/ \E d \in Device : NextDevice(c, d)
    \/ Rewrite(c)
    \/ DeleteResynced(c)
    \/ FailDevice(c)
    \/ EndResync(c)

Next ==
    \/ \E c \in Call : Start(c) \/ Continue(c)
    \/ \E d \in Device : Login(d)

Spec == Init /\ [][Next]_vars

-----------------------------------------------------------------------------
(* The search finds the least address that a device may have and nobody has,     *)
(* also in a range that ends with its subnet or has nothing else to offer.       *)
FirstFree ==
    \A c \in Call : call[c].stage = "allocate" =>
        \A i \in DOMAIN call[c].pools :
            LET r == call[c].pools[i].range
                free == Usable(r) \ Used(r) IN
            FirstAvailableAddress(r, Used(r)) =
                IF free = {} THEN None ELSE [addr |-> Min(free), bits |-> r.bits]

(* No address is given to two devices, or twice to one, or is that of a server --  *)
(* except by hand, and by requests that were under way at a time or found the      *)
(* pools of a template overlapping.                                          *)
NoAddressTwice ==
    \A d, e \in Device \ unsafe :
        /\ Own(addrs[d]) \cap Reserved = {}
        /\ Distinct(addrs[d])
        /\ d # e => Own(addrs[d]) \cap Own(addrs[e]) = {}

(* The pools of a template are disjoint, unless one of them was changed since they  *)
(* were looked at.                                                           *)
DisjointUnlessMoved == \A t \in template \ moved : Disjoint(pools[t])

InLine(s, listed) ==
    /\ Len(s) = Len(listed)
    /\ \E f \in [DOMAIN s -> DOMAIN listed] :
        /\ \A i, j \in DOMAIN s : f[i] = f[j] => i = j
        /\ \A i \in DOMAIN s : Belongs(s[i], listed[f[i]].range)

(* The types, that no address is given twice, and that the pools of a template  *)
(* are disjoint (allocation, CreateDeviceTemplate, UpdateDeviceTemplate).      *)
AddressesSound ==
    /\ TypeOK
    /\ NoAddressTwice
    /\ DisjointUnlessMoved

(* A resynchronisation that nobody disturbs leaves every device that it has handled  *)
(* without an error with one address of each pool, in whatever order it reads them,   *)
(* even if the pools overlap, and also after errors at other devices.               *)
ResyncLeavesInLine ==
    \A c \in Call : call[c].kind = "resync" /\ call[c].stage # "done" /\ call[c].alone =>
        \A d \in call[c].handled : Exists(d) => InLine(addrs[d], call[c].pools)

(* And it takes no more than it must: the only address that a device has of a pool   *)
(* stays, and a device is deleted only if all addresses of some pool are in use --    *)
(* be it by the device itself, with another mask.                             *)
TakesLittle ==
    \A c \in Call : LET l == call[c]
                      d == l.device
                      range_(i) == l.pools[i].range IN
        l.kind = "resync" /\ l.alone /\ call'[c].handled # l.handled =>
            IF Exists(d)'
            THEN \A k \in DOMAIN addrs[d], i \in DOMAIN l.pools :
                    /\ Belongs(addrs[d][k], range_(i))
                    /\ \A m \in DOMAIN addrs[d] \ {k} : ~Belongs(addrs[d][m], range_(i))
                    => \E m \in DOMAIN addrs'[d] : addrs'[d][m] = addrs[d][k]
            ELSE \E i \in DOMAIN l.pools : Usable(range_(i)) \subseteq Used(range_(i))

ResyncTakesLittle == [][TakesLittle]_vars

(* Will the session of d be ended? *)
Pending(d) ==
    \E c \in Call :
        \/ call[c].stage = "endSession" /\ call[c].device = d
        \/ call[c].stage = "endSessions" /\ call[c].template = device[d]

(* A client whose device has other addresses by now, or another interface, will be   *)
(* told by the end of its session, except for the causes that history names.       *)
SessionFollowsDevice ==
    \A d \in Device : session[d] = "outdated" /\ excuse[d] = "no" => Pending(d)

(* As the table of attributes in session.go has it: a change of the addresses of a   *)
(* device ends its session, also when it follows from a change of a pool.           *)
AddressesEndSession ==
    \A d \in Device : session[d] = "outdated" /\ excuse[d] \in {"no", "resync"} => Pending(d)
=============================================================================
