---------------------------- MODULE SecretsProofs ----------------------------
(***************************************************************************)
(* Proofs about Secrets, for any sets of rows, keys, orchestrators and     *)
(* tags, and any number of CAs and contents. The inductive invariant says, *)
(* in parts: that the tool, while it is alone, knows the rows it has still *)
(* to update and has noted every other row as it must become (ToolKnows);  *)
(* that under an orchestrator there is one key for the rows and for all who*)
(* are up (KeysAgree); and that without a race there is one CA, which all  *)
(* who are up serve and all certificates in force are of (OneCA).          *)
(***************************************************************************)
EXTENDS Secrets, TLAPS

Id == Secret \cup CA
RowFunctions(S) == UNION {[T -> Row] : T \in SUBSET S}
Phase == {"down", "deleteCA", "deleteTags", "getCA", "insertCA", "up"}
NodeRecord == [phase : Phase, key : Key \cup {None}, ca : 0..MaxCA]
ToolRecord ==
    [phase : {"idle", "detect", "select", "update"}, old : Key \cup {None},
     new : Key \cup {None}, table : {"data", "root_ca"}, todo : RowFunctions(Id)]

(* What the code keeps in a row, be it encrypted or not.                     *)
ContentOf(row) == IF row.key = None THEN row.plain ELSE row.cipher

(* The tables, the tool's copies of rows and the orchestrators.              *)
TablesTyped ==
    /\ db \in RowFunctions(Id)
    /\ changed \in RowFunctions(Id)
    /\ tool \in ToolRecord
    /\ node \in [Node -> NodeRecord]

RestTyped ==
    /\ tags \subseteq Tag
    /\ nextCA \in 1..MaxCA + 1
    /\ issued \cup retired \subseteq Certificate
    /\ causes \subseteq {"beside", "unchecked", "race"}

(* An orchestrator was started with a key, and one that is up serves a CA.   *)
NodesKnow ==
    /\ \A n \in Node : node[n].phase # "down" => node[n].key \in Key
    /\ \A n \in Node : node[n].phase = "up" => node[n].ca \in CA

(* Where the rows are that the tool has read or noted.                       *)
NotedInDb == DOMAIN changed \subseteq DOMAIN db
NotedWhen ==
    /\ tool.phase \in {"idle", "detect"} => DOMAIN changed = {}
    /\ tool.phase = "select" /\ tool.table = "data" => DOMAIN changed = {}
NotedData == ~CALocked => DOMAIN changed \subseteq Secret
ReadTable == tool.phase = "update" => \A r \in DOMAIN tool.todo : TableOf(r) = tool.table
Noted == NotedInDb /\ NotedWhen /\ NotedData /\ ReadTable

(* The history of contents covers every row of data.                         *)
WrittenOK ==
    /\ DOMAIN db \cap Secret \subseteq DOMAIN written
    /\ DOMAIN written \subseteq Secret
    /\ \A r \in DOMAIN written : written[r] \in 1..MaxValue

Typed == TablesTyped /\ RestTyped /\ NodesKnow /\ Noted /\ WrittenOK

(* No row is without a content, nor any copy the tool has of one.            *)
Full(f) == \A r \in DOMAIN f : ContentOf(f[r]) # 0
Filled == Full(db) /\ Full(changed) /\ Full(tool.todo)

(* Without an orchestrator beside it the tool runs alone ...                 *)
Alone ==
    "beside" \notin causes =>
        (tool.phase # "idle" => \A n \in Node : node[n].phase = "down")

(* ... and what it has read is still so, what it has noted is what the row    *)
(* must become, and every row of a table it has begun is among the two.    *)
StillSo ==
    tool.phase = "update" =>
        \A r \in DOMAIN tool.todo : r \in DOMAIN db /\ tool.todo[r] = db[r]
NotedRight ==
    \A r \in DOMAIN changed : db[r].key = tool.old /\ changed[r] = Transformed(db[r])
NoneMissed ==
    /\ tool.phase = "update" =>
            \A r \in RowsOf(tool.table) : r \in DOMAIN tool.todo \cup DOMAIN changed
    /\ tool.phase \in {"select", "update"} /\ tool.table = "root_ca" =>
            RowsOf("data") \subseteq DOMAIN changed
ToolKnows == "beside" \notin causes => StillSo /\ NotedRight /\ NoneMissed

(* One key for the rows and for the orchestrators that are up.               *)
Clean == causes \cap {"beside", "unchecked"} = {}
RowsAgree == \A r, q \in DOMAIN db : db[r].key = db[q].key
RowsCurrent == \A r \in DOMAIN db \cap Secret : ContentOf(db[r]) = written[r]
UpAgree ==
    \A n \in Node : node[n].phase = "up" =>
        /\ \A r \in DOMAIN db : db[r].key = node[n].key
        /\ \A q \in Node : node[q].phase = "up" => node[q].key = node[n].key
KeysAgree == Clean => RowsAgree /\ RowsCurrent /\ UpAgree

(* One CA, served by all who are up, and of all certificates in force; who    *)
(* deletes it is by itself.                                                *)
CAs == RowsOf("root_ca")
DeletesAlone == \A n, q \in Node : Deleting(n) /\ n # q => node[q].phase = "down"
SameCA == \A c, d \in CAs : c = d
Served == \A n \in Node : node[n].phase = "up" => node[n].ca \in CAs
InForce == \A c \in issued : c.ca \in CAs /\ c.tag \in tags
NoneInForce == \A n \in Node : node[n].phase = "deleteTags" => issued = {}
OutOfForce == \A c \in retired : c.ca \notin CAs
OneCA ==
    "race" \notin causes =>
        DeletesAlone /\ SameCA /\ Served /\ InForce /\ NoneInForce /\ OutOfForce

(* A new CA is another than any before it.                                   *)
Numbers ==
    /\ \A c \in CAs : c < nextCA
    /\ \A c \in issued \cup retired : c.ca < nextCA
    /\ \A n \in Node : node[n].phase = "up" => node[n].ca < nextCA

IInv == Typed /\ Filled /\ Alone /\ ToolKnows /\ KeysAgree /\ OneCA /\ Numbers

-----------------------------------------------------------------------------
(* Rows, and functions to rows.                                              *)

LEMMA RowsIn ==
  ASSUME NEW S, NEW f \in RowFunctions(S)
  PROVE  /\ DOMAIN f \subseteq S
         /\ \A r \in DOMAIN f : f[r] \in Row
         /\ f = [r \in DOMAIN f |-> f[r]]
<1>1. PICK T \in SUBSET S : f \in [T -> Row]
  BY DEF RowFunctions
<1> QED
  BY <1>1

LEMMA RowsMade ==
  ASSUME NEW S, NEW T \in SUBSET S, NEW f \in [T -> Row]
  PROVE  f \in RowFunctions(S)
  BY DEF RowFunctions

(* Fewer rows are rows. *)
LEMMA Fewer ==
  ASSUME NEW S, NEW f \in RowFunctions(S), NEW T, T \subseteq DOMAIN f
  PROVE  /\ Restrict(f, T) \in RowFunctions(S)
         /\ DOMAIN Restrict(f, T) = T
         /\ \A r \in T : Restrict(f, T)[r] = f[r]
<1>1. Restrict(f, T) = [r \in T |-> f[r]]
  BY DEF Restrict
<1>2. [r \in T |-> f[r]] \in [T -> Row] /\ T \in SUBSET S
  BY RowsIn
<1> QED
  BY <1>1, <1>2, RowsMade

(* No rows. *)
LEMMA NoRows ==
  ASSUME NEW S
  PROVE  [r \in {} |-> 0] \in RowFunctions(S) /\ DOMAIN [r \in {} |-> 0] = {}
<1>1. [r \in {} |-> 0] \in [{} -> Row]
  OBVIOUS
<1> QED
  BY <1>1, RowsMade

(* Numbers of CAs are not ids of data. *)
LEMMA TwoTables ==
  /\ \A r \in Secret : TableOf(r) = "data" /\ r \notin CA
  /\ \A r \in CA : TableOf(r) = "root_ca" /\ r \notin Secret
  BY IdsAssumption DEF TableOf, CA

(* What computeRecord makes of a row: the same content under the new key.    *)
LEMMA TransformedRow ==
  ASSUME tool \in ToolRecord, NEW row \in Row
  PROVE  /\ Transformed(row) \in Row
         /\ row.key = tool.old =>
              /\ Transformed(row).key = tool.new
              /\ ContentOf(Transformed(row)) = ContentOf(row)
<1>1. /\ row.plain \in 0..MaxValue /\ row.cipher \in 0..MaxValue
      /\ tool.new \in Key \cup {None}
  BY DEF Row, ToolRecord
<1>2. 0 \in 0..MaxValue
  BY BoundsAssumption
<1>3. \A content \in 0..MaxValue :
        /\ InClear(content) \in Row /\ InClear(content).key = None
        /\ InClear(content).plain = content
        /\ \A k \in Key \cup {None} :
             /\ Sealed(k, content) \in Row /\ Sealed(k, content).key = k
             /\ Sealed(k, content).cipher = content
  BY <1>2 DEF InClear, Sealed, Row
<1> QED
  BY <1>1, <1>3 DEF Transformed, ContentOf

(* The rows without those of root_ca, and with a row set.                    *)
LEMMA RowsOfData ==
  ASSUME db \in RowFunctions(Id)
  PROVE  /\ RowsOf("data") = DOMAIN db \cap Secret
         /\ CAs = DOMAIN db \cap CA
<1>1. DOMAIN db \subseteq Secret \cup CA
  BY RowsIn DEF Id
<1> QED
  BY <1>1, TwoTables DEF RowsOf, CAs

LEMMA RowSet ==
  ASSUME NEW S, NEW f \in RowFunctions(S), NEW s \in S, NEW row \in Row, NEW g,
         g = [q \in DOMAIN f \cup {s} |-> IF q = s THEN row ELSE f[q]]
  PROVE  /\ g \in RowFunctions(S) /\ DOMAIN g = DOMAIN f \cup {s}
         /\ g[s] = row /\ \A q \in DOMAIN f \ {s} : g[q] = f[q]
<1>1. DOMAIN f \cup {s} \in SUBSET S
  BY RowsIn
<1>2. g \in [DOMAIN f \cup {s} -> Row]
  BY RowsIn
<1> QED
  BY <1>1, <1>2, RowsMade

(* What an orchestrator's step does to it: it leaves the others alone.       *)
OthersKept(n) == \A q \in Node \ {n} : node'[q] = node[q]

LEMMA NodeSet ==
  ASSUME node \in [Node -> NodeRecord], NEW n \in Node, NEW r \in NodeRecord,
         node' = [node EXCEPT ![n] = r]
  PROVE  node' \in [Node -> NodeRecord] /\ node'[n] = r /\ OthersKept(n)
  BY DEF OthersKept

LEMMA NodeMoves ==
  ASSUME node \in [Node -> NodeRecord], NEW n \in Node, NEW phase \in Phase, SetNode(n, phase)
  PROVE  /\ node' \in [Node -> NodeRecord] /\ OthersKept(n)
         /\ node'[n].phase = phase /\ node'[n].key = node[n].key /\ node'[n].ca = node[n].ca
<1>1. node[n] \in NodeRecord
  OBVIOUS
<1>2. node'[n] = [node[n] EXCEPT !.phase = phase]
  BY DEF SetNode
<1>3. node'[n] \in NodeRecord /\ node'[n].phase = phase /\ node'[n].key = node[n].key
        /\ node'[n].ca = node[n].ca
  BY <1>1, <1>2 DEF NodeRecord
<1> QED
  BY <1>3 DEF SetNode, OthersKept

LEMMA NodeServes ==
  ASSUME node \in [Node -> NodeRecord], NEW n \in Node, NEW c \in CA, Serve(n, c)
  PROVE  /\ node' \in [Node -> NodeRecord] /\ OthersKept(n)
         /\ node'[n].phase = "up" /\ node'[n].key = node[n].key /\ node'[n].ca = c
<1>1. node[n] \in NodeRecord /\ c \in 0..MaxCA
  BY BoundsAssumption DEF CA
<1>2. node'[n] = [node[n] EXCEPT !.phase = "up", !.ca = c]
  BY DEF Serve
<1>3. node'[n] \in NodeRecord /\ node'[n].phase = "up" /\ node'[n].key = node[n].key
        /\ node'[n].ca = c
  BY <1>1, <1>2 DEF NodeRecord, Phase
<1> QED
  BY <1>3 DEF Serve, OthersKept

LEMMA NodeFails ==
  ASSUME node \in [Node -> NodeRecord], NEW n \in Node, node' = [node EXCEPT ![n] = Down]
  PROVE  node' \in [Node -> NodeRecord] /\ OthersKept(n) /\ node'[n].phase = "down"
<1>1. Down \in NodeRecord /\ Down.phase = "down"
  BY BoundsAssumption DEF Down, NodeRecord, Phase
<1> QED
  BY <1>1, NodeSet

(* Starting one.                                                             *)
LEMMA NodeBoots ==
  ASSUME node \in [Node -> NodeRecord], NEW n \in Node, NEW key \in Key, NEW reinit \in BOOLEAN,
         Boot(n, key, reinit)
  PROVE  /\ node' \in [Node -> NodeRecord] /\ OthersKept(n) /\ node[n].phase = "down"
         /\ node'[n].phase = (IF reinit THEN "deleteCA" ELSE "getCA") /\ node'[n].key = key
<1> DEFINE r == [phase |-> IF reinit THEN "deleteCA" ELSE "getCA", key |-> key, ca |-> 0]
<1>1. r \in NodeRecord /\ r.phase = (IF reinit THEN "deleteCA" ELSE "getCA") /\ r.key = key
  BY BoundsAssumption DEF NodeRecord, Phase
<1>2. node' = [node EXCEPT ![n] = r] /\ node[n].phase = "down"
  BY DEF Boot
<1> HIDE DEF r
<1> QED
  BY <1>1, <1>2, NodeSet

-----------------------------------------------------------------------------
(* What the steps do to the rows.                                            *)

LEMMA IdleToolTyped ==
  /\ IdleTool \in ToolRecord /\ IdleTool.phase = "idle" /\ IdleTool.table = "data"
  /\ IdleTool.old = None /\ IdleTool.new = None
  /\ IdleTool.todo = [r \in {} |-> 0]
  BY NoRows DEF IdleTool, ToolRecord

LEMMA CommitRows ==
  ASSUME TablesTyped, NotedInDb, Commit
  PROVE  /\ db' \in RowFunctions(Id) /\ DOMAIN db' = DOMAIN db
         /\ \A r \in DOMAIN changed : db'[r] = changed[r]
         /\ \A r \in DOMAIN db \ DOMAIN changed : db'[r] = db[r]
<1>1. db' = [r \in DOMAIN db |-> IF r \in DOMAIN changed THEN changed[r] ELSE db[r]]
  BY DEF Commit
<1>2. DOMAIN db \in SUBSET Id /\ \A r \in DOMAIN db : db[r] \in Row
  BY RowsIn DEF TablesTyped
<1>3. \A r \in DOMAIN changed : changed[r] \in Row
  BY RowsIn DEF TablesTyped
<1>4. db' \in [DOMAIN db -> Row]
  BY <1>1, <1>2, <1>3
<1>5. db' \in RowFunctions(Id)
  BY <1>2, <1>4, RowsMade
<1> QED
  BY <1>1, <1>5 DEF NotedInDb

LEMMA DeleteCARows ==
  ASSUME TablesTyped, NEW n \in Node, DeleteCA(n)
  PROVE  /\ db' \in RowFunctions(Id) /\ DOMAIN db' = DOMAIN db \cap Secret
         /\ \A r \in DOMAIN db' : db'[r] = db[r]
<1>1. db' = Restrict(db, DOMAIN db \cap Secret)
  BY RowsOfData DEF DeleteCA, TablesTyped
<1> QED
  BY <1>1, Fewer DEF TablesTyped

LEMMA DeleteRows ==
  ASSUME TablesTyped, NEW n \in Node, NEW r \in Secret, Delete(n, r)
  PROVE  /\ db' \in RowFunctions(Id) /\ DOMAIN db' = DOMAIN db \ {r}
         /\ \A q \in DOMAIN db' : db'[q] = db[q]
<1>1. db' = Restrict(db, DOMAIN db \ {r})
  BY DEF Delete
<1> QED
  BY <1>1, Fewer DEF TablesTyped

LEMMA InsertCARows ==
  ASSUME TablesTyped, NodesKnow, NEW n \in Node, InsertCA(n)
  PROVE  /\ db' \in RowFunctions(Id) /\ DOMAIN db' = DOMAIN db \cup {nextCA}
         /\ db'[nextCA].key = node[n].key /\ ContentOf(db'[nextCA]) # 0
         /\ \A q \in DOMAIN db \ {nextCA} : db'[q] = db[q]
<1> DEFINE row == Sealed(node[n].key, 1)
<1>1. node[n].key \in Key /\ 0 \in 0..MaxValue /\ 1 \in 0..MaxValue
  BY BoundsAssumption DEF InsertCA, NodesKnow
<1>2. row \in Row /\ row.key = node[n].key /\ ContentOf(row) # 0
  BY <1>1, KeyAssumption DEF Sealed, Row, ContentOf
<1>3. nextCA \in Id
  BY DEF InsertCA, NewRootCA, Id
<1>4. db' = [q \in DOMAIN db \cup {nextCA} |-> IF q = nextCA THEN row ELSE db[q]]
  BY DEF InsertCA, NewRootCA
<1> HIDE DEF row
<1> QED
  BY <1>2, <1>3, <1>4, RowSet DEF TablesTyped

(* An orchestrator's update of a row of data, or its insertion.              *)
LEMMA WriteRows ==
  ASSUME TablesTyped, NodesKnow, WrittenOK, NEW n \in Node, NEW r \in Secret, Write(n, r)
  PROVE  /\ db' \in RowFunctions(Id) /\ DOMAIN db' = DOMAIN db \cup {r}
         /\ db'[r].key = node[n].key /\ ContentOf(db'[r]) = written'[r]
         /\ written'[r] \in 1..MaxValue
         /\ \A q \in DOMAIN db \ {r} : db'[q] = db[q]
         /\ DOMAIN written' = DOMAIN written \cup {r}
         /\ \A q \in DOMAIN written \ {r} : written'[q] = written[q]
<1> DEFINE plain == IF r \in DOMAIN db THEN db[r].plain ELSE 0
           content == IF r \in DOMAIN db THEN written[r] + 1 ELSE 1
           row == [Sealed(node[n].key, content) EXCEPT !.plain = plain]
<1>1. node[n].key \in Key
  BY DEF Write, NodesKnow
<1>2. \A q \in DOMAIN db : db[q] \in Row
  BY RowsIn DEF TablesTyped
<1>3. plain \in 0..MaxValue
  BY <1>2, BoundsAssumption DEF Row
<1>4. content <= MaxValue
  BY DEF Write
<1>5. r \in DOMAIN db => written[r] \in 1..MaxValue
  BY DEF WrittenOK
<1>6. content \in 1..MaxValue
  BY <1>4, <1>5, BoundsAssumption
<1>7. db' = [q \in DOMAIN db \cup {r} |-> IF q = r THEN row ELSE db[q]]
  BY DEF Write
<1>8. written' = [q \in DOMAIN written \cup {r} |-> IF q = r THEN content ELSE written[q]]
  BY DEF Write
<1> HIDE DEF plain, content
<1>9. row = [plain |-> plain, key |-> node[n].key, cipher |-> content]
  BY DEF Sealed
<1>10. row \in Row /\ row.key = node[n].key /\ ContentOf(row) = content
  BY <1>1, <1>3, <1>6, <1>9, KeyAssumption DEF Row, ContentOf
<1>11. r \in Id
  BY DEF Id
<1> HIDE DEF row
<1>12. /\ db' \in RowFunctions(Id) /\ DOMAIN db' = DOMAIN db \cup {r} /\ db'[r] = row
       /\ \A q \in DOMAIN db \ {r} : db'[q] = db[q]
  BY <1>7, <1>10, <1>11, RowSet DEF TablesTyped
<1> QED
  BY <1>6, <1>8, <1>10, <1>12

-----------------------------------------------------------------------------
(* What the steps of the tool do to it.                                      *)

LEMMA ToolMoves ==
  ASSUME tool \in ToolRecord,
         NEW phase \in {"idle", "detect", "select", "update"}, NEW table \in {"data", "root_ca"},
         \/ tool' = [tool EXCEPT !.phase = phase, !.table = table]
         \/ tool' = [tool EXCEPT !.phase = phase] /\ table = tool.table
         \/ tool' = [tool EXCEPT !.table = table] /\ phase = tool.phase
  PROVE  /\ tool' \in ToolRecord /\ tool'.phase = phase /\ tool'.table = table
         /\ tool'.old = tool.old /\ tool'.new = tool.new /\ tool'.todo = tool.todo
  BY DEF ToolRecord

LEMMA ToolReads ==
  ASSUME tool \in ToolRecord, NEW phase \in {"idle", "detect", "select", "update"},
         NEW todo \in RowFunctions(Id),
         \/ tool' = [tool EXCEPT !.phase = phase, !.todo = todo]
         \/ tool' = [tool EXCEPT !.todo = todo] /\ phase = tool.phase
  PROVE  /\ tool' \in ToolRecord /\ tool'.phase = phase /\ tool'.table = tool.table
         /\ tool'.old = tool.old /\ tool'.new = tool.new /\ tool'.todo = todo
  BY DEF ToolRecord

LEMMA StartEffect ==
  ASSUME TablesTyped, NEW old \in Key \cup {None}, NEW new \in Key \cup {None},
         StartCrypt(old, new)
  PROVE  /\ tool' \in ToolRecord /\ tool'.phase = "detect" /\ tool'.table = "data"
         /\ tool'.todo = [r \in {} |-> 0]
<1>1. tool' = [IdleTool EXCEPT !.phase = "detect", !.old = old, !.new = new]
  BY DEF StartCrypt
<1> QED
  BY <1>1, IdleToolTyped DEF ToolRecord

(* detectEncStatus goes on within the table, to the next, or ends.           *)
LEMMA DetectEffect ==
  ASSUME TablesTyped, Detect
  PROVE  \/ tool' = IdleTool
         \/ /\ tool' \in ToolRecord /\ tool'.phase \in {"detect", "select"}
            /\ tool'.phase = "select" => tool'.table = "data"
            /\ tool'.old = tool.old /\ tool'.todo = tool.todo
<1>1. \/ tool' = IdleTool
      \/ tool' = [tool EXCEPT !.phase = "select", !.table = "data"]
      \/ tool' = [tool EXCEPT !.table = "root_ca"] /\ tool.phase = "detect"
  BY DEF Detect
<1> QED
  BY <1>1, ToolMoves DEF TablesTyped

LEMMA SelectEffect ==
  ASSUME TablesTyped, Select
  PROVE  /\ tool' \in ToolRecord /\ tool'.phase = "update" /\ tool'.table = tool.table
         /\ tool'.old = tool.old /\ tool'.new = tool.new
         /\ DOMAIN tool'.todo = RowsOf(tool.table)
         /\ \A r \in DOMAIN tool'.todo : tool'.todo[r] = db[r]
<1> DEFINE todo == Restrict(db, RowsOf(tool.table))
<1>1. RowsOf(tool.table) \subseteq DOMAIN db
  BY DEF RowsOf
<1>2. /\ todo \in RowFunctions(Id) /\ DOMAIN todo = RowsOf(tool.table)
      /\ \A r \in DOMAIN todo : todo[r] = db[r]
  BY <1>1, Fewer DEF TablesTyped
<1>3. tool' = [tool EXCEPT !.phase = "update", !.todo = todo]
  BY DEF Select
<1> HIDE DEF todo
<1> QED
  BY <1>2, <1>3, ToolReads DEF TablesTyped

LEMMA RollbackEffect ==
  ASSUME TablesTyped, Rollback
  PROVE  /\ tool' = IdleTool /\ tool' \in ToolRecord /\ tool'.phase = "idle"
         /\ changed' \in RowFunctions(Id) /\ DOMAIN changed' = {}
  BY IdleToolTyped, NoRows DEF Rollback

(* A row updated: it is noted if it is still in the table.                   *)
Updated(r) ==
    /\ CanTransform(tool.todo[r])
    /\ tool' \in ToolRecord /\ tool'.phase = "update" /\ tool'.table = tool.table
    /\ tool'.old = tool.old /\ tool'.new = tool.new
    /\ DOMAIN tool'.todo = DOMAIN tool.todo \ {r}
    /\ \A q \in DOMAIN tool'.todo : tool'.todo[q] = tool.todo[q]
    /\ \/ /\ r \in DOMAIN db
          /\ changed' \in RowFunctions(Id) /\ DOMAIN changed' = DOMAIN changed \cup {r}
          /\ changed'[r] = Transformed(tool.todo[r])
          /\ \A q \in DOMAIN changed \ {r} : changed'[q] = changed[q]
       \/ r \notin DOMAIN db /\ changed' = changed
    /\ UNCHANGED <<db, orchestrators, causes>>

LEMMA UpdateEffect ==
  ASSUME TablesTyped, NEW r \in Id, UpdateRow(r)
  PROVE  Rollback \/ Updated(r)
<1>1. CASE ~CanTransform(tool.todo[r])
  BY <1>1 DEF UpdateRow
<1>2. CASE CanTransform(tool.todo[r])
  <2> DEFINE todo == Restrict(tool.todo, DOMAIN tool.todo \ {r})
             row == Transformed(tool.todo[r])
  <2>1. tool.todo \in RowFunctions(Id) /\ r \in DOMAIN tool.todo /\ tool.phase = "update"
    BY DEF TablesTyped, ToolRecord, UpdateRow
  <2>2. /\ todo \in RowFunctions(Id) /\ DOMAIN todo = DOMAIN tool.todo \ {r}
        /\ \A q \in DOMAIN todo : todo[q] = tool.todo[q]
    BY <2>1, Fewer
  <2>3. tool' = [tool EXCEPT !.todo = todo]
    BY <1>2 DEF UpdateRow
  <2>4. row \in Row
    BY <2>1, RowsIn, TransformedRow DEF TablesTyped
  <2>5. Note(r, row) /\ UNCHANGED <<db, orchestrators, causes>>
    BY <1>2 DEF UpdateRow
  <2> HIDE DEF todo, row
  <2>6. /\ tool' \in ToolRecord /\ tool'.phase = "update" /\ tool'.table = tool.table
        /\ tool'.old = tool.old /\ tool'.new = tool.new /\ tool'.todo = todo
    BY <2>1, <2>2, <2>3, ToolReads DEF TablesTyped
  <2>7. CASE r \in DOMAIN db
    <3>1. /\ changed' \in RowFunctions(Id) /\ DOMAIN changed' = DOMAIN changed \cup {r}
          /\ changed'[r] = row
          /\ \A q \in DOMAIN changed \ {r} : changed'[q] = changed[q]
      BY <2>4, <2>5, <2>7, RowSet DEF Note, TablesTyped
    <3> QED
      BY <1>2, <2>2, <2>5, <2>6, <2>7, <3>1 DEF Updated, row
  <2>8. CASE r \notin DOMAIN db
    BY <1>2, <2>2, <2>5, <2>6, <2>8 DEF Updated, Note
  <2> QED
    BY <2>7, <2>8
<1> QED
  BY <1>1, <1>2

(* An empty database, or one that was filled without encryption.             *)
LEMMA InitRows ==
  ASSUME Init
  PROVE  /\ db \in RowFunctions(Id)
         /\ \A r \in DOMAIN db :
              db[r].key = None /\ ContentOf(db[r]) = 1
         /\ \A c \in CAs : c < nextCA
         /\ nextCA \in 1..MaxCA + 1
         /\ \A r, q \in CAs : r = q
<1>1. CASE db = [r \in {} |-> 0] /\ nextCA = 1
  <2>1. db \in RowFunctions(Id) /\ DOMAIN db = {}
    BY <1>1, NoRows
  <2>2. CAs = {}
    BY <2>1, RowsOfData
  <2> QED
    BY <1>1, <2>1, <2>2, BoundsAssumption
<1>2. CASE db = [r \in Secret \cup {1} |-> InClear(1)] /\ nextCA = 2
  <2>1. 1 \in CA /\ Secret \cup {1} \in SUBSET Id
    BY BoundsAssumption DEF CA, Id
  <2>2. InClear(1) \in Row /\ InClear(1).key = None /\ ContentOf(InClear(1)) = 1
    BY BoundsAssumption DEF InClear, Row, ContentOf
  <2>3. db \in [Secret \cup {1} -> Row]
    BY <1>2, <2>2
  <2>4. db \in RowFunctions(Id)
    BY <2>1, <2>3, RowsMade
  <2>5. CAs = {1}
    BY <1>2, <2>1, <2>4, RowsOfData, TwoTables
  <2> QED
    BY <1>2, <2>2, <2>4, <2>5, BoundsAssumption
<1> QED
  BY <1>1, <1>2 DEF Init

LEMMA InitIInv == Init => IInv
<1> SUFFICES ASSUME Init PROVE IInv
  OBVIOUS
<1>1. Down \in NodeRecord /\ Down.phase = "down"
  BY BoundsAssumption DEF Down, NodeRecord, Phase
<1>2. node \in [Node -> NodeRecord] /\ \A n \in Node : node[n].phase = "down"
  BY <1>1 DEF Init
<1>3. tool \in ToolRecord /\ tool.phase = "idle" /\ DOMAIN tool.todo = {}
  BY IdleToolTyped, NoRows DEF Init
<1>4. changed \in RowFunctions(Id) /\ DOMAIN changed = {}
  BY NoRows DEF Init
<1>5. /\ DOMAIN written = DOMAIN db \cap Secret
      /\ \A r \in DOMAIN written : written[r] = 1
  BY DEF Init
<1>6. issued = {} /\ retired = {} /\ causes = {} /\ tags = {}
  BY DEF Init
<1>7. Typed
  <2>1. TablesTyped /\ RestTyped
    BY <1>2, <1>3, <1>4, <1>6, InitRows DEF TablesTyped, RestTyped
  <2>2. NodesKnow /\ Noted
    BY <1>2, <1>3, <1>4 DEF NodesKnow, Noted, NotedInDb, NotedWhen, NotedData, ReadTable
  <2>3. WrittenOK
    BY <1>5, BoundsAssumption DEF WrittenOK
  <2> QED
    BY <2>1, <2>2, <2>3 DEF Typed
<1>8. Filled
  <2>1. Full(db)
    BY InitRows DEF Full
  <2>2. Full(changed)
    BY <1>4 DEF Full
  <2>3. Full(tool.todo)
    BY <1>3 DEF Full
  <2> QED
    BY <2>1, <2>2, <2>3 DEF Filled
<1>9. Alone
  BY <1>3 DEF Alone
<1>10. ToolKnows
  BY <1>3, <1>4 DEF ToolKnows, StillSo, NotedRight, NoneMissed
<1>11. KeysAgree
  <2>1. RowsAgree
    BY InitRows DEF RowsAgree
  <2>2. RowsCurrent
    BY <1>5, InitRows DEF RowsCurrent
  <2>3. UpAgree
    BY <1>2 DEF UpAgree
  <2> QED
    BY <2>1, <2>2, <2>3 DEF KeysAgree
<1>12. OneCA
  BY <1>2, <1>6, InitRows
     DEF OneCA, DeletesAlone, Deleting, SameCA, Served, InForce, NoneInForce, OutOfForce
<1>13. Numbers
  BY <1>2, <1>6, InitRows DEF Numbers
<1> QED
  BY <1>7, <1>8, <1>9, <1>10, <1>11, <1>12, <1>13 DEF IInv

-----------------------------------------------------------------------------
(* The types are kept.                                                       *)

(* By a step of the tool, which leaves the orchestrators' state alone, and    *)
(* which rows there are.                                                   *)
LEMMA TypedByTool ==
  ASSUME Typed, UNCHANGED orchestrators, DOMAIN db' = DOMAIN db, db' \in RowFunctions(Id),
         tool' \in ToolRecord, changed' \in RowFunctions(Id),
         causes' \subseteq {"beside", "unchecked", "race"}, Noted'
  PROVE  Typed'
<1>1. TablesTyped' /\ RestTyped'
  BY DEF Typed, TablesTyped, RestTyped, orchestrators
<1>2. NodesKnow' /\ WrittenOK'
  BY DEF Typed, NodesKnow, WrittenOK, orchestrators
<1> QED
  BY <1>1, <1>2 DEF Typed

LEMMA TypedTool ==
  ASSUME Typed,
         \/ \E old, new \in Key \cup {None} : StartCrypt(old, new)
         \/ Detect \/ Select \/ NextTable \/ Commit \/ Interrupt
         \/ \E r \in Id : UpdateRow(r)
  PROVE  Typed'
<1> USE DEF Typed
<1> DEFINE all == {"beside", "unchecked", "race"}
<1>1. tool \in ToolRecord /\ changed \in RowFunctions(Id) /\ db \in RowFunctions(Id)
  BY DEF TablesTyped
<1>2. causes \subseteq all
  BY DEF RestTyped
<1>a. ASSUME Rollback PROVE Typed'
  <2>1. /\ tool' \in ToolRecord /\ tool'.phase = "idle"
        /\ changed' \in RowFunctions(Id) /\ DOMAIN changed' = {}
    BY <1>a, RollbackEffect
  <2>2. UNCHANGED <<db, orchestrators, causes>>
    BY <1>a DEF Rollback
  <2>3. Noted'
    BY <2>1 DEF Noted, NotedInDb, NotedWhen, NotedData, ReadTable
  <2> QED
    BY <1>1, <1>2, <2>1, <2>2, <2>3, TypedByTool
<1>3. ASSUME NEW old \in Key \cup {None}, NEW new \in Key \cup {None}, StartCrypt(old, new)
      PROVE  Typed'
  <2>1. tool' \in ToolRecord /\ tool'.phase = "detect" /\ tool'.table = "data"
    BY <1>3, StartEffect
  <2>2. UNCHANGED <<db, changed, orchestrators>> /\ tool.phase = "idle" /\ causes' \subseteq all
    BY <1>2, <1>3 DEF StartCrypt, Blame, Cause
  <2>3. DOMAIN changed' = {}
    BY <2>2 DEF Noted, NotedWhen
  <2>4. Noted'
    BY <2>1, <2>3 DEF Noted, NotedInDb, NotedWhen, NotedData, ReadTable
  <2> QED
    BY <1>1, <2>1, <2>2, <2>4, TypedByTool
<1>4. CASE Detect
  <2>1. UNCHANGED <<db, changed, orchestrators, causes>> /\ tool.phase = "detect"
    BY <1>4 DEF Detect
  <2>2. tool' \in ToolRecord /\ tool'.phase \in {"idle", "detect", "select"}
    BY <1>4, DetectEffect, IdleToolTyped
  <2>3. DOMAIN changed' = {}
    BY <2>1 DEF Noted, NotedWhen
  <2>4. Noted'
    BY <2>2, <2>3 DEF Noted, NotedInDb, NotedWhen, NotedData, ReadTable
  <2> QED
    BY <1>1, <1>2, <2>1, <2>2, <2>4, TypedByTool
<1>5. CASE Select
  <2>1. UNCHANGED <<db, changed, orchestrators, causes>> /\ tool.phase = "select"
    BY <1>5 DEF Select
  <2>2. /\ tool' \in ToolRecord /\ tool'.phase = "update" /\ tool'.table = tool.table
        /\ DOMAIN tool'.todo = RowsOf(tool.table)
    BY <1>5, SelectEffect
  <2>3. ReadTable'
    BY <2>2 DEF ReadTable, RowsOf, TableOf
  <2>4. DOMAIN changed \subseteq Secret
    BY <2>1 DEF Noted, NotedData, CALocked
  <2>5. NotedInDb' /\ NotedWhen' /\ NotedData'
    BY <2>1, <2>2, <2>4 DEF Noted, NotedInDb, NotedWhen, NotedData
  <2> QED
    BY <1>1, <1>2, <2>1, <2>2, <2>3, <2>5, TypedByTool DEF Noted
<1>6. CASE NextTable
  <2>1. /\ UNCHANGED <<db, changed, orchestrators, causes>>
        /\ tool.phase = "update" /\ tool.table = "data"
        /\ tool' = [tool EXCEPT !.phase = "select", !.table = "root_ca"]
    BY <1>6 DEF NextTable
  <2>2. tool' \in ToolRecord /\ tool'.phase = "select" /\ tool'.table = "root_ca"
    BY <1>1, <2>1, ToolMoves
  <2>3. DOMAIN changed \subseteq Secret
    BY <2>1 DEF Noted, NotedData, CALocked
  <2>4. Noted'
    BY <2>1, <2>2, <2>3 DEF Noted, NotedInDb, NotedWhen, NotedData, ReadTable
  <2> QED
    BY <1>1, <1>2, <2>1, <2>2, <2>4, TypedByTool
<1>7. CASE Commit
  <2>1. UNCHANGED <<orchestrators, causes>> /\ tool' = IdleTool /\ changed' = [r \in {} |-> 0]
    BY <1>7 DEF Commit
  <2>2. db' \in RowFunctions(Id) /\ DOMAIN db' = DOMAIN db
    BY <1>7, CommitRows DEF Noted
  <2>3. tool' \in ToolRecord /\ tool'.phase = "idle"
    BY <2>1, IdleToolTyped
  <2>4. changed' \in RowFunctions(Id) /\ DOMAIN changed' = {}
    BY <2>1, NoRows
  <2>5. Noted'
    BY <2>3, <2>4 DEF Noted, NotedInDb, NotedWhen, NotedData, ReadTable
  <2> QED
    BY <1>2, <2>1, <2>2, <2>3, <2>4, <2>5, TypedByTool
<1>8. CASE Interrupt
  BY <1>8, <1>a DEF Interrupt
<1>9. ASSUME NEW r \in Id, UpdateRow(r) PROVE Typed'
  <2>1. CASE Updated(r)
    <3>1. /\ tool' \in ToolRecord /\ tool'.phase = "update" /\ tool'.table = tool.table
          /\ DOMAIN tool'.todo = DOMAIN tool.todo \ {r}
          /\ UNCHANGED <<db, orchestrators, causes>>
      BY <2>1 DEF Updated
    <3>2. \/ r \in DOMAIN db /\ changed' \in RowFunctions(Id)
             /\ DOMAIN changed' = DOMAIN changed \cup {r}
          \/ changed' = changed
      BY <2>1 DEF Updated
    <3>3. tool.phase = "update" /\ r \in DOMAIN tool.todo
      BY <1>9 DEF UpdateRow
    <3>4. NotedInDb' /\ NotedWhen'
      BY <3>1, <3>2 DEF Noted, NotedInDb, NotedWhen
    <3>5. ReadTable'
      BY <3>1, <3>3 DEF Noted, ReadTable, TableOf
    <3>6. TableOf(r) = tool.table
      BY <3>3 DEF Noted, ReadTable
    <3>7. CALocked' <=> CALocked
      BY <3>1, <3>3 DEF CALocked
    <3>8. tool.table # "data" => CALocked
      BY <1>1, <3>3 DEF CALocked, ToolRecord
    <3>9. ~CALocked => r \in Secret
      BY <3>6, <3>8, TwoTables DEF Id
    <3>10. NotedData'
      BY <3>2, <3>7, <3>9 DEF Noted, NotedData
    <3>11. changed' \in RowFunctions(Id)
      BY <1>1, <3>2
    <3> QED
      BY <1>1, <1>2, <3>1, <3>4, <3>5, <3>10, <3>11, TypedByTool DEF Noted
  <2> QED
    BY <1>9, <1>a, <2>1, UpdateEffect
<1> QED
  BY <1>3, <1>4, <1>5, <1>6, <1>7, <1>8, <1>9

(* What an orchestrator finds in root_ca: nothing, one that it can use, or one*)
(* that does not open with its key.                                        *)
LEMMA GetCAEffect ==
  ASSUME TablesTyped, NEW n \in Node, GetCA(n)
  PROVE  /\ node[n].phase = "getCA" /\ node' \in [Node -> NodeRecord] /\ OthersKept(n)
         /\ \/ node'[n].phase = "insertCA" /\ node'[n].key = node[n].key
            \/ /\ node'[n].phase = "up" /\ node'[n].key = node[n].key
               /\ node'[n].ca \in CAs /\ db[node'[n].ca].key = node[n].key
            \/ node'[n].phase = "down"
<1>1. node \in [Node -> NodeRecord]
  BY DEF TablesTyped
<1>2. CASE SetNode(n, "insertCA")
  BY <1>1, <1>2, NodeMoves DEF GetCA, Phase
<1>3. ASSUME NEW c \in CAs, db[c].key = node[n].key, Serve(n, c)
      PROVE  /\ node' \in [Node -> NodeRecord] /\ OthersKept(n)
             /\ node'[n].phase = "up" /\ node'[n].key = node[n].key
             /\ node'[n].ca \in CAs /\ db[node'[n].ca].key = node[n].key
  <2>1. c \in CA
    BY RowsOfData DEF TablesTyped
  <2> QED
    BY <1>1, <1>3, <2>1, NodeServes
<1>4. CASE node' = [node EXCEPT ![n] = Down]
  BY <1>1, <1>4, NodeFails DEF GetCA
<1>5. node[n].phase = "getCA"
  BY DEF GetCA
<1>6. \/ SetNode(n, "insertCA")
      \/ \E c \in CAs : db[c].key = node[n].key /\ Serve(n, c)
      \/ node' = [node EXCEPT ![n] = Down]
  BY DEF GetCA, CAs
<1> QED
  BY <1>2, <1>3, <1>4, <1>5, <1>6

LEMMA NodesKnowKept ==
  ASSUME NodesKnow, NEW n \in Node, OthersKept(n),
         node'[n].phase # "down" => node'[n].key \in Key,
         node'[n].phase = "up" => node'[n].ca \in CA
  PROVE  NodesKnow'
  BY DEF NodesKnow, OthersKept

LEMMA TypedByNode ==
  ASSUME Typed, UNCHANGED <<tool, changed>>, db' \in RowFunctions(Id),
         DOMAIN changed \subseteq DOMAIN db', node' \in [Node -> NodeRecord],
         RestTyped', NodesKnow', WrittenOK'
  PROVE  Typed'
<1>1. TablesTyped'
  BY DEF Typed, TablesTyped
<1>2. Noted'
  BY DEF Typed, Noted, NotedInDb, NotedWhen, NotedData, ReadTable, CALocked, TableOf
<1> QED
  BY <1>1, <1>2 DEF Typed

(* The steps that do not touch the rows.                                     *)
LEMMA TypedByIdleNode ==
  ASSUME Typed, UNCHANGED <<tool, changed, db, written>>,
         node' \in [Node -> NodeRecord], RestTyped', NodesKnow'
  PROVE  Typed'
  BY TypedByNode DEF Typed, TablesTyped, Noted, NotedInDb, WrittenOK

LEMMA TypedNode ==
  ASSUME Typed, NEW n \in Node,
         \/ \E key \in Key, reinit \in BOOLEAN : Boot(n, key, reinit)
         \/ DeleteCA(n) \/ DeleteUsedTags(n) \/ GetCA(n) \/ InsertCA(n)
         \/ \E r \in Secret : Write(n, r) \/ Delete(n, r)
         \/ GetCertForServer(n) \/ Stop(n)
  PROVE  Typed'
<1> USE DEF Typed
<1> DEFINE all == {"beside", "unchecked", "race"}
<1>1. node \in [Node -> NodeRecord] /\ db \in RowFunctions(Id)
  BY DEF TablesTyped
<1>2. node[n].phase # "down" => node[n].key \in Key
  BY DEF NodesKnow
<1>3. DOMAIN changed \subseteq DOMAIN db
  BY DEF Noted, NotedInDb
<1>a. ASSUME NEW phase \in Phase \ {"down", "up"}, SetNode(n, phase), node[n].phase # "down"
      PROVE  node' \in [Node -> NodeRecord] /\ NodesKnow'
  BY <1>1, <1>2, <1>a, NodeMoves, NodesKnowKept
<1>4. ASSUME NEW key \in Key, NEW reinit \in BOOLEAN, Boot(n, key, reinit) PROVE Typed'
  <2>1. /\ node' \in [Node -> NodeRecord] /\ OthersKept(n)
        /\ node'[n].phase \in {"deleteCA", "getCA"} /\ node'[n].key = key
    BY <1>1, <1>4, NodeBoots
  <2>2. UNCHANGED <<tool, changed, db, written>> /\ RestTyped'
    BY <1>4 DEF Boot, Blame, Cause, RestTyped
  <2> QED
    BY <2>1, <2>2, NodesKnowKept, TypedByIdleNode
<1>5. CASE DeleteCA(n)
  <2>1. SetNode(n, "deleteTags") /\ node[n].phase = "deleteCA"
    BY <1>5 DEF DeleteCA
  <2>2. db' \in RowFunctions(Id) /\ DOMAIN db' = DOMAIN db \cap Secret
    BY <1>5, DeleteCARows
  <2>3. UNCHANGED <<tool, changed, written>> /\ RestTyped'
    BY <1>5 DEF DeleteCA, Retire, RestTyped
  <2>4. DOMAIN changed \subseteq DOMAIN db'
    BY <1>3, <1>5, <2>2 DEF DeleteCA, Noted, NotedData
  <2>5. WrittenOK'
    BY <2>2, <2>3 DEF WrittenOK
  <2> QED
    BY <1>a, <2>1, <2>2, <2>3, <2>4, <2>5, TypedByNode DEF Phase
<1>6. CASE DeleteUsedTags(n)
  <2>1. SetNode(n, "getCA") /\ node[n].phase = "deleteTags"
    BY <1>6 DEF DeleteUsedTags
  <2>2. UNCHANGED <<tool, changed, db, written>> /\ RestTyped'
    BY <1>6 DEF DeleteUsedTags, RestTyped
  <2> QED
    BY <1>a, <2>1, <2>2, TypedByIdleNode DEF Phase
<1>7. CASE GetCA(n)
  <2>1. UNCHANGED <<tool, changed, db, written>> /\ RestTyped'
    BY <1>7 DEF GetCA, RestTyped
  <2>2. CAs \subseteq CA
    BY <1>1, RowsOfData
  <2>3. node' \in [Node -> NodeRecord] /\ NodesKnow'
    BY <1>2, <1>7, <2>2, GetCAEffect, NodesKnowKept
  <2> QED
    BY <2>1, <2>3, TypedByIdleNode
<1>8. CASE InsertCA(n)
  <2>1. Serve(n, nextCA) /\ nextCA \in CA /\ node[n].phase # "down"
    BY <1>8 DEF InsertCA, NewRootCA
  <2>2. /\ node' \in [Node -> NodeRecord] /\ OthersKept(n)
        /\ node'[n].phase = "up" /\ node'[n].key = node[n].key /\ node'[n].ca = nextCA
    BY <1>1, <2>1, NodeServes
  <2>3. db' \in RowFunctions(Id) /\ DOMAIN db' = DOMAIN db \cup {nextCA}
    BY <1>8, InsertCARows
  <2>4. UNCHANGED <<tool, changed, written, tags, issued, retired>> /\ nextCA' = nextCA + 1
    BY <1>8 DEF InsertCA
  <2>5. nextCA' \in 1..MaxCA + 1
    BY <2>1, <2>4, BoundsAssumption DEF CA
  <2>6. RestTyped'
    BY <1>8, <2>4, <2>5 DEF InsertCA, Blame, Cause, RestTyped
  <2>7. WrittenOK'
    BY <2>1, <2>3, <2>4, TwoTables DEF WrittenOK
  <2> QED
    BY <1>2, <1>3, <2>1, <2>2, <2>3, <2>4, <2>6, <2>7, NodesKnowKept, TypedByNode
<1>9. ASSUME NEW r \in Secret, Write(n, r) PROVE Typed'
  <2>1. UNCHANGED <<tool, changed, node>> /\ RestTyped'
    BY <1>9 DEF Write, RestTyped
  <2>2. /\ db' \in RowFunctions(Id) /\ DOMAIN db' = DOMAIN db \cup {r}
        /\ written'[r] \in 1..MaxValue
        /\ DOMAIN written' = DOMAIN written \cup {r}
        /\ \A q \in DOMAIN written \ {r} : written'[q] = written[q]
    BY <1>9, WriteRows
  <2>3. WrittenOK'
    BY <2>2 DEF WrittenOK
  <2>4. NodesKnow'
    BY <2>1 DEF NodesKnow
  <2> QED
    BY <1>1, <1>3, <2>1, <2>2, <2>3, <2>4, TypedByNode
<1>10. ASSUME NEW r \in Secret, Delete(n, r) PROVE Typed'
  <2>1. UNCHANGED <<tool, changed, node, written>> /\ RestTyped' /\ r \notin DOMAIN changed
    BY <1>10 DEF Delete, RestTyped
  <2>2. db' \in RowFunctions(Id) /\ DOMAIN db' = DOMAIN db \ {r}
    BY <1>10, DeleteRows
  <2>3. WrittenOK' /\ NodesKnow'
    BY <2>1, <2>2 DEF WrittenOK, NodesKnow
  <2> QED
    BY <1>1, <1>3, <2>1, <2>2, <2>3, TypedByNode
<1>11. CASE GetCertForServer(n)
  <2>1. UNCHANGED <<tool, changed, db, written, node, nextCA, retired, causes>>
    BY <1>11 DEF GetCertForServer
  <2>2. PICK t \in Tag : tags' = tags \cup {t}
                         /\ issued' = issued \cup {MakeClientCert(node[n].ca, t)}
    BY <1>11 DEF GetCertForServer
  <2>3. node[n].ca \in CA
    BY <1>11 DEF GetCertForServer, NodesKnow
  <2>4. MakeClientCert(node[n].ca, t) \in Certificate
    BY <2>3 DEF MakeClientCert, Certificate
  <2>5. RestTyped'
    BY <2>1, <2>2, <2>4 DEF RestTyped
  <2>6. NodesKnow'
    BY <2>1 DEF NodesKnow
  <2> QED
    BY <1>1, <2>1, <2>5, <2>6, TypedByIdleNode
<1>12. CASE Stop(n)
  <2>1. UNCHANGED <<tool, changed, db, written>> /\ RestTyped'
    BY <1>12 DEF Stop, RestTyped
  <2>2. node' \in [Node -> NodeRecord] /\ NodesKnow'
    BY <1>1, <1>12, NodeFails, NodesKnowKept DEF Stop
  <2> QED
    BY <2>1, <2>2, TypedByIdleNode
<1> QED
  BY <1>4, <1>5, <1>6, <1>7, <1>8, <1>9, <1>10, <1>11, <1>12

LEMMA TypedStep == Typed /\ [Next]_vars => Typed'
<1> SUFFICES ASSUME Typed, [Next]_vars PROVE Typed'
  OBVIOUS
<1>1. CASE UNCHANGED vars
  <2>1. Noted'
    BY <1>1 DEF vars, Typed, Noted, NotedInDb, NotedWhen, NotedData, ReadTable, CALocked,
                TableOf
  <2> QED
    BY <1>1, <2>1 DEF vars, Typed, TablesTyped, RestTyped, NodesKnow, WrittenOK
<1>2. CASE Next
  BY <1>2, TypedTool, TypedNode DEF Next, Id
<1> QED
  BY <1>1, <1>2

-----------------------------------------------------------------------------
(* Contents.                                                                 *)

(* The steps that leave the rows and the tool's copies of them alone.        *)
LEMMA FilledKept ==
  ASSUME Filled, UNCHANGED <<db, changed>>,
         tool'.todo = tool.todo \/ tool'.todo = [r \in {} |-> 0]
  PROVE  Filled'
<1>1. Full(tool'.todo)
  BY NoRows DEF Filled, Full
<1> QED
  BY <1>1 DEF Filled, Full

LEMMA FilledByRollback ==
  ASSUME Filled, Rollback
  PROVE  Filled'
  BY IdleToolTyped, NoRows DEF Filled, Full, Rollback

LEMMA FilledTool ==
  ASSUME Typed, Filled,
         \/ \E old, new \in Key \cup {None} : StartCrypt(old, new)
         \/ Detect \/ Select \/ NextTable \/ Commit \/ Interrupt
         \/ \E r \in Id : UpdateRow(r)
  PROVE  Filled'
<1>1. TablesTyped /\ NotedInDb
  BY DEF Typed, Noted
<1>2. Full(db) /\ Full(changed) /\ Full(tool.todo)
  BY DEF Filled
<1>3. ASSUME NEW old \in Key \cup {None}, NEW new \in Key \cup {None}, StartCrypt(old, new)
      PROVE  Filled'
  BY <1>1, <1>3, StartEffect, FilledKept DEF StartCrypt
<1>4. CASE Detect
  BY <1>1, <1>4, DetectEffect, IdleToolTyped, FilledKept DEF Detect
<1>5. CASE Select
  <2>1. /\ DOMAIN tool'.todo = RowsOf(tool.table)
        /\ \A r \in DOMAIN tool'.todo : tool'.todo[r] = db[r]
    BY <1>1, <1>5, SelectEffect
  <2>2. Full(tool'.todo)
    BY <1>2, <2>1 DEF Full, RowsOf
  <2> QED
    BY <1>2, <1>5, <2>2 DEF Select, Filled, Full
<1>6. CASE NextTable
  <2>1. tool'.todo = tool.todo /\ UNCHANGED <<db, changed>>
    BY <1>1, <1>6, ToolMoves DEF NextTable, TablesTyped
  <2> QED
    BY <2>1, FilledKept
<1>7. CASE Commit
  <2>1. Full(db')
    BY <1>1, <1>2, <1>7, CommitRows DEF Full
  <2>2. Full(changed') /\ Full(tool'.todo)
    BY <1>7, NoRows, IdleToolTyped DEF Commit, Full
  <2> QED
    BY <2>1, <2>2 DEF Filled, Full
<1>8. CASE Interrupt
  BY <1>8, FilledByRollback DEF Interrupt
<1>9. ASSUME NEW r \in Id, Updated(r), r \in DOMAIN tool.todo PROVE Filled'
  <2>1. /\ CanTransform(tool.todo[r]) /\ DOMAIN tool'.todo = DOMAIN tool.todo \ {r}
        /\ \A q \in DOMAIN tool'.todo : tool'.todo[q] = tool.todo[q]
        /\ UNCHANGED db
    BY <1>9 DEF Updated
  <2>2. tool.todo[r] \in Row
    BY <1>1, <1>9, RowsIn DEF TablesTyped, ToolRecord
  <2>3. ContentOf(Transformed(tool.todo[r])) # 0
    BY <1>1, <1>2, <1>9, <2>1, <2>2, TransformedRow DEF TablesTyped, CanTransform, Full
  <2>4. \/ changed' = changed
        \/ /\ DOMAIN changed' = DOMAIN changed \cup {r}
           /\ changed'[r] = Transformed(tool.todo[r])
           /\ \A q \in DOMAIN changed \ {r} : changed'[q] = changed[q]
    BY <1>9 DEF Updated
  <2>5. Full(changed')
    BY <1>2, <2>3, <2>4 DEF Full
  <2>6. Full(tool'.todo)
    BY <1>2, <2>1 DEF Full
  <2> QED
    BY <1>2, <2>1, <2>5, <2>6 DEF Filled, Full
<1>10. ASSUME NEW r \in Id, UpdateRow(r) PROVE Filled'
  BY <1>1, <1>9, <1>10, UpdateEffect, FilledByRollback DEF UpdateRow
<1> QED
  BY <1>3, <1>4, <1>5, <1>6, <1>7, <1>8, <1>10

LEMMA FilledNode ==
  ASSUME Typed, Filled, NEW n \in Node,
         \/ \E key \in Key, reinit \in BOOLEAN : Boot(n, key, reinit)
         \/ DeleteCA(n) \/ DeleteUsedTags(n) \/ GetCA(n) \/ InsertCA(n)
         \/ \E r \in Secret : Write(n, r) \/ Delete(n, r)
         \/ GetCertForServer(n) \/ Stop(n)
  PROVE  Filled'
<1>1. TablesTyped /\ NodesKnow /\ WrittenOK
  BY DEF Typed
<1>2. Full(db) /\ Full(changed) /\ Full(tool.todo)
  BY DEF Filled
<1>a. ASSUME Full(db'), UNCHANGED <<tool, changed>> PROVE Filled'
  BY <1>2, <1>a DEF Filled, Full
<1>3. ASSUME NEW key \in Key, NEW reinit \in BOOLEAN, Boot(n, key, reinit) PROVE Filled'
  BY <1>3, FilledKept DEF Boot
<1>4. CASE DeleteCA(n)
  <2>1. Full(db')
    BY <1>1, <1>2, <1>4, DeleteCARows DEF Full
  <2> QED
    BY <1>4, <1>a, <2>1 DEF DeleteCA
<1>5. CASE DeleteUsedTags(n)
  BY <1>5, FilledKept DEF DeleteUsedTags
<1>6. CASE GetCA(n)
  BY <1>6, FilledKept DEF GetCA
<1>7. CASE InsertCA(n)
  <2>1. Full(db')
    BY <1>1, <1>2, <1>7, InsertCARows DEF Full
  <2> QED
    BY <1>7, <1>a, <2>1 DEF InsertCA
<1>8. ASSUME NEW r \in Secret, Write(n, r) PROVE Filled'
  <2>1. /\ DOMAIN db' = DOMAIN db \cup {r} /\ ContentOf(db'[r]) = written'[r]
        /\ written'[r] \in 1..MaxValue /\ \A q \in DOMAIN db \ {r} : db'[q] = db[q]
    BY <1>1, <1>8, WriteRows
  <2>2. written'[r] # 0
    BY <2>1
  <2>3. Full(db')
    BY <1>2, <2>1, <2>2 DEF Full
  <2> QED
    BY <1>8, <1>a, <2>3 DEF Write
<1>9. ASSUME NEW r \in Secret, Delete(n, r) PROVE Filled'
  <2>1. Full(db')
    BY <1>1, <1>2, <1>9, DeleteRows DEF Full
  <2> QED
    BY <1>9, <1>a, <2>1 DEF Delete
<1>10. CASE GetCertForServer(n)
  BY <1>10, FilledKept DEF GetCertForServer
<1>11. CASE Stop(n)
  BY <1>11, FilledKept DEF Stop
<1> QED
  BY <1>3, <1>4, <1>5, <1>6, <1>7, <1>8, <1>9, <1>10, <1>11

LEMMA FilledStep == Typed /\ Filled /\ [Next]_vars => Filled'
<1> SUFFICES ASSUME Typed, Filled, [Next]_vars PROVE Filled'
  OBVIOUS
<1>1. CASE UNCHANGED vars
  BY <1>1, FilledKept DEF vars
<1>2. CASE Next
  BY <1>2, FilledTool, FilledNode DEF Next, Id
<1> QED
  BY <1>1, <1>2

-----------------------------------------------------------------------------
(* The tool alone.                                                           *)

(* What was done that the operator is told not to do is not forgotten.       *)
LEMMA CausesGrow == [Next]_vars => causes \subseteq causes'
<1> SUFFICES ASSUME [Next]_vars PROVE causes \subseteq causes'
  OBVIOUS
<1>1. ASSUME NEW old \in Key \cup {None}, NEW new \in Key \cup {None}, StartCrypt(old, new)
      PROVE  causes \subseteq causes'
  BY <1>1 DEF StartCrypt, Blame
<1>2. CASE Detect \/ Select \/ NextTable \/ Commit \/ Interrupt
  BY <1>2 DEF Detect, Select, NextTable, Commit, Interrupt, Rollback
<1>3. ASSUME NEW r \in Secret \cup CA, UpdateRow(r) PROVE causes \subseteq causes'
  BY <1>3 DEF UpdateRow, Rollback
<1>4. ASSUME NEW n \in Node, NEW key \in Key, NEW reinit \in BOOLEAN, Boot(n, key, reinit)
      PROVE  causes \subseteq causes'
  BY <1>4 DEF Boot, Blame
<1>5. ASSUME NEW n \in Node,
             \/ DeleteCA(n) \/ DeleteUsedTags(n) \/ GetCA(n) \/ InsertCA(n)
             \/ GetCertForServer(n) \/ Stop(n)
             \/ \E r \in Secret : Write(n, r) \/ Delete(n, r)
      PROVE  causes \subseteq causes'
  BY <1>5 DEF DeleteCA, DeleteUsedTags, GetCA, InsertCA, Blame, GetCertForServer, Stop, Write,
              Delete
<1>6. CASE UNCHANGED vars
  BY <1>6 DEF vars
<1> QED
  BY <1>1, <1>2, <1>3, <1>4, <1>5, <1>6 DEF Next

(* An orchestrator that does something else than start is running, and does  *)
(* nothing to the tool.                                                    *)
Runs(n) ==
    \/ DeleteCA(n) \/ DeleteUsedTags(n) \/ GetCA(n) \/ InsertCA(n)
    \/ \E r \in Secret : Write(n, r) \/ Delete(n, r)
    \/ GetCertForServer(n) \/ Stop(n)

LEMMA RunsEffect ==
  ASSUME NEW n \in Node, Runs(n)
  PROVE  node[n].phase # "down" /\ UNCHANGED <<tool, changed>>
<1>1. CASE DeleteCA(n) \/ DeleteUsedTags(n) \/ GetCA(n) \/ InsertCA(n)
  BY <1>1 DEF DeleteCA, DeleteUsedTags, GetCA, InsertCA
<1>2. CASE GetCertForServer(n) \/ Stop(n)
  BY <1>2 DEF GetCertForServer, Stop
<1>3. ASSUME NEW r \in Secret, Write(n, r) \/ Delete(n, r)
      PROVE  node[n].phase # "down" /\ UNCHANGED <<tool, changed>>
  BY <1>3 DEF Write, Delete
<1> QED
  BY <1>1, <1>2, <1>3 DEF Runs

LEMMA NextByWhom ==
  ASSUME Next
  PROVE  \/ \E old, new \in Key \cup {None} : StartCrypt(old, new)
         \/ Detect \/ Select \/ NextTable \/ Commit \/ Interrupt
         \/ \E r \in Id : UpdateRow(r)
         \/ \E n \in Node, key \in Key, reinit \in BOOLEAN : Boot(n, key, reinit)
         \/ \E n \in Node : Runs(n)
<1>1. ASSUME NEW n \in Node, NEW key \in Key, NEW reinit \in BOOLEAN, Boot(n, key, reinit)
      PROVE  \E m \in Node, k \in Key, b \in BOOLEAN : Boot(m, k, b)
  BY <1>1
<1> HIDE DEF Boot, StartCrypt
<1> QED
  BY <1>1 DEF Next, Runs, Id

LEMMA AloneStep == Typed /\ Alone /\ [Next]_vars => Alone'
<1> SUFFICES ASSUME Typed, Alone, [Next]_vars, "beside" \notin causes', tool'.phase # "idle"
             PROVE  \A n \in Node : node'[n].phase = "down"
  BY DEF Alone
<1>1. "beside" \notin causes /\ TablesTyped
  BY CausesGrow DEF Typed
<1>2. tool.phase # "idle" => \A n \in Node : node[n].phase = "down"
  BY <1>1 DEF Alone
<1>3. ASSUME NEW old \in Key \cup {None}, NEW new \in Key \cup {None}, StartCrypt(old, new)
      PROVE  \A n \in Node : node'[n].phase = "down"
  BY <1>3 DEF StartCrypt, Blame, Cause, orchestrators
<1>4. CASE Detect \/ Select \/ NextTable \/ Commit \/ Interrupt
  <2>1. UNCHANGED node
    BY <1>4 DEF Detect, Select, NextTable, Commit, Interrupt, Rollback, orchestrators
  <2>2. tool.phase # "idle"
    BY <1>4 DEF Detect, Select, NextTable, Commit, Interrupt
  <2> QED
    BY <1>2, <2>1, <2>2
<1>5. ASSUME NEW r \in Id, UpdateRow(r) PROVE \A n \in Node : node'[n].phase = "down"
  <2>1. UNCHANGED node /\ tool.phase # "idle"
    BY <1>5 DEF UpdateRow, Rollback, orchestrators
  <2> QED
    BY <1>2, <2>1
<1>6. ASSUME NEW n \in Node, NEW key \in Key, NEW reinit \in BOOLEAN, Boot(n, key, reinit)
      PROVE  FALSE
  BY <1>6 DEF Boot, Blame, Cause
<1>7. ASSUME NEW n \in Node, Runs(n) PROVE FALSE
  BY <1>2, <1>7, RunsEffect
<1>8. CASE UNCHANGED vars
  BY <1>2, <1>8 DEF vars
<1> QED
  BY <1>3, <1>4, <1>5, <1>6, <1>7, <1>8, NextByWhom

(* While an orchestrator runs, the tool alone has nothing in hand.           *)
LEMMA IdleKnows ==
  ASSUME Typed, tool.phase = "idle"
  PROVE  StillSo /\ NotedRight /\ NoneMissed
  BY DEF Typed, Noted, NotedWhen, StillSo, NotedRight, NoneMissed

(* A step of the tool that computes with the same keys on the same rows.     *)
LEMMA ToolKnowsStep == Typed /\ Alone /\ ToolKnows /\ [Next]_vars => ToolKnows'
<1> SUFFICES ASSUME Typed, Alone, ToolKnows, [Next]_vars, "beside" \notin causes'
             PROVE  StillSo' /\ NotedRight' /\ NoneMissed'
  BY DEF ToolKnows
<1>1. "beside" \notin causes
  BY CausesGrow
<1>2. StillSo /\ NotedRight /\ NoneMissed
  BY <1>1 DEF ToolKnows
<1>3. TablesTyped /\ Noted
  BY DEF Typed
<1>4. tool.phase # "idle" => \A n \in Node : node[n].phase = "down"
  BY <1>1 DEF Alone
<1>5. Typed'
  BY TypedStep
<1>a. ASSUME tool'.phase = "idle" PROVE StillSo' /\ NotedRight' /\ NoneMissed'
  BY <1>5, <1>a DEF Typed, Noted, NotedWhen, StillSo, NotedRight, NoneMissed
<1>b. ASSUME DOMAIN changed' = {}, tool'.phase \in {"idle", "detect"} \/ tool'.table = "data",
             tool'.phase # "update"
      PROVE  StillSo' /\ NotedRight' /\ NoneMissed'
  BY <1>b DEF StillSo, NotedRight, NoneMissed
<1>6. ASSUME NEW old \in Key \cup {None}, NEW new \in Key \cup {None}, StartCrypt(old, new)
      PROVE  StillSo' /\ NotedRight' /\ NoneMissed'
  <2>1. tool'.phase = "detect"
    BY <1>3, <1>6, StartEffect
  <2>2. DOMAIN changed' = {}
    BY <1>5, <2>1 DEF Typed, Noted, NotedWhen
  <2> QED
    BY <1>b, <2>1, <2>2
<1>7. CASE Detect
  <2>1. /\ tool'.phase \in {"idle", "detect", "select"}
        /\ tool'.phase = "select" => tool'.table = "data"
    BY <1>3, <1>7, DetectEffect, IdleToolTyped
  <2>2. DOMAIN changed' = {}
    BY <1>5, <2>1 DEF Typed, Noted, NotedWhen
  <2> QED
    BY <1>b, <2>1, <2>2
<1>8. CASE Select
  <2>1. /\ tool'.phase = "update" /\ tool'.table = tool.table
        /\ tool'.old = tool.old /\ tool'.new = tool.new
        /\ DOMAIN tool'.todo = RowsOf(tool.table)
        /\ \A r \in DOMAIN tool'.todo : tool'.todo[r] = db[r]
    BY <1>3, <1>8, SelectEffect
  <2>2. UNCHANGED <<db, changed>> /\ tool.phase = "select"
    BY <1>8 DEF Select
  <2>3. StillSo'
    BY <2>1, <2>2 DEF StillSo, RowsOf
  <2>4. NotedRight'
    BY <1>2, <2>1, <2>2 DEF NotedRight, Transformed
  <2>5. NoneMissed'
    BY <1>2, <2>1, <2>2 DEF NoneMissed, RowsOf, TableOf
  <2> QED
    BY <2>3, <2>4, <2>5
<1>9. CASE NextTable
  <2>1. /\ UNCHANGED <<db, changed>> /\ tool.phase = "update" /\ tool.table = "data"
        /\ tool.todo = [r \in {} |-> 0]
        /\ tool' = [tool EXCEPT !.phase = "select", !.table = "root_ca"]
    BY <1>9 DEF NextTable
  <2>2. /\ tool'.phase = "select" /\ tool'.table = "root_ca"
        /\ tool'.old = tool.old /\ tool'.new = tool.new
    BY <1>3, <2>1, ToolMoves DEF TablesTyped
  <2>3. RowsOf("data") \subseteq DOMAIN changed
    BY <1>2, <2>1, NoRows DEF NoneMissed
  <2>4. StillSo'
    BY <2>2 DEF StillSo
  <2>5. NotedRight'
    BY <1>2, <2>1, <2>2 DEF NotedRight, Transformed
  <2>6. NoneMissed'
    BY <2>1, <2>2, <2>3 DEF NoneMissed, RowsOf, TableOf
  <2> QED
    BY <2>4, <2>5, <2>6
<1>10. CASE Commit \/ Interrupt
  BY <1>10, <1>a, IdleToolTyped DEF Commit, Interrupt, Rollback
<1>11. ASSUME NEW r \in Id, Updated(r), UpdateRow(r)
       PROVE  StillSo' /\ NotedRight' /\ NoneMissed'
  <2>1. /\ CanTransform(tool.todo[r])
        /\ tool'.phase = "update" /\ tool'.table = tool.table
        /\ tool'.old = tool.old /\ tool'.new = tool.new
        /\ DOMAIN tool'.todo = DOMAIN tool.todo \ {r}
        /\ \A q \in DOMAIN tool'.todo : tool'.todo[q] = tool.todo[q]
        /\ UNCHANGED db
    BY <1>11 DEF Updated
  <2>2. r \in DOMAIN tool.todo /\ tool.phase = "update"
    BY <1>11 DEF UpdateRow
  <2>3. r \in DOMAIN db /\ tool.todo[r] = db[r]
    BY <1>2, <2>2 DEF StillSo
  <2>4. /\ DOMAIN changed' = DOMAIN changed \cup {r}
        /\ changed'[r] = Transformed(db[r])
        /\ \A q \in DOMAIN changed \ {r} : changed'[q] = changed[q]
    BY <1>11, <2>3 DEF Updated
  <2>5. db[r].key = tool.old
    BY <2>1, <2>3 DEF CanTransform
  <2>6. StillSo'
    BY <1>2, <2>1, <2>2 DEF StillSo
  <2>7. NotedRight'
    BY <1>2, <2>1, <2>4, <2>5 DEF NotedRight, Transformed
  <2>8. NoneMissed'
    BY <1>2, <2>1, <2>2, <2>4 DEF NoneMissed, RowsOf, TableOf
  <2> QED
    BY <2>6, <2>7, <2>8
<1>12. ASSUME NEW r \in Id, UpdateRow(r) PROVE StillSo' /\ NotedRight' /\ NoneMissed'
  BY <1>3, <1>11, <1>12, <1>a, UpdateEffect, RollbackEffect
<1>13. ASSUME NEW n \in Node, NEW key \in Key, NEW reinit \in BOOLEAN, Boot(n, key, reinit)
       PROVE  StillSo' /\ NotedRight' /\ NoneMissed'
  BY <1>13, <1>a DEF Boot, Blame, Cause
<1>14. ASSUME NEW n \in Node, Runs(n) PROVE StillSo' /\ NotedRight' /\ NoneMissed'
  BY <1>4, <1>14, <1>a, RunsEffect
<1>15. CASE UNCHANGED vars
  BY <1>2, <1>15 DEF vars, StillSo, NotedRight, NoneMissed, Transformed, RowsOf, TableOf
<1> QED
  BY <1>6, <1>7, <1>8, <1>9, <1>10, <1>12, <1>13, <1>14, <1>15, NextByWhom

-----------------------------------------------------------------------------
(* One key.                                                                  *)

(* What the steps that leave the rows alone keep, and those that start or     *)
(* stop orchestrators too.                                                 *)
LEMMA KeysKept ==
  ASSUME RowsAgree /\ RowsCurrent /\ UpAgree, UNCHANGED <<db, written>>,
         \A n \in Node : node'[n].phase = "up" => node'[n] = node[n]
  PROVE  RowsAgree' /\ RowsCurrent' /\ UpAgree'
<1>1. UpAgree'
  BY DEF UpAgree
<1> QED
  BY <1>1 DEF RowsAgree, RowsCurrent

(* And those that only delete rows.                                          *)
LEMMA KeysFewer ==
  ASSUME RowsAgree /\ RowsCurrent /\ UpAgree, UNCHANGED written,
         DOMAIN db' \subseteq DOMAIN db, \A r \in DOMAIN db' : db'[r] = db[r],
         \A n \in Node : node'[n].phase = "up" => node'[n] = node[n]
  PROVE  RowsAgree' /\ RowsCurrent' /\ UpAgree'
<1>1. UpAgree'
  BY DEF UpAgree
<1>2. RowsAgree' /\ RowsCurrent'
  BY DEF RowsAgree, RowsCurrent
<1> QED
  BY <1>1, <1>2

(* The transaction of the tool: every row is noted, and becomes what it was   *)
(* under the new key.                                                      *)
LEMMA KeysByCommit ==
  ASSUME Typed, RowsAgree, RowsCurrent, StillSo, NotedRight, NoneMissed, Commit,
         \A n \in Node : node[n].phase = "down"
  PROVE  RowsAgree' /\ RowsCurrent' /\ UpAgree'
<1>1. TablesTyped /\ NotedInDb
  BY DEF Typed, Noted
<1>2. tool.phase = "update" /\ tool.table = "root_ca" /\ tool.todo = [r \in {} |-> 0]
      /\ UNCHANGED <<node, written>>
  BY DEF Commit, orchestrators
<1>3. RowsOf("data") \subseteq DOMAIN changed /\ RowsOf("root_ca") \subseteq DOMAIN changed
  BY <1>2, NoRows DEF NoneMissed
<1>4. DOMAIN db \subseteq DOMAIN changed
  BY <1>3 DEF RowsOf, TableOf
<1>5. /\ DOMAIN db' = DOMAIN db
      /\ \A r \in DOMAIN db : db'[r] = changed[r]
  BY <1>1, <1>4, CommitRows
<1>6. \A r \in DOMAIN db : db[r] \in Row
  BY <1>1, RowsIn DEF TablesTyped
<1>7. \A r \in DOMAIN db : db'[r].key = tool.new /\ ContentOf(db'[r]) = ContentOf(db[r])
  <2> SUFFICES ASSUME NEW r \in DOMAIN db
               PROVE  db'[r].key = tool.new /\ ContentOf(db'[r]) = ContentOf(db[r])
    OBVIOUS
  <2>1. db'[r] = Transformed(db[r]) /\ db[r].key = tool.old
    BY <1>4, <1>5 DEF NotedRight
  <2> QED
    BY <1>1, <1>6, <2>1, TransformedRow DEF TablesTyped
<1>8. RowsAgree'
  BY <1>5, <1>7 DEF RowsAgree
<1>9. RowsCurrent'
  BY <1>2, <1>5, <1>7 DEF RowsCurrent
<1>10. UpAgree'
  BY <1>2 DEF UpAgree
<1> QED
  BY <1>8, <1>9, <1>10

(* An orchestrator that writes has the key of all rows.                      *)
LEMMA KeysByWrite ==
  ASSUME Typed, RowsAgree, RowsCurrent, UpAgree, NEW n \in Node, NEW r \in Secret, Write(n, r)
  PROVE  RowsAgree' /\ RowsCurrent' /\ UpAgree'
<1>1. UNCHANGED node /\ node[n].phase = "up"
  BY DEF Write
<1>2. /\ DOMAIN db' = DOMAIN db \cup {r}
      /\ db'[r].key = node[n].key /\ ContentOf(db'[r]) = written'[r]
      /\ \A q \in DOMAIN db \ {r} : db'[q] = db[q]
      /\ \A q \in DOMAIN written \ {r} : written'[q] = written[q]
  BY WriteRows DEF Typed
<1>3. \A q \in DOMAIN db' : db'[q].key = node[n].key
  BY <1>1, <1>2 DEF UpAgree
<1>4. RowsAgree'
  BY <1>3 DEF RowsAgree
<1>5. \A m \in Node : node'[m].phase = "up" => node'[m].key = node[n].key
  BY <1>1 DEF UpAgree
<1>6. UpAgree'
  BY <1>3, <1>5 DEF UpAgree
<1>7. RowsCurrent'
  BY <1>2 DEF RowsCurrent, Typed, WrittenOK
<1> QED
  BY <1>4, <1>6, <1>7

(* One that has opened the CA has the key of all rows.                       *)
LEMMA KeysByGetCA ==
  ASSUME Typed, RowsAgree, RowsCurrent, UpAgree, NEW n \in Node, GetCA(n)
  PROVE  RowsAgree' /\ RowsCurrent' /\ UpAgree'
<1>1. UNCHANGED <<db, written>>
  BY DEF GetCA
<1>2. OthersKept(n)
  BY GetCAEffect DEF Typed
<1>3. CASE node'[n].phase # "up"
  BY <1>1, <1>2, <1>3, KeysKept DEF OthersKept
<1>4. CASE node'[n].phase = "up"
  <2>1. node'[n].key = node[n].key /\ node'[n].ca \in CAs /\ db[node'[n].ca].key = node[n].key
    BY <1>4, GetCAEffect DEF Typed
  <2>2. node'[n].ca \in DOMAIN db
    BY <2>1 DEF CAs, RowsOf
  <2>3. \A r \in DOMAIN db : db[r].key = node'[n].key
    BY <2>1, <2>2 DEF RowsAgree
  <2>4. \A m \in Node : node'[m].phase = "up" => node'[m].key = node'[n].key
    BY <1>2, <2>2, <2>3 DEF UpAgree, OthersKept
  <2>5. UpAgree'
    BY <1>1, <2>3, <2>4 DEF UpAgree
  <2> QED
    BY <1>1, <2>5 DEF RowsAgree, RowsCurrent
<1> QED
  BY <1>3, <1>4

(* One that makes the CA has it too, or was given an unchecked key.          *)
LEMMA KeysByInsertCA ==
  ASSUME Typed, RowsAgree, RowsCurrent, UpAgree, NEW n \in Node, InsertCA(n),
         "unchecked" \notin causes'
  PROVE  RowsAgree' /\ RowsCurrent' /\ UpAgree'
<1>1. /\ UNCHANGED written /\ nextCA \in CA /\ Serve(n, nextCA) /\ node[n].phase = "insertCA"
      /\ KeysInUse = {node[n].key}
  BY DEF InsertCA, NewRootCA, Blame, Cause
<1>2. OthersKept(n) /\ node'[n].key = node[n].key
  BY <1>1, NodeServes DEF Typed, TablesTyped
<1>3. /\ DOMAIN db' = DOMAIN db \cup {nextCA} /\ db'[nextCA].key = node[n].key
      /\ \A q \in DOMAIN db \ {nextCA} : db'[q] = db[q]
  BY InsertCARows DEF Typed
<1>4. \A r \in DOMAIN db : db[r].key = node[n].key
  BY <1>1 DEF KeysInUse
<1>5. \A m \in Node : node[m].phase = "up" => node[m].key = node[n].key
  <2> SUFFICES ASSUME NEW m \in Node, node[m].phase = "up" PROVE node[m].key = node[n].key
    OBVIOUS
  <2>1. node[m].key \in Key
    BY DEF Typed, NodesKnow
  <2>2. node[m].key \in KeysInUse
    BY <2>1, KeyAssumption DEF KeysInUse
  <2> QED
    BY <1>1, <2>2
<1>6. \A r \in DOMAIN db' : db'[r].key = node[n].key
  BY <1>3, <1>4
<1>7. \A m \in Node : node'[m].phase = "up" => node'[m].key = node[n].key
  BY <1>2, <1>5 DEF OthersKept
<1>8. RowsAgree' /\ UpAgree'
  BY <1>6, <1>7 DEF RowsAgree, UpAgree
<1>9. \A r \in DOMAIN db' \cap Secret : r \in DOMAIN db /\ db'[r] = db[r]
  BY <1>1, <1>3, TwoTables
<1>10. RowsCurrent'
  BY <1>1, <1>9 DEF RowsCurrent
<1> QED
  BY <1>8, <1>10

LEMMA KeysStep ==
  Typed /\ Alone /\ ToolKnows /\ KeysAgree /\ [Next]_vars => KeysAgree'
<1> SUFFICES ASSUME Typed, Alone, ToolKnows, KeysAgree, [Next]_vars, Clean'
             PROVE  RowsAgree' /\ RowsCurrent' /\ UpAgree'
  BY DEF KeysAgree
<1>1. Clean /\ "beside" \notin causes /\ "unchecked" \notin causes'
  BY CausesGrow DEF Clean
<1>2. RowsAgree /\ RowsCurrent /\ UpAgree
  BY <1>1 DEF KeysAgree
<1>3. StillSo /\ NotedRight /\ NoneMissed
  BY <1>1 DEF ToolKnows
<1>4. TablesTyped /\ node \in [Node -> NodeRecord]
  BY DEF Typed, TablesTyped
<1>5. ASSUME NEW old \in Key \cup {None}, NEW new \in Key \cup {None}, StartCrypt(old, new)
      PROVE  RowsAgree' /\ RowsCurrent' /\ UpAgree'
  BY <1>2, <1>5, KeysKept DEF StartCrypt, orchestrators
<1>6. CASE Detect \/ Select \/ NextTable \/ Interrupt
  BY <1>2, <1>6, KeysKept DEF Detect, Select, NextTable, Interrupt, Rollback, orchestrators
<1>7. CASE Commit
  <2>1. \A n \in Node : node[n].phase = "down"
    BY <1>1, <1>7 DEF Commit, Alone
  <2> QED
    BY <1>2, <1>3, <1>7, <2>1, KeysByCommit
<1>8. ASSUME NEW r \in Id, UpdateRow(r) PROVE RowsAgree' /\ RowsCurrent' /\ UpAgree'
  <2>1. UNCHANGED <<db, node, written>>
    BY <1>8 DEF UpdateRow, Rollback, orchestrators
  <2> QED
    BY <1>2, <2>1, KeysKept
<1>9. ASSUME NEW n \in Node, NEW key \in Key, NEW reinit \in BOOLEAN, Boot(n, key, reinit)
      PROVE  RowsAgree' /\ RowsCurrent' /\ UpAgree'
  <2>1. OthersKept(n) /\ node'[n].phase # "up"
    BY <1>4, <1>9, NodeBoots
  <2> QED
    BY <1>2, <1>9, <2>1, KeysKept DEF Boot, OthersKept
<1>10. ASSUME NEW n \in Node, NEW phase \in Phase \ {"up"}, SetNode(n, phase),
              UNCHANGED written, DOMAIN db' \subseteq DOMAIN db,
              \A r \in DOMAIN db' : db'[r] = db[r]
       PROVE  RowsAgree' /\ RowsCurrent' /\ UpAgree'
  <2>1. OthersKept(n) /\ node'[n].phase = phase
    BY <1>4, <1>10, NodeMoves
  <2> QED
    BY <1>2, <1>10, <2>1, KeysFewer DEF OthersKept
<1>11. ASSUME NEW n \in Node, DeleteCA(n) PROVE RowsAgree' /\ RowsCurrent' /\ UpAgree'
  <2>1. DOMAIN db' \subseteq DOMAIN db /\ \A r \in DOMAIN db' : db'[r] = db[r]
    BY <1>4, <1>11, DeleteCARows
  <2> QED
    BY <1>10, <1>11, <2>1 DEF DeleteCA, Phase
<1>12. ASSUME NEW n \in Node, DeleteUsedTags(n) PROVE RowsAgree' /\ RowsCurrent' /\ UpAgree'
  BY <1>10, <1>12 DEF DeleteUsedTags, Phase
<1>13. ASSUME NEW n \in Node, NEW r \in Secret, Delete(n, r)
       PROVE  RowsAgree' /\ RowsCurrent' /\ UpAgree'
  <2>1. DOMAIN db' \subseteq DOMAIN db /\ \A q \in DOMAIN db' : db'[q] = db[q]
    BY <1>4, <1>13, DeleteRows
  <2> QED
    BY <1>2, <1>13, <2>1, KeysFewer DEF Delete
<1>14. ASSUME NEW n \in Node, GetCertForServer(n) PROVE RowsAgree' /\ RowsCurrent' /\ UpAgree'
  BY <1>2, <1>14, KeysKept DEF GetCertForServer
<1>15. ASSUME NEW n \in Node, Stop(n) PROVE RowsAgree' /\ RowsCurrent' /\ UpAgree'
  <2>1. OthersKept(n) /\ node'[n].phase # "up"
    BY <1>4, <1>15, NodeFails DEF Stop
  <2> QED
    BY <1>2, <1>15, <2>1, KeysKept DEF Stop, OthersKept
<1>16. ASSUME NEW n \in Node, Runs(n) PROVE RowsAgree' /\ RowsCurrent' /\ UpAgree'
  BY <1>1, <1>2, <1>11, <1>12, <1>13, <1>14, <1>15, <1>16, KeysByWrite, KeysByGetCA,
     KeysByInsertCA DEF Runs
<1>17. CASE UNCHANGED vars
  BY <1>2, <1>17, KeysKept DEF vars
<1> QED
  BY <1>5, <1>6, <1>7, <1>8, <1>9, <1>16, <1>17, NextByWhom

-----------------------------------------------------------------------------
(* One CA.                                                                   *)

OneInForce == DeletesAlone /\ SameCA /\ Served /\ InForce /\ NoneInForce /\ OutOfForce

LEMMA CAsKept == DOMAIN db' = DOMAIN db => CAs' = CAs
  BY DEF CAs, RowsOf, TableOf

(* What a step keeps that leaves CAs and certificates alone, and in which an  *)
(* orchestrator that does not delete goes on, or stops.                    *)
LEMMA InForceKept ==
  ASSUME OneInForce, CAs' = CAs, UNCHANGED <<tags, issued, retired>>,
         NEW n \in Node, OthersKept(n),
         node'[n].phase \notin {"deleteCA", "deleteTags"},
         node'[n].phase = "up" => node'[n].ca \in CAs,
         \/ node[n].phase # "down"
         \/ node'[n].phase = "down"
         \/ \A q \in Node : ~Deleting(q)
  PROVE  OneInForce'
<1>1. \A m \in Node : Deleting(m)' => m # n /\ Deleting(m)
  BY DEF Deleting, OthersKept
<1>2. DeletesAlone'
  BY <1>1 DEF OneInForce, DeletesAlone, OthersKept
<1>3. SameCA' /\ InForce' /\ OutOfForce'
  BY DEF OneInForce, SameCA, InForce, OutOfForce
<1>4. Served' /\ NoneInForce'
  BY DEF OneInForce, Served, NoneInForce, OthersKept
<1> QED
  BY <1>2, <1>3, <1>4 DEF OneInForce

LEMMA InForceStutter ==
  ASSUME OneInForce, CAs' = CAs, UNCHANGED <<tags, issued, retired, node>>
  PROVE  OneInForce'
<1>1. DeletesAlone' /\ Served' /\ NoneInForce'
  BY DEF OneInForce, DeletesAlone, Deleting, Served, NoneInForce
<1>2. SameCA' /\ InForce' /\ OutOfForce'
  BY DEF OneInForce, SameCA, InForce, OutOfForce
<1> QED
  BY <1>1, <1>2 DEF OneInForce

(* An orchestrator starts: to delete the CA only if no other is running.     *)
LEMMA InForceByBoot ==
  ASSUME Typed, OneInForce, NEW n \in Node, NEW key \in Key, NEW reinit \in BOOLEAN,
         Boot(n, key, reinit), "race" \notin causes'
  PROVE  OneInForce'
<1>1. /\ OthersKept(n) /\ node[n].phase = "down"
      /\ node'[n].phase = (IF reinit THEN "deleteCA" ELSE "getCA")
  BY NodeBoots DEF Typed, TablesTyped
<1>2. /\ UNCHANGED <<db, tags, issued, retired>>
      /\ \A q \in Node : ~Deleting(q) /\ (reinit => node[q].phase = "down")
  BY DEF Boot, Blame, Cause
<1>3. CAs' = CAs
  BY <1>2, CAsKept
<1>4. CASE reinit
  <2>1. \A q \in Node \ {n} : node'[q].phase = "down"
    BY <1>1, <1>2, <1>4 DEF OthersKept
  <2>2. node'[n].phase = "deleteCA"
    BY <1>1, <1>4
  <2>3. DeletesAlone'
    BY <2>1 DEF DeletesAlone, Deleting
  <2>4. Served' /\ NoneInForce'
    BY <2>1, <2>2 DEF Served, NoneInForce
  <2>5. SameCA' /\ InForce' /\ OutOfForce'
    BY <1>2, <1>3 DEF OneInForce, SameCA, InForce, OutOfForce
  <2> QED
    BY <2>3, <2>4, <2>5 DEF OneInForce
<1>5. CASE ~reinit
  BY <1>1, <1>2, <1>3, <1>5, InForceKept
<1> QED
  BY <1>4, <1>5

(* The CA goes, and the certificates with it.                                *)
LEMMA InForceByDeleteCA ==
  ASSUME Typed, OneInForce, NEW n \in Node, DeleteCA(n)
  PROVE  OneInForce'
<1>1. /\ SetNode(n, "deleteTags") /\ node[n].phase = "deleteCA"
      /\ issued' = {} /\ retired' = retired \cup issued /\ UNCHANGED tags
  BY DEF DeleteCA, Retire
<1>2. OthersKept(n) /\ node'[n].phase = "deleteTags"
  BY <1>1, NodeMoves DEF Typed, TablesTyped, Phase
<1>3. \A q \in Node \ {n} : node'[q].phase = "down"
  BY <1>1, <1>2 DEF OneInForce, DeletesAlone, Deleting, OthersKept
<1>4. db' \in RowFunctions(Id) /\ DOMAIN db' = DOMAIN db \cap Secret
  BY DeleteCARows DEF Typed
<1>5. CAs' = {}
  BY <1>4, TwoTables DEF CAs, RowsOf
<1>6. DeletesAlone'
  BY <1>3 DEF DeletesAlone, Deleting
<1>7. Served' /\ NoneInForce'
  BY <1>1, <1>2, <1>3 DEF Served, NoneInForce
<1>8. SameCA' /\ InForce' /\ OutOfForce'
  BY <1>1, <1>5 DEF SameCA, InForce, OutOfForce
<1> QED
  BY <1>6, <1>7, <1>8 DEF OneInForce

(* The tags go, when no certificate is in force that has one.                *)
LEMMA InForceByDeleteTags ==
  ASSUME Typed, OneInForce, NEW n \in Node, DeleteUsedTags(n)
  PROVE  OneInForce'
<1>1. /\ SetNode(n, "getCA") /\ node[n].phase = "deleteTags"
      /\ UNCHANGED <<db, issued, retired>>
  BY DEF DeleteUsedTags
<1>2. OthersKept(n) /\ node'[n].phase = "getCA"
  BY <1>1, NodeMoves DEF Typed, TablesTyped, Phase
<1>3. issued = {} /\ CAs' = CAs
  BY <1>1, CAsKept DEF OneInForce, NoneInForce
<1>4. DeletesAlone'
  BY <1>1, <1>2 DEF OneInForce, DeletesAlone, Deleting, OthersKept
<1>5. Served' /\ NoneInForce'
  BY <1>1, <1>2, <1>3 DEF OneInForce, Served, NoneInForce, OthersKept
<1>6. SameCA' /\ InForce' /\ OutOfForce'
  BY <1>1, <1>3 DEF OneInForce, SameCA, InForce, OutOfForce
<1> QED
  BY <1>4, <1>5, <1>6 DEF OneInForce

(* A CA is made where there is none; its number is new.                      *)
LEMMA InForceByInsertCA ==
  ASSUME Typed, OneInForce, Numbers, NEW n \in Node, InsertCA(n), "race" \notin causes'
  PROVE  OneInForce'
<1>1. /\ nextCA \in CA /\ Serve(n, nextCA) /\ node[n].phase = "insertCA"
      /\ CAs = {} /\ UNCHANGED <<tags, issued, retired>>
  BY DEF InsertCA, NewRootCA, Blame, Cause, CAs
<1>2. OthersKept(n) /\ node'[n].phase = "up" /\ node'[n].ca = nextCA
  BY <1>1, NodeServes DEF Typed, TablesTyped
<1>3. DOMAIN db' = DOMAIN db \cup {nextCA}
  BY InsertCARows DEF Typed
<1>4. CAs' = {nextCA}
  BY <1>1, <1>3, TwoTables DEF CAs, RowsOf, TableOf
<1>5. issued = {} /\ \A q \in Node : node[q].phase # "up"
  BY <1>1 DEF OneInForce, InForce, Served
<1>6. \A c \in retired : c.ca # nextCA
  BY <1>1 DEF Numbers, Typed, RestTyped, Certificate, CA
<1>7. DeletesAlone' /\ NoneInForce'
  BY <1>1, <1>2 DEF OneInForce, DeletesAlone, NoneInForce, Deleting, OthersKept
<1>8. Served'
  BY <1>2, <1>4, <1>5 DEF Served, OthersKept
<1>9. SameCA' /\ InForce' /\ OutOfForce'
  BY <1>1, <1>4, <1>5, <1>6 DEF SameCA, InForce, OutOfForce
<1> QED
  BY <1>7, <1>8, <1>9 DEF OneInForce

(* A certificate is made with the CA that is served and a tag that is kept.  *)
LEMMA InForceByCert ==
  ASSUME Typed, OneInForce, NEW n \in Node, GetCertForServer(n)
  PROVE  OneInForce'
<1>1. UNCHANGED <<db, node, retired>> /\ node[n].phase = "up"
  BY DEF GetCertForServer
<1>2. PICK t \in Tag : tags' = tags \cup {t}
                       /\ issued' = issued \cup {MakeClientCert(node[n].ca, t)}
  BY DEF GetCertForServer
<1>3. CAs' = CAs /\ node[n].ca \in CAs
  BY <1>1, CAsKept DEF OneInForce, Served
<1>4. \A m \in Node : ~Deleting(m)
  BY <1>1 DEF OneInForce, DeletesAlone, Deleting
<1>5. InForce'
  BY <1>2, <1>3 DEF OneInForce, InForce, MakeClientCert
<1>6. DeletesAlone' /\ NoneInForce' /\ Served'
  BY <1>1, <1>3, <1>4 DEF OneInForce, DeletesAlone, NoneInForce, Served, Deleting
<1>7. SameCA' /\ OutOfForce'
  BY <1>1, <1>3 DEF OneInForce, SameCA, OutOfForce
<1> QED
  BY <1>5, <1>6, <1>7 DEF OneInForce

(* The steps of the tool keep the rows of root_ca, if not what is in them.   *)
LEMMA ToolKeepsCAs ==
  ASSUME Typed,
         \/ \E old, new \in Key \cup {None} : StartCrypt(old, new)
         \/ Detect \/ Select \/ NextTable \/ Commit \/ Interrupt
         \/ \E r \in Id : UpdateRow(r)
  PROVE  CAs' = CAs /\ UNCHANGED orchestrators
<1>1. ASSUME NEW old \in Key \cup {None}, NEW new \in Key \cup {None}, StartCrypt(old, new)
      PROVE  UNCHANGED <<db, orchestrators>>
  BY <1>1 DEF StartCrypt
<1>2. CASE Detect \/ Select \/ NextTable \/ Interrupt
  BY <1>2, CAsKept DEF Detect, Select, NextTable, Interrupt, Rollback
<1>3. CASE Commit
  BY <1>3, CommitRows, CAsKept DEF Commit, Typed, Noted
<1>4. ASSUME NEW r \in Id, UpdateRow(r) PROVE UNCHANGED <<db, orchestrators>>
  BY <1>4 DEF UpdateRow, Rollback
<1> QED
  BY <1>1, <1>2, <1>3, <1>4, CAsKept

(* And writing or deleting a row of data does.                               *)
LEMMA DataKeepsCAs ==
  ASSUME Typed, NEW n \in Node, NEW r \in Secret, Write(n, r) \/ Delete(n, r)
  PROVE  CAs' = CAs /\ UNCHANGED <<tags, node, nextCA, issued, retired>>
<1>1. UNCHANGED <<tags, node, nextCA, issued, retired>>
  BY DEF Write, Delete
<1>2. DOMAIN db' = DOMAIN db \cup {r} \/ DOMAIN db' = DOMAIN db \ {r}
  BY WriteRows, DeleteRows DEF Typed
<1>3. TableOf(r) # "root_ca"
  BY TwoTables
<1> QED
  BY <1>1, <1>2, <1>3 DEF CAs, RowsOf, TableOf

LEMMA OneCAStep == Typed /\ Numbers /\ OneCA /\ [Next]_vars => OneCA'
<1> SUFFICES ASSUME Typed, Numbers, OneCA, [Next]_vars, "race" \notin causes'
             PROVE  OneInForce'
  BY DEF OneCA, OneInForce
<1>1. OneInForce
  BY CausesGrow DEF OneCA, OneInForce
<1>2. TablesTyped /\ node \in [Node -> NodeRecord]
  BY DEF Typed, TablesTyped
<1>3. CASE \/ \E old, new \in Key \cup {None} : StartCrypt(old, new)
           \/ Detect \/ Select \/ NextTable \/ Commit \/ Interrupt
           \/ \E r \in Id : UpdateRow(r)
  BY <1>1, <1>3, ToolKeepsCAs, InForceStutter DEF orchestrators
<1>4. ASSUME NEW n \in Node, NEW key \in Key, NEW reinit \in BOOLEAN, Boot(n, key, reinit)
      PROVE  OneInForce'
  BY <1>1, <1>4, InForceByBoot
<1>5. ASSUME NEW n \in Node, GetCA(n) PROVE OneInForce'
  <2>1. CAs' = CAs /\ UNCHANGED <<tags, issued, retired>>
    BY <1>5, CAsKept DEF GetCA
  <2>2. /\ node[n].phase = "getCA" /\ OthersKept(n)
        /\ node'[n].phase \in {"insertCA", "up", "down"}
        /\ node'[n].phase = "up" => node'[n].ca \in CAs
    BY <1>2, <1>5, GetCAEffect
  <2> QED
    BY <1>1, <2>1, <2>2, InForceKept
<1>6. ASSUME NEW n \in Node, Stop(n) PROVE OneInForce'
  <2>1. CAs' = CAs /\ UNCHANGED <<tags, issued, retired>>
    BY <1>6, CAsKept DEF Stop
  <2>2. OthersKept(n) /\ node'[n].phase = "down"
    BY <1>2, <1>6, NodeFails DEF Stop
  <2> QED
    BY <1>1, <2>1, <2>2, InForceKept
<1>7. ASSUME NEW n \in Node, NEW r \in Secret, Write(n, r) \/ Delete(n, r) PROVE OneInForce'
  BY <1>1, <1>7, DataKeepsCAs, InForceStutter
<1>8. ASSUME NEW n \in Node, Runs(n) PROVE OneInForce'
  BY <1>1, <1>5, <1>6, <1>7, <1>8, InForceByDeleteCA, InForceByDeleteTags, InForceByInsertCA,
     InForceByCert DEF Runs
<1>9. CASE UNCHANGED vars
  BY <1>1, <1>9, CAsKept, InForceStutter DEF vars
<1> QED
  BY <1>3, <1>4, <1>8, <1>9, NextByWhom

LEMMA NumbersStep == Typed /\ Numbers /\ [Next]_vars => Numbers'
<1> SUFFICES ASSUME Typed, Numbers, [Next]_vars PROVE Numbers'
  OBVIOUS
<1>1. TablesTyped /\ node \in [Node -> NodeRecord] /\ nextCA \in Nat
  BY BoundsAssumption DEF Typed, TablesTyped, RestTyped
<1>a. ASSUME CAs' \subseteq CAs, issued' \cup retired' \subseteq issued \cup retired,
             nextCA' = nextCA, NEW n \in Node, OthersKept(n),
             node'[n].phase = "up" => node'[n].ca < nextCA
      PROVE  Numbers'
  BY <1>a DEF Numbers, OthersKept
<1>b. ASSUME CAs' = CAs, issued' \cup retired' \subseteq issued \cup retired,
             UNCHANGED <<nextCA, node>>
      PROVE  Numbers'
  BY <1>b DEF Numbers
<1>2. CASE \/ \E old, new \in Key \cup {None} : StartCrypt(old, new)
           \/ Detect \/ Select \/ NextTable \/ Commit \/ Interrupt
           \/ \E r \in Id : UpdateRow(r)
  BY <1>2, <1>b, ToolKeepsCAs DEF orchestrators
<1>3. ASSUME NEW n \in Node, NEW key \in Key, NEW reinit \in BOOLEAN, Boot(n, key, reinit)
      PROVE  Numbers'
  <2>1. OthersKept(n) /\ node'[n].phase # "up"
    BY <1>1, <1>3, NodeBoots
  <2>2. CAs' = CAs /\ UNCHANGED <<nextCA, issued, retired>>
    BY <1>3, CAsKept DEF Boot
  <2> QED
    BY <1>a, <2>1, <2>2
<1>4. ASSUME NEW n \in Node, DeleteCA(n) PROVE Numbers'
  <2>1. OthersKept(n) /\ node'[n].phase # "up"
    BY <1>1, <1>4, NodeMoves DEF DeleteCA, Phase
  <2>2. DOMAIN db' \subseteq DOMAIN db
    BY <1>1, <1>4, DeleteCARows
  <2>3. CAs' \subseteq CAs
    BY <2>2 DEF CAs, RowsOf, TableOf
  <2>4. issued' \cup retired' = issued \cup retired /\ UNCHANGED nextCA
    BY <1>4 DEF DeleteCA, Retire
  <2> QED
    BY <1>a, <2>1, <2>3, <2>4
<1>5. ASSUME NEW n \in Node, DeleteUsedTags(n) PROVE Numbers'
  <2>1. OthersKept(n) /\ node'[n].phase # "up"
    BY <1>1, <1>5, NodeMoves DEF DeleteUsedTags, Phase
  <2>2. CAs' = CAs /\ UNCHANGED <<nextCA, issued, retired>>
    BY <1>5, CAsKept DEF DeleteUsedTags
  <2> QED
    BY <1>a, <2>1, <2>2
<1>6. ASSUME NEW n \in Node, GetCA(n) PROVE Numbers'
  <2>1. CAs' = CAs /\ UNCHANGED <<nextCA, issued, retired>>
    BY <1>6, CAsKept DEF GetCA
  <2>2. OthersKept(n) /\ (node'[n].phase = "up" => node'[n].ca \in CAs)
    BY <1>1, <1>6, GetCAEffect
  <2>3. node'[n].phase = "up" => node'[n].ca < nextCA
    BY <2>2 DEF Numbers
  <2> QED
    BY <1>a, <2>1, <2>2, <2>3
<1>7. ASSUME NEW n \in Node, InsertCA(n) PROVE Numbers'
  <2>1. /\ Serve(n, nextCA) /\ nextCA \in CA /\ UNCHANGED <<issued, retired>>
        /\ nextCA' = nextCA + 1
    BY <1>7 DEF InsertCA, NewRootCA
  <2>2. OthersKept(n) /\ node'[n].ca = nextCA
    BY <1>1, <2>1, NodeServes
  <2>3. DOMAIN db' = DOMAIN db \cup {nextCA}
    BY <1>1, <1>7, InsertCARows DEF Typed
  <2>4. CAs' \subseteq CAs \cup {nextCA} /\ CAs \subseteq Nat
    BY <1>1, <2>3, RowsOfData DEF CAs, RowsOf, TableOf, CA, TablesTyped
  <2>5. \A c \in CAs' : c < nextCA'
    BY <1>1, <2>1, <2>4 DEF Numbers
  <2>6. \A c \in issued \cup retired : c.ca \in Nat
    BY DEF Typed, RestTyped, Certificate, CA
  <2>7. \A c \in (issued \cup retired)' : c.ca < nextCA'
    BY <1>1, <2>1, <2>6 DEF Numbers
  <2>8. \A m \in Node : node[m].ca \in Nat
    BY <1>1 DEF NodeRecord
  <2>9. \A m \in Node : node'[m].phase = "up" => node'[m].ca < nextCA'
    BY <1>1, <2>1, <2>2, <2>8 DEF Numbers, OthersKept
  <2> QED
    BY <2>5, <2>7, <2>9 DEF Numbers
<1>8. ASSUME NEW n \in Node, NEW r \in Secret, Write(n, r) \/ Delete(n, r) PROVE Numbers'
  BY <1>8, <1>b, DataKeepsCAs
<1>9. ASSUME NEW n \in Node, GetCertForServer(n) PROVE Numbers'
  <2>1. UNCHANGED <<db, node, nextCA, retired>> /\ node[n].phase = "up"
    BY <1>9 DEF GetCertForServer
  <2>2. PICK t \in Tag : issued' = issued \cup {MakeClientCert(node[n].ca, t)}
    BY <1>9 DEF GetCertForServer
  <2>3. node[n].ca < nextCA /\ CAs' = CAs
    BY <2>1, CAsKept DEF Numbers
  <2> QED
    BY <2>1, <2>2, <2>3 DEF Numbers, MakeClientCert
<1>10. ASSUME NEW n \in Node, Stop(n) PROVE Numbers'
  <2>1. CAs' = CAs /\ UNCHANGED <<nextCA, issued, retired>>
    BY <1>10, CAsKept DEF Stop
  <2>2. OthersKept(n) /\ node'[n].phase # "up"
    BY <1>1, <1>10, NodeFails DEF Stop
  <2> QED
    BY <1>a, <2>1, <2>2
<1>11. ASSUME NEW n \in Node, Runs(n) PROVE Numbers'
  BY <1>4, <1>5, <1>6, <1>7, <1>8, <1>9, <1>10, <1>11 DEF Runs
<1>12. CASE UNCHANGED vars
  BY <1>12, <1>b, CAsKept DEF vars
<1> QED
  BY <1>2, <1>3, <1>11, <1>12, NextByWhom

-----------------------------------------------------------------------------
(* The theorems.                                                             *)

LEMMA StepIInv == IInv /\ [Next]_vars => IInv'
  BY TypedStep, FilledStep, AloneStep, ToolKnowsStep, KeysStep, OneCAStep, NumbersStep
     DEF IInv

LEMMA Invariance == Spec => []IInv
  BY InitIInv, StepIInv, PTL DEF Spec

(* The invariant gives the types ...                                         *)
LEMMA TypesFollow == Typed => TypeOK
<1> SUFFICES ASSUME Typed PROVE TypeOK
  OBVIOUS
<1> USE DEF Typed
<1>1. /\ DOMAIN db \subseteq Secret \cup CA /\ Range(db) \subseteq Row
      /\ Range(changed) \subseteq Row
  BY RowsIn DEF TablesTyped, Id, Range
<1>2. /\ tool.phase \in {"idle", "detect", "select", "update"}
      /\ tool.old \in Key \cup {None} /\ tool.new \in Key \cup {None}
      /\ tool.table \in {"data", "root_ca"} /\ tool.todo \in RowFunctions(Id)
  BY DEF TablesTyped, ToolRecord
<1>3. Range(tool.todo) \subseteq Row
  BY <1>2, RowsIn DEF Range
<1>4. \A n \in Node : node[n].phase \in Phase
  BY DEF TablesTyped, NodeRecord
<1>5. DOMAIN changed \subseteq DOMAIN db
  BY DEF Noted, NotedInDb
<1>6. \A n \in Node : node[n].phase = "up" => node[n].ca \in CA /\ node[n].key \in Key
  BY DEF NodesKnow
<1>7. RestTyped
  OBVIOUS
<1> QED
  BY <1>1, <1>2, <1>3, <1>4, <1>5, <1>6, <1>7 DEF TypeOK, RestTyped, Phase

(* ... and the properties of the rows.                                       *)
LEMMA SoundFollows == IInv => SecretsSound
<1> SUFFICES ASSUME IInv PROVE SecretsSound
  OBVIOUS
<1>1. TypeOK
  BY TypesFollow DEF IInv
<1>2. \A r \in DOMAIN db : Content(r) = ContentOf(db[r])
  BY DEF Content, ContentOf
<1>3. OneKeyNothingLost
  BY <1>2 DEF OneKeyNothingLost, IInv, KeysAgree, Clean, RowsAgree, RowsCurrent
<1>4. NothingEmptied
  BY <1>2 DEF NothingEmptied, IInv, Filled, Full, RowsOf
<1>5. UpReads
  BY DEF UpReads, IInv, KeysAgree, Clean, UpAgree, RowsOf
<1> QED
  BY <1>1, <1>3, <1>4, <1>5 DEF SecretsSound

(* The database stays under one key, complete, and readable for every         *)
(* orchestrator that is up, whatever the tool is given and wherever it is  *)
(* interrupted, unless an orchestrator runs beside the tool or makes the CA*)
(* with a key that nothing has checked; and even then no content is        *)
(* replaced by nothing (egvpn crypt, InitCertificateProvider).             *)
THEOREM SecretsCorrect == Spec => []SecretsSound
  BY Invariance, SoundFollows, PTL

(* Every orchestrator accepts every certificate given out since the CA and    *)
(* the tags were last deleted, unless two worked on the CA at once         *)
(* (GetCA, CreateCA and InitCertificateProvider, in separate statements).  *)
THEOREM CertificatesCorrect == Spec => []CertificatesHold
<1>1. IInv => CertificatesHold
  <2> SUFFICES ASSUME IInv, "race" \notin causes, NEW n \in Node, node[n].phase = "up",
                      NEW c \in issued
               PROVE  Accepts(n, c)
    BY DEF CertificatesHold
  <2>1. SameCA /\ node[n].ca \in CAs /\ c.ca \in CAs /\ c.tag \in tags
    BY DEF IInv, OneCA, Served, InForce
  <2> QED
    BY <2>1 DEF SameCA, Accepts, VerifyServerTag
<1> QED
  BY <1>1, Invariance, PTL

(* None of the certificates from before is accepted again, though the tags    *)
(* are deleted after the CA and given to others.                           *)
THEOREM RetirementCorrect == Spec => []RetiredRejected
<1>1. IInv => RetiredRejected
  BY DEF RetiredRejected, IInv, OneCA, Served, OutOfForce, Accepts
<1> QED
  BY <1>1, Invariance, PTL
=============================================================================
