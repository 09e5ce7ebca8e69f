------------------------------- MODULE Secrets -------------------------------
(***************************************************************************)
(* The secrets in the database and the orchestrator's root certificate.    *)
(* Private keys, preshared keys, TOTP keys and the CA's own key are stored *)
(* encrypted with a key the orchestrator is started with; `egvpn crypt'    *)
(* encrypts, reencrypts or decrypts them all in one transaction. A starting*)
(* orchestrator loads the CA or makes one, in separate statements, and      *)
(* certificates of VPN servers are accepted by the CA and by a tag.        *)
(*                                                                         *)
(* Rows are [plain, key, cipher]: the plaintext column, and the ciphertext *)
(* column as the key and the content; contents are numbers, 0 for none.    *)
(* The five tables of data rows are one here, which the tool takes before  *)
(* root_ca. Its transaction sees what others commit and locks the rows it  *)
(* has updated, and root_ca from its first query of it. Definitions marked *)
(* as variants carry a plausible bug.                                      *)
(***************************************************************************)
EXTENDS Naturals, FiniteSets, Functions

CONSTANTS
    Secret,   \* ids of data rows; an id is not used again
    Key,      \* encryption keys
    None,     \* no key
    Node,     \* orchestrator processes on the database
    Tag,      \* tags of the certificates of the instances of one server
    MaxCA,    \* bound on the CAs made
    MaxValue, \* bound on the contents given to a row
    MaxCauses \* bound on the kinds of trouble in one behaviour

ASSUME BoundsAssumption == MaxCA \in Nat \ {0} /\ MaxValue \in Nat \ {0}
ASSUME IdsAssumption == Secret \cap (1..MaxCA) = {}
ASSUME KeyAssumption == None \notin Key

VARIABLES
    db,       \* the rows: of data by id, of root_ca by number
    tags,     \* the table of tags
    tool,     \* `egvpn crypt'
    changed,  \* the rows its transaction has updated and not committed
    node,     \* the orchestrators
    nextCA,   \* the number of the next CA
    written,  \* history: the last content an orchestrator gave each row
    issued,   \* history: certificates, [ca, tag], since CA or tags were deleted
    retired,  \* history: certificates from before
    causes    \* history: what was done that the operator is told not to do

vars == <<db, tags, tool, changed, node, nextCA, written, issued, retired, causes>>

CA == 1..MaxCA
Certificate == [ca : CA, tag : Tag]
Row == [plain : 0..MaxValue, key : Key \cup {None}, cipher : 0..MaxValue]

Sealed(k, content) == [plain |-> 0, key |-> k, cipher |-> content]
InClear(content) == [plain |-> content, key |-> None, cipher |-> 0]

IdleTool == [phase |-> "idle", old |-> None, new |-> None,
             table |-> "data", todo |-> [r \in {} |-> 0]]
Down == [phase |-> "down", key |-> None, ca |-> 0]

TypeOK ==
    /\ DOMAIN db \subseteq Secret \cup CA /\ Range(db) \subseteq Row
    /\ tags \subseteq Tag
    /\ tool.phase \in {"idle", "detect", "select", "update"}
    /\ tool.old \in Key \cup {None} /\ tool.new \in Key \cup {None}
    /\ tool.table \in {"data", "root_ca"}
    /\ Range(tool.todo) \subseteq Row
    /\ DOMAIN changed \subseteq DOMAIN db /\ Range(changed) \subseteq Row
    /\ \A n \in Node : node[n].phase \in
            {"down", "deleteCA", "deleteTags", "getCA", "insertCA", "up"}
    /\ \A n \in Node : node[n].phase = "up" => node[n].ca \in CA /\ node[n].key \in Key
    /\ nextCA \in 1..MaxCA + 1
    /\ issued \cup retired \subseteq Certificate
    /\ causes \subseteq {"beside", "unchecked", "race"}

TableOf(r) == IF r \in Secret THEN "data" ELSE "root_ca"
RowsOf(table) == {r \in DOMAIN db : TableOf(r) = table}

(* An empty database, or one of a version that did not encrypt.              *)
Init ==
    /\ \/ db = [r \in {} |-> 0] /\ nextCA = 1
       \/ db = [r \in Secret \cup {1} |-> InClear(1)] /\ nextCA = 2
    /\ tags = {}
    /\ tool = IdleTool
    /\ changed = [r \in {} |-> 0]
    /\ node = [n \in Node |-> Down]
    /\ written = [r \in DOMAIN db \cap Secret |-> 1]
    /\ issued = {} /\ retired = {}
    /\ causes = {}

Cause(condition, c) == IF condition THEN {c} ELSE {}
Blame(cs) == causes' = causes \cup cs /\ Cardinality(causes') <= MaxCauses

-----------------------------------------------------------------------------
(* The tool. *)

orchestrators == <<tags, node, nextCA, written, issued, retired>>

(* The mode must agree with the keys given, which then decide.               *)
StartCrypt(old, new) ==
    /\ tool.phase = "idle"
    /\ old # None \/ new # None
    /\ tool' = [IdleTool EXCEPT !.phase = "detect", !.old = old, !.new = new]
    /\ Blame(Cause(\E n \in Node : node[n].phase # "down", "beside"))
    /\ UNCHANGED <<db, changed, orchestrators>>

(* Nothing is to be encrypted twice, or decrypted that is not encrypted. *)
Fits(row) == (row.key # None) = (tool.old # None)

(* detectEncStatus: one row of the first table that has any. *)
Detect ==
    /\ tool.phase = "detect"
    /\ \/ /\ RowsOf(tool.table) # {}
          /\ \E r \in RowsOf(tool.table) :
                tool' = IF Fits(db[r])
                        THEN [tool EXCEPT !.phase = "select", !.table = "data"]
                        ELSE IdleTool
       \/ /\ RowsOf(tool.table) = {}
          /\ tool' = IF tool.table = "data"
                     THEN [tool EXCEPT !.table = "root_ca"]
                     ELSE [tool EXCEPT !.phase = "select", !.table = "data"]
    /\ UNCHANGED <<db, changed, orchestrators, causes>>

Select ==
    /\ tool.phase = "select"
    /\ tool' = [tool EXCEPT !.phase = "update", !.todo = Restrict(db, RowsOf(tool.table))]
    /\ UNCHANGED <<db, changed, orchestrators, causes>>

(* Variant: only the first, shallow check is made. *)
CanTransformAny(row) == tool.old = None \/ row.key = tool.old

(* computeRecord: every row must be as the first was, and open with the key. *)
CanTransform(row) == Fits(row) /\ row.key = tool.old

Transformed(row) ==
    LET content == IF tool.old = None THEN row.plain ELSE row.cipher IN
    IF tool.new = None THEN InClear(content) ELSE Sealed(tool.new, content)

Rollback ==
    /\ tool' = IdleTool
    /\ changed' = [r \in {} |-> 0]
    /\ UNCHANGED <<db, orchestrators, causes>>

(* Variant: the row is inserted if it is gone. *)
NoteAnyway(r, row) ==
    changed' = [q \in DOMAIN changed \cup {r} |-> IF q = r THEN row ELSE changed[q]]

(* The row gets what was computed from what was read. *)
Note(r, row) ==
    IF r \in DOMAIN db
    THEN changed' = [q \in DOMAIN changed \cup {r} |-> IF q = r THEN row ELSE changed[q]]
    ELSE UNCHANGED changed

(* Variant: without a transaction. *)
UpdateRowAtOnce(r) ==
    /\ tool.phase = "update"
    /\ r \in DOMAIN tool.todo
    /\ IF CanTransform(tool.todo[r])
       THEN /\ db' = [q \in DOMAIN db |->
                        IF q = r THEN Transformed(tool.todo[r]) ELSE db[q]]
            /\ tool' = [tool EXCEPT !.todo = Restrict(@, DOMAIN @ \ {r})]
            /\ UNCHANGED <<changed, orchestrators, causes>>
       ELSE Rollback

UpdateRow(r) ==
    /\ tool.phase = "update"
    /\ r \in DOMAIN tool.todo
    /\ IF CanTransform(tool.todo[r])
       THEN /\ Note(r, Transformed(tool.todo[r]))
            /\ tool' = [tool EXCEPT !.todo = Restrict(@, DOMAIN @ \ {r})]
            /\ UNCHANGED <<db, orchestrators, causes>>
       ELSE Rollback

NextTable ==
    /\ tool.phase = "update"
    /\ tool.todo = [r \in {} |-> 0]
    /\ tool.table = "data"
    /\ tool' = [tool EXCEPT !.phase = "select", !.table = "root_ca"]
    /\ UNCHANGED <<db, changed, orchestrators, causes>>

Commit ==
    /\ tool.phase = "update"
    /\ tool.todo = [r \in {} |-> 0]
    /\ tool.table = "root_ca"
    /\ db' = [r \in DOMAIN db |-> IF r \in DOMAIN changed THEN changed[r] ELSE db[r]]
    /\ tool' = IdleTool
    /\ changed' = [r \in {} |-> 0]
    /\ UNCHANGED <<orchestrators, causes>>

(* The tool is interrupted, or loses its connection. *)
Interrupt == tool.phase # "idle" /\ Rollback

-----------------------------------------------------------------------------
(* The orchestrators. *)

(* root_ca cannot be truncated while the tool's transaction is using it. *)
CALocked == tool.phase = "update" /\ tool.table = "root_ca"

SetNode(n, phase) == node' = [node EXCEPT ![n].phase = phase]

Deleting(n) == node[n].phase \in {"deleteCA", "deleteTags"}

(* Variant: the tags are deleted at every start. *)
BootDeletingTags(n, key, reinit) ==
    /\ node[n].phase = "down"
    /\ node' = [node EXCEPT ![n] = [phase |-> IF reinit THEN "deleteCA" ELSE "deleteTags",
                                   key |-> key, ca |-> 0]]
    /\ Blame(Cause(tool.phase # "idle", "beside")
                \cup Cause(\E q \in Node : \/ reinit /\ node[q].phase # "down"
                                         \/ Deleting(q), "race"))
    /\ UNCHANGED <<db, tags, tool, changed, nextCA, written, issued, retired>>

Boot(n, key, reinit) ==
    /\ node[n].phase = "down"
    /\ node' = [node EXCEPT ![n] = [phase |-> IF reinit THEN "deleteCA" ELSE "getCA",
                                   key |-> key, ca |-> 0]]
    /\ Blame(Cause(tool.phase # "idle", "beside")
                \cup Cause(\E q \in Node : \/ reinit /\ node[q].phase # "down"
                                         \/ Deleting(q), "race"))
    /\ UNCHANGED <<db, tags, tool, changed, nextCA, written, issued, retired>>

Retire ==
    /\ issued' = {}
    /\ retired' = retired \cup issued

(* Variant: the CA is kept. *)
KeepCA(n) ==
    /\ node[n].phase = "deleteCA"
    /\ Retire
    /\ SetNode(n, "deleteTags")
    /\ UNCHANGED <<db, tags, tool, changed, nextCA, written, causes>>

DeleteCA(n) ==
    /\ node[n].phase = "deleteCA"
    /\ ~CALocked
    /\ db' = Restrict(db, RowsOf("data"))
    /\ Retire
    /\ SetNode(n, "deleteTags")
    /\ UNCHANGED <<tags, tool, changed, nextCA, written, causes>>

DeleteUsedTags(n) ==
    /\ node[n].phase = "deleteTags"
    /\ tags' = {}
    /\ SetNode(n, "getCA")
    /\ UNCHANGED <<db, tool, changed, nextCA, written, issued, retired, causes>>

(* The listener for VPN servers trusts one CA for as long as the process runs.*)
Serve(n, c) == node' = [node EXCEPT ![n].phase = "up", ![n].ca = c]

(* Variant: the CA's key is opened when it is needed. *)
GetCAUnopened(n) ==
    /\ node[n].phase = "getCA"
    /\ \/ RowsOf("root_ca") = {} /\ SetNode(n, "insertCA")
       \/ \E c \in RowsOf("root_ca") : Serve(n, c)
    /\ UNCHANGED <<db, tags, tool, changed, nextCA, written, issued, retired, causes>>

(* Any row of root_ca. It must open with the key the process was started with.*)
GetCA(n) ==
    /\ node[n].phase = "getCA"
    /\ \/ RowsOf("root_ca") = {} /\ SetNode(n, "insertCA")
       \/ \E c \in RowsOf("root_ca") :
            IF db[c].key = node[n].key THEN Serve(n, c)
                                       ELSE node' = [node EXCEPT ![n] = Down]
    /\ UNCHANGED <<db, tags, tool, changed, nextCA, written, issued, retired, causes>>

(* One with a key of its own. *)
NewRootCA == nextCA

KeysInUse == {db[r].key : r \in DOMAIN db} \cup ({node[n].key : n \in Node} \ {None})

(* The key is taken as it is: nothing says that the data is encrypted with it.*)
InsertCA(n) ==
    /\ node[n].phase = "insertCA"
    /\ NewRootCA \in CA
    /\ db' = [r \in DOMAIN db \cup {NewRootCA} |->
                IF r = NewRootCA THEN Sealed(node[n].key, 1) ELSE db[r]]
    /\ Serve(n, NewRootCA)
    /\ nextCA' = nextCA + 1
    /\ Blame(Cause(KeysInUse # {node[n].key}, "unchecked")
                \cup Cause(RowsOf("root_ca") # {}, "race"))
    /\ UNCHANGED <<tags, tool, changed, written, issued, retired>>

Content(r) == IF db[r].key = None THEN db[r].plain ELSE db[r].cipher

(* The plaintext column is left as it is. *)
Write(n, r) ==
    /\ node[n].phase = "up"
    /\ r \notin DOMAIN changed
    /\ r \in DOMAIN db \/ r \notin DOMAIN written
    /\ LET plain == IF r \in DOMAIN db THEN db[r].plain ELSE 0
           content == IF r \in DOMAIN db THEN written[r] + 1 ELSE 1
       IN
       /\ content <= MaxValue
       /\ db' = [q \in DOMAIN db \cup {r} |->
                    IF q = r THEN [Sealed(node[n].key, content) EXCEPT !.plain = plain]
                             ELSE db[q]]
       /\ written' = [q \in DOMAIN written \cup {r} |-> IF q = r THEN content ELSE written[q]]
    /\ UNCHANGED <<tags, tool, changed, node, nextCA, issued, retired, causes>>

Delete(n, r) ==
    /\ node[n].phase = "up"
    /\ r \in DOMAIN db \ DOMAIN changed
    /\ db' = Restrict(db, DOMAIN db \ {r})
    /\ UNCHANGED <<tags, tool, changed, node, nextCA, written, issued, retired, causes>>

(* Certificates do not expire. *)
MakeClientCert(ca, tag) == [ca |-> ca, tag |-> tag]

(* The tag is one the server has not. *)
GetCertForServer(n) ==
    /\ node[n].phase = "up"
    /\ \E t \in Tag \ tags :
        /\ tags' = tags \cup {t}
        /\ issued' = issued \cup {MakeClientCert(node[n].ca, t)}
    /\ UNCHANGED <<db, tool, changed, node, nextCA, written, retired, causes>>

Stop(n) ==
    /\ node[n].phase # "down"
    /\ node' = [node EXCEPT ![n] = Down]
    /\ UNCHANGED <<db, tags, tool, changed, nextCA, written, issued, retired, causes>>

(* The TLS handshake verifies the chain, and TLSAuth the tag. *)
VerifyServerTag(tag) == tag \in tags
Accepts(n, c) == node[n].phase = "up" /\ c.ca = node[n].ca /\ VerifyServerTag(c.tag)

Next ==
    \/ \E old, new \in Key \cup {None} : StartCrypt(old, new)
    \/ Detect \/ Select \/ NextTable \/ Commit \/ Interrupt
    \/ \E r \in Secret \cup CA : UpdateRow(r)
    \/ \E n \in Node :
        \/ \E key \in Key, reinit \in BOOLEAN : Boot(n, key, reinit)
        \/ DeleteCA(n) \/ DeleteUsedTags(n) \/ GetCA(n) \/ InsertCA(n)
        \/ \E r \in Secret : Write(n, r) \/ Delete(n, r)
        \/ GetCertForServer(n) \/ Stop(n)

Spec == Init /\ [][Next]_vars

-----------------------------------------------------------------------------
(* Properties. *)

(* Unless an orchestrator ran beside the tool or was given an unchecked key, *)
(* the database is encrypted as a whole with one key, or not at all, and has *)
(* the last content of every row: also when the tool fails halfway, is given*)
(* wrong keys, or an orchestrator is started with another key.             *)
OneKeyNothingLost ==
    causes \cap {"beside", "unchecked"} = {} =>
        \A r, q \in DOMAIN db :
            /\ db[r].key = db[q].key
            /\ r \in Secret => Content(r) = written[r]

(* "Check the database state to prevent data loss" (crypt.go): even on a      *)
(* database that is encrypted in parts, or changed meanwhile, the tool never *)
(* replaces a content by nothing.                                          *)
NothingEmptied == \A r \in RowsOf("data") : Content(r) # 0

(* An orchestrator that is up can read what is stored. *)
UpReads ==
    causes \cap {"beside", "unchecked"} = {} =>
        \A n \in Node : node[n].phase = "up" =>
            \A r \in RowsOf("data") : db[r].key = node[n].key

(* The types, and that the database stays under one key, complete and readable *)
(* for the orchestrators that are up (egvpn crypt, InitCertificateProvider).  *)
SecretsSound ==
    /\ TypeOK
    /\ OneKeyNothingLost
    /\ NothingEmptied
    /\ UpReads

(* "root certificate for TLS auth is stored in the database to keep valid all *)
(* issued certificates" (entguard-guide.md): every orchestrator accepts      *)
(* every certificate, unless one made or deleted the CA while another ran.  *)
CertificatesHold ==
    "race" \notin causes =>
        \A n \in Node : node[n].phase = "up" => \A c \in issued : Accepts(n, c)

(* "this will invalidate all previously issued certificates" (likewise): none *)
(* of them is accepted again, though their tags are given to others, and    *)
(* wherever the orchestrator that deletes them crashes.                    *)
RetiredRejected ==
    "race" \notin causes => \A n \in Node : \A c \in retired : ~Accepts(n, c)
=============================================================================
