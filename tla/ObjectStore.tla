----------------------------- MODULE ObjectStore ------------------------------
(***************************************************************************)
(* The object database and the sessions that fill it: redb_store.rs and    *)
(* the GetObject, GotObject and Object arms of run_message_loop.  Sessions *)
(* run in parallel; has, get and put are one database transaction each,    *)
(* but the arm of Object asks first and stores later.                      *)
(*                                                                         *)
(* An object arrives as a JSON text and is stored as that text; its        *)
(* identifier is the hash of its canonical form, so several texts, which   *)
(* differ in blanks or in the order of keys, have the same identifier.     *)
(*                                                                         *)
(* The arms are modelled as they are written, for messages that reach      *)
(* them; read_frame lets none through yet (see KnownTypesRoundTrip).       *)
(***************************************************************************)
CONSTANTS
    Id,          \* object identifiers
    Text,        \* JSON texts that peers send
    ObjectId,    \* compute_object_id of each text, or NoId
    NoId,        \* a text without an object under "object"
    None,        \* no text
    Session      \* connections, each in run_message_loop

ASSUME StoreAssumption ==
    /\ NoId \notin Id
    /\ None \notin Text
    /\ ObjectId \in [Text -> Id \cup {NoId}]

VARIABLES
    table,    \* whether the database has its table "objects"
    db,       \* the table: the text stored for an identifier, or None
    pc,       \* where each session is
    item,     \* the object a session is about to put
    sent      \* the last frame of a session to its peer

vars == <<table, db, pc, item, sent>>

Object == [id : Id, text : Text]

NoObject == [id |-> NoId, text |-> None]

\* The frames of these arms; GetObject carries an identifier only.
Answer == [type : {"none", "GetObject", "Object", "Error"}, id : Id \cup {NoId},
           text : Text \cup {None}]

Nothing == [type |-> "none", id |-> NoId, text |-> None]
Refusal == [type |-> "Error", id |-> NoId, text |-> None]

\* RedbStore::new creates the file and no table, and since the arm of Object
\* reads before it writes, no session ever creates one.  A database with a table,
\* here an empty one, was made by a direct call of put.
Init ==
    /\ table \in BOOLEAN
    /\ db = [i \in Id |-> None]
    /\ pc = [s \in Session |-> "loop"]
    /\ item = [s \in Session |-> NoObject]
    /\ sent = [s \in Session |-> Nothing]

-----------------------------------------------------------------------------
\* has and get answer Ok only if there is a table; get then returns db[i].
Holds(i) == table /\ db[i] # None
Lacks(i) == table /\ db[i] = None

-----------------------------------------------------------------------------
(* run_message_loop *)

\* The loop returns, after a last answer f; the connection is closed.
Return(s, f) ==
    /\ pc' = [pc EXCEPT ![s] = "closed"]
    /\ item' = [item EXCEPT ![s] = NoObject]
    /\ sent' = [sent EXCEPT ![s] = f]
    /\ UNCHANGED <<table, db>>

\* An operation of the database fails, which ends the session; a read without a
\* table always does.  So does the end of the connection or of the process.
Ends(s) ==
    /\ pc[s] \in {"loop", "put"}
    /\ Return(s, sent[s])

\* GetObject { object_id }: answered with the stored text, or not at all.
GetObject(s, i) ==
    /\ pc[s] = "loop"
    /\ Holds(i)
    /\ sent' = [sent EXCEPT ![s] = [type |-> "Object", id |-> i, text |-> db[i]]]
    /\ UNCHANGED <<table, db, pc, item>>

\* GotObject { object_id }: the object is asked for unless it is there.
GotObject(s, i) ==
    /\ pc[s] = "loop"
    /\ Lacks(i)
    /\ sent' = [sent EXCEPT ![s] = [type |-> "GetObject", id |-> i, text |-> None]]
    /\ UNCHANGED <<table, db, pc, item>>

\* Object { object_id, object }: refused without an answer if ensure_object_field
\* fails, and with an Error if the identifier is not the claimed one.
ObjectRefused(s, i, x) ==
    /\ pc[s] = "loop"
    /\ ObjectId[x] # i
    /\ Return(s, IF ObjectId[x] = NoId THEN sent[s] ELSE Refusal)

\* Mutant of ObjectArrives: the claimed identifier is taken for the computed one.
ObjectTrusted(s, i, x) ==
    /\ pc[s] = "loop"
    /\ ObjectId[x] # NoId
    /\ Lacks(i)
    /\ pc' = [pc EXCEPT ![s] = "put"]
    /\ item' = [item EXCEPT ![s] = [id |-> i, text |-> x]]
    /\ UNCHANGED <<table, db, sent>>

\* Otherwise it is stored, unless store.has knows the identifier.
ObjectArrives(s, i, x) ==
    /\ pc[s] = "loop"
    /\ ObjectId[x] = i
    /\ Lacks(i)
    /\ pc' = [pc EXCEPT ![s] = "put"]
    /\ item' = [item EXCEPT ![s] = [id |-> ObjectId[x], text |-> x]]
    /\ UNCHANGED <<table, db, sent>>

\* table.insert: an earlier entry for the identifier is replaced.
Inserted(o) == [db EXCEPT ![o.id] = o.text]

\* store.put: creates the table if need be, and replaces what another session may
\* have stored under the identifier since store.has.
Put(s) ==
    /\ pc[s] = "put"
    /\ table' = TRUE
    /\ db' = Inserted(item[s])
    /\ pc' = [pc EXCEPT ![s] = "loop"]
    /\ item' = [item EXCEPT ![s] = NoObject]
    /\ UNCHANGED sent

\* A new connection; the database stays as it is.
Connect(s) ==
    /\ pc[s] = "closed"
    /\ pc' = [pc EXCEPT ![s] = "loop"]
    /\ sent' = [sent EXCEPT ![s] = Nothing]
    /\ UNCHANGED <<table, db, item>>

Next ==
    \E s \in Session :
        \/ Ends(s)
        \/ \E i \in Id : GetObject(s, i) \/ GotObject(s, i)
        \/ \E i \in Id, x \in Text : ObjectRefused(s, i, x) \/ ObjectArrives(s, i, x)
        \/ Put(s)
        \/ Connect(s)

Spec == Init /\ [][Next]_vars

-----------------------------------------------------------------------------
(* Properties *)

\* Type correctness.
TypeOK ==
    /\ table \in BOOLEAN
    /\ db \in [Id -> Text \cup {None}]
    /\ pc \in [Session -> {"loop", "put", "closed"}]
    /\ item \in [Session -> Object \cup {NoObject}]
    /\ sent \in [Session -> Answer]

\* api.rs:3, "A simple content-addressable blob store": whatever sessions race
\* between has and put, an identifier holds a text of the object it names.
ContentAddressed == \A i \in Id : db[i] # None => ObjectId[db[i]] = i

\* An object sent in answer to GetObject passes the check of the peer that asked
\* for it, which compares the identifiers (dispatch.rs:87), although the store
\* may have changed since.
AnswersVerify ==
    \A s \in Session : sent[s].type = "Object" => ObjectId[sent[s].text] = sent[s].id

\* An object in the database stays there, when two sessions found it missing and
\* both put it (dispatch.rs:104-109) and when sessions end between the two.
StoredStays == [][\A i \in Id : db[i] # None => db'[i] # None]_vars

Blobs ==
    INSTANCE BlobStore WITH blobs <- db, read <- [s \in Session |-> sent[s].text]

\* The database and its sessions implement the store of api.rs:3 with an atomic put
\* and get: the gap between has and put (dispatch.rs:104-109), racing sessions and
\* sessions that end half-way show nowhere, neither in the table nor in the answers.
ImplementsBlobStore == Blobs!Spec

\* The inductive invariant: what is about to be put belongs to its identifier, and
\* the table it goes to is there.
PendingMatches ==
    \A s \in Session :
        pc[s] = "put" => table /\ item[s] \in Object /\ ObjectId[item[s].text] = item[s].id

StoreInv ==
    /\ TypeOK
    /\ PendingMatches
    /\ ContentAddressed
    /\ AnswersVerify
=============================================================================
