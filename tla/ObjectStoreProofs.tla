--------------------------- MODULE ObjectStoreProofs --------------------------
(* Proofs about ObjectStore, for any objects, texts and number of sessions. *)
EXTENDS ObjectStore, TLAPS

\* The end of a session touches neither the database nor what other sessions
\* are about to put.
LEMMA ReturnKeeps ==
    ASSUME StoreInv, NEW s \in Session, NEW f \in Answer,
           f.type = "Object" => ObjectId[f.text] = f.id,
           Return(s, f)
    PROVE  StoreInv'
<1> USE DEF StoreInv, Return
<1>1. TypeOK'
  BY DEF TypeOK
<1>2. PendingMatches'
  BY DEF TypeOK, PendingMatches
<1>3. ContentAddressed'
  BY DEF ContentAddressed
<1>4. AnswersVerify'
  BY DEF TypeOK, AnswersVerify
<1> QED
  BY <1>1, <1>2, <1>3, <1>4

\* Every step of a session preserves the invariant.
LEMMA StoreStep ==
    ASSUME StoreInv, [Next]_vars
    PROVE  StoreInv'
<1> USE StoreAssumption
<1>1. ASSUME NEW s \in Session, Ends(s)
      PROVE  StoreInv'
  <2>1. sent[s] \in Answer /\ (sent[s].type = "Object" => ObjectId[sent[s].text] = sent[s].id)
    BY DEF StoreInv, TypeOK, AnswersVerify
  <2> QED
    BY <1>1, <2>1, ReturnKeeps DEF Ends
<1>2. ASSUME NEW s \in Session, NEW i \in Id, GetObject(s, i)
      PROVE  StoreInv'
  <2> DEFINE f == [type |-> "Object", id |-> i, text |-> db[i]]
  <2>1. f \in Answer /\ ObjectId[f.text] = f.id
    BY <1>2 DEF GetObject, Holds, StoreInv, TypeOK, ContentAddressed, Answer
  <2>2. TypeOK'
    BY <1>2, <2>1 DEF GetObject, StoreInv, TypeOK
  <2>3. AnswersVerify'
    BY <1>2, <2>1 DEF GetObject, StoreInv, TypeOK, AnswersVerify
  <2> QED
    BY <1>2, <2>2, <2>3 DEF GetObject, StoreInv, PendingMatches, ContentAddressed
<1>3. ASSUME NEW s \in Session, NEW i \in Id, GotObject(s, i)
      PROVE  StoreInv'
  <2>1. TypeOK'
    BY <1>3 DEF GotObject, StoreInv, TypeOK, Answer
  <2>2. AnswersVerify'
    BY <1>3 DEF GotObject, StoreInv, TypeOK, AnswersVerify
  <2> QED
    BY <1>3, <2>1, <2>2 DEF GotObject, StoreInv, PendingMatches, ContentAddressed
<1>4. ASSUME NEW s \in Session, NEW i \in Id, NEW x \in Text, ObjectRefused(s, i, x)
      PROVE  StoreInv'
  <2> DEFINE f == IF ObjectId[x] = NoId THEN sent[s] ELSE Refusal
  <2>1. f \in Answer /\ (f.type = "Object" => ObjectId[f.text] = f.id)
    BY DEF StoreInv, TypeOK, AnswersVerify, Answer, Refusal
  <2>2. Return(s, f)
    BY <1>4 DEF ObjectRefused
  <2> QED
    BY <2>1, <2>2, ReturnKeeps
<1>5. ASSUME NEW s \in Session, NEW i \in Id, NEW x \in Text, ObjectArrives(s, i, x)
      PROVE  StoreInv'
  <2>1. [id |-> ObjectId[x], text |-> x] \in Object
    BY <1>5 DEF ObjectArrives, Object
  <2>2. TypeOK'
    BY <1>5, <2>1 DEF ObjectArrives, StoreInv, TypeOK
  <2>3. PendingMatches'
    BY <1>5, <2>1 DEF ObjectArrives, Lacks, StoreInv, TypeOK, PendingMatches
  <2> QED
    BY <1>5, <2>2, <2>3 DEF ObjectArrives, StoreInv, ContentAddressed, AnswersVerify
<1>6. ASSUME NEW s \in Session, Put(s)
      PROVE  StoreInv'
  <2>1. item[s].id \in Id /\ item[s].text \in Text /\ ObjectId[item[s].text] = item[s].id
    BY <1>6 DEF Put, StoreInv, PendingMatches, Object
  <2>2. TypeOK'
    BY <1>6, <2>1 DEF Put, Inserted, StoreInv, TypeOK
  <2>3. PendingMatches'
    BY <1>6 DEF Put, StoreInv, TypeOK, PendingMatches
  <2>4. ContentAddressed'
    BY <1>6, <2>1 DEF Put, Inserted, StoreInv, TypeOK, ContentAddressed
  <2> QED
    BY <1>6, <2>2, <2>3, <2>4 DEF Put, StoreInv, AnswersVerify
<1>7. ASSUME NEW s \in Session, Connect(s)
      PROVE  StoreInv'
  <2>1. TypeOK'
    BY <1>7 DEF Connect, StoreInv, TypeOK, Answer, Nothing
  <2>2. PendingMatches'
    BY <1>7 DEF Connect, StoreInv, TypeOK, PendingMatches
  <2>3. AnswersVerify'
    BY <1>7 DEF Connect, StoreInv, TypeOK, AnswersVerify, Nothing
  <2> QED
    BY <1>7, <2>1, <2>2, <2>3 DEF Connect, StoreInv, ContentAddressed
<1>8. CASE UNCHANGED vars
  BY <1>8 DEF vars, StoreInv, TypeOK, PendingMatches, ContentAddressed, AnswersVerify
<1> QED
  BY <1>1, <1>2, <1>3, <1>4, <1>5, <1>6, <1>7, <1>8 DEF Next

\* Whatever objects arrive, over however many sessions, an identifier holds a
\* text of the object it names, and so does every answer to a GetObject.
THEOREM StoreInvariant == Spec => []StoreInv
<1>1. Init => StoreInv
  BY StoreAssumption DEF Init, StoreInv, TypeOK, PendingMatches, ContentAddressed, AnswersVerify,
     Answer, Nothing
<1> QED
  BY <1>1, StoreStep, PTL DEF Spec

\* No step takes an object out of the database: only Put writes to it, and what
\* it writes is a text.
THEOREM ObjectsStay == Spec => StoredStays
<1>1. ASSUME StoreInv, [Next]_vars, NEW i \in Id, db[i] # None
      PROVE  db'[i] # None
  <2>1. ASSUME NEW s \in Session, Put(s)
        PROVE  db'[i] # None
    <3>1. item[s].text \in Text
      BY <1>1, <2>1 DEF Put, StoreInv, PendingMatches, Object
    <3> QED
      BY <1>1, <2>1, <3>1, StoreAssumption DEF Put, Inserted, StoreInv, TypeOK
  <2>2. (\E s \in Session : Put(s)) \/ db' = db
    BY <1>1 DEF Next, vars, Ends, GetObject, GotObject, ObjectRefused, ObjectArrives, Connect,
       Return
  <2> QED
    BY <1>1, <2>1, <2>2
<1>2. StoreInv /\ [Next]_vars => [\A i \in Id : db[i] # None => db'[i] # None]_vars
  BY <1>1
<1> QED
  BY <1>2, StoreInvariant, PTL DEF Spec, StoredStays

\* A session puts only after a read that needs the table, so put never makes one.
LEMMA TableStays == Spec => [][table' = table]_vars
<1>1. ASSUME StoreInv, [Next]_vars
      PROVE  table' = table
  <2>1. ASSUME NEW s \in Session, Put(s)
        PROVE  table' = table
    BY <1>1, <2>1 DEF Put, StoreInv, PendingMatches
  <2> QED
    BY <1>1, <2>1 DEF Next, vars, Ends, GetObject, GotObject, ObjectRefused, ObjectArrives,
       Connect, Return
<1>2. StoreInv /\ [Next]_vars => [table' = table]_vars
  BY <1>1
<1> QED
  BY <1>2, StoreInvariant, PTL DEF Spec

-----------------------------------------------------------------------------
(* The implementation of BlobStore *)

\* What the readers were given last.
Reads == [s \in Session |-> sent[s].text]

\* A step that changes only the last frame of s to f.
LEMMA FrameIsRead ==
    ASSUME TypeOK, NEW s \in Session, NEW f, sent' = [sent EXCEPT ![s] = f]
    PROVE  Reads' = [Reads EXCEPT ![s] = f.text]
  BY DEF TypeOK, Reads

\* Whatever a session does, the abstract store sees one put, one get, a reader that
\* turns away, or nothing.
LEMMA StepIsBlobStep ==
    ASSUME StoreInv, [Next]_vars
    PROVE  Blobs!Next \/ (UNCHANGED <<db, Reads>>)
<1> USE DEF StoreInv
<1>1. ASSUME NEW s \in Session, Put(s)
      PROVE  Blobs!Next
  <2>1. item[s].text \in Text /\ item[s].id \in Id /\ ObjectId[item[s].text] = item[s].id
    BY <1>1 DEF Put, PendingMatches, Object
  <2>2. Blobs!Put(item[s].text)
    BY <1>1, <2>1 DEF Put, Inserted, Blobs!Put
  <2> QED
    BY <2>1, <2>2 DEF Blobs!Next
<1>2. ASSUME NEW s \in Session, NEW i \in Id, GetObject(s, i)
      PROVE  Blobs!Next
  <2>1. Reads' = [Reads EXCEPT ![s] = db[i]]
    BY <1>2 DEF GetObject, TypeOK, Reads
  <2>2. Blobs!Get(s, i)
    BY <1>2, <2>1 DEF GetObject, Holds, Blobs!Get, Reads
  <2> QED
    BY <2>2 DEF Blobs!Next
<1>3. ASSUME NEW s \in Session, NEW f, f.text = None, db' = db,
             sent' = [sent EXCEPT ![s] = f]
      PROVE  Blobs!Next
  <2>1. Reads' = [Reads EXCEPT ![s] = None]
    BY <1>3, FrameIsRead
  <2>2. Blobs!Leave(s)
    BY <1>3, <2>1 DEF Blobs!Leave, Reads
  <2> QED
    BY <2>2 DEF Blobs!Next
<1>4. ASSUME NEW s \in Session, NEW i \in Id, GotObject(s, i)
      PROVE  Blobs!Next
  BY <1>3, <1>4 DEF GotObject
<1>5. ASSUME NEW s \in Session, Connect(s)
      PROVE  Blobs!Next
  BY <1>3, <1>5 DEF Connect, Nothing
<1>6. ASSUME NEW s \in Session, Return(s, sent[s])
      PROVE  UNCHANGED <<db, Reads>>
  BY <1>6 DEF Return, TypeOK, Reads
<1>7. ASSUME NEW s \in Session, NEW i \in Id, NEW x \in Text, ObjectRefused(s, i, x)
      PROVE  Blobs!Next \/ (UNCHANGED <<db, Reads>>)
  <2>1. CASE ObjectId[x] = NoId
    BY <1>6, <1>7, <2>1 DEF ObjectRefused
  <2>2. CASE ObjectId[x] # NoId
    BY <1>3, <1>7, <2>2 DEF ObjectRefused, Return, Refusal
  <2> QED
    BY <2>1, <2>2
<1>8. ASSUME NEW s \in Session, NEW i \in Id, NEW x \in Text, ObjectArrives(s, i, x)
      PROVE  UNCHANGED <<db, Reads>>
  BY <1>8 DEF ObjectArrives, Reads
<1>9. ASSUME NEW s \in Session, Ends(s)
      PROVE  UNCHANGED <<db, Reads>>
  BY <1>6, <1>9 DEF Ends
<1>10. CASE UNCHANGED vars
  BY <1>10 DEF vars, Reads
<1> QED
  BY <1>1, <1>2, <1>4, <1>5, <1>7, <1>8, <1>9, <1>10 DEF Next

\* The database and any number of sessions implement a store with an atomic put and
\* get, in which nothing is under a wrong identifier and nothing is removed.
THEOREM StoreImplemented == Spec => ImplementsBlobStore
<1>1. Init => Blobs!Init
  BY DEF Init, Nothing, Blobs!Init
<1>2. StoreInv /\ [Next]_vars => [Blobs!Next]_<<db, Reads>>
  BY StepIsBlobStep
<1> QED
  BY <1>1, <1>2, StoreInvariant, PTL DEF Spec, ImplementsBlobStore, Blobs!Spec, Reads
=============================================================================
