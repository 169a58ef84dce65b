------------------------------ MODULE LedgerProofs ----------------------------
(***************************************************************************)
(* Proofs about Ledger: validate_transaction over every reachable          *)
(* database, for any transactions.  The sums are taken as they are; nothing *)
(* is proved about addition.                                               *)
(***************************************************************************)
EXTENDS Ledger, ObjectStoreProofs, SequenceTheorems, WellFoundedInduction

-----------------------------------------------------------------------------
(* validate_transaction *)

\* There is a first among finitely or infinitely many positions.
LEMMA HasFirst ==
    ASSUME NEW S, S \subseteq Nat, S # {}
    PROVE  \E i \in S : \A j \in S : i <= j
<1> DEFINE R == OpToRel(<, Nat)
<1>1. PICK i \in S : \A j \in S : ~(<<j, i>> \in R)
  BY NatLessThanWellFounded, WFMin
<1>2. \A j \in S : ~(j < i)
  BY <1>1 DEF OpToRel
<1> QED
  BY <1>2

\* A pass over the inputs succeeds if it succeeds for each of them.
LEMMA PassSucceeds ==
    ASSUME NEW results, DOMAIN results \subseteq Nat
    PROVE  FirstError(results) = "Ok" <=> \A i \in DOMAIN results : results[i] = "Ok"
<1> DEFINE errors == {i \in DOMAIN results : results[i] # "Ok"}
           first == CHOOSE i \in errors : \A j \in errors : i <= j
<1>1. CASE errors = {}
  BY <1>1 DEF FirstError
<1>2. CASE errors # {}
  <2>1. \E i \in errors : \A j \in errors : i <= j
    BY <1>2, HasFirst
  <2>2. first \in errors
    BY <2>1
  <2> QED
    BY <1>2, <2>2 DEF FirstError
<1> QED
  BY <1>1, <1>2

\* What a lookup in the database can bring.
LEMMA StoreTypes ==
    ASSUME TypeOK
    PROVE  Store \in [Id -> Tx \cup {NoTx, Missing, Failed}]
BY LedgerAssumption DEF TypeOK, Store

\* The two passes together look for an owned output.
LEMMA BothPasses ==
    ASSUME TypeOK, NEW input \in In
    PROVE  /\ ResolveOutpoint(input, Store) = "Ok" /\ VerifySignature(input, Store) = "Ok"
           <=> Owned(input)
<1> DEFINE parent == Store[input.txid]
<1>1. input.txid \in Id /\ input.index \in Nat /\ parent \in Tx \cup {NoTx, Missing, Failed}
  BY StoreTypes DEF In
<1>2. CASE parent \notin Tx
  <2>1. parent \in {NoTx, Missing, Failed}
    BY <1>1, <1>2
  <2>2. ResolveOutpoint(input, Store) # "Ok"
    BY <2>1 DEF ResolveOutpoint
  <2> QED
    BY <1>2, <2>2 DEF Owned
<1>3. CASE parent \in Tx
  <2>1. parent \notin {NoTx, Missing, Failed}
    BY <1>3, LedgerAssumption
  <2>2. parent.outputs \in Seq(Out) /\ Len(parent.outputs) \in Nat
    BY <1>3, LenProperties DEF Tx
  <2>3. ResolveOutpoint(input, Store) = "Ok" <=> input.index < Len(parent.outputs)
    BY <1>1, <2>1, <2>2 DEF ResolveOutpoint
  <2>4. VerifySignature(input, Store) = "Ok" <=>
          Spent(input, Store).pubkey # Malformed /\ input.sig = Spent(input, Store).pubkey
    BY DEF VerifySignature
  <2> QED
    BY <1>3, <2>3, <2>4 DEF Owned, Output, Spent
<1> QED
  BY <1>2, <1>3

\* What it takes for validate_transaction to return Ok, with the sums as it takes them.
Passes(tx) ==
    WellFormed(tx) /\ OwnsInputs(tx) /\ (tx.coinbase \/ ~(SumInputs(tx, Store) < SumOutputs(tx)))

\* validate_transaction returns Ok exactly in that case.
LEMMA ValidMeans ==
    ASSUME TypeOK, NEW tx \in Tx
    PROVE  Valid(tx) <=> Passes(tx)
<1> DEFINE resolved == [i \in DOMAIN tx.inputs |-> ResolveOutpoint(tx.inputs[i], Store)]
           verified == [i \in DOMAIN tx.inputs |-> VerifySignature(tx.inputs[i], Store)]
<1>1. tx.coinbase \in BOOLEAN /\ tx.inputs \in Seq(In)
  BY DEF Tx
<1>2. DOMAIN tx.inputs = 1..Len(tx.inputs) /\ Len(tx.inputs) \in Nat
  BY <1>1, LenProperties
<1>3. DOMAIN tx.inputs \subseteq Nat /\ \A i \in DOMAIN tx.inputs : tx.inputs[i] \in In
  BY <1>1, <1>2, ElementOfSeq
<1>4. FirstError(resolved) = "Ok" <=> \A i \in DOMAIN tx.inputs : ResolveOutpoint(tx.inputs[i], Store) = "Ok"
  BY <1>3, PassSucceeds
<1>5. FirstError(verified) = "Ok" <=> \A i \in DOMAIN tx.inputs : VerifySignature(tx.inputs[i], Store) = "Ok"
  BY <1>3, PassSucceeds
<1>6. FirstError(resolved) = "Ok" /\ FirstError(verified) = "Ok"
        <=> \A i \in DOMAIN tx.inputs : Owned(tx.inputs[i])
  BY <1>3, <1>4, <1>5, BothPasses
<1>7. tx # NoTx
  BY LedgerAssumption
<1>8. Valid(tx) <=>
        IF tx.coinbase THEN tx.inputs = <<>> /\ tx.outputs # <<>>
        ELSE /\ tx.inputs # <<>> /\ tx.outputs # <<>>
             /\ FirstError(resolved) = "Ok" /\ FirstError(verified) = "Ok"
             /\ ~(SumInputs(tx, Store) < SumOutputs(tx))
  BY <1>7 DEF Valid, validate_transaction
<1>9. tx.inputs = <<>> => DOMAIN tx.inputs = {}
  BY EmptySeq
<1> QED
  BY <1>1, <1>6, <1>8, <1>9 DEF Passes, WellFormed, OwnsInputs

\* The same after a step.
LEMMA ValidMeansNext == (TypeOK => \A tx \in Tx : Valid(tx) <=> Passes(tx))'
<1>1. TypeOK => \A tx \in Tx : Valid(tx) <=> Passes(tx)
  BY ValidMeans
<1> QED
  BY <1>1, PTL

\* Over every reachable database, validate_transaction accepts a transaction only if
\* it is well-formed and spends outputs that exist with the signatures of their
\* owners, and then exactly if its own sums balance.
THEOREM ValidationIsExact ==
    Spec => [](\A tx \in Candidates :
                 /\ Valid(tx) => WellFormed(tx) /\ OwnsInputs(tx)
                 /\ WellFormed(tx) /\ OwnsInputs(tx) =>
                      (Valid(tx) <=> tx.coinbase \/ ~(SumInputs(tx, Store) < SumOutputs(tx))))
<1>1. StoreInv => \A tx \in Candidates :
                    /\ Valid(tx) => WellFormed(tx) /\ OwnsInputs(tx)
                    /\ WellFormed(tx) /\ OwnsInputs(tx) =>
                         (Valid(tx) <=> tx.coinbase \/ ~(SumInputs(tx, Store) < SumOutputs(tx)))
  BY ValidMeans, LedgerAssumption DEF StoreInv, Passes
<1> QED
  BY <1>1, StoreInvariant, PTL

-----------------------------------------------------------------------------
(* The store under racing sessions *)

\* What is found once is found for ever: another text of the same object may take
\* its place, and is parsed to the same.
LEMMA ParentsStay ==
    ASSUME StoreInv, StoreInv', table' = table,
           \A i \in Id : db[i] # None => db'[i] # None,
           NEW i \in Id, Store[i] \in Tx
    PROVE  Store'[i] = Store[i]
<1>1. table /\ db[i] # None /\ Store[i] = Parsed[db[i]]
  BY LedgerAssumption DEF Store
<1>2. db[i] \in Text /\ db'[i] \in Text /\ db'[i] # None
  BY <1>1 DEF StoreInv, TypeOK
<1>3. ObjectId[db[i]] = i /\ ObjectId[db'[i]] = i
  BY <1>1, <1>2 DEF StoreInv, ContentAddressed
<1>4. Parsed[db'[i]] = Parsed[db[i]]
  BY <1>2, <1>3, LedgerAssumption, StoreAssumption
<1>5. Store'[i] = Parsed[db'[i]]
  BY <1>1, <1>2 DEF Store
<1> QED
  BY <1>1, <1>4, <1>5

\* A valid transaction stays valid, in however many sessions and whatever they
\* put, the texts of its parents included.
THEOREM ValidityIsStable == Spec => ValidStaysValid
<1>1. ASSUME StoreInv, StoreInv', table' = table,
             \A i \in Id : db[i] # None => db'[i] # None,
             NEW tx \in Candidates, Valid(tx)
      PROVE  Valid(tx)'
  <2>1. tx \in Tx /\ TypeOK /\ TypeOK'
    BY <1>1, LedgerAssumption DEF StoreInv
  <2>2. Passes(tx)
    BY <1>1, <2>1, ValidMeans
  <2>3. \A i \in DOMAIN tx.inputs : tx.inputs[i] \in In
    BY <2>1, LenProperties, ElementOfSeq DEF Tx
  <2>4. \A i \in DOMAIN tx.inputs : Store'[tx.inputs[i].txid] = Store[tx.inputs[i].txid]
    BY <1>1, <2>2, <2>3, ParentsStay DEF Passes, OwnsInputs, Owned, In
  <2>5. \A i \in DOMAIN tx.inputs : Spent(tx.inputs[i], Store') = Spent(tx.inputs[i], Store)
    BY <2>4 DEF Spent
  <2>6. OwnsInputs(tx)'
    BY <2>2, <2>4, <2>5 DEF Passes, OwnsInputs, Owned, Output
  <2>7. SumInputs(tx, Store') = SumInputs(tx, Store)
    <3>1. [i \in DOMAIN tx.inputs |-> Spent(tx.inputs[i], Store').value]
            = [i \in DOMAIN tx.inputs |-> Spent(tx.inputs[i], Store).value]
      BY <2>5
    <3> QED
      BY <3>1 DEF SumInputs
  <2>8. Passes(tx)'
    BY <2>2, <2>6, <2>7 DEF Passes, WellFormed
  <2> QED
    BY <2>1, <2>8, ValidMeansNext
<1>2. ASSUME StoreInv, StoreInv', [table' = table]_vars,
             [\A i \in Id : db[i] # None => db'[i] # None]_vars
      PROVE  [Store' # Store => \A tx \in Candidates : Valid(tx) => Valid(tx)']_vars
  BY <1>1, <1>2
<1> QED
  BY <1>2, StoreInvariant, ObjectsStay, TableStays, PTL
     DEF StoredStays, ValidStaysValid
=============================================================================
