-------------------------------- MODULE Ledger --------------------------------
(***************************************************************************)
(* The object database together with validate_transaction, which reads it. *)
(* A stored text is parsed when it is read; texts of one object are parsed *)
(* to the same, since texts with the same canonical form are the same JSON *)
(* value (IdNamesMeaning).                                                 *)
(***************************************************************************)
EXTENDS ObjectStore, Transaction

LOCAL INSTANCE FiniteSetsExt

CONSTANTS
    Key,          \* key pairs
    Parsed,       \* what a text is parsed to: a transaction, or NoTx
    Candidates    \* the transactions to be validated

In == [txid : Id, index : Nat, sig : Key \cup {Malformed}]
Out == [pubkey : Key \cup {Malformed}, value : Nat]
Tx == [coinbase : BOOLEAN, inputs : Seq(In), outputs : Seq(Out)]

ASSUME LedgerAssumption ==
    /\ Malformed \notin Key
    /\ Tx \cap {NoTx, Missing, Failed} = {}
    /\ NoTx \notin {Missing, Failed}
    /\ Parsed \in [Text -> Tx \cup {NoTx}]
    /\ \A x, y \in Text : ObjectId[x] = ObjectId[y] /\ ObjectId[x] # NoId => Parsed[x] = Parsed[y]
    /\ Candidates \subseteq Tx

\* The database as validate_transaction sees it through ObjectStore::get.
Store ==
    [i \in Id |-> IF ~table THEN Failed ELSE IF db[i] = None THEN Missing ELSE Parsed[db[i]]]

Valid(tx) == validate_transaction(tx, Store) = "Ok"

-----------------------------------------------------------------------------
(* Properties *)

\* A coinbase creates outputs only, any other transaction has inputs as well.
WellFormed(tx) == tx.outputs # <<>> /\ (tx.inputs = <<>> <=> tx.coinbase)

Output(input) == Store[input.txid].outputs[input.index + 1]

\* The owner of an output that exists has signed for it.
Owned(input) ==
    /\ Store[input.txid] \in Tx
    /\ input.index < Len(Store[input.txid].outputs)
    /\ Output(input).pubkey = input.sig /\ input.sig # Malformed

OwnsInputs(tx) == \A i \in DOMAIN tx.inputs : Owned(tx.inputs[i])

Outpoint(input) == <<input.txid, input.index>>

\* No two inputs name the same output.
SpendsOnce(tx) ==
    \A i, j \in DOMAIN tx.inputs : Outpoint(tx.inputs[i]) = Outpoint(tx.inputs[j]) => i = j

\* The outputs that are spent, each of them once, hold what the transaction creates.
Funded(tx) ==
    MapThenSumSet(LAMBDA i : tx.outputs[i].value, DOMAIN tx.outputs)
        <= MapThenSumSet(LAMBDA o : Store[o[1]].outputs[o[2] + 1].value,
                         {Outpoint(tx.inputs[i]) : i \in DOMAIN tx.inputs})

\* What validate_transaction accepts is well-formed and spends outputs that exist with
\* the signatures of their owners: no order of its checks and early returns lets
\* another transaction through.  If in addition no output is spent twice, it
\* accepts exactly what is funded (transaction.rs:58-159).
AcceptsOnlyOwned ==
    \A tx \in Candidates :
        /\ Valid(tx) => WellFormed(tx) /\ OwnsInputs(tx)
        /\ SpendsOnce(tx) =>
             (Valid(tx) <=> WellFormed(tx) /\ OwnsInputs(tx) /\ (tx.coinbase \/ Funded(tx)))

\* transaction.rs:80, "conservation law": a transaction creates no more than the
\* outputs it spends hold.
ConservesValue == \A tx \in Candidates : Valid(tx) => tx.coinbase \/ Funded(tx)

\* A transaction that is valid once stays valid, whatever arrives and whichever
\* text of a parent two racing sessions leave in the database: the second pass of
\* validate_transaction reads the store again and relies on it
\* (transaction.rs:138, 146).
ValidStaysValid ==
    [][Store' # Store => \A tx \in Candidates : Valid(tx) => Valid(tx)']_vars
=============================================================================
