----------------------------- MODULE Transaction ------------------------------
(***************************************************************************)
(* transaction.rs: validate_transaction as an operator.  A transaction is  *)
(* a record with the fields of the Rust struct; an input's signature is    *)
(* the key that made it, over this very transaction, or Malformed; an      *)
(* output's public key is a key or Malformed.  Sums are taken in u128 over *)
(* u64 values and cannot overflow with fewer than 2^64 inputs.             *)
(*                                                                         *)
(* `store` stands for ObjectStore::get followed by the parsing of what it  *)
(* returns: a function from identifiers to a transaction, NoTx for bytes   *)
(* that hold none, Missing for Ok(None), or Failed for Err.                *)
(***************************************************************************)
EXTENDS Naturals, Sequences

LOCAL INSTANCE Functions

CONSTANTS
    NoTx,        \* an object that is no transaction
    Missing,     \* the store does not hold the object
    Failed,      \* the store returned an error
    Malformed    \* a signature or a public key that is not one

\* The error of the first element of a sequence of results that is one, or Ok:
\* what a loop over the inputs returns with ?.
FirstError(results) ==
    LET errors == {i \in DOMAIN results : results[i] # "Ok"}
    IN  IF errors = {} THEN "Ok" ELSE results[CHOOSE i \in errors : \A j \in errors : i <= j]

\* The output an input refers to; input.outpoint.index counts from 0.
Spent(input, store) == store[input.txid].outputs[input.index + 1]

\* First pass: the outpoint must exist.
ResolveOutpoint(input, store) ==
    LET parent == store[input.txid]
    IN  CASE parent = Failed  -> "UnknownObject"
          [] parent = Missing -> "InvalidOutpoint"
          [] parent = NoTx    -> "InvalidFormat"
          [] OTHER -> IF input.index >= Len(parent.outputs) THEN "InvalidOutpoint" ELSE "Ok"

\* Mutant of VerifySignature: nothing is verified.
VerifyNothing(input, store) == "Ok"

\* Second pass: the owner of the output must have signed.
VerifySignature(input, store) ==
    IF Spent(input, store).pubkey = Malformed THEN "InvalidFormat"
    ELSE IF input.sig # Spent(input, store).pubkey THEN "InvalidSignature"
    ELSE "Ok"

SumOutputs(tx) == SumFunction([i \in DOMAIN tx.outputs |-> tx.outputs[i].value])

\* One term per input, whether or not two of them name the same outpoint.
SumInputs(tx, store) ==
    SumFunction([i \in DOMAIN tx.inputs |-> Spent(tx.inputs[i], store).value])

\* A transaction with a height is a coinbase.
validate_transaction(tx, store) ==
    LET resolved == FirstError([i \in DOMAIN tx.inputs |-> ResolveOutpoint(tx.inputs[i], store)])
        verified == FirstError([i \in DOMAIN tx.inputs |-> VerifySignature(tx.inputs[i], store)])
    IN  IF tx = NoTx THEN "InvalidFormat"
        ELSE IF tx.coinbase
        THEN IF tx.inputs # <<>> \/ tx.outputs = <<>> THEN "InvalidFormat" ELSE "Ok"
        ELSE IF tx.inputs = <<>> \/ tx.outputs = <<>> THEN "InvalidFormat"
        ELSE IF resolved # "Ok" THEN resolved
        ELSE IF SumInputs(tx, store) < SumOutputs(tx) THEN "InvalidConservation"
        ELSE verified
=============================================================================
