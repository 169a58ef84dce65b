------------------------------ MODULE Canonical -------------------------------
(***************************************************************************)
(* canonical.rs: the canonical form of a JSON document, and what is hashed *)
(* and signed with it.  The text of a canonical form is a sequence of      *)
(* tokens: brackets, separators, and keys and atoms as serde_json writes   *)
(* them.                                                                   *)
(*                                                                         *)
(* A document is an atom (a string, a number, true...), an array, or an    *)
(* object with its members in the order of the text.  A key may occur      *)
(* twice: serde_json keeps the last value.  The order in which serde_json  *)
(* iterates over the members of a Map depends on how it is built; here it  *)
(* is that of the text.                                                    *)
(***************************************************************************)
EXTENDS Naturals, Sequences

LOCAL INSTANCE SequencesExt

CONSTANTS
    Alphabet,   \* the keys, in the order of their bytes
    Written     \* how serde_json writes an atom, for every way to spell it

Atom(spelling) == <<"atom", spelling>>
Arr(elements) == <<"array", elements>>
Obj(members) == <<"object", members>>
IsObject(v) == v[1] = "object"

\* The value of a key of an object: the last one in the text.
Get(v, key) == v[2][SelectLastInSeq(v[2], LAMBDA m : m[1] = key)][2]

Keys(v) == {v[2][i][1] : i \in DOMAIN v[2]}

Has(v, key) == IsObject(v) /\ key \in Keys(v)

\* insert: an entry with the key is replaced.
Insert(v, key, value) == Obj(SelectSeq(v[2], LAMBDA m : m[1] # key) \o <<<<key, value>>>>)

-----------------------------------------------------------------------------
(* to_canonical_json *)

\* Mutant of SortedKeys: the keys stay in the order of the Map.
UnsortedKeys(v) ==
    SelectSeq([i \in DOMAIN v[2] |-> IF \E j \in 1..i - 1 : v[2][j][1] = v[2][i][1]
                                     THEN "" ELSE v[2][i][1]],
              LAMBDA key : key # "")

\* entries.sort_by_key
SortedKeys(v) == SelectSeq(Alphabet, LAMBDA key : key \in Keys(v))

\* The parts with a comma before each but the first.
Separated(parts) ==
    FlattenSeq([i \in DOMAIN parts |-> IF i > 1 THEN <<",">> \o parts[i] ELSE parts[i]])

RECURSIVE to_canonical_json(_)
to_canonical_json(v) ==
    CASE v[1] = "array" ->
            <<"[">> \o Separated([i \in DOMAIN v[2] |-> to_canonical_json(v[2][i])]) \o <<"]">>
      [] v[1] = "object" ->
            LET keys == SortedKeys(v)
            IN  <<"{">> \o Separated([i \in DOMAIN keys |->
                                         <<keys[i], ":">> \o to_canonical_json(Get(v, keys[i]))])
                        \o <<"}">>
      [] OTHER -> <<Written[v[2]]>>

\* The object must be wrapped: {"object": {...}, ...}.
ensure_object_field(v) == Has(v, "object") /\ IsObject(Get(v, "object"))

\* The hash is taken to be injective: an identifier stands for what was hashed.
compute_object_id(v) == <<"blake2s", to_canonical_json(v)>>

-----------------------------------------------------------------------------
(* What the signatures of a transaction sign *)

\* Mutant of BlankSig: the signatures are signed as well.
KeepSig(input) == input

\* An input without its signature.
BlankSig(input) == IF IsObject(input) THEN Insert(input, "sig", Atom("")) ELSE input

\* sig_obj of validate_transaction.
sig_obj(v) ==
    IF ensure_object_field(v) /\ Has(Get(v, "object"), "inputs")
    THEN LET tx == Get(v, "object")
             inputs == Get(tx, "inputs")
         IN  IF inputs[1] # "array" THEN v
             ELSE Insert(v, "object",
                      Insert(tx, "inputs", Arr([i \in DOMAIN inputs[2] |-> BlankSig(inputs[2][i])])))
    ELSE v

canon_sig_obj(v) == to_canonical_json(sig_obj(v))
=============================================================================
