------------------------------ MODULE MCPayloads ------------------------------
(***************************************************************************)
(* What a node makes of what it is sent: the database of MCObjects and, in *)
(* states of their own, everything it parses: the frames of MCFraming, the *)
(* addresses of MCAddress, and documents, whose canonical forms are        *)
(* compared with each other.                                               *)
(***************************************************************************)
EXTENDS MCObjects, MCFraming, Canonical, MCAddress, TLC

LOCAL INSTANCE SequencesExt

VARIABLE
    input    \* <<"object">>, <<"frame">>, <<"address">>, <<"document", d>> or <<"transaction", d>>

MCAlphabet == <<"a", "b", "inputs", "object", "outpoint", "sig">>

\* Two spellings of the string a, and another atom.
MCWritten == ("a" :> "a") @@ ("\\u0061" :> "a") @@ ("1" :> "1") @@ ("" :> "")

-----------------------------------------------------------------------------
(* Documents *)

Objects(keys, values, n) == {Obj(m) : m \in SeqOf(keys \X values, n)}

Flat ==
    LET atoms == {Atom("a"), Atom("\\u0061")}
    IN  atoms \cup {Arr(s) : s \in SeqOf({Atom("a")}, 2)} \cup Objects({"a", "b"}, {Atom("a")}, 2)

\* Arrays and objects, with keys that occur twice, in and out of order.
Documents == Flat \cup {Arr(s) : s \in SeqOf(Flat, 2)} \cup Objects({"a", "b"}, Flat, 2)

\* Wrapped transactions that differ in their inputs, and in a "sig" elsewhere.
Transactions ==
    LET one == {Atom("a")} \cup Objects({"sig", "outpoint"}, {Atom("a"), Atom("1")}, 2)
        inputs == {Atom("a")} \cup {Arr(s) : s \in SeqOf(one, 1) \cup (one \X Objects({"sig"}, {Atom("1")}, 1))}
    IN  {Obj(<<<<"object", Obj(<<<<"inputs", i>>>> \o s)>>>>) :
            i \in inputs, s \in {<<>>, <<<<"sig", Atom("a")>>>>, <<<<"sig", Atom("1")>>>>}}

\* What a document means: objects are functions, atoms are what they spell.
RECURSIVE Meaning(_)
Meaning(v) ==
    CASE v[1] = "array" -> <<"array", [i \in DOMAIN v[2] |-> Meaning(v[2][i])]>>
      [] v[1] = "object" -> <<"object", [key \in Keys(v) |-> Meaning(Get(v, key))]>>
      [] OTHER -> <<"atom", Written[v[2]]>>

\* The meaning of a wrapped transaction, its inputs without their "sig".
Unsigned(v) ==
    LET tx == Meaning(Get(v, "object"))[2]
        Without(i) == IF i[1] = "object" THEN <<"object", [k \in DOMAIN i[2] \ {"sig"} |-> i[2][k]]>>
                      ELSE i
    IN  IF tx["inputs"][1] # "array" THEN tx
        ELSE [tx EXCEPT !["inputs"] = <<"array", [n \in DOMAIN @[2] |-> Without(@[2][n])]>>]

\* The two sides of the comparison, computed once.
Ids == [d \in Documents |-> compute_object_id(d)]
Meanings == [d \in Documents |-> Meaning(d)]
SignedTexts == [d \in Transactions |-> canon_sig_obj(d)]
UnsignedMeanings == [d \in Transactions |-> Unsigned(d)]

-----------------------------------------------------------------------------
NoFrame == frame = Eof /\ result = "unread"
NoAddress == address = <<>>

\* Objects arrive one after the other; anything else is parsed next to a database
\* without a table.
PayloadInit ==
    /\ Init
    /\ \/ input = <<"object">> /\ NoFrame /\ NoAddress
       \/ input = <<"frame">> /\ FrameInit /\ NoAddress /\ ~table
       \/ input = <<"address">> /\ AddressInit /\ NoFrame /\ ~table
       \/ /\ input \in {<<"document", d>> : d \in Documents}
                         \cup {<<"transaction", d>> : d \in Transactions}
          /\ NoFrame /\ NoAddress /\ ~table

\* A frame is read by a step; addresses and documents are evaluated as they are.
PayloadNext ==
    \/ input = <<"object">> /\ Next /\ UNCHANGED <<frameVars, address, input>>
    \/ input = <<"frame">> /\ Read /\ UNCHANGED <<vars, address, input>>

PayloadSpec == PayloadInit /\ [][PayloadNext]_<<vars, frameVars, address, input>>

-----------------------------------------------------------------------------
(* Properties *)

\* dispatch.rs:89, 91: an identifier names what a document says and not how it is
\* written.  The identifiers of two documents are the same exactly when the
\* documents mean the same, whatever the order of the keys, a repeated key or an
\* escaped character (canonical.rs:6-50).
IdNamesMeaning ==
    input[1] = "document" =>
        \A d \in Documents : Ids[d] = Ids[input[2]] <=> Meanings[d] = Meanings[input[2]]

\* transaction.rs:117-134: the signatures of a transaction cover everything but
\* the signatures.  Two transactions are signed alike exactly when they differ in
\* the "sig" of their inputs at most; a "sig" anywhere else is covered.
SignatureCoversRest ==
    input[1] = "transaction" =>
        \A d \in Transactions :
            SignedTexts[d] = SignedTexts[input[2]] <=> UnsignedMeanings[d] = UnsignedMeanings[input[2]]
=============================================================================
