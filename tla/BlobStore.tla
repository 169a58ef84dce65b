------------------------------ MODULE BlobStore -------------------------------
(***************************************************************************)
(* What the object store promises (api.rs:3, "A simple content-addressable *)
(* blob store"), without a table that may be absent and without messages:  *)
(* a text is stored at once, under the identifier of the object it is a    *)
(* text of, nothing is ever removed, and a reader is given what is stored. *)
(***************************************************************************)
CONSTANTS
    Id,          \* object identifiers
    Text,        \* texts of objects
    ObjectId,    \* the identifier of each text; not in Id if it has none
    None,        \* no text
    Session      \* readers

VARIABLES
    blobs,    \* the text stored under an identifier, or None
    read      \* the text a reader was given last, or None

Init ==
    /\ blobs = [i \in Id |-> None]
    /\ read = [s \in Session |-> None]

\* A text that has an identifier is stored under it.
Put(x) ==
    /\ ObjectId[x] \in Id
    /\ blobs' = [blobs EXCEPT ![ObjectId[x]] = x]
    /\ UNCHANGED read

\* A reader is given what the store holds under i at this moment.
Get(s, i) ==
    /\ blobs[i] # None
    /\ read' = [read EXCEPT ![s] = blobs[i]]
    /\ UNCHANGED blobs

\* A reader turns to something else.
Leave(s) ==
    /\ read' = [read EXCEPT ![s] = None]
    /\ UNCHANGED blobs

Next ==
    \/ \E x \in Text : Put(x)
    \/ \E s \in Session : Leave(s) \/ \E i \in Id : Get(s, i)

Spec == Init /\ [][Next]_<<blobs, read>>
=============================================================================
