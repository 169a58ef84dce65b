------------------------------ MODULE MCFraming -------------------------------
(***************************************************************************)
(* read_frame over every shape of line around the size limit: one state    *)
(* per frame, and the step that reads it.                                  *)
(***************************************************************************)
EXTENDS Framing

CONSTANT
    Sizes      \* the sizes of the lines

ASSUME SizesAssumption == Sizes \subseteq Nat

VARIABLES
    frame,     \* the next line of the stream
    result     \* what read_frame returned for it, or "unread"

frameVars == <<frame, result>>

\* The sizes between which read_frame's test on the limit tells: a value for Sizes.
SizesAroundLimit == {RECV_BUFFER_LIMIT - 1, RECV_BUFFER_LIMIT}

FrameInit ==
    /\ frame \in [bytes : Sizes, text : LineText, type : MessageType \cup {NoType},
                  keys : SUBSET FieldName, typed : BOOLEAN] \cup {Eof}
    /\ frame.text # "line" => frame.type = NoType
    /\ frame.type = NoType => frame.keys = {} /\ ~frame.typed
    /\ frame.type # NoType => "type" \in frame.keys
    /\ result = "unread"

Read ==
    /\ result = "unread"
    /\ result' = read_frame(frame)
    /\ UNCHANGED frame

FrameSpec == FrameInit /\ [][Read]_frameVars

-----------------------------------------------------------------------------
(* Properties *)

\* What read_frame accepts is exactly what the repository calls a valid frame:
\* below the limit, with the fields of its type, all of them and no others
\* ("deny unknown fields in *any* variant", message.rs:6), object messages left
\* aside.  It takes both filters: serde alone ignores the keys of GetPeers.
AcceptsExactly ==
    result # "unread" /\ frame.type \notin ObjectType =>
        (result \notin ReadError <=>
            /\ frame.text = "line" /\ frame.type # NoType
            /\ frame.bytes < RECV_BUFFER_LIMIT
            /\ frame.keys = {"type"} \cup Fields[frame.type]
            /\ frame.typed \/ Fields[frame.type] = {})

\* What write_frame produces below the limit is read back as the same message,
\* for the messages of the handshake and of peer discovery.
DiscoveryRoundTrips ==
    \A t \in MessageType \ ObjectType :
        frame = write_frame(t, frame.bytes) /\ frame.bytes < RECV_BUFFER_LIMIT
            => result \in {"unread", t}

\* framing.rs:31, "if unknown type, we'll turn it into Message::Unknown but
\* still reject any extra keys": the last arm of the table is for types that
\* Message does not have, so a known type is read back like any other.
KnownTypesRoundTrip ==
    \A t \in MessageType :
        frame = write_frame(t, frame.bytes) /\ frame.bytes < RECV_BUFFER_LIMIT
            => result \in {"unread", t}
=============================================================================
