------------------------------- MODULE Framing --------------------------------
(***************************************************************************)
(* framing.rs: one JSON object per line.  A message is known by its type,  *)
(* and a frame by what read_frame looks at: how many bytes its line has,   *)
(* whether those that read_line takes are UTF-8, whether the line is       *)
(* blank, whether it is a JSON object with a type, which keys it has, and  *)
(* whether the values have the types that serde expects.                   *)
(***************************************************************************)
EXTENDS Naturals

CONSTANT
    RECV_BUFFER_LIMIT    \* bytes read_frame takes from the stream

ASSUME FramingAssumption == RECV_BUFFER_LIMIT \in Nat \ {0}

\* The variants of Message and their fields (message.rs).  Unknown stands for
\* every other value of "type".
Fields == [
    Hello     |-> {"port", "user_agent"},
    Peers     |-> {"peers"},
    GetPeers  |-> {},
    GetObject |-> {"object_id"},
    GotObject |-> {"object_id"},
    Object    |-> {"object_id", "object"},
    Error     |-> {"name", "msg"},
    Unknown   |-> {} ]

MessageType == DOMAIN Fields

\* The types that only the object exchange uses.
ObjectType == {"GetObject", "GotObject", "Object"}

\* Io: read_line fails.
ReadError == {"InvalidFormat", "OversizedFrame", "ConnectionClosed", "Io"}

NoType == "none"

\* "extra" stands for any key that no variant has.
FieldName == (UNION {Fields[t] : t \in MessageType}) \cup {"type", "extra"}

\* What read_line makes of the bytes it takes.  They may stop being UTF-8 where
\* the limit cuts a character in two.
LineText == {"line", "blank", "notUtf8"}

\* The shapes a line can have.  A line that is no JSON object with a string
\* under "type" has type NoType.
Frame == [bytes : Nat, text : LineText, type : MessageType \cup {NoType},
          keys : SUBSET FieldName, typed : BOOLEAN]

-----------------------------------------------------------------------------
\* Mutants of AllowedKeys: no key is refused for a type without fields; a field
\* is missing from the table.
AllowedKeysLax(t) ==
    IF Fields[t] = {} THEN FieldName ELSE {"type"} \cup Fields[t]

AllowedKeysShort(t) ==
    IF t \in {"GetPeers", "Peers", "Error"} THEN {"type"} \cup Fields[t] ELSE {"type", "port"}

\* read_frame's table of keys by type.
AllowedKeys(t) ==
    IF t \in {"Hello", "GetPeers", "Peers", "Error"}
    THEN {"type"} \cup Fields[t]
    ELSE {"type"}

\* serde_json::from_value::<Message>: a variant must have all of its fields,
\* with the right types, and no other (deny_unknown_fields); serde does not look
\* at the keys of a variant without fields.
Decode(f) ==
    IF Fields[f.type] = {} \/ (f.keys = {"type"} \cup Fields[f.type] /\ f.typed)
    THEN f.type
    ELSE "InvalidFormat"

\* The message type or the ProtocolError that read_frame returns.
read_frame(f) ==
    IF f.text = "notUtf8" THEN "Io"
    ELSE IF f.bytes >= RECV_BUFFER_LIMIT THEN "OversizedFrame"
    ELSE IF f.text = "blank" THEN "ConnectionClosed"
    ELSE IF f.type = NoType THEN "InvalidFormat"
    ELSE IF ~(f.keys \subseteq AllowedKeys(f.type)) THEN "InvalidFormat"
    ELSE Decode(f)

\* The line write_frame produces for a message of type t; it has no limit on
\* its size.
write_frame(t, size) ==
    [bytes |-> size, text |-> "line", type |-> t, keys |-> {"type"} \cup Fields[t], typed |-> TRUE]

\* End of stream: read_line returns an empty line.
Eof == [bytes |-> 0, text |-> "blank", type |-> NoType, keys |-> {}, typed |-> FALSE]
=============================================================================
