----------------------------- MODULE PeerAddress ------------------------------
(***************************************************************************)
(* peerlist.rs and the line format of peers.rs: a peer is a host and a     *)
(* port, written "host:port" where it is entered and shown, and "host,port" *)
(* in peers.csv.  A text is a sequence of tokens, words and separators, in *)
(* which two words are never adjacent.                                     *)
(*                                                                         *)
(* Hosts that arrive in Peers messages are not checked by anything and may *)
(* hold every token.                                                       *)
(***************************************************************************)
EXTENDS Naturals, Sequences, SequencesExt

\* An IPv4 address, a name, a number of 16 bits with and without a sign in front,
\* and a number that is too large for a port.
Word == {"127.0.0.1", "name", "80", "+80", "65536"}
Separator == {"colon", "comma", "space", "newline"}

Token == Word \cup Separator

IsText(t) == \A i \in 2..Len(t) : t[i] \in Word => t[i - 1] \notin Word

Blank == {"space", "newline"}

\* str::trim: from the first to the last token that is not blank.
FirstSolid(t) == SelectInSeq(t, LAMBDA c : c \notin Blank)
LastSolid(t) == SelectLastInSeq(t, LAMBDA c : c \notin Blank)
trim(t) == IF FirstSolid(t) = 0 THEN <<>> ELSE SubSeq(t, FirstSolid(t), LastSolid(t))

NoPort == 65536

\* str::parse::<u16>
parse_port(t) == IF t \in {<<"80">>, <<"+80">>} THEN 80 ELSE NoPort

\* Mutant of is_valid_dns_name: every name is one.
is_any_name(host) == TRUE

\* TODO in the code: names are not supported yet.
is_valid_dns_name(host) == FALSE

Peer(host, port) == [host |-> host, port |-> port]

\* Where rsplit_once splits.
LastColon(t) == SelectLastInSeq(t, LAMBDA c : c = "colon")

\* impl TryFrom<&str> for Peer: a peer or a PeerParseError.
try_from(t) ==
    LET value == trim(t)
        colon == LastColon(value)
        host == SubSeq(value, 1, colon - 1)
        port == parse_port(SubSeq(value, colon + 1, Len(value)))
    IN  IF colon = 0 THEN [error |-> "MissingSeparator"]
        ELSE IF port = NoPort THEN [error |-> "InvalidPort"]
        ELSE IF host = <<"127.0.0.1">> THEN Peer(host, port)
        ELSE IF is_valid_dns_name(host) THEN Peer(trim(host), port)
        ELSE [error |-> "InvalidHostname"]

Accepted(t) == "host" \in DOMAIN try_from(t)

\* impl Display for Peer.
to_string(p) == p.host \o <<"colon", "80">>

\* The line append_peer writes.
Line(p) == p.host \o <<"comma", "80">>

\* BufReader::lines; an empty line holds no peer and is left out.
IsLine(t, i, j) ==
    /\ i <= j
    /\ \A k \in i..j : t[k] # "newline"
    /\ i = 1 \/ t[i - 1] = "newline"
    /\ j = Len(t) \/ t[j + 1] = "newline"

Lines(t) ==
    {SubSeq(t, r[1], r[2]) : r \in {r \in (1..Len(t)) \X (1..Len(t)) : IsLine(t, r[1], r[2])}}

\* Mutant of HostOf: the host is not trimmed.
HostAsIs(field) == field

HostOf(field) == trim(field)

\* line.split(','): the text before the first comma and the text between the first
\* two commas.
Comma(t) == SelectInSeq(t, LAMBDA c : c = "comma")
FirstField(t) == IF Comma(t) = 0 THEN t ELSE SubSeq(t, 1, Comma(t) - 1)
SecondField(t) == FirstField(SubSeq(t, Comma(t) + 1, Len(t)))

\* The peers load_from_disk finds in a file: the first two fields of each line.
load_from_disk(t) ==
    LET entries == {e \in {trim(l) : l \in Lines(t)} :
                        Comma(e) # 0 /\ parse_port(SecondField(e)) # NoPort}
    IN  {Peer(HostOf(FirstField(e)), parse_port(SecondField(e))) : e \in entries}
=============================================================================
