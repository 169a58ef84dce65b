------------------------------ MODULE WireProofs ------------------------------
(***************************************************************************)
(* Proofs about what a node reads: read_frame and write_frame, for any     *)
(* limit and lines of any size; addresses, and hosts in peers.csv, of any  *)
(* length.                                                                 *)
(***************************************************************************)
EXTENDS MCFraming, MCAddress, SequenceTheorems, WellFoundedInduction, TLAPS

-----------------------------------------------------------------------------
(* Frames *)

\* The lines read_line can return.
WellFormed(f) ==
    /\ f \in Frame
    /\ f.text # "line" => f.type = NoType
    /\ f.type = NoType => f.keys = {}
    /\ f.type # NoType => "type" \in f.keys

\* The fields of a variant are keys of their own, not "type".
LEMMA FieldTable ==
    /\ MessageType = {"Hello", "Peers", "GetPeers", "GetObject", "GotObject", "Object", "Error", "Unknown"}
    /\ NoType \notin MessageType
    /\ MessageType \cap ReadError = {}
    /\ \A t \in MessageType : Fields[t] \subseteq FieldName /\ "type" \notin Fields[t]
<1>1. MessageType = {"Hello", "Peers", "GetPeers", "GetObject", "GotObject", "Object", "Error", "Unknown"}
  BY DEF MessageType, Fields
<1>2. \A t \in MessageType : Fields[t] \subseteq FieldName
  BY DEF FieldName
<1>3. \A t \in MessageType : "type" \notin Fields[t]
  BY <1>1 DEF Fields
<1> QED
  BY <1>1, <1>2, <1>3 DEF NoType, ReadError

\* Apart from object messages the table of keys allows "type" and the fields.
LEMMA TableIsFields ==
    ASSUME NEW t \in MessageType \ ObjectType
    PROVE  AllowedKeys(t) = {"type"} \cup Fields[t]
<1>1. t = "Unknown" \/ t \in {"Hello", "GetPeers", "Peers", "Error"}
  BY FieldTable DEF ObjectType
<1>2. Fields["Unknown"] = {}
  BY DEF Fields
<1> QED
  BY <1>1, <1>2 DEF AllowedKeys

\* What it takes for read_frame to return a message: the limit, the table of keys
\* and serde together, for a line of any size.
LEMMA ReadsExactly ==
    ASSUME NEW f, WellFormed(f), f.type \notin ObjectType
    PROVE  /\ read_frame(f) \in ReadError \cup {f.type}
           /\ read_frame(f) \notin ReadError <=>
                 /\ f.text = "line" /\ f.type # NoType
                 /\ f.bytes < RECV_BUFFER_LIMIT
                 /\ f.keys = {"type"} \cup Fields[f.type]
                 /\ f.typed \/ Fields[f.type] = {}
<1>1. /\ f.bytes \in Nat /\ f.text \in {"line", "blank", "notUtf8"}
      /\ f.type \in MessageType \cup {NoType} /\ f.typed \in BOOLEAN
  BY DEF WellFormed, Frame, LineText
<1>2. CASE f.type = NoType
  BY <1>2 DEF read_frame, ReadError, NoType
<1>3. CASE f.type # NoType
  <2>1. f.type \in MessageType /\ f.text = "line" /\ "type" \in f.keys /\ f.type \notin ReadError
    BY <1>1, <1>3, FieldTable DEF WellFormed
  <2>2. AllowedKeys(f.type) = {"type"} \cup Fields[f.type]
    BY <2>1, TableIsFields
  <2>3. CASE f.bytes >= RECV_BUFFER_LIMIT
    BY <1>1, <2>1, <2>3, FramingAssumption DEF read_frame, ReadError
  <2>4. CASE ~(f.bytes >= RECV_BUFFER_LIMIT) /\ ~(f.keys \subseteq AllowedKeys(f.type))
    BY <1>3, <2>1, <2>2, <2>4 DEF read_frame, ReadError
  <2>5. CASE ~(f.bytes >= RECV_BUFFER_LIMIT) /\ f.keys \subseteq AllowedKeys(f.type)
    <3>1. read_frame(f) = Decode(f) /\ f.bytes < RECV_BUFFER_LIMIT
      BY <1>1, <1>3, <2>1, <2>5, FramingAssumption DEF read_frame
    <3>2. CASE Fields[f.type] = {}
      <4>1. f.keys = {"type"}
        BY <2>1, <2>2, <2>5, <3>2
      <4> QED
        BY <1>3, <2>1, <3>1, <3>2, <4>1 DEF Decode
    <3>3. CASE Fields[f.type] # {}
      BY <1>3, <2>1, <3>1, <3>3 DEF Decode, ReadError
    <3> QED
      BY <3>2, <3>3
  <2> QED
    BY <2>3, <2>4, <2>5
<1> QED
  BY <1>2, <1>3

\* A message of the handshake or of peer discovery is read back below the limit.
LEMMA ReadsBack ==
    ASSUME NEW t \in MessageType \ ObjectType, NEW n \in Nat, n < RECV_BUFFER_LIMIT
    PROVE  read_frame(write_frame(t, n)) = t
<1> DEFINE f == write_frame(t, n)
<1>1. f.bytes = n /\ f.text = "line" /\ f.type = t /\ f.keys = {"type"} \cup Fields[t] /\ f.typed = TRUE
  BY DEF write_frame
<1>2. f \in Frame
  BY FieldTable DEF write_frame, Frame, LineText, FieldName
<1>3. WellFormed(f)
  BY <1>1, <1>2, FieldTable DEF WellFormed
<1>4. read_frame(f) \in ReadError \cup {t} /\ read_frame(f) \notin ReadError
  BY <1>1, <1>3, FieldTable, ReadsExactly
<1> QED
  BY <1>4

-----------------------------------------------------------------------------
\* The line is one that read_line can return, and it was read by read_frame.
FrameInv ==
    /\ WellFormed(frame)
    /\ result = "unread" \/ result = read_frame(frame)

LEMMA FrameInvariant == FrameSpec => []FrameInv
<1>1. FrameInit => FrameInv
  <2> SUFFICES ASSUME FrameInit PROVE FrameInv
    OBVIOUS
  <2>1. Eof \in Frame
    BY DEF Eof, Frame, LineText
  <2>2. frame \in Frame
    BY <2>1, SizesAssumption DEF FrameInit, Frame
  <2> QED
    BY <2>2 DEF FrameInit, FrameInv, WellFormed
<1>2. FrameInv /\ [Read]_frameVars => FrameInv'
  BY DEF FrameInv, Read, frameVars
<1> QED
  BY <1>1, <1>2, PTL DEF FrameSpec

\* read_frame accepts exactly the well-formed messages of the handshake and of peer
\* discovery, for every limit and every size of a line.
THEOREM ReadFrameIsExact == FrameSpec => []AcceptsExactly
<1>1. FrameInv => AcceptsExactly
  BY ReadsExactly DEF FrameInv, AcceptsExactly
<1> QED
  BY <1>1, FrameInvariant, PTL

\* What write_frame produces below the limit is read back, for every limit.
THEOREM WrittenIsReadBack == FrameSpec => []DiscoveryRoundTrips
<1>1. ASSUME FrameInv, NEW t \in MessageType \ ObjectType,
             frame = write_frame(t, frame.bytes), frame.bytes < RECV_BUFFER_LIMIT
      PROVE  result \in {"unread", t}
  <2>1. frame.bytes \in Nat
    BY <1>1 DEF FrameInv, WellFormed, Frame
  <2> QED
    BY <1>1, <2>1, ReadsBack DEF FrameInv
<1>2. FrameInv => DiscoveryRoundTrips
  BY <1>1 DEF DiscoveryRoundTrips
<1> QED
  BY <1>2, FrameInvariant, PTL

-----------------------------------------------------------------------------
(* The parts of a text *)

\* There is a first among finitely or infinitely many positions.
LEMMA HasFirst ==
    ASSUME NEW S, S \subseteq Nat, S # {}
    PROVE  \E i \in S : \A j \in S : i <= j
<1> DEFINE R == OpToRel(<, Nat)
<1>1. PICK i \in S : \A j \in S : ~(<<j, i>> \in R)
  BY NatLessThanWellFounded, WFMin
<1>2. \A j \in S : ~(j < i)
  BY <1>1 DEF OpToRel
<1> QED
  BY <1>2

\* Among positions up to n there are a first and a last one.
LEMMA HasEnds ==
    ASSUME NEW n \in Nat, NEW S, S \subseteq 1..n, S # {}
    PROVE  /\ Min(S) \in S /\ \A j \in S : Min(S) <= j
           /\ Max(S) \in S /\ \A j \in S : j <= Max(S)
<1>0. S \subseteq Nat
  OBVIOUS
<1>1. \E i \in S : \A j \in S : i <= j
  BY <1>0, HasFirst
<1>2. \E i \in S : \A j \in S : i >= j
  <2> DEFINE D == {d \in Nat : \E j \in S : d = n - j}
  <2>1. D \subseteq Nat
    OBVIOUS
  <2>2. \A j \in S : n - j \in D
    OBVIOUS
  <2>3. D # {}
    BY <2>2
  <2>4. PICK d \in D : \A e \in D : d <= e
    BY <2>1, <2>3, HasFirst
  <2>5. PICK i \in S : d = n - i
    OBVIOUS
  <2>6. ASSUME NEW j \in S
        PROVE  i >= j
    <3>1. d <= n - j
      BY <2>2, <2>4
    <3> QED
      BY <2>5, <3>1
  <2> QED
    BY <2>6
<1>3. Min(S) \in S /\ \A j \in S : Min(S) <= j
  BY <1>1 DEF Min
<1>4. Max(S) \in S /\ \A j \in S : Max(S) >= j
  BY <1>2 DEF Max
<1> QED
  BY <1>0, <1>3, <1>4

\* str::trim: what is left begins and ends with the first and the last token that is
\* not blank.
LEMMA TrimIs ==
    ASSUME NEW t \in Seq(Token), \E i \in 1..Len(t) : t[i] \notin Blank
    PROVE  \E a, b \in 1..Len(t) :
              /\ a <= b /\ t[a] \notin Blank /\ t[b] \notin Blank
              /\ \A i \in 1..Len(t) : i < a \/ b < i => t[i] \in Blank
              /\ trim(t) = SubSeq(t, a, b)
<1> DEFINE I == {i \in 1..Len(t) : t[i] \notin Blank}
           a == FirstSolid(t)
           b == LastSolid(t)
<1>1. Len(t) \in Nat /\ I # {} /\ I \subseteq 1..Len(t)
  OBVIOUS
<1>2. /\ Min(I) \in I /\ \A j \in I : Min(I) <= j
      /\ Max(I) \in I /\ \A j \in I : j <= Max(I)
  BY <1>1, HasEnds
<1>3. a = Min(I) /\ b = Max(I)
  BY <1>1 DEF FirstSolid, LastSolid, SelectInSeq, SelectLastInSeq
<1>4. a \in I /\ b \in I /\ \A j \in I : a <= j /\ j <= b
  BY <1>2, <1>3
<1> HIDE DEF a, b
<1>5. trim(t) = SubSeq(t, a, b)
  <2>1. a # 0
    BY <1>4
  <2> QED
    BY <2>1, Zenon DEF trim, a, b
<1>6. \A i \in 1..Len(t) : i < a \/ b < i => t[i] \in Blank
  BY <1>4
<1> QED
  BY <1>4, <1>5, <1>6

\* Of a text of blanks nothing is left.
LEMMA TrimBlank ==
    ASSUME NEW t \in Seq(Token), \A i \in 1..Len(t) : t[i] \in Blank
    PROVE  trim(t) = <<>>
  BY DEF trim, FirstSolid, SelectInSeq

\* The first comma.
LEMMA CommaIs ==
    ASSUME NEW t \in Seq(Token)
    PROVE  /\ Comma(t) \in 0..Len(t)
           /\ Comma(t) = 0 => \A i \in 1..Len(t) : t[i] # "comma"
           /\ Comma(t) # 0 => t[Comma(t)] = "comma" /\ \A i \in 1..Len(t) : i < Comma(t) => t[i] # "comma"
<1> DEFINE I == {i \in 1..Len(t) : t[i] = "comma"}
<1>1. Len(t) \in Nat /\ I \subseteq 1..Len(t)
  OBVIOUS
<1>2. Comma(t) = IF I # {} THEN Min(I) ELSE 0
  BY DEF Comma, SelectInSeq
<1>3. CASE I = {}
  BY <1>1, <1>2, <1>3
<1>4. CASE I # {}
  <2>1. Min(I) \in I /\ \A j \in I : Min(I) <= j
    BY <1>1, <1>4, HasEnds
  <2>2. Comma(t) \in I /\ \A j \in I : Comma(t) <= j
    BY <1>2, <1>4, <2>1
  <2> QED
    BY <1>1, <2>2
<1> QED
  BY <1>3, <1>4

\* A part of a text is a text.
LEMMA PartIs ==
    ASSUME NEW t \in Seq(Token), NEW a \in 1..Len(t) + 1, NEW b \in 0..Len(t), a <= b + 1
    PROVE  /\ SubSeq(t, a, b) \in Seq(Token)
           /\ Len(SubSeq(t, a, b)) = b - a + 1
           /\ \A i \in 1..b - a + 1 : SubSeq(t, a, b)[i] = t[a + i - 1]
<1>1. \A i \in a..b : t[i] \in Token
  OBVIOUS
<1> QED
  BY <1>1, SubSeqProperties

\* No blank at either end.
Trimmed(t) == t = <<>> \/ (t[1] \notin Blank /\ t[Len(t)] \notin Blank)

\* trim yields a text without blanks around it, made of tokens of the text, and
\* leaves exactly such texts alone.
LEMMA TrimTrims ==
    ASSUME NEW t \in Seq(Token)
    PROVE  /\ trim(t) \in Seq(Token)
           /\ Trimmed(trim(t))
           /\ \A i \in 1..Len(trim(t)) : \E j \in 1..Len(t) : trim(t)[i] = t[j]
           /\ Trimmed(t) => trim(t) = t
<1>1. CASE \A i \in 1..Len(t) : t[i] \in Blank
  <2>1. trim(t) = <<>>
    BY <1>1, TrimBlank
  <2>2. Trimmed(t) => t = <<>>
    BY <1>1 DEF Trimmed
  <2> QED
    BY <2>1, <2>2 DEF Trimmed
<1>2. CASE \E i \in 1..Len(t) : t[i] \notin Blank
  <2>1. PICK a, b \in 1..Len(t) :
              /\ a <= b /\ t[a] \notin Blank /\ t[b] \notin Blank
              /\ \A i \in 1..Len(t) : i < a \/ b < i => t[i] \in Blank
              /\ trim(t) = SubSeq(t, a, b)
    BY <1>2, TrimIs
  <2>2. /\ trim(t) \in Seq(Token)
        /\ Len(trim(t)) = b - a + 1
        /\ \A i \in 1..b - a + 1 : trim(t)[i] = t[a + i - 1]
    BY <2>1, PartIs
  <2>3. Trimmed(trim(t))
    BY <2>1, <2>2 DEF Trimmed
  <2>4. \A i \in 1..Len(trim(t)) : a + i - 1 \in 1..Len(t) /\ trim(t)[i] = t[a + i - 1]
    BY <2>1, <2>2
  <2>5. ASSUME Trimmed(t)
        PROVE  trim(t) = t
    <3>1. Len(t) \in Nat /\ t # <<>>
      BY <1>2
    <3>2. t[1] \notin Blank /\ t[Len(t)] \notin Blank
      BY <2>5, <3>1 DEF Trimmed
    <3>3. a = 1 /\ b = Len(t)
      BY <2>1, <3>1, <3>2
    <3> QED
      BY <2>1, <3>3, SubSeqFull
  <2> QED
    BY <2>2, <2>3, <2>4, <2>5
<1> QED
  BY <1>1, <1>2

\* The first field holds no comma and nothing that is not in the text.
LEMMA FirstFieldIs ==
    ASSUME NEW t \in Seq(Token)
    PROVE  /\ FirstField(t) \in Seq(Token)
           /\ \A i \in 1..Len(FirstField(t)) :
                 FirstField(t)[i] # "comma" /\ \E j \in 1..Len(t) : FirstField(t)[i] = t[j]
<1>1. CASE Comma(t) = 0
  BY <1>1, CommaIs DEF FirstField
<1>2. CASE Comma(t) # 0
  <2>1. /\ Comma(t) \in 1..Len(t)
        /\ \A i \in 1..Len(t) : i < Comma(t) => t[i] # "comma"
    BY <1>2, CommaIs
  <2>2. /\ FirstField(t) \in Seq(Token)
        /\ Len(FirstField(t)) = Comma(t) - 1
        /\ \A i \in 1..Comma(t) - 1 : FirstField(t)[i] = t[i]
    BY <1>2, <2>1, PartIs DEF FirstField
  <2>3. \A i \in 1..Len(FirstField(t)) : i \in 1..Len(t) /\ i < Comma(t) /\ FirstField(t)[i] = t[i]
    BY <2>1, <2>2
  <2> QED
    BY <2>1, <2>2, <2>3
<1> QED
  BY <1>1, <1>2

\* A line is a text without a newline.
LEMMA LineIs ==
    ASSUME NEW t \in Seq(Token), NEW l \in Lines(t)
    PROVE  l \in Seq(Token) /\ \A i \in 1..Len(l) : l[i] # "newline"
<1>1. PICK a, b \in 1..Len(t) : IsLine(t, a, b) /\ l = SubSeq(t, a, b)
  BY DEF Lines
<1>2. a <= b /\ \A k \in a..b : t[k] # "newline"
  BY <1>1 DEF IsLine
<1>3. /\ l \in Seq(Token) /\ Len(l) = b - a + 1
      /\ \A i \in 1..b - a + 1 : l[i] = t[a + i - 1]
  BY <1>1, <1>2, PartIs
<1>4. \A i \in 1..Len(l) : a + i - 1 \in a..b /\ l[i] = t[a + i - 1]
  BY <1>3
<1> QED
  BY <1>2, <1>3, <1>4

\* Whatever is in the file, load_from_disk finds trimmed hosts without commas and
\* newlines only.
LEMMA LoadedIsPlain ==
    ASSUME NEW t \in Seq(Token), NEW p \in load_from_disk(t)
    PROVE  /\ p.host = trim(p.host)
           /\ \A i \in 1..Len(p.host) : p.host[i] \notin {"comma", "newline"}
<1>1. PICK l \in Lines(t) : p.host = trim(FirstField(trim(l)))
  BY DEF load_from_disk, Peer, HostOf
<1> DEFINE e == trim(l)
           f == FirstField(e)
<1>2. l \in Seq(Token) /\ \A i \in 1..Len(l) : l[i] # "newline"
  BY LineIs
<1>3. e \in Seq(Token) /\ \A i \in 1..Len(e) : e[i] # "newline"
  BY <1>2, TrimTrims
<1> HIDE DEF e
<1>4. f \in Seq(Token) /\ \A i \in 1..Len(f) : f[i] # "comma" /\ f[i] # "newline"
  BY <1>3, FirstFieldIs
<1> HIDE DEF f
<1>5. /\ trim(f) \in Seq(Token) /\ Trimmed(trim(f))
      /\ \A i \in 1..Len(trim(f)) : \E j \in 1..Len(f) : trim(f)[i] = f[j]
  BY <1>4, TrimTrims
<1>6. trim(trim(f)) = trim(f)
  BY <1>5, TrimTrims
<1>7. \A i \in 1..Len(trim(f)) : trim(f)[i] # "comma" /\ trim(f)[i] # "newline"
  BY <1>4, <1>5
<1>8. p.host = trim(f)
  BY <1>1 DEF e, f
<1> QED
  BY <1>6, <1>7, <1>8

-----------------------------------------------------------------------------
(* Hosts and addresses *)

\* The line of a plain host is read back as the peer it was written for.
LEMMA PlainLineIsRead ==
    ASSUME NEW host \in Seq(Token), Trimmed(host),
           \A i \in 1..Len(host) : host[i] \notin {"comma", "newline"}
    PROVE  load_from_disk(Line(Peer(host, 80))) = {Peer(host, 80)}
<1> DEFINE L == host \o <<"comma", "80">>
           n == Len(host)
<1>1. n \in Nat /\ <<"comma", "80">> \in Seq(Token)
  BY DEF Token, Word, Separator
<1>2. /\ L \in Seq(Token) /\ Len(L) = n + 2
      /\ \A i \in 1..n : L[i] = host[i]
      /\ L[n + 1] = "comma" /\ L[n + 2] = "80"
  BY <1>1, ConcatProperties
<1>3. Line(Peer(host, 80)) = L
  BY DEF Line, Peer
<1> HIDE DEF L
<1>4. \A i \in 1..Len(L) : L[i] # "newline"
  BY <1>1, <1>2
<1>5. \A a, b \in 1..Len(L) : IsLine(L, a, b) <=> a = 1 /\ b = Len(L)
  BY <1>1, <1>2, <1>4 DEF IsLine
<1>6. Lines(L) = {L}
  <2>1. SubSeq(L, 1, Len(L)) = L
    BY <1>2, SubSeqFull
  <2>2. 1 \in 1..Len(L) /\ Len(L) \in 1..Len(L)
    BY <1>1, <1>2
  <2>3. L \in Lines(L)
    <3>1. <<1, Len(L)>> \in {r \in (1..Len(L)) \X (1..Len(L)) : IsLine(L, r[1], r[2])}
      BY <1>5, <2>2
    <3>2. SubSeq(L, <<1, Len(L)>>[1], <<1, Len(L)>>[2]) \in Lines(L)
      BY <3>1, Zenon DEF Lines
    <3> QED
      BY <2>1, <3>2
  <2>4. ASSUME NEW l \in Lines(L)
        PROVE  l = L
    <3>1. PICK r \in {r \in (1..Len(L)) \X (1..Len(L)) : IsLine(L, r[1], r[2])} :
            l = SubSeq(L, r[1], r[2])
      BY Zenon DEF Lines
    <3>2. r[1] \in 1..Len(L) /\ r[2] \in 1..Len(L) /\ IsLine(L, r[1], r[2])
      BY <3>1
    <3>3. r[1] = 1 /\ r[2] = Len(L)
      BY <1>5, <3>2, Zenon
    <3> QED
      BY <2>1, <3>1, <3>3
  <2> QED
    BY <2>3, <2>4
<1>7. trim(L) = L
  <2>1. L[1] \notin Blank /\ L[Len(L)] \notin Blank
    BY <1>1, <1>2 DEF Trimmed, Blank
  <2> QED
    BY <1>2, <2>1, TrimTrims DEF Trimmed
<1>8. Comma(L) = n + 1
  BY <1>1, <1>2, CommaIs
<1>9. FirstField(L) = host
  <2>1. FirstField(L) = SubSeq(L, 1, n)
    BY <1>1, <1>8 DEF FirstField
  <2>2. /\ SubSeq(L, 1, n) \in Seq(Token)
        /\ Len(SubSeq(L, 1, n)) = n
        /\ \A i \in 1..n : SubSeq(L, 1, n)[i] = L[i]
    BY <1>1, <1>2, PartIs
  <2> QED
    BY <1>2, <2>1, <2>2, SeqEqual
<1>10. SecondField(L) = <<"80">>
  <2> DEFINE r == SubSeq(L, n + 2, n + 2)
  <2>1. r \in Seq(Token) /\ Len(r) = 1 /\ r[1] = "80"
    BY <1>1, <1>2, PartIs
  <2>2. SecondField(L) = FirstField(r)
    BY <1>1, <1>2, <1>8 DEF SecondField
  <2> HIDE DEF r
  <2>3. Comma(r) = 0
    BY <2>1, CommaIs
  <2>4. r = <<"80">>
    BY <2>1
  <2> QED
    BY <2>2, <2>3, <2>4 DEF FirstField
<1>11. parse_port(<<"80">>) = 80 /\ 80 # NoPort
  BY DEF parse_port, NoPort
<1>12. HostOf(host) = host
  BY TrimTrims DEF HostOf
<1>13. load_from_disk(L) = {Peer(host, 80)}
  BY <1>1, <1>6, <1>7, <1>8, <1>9, <1>10, <1>11, <1>12 DEF load_from_disk
<1> QED
  BY <1>3, <1>13

\* Peer::try_from accepts one host of the model, and shows it so that it is accepted
\* again.
LEMMA AcceptedIsLocal ==
    ASSUME NEW t, Accepted(t)
    PROVE  try_from(t) = Peer(<<"127.0.0.1">>, 80)
<1> DEFINE colon == LastColon(trim(t))
           host == SubSeq(trim(t), 1, colon - 1)
           port == parse_port(SubSeq(trim(t), colon + 1, Len(trim(t))))
<1>1. port \in {80, NoPort}
  BY DEF parse_port
<1>2. try_from(t) = Peer(host, port) /\ host = <<"127.0.0.1">> /\ port # NoPort
  BY DEF Accepted, try_from, is_valid_dns_name
<1> QED
  BY <1>1, <1>2

\* The text an accepted address is shown as.
LEMMA ShownIsAccepted ==
    try_from(to_string(Peer(<<"127.0.0.1">>, 80))) = Peer(<<"127.0.0.1">>, 80)
<1> DEFINE s == <<"127.0.0.1", "colon", "80">>
           I == {i \in 1..Len(s) : s[i] = "colon"}
<1>1. to_string(Peer(<<"127.0.0.1">>, 80)) = s
  <2> DEFINE h == <<"127.0.0.1">>
             q == <<"colon", "80">>
  <2>1. /\ h \in Seq(Token) /\ Len(h) = 1 /\ h[1] = "127.0.0.1"
        /\ q \in Seq(Token) /\ Len(q) = 2 /\ q[1] = "colon" /\ q[2] = "80"
        /\ s \in Seq(Token) /\ Len(s) = 3 /\ s[1] = h[1] /\ s[2] = q[1] /\ s[3] = q[2]
    <3>1. {"127.0.0.1", "colon", "80"} \subseteq Token
      BY DEF Token, Word, Separator
    <3>2. h \in Seq(Token) /\ Len(h) = 1 /\ h[1] = "127.0.0.1"
      BY <3>1
    <3>3. q \in Seq(Token) /\ Len(q) = 2 /\ q[1] = "colon" /\ q[2] = "80"
      BY <3>1
    <3>4. /\ s \in Seq(Token) /\ Len(s) = 3
          /\ s[1] = "127.0.0.1" /\ s[2] = "colon" /\ s[3] = "80"
      BY <3>1
    <3> QED
      BY <3>2, <3>3, <3>4
  <2>2. to_string(Peer(h, 80)) = h \o q
    BY DEF to_string, Peer
  <2> HIDE DEF h, q, s
  <2>3. /\ h \o q \in Seq(Token) /\ Len(h \o q) = 3
        /\ (h \o q)[1] = s[1] /\ (h \o q)[2] = s[2] /\ (h \o q)[3] = s[3]
    <3>1. h \o q \in Seq(Token) /\ Len(h \o q) = Len(h) + Len(q)
      BY <2>1, ConcatProperties
    <3>2. \A i \in 1..Len(h) + Len(q) :
            (h \o q)[i] = IF i <= Len(h) THEN h[i] ELSE q[i - Len(h)]
      BY <2>1, ConcatProperties
    <3>3. (h \o q)[1] = h[1] /\ (h \o q)[2] = q[1] /\ (h \o q)[3] = q[2]
      <4> DEFINE c == h \o q
      <4> HIDE DEF c
      <4>1. Len(h) = 1 /\ Len(q) = 2 /\ Len(h) + Len(q) = 3
        BY <2>1
      <4>2. \A i \in 1..3 : c[i] = IF i <= 1 THEN h[i] ELSE q[i - 1]
        <5>1. \A i \in 1..3 : c[i] = IF i <= Len(h) THEN h[i] ELSE q[i - Len(h)]
          BY <3>2, <4>1, Zenon DEF c
        <5> QED
          BY <4>1, <5>1
      <4>3. c[1] = h[1]
        BY <4>2
      <4>4. c[2] = q[1]
        BY <4>2
      <4>5. c[3] = q[2]
        BY <4>2
      <4> QED
        BY <4>3, <4>4, <4>5 DEF c
    <3> QED
      BY <2>1, <3>1, <3>3
  <2>4. h \o q = s
    BY <2>1, <2>3, SeqEqual
  <2> QED
    BY <2>2, <2>4 DEF h
<1>2. s \in Seq(Token) /\ Len(s) = 3 /\ s[1] = "127.0.0.1" /\ s[2] = "colon" /\ s[3] = "80"
  BY DEF Token, Word, Separator
<1> HIDE DEF s
<1>3. trim(s) = s
  BY <1>2, TrimTrims DEF Trimmed, Blank
<1>4. LastColon(s) = 2
  <2>1. I = {2}
    <3>1. \A i \in 1..3 : s[i] = "colon" <=> i = 2
      BY <1>2
    <3>2. 2 \in 1..3
      OBVIOUS
    <3> QED
      BY <1>2, <3>1, <3>2
  <2>2. Max(I) = 2
    BY <2>1, HasEnds
  <2> QED
    BY <2>1, <2>2 DEF LastColon, SelectLastInSeq
<1>5. SubSeq(s, 1, 1) = <<"127.0.0.1">>
  <2> DEFINE h == SubSeq(s, 1, 1)
  <2>1. h \in Seq(Token) /\ Len(h) = 1 /\ h[1] = s[1]
    <3>1. 1 \in 1..Len(s) + 1 /\ 1 \in 0..Len(s) /\ 1 <= 1 + 1
      BY <1>2
    <3>2. /\ h \in Seq(Token) /\ Len(h) = 1 - 1 + 1
          /\ \A i \in 1..1 - 1 + 1 : h[i] = s[1 + i - 1]
      BY <1>2, <3>1, PartIs
    <3> QED
      BY <3>2
  <2> HIDE DEF h
  <2>2. h = <<"127.0.0.1">>
    <3>1. Len(h) = 1 /\ h[1] = "127.0.0.1"
      BY <1>2, <2>1
    <3> QED
      BY <2>1, <3>1
  <2> QED
    BY <2>2 DEF h
<1>6. SubSeq(s, 3, 3) = <<"80">>
  <2> DEFINE q == SubSeq(s, 3, 3)
  <2>1. q \in Seq(Token) /\ Len(q) = 1 /\ q[1] = s[3]
    <3>1. 3 \in 1..Len(s) + 1 /\ 3 \in 0..Len(s) /\ 3 <= 3 + 1
      BY <1>2
    <3>2. /\ q \in Seq(Token) /\ Len(q) = 3 - 3 + 1
          /\ \A i \in 1..3 - 3 + 1 : q[i] = s[3 + i - 1]
      BY <1>2, <3>1, PartIs
    <3> QED
      BY <3>2
  <2> HIDE DEF q
  <2>2. q = <<"80">>
    <3>1. Len(q) = 1 /\ q[1] = "80"
      BY <1>2, <2>1
    <3> QED
      BY <2>1, <3>1
  <2> QED
    BY <2>2 DEF q
<1>7. parse_port(<<"80">>) = 80 /\ 80 # NoPort
  BY DEF parse_port, NoPort
<1>8. try_from(s) = Peer(<<"127.0.0.1">>, 80)
  <2>1. SubSeq(trim(s), 1, LastColon(trim(s)) - 1) = <<"127.0.0.1">>
    BY <1>3, <1>4, <1>5
  <2>2. parse_port(SubSeq(trim(s), LastColon(trim(s)) + 1, Len(trim(s)))) = 80
    <3>1. trim(s) = s /\ LastColon(trim(s)) + 1 = 3 /\ Len(trim(s)) = 3
      BY <1>2, <1>3, <1>4
    <3>2. SubSeq(trim(s), LastColon(trim(s)) + 1, Len(trim(s))) = <<"80">>
      BY <1>6, <3>1, Zenon
    <3> QED
      BY <1>7, <3>2, Zenon
  <2>3. LastColon(trim(s)) # 0
    BY <1>3, <1>4
  <2> QED
    BY <1>7, <2>1, <2>2, <2>3 DEF try_from
<1> QED
  BY <1>1, <1>8

\* The text at hand does not change.
LEMMA AddressInvariant == AddressSpec => [](address \in Seq(Token))
<1>1. AddressInit => address \in Seq(Token)
  BY AddressesAssumption DEF AddressInit
<1>2. address \in Seq(Token) /\ [UNCHANGED address]_address => (address \in Seq(Token))'
  OBVIOUS
<1> QED
  BY <1>1, <1>2, PTL DEF AddressSpec

\* Hosts of any length: a host is read back from its line of peers.csv exactly when
\* it has no blanks around it and holds neither comma nor newline.
THEOREM HostsReadBack == AddressSpec => []PlainHostsReadBack
<1>1. ASSUME address \in Seq(Token)
      PROVE  PlainHostsReadBack
  <2> DEFINE p == Peer(address, 80)
             Plain == \A i \in DOMAIN address : address[i] \notin {"comma", "newline"}
  <2>1. DOMAIN address = 1..Len(address) /\ p.host = address
    BY <1>1 DEF Peer
  <2>2. ASSUME load_from_disk(Line(p)) = {p}
        PROVE  address = trim(address) /\ Plain
    <3>1. Line(p) \in Seq(Token)
      BY <1>1, <2>1 DEF Line, Token, Word, Separator
    <3>2. p \in load_from_disk(Line(p))
      BY <2>2
    <3>3. p.host = trim(p.host) /\ \A i \in 1..Len(p.host) : p.host[i] \notin {"comma", "newline"}
      BY <3>1, <3>2, LoadedIsPlain
    <3> QED
      BY <2>1, <3>3
  <2>3. ASSUME address = trim(address), Plain
        PROVE  load_from_disk(Line(p)) = {p}
    <3>1. Trimmed(address)
      BY <1>1, <2>3, TrimTrims
    <3> QED
      BY <1>1, <2>1, <2>3, <3>1, PlainLineIsRead
  <2> QED
    BY <2>2, <2>3 DEF PlainHostsReadBack
<1> QED
  BY <1>1, AddressInvariant, PTL

\* An accepted address of any length survives being shown and being stored.
THEOREM AddressesAreDurable == AddressSpec => []AcceptedIsDurable
<1> DEFINE p == Peer(<<"127.0.0.1">>, 80)
<1>1. load_from_disk(Line(p)) = {p}
  <2>1. /\ <<"127.0.0.1">> \in Seq(Token) /\ Trimmed(<<"127.0.0.1">>)
        /\ \A i \in 1..Len(<<"127.0.0.1">>) : <<"127.0.0.1">>[i] \notin {"comma", "newline"}
    BY DEF Token, Word, Trimmed, Blank
  <2> QED
    BY <2>1, PlainLineIsRead
<1>2. AcceptedIsDurable
  BY <1>1, AcceptedIsLocal, ShownIsAccepted DEF AcceptedIsDurable
<1> QED
  BY <1>2, PTL
=============================================================================
