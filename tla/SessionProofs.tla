----------------------------- MODULE SessionProofs ----------------------------
(* Proofs about Session, for any capacity, peers and frames of a stranger. *)
EXTENDS Session, SequenceTheorems, FiniteSetTheorems, TLAPS

-----------------------------------------------------------------------------
(* Ends and frames *)

\* The two ends of a connection.
LEMMA Ends ==
    ASSUME NEW e \in Endpoint
    PROVE  /\ Other(e) \in Endpoint /\ Other(e) # e /\ Other(Other(e)) = e
           /\ \A d \in Endpoint : d = e \/ d = Other(e)
BY DEF Endpoint, Other

\* What a node writes is a frame, and is read back as what it is.
LEMMA OwnFrames ==
    ASSUME NEW t \in {"Hello", "GetPeers", "Peers", "Error"}
    PROVE  write_frame(t, 1) \in Frame /\ write_frame(t, 1).type = t /\ read_frame(write_frame(t, 1)) = t
<1>1. t \in MessageType /\ Fields[t] \subseteq FieldName
  BY DEF MessageType, Fields, FieldName
<1>2. "type" \in FieldName
  BY DEF FieldName
<1>3. write_frame(t, 1) \in Frame
  BY <1>1, <1>2 DEF write_frame, Frame, LineText
<1>4. t # NoType
  BY DEF NoType
<1>5. {"type"} \cup Fields[t] \subseteq AllowedKeys(t)
  BY DEF AllowedKeys
<1>6. read_frame(write_frame(t, 1)) = Decode(write_frame(t, 1))
  BY <1>4, <1>5, SessionAssumption, FramingAssumption DEF read_frame, write_frame
<1>7. Decode(write_frame(t, 1)) = t
  BY DEF Decode, write_frame
<1> QED
  BY <1>3, <1>6, <1>7 DEF write_frame

\* read_frame returns a message type or one of its errors.
LEMMA ReadResult ==
    ASSUME NEW f \in Frame
    PROVE  read_frame(f) \in ReadError \/ read_frame(f) = f.type
BY DEF read_frame, Decode, ReadError

LEMMA EofResult ==
    Eof \in Frame /\ read_frame(Eof) = "ConnectionClosed"
<1>1. Eof \in Frame
  BY DEF Eof, Frame, LineText
<1> QED
  BY <1>1, FramingAssumption DEF read_frame, Eof

\* The end of the stream is an error, so a message comes from the channel.
LEMMA InputFromChannel ==
    ASSUME TypeOK, NEW e \in Endpoint
    PROVE  /\ Input(e) \notin ReadError => chan[e] # <<>>
           /\ chan[e] = <<>> => Input(e) = "ConnectionClosed"
           /\ chan[e] # <<>> => Input(e) = read_frame(Head(chan[e]).line)
BY EofResult DEF Input, ReadError

-----------------------------------------------------------------------------
(* Types *)

LEMMA PacketSent ==
    ASSUME NEW t \in {"Hello", "GetPeers", "Peers", "Error"}
    PROVE  Sent(t) \in Packet /\ Sent(t).line = write_frame(t, 1)
<1>1. <<>> \in Seq(Peer)
  BY EmptySeq
<1> QED
  BY <1>1, OwnFrames DEF Sent, Packet

\* A dropped socket leaves nothing to read behind.
LEMMA CloseTypes ==
    ASSUME TypeOK, NEW e \in Endpoint, NEW res \in Result, NEW unread,
           CloseLeaving(e, res, unread)
    PROVE  /\ TypeOK'
           /\ chan'[e] = <<>> /\ chan'[Other(e)] \in {<<>>, chan[Other(e)]}
<1>1. <<>> \in Seq(Packet) /\ Len(<<>>) = 0
  BY EmptySeq
<1>2. PICK reset \in {FALSE, unread # <<>>} :
        chan' = [chan EXCEPT ![e] = <<>>, ![Other(e)] = IF reset THEN <<>> ELSE @]
  BY DEF CloseLeaving
<1>3. chan' \in [Endpoint -> Seq(Packet)]
  BY <1>1, <1>2, Ends DEF TypeOK
<1>4. chan'[e] = <<>> /\ chan'[Other(e)] \in {<<>>, chan[Other(e)]}
  BY <1>2, Ends DEF TypeOK
<1>5. ASSUME NEW d \in Endpoint
      PROVE  Len(chan'[d]) <= Cap
  <2>1. chan'[d] \in {<<>>, chan[d]}
    BY <1>4, Ends
  <2> QED
    BY <1>1, <2>1, SessionAssumption DEF TypeOK
<1> QED
  BY <1>3, <1>4, <1>5 DEF CloseLeaving, TypeOK, Pc

\* write_frame waits for room, so no direction overflows.
LEMMA WriteTypes ==
    ASSUME TypeOK, NEW e \in Endpoint, NEW f \in Packet, NEW next \in Pc, Write(e, f, next)
    PROVE  TypeOK'
<1>1. CASE /\ ~Closed(Other(e)) /\ Len(chan[Other(e)]) < Cap
           /\ chan' = [chan EXCEPT ![Other(e)] = Append(@, f)]
           /\ pc' = [pc EXCEPT ![e] = next]
           /\ UNCHANGED <<stranger, result, greeted, known, strays>>
  <2>1. chan[Other(e)] \in Seq(Packet)
    BY Ends DEF TypeOK
  <2>2. Append(chan[Other(e)], f) \in Seq(Packet) /\ Len(Append(chan[Other(e)], f)) <= Cap
    BY <1>1, <2>1, AppendProperties, LenProperties, SessionAssumption
  <2> QED
    BY <1>1, <2>2, Ends DEF TypeOK
<1>2. CASE /\ pc' = [pc EXCEPT ![e] = next]
           /\ UNCHANGED <<stranger, chan, result, greeted, known, strays>>
  BY <1>2 DEF TypeOK
<1>3. CASE Close(e, "Io")
  BY <1>3, CloseTypes DEF Close, Result, ReadError
<1> QED
  BY <1>1, <1>2, <1>3 DEF Write

\* What is left to read is shorter than what there was, or a rest is left in the place of
\* the first frame.
LEMMA UnreadTypes ==
    ASSUME TypeOK, NEW e \in Endpoint
    PROVE  Unread(e) \in Seq(Packet) /\ Len(Unread(e)) <= Len(chan[e])
<1> DEFINE c == chan[e]
           f == Head(c)
           rest == [f EXCEPT !.line.bytes = @ - RECV_BUFFER_LIMIT]
<1>1. c \in Seq(Packet) /\ Len(c) \in Nat
  BY LenProperties DEF TypeOK
<1>2. CASE c = <<>>
  BY <1>1, <1>2 DEF Unread
<1>3. CASE c # <<>>
  <2>1. f \in Packet /\ Tail(c) \in Seq(Packet) /\ Len(Tail(c)) = Len(c) - 1
    BY <1>1, <1>3, HeadTailProperties
  <2>2. CASE f.line.bytes <= RECV_BUFFER_LIMIT
    BY <1>1, <1>3, <2>1, <2>2 DEF Unread
  <2>3. CASE ~(f.line.bytes <= RECV_BUFFER_LIMIT)
    <3>1. f.line \in Frame /\ f.peers \in Seq(Peer) /\ f.line.bytes - RECV_BUFFER_LIMIT \in Nat
      BY <2>1, <2>3, FramingAssumption DEF Packet, Frame
    <3>2. rest \in Packet
      BY <2>1, <3>1 DEF Packet, Frame
    <3>3. <<rest>> \in Seq(Packet) /\ Len(<<rest>>) = 1
      BY <3>2
    <3>4. /\ <<rest>> \o Tail(c) \in Seq(Packet)
          /\ Len(<<rest>> \o Tail(c)) = 1 + Len(Tail(c))
      BY <2>1, <3>3, ConcatProperties
    <3>5. Unread(e) = <<rest>> \o Tail(c)
      BY <1>3, <2>3 DEF Unread
    <3> QED
      BY <1>1, <2>1, <3>4, <3>5
  <2> QED
    BY <2>2, <2>3
<1> QED
  BY <1>2, <1>3

\* Reading leaves the other direction alone.
LEMMA ConsumeTypes ==
    ASSUME TypeOK, NEW e \in Endpoint, Consume(e)
    PROVE  /\ chan' \in [Endpoint -> Seq(Packet)]
           /\ \A d \in Endpoint : Len(chan'[d]) <= Cap
           /\ chan'[e] = Unread(e)
           /\ chan'[Other(e)] = chan[Other(e)]
<1>1. Unread(e) \in Seq(Packet) /\ Len(Unread(e)) <= Len(chan[e])
  BY UnreadTypes
<1>2. chan[e] \in Seq(Packet) /\ Len(chan[e]) \in Nat /\ Len(Unread(e)) \in Nat
  BY <1>1, LenProperties DEF TypeOK
<1>3. chan' \in [Endpoint -> Seq(Packet)]
  BY <1>1 DEF Consume, TypeOK
<1>4. chan'[e] = Unread(e) /\ chan'[Other(e)] = chan[Other(e)]
  BY Ends DEF Consume, TypeOK
<1>5. ASSUME NEW d \in Endpoint
      PROVE  Len(chan'[d]) <= Cap
  <2>1. d = e \/ chan'[d] = chan[d]
    BY <1>4, Ends
  <2>2. Len(chan'[e]) <= Cap
    BY <1>1, <1>2, <1>4, SessionAssumption DEF TypeOK
  <2> QED
    BY <2>1, <2>2 DEF TypeOK
<1> QED
  BY <1>3, <1>4, <1>5

\* What arrives, if it is a Peers message, lists peers.
LEMMA InputTypes ==
    ASSUME TypeOK, NEW e \in Endpoint
    PROVE  /\ Input(e) \in ReadError \cup MessageType \cup {NoType}
           /\ chan[e] # <<>> => Head(chan[e]) \in Packet
<1>1. chan[e] # <<>> => Head(chan[e]) \in Packet
  BY HeadTailProperties DEF TypeOK
<1>2. chan[e] # <<>> => Head(chan[e]).line \in Frame /\ Head(chan[e]).line.type \in MessageType \cup {NoType}
  BY <1>1 DEF Packet, Frame
<1> QED
  BY <1>1, <1>2, InputFromChannel, ReadResult DEF ReadError

-----------------------------------------------------------------------------
(* import_peers and pick_and_build_peers *)

\* An import only adds peers, finitely many; the first of the list is added even
\* when the file fails.
LEMMA ImportAdds ==
    ASSUME TypeOK, NEW e \in Endpoint, IsFiniteSet(known[e]),
           NEW s \in Seq(Peer), NEW K \in import_peers(e, s)
    PROVE  /\ K \in SUBSET Peer /\ IsFiniteSet(K)
           /\ known[e] \subseteq K
           /\ s # <<>> /\ s[1] \notin Banned => s[1] \in K
<1>1. Len(s) \in Nat /\ s \in [1..Len(s) -> Peer]
  BY LenProperties
<1>2. PICK n \in {Len(s)} \cup (1..Len(s)) : K = known[e] \cup ({s[i] : i \in 1..n} \ Banned)
  BY DEF import_peers
<1>3. n \in Nat /\ n <= Len(s) /\ (Len(s) >= 1 => n >= 1)
  BY <1>1, <1>2
<1> DEFINE R == {s[i] : i \in 1..n}
           f == [i \in 1..n |-> s[i]]
<1>4. IsFiniteSet(R)
  <2>1. f \in Surjection(1..n, R)
    BY DEF Surjection
  <2>2. IsFiniteSet(1..n)
    BY <1>3, FS_Interval
  <2> QED
    BY <2>1, <2>2, FS_Surjection
<1>5. IsFiniteSet(R \ Banned)
  BY <1>4, FS_Difference
<1>6. IsFiniteSet(K)
  BY <1>2, <1>5, FS_Union
<1>7. R \subseteq Peer
  BY <1>1, <1>3
<1>8. K \in SUBSET Peer /\ known[e] \subseteq K
  BY <1>2, <1>7 DEF TypeOK
<1>9. s # <<>> /\ s[1] \notin Banned => s[1] \in K
  <2>1. s # <<>> => Len(s) >= 1
    BY <1>1, EmptySeq
  <2>2. s # <<>> => 1 \in 1..n
    BY <1>3, <2>1
  <2> QED
    BY <1>2, <2>2
<1> QED
  BY <1>6, <1>8, <1>9

LEMMA OrdersAreSeqs ==
    ASSUME NEW S \in SUBSET Peer, IsFiniteSet(S), NEW r \in Orders(S)
    PROVE  r \in Seq(Peer)
<1>1. Cardinality(S) \in Nat
  BY FS_CardinalityType
<1>2. r \in [1..Cardinality(S) -> Peer]
  BY DEF Orders
<1> QED
  BY <1>1, <1>2, SeqDef

\* An answer lists peers, and that of a public node starts with itself.
LEMMA AnswerLists ==
    ASSUME TypeOK, NEW e \in Endpoint, IsFiniteSet(known[e]), NEW s \in pick_and_build_peers(e)
    PROVE  /\ s \in Seq(Peer)
           /\ e \in Public => s # <<>> /\ s[1] = Address[e]
<1>1. \A S \in Picks(e) : /\ S \in SUBSET Peer /\ IsFiniteSet(S)
                           /\ IsFiniteSet(S \ {Address[e]})
  <2> SUFFICES ASSUME NEW S \in Picks(e)
               PROVE  S \in SUBSET Peer /\ IsFiniteSet(S) /\ IsFiniteSet(S \ {Address[e]})
    OBVIOUS
  <2>1. S \in SUBSET known[e] /\ known[e] \in SUBSET Peer
    BY DEF Picks, TypeOK
  <2>2. IsFiniteSet(S)
    BY <2>1, FS_Subset
  <2> QED
    BY <2>1, <2>2, FS_RemoveElement
<1>2. CASE e \in Public
  <2>1. PICK S \in Picks(e) : \E r \in Orders(S \ {Address[e]}) : s = <<Address[e]>> \o r
    BY <1>2 DEF pick_and_build_peers
  <2>2. PICK r \in Orders(S \ {Address[e]}) : s = <<Address[e]>> \o r
    BY <2>1
  <2>3. r \in Seq(Peer)
    BY <1>1, OrdersAreSeqs
  <2>4. <<Address[e]>> \in Seq(Peer)
    BY SessionAssumption
  <2>5. s \in Seq(Peer) /\ Len(s) = 1 + Len(r) /\ s[1] = Address[e]
    BY <2>2, <2>3, <2>4, LenProperties, ConcatProperties
  <2> QED
    BY <2>3, <2>5, LenProperties, EmptySeq
<1>3. CASE e \notin Public
  BY <1>1, <1>3, OrdersAreSeqs DEF pick_and_build_peers
<1> QED
  BY <1>2, <1>3

-----------------------------------------------------------------------------
(* What holds of an end whatever the other is *)

BasicInv == TypeOK /\ \A e \in Endpoint : EndInv(e)

LEMMA CloseBasic ==
    ASSUME BasicInv, NEW e \in Endpoint, NEW res \in Result, NEW unread,
           CloseLeaving(e, res, unread)
    PROVE  BasicInv'
<1>1. TypeOK' /\ chan'[e] = <<>> /\ chan'[Other(e)] \in {<<>>, chan[Other(e)]}
  BY CloseTypes DEF BasicInv
<1>2. pc'[e] = "closed" /\ pc'[Other(e)] = pc[Other(e)]
  BY Ends DEF CloseLeaving, BasicInv, TypeOK
<1>3. UNCHANGED <<stranger, greeted, known>>
  BY DEF CloseLeaving
<1>4. EndInv(e)'
  BY <1>1, <1>2, <1>3 DEF BasicInv, EndInv, Closed
<1>5. EndInv(Other(e))'
  BY <1>1, <1>2, <1>3, Ends DEF BasicInv, EndInv, Closed, Ungreeted
<1> QED
  BY <1>1, <1>4, <1>5, Ends DEF BasicInv

LEMMA WriteBasic ==
    ASSUME BasicInv, NEW e \in Endpoint, pc[e] \notin {"stranger", "closed"},
           NEW f \in Packet, NEW next \in {"readHello", "sendGetPeers", "loop", "hangup"},
           next \in {"sendGetPeers", "loop"} => e \in greeted,
           Write(e, f, next)
    PROVE  BasicInv'
<1>1. TypeOK'
  BY WriteTypes DEF BasicInv, Pc
<1>2. CASE Close(e, "Io")
  BY <1>2, CloseBasic DEF Close, Result, ReadError
<1>3. CASE /\ pc' = [pc EXCEPT ![e] = next]
           /\ UNCHANGED <<stranger, result, greeted, known, strays>>
           /\ \/ ~Closed(Other(e)) /\ chan' = [chan EXCEPT ![Other(e)] = Append(@, f)]
              \/ UNCHANGED chan
  <2>1. pc'[e] = next /\ pc'[Other(e)] = pc[Other(e)] /\ chan'[e] = chan[e]
    BY <1>3, Ends DEF BasicInv, TypeOK
  <2>2. Closed(Other(e)) => chan'[Other(e)] = chan[Other(e)]
    BY <1>3
  <2>3. EndInv(e)'
    BY <1>3, <2>1 DEF BasicInv, EndInv, Closed, Ungreeted
  <2>4. EndInv(Other(e))'
    BY <1>3, <2>1, <2>2, Ends DEF BasicInv, EndInv, Closed, Ungreeted
  <2> QED
    BY <1>1, <2>3, <2>4, Ends DEF BasicInv
<1> QED
  BY <1>2, <1>3 DEF Write

LEMMA ReadBasic ==
    ASSUME BasicInv, NEW e \in Endpoint, pc[e] \notin {"stranger", "closed"},
           NEW next \in {"sendHello", "sendGetPeers", "loop", "reply", "refuse"}, ReadOn(e, next),
           result' \in [Endpoint -> Result],
           NEW K \in SUBSET Peer, IsFiniteSet(K), known' = [known EXCEPT ![e] = K],
           greeted' \in {greeted, greeted \cup {e}},
           e \in greeted' \/ (next = "refuse" /\ K = known[e])
    PROVE  BasicInv'
<1>1. /\ chan' \in [Endpoint -> Seq(Packet)] /\ \A d \in Endpoint : Len(chan'[d]) <= Cap
      /\ chan'[Other(e)] = chan[Other(e)]
  BY ConsumeTypes DEF BasicInv, ReadOn
<1>2. pc'[e] = next /\ pc'[Other(e)] = pc[Other(e)] /\ stranger' = stranger
  BY Ends DEF BasicInv, TypeOK, ReadOn
<1>3. known'[e] = K /\ known'[Other(e)] = known[Other(e)]
  BY Ends DEF BasicInv, TypeOK
<1>4. pc' \in [Endpoint -> Pc] /\ known' \in [Endpoint -> SUBSET Peer]
  BY DEF BasicInv, TypeOK, ReadOn, Pc
<1>5. TypeOK'
  BY <1>1, <1>4 DEF BasicInv, TypeOK, ReadOn
<1>6. EndInv(e)'
  BY <1>2, <1>3 DEF BasicInv, EndInv, Closed
<1>7. EndInv(Other(e))'
  BY <1>1, <1>2, <1>3, Ends DEF BasicInv, EndInv, Closed, Ungreeted
<1> QED
  BY <1>5, <1>6, <1>7, Ends DEF BasicInv

\* The handshake: an end goes on only after a Hello.
LEMMA HandshakeBasic ==
    ASSUME BasicInv, NEW e \in Endpoint, Handshake(e) \/ HelloTimeout(e)
    PROVE  BasicInv'
<1> USE DEF BasicInv
<1>1. CASE SendHello(e)
  <2>1. e = "Acceptor" => e \in greeted
    BY <1>1 DEF SendHello, EndInv, Closed, Ungreeted
  <2>2. Sent("Hello") \in Packet
    BY PacketSent
  <2> QED
    BY <1>1, <2>1, <2>2, WriteBasic DEF SendHello, Endpoint
<1>2. CASE HelloArrives(e)
  <2>1. known' = [known EXCEPT ![e] = known[e]] /\ known[e] \in SUBSET Peer /\ IsFiniteSet(known[e])
    BY <1>2 DEF HelloArrives, TypeOK, EndInv
  <2>2. e \in greeted' /\ greeted' \in {greeted, greeted \cup {e}}
    BY <1>2 DEF HelloArrives, Greets
  <2>3. GoesOn(e) \in {"sendHello", "sendGetPeers"}
    BY DEF GoesOn
  <2>4. result' \in [Endpoint -> Result]
    BY <1>2 DEF HelloArrives, TypeOK
  <2>5. ReadOn(e, GoesOn(e)) /\ pc[e] \notin {"stranger", "closed"}
    BY <1>2 DEF HelloArrives
  <2> QED
    BY <2>1, <2>2, <2>3, <2>4, <2>5, ReadBasic
<1>3. CASE WrongGreeting(e)
  <2>1. CASE ReadAndClose(e, "InvalidHandshake")
    BY <2>1, CloseBasic DEF ReadAndClose, Result
  <2>2. CASE /\ ReadOn(e, "refuse")
             /\ result' = [result EXCEPT ![e] = "InvalidHandshake"]
             /\ UNCHANGED <<greeted, known>>
    <3>1. known' = [known EXCEPT ![e] = known[e]] /\ known[e] \in SUBSET Peer /\ IsFiniteSet(known[e])
      BY <2>2 DEF TypeOK, EndInv
    <3>2. result' \in [Endpoint -> Result]
      BY <2>2 DEF TypeOK, Result
    <3> QED
      BY <1>3, <2>2, <3>1, <3>2, ReadBasic DEF WrongGreeting
  <2> QED
    BY <1>3, <2>1, <2>2 DEF WrongGreeting
<1>4. CASE NoGreeting(e)
  <2>1. Input(e) \in Result
    BY <1>4 DEF NoGreeting, Result
  <2> QED
    BY <1>4, <2>1, CloseBasic DEF NoGreeting, ReadAndClose
<1>5. CASE HelloTimeout(e)
  BY <1>5, CloseBasic DEF HelloTimeout, Close, Result
<1>6. CASE SendGetPeers(e)
  <2>1. e \in greeted
    BY <1>6 DEF SendGetPeers, EndInv, Closed, Ungreeted
  <2>2. Sent("GetPeers") \in Packet
    BY PacketSent
  <2> QED
    BY <1>6, <2>1, <2>2, WriteBasic DEF SendGetPeers
<1> QED
  BY <1>1, <1>2, <1>3, <1>4, <1>5, <1>6 DEF Handshake

\* The message loop: it is entered by a greeted end only.
LEMMA MessageLoopBasic ==
    ASSUME BasicInv, NEW e \in Endpoint, MessageLoop(e)
    PROVE  BasicInv'
<1> USE DEF BasicInv
<1>1. pc[e] \in {"loop", "reply"} => e \in greeted
  BY DEF EndInv, Closed, Ungreeted
<1>2. known[e] \in SUBSET Peer /\ IsFiniteSet(known[e])
  BY DEF TypeOK, EndInv
<1>3. CASE MessageArrives(e)
  <2>1. PICK K \in IF Input(e) = "Peers" THEN import_peers(e, Head(chan[e]).peers) ELSE {known[e]} :
               known' = [known EXCEPT ![e] = K]
    BY <1>3 DEF MessageArrives
  <2>2. Head(chan[e]).peers \in Seq(Peer)
    BY <1>3, InputTypes, InputFromChannel DEF MessageArrives, Packet
  <2>3. K \in SUBSET Peer /\ IsFiniteSet(K)
    BY <1>2, <2>1, <2>2, ImportAdds
  <2>4. result' \in [Endpoint -> Result] /\ greeted' = greeted
    BY <1>3 DEF MessageArrives, TypeOK
  <2>5. ReadOn(e, IF Input(e) = "GetPeers" THEN "reply" ELSE "loop") /\ pc[e] = "loop"
    BY <1>3 DEF MessageArrives
  <2> QED
    BY <1>1, <2>1, <2>3, <2>4, <2>5, ReadBasic
<1>4. CASE Reply(e)
  <2>1. PICK s \in pick_and_build_peers(e) : Write(e, SentPeers(s), "loop")
    BY <1>4 DEF Reply
  <2>2. SentPeers(s) \in Packet
    BY <1>2, AnswerLists, OwnFrames DEF SentPeers, Packet
  <2> QED
    BY <1>1, <1>4, <2>1, <2>2, WriteBasic DEF Reply
<1>5. CASE BadFrameArrives(e)
  <2>1. known' = [known EXCEPT ![e] = known[e]]
    BY <1>5 DEF BadFrameArrives, TypeOK
  <2>2. result' \in [Endpoint -> Result]
    BY <1>5 DEF BadFrameArrives, TypeOK, Result
  <2>3. ReadOn(e, "refuse") /\ pc[e] = "loop" /\ greeted' = greeted
    BY <1>5 DEF BadFrameArrives
  <2> QED
    BY <1>2, <2>1, <2>2, <2>3, ReadBasic
<1>6. CASE StreamEnds(e)
  <2>1. Input(e) \in Result
    BY <1>6 DEF StreamEnds, Result, ReadError
  <2> QED
    BY <1>6, <2>1, CloseBasic DEF StreamEnds, ReadAndClose
<1>7. CASE SendError(e)
  <2>1. ErrorMessage \in Packet
    BY PacketSent DEF ErrorMessage
  <2> QED
    BY <1>7, <2>1, WriteBasic DEF SendError
<1>8. CASE Hangup(e)
  <2>1. result[e] \in Result
    BY DEF TypeOK
  <2> QED
    BY <1>8, <2>1, CloseBasic DEF Hangup, Close
<1> QED
  BY <1>3, <1>4, <1>5, <1>6, <1>7, <1>8 DEF MessageLoop

LEMMA StrangerBasic ==
    ASSUME BasicInv, NEW e \in Endpoint,
           StrangerReads(e) \/ StrangerCloses(e) \/ \E f \in StrayFrames : StrangerSends(e, f)
    PROVE  BasicInv'
<1> USE DEF BasicInv
<1>1. CASE StrangerReads(e)
  <2>1. /\ chan' \in [Endpoint -> Seq(Packet)] /\ \A d \in Endpoint : Len(chan'[d]) <= Cap
        /\ chan'[Other(e)] = chan[Other(e)]
    BY <1>1, ConsumeTypes DEF StrangerReads
  <2>2. UNCHANGED <<stranger, pc, result, greeted, known, strays>> /\ pc[e] = "stranger"
    BY <1>1 DEF StrangerReads
  <2>3. TypeOK'
    BY <2>1, <2>2 DEF TypeOK
  <2>4. EndInv(e)' /\ EndInv(Other(e))'
    BY <2>1, <2>2, Ends DEF EndInv, Closed, Ungreeted
  <2> QED
    BY <2>3, <2>4, Ends
<1>2. CASE StrangerCloses(e)
  BY <1>2, CloseBasic DEF StrangerCloses, Close, Result
<1>3. ASSUME NEW f \in StrayFrames, StrangerSends(e, f)
      PROVE  BasicInv'
  <2> DEFINE o == Other(e)
  <2>1. f \in Packet /\ chan[o] \in Seq(Packet)
    BY SessionAssumption, Ends DEF TypeOK
  <2>2. Append(chan[o], f) \in Seq(Packet) /\ Len(Append(chan[o], f)) <= Cap
    BY <1>3, <2>1, AppendProperties, LenProperties, SessionAssumption DEF StrangerSends
  <2>3. TypeOK'
    BY <1>3, <2>2, Ends, SessionAssumption DEF StrangerSends, TypeOK
  <2>4. chan'[e] = chan[e] /\ ~Closed(o)
    BY <1>3, Ends DEF StrangerSends, TypeOK
  <2>5. UNCHANGED <<stranger, pc, result, greeted, known>>
    BY <1>3 DEF StrangerSends
  <2>6. EndInv(e)' /\ EndInv(o)'
    BY <2>4, <2>5, Ends DEF EndInv, Closed, Ungreeted
  <2> QED
    BY <2>3, <2>6, Ends
<1> QED
  BY <1>1, <1>2, <1>3

LEMMA BasicStep ==
    ASSUME BasicInv, [Next]_vars
    PROVE  BasicInv'
<1>1. ASSUME NEW e \in Endpoint, Breaks(e)
      PROVE  BasicInv'
  BY <1>1, CloseBasic DEF Breaks, Close, Result, ReadError
<1>2. CASE UNCHANGED vars
  BY <1>2 DEF vars, BasicInv, TypeOK, EndInv, Closed, Ungreeted
<1> QED
  BY <1>1, <1>2, HandshakeBasic, MessageLoopBasic, StrangerBasic DEF Next, Node

LEMMA BasicInit == Init => BasicInv
<1> SUFFICES ASSUME Init PROVE BasicInv
  OBVIOUS
<1>1. <<>> \in Seq(Packet) /\ Len(<<>>) = 0
  BY EmptySeq
<1>2. TypeOK
  BY <1>1, SessionAssumption DEF Init, TypeOK, Pc, Result
<1>3. \A e \in Endpoint : EndInv(e)
  BY SessionAssumption DEF Init, EndInv, Closed, Ungreeted, Endpoint
<1> QED
  BY <1>2, <1>3 DEF BasicInv

-----------------------------------------------------------------------------
(* What is on its way between two nodes *)

LEMMA KindsEmpty ==
    ASSUME TypeOK, NEW e \in Endpoint
    PROVE  Kinds(e) = {} <=> chan[e] = <<>>
<1>1. chan[e] \in Seq(Packet)
  BY DEF TypeOK
<1>2. Len(chan[e]) \in Nat /\ DOMAIN chan[e] = 1..Len(chan[e])
  BY <1>1, LenProperties
<1>3. chan[e] # <<>> => 1 \in DOMAIN chan[e]
  BY <1>1, <1>2, EmptySeq
<1>4. chan[e] = <<>> => DOMAIN chan[e] = {}
  BY <1>2, EmptySeq
<1> QED
  BY <1>3, <1>4 DEF Kinds

\* The contents of a direction decide what it means to be expected.
LEMMA SameChannel ==
    ASSUME NEW e \in Endpoint, chan'[e] = chan[e]
    PROVE  Kinds(e)' = Kinds(e) /\ (FramesInv(e) => FramesInv(e)')
BY DEF Kinds, FramesInv

LEMMA EmptyChannel ==
    ASSUME TypeOK', NEW e \in Endpoint, chan'[e] = <<>>
    PROVE  Kinds(e)' = {} /\ FramesInv(e)'
<1>1. DOMAIN chan'[e] = {}
  BY EmptySeq
<1> QED
  BY <1>1 DEF Kinds, FramesInv

\* A node reads what the other has written, the Hello first.
LEMMA NodeInput ==
    ASSUME TypeOK, NEW e \in Endpoint, FramesInv(e), chan[e] # <<>>
    PROVE  /\ Input(e) = Head(chan[e]).line.type
           /\ Input(e) \in Kinds(e) \cap {"Hello", "GetPeers", "Peers"}
           /\ Input(e) \notin ReadError
           /\ "Hello" \in Kinds(e) => Input(e) = "Hello"
<1>1. chan[e] \in Seq(Packet)
  BY DEF TypeOK
<1>2. Len(chan[e]) \in Nat /\ DOMAIN chan[e] = 1..Len(chan[e]) /\ 1 \in DOMAIN chan[e]
  BY <1>1, LenProperties, EmptySeq
<1>3. Head(chan[e]) = chan[e][1]
  BY <1>1, HeadTailProperties
<1> DEFINE t == chan[e][1].line.type
<1>4. t \in {"Hello", "GetPeers", "Peers"} /\ chan[e][1].line = write_frame(t, 1) /\ t \in Kinds(e)
  BY <1>2 DEF FramesInv, Kinds
<1>5. Input(e) = t
  BY <1>3, <1>4, InputFromChannel, OwnFrames
<1>6. "Hello" \in Kinds(e) => t = "Hello"
  BY DEF FramesInv, Kinds
<1> QED
  BY <1>3, <1>4, <1>5, <1>6 DEF ReadError

\* What a node sends is below the limit, and read as a whole.
LEMMA ConsumeTail ==
    ASSUME TypeOK, NEW e \in Endpoint, FramesInv(e), chan[e] # <<>>, Consume(e)
    PROVE  chan'[e] = Tail(chan[e])
<1>1. Head(chan[e]) = chan[e][1] /\ 1 \in DOMAIN chan[e]
  BY HeadTailProperties, LenProperties, EmptySeq DEF TypeOK
<1>2. Head(chan[e]).line = write_frame(Head(chan[e]).line.type, 1)
  BY <1>1 DEF FramesInv
<1>3. Head(chan[e]).line.bytes = 1
  BY <1>2 DEF write_frame
<1>4. Head(chan[e]).line.bytes <= RECV_BUFFER_LIMIT
  BY <1>3, SessionAssumption, FramingAssumption
<1> QED
  BY <1>4, ConsumeTypes DEF Unread

\* Reading a message takes its type out of the direction.
LEMMA ConsumeKinds ==
    ASSUME TypeOK, NEW e \in Endpoint, FramesInv(e), chan[e] # <<>>, Consume(e)
    PROVE  /\ FramesInv(e)'
           /\ Kinds(e)' = Kinds(e) \ {Input(e)}
<1> DEFINE c == chan[e]
           d == chan'[e]
<1>1. c \in Seq(Packet)
  BY DEF TypeOK
<1>2. Len(c) \in Nat \ {0} /\ DOMAIN c = 1..Len(c)
  BY <1>1, LenProperties, EmptySeq
<1>3. d = Tail(c)
  BY ConsumeTail
<1>4. /\ Len(d) = Len(c) - 1 /\ DOMAIN d = 1..(Len(c) - 1)
      /\ \A i \in 1..(Len(c) - 1) : d[i] = c[i + 1]
  BY <1>1, <1>2, <1>3, HeadTailProperties, LenProperties
<1>5. \A i \in DOMAIN d : i + 1 \in DOMAIN c /\ d[i] = c[i + 1] /\ i + 1 # 1
  BY <1>2, <1>4
<1>6. \A j \in DOMAIN c : j = 1 \/ \E i \in DOMAIN d : j = i + 1
  <2> SUFFICES ASSUME NEW j \in DOMAIN c, j # 1
               PROVE  \E i \in DOMAIN d : j = i + 1
    OBVIOUS
  <2>1. j - 1 \in DOMAIN d /\ j = (j - 1) + 1
    BY <1>2, <1>4
  <2> QED
    BY <2>1
<1>7. FramesInv(e)'
  <2> SUFFICES ASSUME NEW i \in DOMAIN d
               PROVE  LET t == d[i].line.type
                      IN  /\ t \in {"Hello", "GetPeers", "Peers"} /\ d[i].line = write_frame(t, 1)
                          /\ t = "Hello" => i = 1
                          /\ \A j \in DOMAIN d : d[j].line.type = t => i = j
                          /\ t = "Peers" /\ Other(e) \in Public =>
                                d[i].peers # <<>> /\ d[i].peers[1] = Address[Other(e)]
    BY DEF FramesInv
  <2>1. i + 1 \in DOMAIN c /\ d[i] = c[i + 1] /\ i + 1 # 1
    BY <1>5
  <2>2. \A j \in DOMAIN d : d[j].line.type = d[i].line.type => i + 1 = j + 1
    BY <1>5, <2>1 DEF FramesInv
  <2>3. \A j \in DOMAIN d : d[j].line.type = d[i].line.type => i = j
    BY <1>2, <1>4, <2>2
  <2> QED
    BY <2>1, <2>3 DEF FramesInv
<1>8. Kinds(e)' = Kinds(e) \ {Input(e)}
  <2>1. Input(e) = c[1].line.type /\ 1 \in DOMAIN c
    BY <1>1, <1>2, NodeInput, HeadTailProperties
  <2>2. ASSUME NEW i \in DOMAIN d
        PROVE  d[i].line.type \in Kinds(e) \ {Input(e)}
    <3>1. i + 1 \in DOMAIN c /\ d[i] = c[i + 1] /\ i + 1 # 1
      BY <1>5
    <3>2. c[i + 1].line.type # c[1].line.type
      BY <2>1, <3>1 DEF FramesInv
    <3>3. c[i + 1].line.type \in Kinds(e)
      BY <3>1 DEF Kinds
    <3> QED
      BY <2>1, <3>1, <3>2, <3>3
  <2>3. ASSUME NEW j \in DOMAIN c, c[j].line.type # Input(e)
        PROVE  \E i \in DOMAIN d : d[i].line.type = c[j].line.type
    BY <1>5, <1>6, <2>1, <2>3
  <2> QED
    BY <2>2, <2>3 DEF Kinds
<1> QED
  BY <1>7, <1>8

\* A message that is not on its way yet may be sent, a Hello into an empty
\* direction only.
LEMMA AppendKinds ==
    ASSUME TypeOK, NEW e \in Endpoint, FramesInv(Other(e)),
           NEW t \in {"Hello", "GetPeers", "Peers"}, t \notin Kinds(Other(e)),
           t = "Hello" => chan[Other(e)] = <<>>,
           NEW f \in Packet, f.line = write_frame(t, 1),
           t = "Peers" /\ e \in Public => f.peers # <<>> /\ f.peers[1] = Address[e],
           chan' = [chan EXCEPT ![Other(e)] = Append(@, f)]
    PROVE  /\ FramesInv(Other(e))'
           /\ Kinds(Other(e))' = Kinds(Other(e)) \cup {t}
           /\ chan'[e] = chan[e]
<1> DEFINE o == Other(e)
           c == chan[o]
           d == chan'[o]
           n == Len(c) + 1
<1>1. c \in Seq(Packet) /\ o \in Endpoint /\ Other(o) = e
  BY Ends DEF TypeOK
<1>2. Len(c) \in Nat /\ DOMAIN c = 1..Len(c)
  BY <1>1, LenProperties
<1>3. d = Append(c, f) /\ chan'[e] = chan[e]
  BY Ends DEF TypeOK
<1>4. /\ DOMAIN d = 1..n /\ d[n] = f
      /\ \A i \in 1..Len(c) : d[i] = c[i]
  BY <1>1, <1>2, <1>3, AppendProperties, LenProperties
<1>5. f.line.type = t
  BY OwnFrames
<1>6. \A i \in DOMAIN d : (i \in DOMAIN c /\ d[i] = c[i] /\ i # n) \/ i = n
  BY <1>2, <1>4
<1>7. \A i \in DOMAIN c : i \in DOMAIN d /\ d[i] = c[i] /\ d[i].line.type # t
  BY <1>2, <1>4 DEF Kinds
<1>8. FramesInv(o)'
  <2> SUFFICES ASSUME NEW i \in DOMAIN d
               PROVE  LET u == d[i].line.type
                      IN  /\ u \in {"Hello", "GetPeers", "Peers"} /\ d[i].line = write_frame(u, 1)
                          /\ u = "Hello" => i = 1
                          /\ \A j \in DOMAIN d : d[j].line.type = u => i = j
                          /\ u = "Peers" /\ e \in Public =>
                                d[i].peers # <<>> /\ d[i].peers[1] = Address[e]
    BY <1>1 DEF FramesInv
  <2>1. CASE i = n
    <3>1. t = "Hello" => n = 1
      BY <1>2, EmptySeq
    <3>2. \A j \in DOMAIN d : d[j].line.type = t => n = j
      BY <1>6, <1>7
    <3> QED
      BY <1>4, <1>5, <2>1, <3>1, <3>2
  <2>2. CASE i \in DOMAIN c
    <3>1. d[i] = c[i] /\ c[i].line.type # t
      BY <1>7, <2>2
    <3>2. \A j \in DOMAIN d : d[j].line.type = d[i].line.type => i = j
      BY <1>4, <1>5, <1>6, <2>2, <3>1 DEF FramesInv
    <3> QED
      BY <1>1, <2>2, <3>1, <3>2 DEF FramesInv
  <2> QED
    BY <1>6, <2>1, <2>2
<1>9. Kinds(o)' = Kinds(o) \cup {t}
  <2>1. n \in DOMAIN d
    BY <1>2, <1>4
  <2> QED
    BY <1>4, <1>5, <1>6, <1>7, <2>1 DEF Kinds
<1> QED
  BY <1>3, <1>8, <1>9

-----------------------------------------------------------------------------
(* The steps of two nodes *)

PairInv ==
    /\ BasicInv
    /\ TwoNodes
    /\ \A e \in Endpoint : FramesInv(e) /\ FlowInv(e)
    /\ RequestUnderWay

\* To be shown of both ends after a step of e.
LEMMA PairFromEnds ==
    ASSUME BasicInv', TwoNodes', NEW e \in Endpoint, NEW o, o = Other(e),
           FramesInv(e)', FramesInv(o)', FlowInv(e)', FlowInv(o)', RequestUnderWay'
    PROVE  PairInv'
BY Ends DEF PairInv

\* A socket is dropped, with or without a reset.
LEMMA ClosePair ==
    ASSUME PairInv, NEW e \in Endpoint, NEW res \in Result, NEW unread,
           CloseLeaving(e, res, unread)
    PROVE  PairInv'
<1> DEFINE o == Other(e)
<1>1. o \in Endpoint /\ o # e /\ Other(o) = e
  BY Ends
<1>2. BasicInv' /\ TwoNodes'
  BY CloseBasic DEF PairInv, CloseLeaving, TwoNodes
<1>3. chan'[e] = <<>> /\ chan'[o] \in {<<>>, chan[o]}
  BY CloseTypes DEF PairInv, BasicInv
<1>4. pc'[e] = "closed" /\ pc'[o] = pc[o] /\ known' = known
  BY <1>1 DEF PairInv, BasicInv, TypeOK, CloseLeaving
<1>5. FramesInv(e)' /\ Kinds(e)' = {}
  BY <1>2, <1>3, EmptyChannel DEF BasicInv
<1>6. FramesInv(o)' /\ Kinds(o)' \in {{}, Kinds(o)}
  BY <1>1, <1>2, <1>3, EmptyChannel, SameChannel DEF PairInv, BasicInv
<1>7. FlowInv(e) /\ FlowInv(o)
  BY <1>1 DEF PairInv
<1>8. FlowInv(e)'
  BY <1>1, <1>4, <1>5, <1>6, <1>7 DEF FlowInv, BeforeHello, Ungreeted, BeforeRequest, Closed
<1>9. FlowInv(o)'
  BY <1>1, <1>4, <1>5, <1>6, <1>7 DEF FlowInv, BeforeHello, Ungreeted, BeforeRequest, Closed
<1>10. RequestUnderWay'
  BY <1>1, <1>4, Ends DEF RequestUnderWay, Closed
<1> QED
  BY <1>2, <1>5, <1>6, <1>8, <1>9, <1>10, PairFromEnds

\* A frame for an end that is closed is lost.
LEMMA LostPair ==
    ASSUME PairInv, BasicInv', NEW e \in Endpoint, Closed(Other(e)), ~Closed(e),
           \/ pc[e] = "sendHello" /\ pc' = [pc EXCEPT ![e] = IF e = "Dialer" THEN "readHello" ELSE "sendGetPeers"]
           \/ pc[e] \in {"sendGetPeers", "reply"} /\ pc' = [pc EXCEPT ![e] = "loop"],
           UNCHANGED <<stranger, chan, result, greeted, known, strays>>
    PROVE  PairInv'
<1> DEFINE o == Other(e)
<1>1. o \in Endpoint /\ o # e /\ Other(o) = e /\ e \in {"Dialer", "Acceptor"}
  BY Ends DEF Endpoint
<1>2. TwoNodes'
  BY DEF PairInv, TwoNodes
<1>3. pc'[o] = "closed" /\ pc[o] = "closed" /\ known' = known
  BY <1>1 DEF PairInv, BasicInv, TypeOK, Closed
<1>4. \/ pc[e] = "sendHello" /\ pc'[e] = IF e = "Dialer" THEN "readHello" ELSE "sendGetPeers"
      \/ pc[e] \in {"sendGetPeers", "reply"} /\ pc'[e] = "loop"
  BY DEF PairInv, BasicInv, TypeOK
<1>5. FramesInv(e)' /\ Kinds(e)' = Kinds(e) /\ FramesInv(o)' /\ Kinds(o)' = Kinds(o)
  BY <1>1, SameChannel DEF PairInv
<1>6. Kinds(o) = {}
  BY <1>1, <1>3, KindsEmpty DEF PairInv, BasicInv, EndInv, Closed
<1>7. FlowInv(e) /\ FlowInv(o)
  BY <1>1 DEF PairInv
<1>8. FlowInv(e)'
  BY <1>1, <1>3, <1>4, <1>5, <1>6, <1>7 DEF FlowInv, BeforeHello, Ungreeted, BeforeRequest, Closed
<1>9. FlowInv(o)'
  BY <1>1, <1>3, <1>4, <1>5, <1>6, <1>7 DEF FlowInv, BeforeHello, Ungreeted, BeforeRequest, Closed
<1>10. RequestUnderWay'
  BY <1>1, <1>3, Ends DEF RequestUnderWay, Closed
<1> QED
  BY <1>2, <1>5, <1>8, <1>9, <1>10, PairFromEnds

\* The Hello goes into an empty direction, to an end that still waits for it.
LEMMA SendHelloPair ==
    ASSUME PairInv, BasicInv', NEW e \in Endpoint, SendHello(e)
    PROVE  PairInv'
<1> DEFINE o == Other(e)
           next == IF e = "Dialer" THEN "readHello" ELSE "sendGetPeers"
<1>1. o \in Endpoint /\ o # e /\ Other(o) = e /\ e \in {"Dialer", "Acceptor"}
  BY Ends DEF Endpoint
<1>2. CASE Close(e, "Io")
  BY <1>2, ClosePair DEF Close, Result, ReadError
<1>3. CASE Closed(o) /\ pc' = [pc EXCEPT ![e] = next]
           /\ UNCHANGED <<stranger, chan, result, greeted, known, strays>>
  BY <1>3, LostPair DEF SendHello, Closed
<1>4. CASE /\ ~Closed(o)
           /\ chan' = [chan EXCEPT ![o] = Append(@, Sent("Hello"))]
           /\ pc' = [pc EXCEPT ![e] = next]
           /\ UNCHANGED <<stranger, result, greeted, known, strays>>
  <2>1. TypeOK /\ FramesInv(o) /\ FramesInv(e) /\ FlowInv(e) /\ FlowInv(o) /\ TwoNodes'
    BY <1>1, <1>4 DEF PairInv, BasicInv, TwoNodes
  <2>2. pc[e] = "sendHello" /\ pc'[e] = next /\ pc'[o] = pc[o] /\ known' = known
    BY <1>1, <1>4, <2>1 DEF TypeOK, SendHello
  <2>3. Kinds(o) = {} /\ chan[o] = <<>>
    BY <1>1, <2>1, <2>2, KindsEmpty DEF FlowInv, BeforeHello
  <2>4. Sent("Hello") \in Packet /\ Sent("Hello").line = write_frame("Hello", 1)
    BY PacketSent
  <2>5. FramesInv(o)' /\ Kinds(o)' = {"Hello"} /\ chan'[e] = chan[e]
    BY <1>1, <1>4, <2>1, <2>3, <2>4, AppendKinds
  <2>6. FramesInv(e)' /\ Kinds(e)' = Kinds(e)
    BY <2>1, <2>5, SameChannel
  <2>7. FlowInv(e)'
    BY <1>1, <1>4, <2>1, <2>2, <2>3, <2>5, <2>6 DEF FlowInv, BeforeHello, Ungreeted, BeforeRequest, Closed
  <2>8. FlowInv(o)'
    BY <1>1, <1>4, <2>1, <2>2, <2>3, <2>5, <2>6 DEF FlowInv, BeforeHello, Ungreeted, BeforeRequest, Closed
  <2>9. RequestUnderWay'
    <3>1. pc[o] \notin {"loop", "reply"} /\ pc'[e] \notin {"loop", "reply"}
      BY <1>1, <1>4, <2>1, <2>2 DEF FlowInv, BeforeHello, Ungreeted, Closed
    <3> QED
      BY <1>1, <2>2, <3>1, Ends DEF RequestUnderWay
  <2> QED
    BY <2>1, <2>5, <2>6, <2>7, <2>8, <2>9, PairFromEnds
<1> QED
  BY <1>2, <1>3, <1>4 DEF SendHello, Write

\* The only request of an end, and from now on it is under way.
LEMMA SendGetPeersPair ==
    ASSUME PairInv, BasicInv', NEW e \in Endpoint, SendGetPeers(e)
    PROVE  PairInv'
<1> DEFINE o == Other(e)
<1>1. o \in Endpoint /\ o # e /\ Other(o) = e
  BY Ends
<1>2. CASE Close(e, "Io")
  BY <1>2, ClosePair DEF Close, Result, ReadError
<1>3. CASE Closed(o) /\ pc' = [pc EXCEPT ![e] = "loop"]
           /\ UNCHANGED <<stranger, chan, result, greeted, known, strays>>
  BY <1>3, LostPair DEF SendGetPeers, Closed
<1>4. CASE /\ ~Closed(o)
           /\ chan' = [chan EXCEPT ![o] = Append(@, Sent("GetPeers"))]
           /\ pc' = [pc EXCEPT ![e] = "loop"]
           /\ UNCHANGED <<stranger, result, greeted, known, strays>>
  <2>1. TypeOK /\ FramesInv(o) /\ FramesInv(e) /\ FlowInv(e) /\ FlowInv(o) /\ TwoNodes'
    BY <1>1, <1>4 DEF PairInv, BasicInv, TwoNodes
  <2>2. pc[e] = "sendGetPeers" /\ pc'[e] = "loop" /\ pc'[o] = pc[o] /\ known' = known
    BY <1>1, <1>4, <2>1 DEF TypeOK, SendGetPeers
  <2>3. "GetPeers" \notin Kinds(o) /\ "Peers" \notin Kinds(e)
    BY <1>1, <2>1, <2>2 DEF FlowInv, BeforeRequest
  <2>4. Sent("GetPeers") \in Packet /\ Sent("GetPeers").line = write_frame("GetPeers", 1)
    BY PacketSent
  <2>5. FramesInv(o)' /\ Kinds(o)' = Kinds(o) \cup {"GetPeers"} /\ chan'[e] = chan[e]
    BY <1>1, <1>4, <2>1, <2>3, <2>4, AppendKinds
  <2>6. FramesInv(e)' /\ Kinds(e)' = Kinds(e)
    BY <2>1, <2>5, SameChannel
  <2>7. FlowInv(e)'
    BY <1>1, <1>4, <2>1, <2>2, <2>3, <2>5, <2>6 DEF FlowInv, BeforeHello, Ungreeted, BeforeRequest, Closed
  <2>8. FlowInv(o)'
    BY <1>1, <1>4, <2>1, <2>2, <2>3, <2>5, <2>6 DEF FlowInv, BeforeHello, Ungreeted, BeforeRequest, Closed
  <2>9. RequestUnderWay'
    BY <1>1, <1>4, <2>1, <2>2, <2>5, <2>6, Ends DEF PairInv, RequestUnderWay, Closed
  <2> QED
    BY <2>1, <2>5, <2>6, <2>7, <2>8, <2>9, PairFromEnds
<1> QED
  BY <1>2, <1>3, <1>4 DEF SendGetPeers, Write

\* The only answer of an end.
LEMMA ReplyPair ==
    ASSUME PairInv, BasicInv', NEW e \in Endpoint, Reply(e)
    PROVE  PairInv'
<1> DEFINE o == Other(e)
<1>1. o \in Endpoint /\ o # e /\ Other(o) = e
  BY Ends
<1>2. PICK s \in pick_and_build_peers(e) : Write(e, SentPeers(s), "loop")
  BY DEF Reply
<1>3. CASE Close(e, "Io")
  BY <1>3, ClosePair DEF Close, Result, ReadError
<1>4. CASE Closed(o) /\ pc' = [pc EXCEPT ![e] = "loop"]
           /\ UNCHANGED <<stranger, chan, result, greeted, known, strays>>
  BY <1>4, LostPair DEF Reply, Closed
<1>5. CASE /\ ~Closed(o)
           /\ chan' = [chan EXCEPT ![o] = Append(@, SentPeers(s))]
           /\ pc' = [pc EXCEPT ![e] = "loop"]
           /\ UNCHANGED <<stranger, result, greeted, known, strays>>
  <2>1. TypeOK /\ FramesInv(o) /\ FramesInv(e) /\ FlowInv(e) /\ FlowInv(o) /\ TwoNodes'
    BY <1>1, <1>5 DEF PairInv, BasicInv, TwoNodes
  <2>2. pc[e] = "reply" /\ pc'[e] = "loop" /\ pc'[o] = pc[o] /\ known' = known
    BY <1>1, <1>5, <2>1 DEF TypeOK, Reply
  <2>3. "Peers" \notin Kinds(o) /\ "GetPeers" \notin Kinds(e)
    BY <1>1, <2>1, <2>2 DEF FlowInv
  <2>4. s \in Seq(Peer) /\ (e \in Public => s # <<>> /\ s[1] = Address[e])
    BY AnswerLists DEF PairInv, BasicInv, EndInv
  <2>5. SentPeers(s) \in Packet /\ SentPeers(s).line = write_frame("Peers", 1) /\ SentPeers(s).peers = s
    BY <2>4, OwnFrames DEF SentPeers, Packet
  <2>6. FramesInv(o)' /\ Kinds(o)' = Kinds(o) \cup {"Peers"} /\ chan'[e] = chan[e]
    BY <1>1, <1>5, <2>1, <2>3, <2>4, <2>5, AppendKinds
  <2>7. FramesInv(e)' /\ Kinds(e)' = Kinds(e)
    BY <2>1, <2>6, SameChannel
  <2>8. FlowInv(e)'
    BY <1>1, <1>5, <2>1, <2>2, <2>3, <2>6, <2>7 DEF FlowInv, BeforeHello, Ungreeted, BeforeRequest, Closed
  <2>9. FlowInv(o)'
    BY <1>1, <1>5, <2>1, <2>2, <2>3, <2>6, <2>7 DEF FlowInv, BeforeHello, Ungreeted, BeforeRequest, Closed
  <2>10. RequestUnderWay'
    BY <1>1, <1>5, <2>1, <2>2, <2>6, <2>7, Ends DEF PairInv, RequestUnderWay, Closed
  <2> QED
    BY <2>1, <2>6, <2>7, <2>8, <2>9, <2>10, PairFromEnds
<1> QED
  BY <1>2, <1>3, <1>4, <1>5 DEF Write

\* An end takes the Hello of the other.
LEMMA HelloArrivesPair ==
    ASSUME PairInv, BasicInv', NEW e \in Endpoint, HelloArrives(e)
    PROVE  PairInv'
<1> DEFINE o == Other(e)
<1>1. o \in Endpoint /\ o # e /\ Other(o) = e /\ e \in {"Dialer", "Acceptor"}
  BY Ends DEF Endpoint
<1>2. TypeOK /\ FramesInv(o) /\ FramesInv(e) /\ FlowInv(e) /\ FlowInv(o) /\ TwoNodes'
  BY <1>1 DEF PairInv, BasicInv, TwoNodes, HelloArrives, ReadOn
<1>3. Input(e) = "Hello" /\ chan[e] # <<>>
  BY <1>2, InputFromChannel DEF HelloArrives, Greets, ReadError
<1>4. /\ pc[e] = "readHello" /\ pc'[e] = IF e = "Dialer" THEN "sendGetPeers" ELSE "sendHello"
      /\ pc'[o] = pc[o] /\ known' = known /\ Consume(e)
  BY <1>1, <1>2 DEF TypeOK, HelloArrives, ReadOn, GoesOn
<1>5. FramesInv(e)' /\ Kinds(e)' = Kinds(e) \ {"Hello"} /\ "Hello" \in Kinds(e)
  BY <1>2, <1>3, <1>4, ConsumeKinds, NodeInput
<1>6. FramesInv(o)' /\ Kinds(o)' = Kinds(o)
  BY <1>1, <1>2, <1>4, ConsumeTypes, SameChannel
<1>7. FlowInv(e)'
  BY <1>1, <1>2, <1>4, <1>5, <1>6 DEF FlowInv, BeforeHello, Ungreeted, BeforeRequest, Closed
<1>8. FlowInv(o)'
  BY <1>1, <1>2, <1>4, <1>5, <1>6 DEF FlowInv, BeforeHello, Ungreeted, BeforeRequest, Closed
<1>9. RequestUnderWay'
  BY <1>1, <1>2, <1>4, <1>5, <1>6, Ends DEF PairInv, RequestUnderWay, Closed
<1> QED
  BY <1>2, <1>5, <1>6, <1>7, <1>8, <1>9, PairFromEnds

\* In its message loop an end takes the request or the answer of the other.
LEMMA MessageArrivesPair ==
    ASSUME PairInv, BasicInv', NEW e \in Endpoint, MessageArrives(e)
    PROVE  PairInv'
<1> DEFINE o == Other(e)
<1>1. o \in Endpoint /\ o # e /\ Other(o) = e
  BY Ends
<1>2. TypeOK /\ FramesInv(o) /\ FramesInv(e) /\ FlowInv(e) /\ FlowInv(o) /\ TwoNodes'
  BY <1>1 DEF PairInv, BasicInv, TwoNodes, MessageArrives, ReadOn
<1>3. chan[e] # <<>>
  BY <1>2, InputFromChannel DEF MessageArrives
<1>4. /\ pc[e] = "loop" /\ pc'[e] = IF Input(e) = "GetPeers" THEN "reply" ELSE "loop"
      /\ pc'[o] = pc[o] /\ Consume(e)
  BY <1>1, <1>2 DEF TypeOK, MessageArrives, ReadOn
<1>5. Input(e) \in Kinds(e) /\ Input(e) \in {"GetPeers", "Peers"}
  BY <1>2, <1>3, <1>4, NodeInput DEF FlowInv, Ungreeted
<1>6. FramesInv(e)' /\ Kinds(e)' = Kinds(e) \ {Input(e)}
  BY <1>2, <1>3, <1>4, ConsumeKinds
<1>7. FramesInv(o)' /\ Kinds(o)' = Kinds(o)
  BY <1>1, <1>2, <1>4, ConsumeTypes, SameChannel
<1>8. FlowInv(e)'
  BY <1>1, <1>2, <1>4, <1>5, <1>6, <1>7 DEF FlowInv, BeforeHello, Ungreeted, BeforeRequest, Closed
<1>9. FlowInv(o)'
  BY <1>1, <1>2, <1>4, <1>5, <1>6, <1>7 DEF FlowInv, BeforeHello, Ungreeted, BeforeRequest, Closed
<1>10. PICK K \in IF Input(e) = "Peers" THEN import_peers(e, Head(chan[e]).peers) ELSE {known[e]} :
              known' = [known EXCEPT ![e] = K]
  BY DEF MessageArrives
<1>11. known'[e] = K /\ known'[o] = known[o]
  BY <1>1, <1>2, <1>10 DEF TypeOK
<1>12. known[e] \subseteq K /\ (Input(e) = "Peers" /\ o \in Public /\ Address[o] \notin Banned => Address[o] \in K)
  <2>1. IsFiniteSet(known[e])
    BY DEF PairInv, BasicInv, EndInv
  <2>2. Head(chan[e]).peers \in Seq(Peer)
    BY <1>2, <1>3, InputTypes DEF Packet
  <2>3. Input(e) = "Peers" /\ o \in Public => Head(chan[e]).peers # <<>> /\ Head(chan[e]).peers[1] = Address[o]
    <3>1. Head(chan[e]) = chan[e][1] /\ 1 \in DOMAIN chan[e]
      BY <1>2, <1>3, HeadTailProperties, LenProperties, EmptySeq DEF TypeOK
    <3> QED
      BY <1>2, <1>3, <3>1, NodeInput DEF FramesInv
  <2> QED
    BY <1>2, <1>10, <2>1, <2>2, <2>3, ImportAdds
<1>13. RequestUnderWay'
  BY <1>1, <1>2, <1>4, <1>5, <1>6, <1>7, <1>11, <1>12, Ends DEF PairInv, RequestUnderWay, Closed
<1> QED
  BY <1>2, <1>6, <1>7, <1>8, <1>9, <1>13, PairFromEnds

\* Neither refuses what the other sends.
LEMMA NothingIsRefused ==
    ASSUME PairInv, NEW e \in Endpoint
    PROVE  ~WrongGreeting(e) /\ ~BadFrameArrives(e)
<1>1. TypeOK /\ FramesInv(e) /\ FlowInv(e)
  BY DEF PairInv, BasicInv
<1>2. CASE chan[e] = <<>>
  BY <1>1, <1>2, InputFromChannel DEF WrongGreeting, BadFrameArrives, ReadError
<1>3. CASE chan[e] # <<>>
  <2>1. Input(e) \notin ReadError
    BY <1>1, <1>3, NodeInput
  <2>2. pc[e] = "readHello" => Input(e) = "Hello"
    BY <1>1, <1>3, NodeInput, KindsEmpty DEF FlowInv, Ungreeted
  <2> QED
    BY <2>1, <2>2 DEF WrongGreeting, BadFrameArrives, Greets, ReadError
<1> QED
  BY <1>2, <1>3

\* Two nodes take no other steps.
LEMMA PairStep ==
    ASSUME PairInv, [Next]_vars
    PROVE  PairInv'
<1>1. BasicInv'
  BY BasicStep DEF PairInv
<1>2. \A e \in Endpoint : pc[e] \notin {"stranger", "refuse", "hangup"}
  BY DEF PairInv, BasicInv, EndInv, TwoNodes, Endpoint, FlowInv
<1>3. \A e \in Endpoint : ~WrongGreeting(e) /\ ~BadFrameArrives(e)
  BY NothingIsRefused
<1>4. ASSUME NEW e \in Endpoint, NoGreeting(e) \/ HelloTimeout(e) \/ StreamEnds(e) \/ Breaks(e)
      PROVE  PairInv'
  <2>1. PICK res \in {Input(e), "InvalidHandshake", "Io"} :
               res \in Result /\ \E unread : CloseLeaving(e, res, unread)
    BY <1>4 DEF NoGreeting, HelloTimeout, StreamEnds, Breaks, Close, ReadAndClose, Result, ReadError
  <2> QED
    BY <2>1, ClosePair
<1>5. ASSUME NEW e \in Endpoint, Handshake(e)
      PROVE  PairInv'
  BY <1>1, <1>3, <1>4, <1>5, SendHelloPair, HelloArrivesPair, SendGetPeersPair DEF Handshake
<1>6. ASSUME NEW e \in Endpoint, MessageLoop(e)
      PROVE  PairInv'
  BY <1>1, <1>2, <1>3, <1>4, <1>6, MessageArrivesPair, ReplyPair DEF MessageLoop, SendError, Hangup
<1>7. CASE UNCHANGED vars
  <2>1. \A e \in Endpoint : Kinds(e)' = Kinds(e) /\ (FramesInv(e) => FramesInv(e)')
    BY <1>7, SameChannel DEF vars
  <2>2. \A e \in Endpoint : FlowInv(e) => FlowInv(e)'
    BY <1>7, <2>1, Ends DEF vars, FlowInv, BeforeHello, Ungreeted, BeforeRequest, Closed
  <2>3. RequestUnderWay'
    BY <1>7, <2>1, Ends DEF vars, PairInv, TwoNodes, Closed, RequestUnderWay
  <2> QED
    BY <1>1, <1>7, <2>1, <2>2, <2>3 DEF vars, PairInv, TwoNodes
<1> QED
  BY <1>2, <1>4, <1>5, <1>6, <1>7
  DEF Next, Node, StrangerSends, StrangerReads, StrangerCloses

LEMMA PairInit ==
    ASSUME Init, TwoNodes
    PROVE  PairInv
<1>1. BasicInv
  BY BasicInit
<1>2. \A e \in Endpoint : chan[e] = <<>>
  BY DEF Init
<1>3. \A e \in Endpoint : DOMAIN chan[e] = {}
  BY <1>2, EmptySeq
<1>4. \A e \in Endpoint : FramesInv(e) /\ Kinds(e) = {}
  BY <1>3 DEF FramesInv, Kinds
<1>5. pc["Dialer"] = "sendHello" /\ pc["Acceptor"] = "readHello"
  BY DEF Init, TwoNodes, Endpoint
<1>6. \A e \in Endpoint : FlowInv(e)
  BY <1>4, <1>5 DEF FlowInv, BeforeHello, Ungreeted, BeforeRequest, Closed, Endpoint, Other
<1>7. RequestUnderWay
  BY <1>5 DEF RequestUnderWay, Endpoint
<1> QED
  BY <1>1, <1>4, <1>6, <1>7 DEF PairInv

\* A node does not become a stranger.
LEMMA StrangerStays ==
    ASSUME [Next]_vars
    PROVE  stranger' = stranger
<1>1. ASSUME NEW e \in Endpoint, Node(e) \/ Breaks(e)
      PROVE  stranger' = stranger
  BY <1>1 DEF Node, Breaks, Handshake, HelloTimeout, MessageLoop, SendHello, HelloArrives,
     WrongGreeting, NoGreeting, SendGetPeers, MessageArrives, Reply, BadFrameArrives, StreamEnds,
     SendError, Hangup, Write, ReadOn, Close, ReadAndClose, CloseLeaving
<1> QED
  BY <1>1 DEF Next, vars, StrangerSends, StrangerReads, StrangerCloses, Close, CloseLeaving

-----------------------------------------------------------------------------
(* Theorems *)

\* The inductive invariant of a connection holds for any capacity, any peers and
\* any frames a stranger may send.
THEOREM SessionInvariant == Spec => []SessionInv
<1>1. Init => SessionInv
  BY BasicInit, PairInit DEF SessionInv, BasicInv, PairInv, RequestUnderWay
<1>2. ASSUME SessionInv, [Next]_vars
      PROVE  SessionInv'
  <2>1. BasicInv /\ BasicInv'
    BY <1>2, BasicStep DEF SessionInv, BasicInv
  <2>2. stranger' = stranger
    BY <1>2, StrangerStays
  <2>3. CASE TwoNodes
    <3>1. PairInv
      BY <1>2, <2>1, <2>3 DEF SessionInv, PairInv
    <3>2. PairInv'
      BY <1>2, <3>1, PairStep
    <3> QED
      BY <3>2 DEF SessionInv, BasicInv, PairInv
  <2>4. CASE ~TwoNodes
    BY <2>1, <2>2, <2>4 DEF SessionInv, BasicInv, TwoNodes, RequestUnderWay
  <2> QED
    BY <2>3, <2>4
<1> QED
  BY <1>1, <1>2, PTL DEF Spec

\* Types and the bound on each direction, whatever a stranger sends.
THEOREM SessionTyped == Spec => []TypeOK
<1>1. SessionInv => TypeOK
  BY DEF SessionInv
<1> QED
  BY <1>1, SessionInvariant, PTL

\* Nobody is served without a Hello, whatever a stranger sends and in any order.
THEOREM OnlyGreetedAreServed == Spec => []ServesOnlyGreeted
<1>1. SessionInv => ServesOnlyGreeted
  BY DEF SessionInv, EndInv, ServesOnlyGreeted, Closed, Ungreeted
<1> QED
  BY <1>1, SessionInvariant, PTL

\* Two nodes never meet a frame they would refuse.
THEOREM NodesUnderstandEachOther == Spec => []NextFrameIsExpected
<1>1. ASSUME SessionInv, NEW e \in Endpoint, TwoNodes, chan[e] # <<>>
      PROVE  /\ pc[e] = "readHello" => read_frame(Head(chan[e]).line) = "Hello"
             /\ pc[e] = "loop" => read_frame(Head(chan[e]).line) \in {"GetPeers", "Peers"}
  <2>1. TypeOK /\ FramesInv(e) /\ FlowInv(e)
    BY <1>1 DEF SessionInv
  <2>2. Input(e) = read_frame(Head(chan[e]).line)
    BY <1>1, <2>1, InputFromChannel
  <2>3. Kinds(e) # {}
    BY <1>1, <2>1, KindsEmpty
  <2> QED
    BY <1>1, <2>1, <2>2, <2>3, NodeInput DEF FlowInv, Ungreeted
<1>2. SessionInv => NextFrameIsExpected
  BY <1>1 DEF NextFrameIsExpected
<1> QED
  BY <1>2, SessionInvariant, PTL

\* Two nodes never wait for each other to read, even if a direction holds a
\* single frame: one of the two directions is empty whenever both write.
THEOREM NoDeadlockOfWriters == Spec => []NoMutualWait
<1>1. ASSUME SessionInv, TwoNodes, \A e \in Endpoint : Waiting(e)
      PROVE  FALSE
  <2> DEFINE e == "Dialer"
             o == "Acceptor"
  <2>1. e \in Endpoint /\ o \in Endpoint /\ Other(e) = o /\ Other(o) = e
    BY DEF Endpoint, Other
  <2>2. TypeOK /\ FramesInv(e) /\ FramesInv(o) /\ FlowInv(e) /\ FlowInv(o)
    BY <1>1, <2>1 DEF SessionInv
  <2>3. chan[e] # <<>> /\ chan[o] # <<>>
    BY <1>1, <2>1, EmptySeq, SessionAssumption DEF Waiting
  <2>4. Kinds(e) # {} /\ Kinds(o) # {}
    BY <2>1, <2>2, <2>3, KindsEmpty
  <2>5. /\ Kinds(e) \subseteq {"Hello", "GetPeers", "Peers"}
        /\ Kinds(o) \subseteq {"Hello", "GetPeers", "Peers"}
    BY <2>2 DEF Kinds, FramesInv
  <2>6. pc[e] \in {"sendGetPeers", "reply"} /\ pc[o] \in {"sendGetPeers", "reply"}
    BY <1>1, <2>1, <2>2, <2>4 DEF Waiting, FlowInv, BeforeHello
  <2> QED
    BY <2>1, <2>2, <2>4, <2>5, <2>6 DEF FlowInv, BeforeRequest, Ungreeted
<1>2. SessionInv => NoMutualWait
  BY <1>1 DEF NoMutualWait
<1> QED
  BY <1>2, SessionInvariant, PTL

\* The one request of a node is under way until it has brought the address of the
\* other, for any length of the answers and wherever the file fails.
THEOREM RequestsAreNotLost == Spec => []RequestUnderWay
<1>1. SessionInv => RequestUnderWay
  BY DEF SessionInv
<1> QED
  BY <1>1, SessionInvariant, PTL

-----------------------------------------------------------------------------
(* The exchange that a connection implements *)

\* The two ends are those of PeerExchange, and what its variables stand for.
LEMMA SameEnds ==
    ASSUME NEW e \in Endpoint
    PROVE  /\ Exchange!Endpoint = Endpoint /\ Exchange!Other(e) = Other(e)
           /\ Phases[e] = Phase(e) /\ Mail[e] = Answers(e) /\ (e \in Open <=> ~Closed(e))
           /\ Phases'[e] = Phase(e)' /\ Mail'[e] = Answers(e)' /\ (e \in Open' <=> ~Closed(e)')
BY DEF Exchange!Endpoint, Exchange!Other, Endpoint, Other, Phases, Mail, Open

\* Peers are on their way in Peers messages only.
LEMMA AnswersOfKinds ==
    ASSUME NEW e \in Endpoint, "Peers" \notin Kinds(e)
    PROVE  Answers(e) = {}
BY DEF Answers, Kinds

LEMMA AnswersStay ==
    ASSUME NEW e \in Endpoint, chan'[e] = chan[e]
    PROVE  Answers(e)' = Answers(e)
BY DEF Answers

\* The answer on its way to a node is all that is on its way.
LEMMA AnswerIs ==
    ASSUME NEW e \in Endpoint, FramesInv(e),
           NEW i \in DOMAIN chan[e], chan[e][i].line.type = "Peers"
    PROVE  Answers(e) = Listed(chan[e][i])
<1>1. \A j \in DOMAIN chan[e] : chan[e][j].line.type = "Peers" => i = j
  BY DEF FramesInv
<1>2. {j \in DOMAIN chan[e] : chan[e][j].line.type = "Peers"} = {i}
  BY <1>1
<1> QED
  BY <1>2 DEF Answers

\* Reading another message leaves the answer on its way.
LEMMA AnswersAfterRead ==
    ASSUME TypeOK, NEW e \in Endpoint, FramesInv(e), chan[e] # <<>>, Consume(e),
           Input(e) # "Peers"
    PROVE  Answers(e)' = Answers(e)
<1> DEFINE c == chan[e]
           d == chan'[e]
<1>1. c \in Seq(Packet)
  BY DEF TypeOK
<1>2. Len(c) \in Nat \ {0} /\ DOMAIN c = 1..Len(c)
  BY <1>1, LenProperties, EmptySeq
<1>3. /\ Len(d) = Len(c) - 1 /\ DOMAIN d = 1..(Len(c) - 1)
      /\ \A i \in 1..(Len(c) - 1) : d[i] = c[i + 1]
  <2>1. d = Tail(c)
    BY ConsumeTail
  <2> QED
    BY <1>1, <1>2, <2>1, HeadTailProperties, LenProperties
<1>4. c[1].line.type # "Peers"
  BY <1>1, NodeInput, HeadTailProperties
<1> HIDE DEF c, d
<1>5. \A i \in DOMAIN d : i + 1 \in DOMAIN c /\ d[i] = c[i + 1]
  BY <1>2, <1>3
<1>6. ASSUME NEW j \in DOMAIN c, c[j].line.type = "Peers"
      PROVE  j - 1 \in DOMAIN d /\ d[j - 1] = c[j]
  <2>1. j # 1
    BY <1>4, <1>6
  <2> QED
    BY <1>2, <1>3, <2>1
<1>7. {Listed(d[i]) : i \in {j \in DOMAIN d : d[j].line.type = "Peers"}}
        = {Listed(c[i]) : i \in {j \in DOMAIN c : c[j].line.type = "Peers"}}
  BY <1>5, <1>6
<1> QED
  BY <1>7 DEF Answers, c, d, Listed

\* A message that is sent is added to what is on its way.
LEMMA AnswersAfterWrite ==
    ASSUME TypeOK, NEW e \in Endpoint, NEW f \in Packet, chan' = [chan EXCEPT ![e] = Append(@, f)],
           "Peers" \notin Kinds(e) \/ f.line.type # "Peers"
    PROVE  Answers(e)' = IF f.line.type = "Peers" THEN Listed(f) ELSE Answers(e)
<1> DEFINE c == chan[e]
           d == chan'[e]
           n == Len(c) + 1
<1>1. c \in Seq(Packet)
  BY DEF TypeOK
<1>2. Len(c) \in Nat /\ DOMAIN c = 1..Len(c)
  BY <1>1, LenProperties
<1>3. d = Append(c, f)
  BY DEF TypeOK
<1>4. /\ DOMAIN d = 1..n /\ d[n] = f
      /\ \A i \in 1..Len(c) : d[i] = c[i]
  BY <1>1, <1>2, <1>3, AppendProperties, LenProperties
<1> DEFINE I == {j \in DOMAIN c : c[j].line.type = "Peers"}
           J == {j \in DOMAIN d : d[j].line.type = "Peers"}
<1>5. Answers(e) = UNION {Listed(c[i]) : i \in I} /\ Answers(e)' = UNION {Listed(d[i]) : i \in J}
  BY DEF Answers, Listed
<1> HIDE DEF c, d
<1>6. J = I \cup {j \in {n} : f.line.type = "Peers"} /\ \A i \in I : d[i] = c[i]
  BY <1>2, <1>4
<1>7. f.line.type = "Peers" => I = {}
  BY DEF Kinds, c
<1>8. CASE f.line.type = "Peers"
  <2>1. J = {n}
    BY <1>6, <1>7, <1>8
  <2> HIDE DEF I, J, n
  <2> QED
    BY <1>4, <1>5, <1>8, <2>1
<1>9. CASE f.line.type # "Peers"
  <2>1. J = I
    BY <1>6, <1>9
  <2>2. {Listed(d[i]) : i \in J} = {Listed(c[i]) : i \in I}
    BY <1>6, <2>1
  <2> QED
    BY <1>5, <1>9, <2>2
<1> QED
  BY <1>8, <1>9

\* A step that one end alone takes in the exchange, or neither.
LEMMA OneEndMoves ==
    ASSUME NEW e \in Endpoint, Phase(Other(e))' = Phase(Other(e))
    PROVE  Phases' = [Phases EXCEPT ![e] = Phase(e)']
BY Ends DEF Phases

LEMMA OneEndIsMailed ==
    ASSUME NEW e \in Endpoint, Answers(Other(e))' = Answers(Other(e))
    PROVE  Mail' = [Mail EXCEPT ![e] = Answers(e)']
BY Ends DEF Mail

LEMMA SilentStep ==
    ASSUME NEW e \in Endpoint, NEW o, o = Other(e),
           Phase(e)' = Phase(e), Phase(o)' = Phase(o),
           Answers(e)' = Answers(e), Answers(o)' = Answers(o),
           Closed(e)' <=> Closed(e), Closed(o)' <=> Closed(o), known' = known
    PROVE  UNCHANGED Exchange!vars
<1>1. Phases' = Phases
  BY Ends DEF Phases
<1>2. Mail' = Mail
  BY Ends DEF Mail
<1>3. Open' = Open
  BY Ends DEF Open
<1> QED
  BY <1>1, <1>2, <1>3 DEF Exchange!vars

\* What PairInv says of the phases: an end that still has to ask is owed nothing,
\* and an answer excludes its request.
LEMMA PhaseIs ==
    ASSUME PairInv, NEW e \in Endpoint, NEW o, o = Other(e)
    PROVE  /\ BeforeRequest(e) => /\ "Peers" \notin Kinds(e) /\ "GetPeers" \notin Kinds(o)
                                  /\ pc[o] # "reply" /\ Phase(e) = "unsent"
           /\ "Peers" \in Kinds(e) => /\ "GetPeers" \notin Kinds(o) /\ pc[o] # "reply"
                                      /\ Phase(e) = "answered"
           /\ Closed(e) => Kinds(e) = {} /\ Phase(e) = "over"
<1>1. TypeOK /\ o \in Endpoint /\ Other(o) = e /\ FlowInv(o) /\ FlowInv(e) /\ EndInv(e)
  BY Ends DEF PairInv, BasicInv
<1>2. BeforeRequest(e) => "Peers" \notin Kinds(e) /\ "GetPeers" \notin Kinds(o) /\ pc[o] # "reply"
  BY <1>1 DEF FlowInv
<1>3. "Peers" \in Kinds(e) => "GetPeers" \notin Kinds(o) /\ pc[o] # "reply"
  BY <1>1 DEF FlowInv
<1>4. Closed(e) => Kinds(e) = {} /\ ~BeforeRequest(e)
  BY <1>1, KindsEmpty DEF EndInv, BeforeRequest, Closed
<1> QED
  BY <1>2, <1>3, <1>4 DEF Phase

\* An end that leaves takes the request of the other with it, and with a reset
\* the answer it had sent.
LEMMA CloseHangsUp ==
    ASSUME PairInv, NEW e \in Endpoint, ~Closed(e), NEW res \in Result, NEW unread,
           CloseLeaving(e, res, unread)
    PROVE  Exchange!Hangup(e)
<1> DEFINE o == Other(e)
<1>1. o \in Endpoint /\ o # e /\ Other(o) = e /\ \A x \in Endpoint : x = e \/ x = o
  BY Ends
<1>2. TypeOK /\ TypeOK' /\ chan'[e] = <<>> /\ chan'[o] \in {<<>>, chan[o]}
  BY CloseTypes DEF PairInv, BasicInv
<1>3. pc'[e] = "closed" /\ pc'[o] = pc[o] /\ known' = known
  BY <1>1, <1>2 DEF TypeOK, CloseLeaving
<1>4. Kinds(e)' = {}
  BY <1>2, EmptyChannel
<1>5. Phase(e)' = "over" /\ Answers(e)' = {}
  <2>1. DOMAIN chan'[e] = {}
    BY <1>2, EmptySeq
  <2>2. Answers(e)' = {}
    BY <2>1 DEF Answers
  <2> QED
    BY <1>3, <1>4, <2>2 DEF Phase, BeforeRequest, Closed
<1>6. Open' = Open \ {e} /\ e \in Open
  BY <1>1, <1>3 DEF Open, Closed
<1> DEFINE Loses(lost) ==
             /\ Phase(o)' = IF Phase(o) \in lost THEN "over" ELSE Phase(o)
             /\ Answers(o)' = IF Phase(o) \in lost THEN {} ELSE Answers(o)
<1>7. \E lost \in {{"asked"}, {"asked", "answered"}} : Loses(lost)
  <2>1. Phase(o) = "asked" => "Peers" \notin Kinds(o)
    BY DEF Phase
  <2>2. CASE chan'[o] = chan[o]
    <3>1. Kinds(o)' = Kinds(o) /\ Answers(o)' = Answers(o)
      BY <1>1, <2>2, SameChannel, AnswersStay
    <3>2. Loses({"asked"})
      <4>1. Phase(o)' = IF Phase(o) = "asked" THEN "over" ELSE Phase(o)
        BY <1>1, <1>3, <1>4, <3>1 DEF Phase, BeforeRequest, Closed
      <4>2. Phase(o) = "asked" => Answers(o) = {}
        BY <1>1, <2>1, AnswersOfKinds
      <4> QED
        BY <3>1, <4>1, <4>2
    <3> QED
      BY <3>2
  <2>3. CASE chan'[o] = <<>>
    <3>1. DOMAIN chan'[o] = {}
      BY <2>3, EmptySeq
    <3>2. Kinds(o)' = {} /\ Answers(o)' = {}
      BY <3>1 DEF Kinds, Answers
    <3>3. Loses({"asked", "answered"})
      <4>1. Phase(o)' = IF Phase(o) \in {"asked", "answered"} THEN "over" ELSE Phase(o)
        BY <1>1, <1>3, <1>4, <3>2, PhaseIs DEF Phase, BeforeRequest, Closed
      <4>2. Phase(o) \notin {"asked", "answered"} => Answers(o) = {}
        BY <1>1, AnswersOfKinds DEF Phase
      <4> QED
        BY <3>2, <4>1, <4>2
    <3> QED
      BY <3>3
  <2> QED
    BY <1>2, <2>2, <2>3
<1>8. PICK lost \in {{"asked"}, {"asked", "answered"}} : Loses(lost)
  BY <1>7
<1> DEFINE Gone(x) == x = e \/ Phases[x] \in lost
<1>9. Phases' = [x \in Endpoint |-> IF Gone(x) THEN "over" ELSE Phases[x]]
  BY <1>1, <1>5, <1>8 DEF Phases
<1>10. Mail' = [x \in Endpoint |-> IF Gone(x) THEN {} ELSE Mail[x]]
  BY <1>1, <1>5, <1>8 DEF Phases, Mail
<1> QED
  BY <1>3, <1>6, <1>8, <1>9, <1>10, SameEnds DEF Exchange!Hangup

\* A request is made once, and over at once if nobody is there any more.
LEMMA SendGetPeersAsks ==
    ASSUME PairInv, NEW e \in Endpoint, SendGetPeers(e)
    PROVE  Exchange!Ask(e) \/ Exchange!Hangup(e)
<1> DEFINE o == Other(e)
<1>1. o \in Endpoint /\ o # e /\ Other(o) = e /\ TypeOK /\ FramesInv(o)
  BY Ends DEF PairInv, BasicInv
<1>2. /\ "Peers" \notin Kinds(e) /\ "GetPeers" \notin Kinds(o) /\ Phase(e) = "unsent" /\ ~Closed(e)
      /\ Closed(o) => Kinds(o) = {} /\ Phase(o) = "over"
  BY <1>1, PhaseIs DEF SendGetPeers, BeforeRequest, Closed
<1>3. CASE Close(e, "Io")
  BY <1>2, <1>3, CloseHangsUp DEF Close, Result, ReadError
<1>4. CASE UNCHANGED <<stranger, result, greeted, known, strays>> /\ pc' = [pc EXCEPT ![e] = "loop"]
           /\ \/ ~Closed(o) /\ chan' = [chan EXCEPT ![o] = Append(@, Sent("GetPeers"))]
              \/ Closed(o) /\ chan' = chan
  <2>1. pc'[e] = "loop" /\ pc'[o] = pc[o] /\ chan'[e] = chan[e]
    BY <1>1, <1>4 DEF TypeOK
  <2>2. Kinds(e)' = Kinds(e) /\ Answers(e)' = Answers(e)
    BY <2>1, SameChannel, AnswersStay
  <2>3. /\ Kinds(o)' = IF Closed(o) THEN {} ELSE Kinds(o) \cup {"GetPeers"}
        /\ Answers(o)' = Answers(o)
    <3>1. CASE Closed(o)
      <4>1. chan'[o] = chan[o]
        BY <1>4, <3>1
      <4> QED
        BY <1>1, <1>2, <3>1, <4>1, SameChannel, AnswersStay
    <3>2. CASE ~Closed(o)
      <4>1. Sent("GetPeers") \in Packet /\ Sent("GetPeers").line = write_frame("GetPeers", 1)
            /\ Sent("GetPeers").line.type = "GetPeers"
        BY PacketSent, OwnFrames
      <4>2. chan' = [chan EXCEPT ![o] = Append(@, Sent("GetPeers"))]
        BY <1>4, <3>2
      <4>3. Kinds(o)' = Kinds(o) \cup {"GetPeers"}
        BY <1>1, <1>2, <4>1, <4>2, AppendKinds
      <4>4. Answers(o)' = Answers(o)
        BY <1>1, <4>1, <4>2, AnswersAfterWrite
      <4> QED
        BY <3>2, <4>3, <4>4
    <3> QED
      BY <3>1, <3>2
  <2>4. Phase(e)' = IF Closed(o) THEN "over" ELSE "asked"
    BY <1>1, <1>2, <2>1, <2>2, <2>3 DEF Phase, BeforeRequest, Closed
  <2>5. Phase(o)' = Phase(o)
    BY <1>1, <1>2, <2>1, <2>2, <2>3 DEF SendGetPeers, Phase, BeforeRequest, Closed
  <2>6. Phases' = [Phases EXCEPT ![e] = IF o \in Open THEN "asked" ELSE "over"]
    BY <1>1, <2>4, <2>5, OneEndMoves, SameEnds
  <2>7. Mail' = Mail
    BY <1>1, <2>2, <2>3, Ends DEF Mail
  <2>8. Open' = Open
    BY <1>1, <1>2, <2>1, Ends DEF Open, Closed
  <2> QED
    BY <1>1, <1>2, <1>4, <2>6, <2>7, <2>8, SameEnds DEF Exchange!Ask
<1> QED
  BY <1>3, <1>4 DEF SendGetPeers, Write

\* The handshake before the request is nothing to the exchange, unless it ends the
\* connection.
LEMMA SendHelloIsSilent ==
    ASSUME PairInv, NEW e \in Endpoint, SendHello(e)
    PROVE  UNCHANGED Exchange!vars \/ Exchange!Hangup(e)
<1> DEFINE o == Other(e)
           next == IF e = "Dialer" THEN "readHello" ELSE "sendGetPeers"
<1>1. o \in Endpoint /\ o # e /\ Other(o) = e /\ TypeOK /\ FramesInv(o) /\ FlowInv(o)
  BY Ends DEF PairInv, BasicInv
<1>2. ~Closed(e) /\ Kinds(o) = {} /\ chan[o] = <<>>
  BY <1>1, KindsEmpty DEF SendHello, FlowInv, BeforeHello, Closed
<1>3. CASE Close(e, "Io")
  BY <1>2, <1>3, CloseHangsUp DEF Close, Result, ReadError
<1>4. CASE UNCHANGED <<stranger, result, greeted, known, strays>> /\ pc' = [pc EXCEPT ![e] = next]
           /\ (chan' = [chan EXCEPT ![o] = Append(@, Sent("Hello"))] \/ chan' = chan)
  <2>1. pc[e] = "sendHello" /\ pc'[e] = next /\ pc'[o] = pc[o] /\ chan'[e] = chan[e]
    BY <1>1, <1>4 DEF TypeOK, SendHello
  <2>2. Kinds(e)' = Kinds(e) /\ Answers(e)' = Answers(e)
    BY <2>1, SameChannel, AnswersStay
  <2>3. /\ Kinds(o)' \in {Kinds(o), Kinds(o) \cup {"Hello"}}
        /\ Answers(o)' = Answers(o)
    <3>1. CASE chan' = chan
      <4>1. chan'[o] = chan[o]
        BY <3>1
      <4> QED
        BY <1>1, <4>1, SameChannel, AnswersStay
    <3>2. CASE chan' = [chan EXCEPT ![o] = Append(@, Sent("Hello"))]
      <4>1. Sent("Hello") \in Packet /\ Sent("Hello").line = write_frame("Hello", 1)
            /\ Sent("Hello").line.type = "Hello"
        BY PacketSent, OwnFrames
      <4>2. Kinds(o)' = Kinds(o) \cup {"Hello"}
        BY <1>1, <1>2, <3>2, <4>1, AppendKinds
      <4>3. Answers(o)' = Answers(o)
        BY <1>1, <3>2, <4>1, AnswersAfterWrite
      <4> QED
        BY <4>2, <4>3
    <3> QED
      BY <1>4, <3>1, <3>2
  <2>4. Phase(e)' = Phase(e) /\ Phase(o)' = Phase(o)
    BY <1>1, <2>1, <2>2, <2>3 DEF Phase, BeforeRequest, Closed
  <2>5. (Closed(e)' <=> Closed(e)) /\ (Closed(o)' <=> Closed(o))
    BY <1>2, <2>1 DEF Closed
  <2> QED
    BY <1>4, <2>2, <2>3, <2>4, <2>5, SilentStep
<1> QED
  BY <1>3, <1>4 DEF SendHello, Write

LEMMA HelloArrivesIsSilent ==
    ASSUME PairInv, NEW e \in Endpoint, HelloArrives(e)
    PROVE  UNCHANGED Exchange!vars
<1> DEFINE o == Other(e)
<1>1. o \in Endpoint /\ o # e /\ Other(o) = e /\ TypeOK /\ FramesInv(e)
  BY Ends DEF PairInv, BasicInv
<1>2. Input(e) = "Hello" /\ chan[e] # <<>>
  BY <1>1, InputFromChannel DEF HelloArrives, Greets, ReadError
<1>3. /\ pc[e] = "readHello" /\ pc'[e] \in {"sendGetPeers", "sendHello"}
      /\ pc'[o] = pc[o] /\ known' = known /\ Consume(e)
  BY <1>1 DEF TypeOK, HelloArrives, ReadOn, GoesOn
<1>4. Kinds(e)' = Kinds(e) \ {"Hello"} /\ Answers(e)' = Answers(e)
  BY <1>1, <1>2, <1>3, ConsumeKinds, AnswersAfterRead
<1>5. Kinds(o)' = Kinds(o) /\ Answers(o)' = Answers(o)
  BY <1>1, <1>3, ConsumeTypes, SameChannel, AnswersStay
<1>6. Phase(e)' = Phase(e) /\ Phase(o)' = Phase(o)
  BY <1>1, <1>3, <1>4, <1>5 DEF Phase, BeforeRequest, Closed
<1>7. (Closed(e)' <=> Closed(e)) /\ (Closed(o)' <=> Closed(o))
  BY <1>3 DEF Closed
<1> QED
  BY <1>3, <1>4, <1>5, <1>6, <1>7, SilentStep

\* An import takes some peers of the answer that are not banned, and the first of
\* it among them.
LEMMA ImportTakes ==
    ASSUME NEW e \in Endpoint, NEW s \in Seq(Peer), NEW K \in import_peers(e, s)
    PROVE  \E S \in SUBSET ({s[k] : k \in DOMAIN s} \ Banned) :
              /\ K = known[e] \cup S
              /\ s # <<>> => {s[1]} \ Banned \subseteq S
<1>1. Len(s) \in Nat /\ DOMAIN s = 1..Len(s) /\ (s # <<>> => Len(s) >= 1)
  BY LenProperties, EmptySeq
<1> DEFINE R(n) == {s[i] : i \in 1..n}
<1>2. PICK n \in Nat : /\ n <= Len(s) /\ (Len(s) >= 1 => n >= 1)
                       /\ K = known[e] \cup (R(n) \ Banned)
  <2>1. \A n \in {Len(s)} \cup (1..Len(s)) : n \in Nat /\ n <= Len(s) /\ (Len(s) >= 1 => n >= 1)
    BY <1>1
  <2> QED
    BY <2>1 DEF import_peers
<1>3. R(n) \subseteq {s[k] : k \in 1..Len(s)}
  BY <1>1, <1>2
<1>4. s # <<>> => s[1] \in R(n)
  BY <1>1, <1>2
<1>5. {s[k] : k \in 1..Len(s)} = {s[k] : k \in DOMAIN s}
  BY <1>1, Zenon
<1> HIDE DEF R
<1>6. R(n) \ Banned \in SUBSET ({s[k] : k \in DOMAIN s} \ Banned)
  BY <1>3, <1>5, Zenon
<1>7. s # <<>> => {s[1]} \ Banned \subseteq R(n) \ Banned
  BY <1>4, Zenon
<1> QED
  BY <1>2, <1>6, <1>7, Zenon

\* What arrives in the message loop is a request, which the node has yet to
\* answer, or the answer, which it imports.
LEMMA MessageIsImported ==
    ASSUME PairInv, NEW e \in Endpoint, MessageArrives(e)
    PROVE  UNCHANGED Exchange!vars \/ Exchange!Import(e)
<1> DEFINE o == Other(e)
<1>1. /\ o \in Endpoint /\ o # e /\ Other(o) = e /\ TypeOK /\ FramesInv(e)
      /\ FlowInv(e) /\ FlowInv(o)
  BY Ends DEF PairInv, BasicInv
<1>2. chan[e] # <<>>
  BY <1>1, InputFromChannel DEF MessageArrives
<1>3. /\ pc[e] = "loop" /\ pc'[e] = IF Input(e) = "GetPeers" THEN "reply" ELSE "loop"
      /\ pc'[o] = pc[o] /\ Consume(e)
  BY <1>1 DEF TypeOK, MessageArrives, ReadOn
<1>4. Input(e) \in Kinds(e) /\ Input(e) \in {"GetPeers", "Peers"}
  BY <1>1, <1>2, <1>3, NodeInput DEF FlowInv, Ungreeted
<1>5. Kinds(e)' = Kinds(e) \ {Input(e)}
  BY <1>1, <1>2, <1>3, ConsumeKinds
<1>6. Kinds(o)' = Kinds(o) /\ Answers(o)' = Answers(o)
  BY <1>1, <1>3, ConsumeTypes, SameChannel, AnswersStay
<1>7. (Closed(e)' <=> Closed(e)) /\ (Closed(o)' <=> Closed(o))
  BY <1>3 DEF Closed
<1>8. CASE Input(e) = "GetPeers"
  <2>1. Answers(e)' = Answers(e)
    BY <1>1, <1>2, <1>3, <1>8, AnswersAfterRead
  <2>2. Phase(e)' = Phase(e) /\ Phase(o)' = Phase(o)
    BY <1>1, <1>3, <1>4, <1>5, <1>6, <1>8 DEF Phase, BeforeRequest, Closed
  <2>3. known' = known
    BY <1>1, <1>8 DEF MessageArrives, TypeOK
  <2> QED
    BY <1>6, <1>7, <2>1, <2>2, <2>3, SilentStep
<1>9. CASE Input(e) = "Peers"
  <2> DEFINE f == chan[e][1]
  <2>1. Head(chan[e]) = f /\ 1 \in DOMAIN chan[e] /\ f \in Packet
    BY <1>1, <1>2, HeadTailProperties, LenProperties, EmptySeq DEF TypeOK
  <2>2. f.line.type = "Peers" /\ f.peers \in Seq(Peer)
    BY <1>1, <1>2, <1>9, <2>1, NodeInput DEF Packet
  <2>3. Answers(e) = Listed(f)
    BY <1>1, <2>1, <2>2, AnswerIs
  <2>4. o \in Public => f.peers # <<>> /\ f.peers[1] = Address[o]
    BY <1>1, <2>1, <2>2 DEF FramesInv
  <2>5. PICK K \in import_peers(e, f.peers) : known' = [known EXCEPT ![e] = K]
    BY <1>9, <2>1 DEF MessageArrives
  <2>6. PICK S \in SUBSET ({f.peers[k] : k \in DOMAIN f.peers} \ Banned) :
               /\ K = known[e] \cup S
               /\ f.peers # <<>> => {f.peers[1]} \ Banned \subseteq S
    BY <2>2, ImportTakes
  <2>7. S \in SUBSET (Mail[e] \ Banned) /\ known' = [known EXCEPT ![e] = @ \cup S]
    BY <1>1, <2>3, <2>5, <2>6, SameEnds DEF Listed, TypeOK
  <2>8. Exchange!Advertised(o) \ Banned \subseteq S
    BY <2>4, <2>6 DEF Exchange!Advertised
  <2>9. "Peers" \notin Kinds(e)' /\ Answers(e)' = {}
    <3>1. Kinds(e)' = Kinds(e) \ {"Peers"}
      BY <1>5, <1>9
    <3>2. \A j \in DOMAIN chan'[e] : chan'[e][j].line.type # "Peers"
      BY <3>1 DEF Kinds
    <3> QED
      BY <3>1, <3>2 DEF Answers
  <2>10. Phase(e) = "answered" /\ Phase(e)' = "over"
    BY <1>1, <1>3, <1>4, <1>6, <1>9, <2>9 DEF FlowInv, Phase, BeforeRequest, Closed
  <2>11. Phase(o)' = Phase(o)
    BY <1>1, <1>3, <1>5, <1>6, <1>9 DEF Phase, BeforeRequest, Closed
  <2>12. Phases' = [Phases EXCEPT ![e] = "over"] /\ Mail' = [Mail EXCEPT ![e] = {}]
    BY <1>6, <2>9, <2>10, <2>11, OneEndMoves, OneEndIsMailed
  <2>13. Open' = Open
    BY <1>7, Ends DEF Open
  <2> QED
    BY <2>7, <2>8, <2>10, <2>12, <2>13, SameEnds DEF Exchange!Import
<1> QED
  BY <1>4, <1>8, <1>9

\* A list that orders a set lists all of it.
LEMMA OrderLists ==
    ASSUME NEW S \in SUBSET Peer, IsFiniteSet(S), NEW r \in Orders(S)
    PROVE  r \in Seq(Peer) /\ {r[k] : k \in DOMAIN r} = S
<1> DEFINE n == Cardinality(S)
<1>1. n \in Nat /\ IsFiniteSet(1..n) /\ Cardinality(1..n) = n
  BY FS_CardinalityType, FS_Interval
<1>2. r \in Seq(Peer) /\ r \in [1..n -> S]
  BY OrdersAreSeqs DEF Orders
<1>3. r \in Injection(1..n, S)
  BY DEF Orders, Injection, IsInjective
<1>4. r \in Surjection(1..n, S)
  BY <1>1, <1>3, FS_Injection
<1>5. \A x \in S : \E k \in 1..n : r[k] = x
  BY <1>4 DEF Surjection
<1>6. DOMAIN r = 1..n /\ \A k \in 1..n : r[k] \in S
  BY <1>2
<1>7. {r[k] : k \in 1..n} = S
  <2> HIDE DEF n
  <2> QED
    BY <1>5, <1>6, SMT
<1> QED
  BY <1>2, <1>6, <1>7, Zenon

\* The answer of a node lists the peers it picks, and itself if it is public.
LEMMA AnswerIsPicked ==
    ASSUME TypeOK, NEW e \in Endpoint, IsFiniteSet(known[e]), NEW s \in pick_and_build_peers(e)
    PROVE  \E S \in Exchange!Picks(e) : {s[k] : k \in DOMAIN s} = S \cup Exchange!Advertised(e)
<1>1. ASSUME NEW S \in Picks(e)
      PROVE  S \in Exchange!Picks(e) /\ S \in SUBSET Peer /\ IsFiniteSet(S)
             /\ S \ {Address[e]} \in SUBSET Peer /\ IsFiniteSet(S \ {Address[e]})
  <2> DEFINE candidates == known[e] \ Banned
  <2>1. S \in SUBSET candidates /\ candidates \in SUBSET Peer /\ IsFiniteSet(candidates)
    BY FS_Difference DEF Picks, TypeOK
  <2>2. IsFiniteSet(S) /\ IsFiniteSet(S \ {Address[e]})
        /\ (Cardinality(candidates) = Cardinality(S) => candidates = S)
    BY <2>1, FS_Subset, FS_RemoveElement
  <2>3. Cardinality(candidates) \in Nat /\ MAX_PEERS_PER_REPLY \in Nat
    BY <2>1, FS_CardinalityType, SessionAssumption
  <2>4. Cardinality(S) = IF Cardinality(candidates) < MAX_PEERS_PER_REPLY
                         THEN Cardinality(candidates) ELSE MAX_PEERS_PER_REPLY
    BY DEF Picks
  <2>5. \/ S = candidates /\ Cardinality(S) <= MAX_PEERS_PER_REPLY
        \/ Cardinality(S) = MAX_PEERS_PER_REPLY
    BY <2>2, <2>3, <2>4
  <2> QED
    BY <2>1, <2>2, <2>5 DEF Exchange!Picks, Exchange!Cardinality, Cardinality
<1>2. CASE e \in Public
  <2>1. PICK S \in Picks(e) : \E r \in Orders(S \ {Address[e]}) : s = <<Address[e]>> \o r
    BY <1>2 DEF pick_and_build_peers
  <2>2. PICK r \in Orders(S \ {Address[e]}) : s = <<Address[e]>> \o r
    BY <2>1
  <2>3. r \in Seq(Peer) /\ {r[k] : k \in DOMAIN r} = S \ {Address[e]}
    BY <1>1, OrderLists
  <2>4. {s[k] : k \in DOMAIN s} = {Address[e]} \cup {r[k] : k \in DOMAIN r}
    <3> DEFINE a == Address[e]
               n == Len(r)
    <3>1. <<a>> \in Seq(Peer) /\ Len(<<a>>) = 1 /\ <<a>>[1] = a
      BY SessionAssumption
    <3>2. n \in Nat /\ DOMAIN r = 1..n
      BY <2>3, LenProperties
    <3>3. s \in Seq(Peer) /\ Len(s) = 1 + n /\ s[1] = a
      BY <2>2, <2>3, <3>1, <3>2, ConcatProperties
    <3>4. \A k \in 1..n : s[k + 1] = r[k]
      BY <2>2, <2>3, <3>1, <3>2, ConcatProperties
    <3>5. DOMAIN s = 1..(n + 1)
      BY <3>2, <3>3, LenProperties
    <3> HIDE DEF n, a
    <3>6. \A k \in DOMAIN s : s[k] = a \/ \E j \in DOMAIN r : s[k] = r[j]
      <4> SUFFICES ASSUME NEW k \in 1..(n + 1), k # 1
                   PROVE  \E j \in 1..n : s[k] = r[j]
        BY <3>2, <3>3, <3>5
      <4>1. k - 1 \in 1..n /\ (k - 1) + 1 = k
        BY <3>2
      <4> QED
        BY <3>4, <4>1
    <3>7. 1 \in DOMAIN s /\ \A j \in DOMAIN r : \E k \in DOMAIN s : s[k] = r[j]
      <4>1. \A j \in 1..n : j + 1 \in 1..(n + 1)
        BY <3>2
      <4> QED
        BY <3>2, <3>4, <3>5, <4>1
    <3> QED
      BY <3>3, <3>6, <3>7 DEF a
  <2>5. Exchange!Advertised(e) = {Address[e]}
    BY <1>2 DEF Exchange!Advertised
  <2> QED
    BY <1>1, <2>3, <2>4, <2>5
<1>3. CASE e \notin Public
  <2>1. PICK S \in Picks(e) : s \in Orders(S)
    BY <1>3 DEF pick_and_build_peers
  <2>2. {s[k] : k \in DOMAIN s} = S
    BY <1>1, <2>1, OrderLists
  <2>3. Exchange!Advertised(e) = {}
    BY <1>3 DEF Exchange!Advertised
  <2> QED
    BY <1>1, <2>2, <2>3
<1> QED
  BY <1>2, <1>3

\* The request of the other end is answered, unless that end has left.
LEMMA ReplyAnswers ==
    ASSUME PairInv, NEW e \in Endpoint, Reply(e)
    PROVE  UNCHANGED Exchange!vars \/ Exchange!Answer(Other(e)) \/ Exchange!Hangup(e)
<1> DEFINE o == Other(e)
<1>1. /\ o \in Endpoint /\ o # e /\ Other(o) = e /\ TypeOK /\ FramesInv(o)
      /\ FlowInv(e) /\ FlowInv(o) /\ IsFiniteSet(known[e])
  BY Ends DEF PairInv, BasicInv, EndInv
<1>2. PICK s \in pick_and_build_peers(e) : Write(e, SentPeers(s), "loop")
  BY DEF Reply
<1>3. pc[e] = "reply" /\ ~Closed(e)
  BY DEF Reply, Closed
<1>4. ~BeforeRequest(o) /\ "Peers" \notin Kinds(o) /\ "GetPeers" \notin Kinds(e)
  BY <1>1, <1>3 DEF FlowInv
<1>5. CASE Close(e, "Io")
  BY <1>3, <1>5, CloseHangsUp DEF Close, Result, ReadError
<1>6. CASE Closed(o) /\ pc' = [pc EXCEPT ![e] = "loop"]
           /\ UNCHANGED <<stranger, chan, result, greeted, known, strays>>
  <2>1. pc'[e] = "loop" /\ pc'[o] = pc[o] /\ chan'[e] = chan[e] /\ chan'[o] = chan[o]
    BY <1>1, <1>6 DEF TypeOK
  <2>2. Kinds(e)' = Kinds(e) /\ Answers(e)' = Answers(e) /\ Kinds(o)' = Kinds(o) /\ Answers(o)' = Answers(o)
    BY <1>1, <2>1, SameChannel, AnswersStay
  <2>3. Phase(e)' = Phase(e) /\ Phase(o)' = Phase(o)
    BY <1>1, <1>3, <1>6, <2>1, <2>2 DEF Phase, BeforeRequest, Closed
  <2>4. (Closed(e)' <=> Closed(e)) /\ (Closed(o)' <=> Closed(o))
    BY <1>3, <2>1 DEF Closed
  <2> QED
    BY <1>6, <2>2, <2>3, <2>4, SilentStep
<1>7. CASE /\ ~Closed(o)
           /\ chan' = [chan EXCEPT ![o] = Append(@, SentPeers(s))]
           /\ pc' = [pc EXCEPT ![e] = "loop"]
           /\ UNCHANGED <<stranger, result, greeted, known, strays>>
  <2>1. pc'[e] = "loop" /\ pc'[o] = pc[o] /\ chan'[e] = chan[e]
    BY <1>1, <1>7 DEF TypeOK
  <2>2. s \in Seq(Peer) /\ (e \in Public => s # <<>> /\ s[1] = Address[e])
    BY <1>1, AnswerLists
  <2>3. /\ SentPeers(s) \in Packet /\ SentPeers(s).peers = s
        /\ SentPeers(s).line = write_frame("Peers", 1) /\ SentPeers(s).line.type = "Peers"
    BY <2>2, OwnFrames DEF SentPeers, Packet
  <2>4. Kinds(o)' = Kinds(o) \cup {"Peers"} /\ Answers(o)' = Listed(SentPeers(s))
    <3>1. Kinds(o)' = Kinds(o) \cup {"Peers"}
      BY <1>1, <1>4, <1>7, <2>2, <2>3, AppendKinds
    <3>2. Answers(o)' = Listed(SentPeers(s))
      BY <1>1, <1>4, <1>7, <2>3, AnswersAfterWrite
    <3> QED
      BY <3>1, <3>2
  <2>5. Kinds(e)' = Kinds(e) /\ Answers(e)' = Answers(e)
    BY <2>1, SameChannel, AnswersStay
  <2>6. Phase(o) = "asked" /\ Phase(o)' = "answered"
    BY <1>1, <1>3, <1>4, <1>7, <2>4 DEF Phase
  <2>7. Phase(e) # "unsent" /\ Phase(e)' = Phase(e)
    BY <1>1, <1>3, <1>4, <1>7, <2>1, <2>4, <2>5 DEF Phase, BeforeRequest, Closed
  <2>8. PICK S \in Exchange!Picks(e) : Answers(o)' = S \cup Exchange!Advertised(e)
    <3>1. \E S \in Exchange!Picks(e) : {s[k] : k \in DOMAIN s} = S \cup Exchange!Advertised(e)
      BY <1>1, AnswerIsPicked
    <3> QED
      BY <2>3, <2>4, <3>1 DEF Listed
  <2>9. Phases' = [Phases EXCEPT ![o] = "answered"] /\ Mail' = [Mail EXCEPT ![o] = S \cup Exchange!Advertised(e)]
    BY <1>1, <2>5, <2>6, <2>7, <2>8, OneEndMoves, OneEndIsMailed
  <2>10. Open' = Open
    BY <1>1, <1>3, <1>7, <2>1, Ends DEF Open, Closed
  <2> QED
    BY <1>1, <1>7, <2>6, <2>7, <2>9, <2>10, SameEnds DEF Exchange!Answer
<1> QED
  BY <1>2, <1>5, <1>6, <1>7 DEF Write

\* Two nodes take no other steps; see PairStep.
LEMMA ExchangeStep ==
    ASSUME PairInv, [Next]_vars
    PROVE  [Exchange!Next]_Exchange!vars
<1>1. \A e \in Endpoint : pc[e] \notin {"stranger", "refuse", "hangup"}
  BY DEF PairInv, BasicInv, EndInv, TwoNodes, Endpoint, FlowInv
<1>2. ASSUME NEW e \in Endpoint
      PROVE  ~WrongGreeting(e) /\ ~BadFrameArrives(e)
  BY NothingIsRefused
<1>3. ASSUME NEW e \in Endpoint, NoGreeting(e) \/ HelloTimeout(e) \/ StreamEnds(e) \/ Breaks(e)
      PROVE  Exchange!Hangup(e)
  <2>1. PICK res \in {Input(e), "InvalidHandshake", "Io"} :
               res \in Result /\ \E unread : CloseLeaving(e, res, unread)
    BY <1>3 DEF NoGreeting, HelloTimeout, StreamEnds, Breaks, Close, ReadAndClose, Result, ReadError
  <2>2. ~Closed(e)
    BY <1>3 DEF NoGreeting, HelloTimeout, StreamEnds, Breaks, Closed
  <2> QED
    BY <2>1, <2>2, CloseHangsUp
<1>4. ASSUME NEW e \in Endpoint, Handshake(e) \/ MessageLoop(e)
      PROVE  \/ UNCHANGED Exchange!vars \/ Exchange!Ask(e) \/ Exchange!Answer(Other(e))
             \/ Exchange!Import(e) \/ Exchange!Hangup(e)
  BY <1>1, <1>2, <1>3, <1>4, SendHelloIsSilent, HelloArrivesIsSilent, SendGetPeersAsks,
     MessageIsImported, ReplyAnswers
  DEF Handshake, MessageLoop, SendError, Hangup
<1>5. CASE UNCHANGED vars
  <2>1. \A e \in Endpoint : Kinds(e)' = Kinds(e) /\ Answers(e)' = Answers(e)
    BY <1>5, SameChannel, AnswersStay DEF vars
  <2>2. \A e \in Endpoint : Phase(e)' = Phase(e) /\ (Closed(e)' <=> Closed(e))
    BY <1>5, <2>1, Ends DEF vars, Phase, BeforeRequest, Closed
  <2> QED
    BY <1>5, <2>1, <2>2, SilentStep, Ends DEF vars, Endpoint
<1>6. CASE Next
  <2>1. PICK e \in Endpoint : Handshake(e) \/ MessageLoop(e) \/ HelloTimeout(e) \/ Breaks(e)
    BY <1>1, <1>6 DEF Next, Node, StrangerSends, StrangerReads, StrangerCloses
  <2>2. \/ UNCHANGED Exchange!vars
        \/ \E x \in Endpoint : Exchange!Ask(x) \/ Exchange!Answer(x) \/ Exchange!Import(x) \/ Exchange!Hangup(x)
    BY <1>3, <1>4, <2>1, Ends
  <2> QED
    BY <2>2, SameEnds DEF Exchange!Next
<1> QED
  BY <1>5, <1>6

LEMMA ExchangeInit ==
    ASSUME Init, TwoNodes
    PROVE  Exchange!Init
<1>1. PairInv
  BY PairInit
<1>2. \A e \in Endpoint : chan[e] = <<>> /\ pc[e] \in {"sendHello", "readHello"}
  BY DEF Init, TwoNodes, Endpoint
<1>3. \A e \in Endpoint : DOMAIN chan[e] = {}
  BY <1>2, EmptySeq
<1>4. \A e \in Endpoint : Phase(e) = "unsent" /\ Answers(e) = {} /\ ~Closed(e)
  BY <1>2, <1>3 DEF Phase, Kinds, Answers, BeforeRequest, Closed
<1>5. /\ Phases = [e \in Endpoint |-> "unsent"]
      /\ Mail = [e \in Endpoint |-> {}]
      /\ Open = Endpoint
  BY <1>4 DEF Phases, Mail, Open
<1>6. Exchange!Endpoint = Endpoint
  BY DEF Exchange!Endpoint, Endpoint
<1> QED
  BY <1>5, <1>6 DEF Exchange!Init, Init

\* A connection between two nodes implements the exchange of PeerExchange, for any
\* capacity of the connection and any peers, limits and bans: every step is a
\* request, an answer, an import or a hang-up of the exchange, or nothing to it.
THEOREM ExchangeImplemented == Spec => ImplementsExchange
<1>1. Init => (TwoNodes => Exchange!Init)
  BY ExchangeInit
<1>2. ASSUME SessionInv, [Next]_vars
      PROVE  [TwoNodes => [Exchange!Next]_Exchange!vars]_vars
  <2>1. TwoNodes => PairInv
    BY <1>2 DEF SessionInv, PairInv, BasicInv
  <2> QED
    BY <1>2, <2>1, ExchangeStep
<1> QED
  BY <1>1, <1>2, SessionInvariant, PTL DEF Spec, ImplementsExchange

\* What the exchange of PeerExchange preserves.
LEMMA ExchangeInventsNothing ==
    ASSUME TypeOK, Exchange!NothingInvented, [Exchange!Next]_Exchange!vars
    PROVE  Exchange!NothingInvented'
<1> DEFINE Told == Exchange!Told
           Fine(K, A, e) == K \subseteq Known[e] \cup (Told \ Banned) /\ A \subseteq Told
<1>1. /\ \A e \in Endpoint : Fine(known[e], Mail[e], e)
      /\ \A e \in Endpoint : (Known[e] \ Banned) \cup Exchange!Advertised(e) \subseteq Told
  BY SameEnds DEF Exchange!NothingInvented, Exchange!Told, Exchange!Endpoint, Endpoint
<1> SUFFICES \A e \in Endpoint : Fine(known'[e], Mail'[e], e)
  BY DEF Exchange!NothingInvented, Exchange!Told, Exchange!Advertised, Exchange!Endpoint, Endpoint
<1> HIDE DEF Told
<1>2. CASE UNCHANGED Exchange!vars
  BY <1>1, <1>2 DEF Exchange!vars
<1>3. ASSUME NEW x \in Endpoint, Exchange!Ask(x)
      PROVE  \A e \in Endpoint : Fine(known'[e], Mail'[e], e)
  BY <1>1, <1>3 DEF Exchange!Ask
<1>4. ASSUME NEW x \in Endpoint, Exchange!Answer(x)
      PROVE  \A e \in Endpoint : Fine(known'[e], Mail'[e], e)
  <2>1. Other(x) \in Endpoint /\ Exchange!Other(x) = Other(x)
    BY Ends, SameEnds
  <2>2. PICK S \in Exchange!Picks(Other(x)) :
               Mail' = [Mail EXCEPT ![x] = S \cup Exchange!Advertised(Other(x))]
    BY <1>4, <2>1 DEF Exchange!Answer
  <2>3. S \subseteq known[Other(x)] \ Banned
    BY DEF Exchange!Picks
  <2>4. S \cup Exchange!Advertised(Other(x)) \subseteq Told
    BY <1>1, <2>1, <2>3
  <2>5. \A e \in Endpoint : Mail'[e] \in {Mail[e], S \cup Exchange!Advertised(Other(x))}
    BY <2>2 DEF Mail
  <2>6. known' = known
    BY <1>4 DEF Exchange!Answer
  <2> QED
    BY <1>1, <2>4, <2>5, <2>6
<1>5. ASSUME NEW x \in Endpoint, Exchange!Import(x)
      PROVE  \A e \in Endpoint : Fine(known'[e], Mail'[e], e)
  <2>1. PICK S \in SUBSET (Mail[x] \ Banned) : known' = [known EXCEPT ![x] = @ \cup S]
    BY <1>5 DEF Exchange!Import
  <2>2. \A e \in Endpoint : known'[e] \subseteq known[e] \cup (Told \ Banned)
    BY <1>1, <2>1 DEF TypeOK
  <2>3. \A e \in Endpoint : Mail'[e] \in {Mail[e], {}}
    BY <1>5 DEF Exchange!Import, Mail
  <2> QED
    BY <1>1, <2>2, <2>3
<1>6. ASSUME NEW x \in Endpoint, Exchange!Hangup(x)
      PROVE  \A e \in Endpoint : Fine(known'[e], Mail'[e], e)
  <2>1. \A e \in Endpoint : Mail'[e] \in {Mail[e], {}}
    BY <1>6, SameEnds DEF Exchange!Hangup
  <2>2. known' = known
    BY <1>6 DEF Exchange!Hangup
  <2> QED
    BY <1>1, <2>1, <2>2
<1> QED
  BY <1>2, <1>3, <1>4, <1>5, <1>6, SameEnds DEF Exchange!Next, Exchange!Endpoint, Endpoint

\* What two nodes learn is what one of them knew or advertises, and nothing that is
\* banned: it follows from the exchange alone.
THEOREM NothingIsInvented == Spec => []LearnsOnlyTold
<1>1. Init => LearnsOnlyTold
  <2> SUFFICES ASSUME Init, TwoNodes
               PROVE  Exchange!NothingInvented
    BY DEF LearnsOnlyTold
  <2>1. Exchange!Init /\ Exchange!Endpoint = Endpoint
    BY ExchangeInit DEF Exchange!Endpoint, Endpoint
  <2> QED
    BY <2>1 DEF Exchange!Init, Exchange!NothingInvented
<1>2. ASSUME SessionInv, LearnsOnlyTold, [Next]_vars
      PROVE  LearnsOnlyTold'
  <2> SUFFICES ASSUME TwoNodes'
               PROVE  Exchange!NothingInvented'
    BY DEF LearnsOnlyTold
  <2>1. TwoNodes /\ PairInv
    BY <1>2, StrangerStays DEF TwoNodes, SessionInv, PairInv, BasicInv
  <2> QED
    BY <1>2, <2>1, ExchangeStep, ExchangeInventsNothing DEF LearnsOnlyTold, PairInv, BasicInv
<1> QED
  BY <1>1, <1>2, SessionInvariant, PTL DEF Spec
=============================================================================
