---------------------------- MODULE NetworkProofs -----------------------------
(***************************************************************************)
(* Proofs about Network, for any number of nodes, any configuration and    *)
(* any number of faults.  DiscoveryCompletes needs fairness and is left to *)
(* TLC.                                                                    *)
(***************************************************************************)
EXTENDS Network, TLAPS

\* The ends of a request are nodes.
LEMMA EndsAreNodes ==
    ASSUME NEW q \in Request
    PROVE  /\ q[1] \in Node /\ q[2] \in Node
           /\ Asker(q) \in Node /\ Answerer(q) \in Node
           /\ Asker(q) \in {q[1], q[2]}
           /\ Conn(q) \in Node \X Node
BY DEF Request, Asker, Answerer, Conn

\* The requests of a connection name its ends.
LEMMA RequestsOfConnection ==
    ASSUME NEW n \in Node, NEW m \in Node, NEW q \in Requests(n, m)
    PROVE  q \in Request /\ q[1] = n /\ q[2] = m /\ n # m /\ Conn(q) = <<n, m>>
BY DEF Requests, Request, Conn

\* The sets a configuration consists of.
LEMMA SetupTypes ==
    ASSUME net \in Networks
    PROVE  /\ net.public \subseteq Node
           /\ net.seed \in [Node -> SUBSET Node]
           /\ net.banned \in [Node -> SUBSET Node]
           /\ net.faults \in Nat
BY NetworkAssumption DEF Setup

\* A node answers with peers it knows, and with itself if it is public.
LEMMA AnswersAreKnown ==
    ASSUME NEW m \in Node, NEW S \in pick_and_build_peers(m)
    PROVE  /\ S \subseteq known[m] \cup ({m} \cap net.public)
           /\ m \in net.public => m \in S
BY DEF pick_and_build_peers, Picks

\* A step leaves the configuration alone.
LEMMA NetStays ==
    ASSUME [Next]_vars
    PROVE  net' = net
BY DEF Next, Discover, vars, Dial, Notice, Answer, Import, Break, Restart

\* What is left of requests and answers when ends are gone: nothing new, and on a
\* connection that keeps both ends all of it.
LEMMA GoneTakes ==
    ASSUME reply \in [Request -> SUBSET Node], NEW E \in SUBSET Request, Gone(E)
    PROVE  /\ open' = open \ {Conn(e) : e \in E}
           /\ asking' = {q \in asking : Conn(q) \notin {Conn(e) : e \in E}}
           /\ reply' \in [Request -> SUBSET Node]
           /\ \A q \in Request : reply'[q] \subseteq reply[q]
           /\ \A q \in Request : Conn(q) \in open' => reply'[q] = reply[q]
<1> DEFINE C == {Conn(e) : e \in E}
<1>1. open' = open \ C /\ asking' = {q \in asking : Conn(q) \notin C}
  BY DEF Gone, StillAsked
<1>2. PICK lost \in SUBSET Left(E) :
        reply' = [q \in Request |-> IF q \in E \cup lost THEN {} ELSE reply[q]]
  BY DEF Gone
<1>3. \A q \in E \cup lost : Conn(q) \in C
  BY <1>2 DEF Left
<1> QED BY <1>1, <1>2, <1>3

\* Type correctness is preserved.
LEMMA TypeStep ==
    ASSUME TypeOK, [Next]_vars
    PROVE  TypeOK'
<1> USE DEF TypeOK
<1>0. net' = net
  BY NetStays
<1>1. ASSUME NEW n \in Node, NEW m \in Node, Dial(n, m)
      PROVE  TypeOK'
  <2>1. \A q \in Requests(n, m) : q \in Request /\ Conn(q) = <<n, m>>
    BY RequestsOfConnection
  <2>2. \A k \in Node : out[k] \subseteq out'[k] /\ out'[k] \subseteq Node
    BY <1>1 DEF Dial, Candidates
  <2>3. m \in out'[n] /\ out' \in [Node -> SUBSET Node]
    BY <1>1 DEF Dial
  <2>4. \A k, l \in Node : <<k, l>> \in open' => l \in out'[k]
    BY <1>1, <2>2, <2>3 DEF Dial
  <2> QED BY <1>0, <1>1, <2>1, <2>3, <2>4 DEF Dial
<1>2. ASSUME NEW n \in Node, NEW m \in Node, Notice(n, m)
      PROVE  TypeOK'
  <2>1. \A k, l \in Node : <<k, l>> \in open' => l \in out'[k]
    BY <1>2 DEF Notice
  <2> QED BY <1>0, <1>2, <2>1 DEF Notice
<1>3. ASSUME NEW q \in Request, Answer(q)
      PROVE  TypeOK'
  <2> PICK S \in pick_and_build_peers(Answerer(q)) :
        reply' = [reply EXCEPT ![q] = @ \cup (S \ (known[Asker(q)] \cup net.banned[Asker(q)]))]
    BY <1>3 DEF Answer
  <2>1. S \subseteq Node
    BY AnswersAreKnown, EndsAreNodes, SetupTypes
  <2>2. reply' \in [Request -> SUBSET Node]
    BY <2>1
  <2> QED BY <1>0, <1>3, <2>2 DEF Answer
<1>4. ASSUME NEW q \in Request, Import(q)
      PROVE  TypeOK'
  BY <1>0, <1>4, EndsAreNodes DEF Import
<1>5. ASSUME NEW e \in Request, Break(e)
      PROVE  TypeOK'
  <2>1. {e} \in SUBSET Request /\ Gone({e})
    BY <1>5 DEF Break
  <2>2. /\ open' = open \ {Conn(e)}
        /\ asking' = {q \in asking : Conn(q) # Conn(e)}
        /\ reply' \in [Request -> SUBSET Node]
    BY <2>1, GoneTakes
  <2>3. out' \in [Node -> SUBSET Node] /\ known' = known /\ faults' \in Nat
    <3>1. out' = IF e[3] = "dialer" THEN [out EXCEPT ![e[1]] = @ \ {e[2]}] ELSE out
      BY <1>5 DEF Break
    <3>2. out' \in [Node -> SUBSET Node]
      BY <3>1, EndsAreNodes
    <3> QED BY <1>5, <3>2 DEF Break
  <2>4. \A k, l \in Node : <<k, l>> \in open' => l \in out'[k]
    <3> SUFFICES ASSUME NEW k \in Node, NEW l \in Node, <<k, l>> \in open, <<k, l>> # Conn(e)
                 PROVE  l \in out'[k]
      BY <2>2
    <3>1. l \in out[k] /\ ~(k = e[1] /\ l = e[2])
      BY DEF Conn
    <3> QED BY <1>5, <3>1, EndsAreNodes DEF Break
  <2> QED BY <1>0, <2>2, <2>3, <2>4
<1>6. ASSUME NEW n \in Node, Restart(n)
      PROVE  TypeOK'
  <2> DEFINE E == {e \in Request : Asker(e) = n}
  <2>1. E \in SUBSET Request /\ Gone(E)
    BY <1>6 DEF Restart
  <2> HIDE DEF E
  <2>2. /\ open' = open \ {Conn(e) : e \in E}
        /\ asking' = {q \in asking : Conn(q) \notin {Conn(e) : e \in E}}
        /\ reply' \in [Request -> SUBSET Node]
    BY <2>1, GoneTakes
  <2>3. known' \in [Node -> SUBSET Node]
    BY <1>6, SetupTypes DEF Restart
  <2>4. out' = [out EXCEPT ![n] = {}] /\ faults' \in Nat
    BY <1>6 DEF Restart
  <2>5. \A l \in Node : <<n, l>> \in {Conn(e) : e \in E}
    <3> SUFFICES ASSUME NEW l \in Node PROVE \E e \in E : Conn(e) = <<n, l>>
      OBVIOUS
    <3>1. <<n, l, "dialer">> \in E /\ Conn(<<n, l, "dialer">>) = <<n, l>>
      BY DEF E, Request, Asker, Conn
    <3> QED BY <3>1
  <2>6. \A k, l \in Node : <<k, l>> \in open' => l \in out'[k]
    BY <2>2, <2>4, <2>5
  <2> QED BY <1>0, <2>2, <2>3, <2>4, <2>6
<1>7. CASE UNCHANGED vars
  BY <1>7 DEF vars
<1> QED BY <1>1, <1>2, <1>3, <1>4, <1>5, <1>6, <1>7 DEF Next, Discover

\* What is known of an answerer survives every step that leaves both ends: nothing the
\* asker of such a connection knows is forgotten, and an answer names its sender.
LEMMA InformStep ==
    ASSUME TypeOK, ExchangeInforms, [Next]_vars
    PROVE  ExchangeInforms'
<1> USE DEF TypeOK
<1> SUFFICES ASSUME NEW n \in Node, NEW m \in Node, <<n, m>> \in open',
                    NEW q \in Requests(n, m),
                    Answerer(q) \in net.public, q \notin asking'
             PROVE  Knows(Asker(q), Answerer(q))' \/ Answerer(q) \in reply'[q]
  BY NetStays DEF ExchangeInforms
<1>1. /\ q \in Request /\ q[1] = n /\ q[2] = m /\ Conn(q) = <<n, m>>
      /\ Asker(q) \in {n, m} /\ Asker(q) \in Node /\ Answerer(q) \in Node
  BY RequestsOfConnection, EndsAreNodes DEF Asker
<1>2. <<n, m>> \in open /\ q \notin asking =>
        Knows(Asker(q), Answerer(q)) \/ Answerer(q) \in reply[q]
  BY DEF ExchangeInforms
<1>3. ASSUME NEW a \in Node, NEW b \in Node, Dial(a, b)
      PROVE  Knows(Asker(q), Answerer(q))' \/ Answerer(q) \in reply'[q]
  <2>1. q \notin Requests(a, b) /\ q \notin asking
    BY <1>3 DEF Dial
  <2>2. <<n, m>> \in open
    <3>1. <<n, m>> = <<a, b>> => n = a /\ m = b
      OBVIOUS
    <3> QED BY <1>3, <2>1, <3>1 DEF Dial
  <2> QED BY <1>2, <1>3, <2>1, <2>2 DEF Dial, Knows
<1>4. ASSUME NEW r \in Request, Answer(r)
      PROVE  Knows(Asker(q), Answerer(q))' \/ Answerer(q) \in reply'[q]
  <2> PICK S \in pick_and_build_peers(Answerer(r)) :
        reply' = [reply EXCEPT ![r] = @ \cup (S \ (known[Asker(r)] \cup net.banned[Asker(r)]))]
    BY <1>4 DEF Answer
  <2>1. CASE q = r
    <3>1. Answerer(q) \in S
      BY <1>1, <2>1, AnswersAreKnown
    <3>2. reply'[q] = reply[q] \cup (S \ (known[Asker(q)] \cup net.banned[Asker(q)]))
      BY <1>1, <2>1
    <3> QED BY <1>4, <3>1, <3>2 DEF Answer, Knows
  <2>2. CASE q # r
    BY <1>1, <1>2, <1>4, <2>2 DEF Answer, Knows
  <2> QED BY <2>1, <2>2
<1>5. ASSUME NEW r \in Request, Import(r)
      PROVE  Knows(Asker(q), Answerer(q))' \/ Answerer(q) \in reply'[q]
  <2>1. <<n, m>> \in open /\ q \notin asking
    BY <1>5 DEF Import
  <2>2. known[Asker(q)] \subseteq known'[Asker(q)]
    BY <1>1, <1>5, EndsAreNodes DEF Import
  <2>3. CASE q = r
    <3>1. reply[q] \subseteq known'[Asker(q)]
      BY <1>1, <1>5, <2>3 DEF Import
    <3> QED BY <1>2, <1>5, <2>1, <2>2, <3>1 DEF Import, Knows
  <2>4. CASE q # r
    BY <1>1, <1>2, <1>5, <2>1, <2>2, <2>4 DEF Import, Knows
  <2> QED BY <2>3, <2>4
<1>6. ASSUME NEW E \in SUBSET Request, Gone(E), known'[Asker(q)] = known[Asker(q)]
      PROVE  Knows(Asker(q), Answerer(q))' \/ Answerer(q) \in reply'[q]
  <2>1. <<n, m>> \in open /\ q \notin asking /\ reply'[q] = reply[q]
    BY <1>1, <1>6, GoneTakes
  <2> QED BY <1>2, <1>6, <2>1, NetStays DEF Knows
<1>7. ASSUME NEW e \in Request, Break(e)
      PROVE  Knows(Asker(q), Answerer(q))' \/ Answerer(q) \in reply'[q]
  BY <1>6, <1>7 DEF Break
<1>8. ASSUME NEW a \in Node, Restart(a)
      PROVE  Knows(Asker(q), Answerer(q))' \/ Answerer(q) \in reply'[q]
  <2> DEFINE E == {e \in Request : Asker(e) = a}
  <2>1. E \in SUBSET Request /\ Gone(E)
    BY <1>8 DEF Restart
  <2>2. q \notin E
    BY <1>1, <2>1, GoneTakes
  <2>3. known'[Asker(q)] = known[Asker(q)]
    BY <1>1, <1>8, <2>2 DEF Restart
  <2> HIDE DEF E
  <2> QED BY <1>6, <2>1, <2>3
<1>9. ASSUME NEW a \in Node, NEW b \in Node, Notice(a, b)
      PROVE  Knows(Asker(q), Answerer(q))' \/ Answerer(q) \in reply'[q]
  BY <1>2, <1>9 DEF Notice, Knows
<1>10. CASE UNCHANGED vars
  BY <1>2, <1>10 DEF vars, Knows
<1> QED BY <1>3, <1>4, <1>5, <1>7, <1>8, <1>9, <1>10 DEF Next, Discover

\* Only findable nodes are passed on.
LEMMA PrivateStep ==
    ASSUME TypeOK, PrivateStaysUnknown, [Next]_vars
    PROVE  PrivateStaysUnknown'
<1> USE DEF TypeOK
<1> DEFINE F == {m \in Node : Findable(m)}
<1>0. /\ \A n \in Node : known[n] \subseteq F
      /\ \A q \in Request : reply[q] \subseteq F
  BY DEF PrivateStaysUnknown
<1>1. \A m : Findable(m)' <=> Findable(m)
  BY NetStays DEF Findable
<1>2. /\ \A n \in Node : net.seed[n] \subseteq F
      /\ net.public \subseteq F
  BY SetupTypes DEF Findable
<1> SUFFICES /\ \A n \in Node : known'[n] \subseteq F
             /\ \A q \in Request : reply'[q] \subseteq F
  BY <1>1 DEF PrivateStaysUnknown
<1> HIDE DEF F
<1>3. ASSUME NEW a \in Node, NEW b \in Node, Dial(a, b)
      PROVE  /\ \A n \in Node : known'[n] \subseteq F
             /\ \A q \in Request : reply'[q] \subseteq F
  BY <1>0, <1>3 DEF Dial
<1>4. ASSUME NEW r \in Request, Answer(r)
      PROVE  /\ \A n \in Node : known'[n] \subseteq F
             /\ \A q \in Request : reply'[q] \subseteq F
  <2> PICK S \in pick_and_build_peers(Answerer(r)) :
        reply' = [reply EXCEPT ![r] = @ \cup (S \ (known[Asker(r)] \cup net.banned[Asker(r)]))]
    BY <1>4 DEF Answer
  <2>1. S \subseteq F
    BY <1>0, <1>2, AnswersAreKnown, EndsAreNodes
  <2> QED BY <1>0, <1>4, <2>1 DEF Answer
<1>5. ASSUME NEW r \in Request, Import(r)
      PROVE  /\ \A n \in Node : known'[n] \subseteq F
             /\ \A q \in Request : reply'[q] \subseteq F
  BY <1>0, <1>5, EndsAreNodes DEF Import
<1>6. ASSUME NEW E \in SUBSET Request, Gone(E)
      PROVE  \A q \in Request : reply'[q] \subseteq F
  BY <1>0, <1>6, GoneTakes
<1>7. ASSUME NEW e \in Request, Break(e)
      PROVE  /\ \A n \in Node : known'[n] \subseteq F
             /\ \A q \in Request : reply'[q] \subseteq F
  BY <1>0, <1>6, <1>7 DEF Break
<1>8. ASSUME NEW a \in Node, Restart(a)
      PROVE  /\ \A n \in Node : known'[n] \subseteq F
             /\ \A q \in Request : reply'[q] \subseteq F
  <2>1. \A q \in Request : reply'[q] \subseteq F
    BY <1>6, <1>8 DEF Restart
  <2> QED BY <1>0, <1>2, <1>8, <2>1 DEF Restart
<1>9. ASSUME NEW a \in Node, NEW b \in Node, Notice(a, b)
      PROVE  /\ \A n \in Node : known'[n] \subseteq F
             /\ \A q \in Request : reply'[q] \subseteq F
  BY <1>0, <1>9 DEF Notice
<1>10. CASE UNCHANGED vars
  BY <1>0, <1>10 DEF vars
<1> QED BY <1>3, <1>4, <1>5, <1>7, <1>8, <1>9, <1>10 DEF Next, Discover

\* Type correctness, in every network: the lemma the other theorems rest on.
THEOREM NetworkTyped == Spec => []TypeOK
<1>1. Init => TypeOK
  BY SetupTypes DEF Init, TypeOK
<1> QED BY <1>1, TypeStep, PTL DEF Spec

\* The one GetPeers of each end is enough to know a public node at the other end
\* (handshake.rs:54, dispatch.rs:121-138), whatever has been lost before and
\* whatever of earlier connections is still on its way.
THEOREM ExchangeAlwaysInforms == Spec => []ExchangeInforms
<1>1. Init => ExchangeInforms
  BY DEF Init, ExchangeInforms
<1> QED BY <1>1, InformStep, NetworkTyped, PTL DEF Spec

\* A node that is neither public nor in a peers file stays unknown to everybody.
THEOREM PrivateNodesStayUnknown == Spec => []PrivateStaysUnknown
<1>1. Init => PrivateStaysUnknown
  BY SetupTypes DEF Init, PrivateStaysUnknown, Findable
<1> QED BY <1>1, PrivateStep, NetworkTyped, PTL DEF Spec
=============================================================================
