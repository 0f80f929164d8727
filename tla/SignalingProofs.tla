-------------------------- MODULE SignalingProofs --------------------------
(***************************************************************************)
(* Proofs about Signaling, for any number of viewers and faults and any    *)
(* length of the queues from two: types, that no hello is lost, that an    *)
(* answer is set on the peer whose offer it answers, and that no offer is  *)
(* hidden behind what its viewer has seen.                                 *)
(***************************************************************************)
EXTENDS Signaling, FiniteSetTheorems, SequenceTheorems, WellFoundedInduction, TLAPS

-----------------------------------------------------------------------------
(* The queues. *)

\* A finite set of integers has a largest element: of the sets of elements above an
\* element one is minimal, and it is empty.
LEMMA MaxExists ==
    ASSUME NEW S \in SUBSET Int, S # {}, IsFiniteSet(S)
    PROVE  \E n \in S : \A m \in S : m <= n
<1> DEFINE Above(n) == {m \in S : m > n}
           T == {Above(n) : n \in S}
<1>1. T \subseteq FiniteSubsetsOf(S) /\ T # {}
  <2>1. \A U \in SUBSET S : IsFiniteSet(U)
    BY FS_Subset
  <2>2. \A n \in S : Above(n) \in SUBSET S
    OBVIOUS
  <2> HIDE DEF Above
  <2>3. T \subseteq FiniteSubsetsOf(S)
    BY <2>1, <2>2 DEF FiniteSubsetsOf
  <2> QED
    BY <2>3
<1>2. PICK x \in T : \A y \in T : ~ (<<y, x>> \in StrictSubsetOrdering(S))
  <2> HIDE DEF T
  <2> QED
    BY <1>1, FS_StrictSubsetOrderingWellFounded, WFMin
<1>3. PICK n \in S : x = Above(n)
  OBVIOUS
<1>4. ASSUME NEW m \in S, m > n PROVE FALSE
  <2>1. n \in Int /\ \A k \in S : k \in Int
    OBVIOUS
  <2>2. Above(m) \subseteq Above(n)
    <3>1. ASSUME NEW k \in S, k > m PROVE k > n
      BY <1>4, <2>1, <3>1
    <3> QED
      BY <3>1
  <2>3. m \in Above(n) /\ m \notin Above(m)
    BY <1>4, <2>1
  <2>4. Above(m) \in T /\ Above(m) \in SUBSET S /\ Above(n) \in SUBSET S
    OBVIOUS
  <2> HIDE DEF Above, T
  <2>5. <<Above(m), Above(n)>> \in StrictSubsetOrdering(S)
    BY <2>2, <2>3, <2>4 DEF StrictSubsetOrdering
  <2> QED
    BY <1>2, <1>3, <2>4, <2>5
<1>5. \A m \in S : m \in Int /\ n \in Int
  OBVIOUS
<1> QED
  BY <1>4, <1>5

\* InOrder lists all of a finite queue and nothing else, by seq.
LEMMA InOrderLists ==
    ASSUME NEW q, IsFiniteSet(q), NEW s \in InOrder(q)
    PROVE  /\ s \in Seq(q) /\ Len(s) \in Nat
           /\ \A m \in q : \E i \in 1..Len(s) : s[i] = m
           /\ \A i, j \in 1..Len(s) : i < j => s[i].seq <= s[j].seq
<1>1. PICK n \in Nat : n = Cardinality(q)
  BY FS_CardinalityType
<1>2. s \in [1..n -> q] /\ \A i, j \in 1..n : i # j => s[i] # s[j]
  BY <1>1 DEF InOrder, SetToSeqs
<1>3. s \in Seq(q) /\ Len(s) = n
  BY <1>2
<1>4. ASSUME NEW m \in q, \A i \in 1..n : s[i] # m PROVE FALSE
  <2>1. IsFiniteSet(q \ {m}) /\ Cardinality(q \ {m}) = n - 1
    BY <1>1, FS_RemoveElement
  <2>2. IsFiniteSet(1..n) /\ Cardinality(1..n) = n
    BY <1>1, FS_Interval
  <2>3. s \in [1..n -> q \ {m}]
    BY <1>2, <1>4
  <2>4. \E i, j \in 1..n : i # j /\ s[i] = s[j]
    BY <1>1, <2>1, <2>2, <2>3, FS_PigeonHole
  <2> QED
    BY <1>2, <2>4
<1> QED
  BY <1>3, <1>4 DEF InOrder

\* The next number is larger than any in the queue.
LEMMA NextSeqAbove ==
    ASSUME NEW q, IsFiniteSet(q), \A m \in q : m.seq \in Nat
    PROVE  NextSeq(q) \in Nat /\ \A m \in q : m.seq < NextSeq(q)
<1> DEFINE S == {m.seq : m \in q}
<1>1. CASE q = {}
  BY <1>1 DEF NextSeq
<1>2. CASE q # {}
  <2>1. S \in SUBSET Int /\ S # {}
    BY <1>2
  <2>2. IsFiniteSet(S)
    <3> DEFINE f == [m \in q |-> m.seq]
    <3>1. f \in Surjection(q, S)
      BY DEF Surjection
    <3> QED
      BY <3>1, FS_Surjection
  <2>3. \E n \in S : \A k \in S : k <= n
    BY <2>1, <2>2, MaxExists
  <2>4. \E n \in S : \A m \in q : m.seq <= n
    BY <2>3
  <2> DEFINE top == CHOOSE n \in S : \A m \in q : m.seq <= n
  <2>5. top \in S /\ \A m \in q : m.seq <= top
    BY <2>4
  <2>6. NextSeq(q) = 1 + top
    BY <1>2 DEF NextSeq
  <2>7. top \in Nat
    BY <2>5
  <2> HIDE DEF top
  <2> QED
    BY <2>5, <2>6, <2>7
<1> QED
  BY <1>1, <1>2

\* The last message of a queue whose messages have different numbers survives the
\* cut, because the queue holds two at least: the next number is new.
LEMMA CutKeepsLast ==
    ASSUME NEW q, IsFiniteSet(q), \A m \in q : m.seq \in Nat,
           \A k, m \in q : k.seq = m.seq => k = m
    PROVE  /\ Truncate(q) \subseteq q /\ IsFiniteSet(Truncate(q))
           /\ NextSeq(Truncate(q)) \in Nat
           /\ \A m \in q : m.seq < NextSeq(Truncate(q))
<1>1. Truncate(q) \subseteq q
  BY DEF Truncate
<1>2. IsFiniteSet(Truncate(q)) /\ \A m \in Truncate(q) : m.seq \in Nat
  BY <1>1, FS_Subset
<1>3. NextSeq(Truncate(q)) \in Nat /\ \A m \in Truncate(q) : m.seq < NextSeq(Truncate(q))
  BY <1>2, NextSeqAbove
<1>4. CASE Truncate(q) = q
  BY <1>1, <1>2, <1>3, <1>4
<1>5. CASE Truncate(q) # q
  <2>1. ~(Cardinality(q) < MaxQueue) /\ Truncate(q) = {m \in q : \E k \in q : k.seq < m.seq}
    BY <1>5 DEF Truncate
  <2>2. Cardinality(q) \in Nat /\ Cardinality(q) >= 2
    BY <2>1, FS_CardinalityType, SignalingAssumption
  <2> HIDE DEF Truncate
  <2>3. ASSUME NEW m \in q PROVE m.seq < NextSeq(Truncate(q))
    <3>1. CASE \E k \in q : k.seq < m.seq
      BY <1>3, <2>1, <3>1
    <3>2. CASE ~\E k \in q : k.seq < m.seq
      <4>1. PICK k \in q : k # m
        <5>1. q # {m}
          BY <2>2, FS_Singleton
        <5> QED
          BY <5>1
      <4>2. m.seq < k.seq /\ k.seq \in Nat
        BY <3>2, <4>1
      <4>3. k \in Truncate(q)
        BY <2>1, <4>2
      <4> QED
        BY <1>3, <4>2, <4>3
    <3> QED
      BY <3>1, <3>2
  <2> QED
    BY <1>1, <1>2, <1>3, <2>3
<1> QED
  BY <1>4, <1>5

-----------------------------------------------------------------------------
(* What the operations of the room do. *)

LEMMA Appended ==
    ASSUME TypeOK, NEW v \in Viewer, NEW kind \in {"hello", "candidate", "answer"},
           NEW g \in Nat, AppendViewer(v, kind, g)
    PROVE  \E m \in ViewerMsg :
             /\ m.from = v /\ m.kind = kind /\ m.gen = g
             /\ m \in viewerQ' /\ viewerQ' \subseteq viewerQ \cup {m} /\ IsFiniteSet(viewerQ')
             /\ "cut" \notin trouble' => viewerQ \subseteq viewerQ'
             /\ in' = in \/ in' = Append(in, m)
             /\ since' \in Int /\ parked' \in BOOLEAN
             /\ trouble \subseteq trouble' /\ trouble' \subseteq trouble \cup {"cut"}
             /\ UNCHANGED <<hostQ, wiped, feed>>
<1> DEFINE q == Truncate(viewerQ)
           m == [seq |-> NextSeq(q), kind |-> kind, from |-> v, gen |-> g]
<1>1. q \subseteq viewerQ
  BY DEF Truncate
<1>2. IsFiniteSet(q) /\ \A k \in q : k.seq \in Nat
  BY <1>1, FS_Subset DEF TypeOK, ViewerMsg
<1> HIDE DEF q
<1>3. NextSeq(q) \in Nat
  BY <1>2, NextSeqAbove
<1>4. m \in ViewerMsg /\ m.from = v /\ m.kind = kind /\ m.gen = g /\ m.seq = NextSeq(q)
  BY <1>3 DEF ViewerMsg
<1> DEFINE wakes == parked /\ m.seq > since
<1>5. /\ viewerQ' = q \cup {m}
      /\ in' = IF feed = "ws" \/ wakes THEN Append(in, m) ELSE in
      /\ since' = IF wakes THEN m.seq ELSE since
      /\ parked' = (parked /\ ~wakes)
      /\ trouble' = trouble \cup Cut(viewerQ)
      /\ UNCHANGED <<hostQ, wiped, feed>>
  BY DEF AppendViewer, q
<1> HIDE DEF m
<1>6. IsFiniteSet(viewerQ')
  BY <1>2, <1>5, FS_AddElement
<1>7. Cut(viewerQ) \subseteq {"cut"} /\ ("cut" \notin Cut(viewerQ) => q = viewerQ)
  BY DEF Cut, q
<1>8. parked' \in BOOLEAN
  BY <1>5 DEF TypeOK
<1>9. since' \in Int
  BY <1>3, <1>4, <1>5 DEF TypeOK
<1>10. in' = in \/ in' = Append(in, m)
  BY <1>5
<1> QED
  BY <1>1, <1>4, <1>5, <1>6, <1>7, <1>8, <1>9, <1>10

LEMMA Offered ==
    ASSUME TypeOK, NEW v \in Viewer, AppendOffer(v)
    PROVE  \E m \in HostMsg :
             /\ m.to = v /\ m.gen = gen[v]
             /\ hostQ' = {k \in Truncate(hostQ) : k.to # v} \cup {m}
             /\ hostQ' \subseteq hostQ \cup {m} /\ IsFiniteSet(hostQ')
             /\ "cut" \notin Cut(hostQ) => \A k \in hostQ : k.to # v => k \in hostQ'
             /\ m.seq = NextSeq(Truncate(hostQ))
             /\ viewerQ' = {k \in viewerQ : k.from # v} /\ IsFiniteSet(viewerQ')
             /\ vin' = [u \in Viewer |-> IF net[u] = "ws" THEN Append(vin[u], m) ELSE vin[u]]
             /\ vin' \in [Viewer -> Seq(HostMsg)] /\ wiped' = wiped
<1> DEFINE q == Truncate(hostQ)
           m == [seq |-> NextSeq(q), to |-> v, gen |-> gen[v]]
<1>1. q \subseteq hostQ
  BY DEF Truncate
<1>2. IsFiniteSet(q) /\ \A k \in q : k.seq \in Nat
  BY <1>1, FS_Subset DEF TypeOK, HostMsg
<1>3. "cut" \notin Cut(hostQ) => q = hostQ
  BY DEF Cut
<1>4. /\ hostQ' = {k \in q : k.to # v} \cup {m} /\ viewerQ' = {k \in viewerQ : k.from # v}
      /\ vin' = [u \in Viewer |-> IF net[u] = "ws" THEN Append(vin[u], m) ELSE vin[u]]
      /\ wiped' = wiped
  BY DEF AppendOffer, Purge
<1> HIDE DEF q
<1>5. NextSeq(q) \in Nat
  BY <1>2, NextSeqAbove
<1>6. m \in HostMsg /\ m.to = v /\ m.gen = gen[v] /\ m.seq = NextSeq(q)
  BY <1>5 DEF HostMsg, TypeOK
<1> HIDE DEF m
<1>7. IsFiniteSet(hostQ') /\ IsFiniteSet(viewerQ')
  <2>1. IsFiniteSet({k \in q : k.to # v})
    BY <1>2, FS_Subset
  <2>2. IsFiniteSet({k \in viewerQ : k.from # v})
    BY FS_Subset DEF TypeOK
  <2> QED
    BY <1>4, <2>1, <2>2, FS_AddElement
<1>8. vin' \in [Viewer -> Seq(HostMsg)]
  <2>1. ASSUME NEW u \in Viewer PROVE vin[u] \in Seq(HostMsg) /\ Append(vin[u], m) \in Seq(HostMsg)
    BY <1>6 DEF TypeOK
  <2> QED
    BY <1>4, <2>1
<1>9. hostQ' \subseteq hostQ \cup {m} /\ ("cut" \notin Cut(hostQ) => \A k \in hostQ : k.to # v => k \in hostQ')
  BY <1>1, <1>3, <1>4
<1> QED
  BY <1>4, <1>6, <1>7, <1>8, <1>9 DEF q

\* What is replayed, or returned by a poll, is in the queue.
LEMMA Replayed ==
    ASSUME NEW M, NEW q \in SUBSET M, IsFiniteSet(q), NEW p \in SUBSET q, NEW s \in InOrder(p)
    PROVE  /\ s \in Seq(M) /\ Len(s) \in Nat /\ \A i \in 1..Len(s) : s[i] \in p
           /\ \A m \in p : \E i \in 1..Len(s) : s[i] = m
           /\ \A i, j \in 1..Len(s) : i < j => s[i].seq <= s[j].seq
<1>1. IsFiniteSet(p)
  BY FS_Subset
<1>2. /\ s \in Seq(p) /\ Len(s) \in Nat
      /\ \A m \in p : \E i \in 1..Len(s) : s[i] = m
      /\ \A i, j \in 1..Len(s) : i < j => s[i].seq <= s[j].seq
  BY <1>1, InOrderLists
<1>3. s \in Seq(M) /\ \A i \in 1..Len(s) : s[i] \in p
  BY <1>2
<1> QED
  BY <1>2, <1>3

\* The head and the rest of a sequence.
LEMMA HeadTail ==
    ASSUME NEW M, NEW s \in Seq(M), s # <<>>
    PROVE  /\ Len(s) \in Nat \ {0} /\ Head(s) = s[1] /\ s[1] \in M
           /\ Tail(s) \in Seq(M) /\ Len(Tail(s)) = Len(s) - 1
           /\ \A i \in 1..Len(Tail(s)) : i + 1 \in 1..Len(s) /\ Tail(s)[i] = s[i + 1]
<1>1. Len(s) \in Nat \ {0} /\ Head(s) = s[1] /\ s[1] \in M
  OBVIOUS
<1>2. Tail(s) \in Seq(M) /\ Len(Tail(s)) = Len(s) - 1
      /\ \A i \in 1..Len(Tail(s)) : Tail(s)[i] = s[i + 1]
  OBVIOUS
<1> QED
  BY <1>1, <1>2

\* What is appended comes last.
LEMMA AppendLast ==
    ASSUME NEW M, NEW s \in Seq(M), NEW m \in M
    PROVE  /\ Append(s, m) \in Seq(M) /\ Len(s) \in Nat /\ Len(Append(s, m)) = Len(s) + 1
           /\ Append(s, m)[Len(s) + 1] = m
           /\ \A i \in 1..Len(s) : i \in 1..Len(Append(s, m)) /\ Append(s, m)[i] = s[i]
  OBVIOUS

-----------------------------------------------------------------------------
(* The inductive invariants. *)

\* A hello of v in the room, and one on its way to the host's handler.
HelloQueued(v) == \E m \in viewerQ : m.from = v /\ m.kind = "hello"
HelloSent(v) == \E i \in 1..Len(in) : in[i].from = v /\ in[i].kind = "hello"

\* A viewer that is not there yet, or has left, has nothing under way.
Present(v) ==
    /\ net[v] = "off" <=> vpc[v] \in {"idle", "gone"}
    /\ net[v] \in {"off", "dial"} => vin[v] = <<>>
    /\ net[v] = "off" => pend[v] = {}
    /\ vpc[v] = "idle" =>
        seen[v] = -1 /\ sess[v] = "none" /\ ~HelloQueued(v) /\ ~HelloSent(v)

PresenceInv == \A v \in Viewer : Present(v)

\* Offers to v and answers of v with the gen g, in the room and on their way.
OfferQueued(v, g) == \E m \in hostQ : m.to = v /\ m.gen = g
OfferSent(v, g) == \E u \in Viewer : \E i \in 1..Len(vin[u]) : vin[u][i].to = v /\ vin[u][i].gen = g
AnswerQueued(v, g) == \E m \in viewerQ : m.from = v /\ m.kind = "answer" /\ m.gen = g
AnswerSent(v, g) == \E i \in 1..Len(in) : in[i].from = v /\ in[i].kind = "answer" /\ in[i].gen = g

\* Something of v's connection names the gen g: an offer, one that is being answered,
\* an answer, the session.
Mark(v, g) ==
    \/ OfferQueued(v, g) \/ OfferSent(v, g)
    \/ g \in pend[v]
    \/ AnswerQueued(v, g) \/ AnswerSent(v, g)
    \/ answered[v] = g /\ g # 0
    \/ sess[v] = "posted" /\ gen[v] = g

\* v may still be given another gen, or its first offer is yet to come.
Early(v) ==
    \/ vpc[v] = "idle"
    \/ HelloQueued(v)
    \/ HelloSent(v) /\ sess[v] = "none"
    \/ sess[v] \in {"new", "peer"}

\* A hello that the host will handle when it has v's answer.
HelloAfterAnswer(v) ==
    \E i, j \in 1..Len(in) : /\ i < j /\ in[i].from = v /\ in[i].kind = "answer"
                             /\ in[j].from = v /\ in[j].kind = "hello"
Stale(v) == (answered[v] # 0 /\ HelloSent(v)) \/ HelloAfterAnswer(v)

OneGen(v) ==
    /\ \A g \in Nat : Mark(v, g) => g = gen[v] /\ ~Early(v)
    /\ ~Stale(v)

AnswerInv == "ambiguous" \notin trouble => \A v \in Viewer : OneGen(v)

\* An offer to v that v has not applied.
Unapplied(v, m) == m \in hostQ /\ m.to = v /\ m.gen > applied[v]

\* What v has been sent reaches up to an unapplied offer only if that is part of it.
Sees(v) ==
    /\ seen[v] = -1 \/ \E k \in hostQ : seen[v] <= k.seq
    /\ \A i \in 1..Len(vin[v]) : \E k \in hostQ : vin[v][i].seq <= k.seq
    /\ \A m \in hostQ : Unapplied(v, m) =>
        /\ m.seq > seen[v]
        /\ \A i \in 1..Len(vin[v]) : vin[v][i].seq < m.seq \/ \E j \in 1..i : vin[v][j] = m
        /\ net[v] = "ws" => \E j \in 1..Len(vin[v]) : vin[v][j] = m

\* Numbers in the host queue are unique, and for who is there they only grow, but for
\* a wipe.
DistinctSeqs == \A k, m \in hostQ : k.seq = m.seq => k = m
SeqInv == DistinctSeqs /\ \A v \in Viewer \ wiped : net[v] # "off" => Sees(v)

-----------------------------------------------------------------------------
(* Types. *)

LEMMA TypeInit == Init => TypeOK
<1> SUFFICES ASSUME Init PROVE TypeOK
  OBVIOUS
<1>1. IsFiniteSet(hostQ) /\ IsFiniteSet(viewerQ)
  BY FS_EmptySet DEF Init
<1>2. faults \in 0..MaxFaults
  BY SignalingAssumption DEF Init
<1>3. vin \in [Viewer -> Seq(HostMsg)] /\ in \in Seq(ViewerMsg)
  <2>1. <<>> \in Seq(HostMsg) /\ <<>> \in Seq(ViewerMsg)
    OBVIOUS
  <2> QED
    BY <2>1 DEF Init
<1>4. /\ hostQ \subseteq HostMsg /\ viewerQ \subseteq ViewerMsg
      /\ trouble \subseteq {"ambiguous", "cut"} /\ wiped \subseteq Viewer
      /\ feed \in {"down", "ws", "poll"} /\ parked \in BOOLEAN
  BY DEF Init
<1>7. since \in Int
  BY DEF Init
<1>5. /\ sess \in [Viewer -> {"none", "new", "peer", "posted"}]
      /\ gen \in [Viewer -> Nat] /\ answered \in [Viewer -> Nat]
      /\ net \in [Viewer -> {"off", "dial", "ws", "http"}]
  BY DEF Init
<1>6. /\ seen \in [Viewer -> Int]
      /\ vpc \in [Viewer -> {"idle", "hello", "unheard", "offered", "gathered", "answered", "gone"}]
      /\ applied \in [Viewer -> Nat] /\ pend \in [Viewer -> SUBSET Nat]
  BY DEF Init
<1> QED
  BY <1>1, <1>2, <1>3, <1>4, <1>5, <1>6, <1>7 DEF TypeOK

LEMMA FaultType == ASSUME TypeOK, Fault PROVE faults' \in 0..MaxFaults
<1>1. faults \in 0..MaxFaults /\ MaxFaults \in Nat /\ faults < MaxFaults /\ faults' = faults + 1
  BY SignalingAssumption DEF TypeOK, Fault
<1> QED
  BY <1>1

\* The steps of the host keep the types.
LEMMA HostTypes ==
    ASSUME TypeOK,
           \/ Feed \/ WSLost \/ PollTimeout \/ PollFails \/ HandleFeedMessage \/ HostRestart
           \/ \E v \in Viewer : RunViewer(v) \/ SessionFails(v) \/ PostAmbiguous(v) \/ SessionEnds(v)
    PROVE  TypeOK'
<1>1. CASE DialWS
  <2>1. in' \in Seq(ViewerMsg)
    BY <1>1, Replayed, viewerQ \subseteq viewerQ DEF DialWS, TypeOK
  <2> QED
    BY <1>1, <2>1 DEF DialWS, TypeOK, roomVars, sessVars, tabVars
<1>2. CASE PollWait
  <2> DEFINE news == After(viewerQ, since)
  <2>1. news \subseteq viewerQ
    BY DEF After
  <2>2. in' \in Seq(ViewerMsg)
    BY <1>2, <2>1, Replayed DEF PollWait, TypeOK
  <2>3. since' \in Int
    <3>1. IsFiniteSet(news) /\ \A m \in news : m.seq \in Nat
      BY <2>1, FS_Subset DEF TypeOK, ViewerMsg
    <3> HIDE DEF news
    <3>2. NextSeq(news) \in Nat
      BY <3>1, NextSeqAbove
    <3>3. since' = IF news = {} THEN since ELSE NextSeq(news) - 1
      BY <1>2 DEF PollWait, LastSeq, news
    <3> QED
      BY <3>2, <3>3 DEF TypeOK
  <2>4. parked' \in BOOLEAN
    BY <1>2 DEF PollWait
  <2> QED
    BY <1>2, <2>2, <2>3, <2>4 DEF PollWait, TypeOK, roomVars, sessVars, tabVars
<1>3. CASE WSLost
  <2>1. in' \in Seq(ViewerMsg) /\ since' \in Int
    BY <1>3 DEF WSLost
  <2> QED
    BY <1>3, <2>1, FaultType DEF WSLost, TypeOK, roomVars, sessVars, tabVars
<1>4. CASE PollTimeout
  BY <1>4 DEF PollTimeout, TypeOK, roomVars, sessVars, tabVars
<1>5. CASE PollFails
  BY <1>5, FaultType DEF PollFails, TypeOK, roomVars, sessVars, tabVars
<1>6. CASE HandleFeedMessage
  <2>1. in' \in Seq(ViewerMsg) /\ Head(in) \in ViewerMsg
    BY <1>6, HeadTail DEF HandleFeedMessage, TypeOK
  <2>2. Head(in).from \in Viewer /\ Head(in).gen \in Nat
    BY <2>1 DEF ViewerMsg
  <2>3. /\ sess' \in [Viewer -> {"none", "new", "peer", "posted"}]
        /\ gen' \in [Viewer -> Nat] /\ answered' \in [Viewer -> Nat]
    <3>1. CASE FeedHello(Head(in))
      BY SMTT(30), <2>2, <3>1 DEF FeedHello, TypeOK
    <3>2. CASE FeedAnswer(Head(in))
      BY <2>2, <3>2 DEF FeedAnswer, TypeOK
    <3>3. CASE FeedIgnored(Head(in))
      BY <3>3 DEF FeedIgnored, TypeOK, sessVars
    <3> QED
      BY <1>6, <3>1, <3>2, <3>3 DEF HandleFeedMessage
  <2> QED
    BY <1>6, <2>1, <2>3 DEF HandleFeedMessage, TypeOK, roomVars, tabVars
<1>7. CASE HostRestart
  <2>1. in' \in Seq(ViewerMsg) /\ since' \in Int
    BY <1>7 DEF HostRestart
  <2> QED
    BY <1>7, <2>1, FaultType DEF HostRestart, TypeOK, roomVars, tabVars
<1>8. ASSUME NEW v \in Viewer, SetPeer(v) PROVE TypeOK'
  BY <1>8 DEF SetPeer, TypeOK, roomVars, feedVars, tabVars
<1>9. ASSUME NEW v \in Viewer, PostOffer(v) PROVE TypeOK'
  <2>1. AppendOffer(v)
    BY <1>9 DEF PostOffer
  <2>2. hostQ' \subseteq HostMsg /\ IsFiniteSet(hostQ') /\ viewerQ' \subseteq ViewerMsg
        /\ IsFiniteSet(viewerQ') /\ vin' \in [Viewer -> Seq(HostMsg)] /\ wiped' \subseteq Viewer
    <3>1. PICK m \in HostMsg :
            /\ hostQ' \subseteq hostQ \cup {m} /\ IsFiniteSet(hostQ')
            /\ viewerQ' = {k \in viewerQ : k.from # v} /\ IsFiniteSet(viewerQ')
            /\ vin' \in [Viewer -> Seq(HostMsg)] /\ wiped' = wiped
      BY <2>1, Offered
    <3> QED
      BY <3>1 DEF TypeOK
  <2>3. trouble' \subseteq {"ambiguous", "cut"}
    BY <1>9 DEF PostOffer, Cut, TypeOK
  <2> QED
    BY <1>9, <2>2, <2>3 DEF PostOffer, TypeOK, feedVars
<1>10. ASSUME NEW v \in Viewer, SessionFails(v) PROVE TypeOK'
  BY <1>10, FaultType DEF SessionFails, Forget, TypeOK, roomVars, feedVars, tabVars
<1>11. ASSUME NEW v \in Viewer, PostAmbiguous(v) PROVE TypeOK'
  <2>1. AppendOffer(v)
    BY <1>11 DEF PostAmbiguous
  <2>2. hostQ' \subseteq HostMsg /\ IsFiniteSet(hostQ') /\ viewerQ' \subseteq ViewerMsg
        /\ IsFiniteSet(viewerQ') /\ vin' \in [Viewer -> Seq(HostMsg)] /\ wiped' \subseteq Viewer
    <3>1. PICK m \in HostMsg :
            /\ hostQ' \subseteq hostQ \cup {m} /\ IsFiniteSet(hostQ')
            /\ viewerQ' = {k \in viewerQ : k.from # v} /\ IsFiniteSet(viewerQ')
            /\ vin' \in [Viewer -> Seq(HostMsg)] /\ wiped' = wiped
      BY <2>1, Offered
    <3> QED
      BY <3>1 DEF TypeOK
  <2>3. trouble' \subseteq {"ambiguous", "cut"}
    BY <1>11 DEF PostAmbiguous, Cut, TypeOK
  <2> QED
    BY <1>11, <2>2, <2>3, FaultType DEF PostAmbiguous, Forget, TypeOK, feedVars
<1>12. ASSUME NEW v \in Viewer, SessionEnds(v) PROVE TypeOK'
  BY <1>12 DEF SessionEnds, Forget, TypeOK, roomVars, feedVars, tabVars
<1> QED
  BY <1>1, <1>2, <1>3, <1>4, <1>5, <1>6, <1>7, <1>8, <1>9, <1>10, <1>11, <1>12 DEF Feed, RunViewer
\* So do those of the browser, and the alarm.
LEMMA TabTypes ==
    ASSUME TypeOK,
           \/ \E v \in Viewer :
               \/ Push(v) \/ HelloFails(v) \/ TabOpens(v) \/ TabLost(v) \/ TabPolls(v)
               \/ DeliverFrame(v) \/ Leave(v) \/ \E g \in pend[v] : AnswerLost(v, g)
           \/ Alarm
    PROVE  TypeOK'
<1> DEFINE Room ==
        /\ viewerQ' \subseteq ViewerMsg /\ IsFiniteSet(viewerQ') /\ hostQ' = hostQ /\ feed' = feed
        /\ wiped' = wiped
        /\ in' \in Seq(ViewerMsg) /\ since' \in Int /\ parked' \in BOOLEAN
        /\ trouble' \subseteq {"ambiguous", "cut"}
<1>1. ASSUME NEW v \in Viewer, NEW kind \in {"hello", "candidate", "answer"}, NEW g \in Nat,
             AppendViewer(v, kind, g)
      PROVE  Room
  <2>1. PICK m \in ViewerMsg :
          /\ viewerQ' \subseteq viewerQ \cup {m} /\ IsFiniteSet(viewerQ')
          /\ in' = in \/ in' = Append(in, m)
          /\ since' \in Int /\ parked' \in BOOLEAN
          /\ trouble' \subseteq trouble \cup {"cut"}
          /\ UNCHANGED <<hostQ, wiped, feed>>
    BY <1>1, Appended
  <2>2. in \in Seq(ViewerMsg) /\ Append(in, m) \in Seq(ViewerMsg)
    BY DEF TypeOK
  <2>3. in' \in Seq(ViewerMsg)
    BY <2>1, <2>2
  <2> QED
    BY <2>1, <2>3 DEF TypeOK
<1>2. ASSUME NEW v \in Viewer, Hello(v) PROVE TypeOK'
  <2>1. Room
    BY <1>1, <1>2 DEF Hello
  <2> QED
    BY <1>2, <2>1 DEF Hello, TypeOK, sessVars
<1>3. ASSUME NEW v \in Viewer, PushCandidate(v) PROVE TypeOK'
  <2>1. applied[v] \in Nat
    BY DEF TypeOK
  <2>2. Room
    BY <1>1, <1>3, <2>1 DEF PushCandidate
  <2> QED
    BY <1>3, <2>2 DEF PushCandidate, TypeOK, sessVars
<1>4. ASSUME NEW v \in Viewer, NEW g \in pend[v], PushAnswer(v, g) PROVE TypeOK'
  <2>1. g \in Nat
    BY DEF TypeOK
  <2>2. Room
    BY <1>1, <1>4, <2>1 DEF PushAnswer
  <2>3. pend' \in [Viewer -> SUBSET Nat]
    BY <1>4 DEF PushAnswer, TypeOK
  <2> QED
    BY <1>4, <2>2, <2>3 DEF PushAnswer, TypeOK, sessVars
<1>5. ASSUME NEW v \in Viewer, HelloFails(v) PROVE TypeOK'
  BY <1>5, FaultType DEF HelloFails, TypeOK, roomVars, feedVars, sessVars
<1>6. ASSUME NEW v \in Viewer, TabOpens(v) PROVE TypeOK'
  <2>1. PICK backlog \in InOrder(hostQ) : vin' = [vin EXCEPT ![v] = backlog]
    BY <1>6 DEF TabOpens
  <2>2. backlog \in Seq(HostMsg)
    BY Replayed, hostQ \subseteq hostQ DEF TypeOK
  <2> QED
    BY <1>6, <2>1, <2>2 DEF TabOpens, TypeOK, roomVars, feedVars, sessVars
<1>7. ASSUME NEW v \in Viewer, TabLost(v) PROVE TypeOK'
  <2>1. vin' \in [Viewer -> Seq(HostMsg)]
    BY <1>7 DEF TabLost, TypeOK
  <2> QED
    BY <1>7, <2>1, FaultType DEF TabLost, TypeOK, roomVars, feedVars, sessVars
<1>8. ASSUME NEW v \in Viewer, TabPolls(v) PROVE TypeOK'
  <2>1. PICK news \in InOrder(After(hostQ, seen[v])) : vin' = [vin EXCEPT ![v] = news]
    BY <1>8 DEF TabPolls
  <2>2. After(hostQ, seen[v]) \subseteq hostQ
    BY DEF After
  <2>3. news \in Seq(HostMsg)
    BY <2>2, Replayed DEF TypeOK
  <2> QED
    BY <1>8, <2>1, <2>3 DEF TabPolls, TypeOK, roomVars, feedVars, sessVars
<1>9. ASSUME NEW v \in Viewer, DeliverFrame(v) PROVE TypeOK'
  <2>1. vin[v] \in Seq(HostMsg) /\ vin[v] # <<>>
    BY <1>9 DEF DeliverFrame, TypeOK
  <2>2. Tail(vin[v]) \in Seq(HostMsg) /\ Head(vin[v]) \in HostMsg
    BY <2>1, HeadTail
  <2>3. PICK m \in HostMsg : m = Head(vin[v])
    BY <2>2
  <2>4. m.seq \in Int /\ m.gen \in Nat
    BY DEF HostMsg
  <2>5. vin' \in [Viewer -> Seq(HostMsg)]
    BY <1>9, <2>2 DEF DeliverFrame, TypeOK
  <2>6. /\ seen' = seen \/ seen' = [seen EXCEPT ![v] = m.seq]
        /\ applied' = applied \/ applied' = [applied EXCEPT ![v] = m.gen]
        /\ pend' = pend \/ pend' = [pend EXCEPT ![v] = @ \cup {m.gen}]
        /\ vpc' = vpc \/ vpc' = [vpc EXCEPT ![v] = "offered"]
    BY <1>9, <2>3 DEF DeliverFrame
  <2>7. /\ seen' \in [Viewer -> Int] /\ applied' \in [Viewer -> Nat]
        /\ vpc' \in [Viewer -> {"idle", "hello", "unheard", "offered", "gathered", "answered", "gone"}]
    BY <2>4, <2>6 DEF TypeOK
  <2>8. pend' \in [Viewer -> SUBSET Nat]
    <3>1. pend \in [Viewer -> SUBSET Nat] /\ pend[v] \cup {m.gen} \in SUBSET Nat
      BY <2>4 DEF TypeOK
    <3> QED
      BY <2>6, <3>1
  <2> QED
    BY <1>9, <2>5, <2>7, <2>8 DEF DeliverFrame, TypeOK, roomVars, feedVars, sessVars
<1>10. ASSUME NEW v \in Viewer, Leave(v) PROVE TypeOK'
  <2>1. vin' \in [Viewer -> Seq(HostMsg)] /\ pend' \in [Viewer -> SUBSET Nat]
    BY <1>10 DEF Leave, TypeOK
  <2> QED
    BY <1>10, <2>1 DEF Leave, TypeOK, roomVars, feedVars, sessVars
<1>11. ASSUME NEW v \in Viewer, NEW g \in pend[v], AnswerLost(v, g) PROVE TypeOK'
  <2>1. pend' \in [Viewer -> SUBSET Nat]
    BY <1>11 DEF AnswerLost, TypeOK
  <2> QED
    BY <1>11, <2>1, FaultType DEF AnswerLost, TypeOK, roomVars, feedVars, sessVars
<1>12. CASE Alarm
  <2>1. IsFiniteSet(hostQ') /\ IsFiniteSet(viewerQ')
    BY <1>12, FS_EmptySet DEF Alarm
  <2>2. faults' \in 0..MaxFaults
    BY <1>12, FaultType DEF Alarm, TypeOK
  <2> QED
    BY <1>12, <2>1, <2>2 DEF Alarm, TypeOK, feedVars, sessVars, tabVars
<1> QED
  BY <1>2, <1>3, <1>4, <1>5, <1>6, <1>7, <1>8, <1>9, <1>10, <1>11, <1>12 DEF Push

LEMMA TypeStep == TypeOK /\ [Next]_vars => TypeOK'
<1> SUFFICES ASSUME TypeOK, [Next]_vars PROVE TypeOK'
  OBVIOUS
<1>1. CASE UNCHANGED vars
  BY <1>1 DEF TypeOK, vars, roomVars, feedVars, sessVars, tabVars
<1>2. CASE Next
  BY <1>2, HostTypes, TabTypes DEF Next
<1> QED
  BY <1>1, <1>2

\* Type correctness, for any number of viewers and failures (every handler of the
\* room, of the host's feed and of the browser).
THEOREM TypeCorrect == Spec => []TypeOK
  BY TypeInit, TypeStep, PTL DEF Spec
-----------------------------------------------------------------------------
(* Who is there. *)

\* A step that queues and sends the host nothing new.
Narrow ==
    /\ viewerQ' \subseteq viewerQ
    /\ \A i \in 1..Len(in') : in'[i] \in viewerQ \/ \E j \in 1..Len(in) : in'[i] = in[j]

LEMMA NoNewHello ==
    ASSUME Narrow, NEW v \in Viewer, ~HelloQueued(v), ~HelloSent(v)
    PROVE  ~HelloQueued(v)' /\ ~HelloSent(v)'
  BY DEF Narrow, HelloQueued, HelloSent

LEMMA NothingSent ==
    ASSUME in' = <<>> PROVE Len(in') = 0 /\ \A i \in 1..Len(in') : FALSE
<1>1. Len(<<>>) = 0
  OBVIOUS
<1> QED
  BY <1>1

LEMMA FeedNarrow ==
    ASSUME TypeOK, Feed \/ WSLost \/ PollTimeout \/ PollFails \/ HandleFeedMessage \/ HostRestart
    PROVE  Narrow
<1>1. CASE DialWS
  <2>1. \A i \in 1..Len(in') : in'[i] \in viewerQ
    BY <1>1, Replayed, viewerQ \subseteq viewerQ DEF DialWS, TypeOK
  <2> QED
    BY <1>1, <2>1 DEF DialWS, Narrow, roomVars
<1>2. CASE PollWait
  <2>1. After(viewerQ, since) \subseteq viewerQ
    BY DEF After
  <2>a. /\ in' \in InOrder(After(viewerQ, since))
        /\ viewerQ \in SUBSET ViewerMsg /\ IsFiniteSet(viewerQ)
    BY <1>2 DEF PollWait, TypeOK
  <2>2. \A i \in 1..Len(in') : in'[i] \in viewerQ
    BY <2>1, <2>a, Replayed
  <2> QED
    BY <1>2, <2>2 DEF PollWait, Narrow, roomVars
<1>3. CASE WSLost \/ HostRestart
  BY <1>3, NothingSent DEF WSLost, HostRestart, Narrow, roomVars
<1>4. CASE PollTimeout \/ PollFails
  BY <1>4 DEF PollTimeout, PollFails, Narrow, roomVars
<1>5. CASE HandleFeedMessage
  <2>1. \A i \in 1..Len(in') : i + 1 \in 1..Len(in) /\ in'[i] = in[i + 1]
    BY <1>5, HeadTail DEF HandleFeedMessage, TypeOK
  <2> QED
    BY <1>5, <2>1 DEF HandleFeedMessage, Narrow, roomVars
<1> QED
  BY <1>1, <1>2, <1>3, <1>4, <1>5 DEF Feed

\* What a push adds is no hello of another viewer.
LEMMA PushedHello ==
    ASSUME TypeOK, NEW v \in Viewer, NEW kind \in {"hello", "candidate", "answer"},
           NEW g \in Nat, AppendViewer(v, kind, g),
           NEW w \in Viewer, w # v \/ kind # "hello"
    PROVE  (HelloQueued(w)' => HelloQueued(w)) /\ (HelloSent(w)' => HelloSent(w))
<1>1. PICK m \in ViewerMsg :
        /\ m.from = v /\ m.kind = kind
        /\ viewerQ' \subseteq viewerQ \cup {m} /\ (in' = in \/ in' = Append(in, m))
  BY Appended
<1>2. HelloQueued(w)' => HelloQueued(w)
  BY <1>1 DEF HelloQueued
<1>3. ASSUME NEW i \in 1..Len(in'), in'[i].from = w, in'[i].kind = "hello" PROVE HelloSent(w)
  <2>1. CASE in' = in
    BY <1>3, <2>1 DEF HelloSent
  <2>2. CASE in' = Append(in, m)
    <3>1. /\ Len(in) \in Nat /\ Len(in') = Len(in) + 1 /\ in'[Len(in) + 1] = m
          /\ \A j \in 1..Len(in) : in'[j] = in[j]
      BY <2>2, AppendLast DEF TypeOK
    <3>2. i # Len(in) + 1
      BY <1>1, <1>3, <3>1
    <3>3. i \in 1..Len(in)
      BY <3>1, <3>2
    <3> QED
      BY <1>3, <3>1, <3>3 DEF HelloSent
  <2> QED
    BY <1>1, <2>1, <2>2
<1> QED
  BY <1>2, <1>3 DEF HelloSent

LEMMA HostPresence ==
    ASSUME TypeOK, PresenceInv,
           \/ Feed \/ WSLost \/ PollTimeout \/ PollFails \/ HandleFeedMessage \/ HostRestart
           \/ \E v \in Viewer : RunViewer(v) \/ SessionFails(v) \/ PostAmbiguous(v) \/ SessionEnds(v)
    PROVE  PresenceInv'
<1>1. ASSUME UNCHANGED tabVars, Narrow,
             \A w \in Viewer : vpc[w] = "idle" => sess'[w] = "none"
      PROVE  PresenceInv'
  <2>1. ASSUME NEW w \in Viewer PROVE Present(w)'
    <3>1. vpc[w] = "idle" => ~HelloQueued(w)' /\ ~HelloSent(w)'
      BY <1>1, NoNewHello DEF PresenceInv, Present
    <3> QED
      BY <1>1, <3>1 DEF PresenceInv, Present, tabVars
  <2> QED
    BY <2>1 DEF PresenceInv
<1>2. CASE Feed \/ WSLost \/ PollTimeout \/ PollFails \/ HostRestart
  <2>1. UNCHANGED tabVars /\ \A w \in Viewer : sess'[w] = "none" \/ sess'[w] = sess[w]
    BY <1>2 DEF Feed, DialWS, PollWait, WSLost, PollTimeout, PollFails, HostRestart, sessVars
  <2>2. \A w \in Viewer : vpc[w] = "idle" => sess'[w] = "none"
    BY <2>1 DEF PresenceInv, Present
  <2> QED
    BY <1>1, <1>2, <2>1, <2>2, FeedNarrow
<1>3. CASE HandleFeedMessage
  <2>1. Head(in) \in ViewerMsg /\ Len(in) \in Nat \ {0} /\ Head(in) = in[1]
    BY <1>3, HeadTail DEF HandleFeedMessage, TypeOK
  <2>2. ASSUME NEW w \in Viewer, vpc[w] = "idle" PROVE sess'[w] = "none"
    <3>1. sess[w] = "none" /\ ~HelloSent(w)
      BY <2>2 DEF PresenceInv, Present
    <3>2. CASE FeedHello(Head(in))
      <4>1. w # Head(in).from
        BY <2>1, <3>1, <3>2 DEF FeedHello, HelloSent
      <4> QED
        BY <3>1, <3>2, <4>1 DEF FeedHello, TypeOK
    <3>3. CASE FeedAnswer(Head(in)) \/ FeedIgnored(Head(in))
      BY <3>1, <3>3 DEF FeedAnswer, FeedIgnored, sessVars
    <3> QED
      BY <1>3, <3>2, <3>3 DEF HandleFeedMessage
  <2>3. UNCHANGED tabVars
    BY <1>3 DEF HandleFeedMessage
  <2> QED
    BY <1>1, <1>3, <2>2, <2>3, FeedNarrow
<1>4. ASSUME NEW v \in Viewer, SetPeer(v) \/ SessionFails(v) \/ SessionEnds(v) PROVE PresenceInv'
  <2>1. /\ UNCHANGED <<roomVars, feedVars, tabVars>>
        /\ sess[v] # "none" /\ \A w \in Viewer : w # v => sess'[w] = sess[w]
    BY <1>4 DEF SetPeer, SessionFails, SessionEnds, Forget, TypeOK
  <2>2. Narrow
    BY <2>1 DEF Narrow, roomVars, feedVars
  <2>3. \A w \in Viewer : vpc[w] = "idle" => sess'[w] = "none"
    BY <2>1 DEF PresenceInv, Present
  <2> QED
    BY <1>1, <2>1, <2>2, <2>3
<1>5. ASSUME NEW v \in Viewer, PostOffer(v) \/ PostAmbiguous(v) PROVE PresenceInv'
  <2>1. /\ AppendOffer(v) /\ UNCHANGED <<feedVars, net, seen, vpc, applied, pend>>
        /\ sess[v] # "none" /\ \A w \in Viewer : w # v => sess'[w] = sess[w]
    BY <1>5 DEF PostOffer, PostAmbiguous, Forget, TypeOK
  <2>2. Narrow
    BY <2>1 DEF AppendOffer, Purge, Narrow, feedVars
  <2>3. ASSUME NEW w \in Viewer PROVE Present(w)'
    <3>1. vpc[w] = "idle" => sess'[w] = "none" /\ ~HelloQueued(w)' /\ ~HelloSent(w)'
      BY <2>1, <2>2, NoNewHello DEF PresenceInv, Present
    <3>2. net[w] # "ws" => vin'[w] = vin[w]
      BY <2>1 DEF AppendOffer
    <3> QED
      BY <2>1, <3>1, <3>2 DEF PresenceInv, Present
  <2> QED
    BY <2>3 DEF PresenceInv
<1> QED
  BY <1>2, <1>3, <1>4, <1>5 DEF RunViewer
LEMMA TabPresence ==
    ASSUME TypeOK, PresenceInv,
           \/ \E v \in Viewer :
               \/ Push(v) \/ HelloFails(v) \/ TabOpens(v) \/ TabLost(v) \/ TabPolls(v)
               \/ DeliverFrame(v) \/ Leave(v) \/ \E g \in pend[v] : AnswerLost(v, g)
           \/ Alarm
    PROVE  PresenceInv'
\* v itself is not idle afterwards, and the others keep what they have.
<1>1. ASSUME NEW v \in Viewer,
             net'[v] = "off" <=> vpc'[v] = "gone", vpc'[v] # "idle",
             net'[v] \in {"off", "dial"} => vin'[v] = <<>>,
             net'[v] = "off" => pend'[v] = {},
             sess' = sess,
             \A w \in Viewer \ {v} :
                /\ net'[w] = net[w] /\ vpc'[w] = vpc[w] /\ vin'[w] = vin[w]
                /\ pend'[w] = pend[w] /\ seen'[w] = seen[w]
                /\ HelloQueued(w)' => HelloQueued(w)
                /\ HelloSent(w)' => HelloSent(w)
      PROVE  PresenceInv'
  <2>1. Present(v)'
    BY <1>1 DEF Present
  <2>2. ASSUME NEW w \in Viewer \ {v} PROVE Present(w)'
    <3>1. Present(w)
      BY DEF PresenceInv
    <3> QED
      BY <1>1, <3>1 DEF Present
  <2> QED
    BY <2>1, <2>2 DEF PresenceInv
<1>2. ASSUME UNCHANGED <<roomVars, feedVars>>, NEW w \in Viewer
      PROVE  (HelloQueued(w)' => HelloQueued(w)) /\ (HelloSent(w)' => HelloSent(w))
  BY <1>2 DEF HelloQueued, HelloSent, roomVars, feedVars
<1>3. ASSUME NEW v \in Viewer, NEW kind \in {"hello", "candidate", "answer"}, NEW g \in Nat,
             AppendViewer(v, kind, g), NEW w \in Viewer \ {v}
      PROVE  (HelloQueued(w)' => HelloQueued(w)) /\ (HelloSent(w)' => HelloSent(w))
  BY <1>3, PushedHello
<1>4. ASSUME NEW v \in Viewer, Hello(v) PROVE PresenceInv'
  <2>1. \A w \in Viewer \ {v} :
          (HelloQueued(w)' => HelloQueued(w)) /\ (HelloSent(w)' => HelloSent(w))
    BY <1>3, <1>4 DEF Hello
  <2>2. vin[v] = <<>>
    BY <1>4 DEF Hello, PresenceInv, Present
  <2> QED
    BY <1>1, <1>4, <2>1, <2>2 DEF Hello, TypeOK, sessVars
<1>5. ASSUME NEW v \in Viewer, PushCandidate(v) PROVE PresenceInv'
  <2>1. applied[v] \in Nat
    BY DEF TypeOK
  <2>2. \A w \in Viewer \ {v} :
          (HelloQueued(w)' => HelloQueued(w)) /\ (HelloSent(w)' => HelloSent(w))
    BY <1>3, <1>5, <2>1 DEF PushCandidate
  <2> QED
    BY <1>1, <1>5, <2>2 DEF PushCandidate, PresenceInv, Present, TypeOK, sessVars
<1>6. ASSUME NEW v \in Viewer, NEW g \in pend[v], PushAnswer(v, g) PROVE PresenceInv'
  <2>1. g \in Nat
    BY DEF TypeOK
  <2>2. \A w \in Viewer \ {v} :
          (HelloQueued(w)' => HelloQueued(w)) /\ (HelloSent(w)' => HelloSent(w))
    BY <1>3, <1>6, <2>1 DEF PushAnswer
  <2>3. net[v] # "off" /\ (net[v] = "dial" => vin[v] = <<>>)
    BY DEF PresenceInv, Present
  <2> QED
    BY <1>1, <1>6, <2>2, <2>3 DEF PushAnswer, TypeOK, sessVars
<1>7. ASSUME NEW v \in Viewer, HelloFails(v) PROVE PresenceInv'
  <2>1. vin[v] = <<>>
    BY <1>7 DEF HelloFails, PresenceInv, Present
  <2>2. \A w \in Viewer \ {v} :
          (HelloQueued(w)' => HelloQueued(w)) /\ (HelloSent(w)' => HelloSent(w))
    BY <1>2, <1>7 DEF HelloFails
  <2> QED
    BY <1>1, <1>7, <2>1, <2>2 DEF HelloFails, TypeOK, sessVars
<1>8. ASSUME NEW v \in Viewer, TabOpens(v) \/ TabLost(v) \/ TabPolls(v) PROVE PresenceInv'
  <2>1. vpc[v] \notin {"idle", "gone"}
    <3>1. net[v] # "off"
      BY <1>8 DEF TabOpens, TabLost, TabPolls
    <3> QED
      BY <3>1 DEF PresenceInv, Present
  <2>2. \A w \in Viewer \ {v} :
          (HelloQueued(w)' => HelloQueued(w)) /\ (HelloSent(w)' => HelloSent(w))
    BY <1>2, <1>8 DEF TabOpens, TabLost, TabPolls
  <2>3. /\ net'[v] \in {"ws", "http"}
        /\ \A w \in Viewer \ {v} : net'[w] = net[w] /\ vin'[w] = vin[w]
        /\ UNCHANGED <<sessVars, vpc, pend, seen>>
    BY <1>8 DEF TabOpens, TabLost, TabPolls, TypeOK
  <2> QED
    BY <1>1, <2>1, <2>2, <2>3 DEF sessVars
<1>9. ASSUME NEW v \in Viewer, DeliverFrame(v) PROVE PresenceInv'
  <2>1. net[v] \notin {"off", "dial"} /\ vpc[v] \notin {"idle", "gone"}
    BY <1>9 DEF DeliverFrame, PresenceInv, Present
  <2>2. \A w \in Viewer \ {v} :
          (HelloQueued(w)' => HelloQueued(w)) /\ (HelloSent(w)' => HelloSent(w))
    BY <1>2, <1>9 DEF DeliverFrame
  <2>3. /\ vpc' = vpc \/ vpc' = [vpc EXCEPT ![v] = "offered"]
        /\ UNCHANGED <<sessVars, net>>
        /\ \A w \in Viewer \ {v} : vin'[w] = vin[w] /\ pend'[w] = pend[w] /\ seen'[w] = seen[w]
    BY <1>9 DEF DeliverFrame, TypeOK
  <2>4. vpc'[v] \notin {"idle", "gone"} /\ \A w \in Viewer \ {v} : vpc'[w] = vpc[w]
    BY <2>1, <2>3 DEF TypeOK
  <2> QED
    BY <1>1, <2>1, <2>2, <2>3, <2>4 DEF sessVars
<1>10. ASSUME NEW v \in Viewer, Leave(v) PROVE PresenceInv'
  <2>1. \A w \in Viewer \ {v} :
          (HelloQueued(w)' => HelloQueued(w)) /\ (HelloSent(w)' => HelloSent(w))
    BY <1>2, <1>10 DEF Leave
  <2> QED
    BY <1>1, <1>10, <2>1 DEF Leave, TypeOK, sessVars
<1>11. ASSUME NEW v \in Viewer, NEW g \in pend[v], AnswerLost(v, g) PROVE PresenceInv'
  <2>1. \A w \in Viewer \ {v} :
          (HelloQueued(w)' => HelloQueued(w)) /\ (HelloSent(w)' => HelloSent(w))
    BY <1>2, <1>11 DEF AnswerLost
  <2>2. net[v] # "off" /\ vpc[v] \notin {"idle", "gone"} /\ (net[v] = "dial" => vin[v] = <<>>)
    BY DEF PresenceInv, Present
  <2> QED
    BY <1>1, <1>11, <2>1, <2>2 DEF AnswerLost, TypeOK, sessVars
<1>12. CASE Alarm
  <2>1. Narrow /\ UNCHANGED <<sessVars, tabVars>>
    BY <1>12 DEF Alarm, Narrow, feedVars
  <2>2. ASSUME NEW w \in Viewer PROVE Present(w)'
    <3>1. vpc[w] = "idle" => ~HelloQueued(w)' /\ ~HelloSent(w)'
      BY <2>1, NoNewHello DEF PresenceInv, Present
    <3> QED
      BY <2>1, <3>1 DEF PresenceInv, Present, sessVars, tabVars
  <2> QED
    BY <2>2 DEF PresenceInv
<1> QED
  BY <1>4, <1>5, <1>6, <1>7, <1>8, <1>9, <1>10, <1>11, <1>12 DEF Push

LEMMA PresenceInit == Init => PresenceInv
<1> SUFFICES ASSUME Init, NEW w \in Viewer PROVE Present(w)
  BY DEF PresenceInv
<1>1. ~HelloQueued(w) /\ ~HelloSent(w)
  <2>1. Len(<<>>) = 0
    OBVIOUS
  <2> QED
    BY <2>1 DEF Init, HelloQueued, HelloSent
<1> QED
  BY <1>1 DEF Init, Present

LEMMA PresenceStep == TypeOK /\ PresenceInv /\ [Next]_vars => PresenceInv'
<1> SUFFICES ASSUME TypeOK, PresenceInv, [Next]_vars PROVE PresenceInv'
  OBVIOUS
<1>1. CASE UNCHANGED vars
  BY <1>1 DEF PresenceInv, Present, HelloQueued, HelloSent, vars, roomVars, feedVars, sessVars, tabVars
<1>2. CASE Next
  BY <1>2, HostPresence, TabPresence DEF Next
<1> QED
  BY <1>1, <1>2

\* A wipe is never undone.
LEMMA WipedStays == [Next]_vars => wiped \subseteq wiped'
<1> SUFFICES ASSUME [Next]_vars PROVE wiped \subseteq wiped'
  OBVIOUS
<1>1. CASE UNCHANGED vars
  BY <1>1 DEF vars, roomVars
<1>2. CASE \/ Feed \/ WSLost \/ PollTimeout \/ PollFails \/ HandleFeedMessage \/ HostRestart
           \/ \E v \in Viewer : RunViewer(v) \/ SessionFails(v) \/ PostAmbiguous(v) \/ SessionEnds(v)
  BY <1>2 DEF Feed, DialWS, PollWait, WSLost, PollTimeout, PollFails, HandleFeedMessage, HostRestart,
              RunViewer, SetPeer, PostOffer, AppendOffer, SessionFails, PostAmbiguous, SessionEnds,
              roomVars
<1>3. CASE \E v \in Viewer :
             \/ Push(v) \/ HelloFails(v) \/ TabOpens(v) \/ TabLost(v) \/ TabPolls(v)
             \/ DeliverFrame(v) \/ Leave(v) \/ \E g \in pend[v] : AnswerLost(v, g)
  BY <1>3 DEF Push, Hello, PushCandidate, PushAnswer, AppendViewer, HelloFails, TabOpens, TabLost,
              TabPolls, DeliverFrame, Leave, AnswerLost, roomVars
<1>4. CASE Alarm
  BY <1>4 DEF Alarm
<1> QED
  BY <1>1, <1>2, <1>3, <1>4 DEF Next

LEMMA HelloStep ==
    TypeOK /\ PresenceInv /\ HelloNotLost /\ [Next]_vars => HelloNotLost'
<1> SUFFICES ASSUME TypeOK, PresenceInv, HelloNotLost, [Next]_vars PROVE HelloNotLost'
  OBVIOUS
<1>0. \A w \in Viewer \ wiped' : w \in Viewer \ wiped
  BY WipedStays
\* A step that cuts no queue, takes no message out and says no hello.
<1>1. ASSUME \A w \in Viewer : vpc'[w] = "hello" => vpc[w] = "hello",
             "cut" \notin trouble' => "cut" \notin trouble /\ viewerQ \subseteq viewerQ',
             hostQ \subseteq hostQ'
      PROVE  HelloNotLost'
  <2>1. SUFFICES ASSUME NEW w \in Viewer \ wiped', vpc'[w] = "hello", "cut" \notin trouble'
                 PROVE  \/ \E m \in viewerQ' : m.kind = "hello" /\ m.from = w
                        \/ \E m \in hostQ' : m.to = w
    BY DEF HelloNotLost
  <2>2. \/ \E m \in viewerQ : m.kind = "hello" /\ m.from = w
        \/ \E m \in hostQ : m.to = w
    BY <1>0, <1>1, <2>1 DEF HelloNotLost
  <2> QED
    BY <1>1, <2>1, <2>2
<1>2. ASSUME UNCHANGED <<roomVars, trouble>>,
             \A w \in Viewer : vpc'[w] = "hello" => vpc[w] = "hello"
      PROVE  HelloNotLost'
  BY <1>1, <1>2 DEF roomVars
<1>3. CASE UNCHANGED vars \/ Feed \/ WSLost \/ PollTimeout \/ PollFails \/ HandleFeedMessage \/ HostRestart
  BY <1>2, <1>3 DEF Feed, DialWS, PollWait, WSLost, PollTimeout, PollFails, HandleFeedMessage,
                    HostRestart, vars, tabVars
<1>4. ASSUME NEW v \in Viewer,
             SetPeer(v) \/ SessionFails(v) \/ SessionEnds(v) \/ TabOpens(v) \/ TabLost(v) \/ TabPolls(v)
      PROVE  HelloNotLost'
  BY <1>2, <1>4 DEF SetPeer, SessionFails, SessionEnds, TabOpens, TabLost, TabPolls, tabVars
<1>5. ASSUME NEW v \in Viewer, HelloFails(v) \/ DeliverFrame(v) \/ Leave(v) \/ \E g \in pend[v] : AnswerLost(v, g)
      PROVE  HelloNotLost'
  <2>1. \A w \in Viewer : vpc'[w] = "hello" => vpc[w] = "hello"
    BY <1>5 DEF HelloFails, DeliverFrame, Leave, AnswerLost, TypeOK
  <2> QED
    BY <1>2, <1>5, <2>1 DEF HelloFails, DeliverFrame, Leave, AnswerLost
\* An offer takes away what its own viewer has said, and is there for it.
<1>6. ASSUME NEW v \in Viewer, PostOffer(v) \/ PostAmbiguous(v) PROVE HelloNotLost'
  <2>1. AppendOffer(v) /\ vpc' = vpc /\ trouble \cup Cut(hostQ) \subseteq trouble'
    BY <1>6 DEF PostOffer, PostAmbiguous
  <2>2. PICK o \in HostMsg :
          /\ o.to = v /\ o \in hostQ'
          /\ "cut" \notin Cut(hostQ) => \A k \in hostQ : k.to # v => k \in hostQ'
          /\ viewerQ' = {k \in viewerQ : k.from # v}
    BY <2>1, Offered
  <2>3. SUFFICES ASSUME NEW w \in Viewer \ wiped', vpc'[w] = "hello", "cut" \notin trouble', w # v
                 PROVE  \/ \E m \in viewerQ' : m.kind = "hello" /\ m.from = w
                        \/ \E m \in hostQ' : m.to = w
    BY <2>2 DEF HelloNotLost
  <2>4. \/ \E m \in viewerQ : m.kind = "hello" /\ m.from = w
        \/ \E m \in hostQ : m.to = w
    BY <1>0, <2>1, <2>3 DEF HelloNotLost
  <2> QED
    BY <2>1, <2>2, <2>3, <2>4
<1>7. ASSUME NEW v \in Viewer, Hello(v) PROVE HelloNotLost'
  <2>1. PICK m \in ViewerMsg :
          /\ m.from = v /\ m.kind = "hello" /\ m \in viewerQ'
          /\ "cut" \notin trouble' => viewerQ \subseteq viewerQ'
          /\ trouble \subseteq trouble' /\ hostQ' = hostQ
    BY <1>7, Appended DEF Hello
  <2>2. SUFFICES ASSUME NEW w \in Viewer \ wiped', vpc'[w] = "hello", "cut" \notin trouble', w # v
                 PROVE  \/ \E k \in viewerQ' : k.kind = "hello" /\ k.from = w
                        \/ \E k \in hostQ' : k.to = w
    BY <2>1 DEF HelloNotLost
  <2>3. vpc[w] = "hello"
    BY <1>7, <2>2 DEF Hello, TypeOK
  <2>4. \/ \E k \in viewerQ : k.kind = "hello" /\ k.from = w
        \/ \E k \in hostQ : k.to = w
    BY <1>0, <2>1, <2>2, <2>3 DEF HelloNotLost
  <2> QED
    BY <2>1, <2>2, <2>4
<1>8. ASSUME NEW v \in Viewer, PushCandidate(v) \/ \E g \in pend[v] : PushAnswer(v, g)
      PROVE  HelloNotLost'
  <2>1. PICK kind \in {"candidate", "answer"}, g \in Nat : AppendViewer(v, kind, g)
    BY <1>8 DEF PushCandidate, PushAnswer, TypeOK
  <2>2. \A w \in Viewer : vpc'[w] = "hello" => vpc[w] = "hello"
    BY <1>8 DEF PushCandidate, PushAnswer, TypeOK
  <2>3. /\ "cut" \notin trouble' => viewerQ \subseteq viewerQ'
        /\ trouble \subseteq trouble' /\ hostQ' = hostQ
    BY <2>1, Appended
  <2> QED
    BY <1>1, <2>2, <2>3
\* Who waits when the room is wiped is there, and is remembered.
<1>9. CASE Alarm
  <2>1. ASSUME NEW w \in Viewer, vpc'[w] = "hello" PROVE w \in wiped'
    <3>1. net[w] # "off"
      BY <1>9, <2>1 DEF Alarm, PresenceInv, Present, tabVars
    <3> QED
      BY <1>9, <3>1 DEF Alarm
  <2> QED
    BY <2>1 DEF HelloNotLost
<1> QED
  BY <1>3, <1>4, <1>5, <1>6, <1>7, <1>8, <1>9 DEF Next, RunViewer, Push

\* A hello stays in the room until an offer to its viewer is there, unless a queue
\* overflowed or the room was wiped while the viewer waited (roomState.ts append and
\* purge, roomDO.ts alarm, signaling.ts start).
THEOREM HelloKept == Spec => []HelloNotLost
<1>1. Init => HelloNotLost
  BY DEF Init, HelloNotLost
<1> QED
  BY <1>1, TypeInit, TypeStep, PresenceInit, PresenceStep, HelloStep, PTL DEF Spec
-----------------------------------------------------------------------------
(* Whose answer is applied. *)

\* A viewer with no mark is whatever it is: a stale hello has an answer before it.
LEMMA Unmarked ==
    ASSUME TypeOK', NEW v \in Viewer, \A g \in Nat : ~Mark(v, g)'
    PROVE  OneGen(v)'
<1>1. ASSUME Stale(v)' PROVE FALSE
  <2>1. CASE answered'[v] # 0
    <3>1. answered'[v] \in Nat
      BY DEF TypeOK
    <3> QED
      BY <2>1, <3>1 DEF Mark
  <2>2. CASE HelloAfterAnswer(v)'
    <3>1. PICK i \in 1..Len(in') : in'[i].from = v /\ in'[i].kind = "answer"
      BY <2>2 DEF HelloAfterAnswer
    <3>2. in'[i] \in ViewerMsg
      BY DEF TypeOK
    <3>3. in'[i].gen \in Nat
      BY <3>2 DEF ViewerMsg
    <3>4. PICK g \in Nat : g = in'[i].gen
      BY <3>3
    <3>5. AnswerSent(v, g)'
      BY <3>1, <3>4 DEF AnswerSent
    <3> QED
      BY <3>5 DEF Mark
  <2> QED
    BY <1>1, <2>1, <2>2 DEF Stale
<1> QED
  BY <1>1 DEF OneGen

\* A step that marks nothing new keeps OneGen, whatever hello it moves while v is early.
LEMMA Transfer ==
    ASSUME TypeOK', NEW v \in Viewer, OneGen(v), gen'[v] = gen[v],
           \A g \in Nat : Mark(v, g)' => Mark(v, g),
           Early(v)' => Early(v),
           Stale(v)' => Stale(v) \/ Early(v)
    PROVE  OneGen(v)'
<1>1. CASE Early(v)
  <2>1. \A g \in Nat : ~Mark(v, g)'
    BY <1>1 DEF OneGen
  <2> QED
    BY <2>1, Unmarked
<1>2. CASE ~Early(v)
  BY <1>2 DEF OneGen
<1> QED
  BY <1>1, <1>2

\* What a step that leaves the room, the host's input or the frames alone keeps.
LEMMA RoomSame ==
    ASSUME viewerQ' \subseteq viewerQ, hostQ' \subseteq hostQ, NEW v
    PROVE  /\ HelloQueued(v)' => HelloQueued(v)
           /\ \A g \in Nat : /\ OfferQueued(v, g)' => OfferQueued(v, g)
                             /\ AnswerQueued(v, g)' => AnswerQueued(v, g)
  BY DEF HelloQueued, OfferQueued, AnswerQueued

LEMMA InSame ==
    ASSUME in' = in \/ in' = <<>>, NEW v
    PROVE  /\ HelloSent(v)' => HelloSent(v)
           /\ HelloAfterAnswer(v)' => HelloAfterAnswer(v)
           /\ \A g \in Nat : AnswerSent(v, g)' => AnswerSent(v, g)
<1>1. CASE in' = in
  BY <1>1 DEF HelloSent, HelloAfterAnswer, AnswerSent
<1>2. CASE in' = <<>>
  BY <1>2, NothingSent DEF HelloSent, HelloAfterAnswer, AnswerSent
<1> QED
  BY <1>1, <1>2

LEMMA FramesFrom ==
    ASSUME NEW M \in SUBSET hostQ,
           \A u \in Viewer : \A i \in 1..Len(vin'[u]) :
               vin'[u][i] \in M \/ \E j \in 1..Len(vin[u]) : vin'[u][i] = vin[u][j],
           NEW v, NEW g \in Nat
    PROVE  OfferSent(v, g)' => OfferSent(v, g) \/ OfferQueued(v, g)
<1> SUFFICES ASSUME NEW u \in Viewer, NEW i \in 1..Len(vin'[u]),
                    vin'[u][i].to = v, vin'[u][i].gen = g
             PROVE  OfferSent(v, g) \/ OfferQueued(v, g)
  BY DEF OfferSent
<1>1. CASE vin'[u][i] \in M
  BY <1>1 DEF OfferQueued
<1>2. CASE \E j \in 1..Len(vin[u]) : vin'[u][i] = vin[u][j]
  <2>1. PICK j \in 1..Len(vin[u]) : vin'[u][i] = vin[u][j]
    BY <1>2
  <2>2. vin[u][j].to = v /\ vin[u][j].gen = g
    BY <2>1
  <2> QED
    BY <2>2 DEF OfferSent
<1> QED
  BY <1>1, <1>2

\* A push queues and sends an answer only if it is one, and a hello only if it is one.
LEMMA PushedMarks ==
    ASSUME TypeOK, NEW v \in Viewer, NEW kind \in {"hello", "candidate", "answer"},
           NEW h \in Nat, AppendViewer(v, kind, h), NEW w \in Viewer
    PROVE  /\ \A g \in Nat :
               /\ AnswerQueued(w, g)' => AnswerQueued(w, g) \/ (w = v /\ g = h /\ kind = "answer")
               /\ AnswerSent(w, g)' => AnswerSent(w, g) \/ (w = v /\ g = h /\ kind = "answer")
           /\ w # v \/ kind # "hello" => (HelloAfterAnswer(w)' => HelloAfterAnswer(w))
<1>1. PICK m \in ViewerMsg :
        /\ m.from = v /\ m.kind = kind /\ m.gen = h
        /\ viewerQ' \subseteq viewerQ \cup {m} /\ (in' = in \/ in' = Append(in, m))
  BY Appended
<1>2. \A g \in Nat : AnswerQueued(w, g)' => AnswerQueued(w, g) \/ (w = v /\ g = h /\ kind = "answer")
  BY <1>1 DEF AnswerQueued
<1>3. CASE in' = in
  BY <1>2, <1>3, InSame
<1>4. CASE in' = Append(in, m)
  <2>1. /\ Len(in) \in Nat /\ Len(in') = Len(in) + 1 /\ in'[Len(in) + 1] = m
        /\ \A j \in 1..Len(in) : in'[j] = in[j]
    BY <1>4, AppendLast DEF TypeOK
  <2>2. \A i \in 1..Len(in') : i \in 1..Len(in) \/ i = Len(in) + 1
    BY <2>1
  <2>3. ASSUME NEW g \in Nat, AnswerSent(w, g)'
        PROVE  AnswerSent(w, g) \/ (w = v /\ g = h /\ kind = "answer")
    <3>1. PICK i \in 1..Len(in') : in'[i].from = w /\ in'[i].kind = "answer" /\ in'[i].gen = g
      BY <2>3 DEF AnswerSent
    <3>2. CASE i = Len(in) + 1
      BY <1>1, <2>1, <3>1, <3>2
    <3>3. CASE i \in 1..Len(in)
      BY <2>1, <3>1, <3>3 DEF AnswerSent
    <3> QED
      BY <2>2, <3>2, <3>3
  <2>4. ASSUME w # v \/ kind # "hello", HelloAfterAnswer(w)' PROVE HelloAfterAnswer(w)
    <3>1. PICK i, j \in 1..Len(in') : /\ i < j /\ in'[i].from = w /\ in'[i].kind = "answer"
                                      /\ in'[j].from = w /\ in'[j].kind = "hello"
      BY <2>4 DEF HelloAfterAnswer
    <3>2. j # Len(in) + 1
      BY <1>1, <2>1, <2>4, <3>1
    <3>3. i \in 1..Len(in) /\ j \in 1..Len(in)
      BY <2>1, <2>2, <3>1, <3>2
    <3>4. in[i] = in'[i] /\ in[j] = in'[j]
      BY <2>1, <3>3
    <3> QED
      BY <3>1, <3>3, <3>4 DEF HelloAfterAnswer
  <2> QED
    BY <1>2, <2>3, <2>4
<1> QED
  BY <1>1, <1>3, <1>4
\* The host's feed.
LEMMA FeedAnswers ==
    ASSUME TypeOK, TypeOK', NEW v \in Viewer, OneGen(v),
           Feed \/ WSLost \/ PollTimeout \/ PollFails \/ HostRestart
    PROVE  OneGen(v)'
<1>1. CASE WSLost \/ PollTimeout \/ PollFails
  <2>1. /\ in' = in \/ in' = <<>>
        /\ viewerQ' \subseteq viewerQ /\ hostQ' \subseteq hostQ /\ UNCHANGED <<sessVars, tabVars>>
    BY <1>1 DEF WSLost, PollTimeout, PollFails, roomVars
  <2>2. \A g \in Nat : OfferSent(v, g)' => OfferSent(v, g)
    BY <2>1 DEF OfferSent, tabVars
  <2>3. \A g \in Nat : Mark(v, g)' => Mark(v, g)
    BY <2>1, <2>2, RoomSame, InSame DEF Mark, sessVars, tabVars
  <2>4. (Early(v)' => Early(v)) /\ (Stale(v)' => Stale(v))
    BY <2>1, RoomSame, InSame DEF Early, Stale, sessVars, tabVars
  <2> QED
    BY <2>1, <2>3, <2>4, Transfer DEF sessVars
<1>2. CASE HostRestart
  <2>1. /\ in' = <<>> /\ viewerQ' \subseteq viewerQ /\ hostQ' \subseteq hostQ
        /\ sess'[v] = "none" /\ answered'[v] = 0 /\ gen' = gen /\ UNCHANGED tabVars
    BY <1>2 DEF HostRestart, roomVars
  <2>2. ~HelloSent(v)' /\ ~HelloAfterAnswer(v)'
    BY <2>1, NothingSent DEF HelloSent, HelloAfterAnswer
  <2>3. \A g \in Nat : OfferSent(v, g)' => OfferSent(v, g)
    BY <2>1 DEF OfferSent, tabVars
  <2>4. \A g \in Nat : Mark(v, g)' => Mark(v, g)
    BY <2>1, <2>3, RoomSame, InSame DEF Mark, tabVars
  <2>5. (Early(v)' => Early(v)) /\ ~Stale(v)'
    BY <2>1, <2>2, RoomSame DEF Early, Stale, tabVars
  <2> QED
    BY <2>1, <2>4, <2>5, Transfer
\* A replay, or a poll, sends what is queued.
<1>3. CASE Feed
  <2>1. UNCHANGED <<roomVars, sessVars, tabVars>>
    BY <1>3 DEF Feed, DialWS, PollWait
  <2>2. \A i \in 1..Len(in') : in'[i] \in viewerQ
    <3>1. CASE DialWS
      BY <3>1, Replayed, viewerQ \subseteq viewerQ DEF DialWS, TypeOK
    <3>2. CASE PollWait
      <4>1. After(viewerQ, since) \subseteq viewerQ
        BY DEF After
      <4>2. in' \in InOrder(After(viewerQ, since))
        BY <3>2 DEF PollWait
      <4>3. viewerQ \in SUBSET ViewerMsg /\ IsFiniteSet(viewerQ)
        BY DEF TypeOK
      <4>4. \A i \in 1..Len(in') : in'[i] \in After(viewerQ, since)
        BY <4>1, <4>2, <4>3, Replayed
      <4> QED
        BY <4>1, <4>4
    <3> QED
      BY <1>3, <3>1, <3>2 DEF Feed
  <2>3. (HelloSent(v)' => HelloQueued(v)) /\ (HelloAfterAnswer(v)' => HelloQueued(v))
    BY <2>2 DEF HelloSent, HelloAfterAnswer, HelloQueued
  <2>4. \A g \in Nat : AnswerSent(v, g)' => AnswerQueued(v, g)
    BY <2>2 DEF AnswerSent, AnswerQueued
  <2>5. \A g \in Nat : OfferSent(v, g)' => OfferSent(v, g)
    BY <2>1 DEF OfferSent, tabVars
  <2>6. viewerQ' \subseteq viewerQ /\ hostQ' \subseteq hostQ
    BY <2>1 DEF roomVars
  <2>7. \A g \in Nat : Mark(v, g)' => Mark(v, g)
    BY <2>1, <2>4, <2>5, <2>6, RoomSame DEF Mark, sessVars, tabVars
  <2>8. (Early(v)' => Early(v)) /\ (Stale(v)' => Early(v))
    BY <2>1, <2>3, <2>6, RoomSame DEF Early, Stale, sessVars, tabVars
  <2> QED
    BY <2>1, <2>7, <2>8, Transfer DEF sessVars
<1> QED
  BY <1>1, <1>2, <1>3

\* The host's handler: a hello starts a session while nothing is marked; the answer
\* it applies is marked, and no hello comes after it.
LEMMA HandlerAnswers ==
    ASSUME TypeOK, TypeOK', NEW v \in Viewer, OneGen(v), HandleFeedMessage
    PROVE  OneGen(v)'
<1>1. PICK m \in ViewerMsg : m = Head(in)
  BY HeadTail DEF HandleFeedMessage, TypeOK
<1>2. /\ Len(in) \in Nat \ {0} /\ in[1] = m /\ Len(in') = Len(in) - 1
      /\ \A i \in 1..Len(in') : i + 1 \in 1..Len(in) /\ in'[i] = in[i + 1]
  BY <1>1, HeadTail DEF HandleFeedMessage, TypeOK
<1>3. /\ UNCHANGED tabVars /\ viewerQ' \subseteq viewerQ /\ hostQ' \subseteq hostQ
      /\ FeedHello(m) \/ FeedAnswer(m) \/ FeedIgnored(m)
  BY <1>1 DEF HandleFeedMessage, roomVars
<1>4. HelloSent(v)' => HelloSent(v)
  BY <1>2 DEF HelloSent
<1>5. HelloAfterAnswer(v)' => HelloAfterAnswer(v)
  <2>1. ASSUME HelloAfterAnswer(v)' PROVE HelloAfterAnswer(v)
    <3>1. PICK i, j \in 1..Len(in') : /\ i < j /\ in'[i].from = v /\ in'[i].kind = "answer"
                                      /\ in'[j].from = v /\ in'[j].kind = "hello"
      BY <2>1 DEF HelloAfterAnswer
    <3>2. /\ i + 1 \in 1..Len(in) /\ j + 1 \in 1..Len(in) /\ i + 1 < j + 1
          /\ in[i + 1] = in'[i] /\ in[j + 1] = in'[j]
      BY <1>2, <3>1
    <3> QED
      BY <3>1, <3>2 DEF HelloAfterAnswer
  <2> QED
    BY <2>1
<1>6. \A g \in Nat : AnswerSent(v, g)' => AnswerSent(v, g)
  BY <1>2 DEF AnswerSent
<1>7. \A g \in Nat : OfferSent(v, g)' => OfferSent(v, g)
  BY <1>3 DEF OfferSent, tabVars
<1>8. m.from \in Viewer /\ m.gen \in Nat
  BY DEF ViewerMsg
\* A step that leaves v's session alone.
<1>9. ASSUME sess'[v] = sess[v], gen'[v] = gen[v], answered'[v] = answered[v] PROVE OneGen(v)'
  <2>1. \A g \in Nat : Mark(v, g)' => Mark(v, g)
    BY <1>3, <1>6, <1>7, <1>9, RoomSame DEF Mark, tabVars
  <2>2. (Early(v)' => Early(v)) /\ (Stale(v)' => Stale(v))
    BY <1>3, <1>4, <1>5, <1>9, RoomSame DEF Early, Stale, tabVars
  <2> QED
    BY <1>9, <2>1, <2>2, Transfer
<1>10. CASE FeedIgnored(m)
  BY <1>9, <1>10 DEF FeedIgnored, sessVars
<1>11. CASE (FeedHello(m) \/ FeedAnswer(m)) /\ m.from # v
  <2>1. DOMAIN sess = Viewer /\ DOMAIN gen = Viewer /\ DOMAIN answered = Viewer
    BY DEF TypeOK
  <2>2. sess'[v] = sess[v] /\ gen'[v] = gen[v] /\ answered'[v] = answered[v]
    <3>1. CASE FeedHello(m)
      BY <1>11, <2>1, <3>1 DEF FeedHello
    <3>2. CASE FeedAnswer(m)
      BY <1>11, <2>1, <3>2 DEF FeedAnswer
    <3> QED
      BY <1>11, <3>1, <3>2
  <2> QED
    BY <1>9, <2>2
<1>12. CASE FeedHello(m) /\ m.from = v
  <2>1. HelloSent(v) /\ sess[v] = "none"
    BY <1>2, <1>12 DEF FeedHello, HelloSent
  <2>2. \A g \in Nat : ~Mark(v, g)
    BY <2>1 DEF Early, OneGen
  <2>3. sess'[v] = "new" /\ answered' = answered
    BY <1>12 DEF FeedHello, TypeOK
  <2>4. \A g \in Nat : Mark(v, g)' => Mark(v, g)
    BY <1>3, <1>6, <1>7, <2>3, RoomSame DEF Mark, tabVars
  <2> QED
    BY <2>2, <2>4, Unmarked
<1>13. CASE FeedAnswer(m) /\ m.from = v
  <2>1. AnswerSent(v, m.gen) /\ 1 \in 1..Len(in)
    BY <1>2, <1>13 DEF FeedAnswer, AnswerSent
  <2>2. answered'[v] = m.gen /\ sess' = sess /\ gen' = gen
    BY <1>13 DEF FeedAnswer, TypeOK
  <2>3. \A g \in Nat : Mark(v, g)' => Mark(v, g)
    BY <1>3, <1>6, <1>7, <2>1, <2>2, RoomSame DEF Mark, tabVars
  <2>4. Early(v)' => Early(v)
    BY <1>3, <1>4, <2>2, RoomSame DEF Early, tabVars
  <2>5. HelloSent(v)' => HelloAfterAnswer(v)
    <3>1. ASSUME NEW i \in 1..Len(in'), in'[i].from = v, in'[i].kind = "hello"
          PROVE  HelloAfterAnswer(v)
      <4>1. PICK j \in 1..Len(in) : 1 < j /\ in[j] = in'[i]
        <5>1. i + 1 \in 1..Len(in) /\ 1 < i + 1 /\ in[i + 1] = in'[i]
          BY <1>2
        <5> QED
          BY <5>1
      <4>2. in[1].from = v /\ in[1].kind = "answer"
        BY <1>2, <1>13 DEF FeedAnswer
      <4> QED
        BY <2>1, <3>1, <4>1, <4>2 DEF HelloAfterAnswer
    <3> QED
      BY <3>1 DEF HelloSent
  <2>6. Stale(v)' => Stale(v)
    BY <1>5, <2>5 DEF Stale
  <2> QED
    BY <2>2, <2>3, <2>4, <2>6, Transfer
<1> QED
  BY <1>3, <1>10, <1>11, <1>12, <1>13
\* The host's sessions.
LEMMA SessionAnswers ==
    ASSUME TypeOK, TypeOK', PresenceInv, NEW v \in Viewer, OneGen(v), NEW w \in Viewer,
           RunViewer(w) \/ SessionFails(w) \/ SessionEnds(w)
    PROVE  OneGen(v)'
<1>1. CASE SetPeer(w) \/ SessionFails(w) \/ SessionEnds(w)
  <2>1. /\ UNCHANGED <<roomVars, feedVars, tabVars>> /\ gen' = gen
        /\ in' = in /\ viewerQ' \subseteq viewerQ /\ hostQ' \subseteq hostQ
    BY <1>1 DEF SetPeer, SessionFails, SessionEnds, Forget, roomVars, feedVars
  <2>2. \A g \in Nat : OfferSent(v, g)' => OfferSent(v, g)
    BY <2>1 DEF OfferSent, tabVars
  <2>3. \/ sess'[v] = sess[v] /\ answered'[v] = answered[v]
        \/ sess[v] = "new" /\ sess'[v] = "peer" /\ answered'[v] = answered[v]
        \/ sess[v] \in {"new", "peer"} /\ sess'[v] = "none" /\ answered'[v] = 0
        \/ sess[v] = "posted" /\ answered[v] # 0 /\ sess'[v] = "none" /\ answered'[v] = 0
    <3>1. CASE SetPeer(w)
      BY <3>1 DEF SetPeer, TypeOK
    <3>2. CASE SessionFails(w)
      BY <3>2 DEF SessionFails, Forget, TypeOK
    <3>3. CASE SessionEnds(w)
      BY <3>3 DEF SessionEnds, Forget, TypeOK
    <3> QED
      BY <1>1, <3>1, <3>2, <3>3
  <2>4. \A g \in Nat : Mark(v, g)' => Mark(v, g)
    BY <2>1, <2>2, <2>3, RoomSame, InSame DEF Mark, tabVars
  <2>5. Early(v)' => Early(v)
    <3>1. sess[v] = "posted" /\ answered[v] # 0 => ~HelloSent(v)
      BY DEF OneGen, Stale
    <3> QED
      BY <2>1, <2>3, <3>1, RoomSame, InSame DEF Early, tabVars
  <2>6. Stale(v)' => Stale(v)
    BY <2>1, <2>3, InSame DEF Stale
  <2> QED
    BY <2>1, <2>4, <2>5, <2>6, Transfer
<1>2. CASE PostOffer(w)
  <2>1. /\ AppendOffer(w) /\ sess[w] = "peer" /\ sess' = [sess EXCEPT ![w] = "posted"]
        /\ UNCHANGED <<gen, answered, feedVars, net, seen, vpc, applied, pend>>
    BY <1>2 DEF PostOffer
  <2>2. PICK o \in HostMsg :
          /\ o.to = w /\ o.gen = gen[w] /\ hostQ' \subseteq hostQ \cup {o}
          /\ viewerQ' = {k \in viewerQ : k.from # w}
          /\ vin' = [u \in Viewer |-> IF net[u] = "ws" THEN Append(vin[u], o) ELSE vin[u]]
    BY <2>1, Offered
  <2>3. \A g \in Nat : OfferQueued(v, g)' => OfferQueued(v, g) \/ (v = w /\ g = gen[w])
    BY <2>2 DEF OfferQueued
  <2>4. ASSUME NEW g \in Nat, OfferSent(v, g)' PROVE OfferSent(v, g) \/ (v = w /\ g = gen[w])
    <3>1. PICK u \in Viewer : \E j \in 1..Len(vin'[u]) : vin'[u][j].to = v /\ vin'[u][j].gen = g
      BY <2>4 DEF OfferSent
    <3>2. PICK i \in 1..Len(vin'[u]) : vin'[u][i].to = v /\ vin'[u][i].gen = g
      BY <3>1
    <3>3. CASE vin'[u] = vin[u]
      BY <3>2, <3>3 DEF OfferSent
    <3>4. CASE vin'[u] = Append(vin[u], o)
      <4>1. /\ vin[u] \in Seq(HostMsg) /\ Len(vin[u]) \in Nat
            /\ Len(vin'[u]) = Len(vin[u]) + 1 /\ vin'[u][Len(vin[u]) + 1] = o
            /\ \A j \in 1..Len(vin[u]) : vin'[u][j] = vin[u][j]
        BY <3>4, AppendLast DEF TypeOK
      <4>2. CASE i = Len(vin[u]) + 1
        BY <2>2, <3>2, <4>1, <4>2
      <4>3. CASE i \in 1..Len(vin[u])
        BY <3>2, <4>1, <4>3 DEF OfferSent
      <4>4. i \in 1..Len(vin[u]) \/ i = Len(vin[u]) + 1
        BY <4>1
      <4> QED
        BY <4>2, <4>3, <4>4
    <3> QED
      BY <2>2, <3>3, <3>4
  <2>5. /\ HelloQueued(v)' => HelloQueued(v)
        /\ \A g \in Nat : AnswerQueued(v, g)' => AnswerQueued(v, g)
    BY <2>2 DEF HelloQueued, AnswerQueued
  <2>6. in' = in
    BY <2>1 DEF feedVars
  <2>7. CASE v # w
    <3>1. sess'[v] = sess[v]
      BY <2>1, <2>7 DEF TypeOK
    <3>2. \A g \in Nat : Mark(v, g)' => Mark(v, g)
      BY <2>1, <2>3, <2>4, <2>5, <2>6, <2>7, <3>1, InSame DEF Mark
    <3>3. (Early(v)' => Early(v)) /\ (Stale(v)' => Stale(v))
      BY <2>1, <2>5, <2>6, <3>1, InSame DEF Early, Stale
    <3> QED
      BY <2>1, <3>2, <3>3, Transfer
  <2>8. CASE v = w
    <3>1. sess'[v] = "posted"
      BY <2>1, <2>8 DEF TypeOK
    <3>2. \A g \in Nat : ~Mark(v, g)
      BY <2>1, <2>8 DEF OneGen, Early
    <3>3. \A g \in Nat : Mark(v, g)' => Mark(v, g) \/ g = gen[v]
      BY <2>1, <2>3, <2>4, <2>5, <2>6, <2>8, <3>1, InSame DEF Mark
    <3>4. vpc[v] # "idle"
      BY <2>1, <2>8 DEF PresenceInv, Present
    <3>5. ~HelloQueued(v)'
      BY <2>2, <2>8 DEF HelloQueued
    <3>6. ~Early(v)'
      BY <2>1, <3>1, <3>4, <3>5 DEF Early
    <3>7. Stale(v)' => Stale(v)
      BY <2>1, <2>6, InSame DEF Stale
    <3> QED
      BY <2>1, <3>2, <3>3, <3>6, <3>7 DEF OneGen
  <2> QED
    BY <2>7, <2>8
<1> QED
  BY <1>1, <1>2 DEF RunViewer

\* The browser: what is said, answered and left.
LEMMA PushAnswers ==
    ASSUME TypeOK, TypeOK', PresenceInv, NEW v \in Viewer, OneGen(v), NEW w \in Viewer, Push(w)
    PROVE  OneGen(v)'
<1>1. PICK kind \in {"hello", "candidate", "answer"}, h \in Nat :
        /\ AppendViewer(w, kind, h)
        /\ kind = "hello" => vpc[w] = "idle"
        /\ kind = "answer" => h \in pend[w]
  <2>1. CASE Hello(w)
    BY <2>1 DEF Hello
  <2>2. CASE PushCandidate(w)
    <3>1. applied[w] \in Nat
      BY DEF TypeOK
    <3> QED
      BY <2>2, <3>1 DEF PushCandidate
  <2>3. CASE \E g \in pend[w] : PushAnswer(w, g)
    <3>1. PICK g \in pend[w] : PushAnswer(w, g)
      BY <2>3
    <3>2. g \in Nat
      BY DEF TypeOK
    <3> QED
      BY <3>1, <3>2 DEF PushAnswer
  <2> QED
    BY <2>1, <2>2, <2>3 DEF Push
<1>2. /\ UNCHANGED <<sessVars, vin>>
      /\ pend'[v] \subseteq pend[v] /\ (vpc'[v] = "idle" => vpc[v] = "idle")
  <2>1. CASE Hello(w)
    BY <2>1 DEF Hello, TypeOK
  <2>2. CASE PushCandidate(w)
    BY <2>2 DEF PushCandidate, TypeOK
  <2>3. CASE \E g \in pend[w] : PushAnswer(w, g)
    BY <2>3 DEF PushAnswer, TypeOK
  <2> QED
    BY <2>1, <2>2, <2>3 DEF Push
<1>3. hostQ' = hostQ
  BY <1>1, Appended
<1>4. \A g \in Nat :
        /\ OfferQueued(v, g)' => OfferQueued(v, g)
        /\ OfferSent(v, g)' => OfferSent(v, g)
  BY <1>2, <1>3 DEF OfferQueued, OfferSent
<1>5. \A g \in Nat : Mark(v, g)' => Mark(v, g)
  <2>1. \A g \in Nat :
          /\ AnswerQueued(v, g)' => AnswerQueued(v, g) \/ g \in pend[v]
          /\ AnswerSent(v, g)' => AnswerSent(v, g) \/ g \in pend[v]
    BY <1>1, PushedMarks
  <2> QED
    BY <1>2, <1>4, <2>1 DEF Mark, sessVars
<1>6. CASE v # w \/ kind # "hello"
  <2>1. /\ HelloQueued(v)' => HelloQueued(v)
        /\ HelloSent(v)' => HelloSent(v)
    BY <1>1, <1>6, PushedHello
  <2>2. HelloAfterAnswer(v)' => HelloAfterAnswer(v)
    BY <1>1, <1>6, PushedMarks
  <2>3. (Early(v)' => Early(v)) /\ (Stale(v)' => Stale(v))
    BY <1>2, <2>1, <2>2 DEF Early, Stale, sessVars
  <2> QED
    BY <1>2, <1>5, <2>3, Transfer DEF sessVars
<1>7. CASE v = w /\ kind = "hello"
  <2>1. \A g \in Nat : ~Mark(v, g)
    BY <1>1, <1>7 DEF Early, OneGen
  <2> QED
    BY <1>5, <2>1, Unmarked
<1> QED
  BY <1>6, <1>7
\* The browser: frames, transports and leaving; the alarm.
LEMMA TabAnswers ==
    ASSUME TypeOK, TypeOK', NEW v \in Viewer, OneGen(v),
           \/ \E w \in Viewer :
               \/ HelloFails(w) \/ TabOpens(w) \/ TabLost(w) \/ TabPolls(w)
               \/ DeliverFrame(w) \/ Leave(w) \/ \E g \in pend[w] : AnswerLost(w, g)
           \/ Alarm
    PROVE  OneGen(v)'
\* None of these steps starts anything but the answer to a frame of v.
<1>1. ASSUME in' = in, viewerQ' \subseteq viewerQ, hostQ' \subseteq hostQ, UNCHANGED sessVars,
             vpc'[v] = "idle" => vpc[v] = "idle",
             \A g \in Nat : OfferSent(v, g)' => OfferSent(v, g) \/ OfferQueued(v, g),
             \A g \in pend'[v] : g \in pend[v] \/ OfferSent(v, g)
      PROVE  OneGen(v)'
  <2>1. \A g \in Nat : Mark(v, g)' => Mark(v, g)
    BY <1>1, RoomSame, InSame DEF Mark, sessVars
  <2>2. (Early(v)' => Early(v)) /\ (Stale(v)' => Stale(v))
    BY <1>1, RoomSame, InSame DEF Early, Stale, sessVars
  <2> QED
    BY <1>1, <2>1, <2>2, Transfer DEF sessVars
<1>2. ASSUME NEW w \in Viewer, HelloFails(w) \/ \E g \in pend[w] : AnswerLost(w, g)
      PROVE  OneGen(v)'
  <2>1. /\ UNCHANGED <<roomVars, feedVars, sessVars, vin>>
        /\ vpc'[v] = "idle" => vpc[v] = "idle"
        /\ pend'[v] \subseteq pend[v]
    <3>1. CASE HelloFails(w)
      BY <3>1 DEF HelloFails, TypeOK
    <3>2. ASSUME NEW g \in pend[w], AnswerLost(w, g)
          PROVE  UNCHANGED <<roomVars, feedVars, sessVars, vin, vpc>> /\ pend'[v] \subseteq pend[v]
      BY <3>2 DEF AnswerLost, TypeOK
    <3> QED
      BY <1>2, <3>1, <3>2
  <2>2. \A g \in Nat : OfferSent(v, g)' => OfferSent(v, g)
    BY <2>1 DEF OfferSent
  <2> QED
    BY <1>1, <2>1, <2>2 DEF roomVars, feedVars
<1>3. ASSUME NEW w \in Viewer, TabOpens(w) \/ TabPolls(w) PROVE OneGen(v)'
  <2>1. UNCHANGED <<roomVars, feedVars, sessVars, vpc, pend>>
    BY <1>3 DEF TabOpens, TabPolls
  <2>2. PICK p \in SUBSET hostQ : \E s \in InOrder(p) : vin' = [vin EXCEPT ![w] = s]
    <3>1. CASE TabOpens(w)
      BY <3>1, hostQ \in SUBSET hostQ DEF TabOpens
    <3>2. CASE TabPolls(w)
      <4>1. After(hostQ, seen[w]) \in SUBSET hostQ
        BY DEF After
      <4> QED
        BY <3>2, <4>1 DEF TabPolls
    <3> QED
      BY <1>3, <3>1, <3>2
  <2>3. PICK s \in InOrder(p) : vin' = [vin EXCEPT ![w] = s]
    BY <2>2
  <2>4. hostQ \in SUBSET HostMsg /\ IsFiniteSet(hostQ)
    BY DEF TypeOK
  <2>5. \A i \in 1..Len(s) : s[i] \in p
    BY <2>4, Replayed
  <2>6. ASSUME NEW u \in Viewer, NEW i \in 1..Len(vin'[u])
        PROVE  vin'[u][i] \in p \/ \E j \in 1..Len(vin[u]) : vin'[u][i] = vin[u][j]
    <3>1. DOMAIN vin = Viewer
      BY DEF TypeOK
    <3>2. CASE u = w
      BY <2>3, <2>5, <3>1, <3>2
    <3>3. CASE u # w
      BY <2>3, <3>1, <3>3
    <3> QED
      BY <3>2, <3>3
  <2>7. \A g \in Nat : OfferSent(v, g)' => OfferSent(v, g) \/ OfferQueued(v, g)
    BY <2>6, FramesFrom
  <2> QED
    BY <1>1, <2>1, <2>7 DEF roomVars, feedVars
<1>4. ASSUME NEW w \in Viewer, TabLost(w) \/ Leave(w) PROVE OneGen(v)'
  <2>1. /\ UNCHANGED <<roomVars, feedVars, sessVars>>
        /\ vpc'[v] = "idle" => vpc[v] = "idle"
        /\ pend'[v] \subseteq pend[v] /\ vin' = [vin EXCEPT ![w] = <<>>]
    <3>1. CASE TabLost(w)
      BY <3>1 DEF TabLost, TypeOK
    <3>2. CASE Leave(w)
      BY <3>2 DEF Leave, TypeOK
    <3> QED
      BY <1>4, <3>1, <3>2
  <2>2. Len(<<>>) = 0
    OBVIOUS
  <2>3. \A u \in Viewer : vin'[u] = vin[u] \/ (\A i \in 1..Len(vin'[u]) : FALSE)
    BY <2>1, <2>2 DEF TypeOK
  <2>4. \A g \in Nat : OfferSent(v, g)' => OfferSent(v, g)
    BY <2>3 DEF OfferSent
  <2> QED
    BY <1>1, <2>1, <2>4 DEF roomVars, feedVars
<1>5. ASSUME NEW w \in Viewer, DeliverFrame(w) PROVE OneGen(v)'
  <2>1. /\ vin[w] \in Seq(HostMsg) /\ vin[w] # <<>> /\ pend \in [Viewer -> SUBSET Nat]
        /\ DOMAIN vin = Viewer /\ DOMAIN vpc = Viewer /\ DOMAIN pend = Viewer
    BY <1>5 DEF DeliverFrame, TypeOK
  <2>2. /\ Len(vin[w]) \in Nat \ {0} /\ Head(vin[w]) = vin[w][1]
        /\ \A i \in 1..Len(Tail(vin[w])) : i + 1 \in 1..Len(vin[w]) /\ Tail(vin[w])[i] = vin[w][i + 1]
    BY <2>1, HeadTail
  <2>3. vin' = [vin EXCEPT ![w] = Tail(vin[w])] /\ UNCHANGED <<roomVars, feedVars, sessVars>>
    BY <1>5 DEF DeliverFrame
  <2>4. ASSUME NEW u \in Viewer, NEW i \in 1..Len(vin'[u])
        PROVE  \E j \in 1..Len(vin[u]) : vin'[u][i] = vin[u][j]
    <3>1. CASE u = w
      <4>1. vin'[u] = Tail(vin[w])
        BY <2>1, <2>3, <3>1
      <4> QED
        BY <2>2, <3>1, <4>1
    <3>2. CASE u # w
      BY <2>1, <2>3, <3>2
    <3> QED
      BY <3>1, <3>2
  <2>5. \A g \in Nat : OfferSent(v, g)' => OfferSent(v, g) \/ OfferQueued(v, g)
    <3> SUFFICES ASSUME NEW g \in Nat, OfferSent(v, g)' PROVE OfferSent(v, g)
      OBVIOUS
    <3>1. PICK u \in Viewer : \E i \in 1..Len(vin'[u]) : vin'[u][i].to = v /\ vin'[u][i].gen = g
      BY DEF OfferSent
    <3>2. PICK i \in 1..Len(vin'[u]) : vin'[u][i].to = v /\ vin'[u][i].gen = g
      BY <3>1
    <3>3. PICK j \in 1..Len(vin[u]) : vin'[u][i] = vin[u][j]
      BY <2>4
    <3> QED
      BY <3>2, <3>3 DEF OfferSent
  <2>6. vpc'[v] = "idle" => vpc[v] = "idle"
    BY <1>5, <2>1 DEF DeliverFrame
  <2>7. ASSUME NEW g \in pend'[v], g \notin pend[v] PROVE OfferSent(v, g)
    <3>0. pend' = pend \/ /\ Head(vin[w]).to = w
                          /\ pend' = [pend EXCEPT ![w] = @ \cup {Head(vin[w]).gen}]
      BY <1>5 DEF DeliverFrame
    <3>1. v = w /\ Head(vin[w]).to = v /\ Head(vin[w]).gen = g
      BY <2>1, <2>7, <3>0
    <3> QED
      BY <2>2, <3>1 DEF OfferSent
  <2> QED
    BY <1>1, <2>3, <2>5, <2>6, <2>7 DEF roomVars, feedVars
<1>6. CASE Alarm
  <2>1. hostQ' \subseteq hostQ /\ viewerQ' \subseteq viewerQ /\ UNCHANGED <<feedVars, sessVars, tabVars>>
    BY <1>6 DEF Alarm
  <2>2. \A g \in Nat : OfferSent(v, g)' => OfferSent(v, g)
    BY <2>1 DEF OfferSent, tabVars
  <2> QED
    BY <1>1, <2>1, <2>2 DEF feedVars, tabVars
<1> QED
  BY <1>2, <1>3, <1>4, <1>5, <1>6

LEMMA AnswerStep ==
    TypeOK /\ TypeOK' /\ PresenceInv /\ AnswerInv /\ [Next]_vars => AnswerInv'
<1> SUFFICES ASSUME TypeOK, TypeOK', PresenceInv, AnswerInv, [Next]_vars, "ambiguous" \notin trouble',
                    NEW v \in Viewer
             PROVE  OneGen(v)'
  BY DEF AnswerInv
<1>1. CASE UNCHANGED vars
  <2>1. trouble' = trouble
    BY <1>1 DEF vars
  <2>2. OneGen(v)
    BY <2>1 DEF AnswerInv
  <2> QED
    BY <1>1, <2>2 DEF OneGen, Mark, Early, Stale, OfferQueued, OfferSent, AnswerQueued, AnswerSent,
                      HelloQueued, HelloSent, HelloAfterAnswer,
                      vars, roomVars, feedVars, sessVars, tabVars
<1>2. ASSUME NEW w \in Viewer, PostAmbiguous(w) PROVE FALSE
  BY <1>2 DEF PostAmbiguous
<1>3. ASSUME trouble \subseteq trouble' PROVE OneGen(v)
  BY <1>3 DEF AnswerInv
<1>4. CASE Feed \/ WSLost \/ PollTimeout \/ PollFails \/ HostRestart
  <2>1. trouble' = trouble
    BY <1>4 DEF Feed, DialWS, PollWait, WSLost, PollTimeout, PollFails, HostRestart
  <2> QED
    BY <1>3, <1>4, <2>1, FeedAnswers
<1>5. CASE HandleFeedMessage
  <2>1. trouble' = trouble
    BY <1>5 DEF HandleFeedMessage
  <2> QED
    BY <1>3, <1>5, <2>1, HandlerAnswers
<1>6. ASSUME NEW w \in Viewer, RunViewer(w) \/ SessionFails(w) \/ SessionEnds(w) PROVE OneGen(v)'
  <2>1. trouble \subseteq trouble'
    BY <1>6 DEF RunViewer, SetPeer, PostOffer, SessionFails, SessionEnds
  <2> QED
    BY <1>3, <1>6, <2>1, SessionAnswers
<1>7. ASSUME NEW w \in Viewer, Push(w) PROVE OneGen(v)'
  <2>1. trouble \subseteq trouble'
    BY <1>7 DEF Push, Hello, PushCandidate, PushAnswer, AppendViewer
  <2> QED
    BY <1>3, <1>7, <2>1, PushAnswers
<1>8. CASE \/ \E w \in Viewer :
               \/ HelloFails(w) \/ TabOpens(w) \/ TabLost(w) \/ TabPolls(w)
               \/ DeliverFrame(w) \/ Leave(w) \/ \E g \in pend[w] : AnswerLost(w, g)
           \/ Alarm
  <2>1. trouble' = trouble
    BY <1>8 DEF HelloFails, TabOpens, TabLost, TabPolls, DeliverFrame, Leave, AnswerLost, Alarm
  <2> QED
    BY <1>3, <1>8, <2>1, TabAnswers
<1> QED
  BY <1>1, <1>2, <1>4, <1>5, <1>6, <1>7, <1>8 DEF Next

\* An answer that is set on a peer answers that peer's offer, unless a post that
\* reported an error had stored its offer (connect.go handleFeedMessage, runViewer and
\* applyAnswer, roomState.ts append's purge, webrtc.ts handleOffer).
THEOREM AnswersMatch == Spec => []AnswerMatchesPeer
<1>1. Init => AnswerInv
  <2> SUFFICES ASSUME Init, NEW v \in Viewer PROVE OneGen(v)
    BY DEF AnswerInv
  <2>1. Len(<<>>) = 0
    OBVIOUS
  <2>2. ~Stale(v)
    BY <2>1 DEF Init, Stale, HelloSent, HelloAfterAnswer
  <2>3. \A g \in Nat : ~Mark(v, g)
    BY <2>1 DEF Init, Mark, OfferQueued, OfferSent, AnswerQueued, AnswerSent
  <2> QED
    BY <2>2, <2>3 DEF OneGen
<1>2. TypeOK /\ AnswerInv => AnswerMatchesPeer
  <2> SUFFICES ASSUME TypeOK, AnswerInv, NEW v \in Viewer, answered[v] # 0, "ambiguous" \notin trouble
               PROVE  answered[v] = gen[v]
    BY DEF AnswerMatchesPeer
  <2>1. answered[v] \in Nat /\ OneGen(v)
    BY DEF TypeOK, AnswerInv
  <2>2. Mark(v, answered[v])
    BY DEF Mark
  <2> QED
    BY <2>1, <2>2 DEF OneGen
<1> QED
  BY <1>1, <1>2, TypeInit, TypeStep, PresenceInit, PresenceStep, AnswerStep, PTL DEF Spec
-----------------------------------------------------------------------------
(* What a viewer has seen. *)

\* An offer is numbered above everything in the queue, and goes to the end of what an
\* open socket delivers.
LEMMA OfferSeen ==
    ASSUME TypeOK, SeqInv, NEW w \in Viewer, AppendOffer(w), UNCHANGED <<net, seen, applied>>
    PROVE  SeqInv'
<1>1. PICK o \in HostMsg :
        /\ o.to = w /\ o \in hostQ' /\ hostQ' \subseteq hostQ \cup {o}
        /\ o.seq = NextSeq(Truncate(hostQ))
        /\ vin' = [u \in Viewer |-> IF net[u] = "ws" THEN Append(vin[u], o) ELSE vin[u]]
        /\ wiped' = wiped
  BY Offered
<1>2. hostQ \subseteq HostMsg /\ IsFiniteSet(hostQ) /\ \A m \in HostMsg : m.seq \in Nat
  BY DEF TypeOK, HostMsg
<1>3. \A m \in hostQ : m.seq \in Nat /\ m.seq < o.seq
  <2>1. \A k, m \in hostQ : k.seq = m.seq => k = m
    BY DEF SeqInv, DistinctSeqs
  <2>2. \A m \in hostQ : m.seq \in Nat
    BY <1>2
  <2> QED
    BY <1>1, <1>2, <2>1, <2>2, CutKeepsLast
<1>4. DistinctSeqs'
  <2> SUFFICES ASSUME NEW k \in hostQ', NEW m \in hostQ', k.seq = m.seq PROVE k = m
    BY DEF DistinctSeqs
  <2>1. CASE k = o \/ m = o
    BY <1>1, <1>2, <1>3, <2>1
  <2>2. CASE k \in hostQ /\ m \in hostQ
    BY <2>2 DEF SeqInv, DistinctSeqs
  <2> QED
    BY <1>1, <2>1, <2>2
<1>5. ASSUME NEW v \in Viewer \ wiped', net'[v] # "off" PROVE Sees(v)'
  <2>1. Sees(v) /\ seen[v] \in Int /\ o.seq \in Nat
    BY <1>1, <1>2, <1>5 DEF SeqInv, TypeOK
  <2>2. vin[v] \in Seq(HostMsg) /\ Len(vin[v]) \in Nat
    BY DEF TypeOK
  <2>3. \A i \in 1..Len(vin[v]) : vin[v][i].seq \in Nat /\ vin[v][i].seq < o.seq
    <3>1. \A i \in 1..Len(vin[v]) : vin[v][i] \in HostMsg /\ \E k \in hostQ : vin[v][i].seq <= k.seq
      BY <2>1, <2>2 DEF Sees
    <3> QED
      BY <1>2, <1>3, <2>1, <3>1
  <2>4. seen[v] < o.seq
    BY <1>3, <2>1 DEF Sees
  \* The frames afterwards: the old ones, and o if the socket is open.
  <2>5. /\ Len(vin'[v]) \in Nat
        /\ \A i \in 1..Len(vin[v]) : i \in 1..Len(vin'[v]) /\ vin'[v][i] = vin[v][i]
        /\ \A i \in 1..Len(vin'[v]) : i \in 1..Len(vin[v]) \/ (i = Len(vin[v]) + 1 /\ vin'[v][i] = o)
        /\ net[v] = "ws" => \E j \in 1..Len(vin'[v]) : vin'[v][j] = o
        /\ net[v] # "ws" => vin'[v] = vin[v]
    <3>1. CASE net[v] = "ws"
      <4>1. vin'[v] = Append(vin[v], o)
        BY <1>1, <3>1
      <4>2. /\ Len(vin'[v]) = Len(vin[v]) + 1 /\ vin'[v][Len(vin[v]) + 1] = o
            /\ \A i \in 1..Len(vin[v]) : i \in 1..Len(vin'[v]) /\ vin'[v][i] = vin[v][i]
        BY <2>2, <4>1, AppendLast
      <4>3. \A i \in 1..Len(vin'[v]) : i \in 1..Len(vin[v]) \/ i = Len(vin[v]) + 1
        BY <2>2, <4>2
      <4>4. Len(vin[v]) + 1 \in 1..Len(vin'[v])
        BY <2>2, <4>2
      <4> QED
        BY <2>2, <3>1, <4>2, <4>3, <4>4
    <3>2. CASE net[v] # "ws"
      <4>1. vin'[v] = vin[v]
        BY <1>1, <3>2
      <4> QED
        BY <2>2, <3>2, <4>1
    <3> QED
      BY <3>1, <3>2
  <2>6. \A i \in 1..Len(vin'[v]) : vin'[v][i].seq <= o.seq
    BY SMTT(30), <2>1, <2>3, <2>5
  <2>7. ASSUME NEW m \in hostQ', Unapplied(v, m)'
        PROVE  /\ m.seq > seen'[v]
               /\ \A i \in 1..Len(vin'[v]) : vin'[v][i].seq < m.seq \/ \E j \in 1..i : vin'[v][j] = m
               /\ net'[v] = "ws" => \E j \in 1..Len(vin'[v]) : vin'[v][j] = m
    <3>1. CASE m = o
      <4>1. ASSUME NEW i \in 1..Len(vin'[v])
            PROVE  vin'[v][i].seq < m.seq \/ \E j \in 1..i : vin'[v][j] = m
        <5>1. CASE i \in 1..Len(vin[v])
          BY <2>3, <2>5, <3>1, <5>1
        <5>2. CASE vin'[v][i] = o
          <6>1. i \in 1..i
            BY <2>5
          <6> QED
            BY <3>1, <5>2, <6>1
        <5> QED
          BY <2>5, <5>1, <5>2
      <4> QED
        BY <2>1, <2>4, <2>5, <3>1, <4>1
    <3>2. CASE m # o
      <4>1. m \in hostQ /\ Unapplied(v, m)
        BY <1>1, <2>7, <3>2 DEF Unapplied
      <4>2. /\ m.seq > seen[v]
            /\ \A i \in 1..Len(vin[v]) : vin[v][i].seq < m.seq \/ \E j \in 1..i : vin[v][j] = m
            /\ net[v] = "ws" => \E j \in 1..Len(vin[v]) : vin[v][j] = m
        BY <2>1, <4>1 DEF Sees
      <4>3. ASSUME NEW i \in 1..Len(vin'[v])
            PROVE  vin'[v][i].seq < m.seq \/ \E j \in 1..i : vin'[v][j] = m
        <5>1. CASE i \in 1..Len(vin[v])
          <6>1. \A j \in 1..i : j \in 1..Len(vin[v])
            BY <2>2, <5>1
          <6> QED
            BY <2>5, <4>2, <5>1, <6>1
        <5>2. CASE i = Len(vin[v]) + 1 /\ i \notin 1..Len(vin[v])
          <6>1. net[v] = "ws"
            BY <2>5, <5>2
          <6>2. PICK j \in 1..Len(vin[v]) : vin[v][j] = m
            BY <4>2, <6>1
          <6>3. j \in 1..i
            BY <2>2, <5>2
          <6> QED
            BY <2>5, <6>2, <6>3
        <5> QED
          BY <2>5, <5>1, <5>2
      <4>4. net'[v] = "ws" => \E j \in 1..Len(vin'[v]) : vin'[v][j] = m
        BY <2>5, <4>2
      <4> QED
        BY <4>2, <4>3, <4>4
    <3> QED
      BY <3>1, <3>2
  <2>8. /\ \E k \in hostQ' : seen'[v] <= k.seq
        /\ \A i \in 1..Len(vin'[v]) : \E k \in hostQ' : vin'[v][i].seq <= k.seq
    BY SMTT(30), <1>1, <2>1, <2>4, <2>6
  <2> QED
    BY <2>7, <2>8 DEF Sees
<1> QED
  BY <1>4, <1>5 DEF SeqInv

\* A list by seq of what v has not seen holds every unapplied offer, with nothing
\* newer before it.
LEMMA ReplaySeen ==
    ASSUME TypeOK, SeqInv, NEW v \in Viewer \ wiped, net[v] # "off",
           NEW p \in SUBSET hostQ, \A m \in hostQ : m.seq > seen[v] => m \in p,
           NEW s \in InOrder(p), vin'[v] = s,
           hostQ' = hostQ, seen' = seen, applied' = applied
    PROVE  Sees(v)'
<1>1. hostQ \in SUBSET HostMsg /\ IsFiniteSet(hostQ) /\ \A m \in hostQ : m.seq \in Nat
  BY DEF TypeOK, HostMsg
<1>2. /\ Len(s) \in Nat /\ \A i \in 1..Len(s) : s[i] \in p
      /\ \A m \in p : \E i \in 1..Len(s) : s[i] = m
      /\ \A i, j \in 1..Len(s) : i < j => s[i].seq <= s[j].seq
  <2>1. IsFiniteSet(p)
    BY <1>1, FS_Subset
  <2>2. s \in Seq(p) /\ Len(s) \in Nat
    BY <2>1, InOrderLists
  <2>3. \A m \in p : \E i \in 1..Len(s) : s[i] = m
    BY <2>1, InOrderLists
  <2>4. \A i, j \in 1..Len(s) : i < j => s[i].seq <= s[j].seq
    BY <2>1, InOrderLists
  <2>5. \A i \in 1..Len(s) : s[i] \in p
    BY <2>2
  <2> QED
    BY <2>2, <2>3, <2>4, <2>5
<1>3. Sees(v)
  BY DEF SeqInv
<1>4. \A i \in 1..Len(s) : \E k \in hostQ : s[i].seq <= k.seq
  BY <1>1, <1>2
<1>5. ASSUME NEW m \in hostQ, Unapplied(v, m)
      PROVE  /\ m.seq > seen[v]
             /\ \A i \in 1..Len(s) : s[i].seq < m.seq \/ \E j \in 1..i : s[j] = m
             /\ \E j \in 1..Len(s) : s[j] = m
  <2>1. m.seq > seen[v]
    BY <1>3, <1>5 DEF Sees
  <2>2. PICK n \in 1..Len(s) : s[n] = m
    BY <1>2, <2>1
  <2>3. ASSUME NEW i \in 1..Len(s) PROVE s[i].seq < m.seq \/ \E j \in 1..i : s[j] = m
    <3>1. CASE n <= i
      <4>1. n \in 1..i
        BY <1>2, <3>1
      <4> QED
        BY <2>2, <4>1
    <3>2. CASE i < n
      <4>1. s[i].seq <= m.seq /\ s[i] \in hostQ
        BY <1>2, <2>2, <3>2
      <4>2. s[i].seq = m.seq => s[i] = m
        BY <4>1 DEF SeqInv, DistinctSeqs
      <4>3. i \in 1..i
        BY <1>2
      <4> QED
        BY <1>1, <4>1, <4>2, <4>3
    <3> QED
      BY <1>2, <3>1, <3>2
  <2> QED
    BY <2>1, <2>2, <2>3
<1>6. \A m \in hostQ : Unapplied(v, m)' => Unapplied(v, m)
  BY DEF Unapplied
<1>7. /\ seen'[v] = -1 \/ \E k \in hostQ' : seen'[v] <= k.seq
      /\ \A i \in 1..Len(vin'[v]) : \E k \in hostQ' : vin'[v][i].seq <= k.seq
  BY <1>3, <1>4 DEF Sees
<1>8. \A m \in hostQ' : Unapplied(v, m)' =>
        /\ m.seq > seen'[v]
        /\ \A i \in 1..Len(vin'[v]) : vin'[v][i].seq < m.seq \/ \E j \in 1..i : vin'[v][j] = m
        /\ net'[v] = "ws" => \E j \in 1..Len(vin'[v]) : vin'[v][j] = m
  BY <1>5, <1>6
<1> QED
  BY <1>7, <1>8 DEF Sees
\* A frame up to which v has now seen is older than every offer v has yet to apply.
LEMMA DeliverSeen ==
    ASSUME TypeOK, SeqInv, NEW v \in Viewer \ wiped, net[v] # "off", DeliverFrame(v)
    PROVE  Sees(v)'
<1>1. Sees(v) /\ hostQ' = hostQ /\ net' = net
  BY DEF SeqInv, DeliverFrame, roomVars
<1>2. vin[v] \in Seq(HostMsg) /\ vin[v] # <<>> /\ vin'[v] = Tail(vin[v])
  BY DEF DeliverFrame, TypeOK
<1>3. /\ Len(vin[v]) \in Nat \ {0} /\ Head(vin[v]) = vin[v][1] /\ vin[v][1] \in HostMsg
      /\ Len(vin'[v]) = Len(vin[v]) - 1
      /\ \A i \in 1..Len(vin'[v]) : i + 1 \in 1..Len(vin[v]) /\ vin'[v][i] = vin[v][i + 1]
  BY <1>2, HeadTail
<1>4. PICK h \in HostMsg : h = vin[v][1]
  BY <1>3
<1>5. h.seq \in Nat /\ h.gen \in Nat /\ seen[v] \in Int /\ applied[v] \in Nat
  BY DEF HostMsg, TypeOK
<1>6. \A m \in hostQ : m.seq \in Nat /\ m.gen \in Nat
  BY DEF HostMsg, TypeOK
<1>7. /\ h.seq > seen[v] => seen'[v] = h.seq
      /\ ~(h.seq > seen[v]) => seen'[v] = seen[v]
      /\ h.seq > seen[v] /\ h.to = v /\ h.gen > applied[v] => applied'[v] = h.gen
      /\ ~(h.seq > seen[v] /\ h.to = v /\ h.gen > applied[v]) => applied'[v] = applied[v]
  BY <1>3, <1>4 DEF DeliverFrame, TypeOK
<1>8. 1 \in 1..Len(vin[v])
  BY <1>3
<1>9. seen'[v] = -1 \/ \E k \in hostQ : seen'[v] <= k.seq
  <2>1. \E k \in hostQ : h.seq <= k.seq
    BY <1>1, <1>4, <1>8 DEF Sees
  <2> QED
    BY <1>1, <1>7, <2>1 DEF Sees
<1>10. \A i \in 1..Len(vin'[v]) : \E k \in hostQ : vin'[v][i].seq <= k.seq
  BY SMTT(30), <1>1, <1>3 DEF Sees
<1>11. ASSUME NEW m \in hostQ, Unapplied(v, m)'
       PROVE  /\ m.seq > seen'[v]
              /\ \A i \in 1..Len(vin'[v]) : vin'[v][i].seq < m.seq \/ \E j \in 1..i : vin'[v][j] = m
              /\ net'[v] = "ws" => \E j \in 1..Len(vin'[v]) : vin'[v][j] = m
  <2>1. Unapplied(v, m) /\ m.to = v /\ m.gen > applied'[v]
    BY <1>1, <1>5, <1>6, <1>7, <1>11 DEF Unapplied
  <2>2. /\ m.seq > seen[v]
        /\ \A i \in 1..Len(vin[v]) : vin[v][i].seq < m.seq \/ \E j \in 1..i : vin[v][j] = m
        /\ net[v] = "ws" => \E j \in 1..Len(vin[v]) : vin[v][j] = m
    BY <1>1, <2>1 DEF Sees
  <2>3. h # m
    BY <1>5, <1>6, <1>7, <2>1, <2>2
  <2>4. h.seq < m.seq
    <3>1. vin[v][1].seq < m.seq \/ \E j \in 1..1 : vin[v][j] = m
      BY <1>8, <2>2
    <3>2. \A j \in 1..1 : j = 1
      OBVIOUS
    <3> QED
      BY <1>4, <2>3, <3>1, <3>2
  <2>5. m.seq > seen'[v]
    BY <1>7, <2>2, <2>4
  \* m is not the head, so that where it was it is one place earlier now.
  <2>6. ASSUME NEW j \in 1..Len(vin[v]), vin[v][j] = m
        PROVE  j - 1 \in 1..Len(vin'[v]) /\ vin'[v][j - 1] = m
    <3>1. j # 1
      BY <1>4, <2>3, <2>6
    <3>2. j - 1 \in 1..Len(vin'[v]) /\ (j - 1) + 1 = j
      BY <1>3, <3>1
    <3> QED
      BY <1>3, <2>6, <3>2
  <2>7. ASSUME NEW i \in 1..Len(vin'[v])
        PROVE  vin'[v][i].seq < m.seq \/ \E j \in 1..i : vin'[v][j] = m
    <3>1. i \in Nat /\ i + 1 \in 1..Len(vin[v]) /\ vin'[v][i] = vin[v][i + 1]
      BY <1>3
    <3>2. CASE vin[v][i + 1].seq < m.seq
      BY <3>1, <3>2
    <3>3. CASE \E j \in 1..(i + 1) : vin[v][j] = m
      <4>1. PICK j \in 1..(i + 1) : vin[v][j] = m
        BY <3>3
      <4>2. j \in 1..Len(vin[v])
        BY <1>3, <3>1
      <4>3. j - 1 \in 1..Len(vin'[v]) /\ vin'[v][j - 1] = m
        BY <2>6, <4>1, <4>2
      <4>4. j - 1 \in 1..i
        BY <1>3, <3>1, <4>3
      <4> QED
        BY <4>3, <4>4
    <3> QED
      BY <2>2, <3>1, <3>2, <3>3
  <2>8. net'[v] = "ws" => \E j \in 1..Len(vin'[v]) : vin'[v][j] = m
    BY <1>1, <2>2, <2>6
  <2> QED
    BY <2>5, <2>7, <2>8
<1> QED
  BY <1>1, <1>9, <1>10, <1>11 DEF Sees

LEMMA SeqStep ==
    TypeOK /\ PresenceInv /\ SeqInv /\ [Next]_vars => SeqInv'
<1> SUFFICES ASSUME TypeOK, PresenceInv, SeqInv, [Next]_vars PROVE SeqInv'
  OBVIOUS
<1>0. \A w \in Viewer \ wiped' : w \in Viewer \ wiped
  BY WipedStays
<1>1. ASSUME hostQ' = hostQ, NEW v \in Viewer, Sees(v), net'[v] = net[v], vin'[v] = vin[v],
             seen'[v] = seen[v], applied'[v] = applied[v]
      PROVE  Sees(v)'
  BY <1>1 DEF Sees, Unapplied
\* A step of w that leaves the host queue and the other viewers alone.
<1>2. ASSUME hostQ' = hostQ, NEW w \in Viewer, w \notin wiped /\ net'[w] # "off" => Sees(w)',
             \A v \in Viewer \ {w} : /\ net'[v] = net[v] /\ vin'[v] = vin[v]
                                     /\ seen'[v] = seen[v] /\ applied'[v] = applied[v]
      PROVE  SeqInv'
  <2>1. DistinctSeqs'
    BY <1>2 DEF SeqInv, DistinctSeqs
  <2>2. ASSUME NEW v \in (Viewer \ {w}) \ wiped', net'[v] # "off" PROVE Sees(v)'
    <3>1. Sees(v)
      BY <1>0, <1>2, <2>2 DEF SeqInv
    <3> QED
      BY <1>1, <1>2, <3>1
  <2> QED
    BY <1>0, <1>2, <2>1, <2>2 DEF SeqInv
<1>3. ASSUME hostQ' = hostQ, UNCHANGED <<net, vin, seen, applied>> PROVE SeqInv'
  <2>1. DistinctSeqs'
    BY <1>3 DEF SeqInv, DistinctSeqs
  <2>2. ASSUME NEW v \in Viewer \ wiped', net'[v] # "off" PROVE Sees(v)'
    <3>1. Sees(v)
      BY <1>0, <1>3, <2>2 DEF SeqInv
    <3> QED
      BY <1>1, <1>3, <3>1
  <2> QED
    BY <2>1, <2>2 DEF SeqInv
<1>4. CASE UNCHANGED vars \/ Feed \/ WSLost \/ PollTimeout \/ PollFails \/ HandleFeedMessage \/ HostRestart
  <2>1. hostQ' = hostQ /\ UNCHANGED <<net, vin, seen, applied>>
    BY <1>4 DEF Feed, DialWS, PollWait, WSLost, PollTimeout, PollFails, HandleFeedMessage,
                HostRestart, vars, roomVars, tabVars
  <2> QED
    BY <1>3, <2>1
<1>5. ASSUME NEW w \in Viewer, SetPeer(w) \/ SessionFails(w) \/ SessionEnds(w) PROVE SeqInv'
  <2>1. hostQ' = hostQ /\ UNCHANGED <<net, vin, seen, applied>>
    BY <1>5 DEF SetPeer, SessionFails, SessionEnds, roomVars, tabVars
  <2> QED
    BY <1>3, <2>1
<1>6. ASSUME NEW w \in Viewer, PostOffer(w) \/ PostAmbiguous(w) PROVE SeqInv'
  <2>1. AppendOffer(w) /\ UNCHANGED <<net, seen, applied>>
    BY <1>6 DEF PostOffer, PostAmbiguous
  <2> QED
    BY <2>1, OfferSeen
<1>7. ASSUME NEW w \in Viewer, PushCandidate(w) \/ \E g \in pend[w] : PushAnswer(w, g) \/ AnswerLost(w, g)
      PROVE  SeqInv'
  <2>1. hostQ' = hostQ /\ UNCHANGED <<net, vin, seen, applied>>
    BY <1>7 DEF PushCandidate, PushAnswer, AppendViewer, AnswerLost, roomVars
  <2> QED
    BY <1>3, <2>1
\* A viewer starts with nothing seen.
<1>8. ASSUME NEW w \in Viewer, Hello(w) \/ HelloFails(w) PROVE SeqInv'
  <2>1. hostQ' = hostQ /\ net' = [net EXCEPT ![w] = "dial"] /\ UNCHANGED <<vin, seen, applied>>
    BY <1>8 DEF Hello, HelloFails, AppendViewer, roomVars
  <2>2. vpc[w] = "idle"
    BY <1>8 DEF Hello, HelloFails
  <2>3. seen[w] = -1 /\ vin[w] = <<>>
    BY <2>2 DEF PresenceInv, Present
  <2>4. Len(vin[w]) = 0
    BY <2>3
  <2>5. net'[w] = "dial"
    BY <2>1 DEF TypeOK
  <2>6. \A m \in hostQ : m.seq > -1
    <3>1. \A m \in hostQ : m.seq \in Nat
      BY DEF TypeOK, HostMsg
    <3> QED
      BY <3>1
  <2>7. Sees(w)'
    BY <2>1, <2>3, <2>4, <2>5, <2>6 DEF Sees
  <2>8. \A v \in Viewer \ {w} : net'[v] = net[v]
    BY <2>1 DEF TypeOK
  <2> QED
    BY <1>2, <2>1, <2>7, <2>8
<1>9. ASSUME NEW w \in Viewer, TabOpens(w) \/ TabPolls(w) PROVE SeqInv'
  <2>1. hostQ' = hostQ /\ seen' = seen /\ applied' = applied /\ net[w] # "off"
    BY <1>9 DEF TabOpens, TabPolls, roomVars
  <2>2. PICK p \in SUBSET hostQ :
          /\ \A m \in hostQ : m.seq > seen[w] => m \in p
          /\ \E s \in InOrder(p) : vin' = [vin EXCEPT ![w] = s]
    <3>1. CASE TabOpens(w)
      BY <3>1, hostQ \in SUBSET hostQ DEF TabOpens
    <3>2. CASE TabPolls(w)
      <4>1. After(hostQ, seen[w]) \in SUBSET hostQ /\ \A m \in hostQ : m.seq > seen[w] => m \in After(hostQ, seen[w])
        BY DEF After
      <4> QED
        BY <3>2, <4>1 DEF TabPolls
    <3> QED
      BY <1>9, <3>1, <3>2
  <2>3. PICK s \in InOrder(p) : vin' = [vin EXCEPT ![w] = s]
    BY <2>2
  <2>4. vin'[w] = s /\ \A v \in Viewer \ {w} : vin'[v] = vin[v] /\ net'[v] = net[v]
    BY <1>9, <2>3 DEF TabOpens, TabPolls, TypeOK
  <2>5. w \notin wiped => Sees(w)'
    BY <2>1, <2>2, <2>4, ReplaySeen
  <2> QED
    BY <1>2, <2>1, <2>4, <2>5
<1>10. ASSUME NEW w \in Viewer, TabLost(w) PROVE SeqInv'
  <2>1. /\ hostQ' = hostQ /\ seen' = seen /\ applied' = applied /\ net[w] # "off"
        /\ vin'[w] = <<>> /\ net'[w] = "http"
        /\ \A v \in Viewer \ {w} : vin'[v] = vin[v] /\ net'[v] = net[v]
    BY <1>10 DEF TabLost, roomVars, TypeOK
  <2>2. Len(vin'[w]) = 0
    BY <2>1
  <2>3. w \notin wiped => Sees(w)
    BY <2>1 DEF SeqInv
  <2>4. w \notin wiped => Sees(w)'
    BY <2>1, <2>2, <2>3 DEF Sees, Unapplied
  <2> QED
    BY <1>2, <2>1, <2>4
<1>11. ASSUME NEW w \in Viewer, DeliverFrame(w) PROVE SeqInv'
  <2>1. net[w] # "off"
    BY <1>11 DEF DeliverFrame, PresenceInv, Present
  <2>2. w \notin wiped => Sees(w)'
    BY <1>11, <2>1, DeliverSeen
  <2>3. hostQ' = hostQ /\ net' = net
    BY <1>11 DEF DeliverFrame, roomVars
  <2>4. \A v \in Viewer \ {w} : vin'[v] = vin[v] /\ seen'[v] = seen[v] /\ applied'[v] = applied[v]
    BY <1>11 DEF DeliverFrame, TypeOK
  <2> QED
    BY <1>2, <2>2, <2>3, <2>4
<1>12. ASSUME NEW w \in Viewer, Leave(w) PROVE SeqInv'
  <2>1. /\ hostQ' = hostQ /\ seen' = seen /\ applied' = applied /\ net'[w] = "off"
        /\ \A v \in Viewer \ {w} : vin'[v] = vin[v] /\ net'[v] = net[v]
    BY <1>12 DEF Leave, roomVars, TypeOK
  <2> QED
    BY <1>2, <2>1
<1>13. CASE Alarm
  BY <1>13 DEF Alarm, SeqInv, DistinctSeqs, tabVars
<1> QED
  BY <1>4, <1>5, <1>6, <1>7, <1>8, <1>9, <1>10, <1>11, <1>12, <1>13 DEF Next, RunViewer, Push

\* An offer that its viewer has not applied has a number above what the viewer has
\* seen, although offers are taken out of the queue and the queue is cut, unless the
\* room was wiped under it
\* (roomState.ts append, signaling.ts deliverFrame and its maxSeqSeen).
THEOREM OffersVisible == Spec => []OfferNotHidden
<1>1. Init => SeqInv
  BY DEF Init, SeqInv, DistinctSeqs
<1>2. SeqInv => OfferNotHidden
  BY DEF SeqInv, Sees, Unapplied, OfferNotHidden
<1> QED
  BY <1>1, <1>2, TypeInit, TypeStep, PresenceInit, PresenceStep, SeqStep, PTL DEF Spec

=============================================================================
