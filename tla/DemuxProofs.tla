---------------------------- MODULE DemuxProofs ----------------------------
(***************************************************************************)
(* Theorems about the two demultiplexers, OggDemux and AnnexB, for streams *)
(* of any length. What their loops compute is defined by recursion; that   *)
(* such a definition satisfies its own equation, and what follows from it  *)
(* for every input, is shown by looking at the least counterexample.       *)
(***************************************************************************)
EXTENDS OggDemux, AnnexB, SequenceTheorems, WellFoundedInduction, TLAPS

-----------------------------------------------------------------------------
(* Induction. *)

\* A set of numbers has a least element.
LEMMA LeastElement ==
    ASSUME NEW T \in SUBSET Nat, T # {}
    PROVE  \E n \in T : \A m \in T : n <= m
<1> DEFINE R == OpToRel(<, Nat)
<1>1. IsWellFoundedOn(R, Nat)
  BY NatLessThanWellFounded
<1>2. \A m, n \in Nat : m < n => <<m, n>> \in R
  BY DEF OpToRel
<1> HIDE DEF R
<1>3. PICK n \in T : \A m \in T : <<m, n>> \notin R
  BY <1>1, WFMin
<1>4. \A m \in T : ~(m < n)
  BY <1>2, <1>3
<1>5. \A m \in T : m \in Nat /\ n \in Nat
  OBVIOUS
<1> QED
  BY <1>4, <1>5

\* A bounded one has a greatest.
LEMMA GreatestElement ==
    ASSUME NEW N \in Nat, NEW T \in SUBSET (0..N), T # {}
    PROVE  \E n \in T : \A m \in T : m <= n
<1> DEFINE below == {N - n : n \in T}
<1>1. below \in SUBSET Nat /\ below # {}
  <2>1. \A n \in T : N - n \in Nat
    OBVIOUS
  <2>2. PICK n \in T : TRUE
    OBVIOUS
  <2>3. N - n \in below
    OBVIOUS
  <2> QED
    BY <2>1, <2>3
<1>2. PICK b \in below : \A m \in below : b <= m
  BY <1>1, LeastElement
<1>3. PICK n \in T : b = N - n
  OBVIOUS
<1>4. \A m \in T : N - n <= N - m
  BY <1>2, <1>3
<1> QED
  BY <1>3, <1>4

\* A set that has 0, and with every i < n the number after it, has all up to n.
LEMMA UpTo ==
    ASSUME NEW n \in Nat, NEW S, 0 \in S, \A i \in 0..n : i < n /\ i \in S => i + 1 \in S
    PROVE  \A i \in 0..n : i \in S
<1> SUFFICES ASSUME {i \in 0..n : i \notin S} # {} PROVE FALSE
  OBVIOUS
<1> DEFINE T == {i \in 0..n : i \notin S}
<1>1. T \in SUBSET Nat
  OBVIOUS
<1>2. PICK m \in T : \A k \in T : m <= k
  BY <1>1, LeastElement
<1>3. m - 1 \in 0..n /\ m - 1 < n /\ m - 1 \notin T
  BY <1>2
<1>4. m - 1 \in S
  BY <1>3
<1>5. m - 1 + 1 \in S
  BY <1>3, <1>4
<1> QED
  BY <1>2, <1>5

-----------------------------------------------------------------------------
(* The walk over a page, readPages. *)

\* The segments from i to j of a run.
Piece(r, i, j) == [k \in 1..(j - i + 1) |-> <<r, i + k - 1>>]

Segment == (1..AudioRuns) \X (1..Segments)

\* One lacing value.
WalkStep(p, i) ==
    LET acc == Append(p.acc, <<process, read + i>>)
    IN  IF full[read + i] THEN [done |-> p.done, acc |-> acc]
        ELSE [done |-> Append(p.done, acc), acc |-> <<>>]

IsWalk(f, n) ==
    f = [i \in 0..n |-> IF i = 0 THEN [done |-> <<>>, acc |-> partial]
                        ELSE WalkStep(f[i - 1], i)]

\* The recursion of Walk has a solution.
LEMMA WalkExists ==
    ASSUME NEW n \in Nat
    PROVE  \E f : IsWalk(f, n)
<1> DEFINE S == {i \in 0..n : \E f : IsWalk(f, i)}
<1>1. 0 \in S
  <2>1. IsWalk([i \in 0..0 |-> [done |-> <<>>, acc |-> partial]], 0)
    BY DEF IsWalk
  <2> QED
    BY <2>1
<1>2. ASSUME NEW i \in 0..n, i < n, i \in S PROVE i + 1 \in S
  <2>1. PICK g : IsWalk(g, i)
    BY <1>2
  <2> DEFINE f == [j \in 0..(i + 1) |-> IF j <= i THEN g[j] ELSE WalkStep(g[i], i + 1)]
  <2>2. ASSUME NEW j \in 0..(i + 1)
        PROVE  f[j] = IF j = 0 THEN [done |-> <<>>, acc |-> partial] ELSE WalkStep(f[j - 1], j)
    <3>1. CASE j = i + 1
      BY <3>1
    <3>2. CASE j <= i
      <4>1. f[j] = g[j] /\ (j # 0 => f[j - 1] = g[j - 1])
        BY <3>2
      <4>2. g[j] = IF j = 0 THEN [done |-> <<>>, acc |-> partial] ELSE WalkStep(g[j - 1], j)
        BY <2>1, <3>2 DEF IsWalk
      <4> QED
        BY <4>1, <4>2
    <3> QED
      BY <3>1, <3>2
  <2>3. IsWalk(f, i + 1)
    BY <2>2 DEF IsWalk
  <2>4. i + 1 \in 0..n
    BY <1>2
  <2> HIDE DEF f
  <2> QED
    BY <2>3, <2>4
<1> HIDE DEF S
<1>3. \A i \in 0..n : i \in S
  BY <1>1, <1>2, UpTo
<1> QED
  BY <1>3 DEF S

\* Walk is the end of such a solution.
LEMMA WalkSolves ==
    ASSUME NEW n \in Nat
    PROVE  \E f : IsWalk(f, n) /\ Walk(n) = f[n]
<1> DEFINE W == CHOOSE f : IsWalk(f, n)
<1>1. IsWalk(W, n)
  BY WalkExists, Zenon
<1>2. Walk(n) = W[n]
  BY Zenon DEF Walk, IsWalk, WalkStep
<1> QED
  BY <1>1, <1>2

-----------------------------------------------------------------------------
(* What a page yields. *)

Begins(i) == i = 1 \/ ~full[i - 1]

\* What is carried after e segments of run r: those of a packet that goes on, from b.
Carry(r, s, e, b) ==
    b \in 1..(e + 1) /\ s = Piece(r, b, e) /\ Begins(b) /\ \A k \in b..e : full[k]

\* A packet of run r, the header included.
IsCut(r, i, j) == i <= j /\ Begins(i) /\ ~full[j] /\ \A k \in i..(j - 1) : full[k]
Cuts(r) == {pkt \in Seq(Segment) :
                \E i, j \in 1..Segments : IsCut(r, i, j) /\ pkt = Piece(r, i, j)}

LEMMA PieceType ==
    ASSUME NEW r \in 1..AudioRuns, NEW e \in 0..Segments, NEW i \in 1..(e + 1)
    PROVE  Piece(r, i, e) \in Seq(Segment) /\ Len(Piece(r, i, e)) = e - i + 1
<1>1. e - i + 1 \in Nat
  BY OggAssumption
<1>2. \A k \in 1..(e - i + 1) : <<r, i + k - 1>> \in Segment
  BY OggAssumption DEF Segment
<1> QED
  BY <1>1, <1>2 DEF Piece

LEMMA Appended ==
    ASSUME NEW S, NEW q \in Seq(S), NEW x \in S
    PROVE  /\ Append(q, x) \in Seq(S) /\ Len(Append(q, x)) = Len(q) + 1 /\ Len(q) \in Nat
           /\ Append(q, x)[Len(q) + 1] = x
           /\ \A k \in 1..Len(q) : Append(q, x)[k] = q[k]
OBVIOUS

\* The next segment makes the piece one longer.
LEMMA PieceAppend ==
    ASSUME NEW r \in 1..AudioRuns, NEW e \in Nat, e + 1 <= Segments, NEW i \in 1..(e + 1)
    PROVE  Append(Piece(r, i, e), <<r, e + 1>>) = Piece(r, i, e + 1)
<1>1. e \in 0..Segments /\ e + 1 \in 0..Segments /\ i \in 1..((e + 1) + 1)
  BY OggAssumption
<1>2. /\ Piece(r, i, e) \in Seq(Segment) /\ Len(Piece(r, i, e)) = e - i + 1
      /\ Piece(r, i, e + 1) \in Seq(Segment) /\ Len(Piece(r, i, e + 1)) = e - i + 2
  <2>1. Piece(r, i, e) \in Seq(Segment) /\ Len(Piece(r, i, e)) = e - i + 1
    BY <1>1, PieceType
  <2>2. Piece(r, i, e + 1) \in Seq(Segment) /\ Len(Piece(r, i, e + 1)) = (e + 1) - i + 1
    BY <1>1, PieceType
  <2>3. (e + 1) - i + 1 = e - i + 2
    OBVIOUS
  <2> QED
    BY <2>1, <2>2, <2>3
<1> DEFINE a == Append(Piece(r, i, e), <<r, e + 1>>)
<1>3. <<r, e + 1>> \in Segment
  BY OggAssumption DEF Segment
<1>4. /\ a \in Seq(Segment) /\ Len(a) = Len(Piece(r, i, e)) + 1
      /\ a[Len(Piece(r, i, e)) + 1] = <<r, e + 1>>
      /\ \A k \in 1..Len(Piece(r, i, e)) : a[k] = Piece(r, i, e)[k]
  BY <1>2, <1>3, Appended
<1>b. Len(a) = e - i + 2
  BY <1>2, <1>4
<1> HIDE DEF a
<1>5. ASSUME NEW k \in 1..(e - i + 2) PROVE a[k] = Piece(r, i, e + 1)[k]
  <2>1. Piece(r, i, e + 1)[k] = <<r, i + k - 1>>
    BY DEF Piece
  <2>2. CASE k = e - i + 2
    <3>1. k = Len(Piece(r, i, e)) + 1
      BY <1>2, <2>2
    <3>2. a[k] = <<r, e + 1>>
      BY <1>4, <3>1
    <3>3. i + k - 1 = e + 1
      BY <2>2
    <3> QED
      BY <2>1, <3>2, <3>3
  <2>3. CASE k # e - i + 2
    <3>1. k \in 1..(e - i + 1)
      BY <2>3
    <3>2. a[k] = Piece(r, i, e)[k]
      BY <1>2, <1>4, <3>1
    <3>3. Piece(r, i, e)[k] = <<r, i + k - 1>>
      BY <3>1 DEF Piece
    <3> QED
      BY <2>1, <3>2, <3>3
  <2> QED
    BY <2>2, <2>3
<1>6. a = Piece(r, i, e + 1)
  BY <1>2, <1>4, <1>5, <1>b, SeqEqual
<1> QED
  BY <1>6 DEF a

LEMMA PieceEmpty ==
    ASSUME NEW r, NEW e \in Nat
    PROVE  Piece(r, e + 1, e) = <<>>
BY DEF Piece

\* A cut begins with its first segment.
LEMMA CutHead ==
    ASSUME process \in 1..AudioRuns, NEW pkt \in Cuts(process)
    PROVE  \E i, j \in 1..Segments :
               /\ IsCut(process, i, j) /\ pkt = Piece(process, i, j)
               /\ pkt \in Seq(Segment) /\ Head(pkt) = <<process, i>>
<1>1. PICK i \in 1..Segments, j \in 1..Segments :
          IsCut(process, i, j) /\ pkt = Piece(process, i, j)
  BY DEF Cuts
<1>2. 1 \in 1..(j - i + 1) /\ i + 1 - 1 = i
  BY <1>1 DEF IsCut
<1>3. pkt[1] = <<process, i>>
  BY <1>1, <1>2 DEF Piece
<1>4. pkt \in Seq(Segment) /\ Head(pkt) = <<process, i>>
  BY <1>3 DEF Cuts
<1> QED
  BY <1>1, <1>4

Ordered(q) == \A m, n \in DOMAIN q : m < n => Earlier(q[m], q[n])

\* What comes after all the others is appended in order.
LEMMA OrderedAppend ==
    ASSUME NEW S, NEW q \in Seq(S), NEW x \in S, Ordered(q),
           \A m \in DOMAIN q : Earlier(q[m], x)
    PROVE  Ordered(Append(q, x))
<1> DEFINE a == Append(q, x)
<1>1. /\ DOMAIN q = 1..Len(q) /\ DOMAIN a = 1..(Len(q) + 1) /\ Len(q) \in Nat
      /\ a[Len(q) + 1] = x /\ \A m \in 1..Len(q) : a[m] = q[m]
  OBVIOUS
<1> HIDE DEF a
<1>2. ASSUME NEW m \in DOMAIN a, NEW n \in DOMAIN a, m < n PROVE Earlier(a[m], a[n])
  <2>1. m \in 1..Len(q) /\ (n = Len(q) + 1 \/ n \in 1..Len(q))
    BY <1>1, <1>2
  <2>2. CASE n = Len(q) + 1
    BY <1>1, <2>1, <2>2
  <2>3. CASE n \in 1..Len(q)
    BY <1>1, <1>2, <2>1, <2>3 DEF Ordered
  <2> QED
    BY <2>1, <2>2, <2>3
<1>3. Ordered(a)
  BY <1>2 DEF Ordered
<1> QED
  BY <1>3 DEF a

\* What remains after the oldest is lost is in order.
LEMMA OrderedTail ==
    ASSUME NEW S, NEW q \in Seq(S), q # <<>>
    PROVE  /\ Ordered(q) => Ordered(Tail(q))
           /\ \A m \in DOMAIN Tail(q) : m + 1 \in DOMAIN q /\ Tail(q)[m] = q[m + 1]
<1> DEFINE t == Tail(q)
<1>1. /\ DOMAIN q = 1..Len(q) /\ DOMAIN t = 1..(Len(q) - 1) /\ Len(q) \in Nat
      /\ \A m \in 1..(Len(q) - 1) : t[m] = q[m + 1]
  OBVIOUS
<1> HIDE DEF t
<1>2. \A m \in DOMAIN t : m \in Int /\ m + 1 \in DOMAIN q /\ t[m] = q[m + 1]
  BY <1>1
<1>3. ASSUME Ordered(q), NEW m \in DOMAIN t, NEW n \in DOMAIN t, m < n
      PROVE  Earlier(t[m], t[n])
  <2>1. m + 1 < n + 1
    BY <1>2, <1>3
  <2>2. Earlier(q[m + 1], q[n + 1])
    BY <1>2, <1>3, <2>1 DEF Ordered
  <2> QED
    BY <1>2, <2>2
<1>4. Ordered(q) => Ordered(t)
  BY <1>3 DEF Ordered
<1> QED
  BY <1>2, <1>4 DEF t

\* Packets of the current run that begin one after the other, from lo on and before hi.
Spread(q, lo, hi) ==
    Ordered(q) /\ \A m \in DOMAIN q : lo <= Head(q[m])[2] /\ Head(q[m])[2] < hi

LEMMA SpreadGrows ==
    ASSUME process \in 1..AudioRuns, NEW q \in Seq(Cuts(process)), NEW lo \in Int, NEW b \in Int,
           NEW hi \in Int, lo <= b, b < hi, Spread(q, lo, b),
           NEW x \in Cuts(process), Head(x) = <<process, b>>
    PROVE  Spread(Append(q, x), lo, hi)
<1> DEFINE a == Append(q, x)
<1>1. ASSUME NEW m \in DOMAIN q
      PROVE  /\ q[m] \in Cuts(process) /\ Head(q[m])[2] \in Int
             /\ Earlier(q[m], x) /\ lo <= Head(q[m])[2] /\ Head(q[m])[2] < hi
  <2>1. q[m] \in Cuts(process)
    OBVIOUS
  <2>2. PICK i \in 1..Segments : Head(q[m]) = <<process, i>>
    BY <2>1, CutHead
  <2>3. lo <= i /\ i < b
    BY <2>2 DEF Spread
  <2>4. i < hi /\ i \in Int
    BY <2>2, <2>3, OggAssumption
  <2> QED
    BY <2>1, <2>2, <2>3, <2>4 DEF Earlier
<1>2. Ordered(a)
  BY <1>1, OrderedAppend DEF Spread
<1>3. /\ DOMAIN q = 1..Len(q) /\ DOMAIN a = 1..(Len(q) + 1) /\ Len(q) \in Nat
      /\ a[Len(q) + 1] = x /\ \A m \in 1..Len(q) : a[m] = q[m]
  OBVIOUS
<1> HIDE DEF a
<1>4. ASSUME NEW m \in DOMAIN a PROVE lo <= Head(a[m])[2] /\ Head(a[m])[2] < hi
  <2>1. m = Len(q) + 1 \/ m \in 1..Len(q)
    BY <1>3
  <2>2. CASE m = Len(q) + 1
    BY <1>3, <2>2
  <2>3. CASE m \in 1..Len(q)
    BY <1>1, <1>3, <2>3
  <2> QED
    BY <2>1, <2>2, <2>3
<1>5. Spread(a, lo, hi)
  BY <1>2, <1>4 DEF Spread
<1> QED
  BY <1>5 DEF a

\* Each lacing value keeps what is carried a beginning of one packet, and what is
\* done whole packets that begin one after the other before it.
LEMMA WalkYields ==
    ASSUME OggTypeOK, process \in 1..AudioRuns,
           NEW b0 \in Int, Carry(process, partial, read, b0),
           NEW n \in Nat, read + n <= Segments
    PROVE  \E b \in Int : /\ b0 <= b /\ Carry(process, Walk(n).acc, read + n, b)
                          /\ Walk(n).done \in Seq(Cuts(process))
                          /\ Spread(Walk(n).done, b0, b)
<1>1. PICK f : IsWalk(f, n) /\ Walk(n) = f[n]
  BY WalkSolves
<1> DEFINE Good(i) == \E b \in Int : /\ b0 <= b /\ Carry(process, f[i].acc, read + i, b)
                                     /\ f[i].done \in Seq(Cuts(process))
                                     /\ Spread(f[i].done, b0, b)
           S == {i \in 0..n : Good(i)}
<1>2. 0 \in S
  <2>1. f[0] = [done |-> <<>>, acc |-> partial]
    BY <1>1 DEF IsWalk
  <2>2. f[0].done = <<>> /\ f[0].acc = partial
    BY <2>1
  <2>3. read + 0 = read
    BY DEF OggTypeOK
  <2>4. Spread(<<>>, b0, b0) /\ <<>> \in Seq(Cuts(process))
    BY DEF Spread, Ordered
  <2>5. Good(0)
    BY <2>2, <2>3, <2>4
  <2> QED
    BY <2>5
<1>3. ASSUME NEW i \in 0..n, i < n, i \in S PROVE i + 1 \in S
  <2> DEFINE e == read + i
             acc == Append(f[i].acc, <<process, e + 1>>)
  <2>1. e \in Nat /\ e + 1 <= Segments /\ read + (i + 1) = e + 1 /\ e + 1 \in 1..Segments
    BY <1>3, OggAssumption DEF OggTypeOK
  <2>2. i + 1 \in 0..n /\ i + 1 # 0 /\ (i + 1) - 1 = i
    BY <1>3
  <2>3. f[i + 1] = WalkStep(f[i], i + 1)
    BY <1>1, <2>2 DEF IsWalk
  <2>4. f[i + 1] = IF full[e + 1] THEN [done |-> f[i].done, acc |-> acc]
                   ELSE [done |-> Append(f[i].done, acc), acc |-> <<>>]
    BY <2>1, <2>3 DEF WalkStep
  <2>5. PICK b \in Int : /\ b0 <= b /\ Carry(process, f[i].acc, e, b)
                         /\ f[i].done \in Seq(Cuts(process)) /\ Spread(f[i].done, b0, b)
    BY <1>3
  <2>6. /\ b \in 1..(e + 1) /\ f[i].acc = Piece(process, b, e)
        /\ Begins(b) /\ \A k \in b..e : full[k]
    BY <2>5 DEF Carry
  <2>7. acc = Piece(process, b, e + 1)
    BY <2>1, <2>6, PieceAppend
  <2> HIDE DEF acc, e
  <2>8. CASE full[e + 1]
    <3>1. f[i + 1].acc = acc /\ f[i + 1].done = f[i].done
      BY <2>4, <2>8
    <3>2. \A k \in b..(e + 1) : full[k]
      BY <2>1, <2>6, <2>8
    <3>3. b \in 1..((e + 1) + 1)
      BY <2>1, <2>6
    <3>4. Carry(process, f[i + 1].acc, e + 1, b)
      BY <2>6, <2>7, <3>1, <3>2, <3>3 DEF Carry
    <3>5. Good(i + 1)
      BY <2>1, <2>5, <3>1, <3>4
    <3> QED
      BY <2>2, <3>5
  <2>9. CASE ~full[e + 1]
    <3>1. f[i + 1].acc = <<>> /\ f[i + 1].done = Append(f[i].done, acc)
      BY <2>4, <2>9
    <3>2. Carry(process, <<>>, e + 1, (e + 1) + 1)
      <4>1. (e + 1) + 1 \in 1..((e + 1) + 1) /\ Piece(process, (e + 1) + 1, e + 1) = <<>>
        BY <2>1, PieceEmpty
      <4>2. Begins((e + 1) + 1) /\ \A k \in ((e + 1) + 1)..(e + 1) : full[k]
        BY <2>1, <2>9 DEF Begins
      <4> QED
        BY <4>1, <4>2 DEF Carry
    <3>3. acc \in Cuts(process) /\ Head(acc) = <<process, b>>
      <4>1. b \in 1..Segments /\ b \in 1..((e + 1) + 1) /\ e + 1 \in 0..Segments /\ b <= e + 1
        BY <2>1, <2>6, OggAssumption
      <4>2. Piece(process, b, e + 1) \in Seq(Segment)
        BY <4>1, PieceType
      <4>3. \A k \in b..((e + 1) - 1) : full[k]
        BY <2>1, <2>6
      <4>4. IsCut(process, b, e + 1)
        BY <2>6, <2>9, <4>1, <4>3 DEF IsCut
      <4>5. acc \in Cuts(process)
        BY <2>1, <2>7, <4>1, <4>2, <4>4 DEF Cuts
      <4>6. 1 \in 1..((e + 1) - b + 1) /\ b + 1 - 1 = b
        BY <2>1, <4>1
      <4>7. acc[1] = <<process, b>>
        BY <2>7, <4>6 DEF Piece
      <4>8. Head(acc) = <<process, b>>
        BY <2>7, <4>2, <4>7
      <4> QED
        BY <4>5, <4>8
    <3>4. f[i + 1].done \in Seq(Cuts(process))
      BY <2>5, <3>1, <3>3
    <3>5. (e + 1) + 1 \in Int /\ b0 <= (e + 1) + 1 /\ b < (e + 1) + 1
      BY <2>1, <2>5, <2>6
    <3>6. Spread(f[i + 1].done, b0, (e + 1) + 1)
      BY <2>5, <3>1, <3>3, <3>5, SpreadGrows
    <3>7. Good(i + 1)
      BY <2>1, <3>1, <3>2, <3>4, <3>5, <3>6
    <3> QED
      BY <2>2, <3>7
  <2> QED
    BY <2>8, <2>9
<1> HIDE DEF S
<1>4. n \in S
  BY <1>2, <1>3, UpTo
<1> QED
  BY <1>1, <1>4 DEF S

-----------------------------------------------------------------------------
(* What goes to the channel. *)

\* The packets of the runs up to p, without the headers.
WholePackets(p) ==
    {pkt \in Seq(Segment) :
        \E r \in 1..p : \E i, j \in 1..Segments :
            i <= j /\ OnePacket(i, j) /\ pkt = Piece(r, i, j)}

EmitStep(out, pkt) ==
    IF IsHeader(pkt) THEN out
    ELSE Append(IF Len(out) < AudioCap THEN out ELSE Tail(out), pkt)

IsEmit(f, pkts, n) ==
    f = [i \in 0..n |-> IF i = 0 THEN audioOut ELSE EmitStep(f[i - 1], pkts[i])]

\* The recursion of EmitAudio has a solution.
LEMMA EmitExists ==
    ASSUME NEW pkts, NEW n \in Nat
    PROVE  \E f : IsEmit(f, pkts, n)
<1> DEFINE S == {i \in 0..n : \E f : IsEmit(f, pkts, i)}
<1>1. 0 \in S
  <2>1. IsEmit([i \in 0..0 |-> audioOut], pkts, 0)
    BY DEF IsEmit
  <2> QED
    BY <2>1
<1>2. ASSUME NEW i \in 0..n, i < n, i \in S PROVE i + 1 \in S
  <2>1. PICK g : IsEmit(g, pkts, i)
    BY <1>2
  <2> DEFINE f == [j \in 0..(i + 1) |-> IF j <= i THEN g[j] ELSE EmitStep(g[i], pkts[i + 1])]
  <2>2. ASSUME NEW j \in 0..(i + 1)
        PROVE  f[j] = IF j = 0 THEN audioOut ELSE EmitStep(f[j - 1], pkts[j])
    <3>1. CASE j = i + 1
      BY <3>1
    <3>2. CASE j <= i
      <4>1. f[j] = g[j] /\ (j # 0 => f[j - 1] = g[j - 1])
        BY <3>2
      <4>2. g[j] = IF j = 0 THEN audioOut ELSE EmitStep(g[j - 1], pkts[j])
        BY <2>1, <3>2 DEF IsEmit
      <4> QED
        BY <4>1, <4>2
    <3> QED
      BY <3>1, <3>2
  <2>3. IsEmit(f, pkts, i + 1)
    BY <2>2 DEF IsEmit
  <2>4. i + 1 \in 0..n
    BY <1>2
  <2> HIDE DEF f
  <2> QED
    BY <2>3, <2>4
<1> HIDE DEF S
<1>3. n \in S
  BY <1>1, <1>2, UpTo
<1> QED
  BY <1>3 DEF S

\* EmitAudio is the end of such a solution.
LEMMA EmitSolves ==
    ASSUME NEW pkts, Len(pkts) \in Nat
    PROVE  \E f : IsEmit(f, pkts, Len(pkts)) /\ EmitAudio(pkts) = f[Len(pkts)]
<1> DEFINE W == CHOOSE f : IsEmit(f, pkts, Len(pkts))
<1>1. \E f : IsEmit(f, pkts, Len(pkts))
  BY EmitExists
<1>2. IsEmit(W, pkts, Len(pkts))
  BY <1>1, Zenon
<1>3. EmitAudio(pkts) = W[Len(pkts)]
  BY Zenon DEF EmitAudio, IsEmit, EmitStep
<1> QED
  BY <1>2, <1>3

\* A packet that is not the header is one that may go to the track.
LEMMA NotHeader ==
    ASSUME process \in 1..AudioRuns, NEW pkt \in Cuts(process), ~IsHeader(pkt)
    PROVE  pkt \in WholePackets(process)
<1>1. PICK i \in 1..Segments, j \in 1..Segments :
          /\ IsCut(process, i, j) /\ pkt = Piece(process, i, j)
          /\ pkt \in Seq(Segment) /\ Head(pkt) = <<process, i>>
  BY CutHead
<1>2. i <= j /\ Begins(i) /\ ~full[j] /\ \A k \in i..(j - 1) : full[k]
  BY <1>1 DEF IsCut
<1>4. pkt \in Seq(Segment) /\ Head(pkt) = <<process, i>>
  BY <1>1
<1>5. i # 1
  BY <1>4 DEF IsHeader
<1>6. OnePacket(i, j)
  BY <1>2, <1>5 DEF OnePacket, Begins
<1>7. process \in 1..process
  OBVIOUS
<1> QED
  BY <1>1, <1>2, <1>4, <1>6, <1>7 DEF WholePackets

\* The packet begins before segment b of the current run.
Ahead(pkt, b) ==
    Head(pkt)[1] < process \/ (Head(pkt)[1] = process /\ Head(pkt)[2] < b)

\* The channel takes whole packets, in order, and no more of them than it has room for.
LEMMA EmitYields ==
    ASSUME process \in 1..AudioRuns, NEW pkts \in Seq(Cuts(process)),
           audioOut \in Seq(WholePackets(process)), Len(audioOut) <= AudioCap,
           NEW lo \in Int, NEW hi \in Int, lo <= hi, Spread(pkts, lo, hi),
           Ordered(audioOut), \A m \in DOMAIN audioOut : Ahead(audioOut[m], lo)
    PROVE  /\ EmitAudio(pkts) \in Seq(WholePackets(process))
           /\ Len(EmitAudio(pkts)) <= AudioCap
           /\ Ordered(EmitAudio(pkts))
           /\ \A m \in DOMAIN EmitAudio(pkts) : Ahead(EmitAudio(pkts)[m], hi)
<1> DEFINE n == Len(pkts)
           P == WholePackets(process)
<1>1. n \in Nat /\ DOMAIN pkts = 1..n /\ \A i \in 1..n : pkts[i] \in Cuts(process)
  OBVIOUS
<1>2. PICK f : IsEmit(f, pkts, n) /\ EmitAudio(pkts) = f[n]
  BY <1>1, EmitSolves
<1>a. ASSUME NEW i \in 1..n
      PROVE  \E y \in Int : Head(pkts[i]) = <<process, y>> /\ lo <= y /\ y < hi
  <2>1. pkts[i] \in Cuts(process)
    BY <1>1
  <2>2. PICK y \in 1..Segments : Head(pkts[i]) = <<process, y>>
    BY <2>1, CutHead
  <2>3. lo <= y /\ y < hi /\ y \in Int
    BY <1>1, <2>2, OggAssumption DEF Spread
  <2> QED
    BY <2>2, <2>3
<1>b. \A i, j \in 1..n : i < j => Earlier(pkts[i], pkts[j])
  BY <1>1 DEF Spread, Ordered
<1>c. \A pkt \in P : Head(pkt)[1] \in Int /\ Head(pkt)[2] \in Int
  <2> TAKE pkt \in P
  <2>1. PICK r \in 1..process, i \in 1..Segments, j \in 1..Segments :
            i <= j /\ pkt = Piece(r, i, j) /\ pkt \in Seq(Segment)
    BY DEF WholePackets
  <2>2. r \in 1..AudioRuns /\ j \in 0..Segments /\ i \in 1..(j + 1)
    BY <2>1, OggAssumption
  <2>3. Len(pkt) = j - i + 1
    BY <2>1, <2>2, PieceType
  <2>4. Head(pkt) \in Segment
    BY <2>1, <2>3
  <2> QED
    BY <2>4, OggAssumption DEF Segment
<1> HIDE DEF n, P
<1> DEFINE Known(x, i) == Ahead(x, lo) \/ \E q \in 1..i : x = pkts[q]
           Good(i) == /\ f[i] \in Seq(P) /\ Len(f[i]) <= AudioCap /\ Ordered(f[i])
                      /\ \A m \in DOMAIN f[i] : Known(f[i][m], i)
           S == {i \in 0..n : Good(i)}
<1>3. 0 \in S
  <2>1. f[0] = audioOut
    BY <1>1, <1>2 DEF IsEmit
  <2> QED
    BY <1>1, <2>1 DEF P
<1>4. ASSUME NEW i \in 0..n, i < n, i \in S PROVE i + 1 \in S
  <2>1. i + 1 \in 0..n /\ i + 1 # 0 /\ (i + 1) - 1 = i /\ i + 1 \in 1..n
    BY <1>1, <1>4
  <2>2. f[i + 1] = EmitStep(f[i], pkts[i + 1])
    BY <1>2, <2>1 DEF IsEmit
  <2>3. /\ f[i] \in Seq(P) /\ Len(f[i]) <= AudioCap /\ Ordered(f[i])
        /\ \A m \in DOMAIN f[i] : Known(f[i][m], i)
    BY <1>4
  <2>a. \A x : Known(x, i) => Known(x, i + 1)
    BY <1>1, <2>1
  <2>4. CASE IsHeader(pkts[i + 1])
    <3>1. f[i + 1] = f[i]
      BY <2>2, <2>4 DEF EmitStep
    <3>2. Good(i + 1)
      BY <2>3, <2>a, <3>1
    <3> QED
      BY <2>1, <3>2
  <2>5. CASE ~IsHeader(pkts[i + 1])
    <3>1. pkts[i + 1] \in P
      BY <1>1, <2>1, <2>5, NotHeader DEF P
    <3> DEFINE t == IF Len(f[i]) < AudioCap THEN f[i] ELSE Tail(f[i])
    <3>2. /\ t \in Seq(P) /\ Len(t) + 1 <= AudioCap /\ Ordered(t)
          /\ \A m \in DOMAIN t : Known(t[m], i)
      <4>1. AudioCap \in Nat /\ AudioCap > 0
        BY OggAssumption
      <4>2. CASE Len(f[i]) < AudioCap
        BY <2>3, <4>1, <4>2
      <4>3. CASE ~(Len(f[i]) < AudioCap)
        <5>1. Len(f[i]) = AudioCap /\ f[i] # <<>>
          BY <2>3, <4>1, <4>3
        <5>2. Tail(f[i]) \in Seq(P) /\ Len(Tail(f[i])) = Len(f[i]) - 1
          BY <2>3, <5>1
        <5>3. /\ Ordered(Tail(f[i]))
              /\ \A m \in DOMAIN Tail(f[i]) : m + 1 \in DOMAIN f[i] /\ Tail(f[i])[m] = f[i][m + 1]
          BY <2>3, <5>1, OrderedTail
        <5> HIDE DEF Known
        <5>4. \A m \in DOMAIN Tail(f[i]) : Known(Tail(f[i])[m], i)
          BY <2>3, <5>3
        <5>5. t = Tail(f[i]) /\ Len(Tail(f[i])) + 1 <= AudioCap
          BY <4>1, <4>3, <5>1, <5>2
        <5> QED
          BY <5>2, <5>3, <5>4, <5>5
      <4> QED
        BY <4>2, <4>3
    <3>3. f[i + 1] = Append(t, pkts[i + 1])
      BY <2>2, <2>5 DEF EmitStep
    <3> HIDE DEF t
    <3>4. Append(t, pkts[i + 1]) \in Seq(P) /\ Len(Append(t, pkts[i + 1])) = Len(t) + 1
      BY <3>1, <3>2
    <3>5. f[i + 1] \in Seq(P) /\ Len(f[i + 1]) <= AudioCap
      BY <3>2, <3>3, <3>4
    <3>6. ASSUME NEW m \in DOMAIN t PROVE Earlier(t[m], pkts[i + 1])
      <4>1. t[m] \in P
        BY <3>2
      <4>2. PICK y \in Int : Head(pkts[i + 1]) = <<process, y>> /\ lo <= y
        BY <1>a, <2>1
      <4>3. CASE Ahead(t[m], lo)
        <5>1. Head(t[m])[1] \in Int /\ Head(t[m])[2] \in Int
          BY <1>c, <4>1
        <5> QED
          BY <4>2, <4>3, <5>1 DEF Ahead, Earlier
      <4>4. CASE \E q \in 1..i : t[m] = pkts[q]
        <5>1. PICK q \in 1..i : t[m] = pkts[q]
          BY <4>4
        <5>2. q \in 1..n /\ q < i + 1
          BY <1>1, <2>1, <5>1
        <5> QED
          BY <1>b, <2>1, <5>1, <5>2
      <4> QED
        BY <3>2, <4>3, <4>4
    <3>7. Ordered(f[i + 1])
      BY <3>1, <3>2, <3>3, <3>6, OrderedAppend
    <3>8. ASSUME NEW m \in DOMAIN f[i + 1] PROVE Known(f[i + 1][m], i + 1)
      <4>1. /\ DOMAIN t = 1..Len(t) /\ Len(t) \in Nat /\ m \in 1..(Len(t) + 1)
            /\ f[i + 1][Len(t) + 1] = pkts[i + 1] /\ \A x \in 1..Len(t) : f[i + 1][x] = t[x]
        BY <3>1, <3>2, <3>3
      <4>2. CASE m = Len(t) + 1
        <5>1. i + 1 \in 1..(i + 1) /\ f[i + 1][m] = pkts[i + 1]
          BY <2>1, <4>1, <4>2
        <5> QED
          BY <5>1
      <4>3. CASE m \in 1..Len(t)
        <5>1. Known(t[m], i) /\ f[i + 1][m] = t[m]
          BY <3>2, <4>1, <4>3
        <5> QED
          BY <2>a, <5>1
      <4> QED
        BY <4>1, <4>2, <4>3
    <3>9. Good(i + 1)
      BY <3>5, <3>7, <3>8
    <3> QED
      BY <2>1, <3>9
  <2> QED
    BY <2>4, <2>5
<1> HIDE DEF S
<1>5. \A i \in 0..n : i \in S
  BY <1>1, <1>3, <1>4, UpTo
<1>6. Good(n)
  BY <1>1, <1>5 DEF S
<1>7. ASSUME NEW m \in DOMAIN f[n] PROVE Ahead(f[n][m], hi)
  <2>1. f[n][m] \in P /\ Known(f[n][m], n)
    BY <1>6
  <2>2. Head(f[n][m])[1] \in Int /\ Head(f[n][m])[2] \in Int
    BY <1>c, <2>1
  <2>3. CASE Ahead(f[n][m], lo)
    BY <2>2, <2>3 DEF Ahead
  <2>4. CASE \E q \in 1..n : f[n][m] = pkts[q]
    BY <1>a, <2>4 DEF Ahead
  <2> QED
    BY <2>1, <2>3, <2>4
<1> QED
  BY <1>2, <1>6, <1>7 DEF P

-----------------------------------------------------------------------------
(* The audio source. *)

\* Whatever is carried begins one packet of the run that is being read, after all
\* that went to the channel.
CarryInv ==
    \E b \in Int : /\ Carry(process, partial, read, b)
                   /\ \A m \in DOMAIN audioOut : Ahead(audioOut[m], b)

\* Inductive.
OggInv ==
    /\ OggTypeOK
    /\ audio = "read" => process >= 1 /\ CarryInv
    /\ audioOut \in Seq(WholePackets(process)) /\ Ordered(audioOut)

\* A later run adds packets, it takes none away.
LEMMA WholePacketsGrow ==
    ASSUME NEW p \in Nat, NEW q \in Nat, p <= q
    PROVE  Seq(WholePackets(p)) \subseteq Seq(WholePackets(q))
<1>1. \A r \in 1..p : r \in 1..q
  OBVIOUS
<1>2. WholePackets(p) \subseteq WholePackets(q)
  BY <1>1 DEF WholePackets
<1> HIDE DEF WholePackets
<1> QED
  BY <1>2

\* Sequences of whole packets are sequences of segments.
LEMMA WholeTyped ==
    ASSUME NEW out \in Seq(WholePackets(process))
    PROVE  \A i \in DOMAIN out : out[i] \in Seq(Segment)
<1>1. \A i \in DOMAIN out : out[i] \in WholePackets(process)
  OBVIOUS
<1> QED
  BY <1>1 DEF WholePackets

\* What is carried is a sequence of segments.
LEMMA CarryTyped ==
    ASSUME OggTypeOK, NEW r \in 1..AudioRuns, NEW e \in 0..Segments, NEW s, NEW b,
           Carry(r, s, e, b)
    PROVE  s \in Seq(Segment)
<1>1. b \in 1..(e + 1) /\ s = Piece(r, b, e)
  BY DEF Carry
<1> QED
  BY <1>1, PieceType

LEMMA OggInitInv ==
    ASSUME OggInit
    PROVE  OggInv
<1>1. OggTypeOK
  BY OggAssumption DEF OggInit, OggTypeOK
<1>2. audioOut \in Seq(WholePackets(process)) /\ Ordered(audioOut)
  BY DEF OggInit, Ordered
<1> QED
  BY <1>1, <1>2 DEF OggInit, OggInv

LEMMA LaunchInv ==
    ASSUME OggInv, LaunchAudio
    PROVE  OggInv'
<1>1. OggTypeOK /\ process + 1 \in 1..AudioRuns
  BY OggAssumption DEF OggInv, OggTypeOK, LaunchAudio
<1>2. OggTypeOK'
  BY <1>1, OggAssumption DEF OggTypeOK, LaunchAudio
<1>3. Carry(process, partial, read, 1)'
  <2>1. Piece(process', 0 + 1, 0) = <<>>
    BY PieceEmpty
  <2>2. 1 \in 1..(read' + 1) /\ partial' = Piece(process', 1, read')
    BY <2>1 DEF LaunchAudio
  <2>3. \A k \in 1..read' : full'[k]
    BY DEF LaunchAudio
  <2> QED
    BY <2>2, <2>3 DEF Carry, Begins
<1>4. (audioOut \in Seq(WholePackets(process)) /\ Ordered(audioOut))'
  <2>1. process \in Nat /\ process + 1 \in Nat /\ process <= process + 1
    BY <1>1 DEF OggTypeOK
  <2>2. audioOut \in Seq(WholePackets(process + 1))
    BY <2>1, WholePacketsGrow DEF OggInv
  <2>3. WholePackets(process)' = WholePackets(process + 1)
    BY DEF LaunchAudio, WholePackets, OnePacket
  <2> QED
    BY <2>2, <2>3 DEF LaunchAudio, OggInv, Ordered
<1>5. process' >= 1
  BY <1>1 DEF LaunchAudio, OggTypeOK
<1>6. ASSUME NEW m \in DOMAIN audioOut PROVE Ahead(audioOut[m], 1)'
  <2>1. audioOut[m] \in WholePackets(process)
    BY DEF OggInv
  <2>2. PICK r \in 1..process, i \in 1..Segments, j \in 1..Segments :
            i <= j /\ audioOut[m] = Piece(r, i, j) /\ audioOut[m] \in Seq(Segment)
    BY <2>1 DEF WholePackets
  <2>3. 1 \in 1..(j - i + 1)
    BY <2>2
  <2>4. audioOut[m][1] = <<r, i + 1 - 1>>
    BY <2>2, <2>3 DEF Piece
  <2>5. Head(audioOut[m]) = <<r, i + 1 - 1>>
    BY <2>2, <2>4
  <2>6. r < process + 1
    BY <1>1, <2>2 DEF OggTypeOK
  <2> QED
    BY <2>5, <2>6 DEF Ahead, LaunchAudio
<1>7. CarryInv'
  <2>1. audioOut' = audioOut
    BY DEF LaunchAudio
  <2> QED
    BY <1>3, <1>6, <2>1 DEF CarryInv
<1> QED
  BY <1>2, <1>4, <1>5, <1>7 DEF OggInv

LEMMA ReadPageInv ==
    ASSUME OggInv, NEW n \in 1..PageSize, ReadPage(n)
    PROVE  OggInv'
<1>1. /\ OggTypeOK /\ process \in 1..AudioRuns /\ CarryInv
      /\ audioOut \in Seq(WholePackets(process)) /\ Len(audioOut) <= AudioCap
      /\ Ordered(audioOut)
  BY OggAssumption DEF OggInv, OggTypeOK, ReadPage
<1>2. n \in Nat /\ read + n <= Segments /\ read + n \in 0..Segments
  BY <1>1, OggAssumption DEF OggTypeOK, ReadPage
<1>a. PICK b0 \in Int : /\ Carry(process, partial, read, b0)
                        /\ \A m \in DOMAIN audioOut : Ahead(audioOut[m], b0)
  BY <1>1 DEF CarryInv
<1>3. PICK b \in Int : /\ b0 <= b /\ Carry(process, Walk(n).acc, read + n, b)
                       /\ Walk(n).done \in Seq(Cuts(process)) /\ Spread(Walk(n).done, b0, b)
  BY <1>1, <1>2, <1>a, WalkYields
<1> DEFINE out == EmitAudio(Walk(n).done)
<1>4. /\ out \in Seq(WholePackets(process)) /\ Len(out) <= AudioCap
      /\ Ordered(out) /\ \A m \in DOMAIN out : Ahead(out[m], b)
  BY <1>1, <1>3, <1>a, EmitYields
<1>5. Walk(n).acc \in Seq(Segment)
  BY <1>1, <1>2, <1>3, CarryTyped
<1>6. \A i \in DOMAIN out : out[i] \in Seq(Segment)
  BY <1>4, WholeTyped
<1>7. /\ full' = full /\ audio' = audio /\ process' = process /\ read' = read + n
      /\ partial' = Walk(n).acc /\ audioOut' = out
  BY DEF ReadPage
<1> HIDE DEF out
<1>8. OggTypeOK'
  BY <1>1, <1>2, <1>4, <1>5, <1>6, <1>7 DEF OggTypeOK, Segment
<1>9. CarryInv'
  <2>1. Carry(process, partial, read, b)'
    BY <1>3, <1>7 DEF Carry, Begins
  <2>2. \A m \in DOMAIN audioOut' : Ahead(audioOut[m], b)'
    BY <1>4, <1>7 DEF Ahead
  <2> QED
    BY <2>1, <2>2 DEF CarryInv
<1>10. (audioOut \in Seq(WholePackets(process)) /\ Ordered(audioOut))'
  <2>1. WholePackets(process)' = WholePackets(process)
    BY <1>7 DEF WholePackets, OnePacket
  <2> QED
    BY <1>4, <1>7, <2>1 DEF Ordered
<1> QED
  BY <1>1, <1>7, <1>8, <1>9, <1>10 DEF OggInv

LEMMA RouteInv ==
    ASSUME OggInv, RouteAudio
    PROVE  OggInv'
<1>1. /\ full' = full /\ audio' = audio /\ process' = process /\ read' = read
      /\ partial' = partial /\ audioOut' = Tail(audioOut) /\ audioOut # <<>>
  BY DEF RouteAudio
<1>2. /\ audioOut \in Seq(WholePackets(process)) /\ Len(audioOut) <= AudioCap
      /\ OggTypeOK /\ Ordered(audioOut)
  BY DEF OggInv, OggTypeOK
<1>3. /\ Tail(audioOut) \in Seq(WholePackets(process))
      /\ Len(Tail(audioOut)) = Len(audioOut) - 1 /\ Len(audioOut) \in Nat
  <2> HIDE DEF WholePackets
  <2> QED
    BY <1>1, <1>2
<1>4. \A i \in DOMAIN Tail(audioOut) : Tail(audioOut)[i] \in Seq(Segment)
  BY <1>3, WholeTyped
<1>5. Len(Tail(audioOut)) <= AudioCap
  BY <1>2, <1>3, OggAssumption
<1>6. OggTypeOK'
  BY <1>1, <1>2, <1>4, <1>5 DEF OggTypeOK, Segment
<1>7. WholePackets(process)' = WholePackets(process)
  BY <1>1 DEF WholePackets, OnePacket
<1>8. /\ Ordered(Tail(audioOut))
      /\ \A m \in DOMAIN Tail(audioOut) :
            m + 1 \in DOMAIN audioOut /\ Tail(audioOut)[m] = audioOut[m + 1]
  BY <1>1, <1>2, OrderedTail
<1>9. ASSUME CarryInv PROVE CarryInv'
  <2>1. PICK b \in Int : /\ Carry(process, partial, read, b)
                         /\ \A m \in DOMAIN audioOut : Ahead(audioOut[m], b)
    BY <1>9 DEF CarryInv
  <2>2. Carry(process, partial, read, b)'
    BY <1>1, <2>1 DEF Carry, Begins
  <2>3. \A m \in DOMAIN audioOut' : Ahead(audioOut[m], b)'
    BY <1>1, <1>8, <2>1 DEF Ahead
  <2> QED
    BY <2>2, <2>3 DEF CarryInv
<1>10. Ordered(audioOut)'
  BY <1>1, <1>8 DEF Ordered
<1> QED
  BY <1>1, <1>3, <1>6, <1>7, <1>9, <1>10 DEF OggInv

\* The steps that only move Source.Run keep it.
LEMMA RunInv ==
    ASSUME OggInv, audio' \in {"launch", "backoff", "ended", audio},
           UNCHANGED <<full, process, read, partial, audioOut>>
    PROVE  OggInv'
<1>1. OggTypeOK'
  BY DEF OggInv, OggTypeOK
<1>2. WholePackets(process)' = WholePackets(process)
  BY DEF WholePackets, OnePacket
<1>3. CarryInv' <=> CarryInv
  BY DEF CarryInv, Carry, Begins, Ahead
<1>4. Ordered(audioOut)' <=> Ordered(audioOut)
  BY DEF Ordered
<1> QED
  BY <1>1, <1>2, <1>3, <1>4 DEF OggInv

LEMMA OggStepInv ==
    ASSUME OggInv, [OggNext]_oggVars
    PROVE  OggInv'
<1>1. CASE LaunchAudio
  BY <1>1, LaunchInv
<1>2. CASE AudioFails
  BY <1>2, RunInv DEF AudioFails
<1>3. CASE Backoff
  BY <1>3, RunInv DEF Backoff
<1>4. CASE AudioEnds
  BY <1>4, RunInv DEF AudioEnds
<1>5. CASE RouteAudio
  BY <1>5, RouteInv
<1>6. CASE \E n \in 1..PageSize : ReadPage(n)
  BY <1>6, ReadPageInv
<1>7. CASE UNCHANGED oggVars
  BY <1>7, RunInv DEF oggVars
<1> QED
  BY <1>1, <1>2, <1>3, <1>4, <1>5, <1>6, <1>7 DEF OggNext

\* The audio source's variables keep their types, for any stream and any pages.
THEOREM OggTypes == OggSpec => []OggTypeOK
<1>1. OggInit => OggInv
  BY OggInitInv
<1>2. OggInv /\ [OggNext]_oggVars => OggInv'
  BY OggStepInv
<1>3. OggInv => OggTypeOK
  BY DEF OggInv
<1> QED
  BY <1>1, <1>2, <1>3, PTL DEF OggSpec

\* What goes to the track are whole Opus packets, each of one run of ffmpeg, in order
\* and none of them twice, whichever lacing values the stream has, however pages cut
\* it, whatever the channel loses and wherever ffmpeg dies.
THEOREM PacketsCorrect == OggSpec => []PacketsWhole
<1>1. OggInit => OggInv
  BY OggInitInv
<1>2. OggInv /\ [OggNext]_oggVars => OggInv'
  BY OggStepInv
<1>3. ASSUME OggInv PROVE PacketsWhole
  <2>1. ASSUME NEW m \in DOMAIN audioOut
        PROVE  \E r \in 1..process : \E i, j \in 1..Segments :
                   i <= j /\ OnePacket(i, j) /\ audioOut[m] = Piece(r, i, j)
    <3>1. audioOut[m] \in WholePackets(process)
      BY <1>3 DEF OggInv
    <3> QED
      BY <3>1 DEF WholePackets
  <2>2. \A m, n \in DOMAIN audioOut : m < n => Earlier(audioOut[m], audioOut[n])
    BY <1>3 DEF OggInv, Ordered
  <2> QED
    BY <2>1, <2>2 DEF PacketsWhole, Piece
<1> QED
  BY <1>1, <1>2, <1>3, PTL DEF OggSpec

-----------------------------------------------------------------------------
(* What an encoder writes. *)

NalUnit == [type : {"aud", "sps", "p", "idr"}, first : BOOLEAN]
Slice(u) == u.type \in {"p", "idr"}

\* Only a slice begins a picture, and a delimiter is followed by a slice before the
\* next one.
WellFormed(s) ==
    /\ s \in Seq(NalUnit)
    /\ \A i \in 1..Len(s) : s[i].first => Slice(s[i])
    /\ \A i \in 1..Len(s) : s[i].type = "aud" =>
            \E y \in (i + 1)..Len(s) :
                Slice(s[y]) /\ \A m \in (i + 1)..y : s[m].type # "aud"

\* One well-formed stream after another is well-formed.
LEMMA WellFormedConcat ==
    ASSUME NEW s, NEW t, WellFormed(s), WellFormed(t)
    PROVE  WellFormed(s \o t)
<1> DEFINE st == s \o t
           a == Len(s)
           b == Len(t)
<1>1. s \in Seq(NalUnit) /\ t \in Seq(NalUnit) /\ a \in Nat /\ b \in Nat
  BY DEF WellFormed
<1>2. st \in Seq(NalUnit) /\ Len(st) = a + b
  BY <1>1
<1>3. \A i \in 1..a : st[i] = s[i]
  BY <1>1
<1>4. \A i \in 1..b : st[a + i] = t[i]
  BY <1>1
<1>5. (\A i \in 1..a : s[i].first => Slice(s[i])) /\ (\A i \in 1..b : t[i].first => Slice(t[i]))
  BY DEF WellFormed
<1> HIDE DEF st, a, b
<1>6. \A i \in 1..(a + b) : (i \in 1..a) \/ (i - a \in 1..b /\ st[i] = t[i - a])
  <2> TAKE i \in 1..(a + b)
  <2>1. CASE i <= a
    BY <1>1, <2>1
  <2>2. CASE i > a
    <3>1. i - a \in 1..b /\ a + (i - a) = i
      BY <1>1, <2>2
    <3> QED
      BY <1>4, <3>1
  <2> QED
    BY <1>1, <2>1, <2>2
<1>7. ASSUME NEW i \in 1..(a + b), st[i].first PROVE Slice(st[i])
  BY <1>3, <1>5, <1>6, <1>7
<1>8. ASSUME NEW i \in 1..(a + b), st[i].type = "aud"
      PROVE  \E y \in (i + 1)..(a + b) :
                 Slice(st[y]) /\ \A m \in (i + 1)..y : st[m].type # "aud"
  <2>1. CASE i \in 1..a
    <3>1. PICK y \in (i + 1)..a : Slice(s[y]) /\ \A m \in (i + 1)..y : s[m].type # "aud"
      BY <1>3, <1>8, <2>1 DEF WellFormed, a
    <3>2. y \in 1..a /\ y \in (i + 1)..(a + b) /\ \A m \in (i + 1)..y : m \in 1..a
      BY <1>1, <2>1, <3>1
    <3> QED
      BY <1>3, <3>1, <3>2
  <2>2. CASE i - a \in 1..b /\ st[i] = t[i - a]
    <3>1. PICK z \in ((i - a) + 1)..b :
              Slice(t[z]) /\ \A m \in ((i - a) + 1)..z : t[m].type # "aud"
      BY <1>8, <2>2 DEF WellFormed, b
    <3>2. z \in 1..b /\ a + z \in (i + 1)..(a + b)
      BY <1>1, <2>2, <3>1
    <3>3. Slice(st[a + z])
      BY <1>4, <3>1, <3>2
    <3>4. ASSUME NEW m \in (i + 1)..(a + z) PROVE st[m].type # "aud"
      <4>1. m - a \in 1..b /\ m - a \in ((i - a) + 1)..z /\ a + (m - a) = m
        BY <1>1, <2>2, <3>1, <3>2
      <4>2. st[m] = t[m - a]
        BY <1>4, <4>1
      <4> QED
        BY <3>1, <4>1, <4>2
    <3> QED
      BY <3>2, <3>3, <3>4
  <2> QED
    BY <1>6, <2>1, <2>2
<1>9. WellFormed(st)
  BY <1>2, <1>7, <1>8 DEF WellFormed
<1> QED
  BY <1>9 DEF st

LEMMA SlicesWellFormed ==
    ASSUME NEW type \in {"p", "idr"}, NEW s \in Slices(type)
    PROVE  WellFormed(s)
<1>1. CASE s = <<Nal(type, TRUE)>>
  BY <1>1 DEF WellFormed, Nal, Slice, NalUnit
<1>2. CASE s = <<Nal(type, TRUE), Nal(type, FALSE)>>
  BY <1>2 DEF WellFormed, Nal, Slice, NalUnit
<1> QED
  BY <1>1, <1>2 DEF Slices

\* Parameter sets belong to no slice.
LEMMA SpsWellFormed == WellFormed(<<Sps>>)
BY DEF WellFormed, Sps, Nal, Slice, NalUnit

\* A picture: well-formed, with a slice and no delimiter.
IsPicture(s) ==
    /\ WellFormed(s)
    /\ \A i \in 1..Len(s) : s[i].type # "aud"
    /\ \E y \in 1..Len(s) : Slice(s[y])

\* A unit put before a sequence.
LEMMA Prefixed ==
    ASSUME NEW x \in NalUnit, NEW t \in Seq(NalUnit)
    PROVE  /\ <<x>> \o t \in Seq(NalUnit) /\ Len(<<x>> \o t) = Len(t) + 1
           /\ (<<x>> \o t)[1] = x /\ \A i \in 1..Len(t) : (<<x>> \o t)[i + 1] = t[i]
<1>1. <<x>> \in Seq(NalUnit) /\ Len(<<x>>) = 1
  OBVIOUS
<1> QED
  BY <1>1

LEMMA SlicesPicture ==
    ASSUME NEW type \in {"p", "idr"}, NEW s \in Slices(type)
    PROVE  IsPicture(s)
<1>1. WellFormed(s)
  BY SlicesWellFormed
<1>2. CASE s = <<Nal(type, TRUE)>>
  BY <1>1, <1>2 DEF IsPicture, Nal, Slice
<1>3. CASE s = <<Nal(type, TRUE), Nal(type, FALSE)>>
  BY <1>1, <1>3 DEF IsPicture, Nal, Slice
<1> QED
  BY <1>2, <1>3 DEF Slices

LEMMA PicturePicture ==
    ASSUME NEW pic \in Picture
    PROVE  IsPicture(pic)
<1>1. CASE pic \in Slices("p")
  BY <1>1, SlicesPicture
<1>2. ASSUME NEW s \in Slices("idr"), pic = <<Sps>> \o s PROVE IsPicture(pic)
  <2>1. IsPicture(s)
    BY SlicesPicture
  <2>2. WellFormed(pic)
    BY <1>2, <2>1, SpsWellFormed, WellFormedConcat DEF IsPicture
  <2>3. s \in Seq(NalUnit) /\ Sps \in NalUnit /\ Sps.type # "aud"
    BY <2>1 DEF IsPicture, WellFormed, Sps, Nal, NalUnit
  <2>4. /\ Len(pic) = Len(s) + 1 /\ Len(s) \in Nat
        /\ pic[1] = Sps /\ \A i \in 1..Len(s) : pic[i + 1] = s[i]
    BY <1>2, <2>3, Prefixed
  <2>5. ASSUME NEW i \in 1..Len(pic) PROVE pic[i].type # "aud"
    <3>1. CASE i = 1
      BY <2>3, <2>4, <3>1
    <3>2. CASE i # 1
      <4>1. i - 1 \in 1..Len(s) /\ (i - 1) + 1 = i
        BY <2>4, <3>2
      <4>2. pic[i] = s[i - 1]
        BY <2>4, <4>1
      <4> QED
        BY <2>1, <4>1, <4>2 DEF IsPicture
    <3> QED
      BY <3>1, <3>2
  <2>6. \E y \in 1..Len(pic) : Slice(pic[y])
    <3>1. PICK y \in 1..Len(s) : Slice(s[y])
      BY <2>1 DEF IsPicture
    <3>2. y + 1 \in 1..Len(pic) /\ Slice(pic[y + 1])
      BY <2>4, <3>1
    <3> QED
      BY <3>2
  <2> QED
    BY <2>2, <2>5, <2>6 DEF IsPicture
<1> QED
  BY <1>1, <1>2 DEF Picture

LEMMA DelimitedWellFormed ==
    ASSUME NEW s \in Delimited
    PROVE  WellFormed(s)
<1>1. PICK pic \in Picture : s = <<Aud>> \o pic
  BY DEF Delimited
<1>2. IsPicture(pic)
  BY PicturePicture
<1>3. /\ pic \in Seq(NalUnit) /\ \A i \in 1..Len(pic) : pic[i].first => Slice(pic[i])
      /\ \A i \in 1..Len(pic) : pic[i].type # "aud"
  BY <1>2 DEF IsPicture, WellFormed
<1>4. Aud \in NalUnit /\ ~Aud.first
  BY DEF Aud, Nal, NalUnit
<1>5. /\ s \in Seq(NalUnit) /\ Len(s) = Len(pic) + 1 /\ Len(pic) \in Nat
      /\ s[1] = Aud /\ \A i \in 1..Len(pic) : s[i + 1] = pic[i]
  BY <1>1, <1>3, <1>4, Prefixed
<1>6. \A i \in 1..Len(s) : i = 1 \/ (i - 1 \in 1..Len(pic) /\ s[i] = pic[i - 1])
  <2> TAKE i \in 1..Len(s)
  <2>1. CASE i # 1
    <3>1. i - 1 \in 1..Len(pic) /\ (i - 1) + 1 = i
      BY <1>5, <2>1
    <3> QED
      BY <1>5, <3>1
  <2> QED
    BY <2>1
<1>7. \A i \in 1..Len(s) : s[i].first => Slice(s[i])
  BY <1>3, <1>4, <1>5, <1>6
<1>8. PICK y \in 1..Len(pic) : Slice(pic[y])
  BY <1>2 DEF IsPicture
<1>9. y + 1 \in 2..Len(s) /\ Slice(s[y + 1])
  BY <1>5, <1>8
<1>10. ASSUME NEW m \in 2..(y + 1) PROVE s[m].type # "aud"
  <2>1. m \in 1..Len(s) /\ m # 1
    BY <1>5, <1>8
  <2> QED
    BY <1>3, <1>6, <2>1
<1>11. ASSUME NEW i \in 1..Len(s), s[i].type = "aud"
       PROVE  \E z \in (i + 1)..Len(s) :
                  Slice(s[z]) /\ \A m \in (i + 1)..z : s[m].type # "aud"
  <2>1. i = 1
    BY <1>3, <1>6, <1>11
  <2> QED
    BY <1>9, <1>10, <2>1
<1> QED
  BY <1>5, <1>7, <1>11 DEF WellFormed

-----------------------------------------------------------------------------
\* One picture more, or the same stream.
Longer(S, pictures) == S \cup {p[1] \o p[2] : p \in S \X pictures}

IsUp(f, pictures, n) ==
    f = [i \in 0..n |-> IF i = 0 THEN {<<>>} ELSE Longer(f[i - 1], pictures)]

\* The recursion of Streams has a solution.
LEMMA UpExists ==
    ASSUME NEW pictures, NEW n \in Nat
    PROVE  \E f : IsUp(f, pictures, n)
<1> DEFINE K == {i \in 0..n : \E f : IsUp(f, pictures, i)}
<1>1. 0 \in K
  <2>1. IsUp([i \in 0..0 |-> {<<>>}], pictures, 0)
    BY DEF IsUp
  <2> QED
    BY <2>1
<1>2. ASSUME NEW i \in 0..n, i < n, i \in K PROVE i + 1 \in K
  <2>1. PICK g : IsUp(g, pictures, i)
    BY <1>2
  <2> DEFINE f == [j \in 0..(i + 1) |-> IF j <= i THEN g[j] ELSE Longer(g[i], pictures)]
  <2>2. ASSUME NEW j \in 0..(i + 1)
        PROVE  f[j] = IF j = 0 THEN {<<>>} ELSE Longer(f[j - 1], pictures)
    <3>1. CASE j = i + 1
      BY <3>1
    <3>2. CASE j <= i
      <4>1. f[j] = g[j] /\ (j # 0 => f[j - 1] = g[j - 1])
        BY <3>2
      <4>2. j \in 0..i
        BY <3>2
      <4>3. g[j] = IF j = 0 THEN {<<>>} ELSE Longer(g[j - 1], pictures)
        BY <2>1, <4>2, Zenon DEF IsUp
      <4> QED
        BY <4>1, <4>3
    <3> QED
      BY <3>1, <3>2
  <2>3. IsUp(f, pictures, i + 1)
    BY <2>2 DEF IsUp
  <2>4. i + 1 \in 0..n
    BY <1>2
  <2> HIDE DEF f
  <2> QED
    BY <2>3, <2>4
<1> HIDE DEF K
<1>3. n \in K
  BY <1>1, <1>2, UpTo
<1> QED
  BY <1>3 DEF K

\* Whatever pictures are strung together, a stream is well-formed if they are.
LEMMA StreamsWellFormed ==
    ASSUME NEW pictures, \A pic \in pictures : WellFormed(pic), NEW s \in Streams(pictures)
    PROVE  WellFormed(s) /\ s # <<>>
<1> DEFINE W == CHOOSE f : IsUp(f, pictures, MaxPictures)
<1>1. MaxPictures \in Nat
  BY SplitterAssumption
<1>2. \E f : IsUp(f, pictures, MaxPictures)
  BY <1>1, UpExists
<1>3. IsUp(W, pictures, MaxPictures)
  BY <1>2, Zenon
<1>4. s \in W[MaxPictures] /\ s # <<>>
  <2>1. Streams(pictures) =
            {t \in W[MaxPictures] : t # <<>> /\ t[IF t[1] = Aud THEN 2 ELSE 1] = Sps}
    BY Zenon DEF Streams, IsUp, Longer
  <2> HIDE DEF W
  <2> QED
    BY <2>1
<1> HIDE DEF W
<1> DEFINE K == {i \in 0..MaxPictures : \A t \in W[i] : WellFormed(t)}
<1>5. 0 \in K
  <2>1. W[0] = {<<>>}
    BY <1>1, <1>3 DEF IsUp
  <2>2. WellFormed(<<>>)
    BY DEF WellFormed
  <2> QED
    BY <1>1, <2>1, <2>2
<1>6. ASSUME NEW i \in 0..MaxPictures, i < MaxPictures, i \in K PROVE i + 1 \in K
  <2>1. i + 1 \in 0..MaxPictures /\ i + 1 # 0 /\ (i + 1) - 1 = i
    BY <1>1, <1>6
  <2>2. W[i + 1] = Longer(W[i], pictures)
    BY <1>3, <2>1 DEF IsUp
  <2>3. ASSUME NEW t \in Longer(W[i], pictures) PROVE WellFormed(t)
    <3>1. CASE t \in W[i]
      BY <1>6, <3>1
    <3>2. ASSUME NEW u \in W[i], NEW pic \in pictures, t = u \o pic PROVE WellFormed(t)
      BY <1>6, <3>2, WellFormedConcat
    <3>3. t \in W[i] \/ \E p \in W[i] \X pictures : t = p[1] \o p[2]
      BY Zenon DEF Longer
    <3>4. t \in W[i] \/ \E u \in W[i], pic \in pictures : t = u \o pic
      BY <3>3
    <3> QED
      BY <3>1, <3>2, <3>4
  <2> QED
    BY <2>1, <2>2, <2>3
<1> HIDE DEF K
<1>7. MaxPictures \in K
  BY <1>1, <1>5, <1>6, UpTo
<1> QED
  BY <1>4, <1>7 DEF K

LEMMA SplitInitWellFormed ==
    ASSUME SplitInit
    PROVE  WellFormed(nals) /\ nals # <<>>
<1>1. CASE nals \in Streams(Picture)
  <2>1. \A pic \in Picture : WellFormed(pic)
    BY PicturePicture DEF IsPicture
  <2> QED
    BY <1>1, <2>1, StreamsWellFormed
<1>2. CASE nals \in Streams(Delimited)
  <2>1. \A pic \in Delimited : WellFormed(pic)
    BY DelimitedWellFormed
  <2> QED
    BY <1>2, <2>1, StreamsWellFormed
<1> QED
  BY <1>1, <1>2 DEF SplitInit

-----------------------------------------------------------------------------
(* Where access units begin, drain. *)

\* What the loop's rule comes to: a unit ends before a delimiter, and before the first
\* slice of a picture that has no delimiter since the picture before.
Boundary(i) ==
    \E j \in 1..(i - 1) :
        /\ IsVCL(j)
        /\ \/ nals[i].type = "aud"
           \/ nals[i].first /\ \A m \in j..i : nals[m].type # "aud"

\* The NAL units that begin an access unit of the whole stream.
Tops == {i \in DOMAIN nals : i = 1 \/ Boundary(i)}

\* The splitter sees that a unit begins at i, the one before beginning at s.
SeenToBegin(s, i, k) ==
    /\ \E j \in s..(i - 1) : IsVCL(j)
    /\ nals[i].type = "aud" \/ (IsVCL(i) /\ FirstSlice(i, k))

StartAt(s, i, from, k) ==
    IF i <= from THEN from ELSE IF SeenToBegin(s, i, k) THEN i ELSE s

IsStart(f, D, from, k) == f = [i \in D |-> StartAt(f[i - 1], i, from, k)]

\* What the splitter can know of the beginnings when it has k bytes.
Ready(from, k) ==
    {t \in Tops : /\ t >= from /\ 3 * t - 1 <= k
                  /\ t = from \/ nals[t].type = "aud" \/ 3 * t <= k}

LEMMA VisibleRange ==
    ASSUME WellFormed(nals), NEW k \in Nat
    PROVE  \E v \in 0..Len(nals) : Visible(k) = 1..v
<1>1. nals \in Seq(NalUnit) /\ Len(nals) \in Nat /\ DOMAIN nals = 1..Len(nals)
  BY DEF WellFormed
<1>2. CASE Visible(k) = {}
  <2>1. 0 \in 0..Len(nals) /\ 1..0 = {}
    BY <1>1
  <2> QED
    BY <1>2, <2>1
<1>3. CASE Visible(k) # {}
  <2>1. Visible(k) \in SUBSET (0..Len(nals))
    BY <1>1 DEF Visible
  <2>2. PICK v \in Visible(k) : \A m \in Visible(k) : m <= v
    BY <1>1, <1>3, <2>1, GreatestElement
  <2>3. v \in 1..Len(nals) /\ 3 * v - 1 <= k
    BY <1>1, <2>2 DEF Visible
  <2>4. ASSUME NEW i PROVE i \in Visible(k) <=> i \in 1..v
    <3>1. ASSUME i \in Visible(k) PROVE i \in 1..v
      BY <1>1, <2>2, <2>3, <3>1 DEF Visible
    <3>2. ASSUME i \in 1..v PROVE i \in Visible(k)
      <4>1. i \in 1..Len(nals) /\ 3 * i <= 3 * v
        BY <1>1, <2>3, <3>2
      <4>2. 3 * i - 1 <= k
        BY <1>1, <2>3, <4>1
      <4> QED
        BY <1>1, <4>1, <4>2 DEF Visible
    <3> QED
      BY <3>1, <3>2
  <2>5. Visible(k) = 1..v
    BY <2>4, Zenon
  <2>6. v \in 0..Len(nals)
    BY <1>1, <2>3
  <2> QED
    BY <2>5, <2>6
<1> QED
  BY <1>2, <1>3

\* The recursion of UnitStart has a solution.
LEMMA StartExists ==
    ASSUME NEW n \in Nat, NEW from \in Nat \ {0}, NEW k
    PROVE  \E f : IsStart(f, 1..n, from, k)
<1> DEFINE S == {i \in 0..n : \E f : IsStart(f, 1..i, from, k)}
<1>1. 0 \in S
  <2>1. IsStart([i \in 1..0 |-> 0], 1..0, from, k)
    BY DEF IsStart
  <2> QED
    BY <2>1
<1>2. ASSUME NEW i \in 0..n, i < n, i \in S PROVE i + 1 \in S
  <2>1. PICK g : IsStart(g, 1..i, from, k)
    BY <1>2
  <2> DEFINE f == [j \in 1..(i + 1) |-> IF j <= i THEN g[j] ELSE StartAt(g[i], i + 1, from, k)]
  <2>2. ASSUME NEW j \in 1..(i + 1)
        PROVE  f[j] = StartAt(f[j - 1], j, from, k)
    <3>1. CASE j = 1
      <4>1. \A x : StartAt(x, 1, from, k) = from
        BY DEF StartAt
      <4>2. i >= 1 => g[1] = StartAt(g[1 - 1], 1, from, k)
        BY <2>1 DEF IsStart
      <4>3. f[1] = from
        BY <4>1, <4>2
      <4> QED
        BY <3>1, <4>1, <4>3
    <3>2. CASE j # 1 /\ j = i + 1
      BY <3>2
    <3>3. CASE j # 1 /\ j <= i
      <4>1. f[j] = g[j] /\ f[j - 1] = g[j - 1] /\ j \in 1..i
        BY <3>3
      <4>2. g[j] = StartAt(g[j - 1], j, from, k)
        BY <2>1, <4>1, Zenon DEF IsStart
      <4> QED
        BY <4>1, <4>2
    <3> QED
      BY <3>1, <3>2, <3>3
  <2>3. IsStart(f, 1..(i + 1), from, k)
    BY <2>2 DEF IsStart
  <2>4. i + 1 \in 0..n
    BY <1>2
  <2> HIDE DEF f
  <2> QED
    BY <2>3, <2>4
<1> HIDE DEF S
<1>3. n \in S
  BY <1>1, <1>2, UpTo
<1> QED
  BY <1>3 DEF S

\* UnitStart collects the values of such a solution.
LEMMA StartSolves ==
    ASSUME WellFormed(nals), NEW from \in Nat \ {0}, NEW k \in Nat
    PROVE  \E v \in 0..Len(nals) : \E f :
              /\ Visible(k) = 1..v /\ IsStart(f, 1..v, from, k)
              /\ UnitStart(from, k) = {f[i] : i \in {j \in 1..v : j >= from}}
<1>1. PICK v \in 0..Len(nals) : Visible(k) = 1..v
  BY VisibleRange
<1>2. v \in Nat
  BY <1>1 DEF WellFormed
<1>3. \E f : IsStart(f, 1..v, from, k)
  BY <1>2, StartExists
<1> DEFINE W == CHOOSE f : IsStart(f, Visible(k), from, k)
<1>4. IsStart(W, Visible(k), from, k)
  BY <1>1, <1>3, Zenon
<1>5. UnitStart(from, k) = {W[i] : i \in {j \in Visible(k) : j >= from}}
  BY Zenon DEF UnitStart, IsStart, StartAt, SeenToBegin
<1> HIDE DEF W
<1> QED
  BY <1>1, <1>4, <1>5

\* Beyond the first, an access unit begins with a delimiter or with a slice.
LEMMA TopKind ==
    ASSUME WellFormed(nals), NEW s \in Tops, s # 1
    PROVE  Boundary(s) /\ (nals[s].type = "aud" \/ (nals[s].first /\ IsVCL(s)))
<1>1. s \in 1..Len(nals) /\ Boundary(s)
  BY DEF Tops, WellFormed
<1>2. nals[s].type = "aud" \/ nals[s].first
  BY <1>1 DEF Boundary
<1>3. nals[s].first => IsVCL(s)
  BY <1>1 DEF WellFormed, Slice, IsVCL
<1> QED
  BY <1>1, <1>2, <1>3

\* One step of the loop: with the last beginning known, it sees a beginning where
\* there is one.
LEMMA SeenIsReady ==
    ASSUME WellFormed(nals), NEW k \in Nat, NEW from \in Tops,
           NEW i \in DOMAIN nals, i > from, 3 * i - 1 <= k,
           NEW s \in Ready(from, k), s <= i - 1,
           \A t \in Ready(from, k) : t <= i - 1 => t <= s
    PROVE  SeenToBegin(s, i, k) <=> i \in Ready(from, k)
<1>1. /\ nals \in Seq(NalUnit) /\ Len(nals) \in Nat /\ DOMAIN nals = 1..Len(nals)
      /\ i \in 1..Len(nals) /\ from \in 1..Len(nals) /\ s \in 1..Len(nals)
      /\ s \in Tops /\ s >= from
  <2>1. nals \in Seq(NalUnit) /\ Len(nals) \in Nat /\ DOMAIN nals = 1..Len(nals)
    BY DEF WellFormed
  <2>2. s \in Tops /\ s >= from
    BY DEF Ready
  <2>3. \A t \in Tops : t \in DOMAIN nals
    BY DEF Tops
  <2> QED
    BY <2>1, <2>2, <2>3
<1>2. ASSUME NEW t \in Tops, t >= from, t <= i - 1 PROVE t <= s
  <2>1. t \in 1..Len(nals)
    BY <1>1, <1>2 DEF Tops
  <2>2. 3 * t <= k /\ 3 * t - 1 <= k
    BY <1>1, <1>2, <2>1
  <2>3. t \in Ready(from, k)
    BY <1>2, <2>2 DEF Ready
  <2> QED
    BY <1>2, <2>3
<1>3. ASSUME SeenToBegin(s, i, k) PROVE i \in Ready(from, k)
  <2>1. PICK j \in s..(i - 1) : IsVCL(j)
    BY <1>3 DEF SeenToBegin
  <2>2. j \in 1..(i - 1) /\ j \in 1..Len(nals) /\ nals[j].type # "aud"
    BY <1>1, <2>1 DEF IsVCL
  <2>3. CASE nals[i].type = "aud"
    <3>1. Boundary(i)
      BY <2>1, <2>2, <2>3 DEF Boundary
    <3> QED
      BY <1>1, <2>3, <3>1 DEF Ready, Tops
  <2>4. CASE nals[i].type # "aud" /\ IsVCL(i) /\ FirstSlice(i, k)
    <3>1. nals[i].first /\ 3 * i <= k
      BY <2>4 DEF FirstSlice
    <3>2. ASSUME NEW m \in j..i, nals[m].type = "aud" PROVE FALSE
      <4>1. m \in 1..Len(nals) /\ m # j /\ m # i
        BY <1>1, <2>2, <2>4, <3>2
      <4>2. j \in 1..(m - 1)
        BY <2>2, <3>2, <4>1
      <4>3. m \in Tops
        BY <1>1, <2>1, <3>2, <4>1, <4>2 DEF Tops, Boundary
      <4>4. m >= from /\ m <= i - 1 /\ m > s
        BY <1>1, <2>1, <2>2, <3>2, <4>1
      <4>5. m <= s
        BY <1>2, <4>3, <4>4
      <4> QED
        BY <1>1, <4>1, <4>4, <4>5
    <3>3. Boundary(i)
      BY <2>1, <2>2, <3>1, <3>2 DEF Boundary
    <3> QED
      BY <1>1, <3>1, <3>3 DEF Ready, Tops
  <2> QED
    BY <1>3, <2>3, <2>4 DEF SeenToBegin
<1>4. ASSUME i \in Ready(from, k) PROVE SeenToBegin(s, i, k)
  <2>1. i \in Tops /\ i # from /\ i # 1 /\ (nals[i].type = "aud" \/ 3 * i <= k)
    BY <1>1, <1>4 DEF Ready
  <2>2. Boundary(i) /\ (nals[i].type = "aud" \/ (nals[i].first /\ IsVCL(i)))
    BY <2>1, TopKind
  <2>3. PICK j \in 1..(i - 1) :
            IsVCL(j) /\ (nals[i].type = "aud"
                            \/ (nals[i].first /\ \A m \in j..i : nals[m].type # "aud"))
    BY <2>2 DEF Boundary
  <2>4. \E x \in s..(i - 1) : IsVCL(x)
    <3>1. CASE j >= s
      BY <1>1, <2>3, <3>1
    <3>2. CASE j < s
      <4>1. s # 1 /\ s \in j..i /\ s \in s..(i - 1)
        BY <1>1, <2>3, <3>2
      <4>2. nals[s].type = "aud" \/ IsVCL(s)
        BY <1>1, <4>1, TopKind
      <4>3. CASE IsVCL(s)
        BY <4>1, <4>3
      <4>4. CASE nals[s].type = "aud"
        <5>1. nals[i].type = "aud"
          BY <2>3, <4>1, <4>4
        <5>2. PICK y \in (s + 1)..Len(nals) :
                  Slice(nals[y]) /\ \A m \in (s + 1)..y : nals[m].type # "aud"
          BY <1>1, <4>4 DEF WellFormed
        <5>3. ~(i \in (s + 1)..y)
          BY <5>1, <5>2
        <5>4. y \in s..(i - 1)
          BY <1>1, <4>1, <5>2, <5>3
        <5> QED
          BY <5>2, <5>4 DEF IsVCL, Slice
      <4> QED
        BY <4>2, <4>3, <4>4
    <3> QED
      BY <1>1, <2>3, <3>1, <3>2
  <2>5. nals[i].type = "aud" \/ (IsVCL(i) /\ FirstSlice(i, k))
    BY <2>1, <2>2 DEF FirstSlice
  <2> QED
    BY <2>4, <2>5 DEF SeenToBegin
<1> QED
  BY <1>3, <1>4

\* With k bytes the splitter finds exactly the beginnings it can know of.
LEMMA StartsAreReady ==
    ASSUME WellFormed(nals), NEW k \in Nat, NEW from \in Tops
    PROVE  UnitStart(from, k) = Ready(from, k)
<1>1. from \in 1..Len(nals) /\ from \in Nat \ {0} /\ Len(nals) \in Nat /\ DOMAIN nals = 1..Len(nals)
  BY DEF WellFormed, Tops
<1>a. PICK v \in 0..Len(nals) : \E f :
          /\ Visible(k) = 1..v /\ IsStart(f, 1..v, from, k)
          /\ UnitStart(from, k) = {f[i] : i \in {j \in 1..v : j >= from}}
  BY <1>1, StartSolves
<1>2. PICK f :
          /\ Visible(k) = 1..v /\ IsStart(f, 1..v, from, k)
          /\ UnitStart(from, k) = {f[i] : i \in {j \in 1..v : j >= from}}
  BY <1>a
<1>3. v \in Nat /\ \A i \in 1..v : i \in DOMAIN nals /\ 3 * i - 1 <= k
  BY <1>1, <1>2 DEF Visible
<1> DEFINE Good(i) == /\ f[i] \in Ready(from, k) /\ f[i] <= i
                      /\ \A t \in Ready(from, k) : t <= i => t <= f[i]
           S == {i \in 0..v : i >= from => Good(i)}
<1>4. \A t \in Ready(from, k) : t \in 1..v /\ t >= from
  <2> TAKE t \in Ready(from, k)
  <2>1. t \in DOMAIN nals /\ 3 * t - 1 <= k /\ t >= from
    BY DEF Ready, Tops
  <2>2. t \in Visible(k)
    BY <2>1 DEF Visible
  <2> QED
    BY <1>2, <2>1, <2>2
<1>5. 0 \in S
  BY <1>1, <1>3
<1>6. ASSUME NEW i \in 0..v, i < v, i \in S PROVE i + 1 \in S
  <2>1. i + 1 \in 1..v /\ i + 1 \in 0..v /\ (i + 1) - 1 = i
    BY <1>3, <1>6
  <2>2. f[i + 1] = StartAt(f[i], i + 1, from, k)
    BY <1>2, <2>1 DEF IsStart
  <2>3. CASE i + 1 < from
    BY <1>1, <2>1, <2>3
  <2>4. CASE i + 1 = from
    <3>1. f[i + 1] = from
      BY <1>1, <2>2, <2>4 DEF StartAt
    <3>2. from \in Ready(from, k)
      BY <1>1, <1>3, <2>1, <2>4 DEF Ready
    <3>3. Good(i + 1)
      BY <1>1, <2>4, <3>1, <3>2
    <3> QED
      BY <2>1, <3>3
  <2>5. CASE i + 1 > from
    <3>1. i >= from
      BY <1>1, <2>5
    <3>2. Good(i)
      BY <1>6, <3>1
    <3>3. i + 1 \in DOMAIN nals /\ 3 * (i + 1) - 1 <= k
      BY <1>3, <2>1
    <3>4. SeenToBegin(f[i], i + 1, k) <=> i + 1 \in Ready(from, k)
      BY <2>1, <2>5, <3>2, <3>3, SeenIsReady
    <3>5. ~(i + 1 <= from)
      BY <1>1, <2>5
    <3>6. \A t \in Ready(from, k) : t \in Nat
      BY <1>4
    <3>7. CASE SeenToBegin(f[i], i + 1, k)
      <4>1. f[i + 1] = i + 1
        BY <2>2, <3>5, <3>7 DEF StartAt
      <4>2. Good(i + 1)
        BY <2>1, <3>4, <3>7, <4>1
      <4> QED
        BY <2>1, <4>2
    <3>8. CASE ~SeenToBegin(f[i], i + 1, k)
      <4>1. f[i + 1] = f[i]
        BY <2>2, <3>5, <3>8 DEF StartAt
      <4>2. \A t \in Ready(from, k) : t <= i + 1 => t <= i
        BY <3>4, <3>6, <3>8
      <4>3. f[i] \in Nat /\ f[i] <= i + 1
        BY <3>2, <3>6
      <4>4. Good(i + 1)
        BY <3>2, <4>1, <4>2, <4>3
      <4> QED
        BY <2>1, <4>4
    <3> QED
      BY <3>7, <3>8
  <2> QED
    BY <1>1, <2>1, <2>3, <2>4, <2>5
<1> HIDE DEF S
<1>7. \A i \in 0..v : i \in S
  BY <1>3, <1>5, <1>6, UpTo
<1>8. \A i \in 1..v : i >= from => Good(i)
  BY <1>3, <1>7 DEF S
<1>9. \A t \in Ready(from, k) : f[t] = t
  <2> TAKE t \in Ready(from, k)
  <2>1. t \in 1..v /\ t >= from
    BY <1>4
  <2>2. f[t] \in Ready(from, k) /\ f[t] <= t /\ t <= f[t]
    BY <1>8, <2>1
  <2>3. f[t] \in 1..v
    BY <1>4, <2>2
  <2> QED
    BY <2>1, <2>2, <2>3
<1>10. ASSUME NEW x PROVE x \in UnitStart(from, k) <=> x \in Ready(from, k)
  <2>1. ASSUME x \in UnitStart(from, k) PROVE x \in Ready(from, k)
    <3>1. PICK i \in 1..v : i >= from /\ x = f[i]
      BY <1>2, <2>1
    <3> QED
      BY <1>8, <3>1
  <2>2. ASSUME x \in Ready(from, k) PROVE x \in UnitStart(from, k)
    <3>1. x \in 1..v /\ x >= from /\ f[x] = x
      BY <1>4, <1>9, <2>2
    <3> QED
      BY <1>2, <3>1
  <2> QED
    BY <2>1, <2>2
<1> QED
  BY <1>10, Zenon

-----------------------------------------------------------------------------
(* What lies between the beginnings. *)

\* Two beginnings with none between them.
Adjacent(S, p, q) == p \in S /\ q \in S /\ p < q /\ \A t \in S : t <= p \/ t >= q

LEMMA BetweenAre ==
    ASSUME NEW S, NEW u \in Between(S)
    PROVE  \E p, q : Adjacent(S, p, q) /\ u = <<p, q - 1>>
<1> DEFINE Q == {q \in S \X S : q[1] < q[2] /\ \A t \in S : t <= q[1] \/ t >= q[2]}
<1>1. PICK p \in Q : u = <<p[1], p[2] - 1>>
  BY Zenon DEF Between
<1>2. Adjacent(S, p[1], p[2])
  BY DEF Adjacent
<1> QED
  BY <1>1, <1>2, Zenon

LEMMA BetweenHas ==
    ASSUME NEW S, NEW p, NEW q, Adjacent(S, p, q)
    PROVE  <<p, q - 1>> \in Between(S)
<1> DEFINE Q == {x \in S \X S : x[1] < x[2] /\ \A t \in S : t <= x[1] \/ t >= x[2]}
           pq == <<p, q>>
<1>1. pq \in Q /\ pq[1] = p /\ pq[2] = q
  BY DEF Adjacent
<1> HIDE DEF pq
<1>2. <<pq[1], pq[2] - 1>> \in Between(S)
  BY <1>1, Zenon DEF Between
<1> QED
  BY <1>1, <1>2

\* The units up to a beginning and those from it on are all the units.
LEMMA BetweenSplit ==
    ASSUME NEW S \in SUBSET Int, NEW b \in S
    PROVE  Between(S) = Between({t \in S : t <= b}) \cup Between({t \in S : t >= b})
<1> DEFINE L == {t \in S : t <= b}
           H == {t \in S : t >= b}
<1>1. ASSUME NEW u \in Between(S) PROVE u \in Between(L) \cup Between(H)
  <2>1. PICK p, q : Adjacent(S, p, q) /\ u = <<p, q - 1>>
    BY BetweenAre, Zenon
  <2>2. p \in Int /\ q \in Int /\ b \in Int /\ (b <= p \/ b >= q)
    BY <2>1 DEF Adjacent
  <2>3. CASE b <= p
    <3>1. Adjacent(H, p, q)
      BY <2>1, <2>2, <2>3 DEF Adjacent
    <3> HIDE DEF H, L
    <3> QED
      BY <2>1, <3>1, BetweenHas
  <2>4. CASE b >= q
    <3>1. Adjacent(L, p, q)
      BY <2>1, <2>2, <2>4 DEF Adjacent
    <3> HIDE DEF H, L
    <3> QED
      BY <2>1, <3>1, BetweenHas
  <2> QED
    BY <2>2, <2>3, <2>4
<1>2. ASSUME NEW u \in Between(L) PROVE u \in Between(S)
  <2>1. PICK p, q : Adjacent(L, p, q) /\ u = <<p, q - 1>>
    <3> HIDE DEF L
    <3> QED
      BY BetweenAre, Zenon
  <2>2. Adjacent(S, p, q)
    BY <2>1 DEF Adjacent
  <2> QED
    BY <2>1, <2>2, BetweenHas
<1>3. ASSUME NEW u \in Between(H) PROVE u \in Between(S)
  <2>1. PICK p, q : Adjacent(H, p, q) /\ u = <<p, q - 1>>
    <3> HIDE DEF H
    <3> QED
      BY BetweenAre, Zenon
  <2>2. Adjacent(S, p, q)
    BY <2>1 DEF Adjacent
  <2> QED
    BY <2>1, <2>2, BetweenHas
<1> HIDE DEF L, H
<1>4. Between(S) = Between(L) \cup Between(H)
  BY <1>1, <1>2, <1>3
<1> QED
  BY <1>4 DEF L, H

LEMMA BetweenOne ==
    ASSUME NEW b \in Int
    PROVE  Between({b}) = {}
<1>1. ASSUME NEW u \in Between({b}) PROVE FALSE
  <2>1. PICK p, q : Adjacent({b}, p, q)
    BY BetweenAre, Zenon
  <2> QED
    BY <2>1 DEF Adjacent
<1> QED
  BY <1>1

LEMMA BetweenTwo ==
    ASSUME NEW b \in Int, NEW e \in Int, b < e
    PROVE  Between({b, e}) = {<<b, e - 1>>}
<1>1. Adjacent({b, e}, b, e)
  BY DEF Adjacent
<1>2. <<b, e - 1>> \in Between({b, e})
  BY <1>1, BetweenHas
<1>3. ASSUME NEW u \in Between({b, e}) PROVE u = <<b, e - 1>>
  <2>1. PICK p, q : Adjacent({b, e}, p, q) /\ u = <<p, q - 1>>
    BY BetweenAre, Zenon
  <2>2. p = b /\ q = e
    BY <2>1 DEF Adjacent
  <2> QED
    BY <2>1, <2>2
<1> QED
  BY <1>2, <1>3

-----------------------------------------------------------------------------
(* The splitter. *)

End == Len(nals) + 1
TopsUpTo(b) == {t \in Tops : t <= b}

\* Inductive: the buffer begins where a unit of the whole stream does, no beginning
\* whose slice has been read lies beyond it, and what came before has been returned.
SplitInv ==
    /\ SplitTypeOK /\ WellFormed(nals) /\ nals # <<>>
    /\ bufStart \in Tops
    /\ \A t \in Tops : 3 * t <= got => t <= bufStart
    /\ ~flushed => units = Between(TopsUpTo(bufStart))
    /\ flushed /\ got = 3 * Len(nals) => units = Whole

LEMMA Facts ==
    ASSUME WellFormed(nals), nals # <<>>
    PROVE  /\ Len(nals) \in Nat /\ Len(nals) >= 1 /\ DOMAIN nals = 1..Len(nals)
           /\ 1 \in Tops /\ Tops \in SUBSET (1..Len(nals))
           /\ \A t \in Tops : t \in 1..Len(nals) /\ t \in Int
           /\ Whole = Between(Tops \cup {End})
<1>1. nals \in Seq(NalUnit) /\ Len(nals) \in Nat /\ Len(nals) >= 1 /\ DOMAIN nals = 1..Len(nals)
  BY DEF WellFormed
<1>2. 1 \in Tops /\ Tops \in SUBSET (1..Len(nals))
  BY <1>1 DEF Tops
<1>3. \A t \in Tops : t \in 1..Len(nals) /\ t \in Int
  BY <1>1 DEF Tops
<1>4. UnitStart(1, 3 * Len(nals)) = Ready(1, 3 * Len(nals))
  BY <1>1, <1>2, StartsAreReady
<1>5. Ready(1, 3 * Len(nals)) = Tops
  BY <1>1, <1>3 DEF Ready
<1>6. Whole = Between(Tops \cup {End})
  BY <1>4, <1>5 DEF Whole, End
<1> QED
  BY <1>1, <1>2, <1>3, <1>6

\* What precedes a beginning are units of the whole stream.
LEMMA BeforeIsWhole ==
    ASSUME WellFormed(nals), nals # <<>>, NEW b \in Tops
    PROVE  Whole = Between(TopsUpTo(b)) \cup Between({t \in Tops \cup {End} : t >= b})
<1>1. /\ Len(nals) \in Nat /\ \A t \in Tops : t \in 1..Len(nals) /\ t \in Int
      /\ Whole = Between(Tops \cup {End})
  BY Facts
<1> DEFINE S == Tops \cup {End}
<1>2. S \in SUBSET Int /\ b \in S
  <2>1. End \in Int
    BY <1>1 DEF End
  <2>2. \A t \in S : t \in Int
    BY <1>1, <2>1
  <2> QED
    BY <2>2
<1>3. {t \in S : t <= b} = TopsUpTo(b)
  BY <1>1 DEF End, TopsUpTo
<1> HIDE DEF S
<1>4. Between(S) = Between({t \in S : t <= b}) \cup Between({t \in S : t >= b})
  BY <1>2, BetweenSplit
<1> QED
  BY <1>1, <1>3, <1>4 DEF S

LEMMA BeforeTyped ==
    ASSUME WellFormed(nals), nals # <<>>, NEW b \in Tops
    PROVE  Between(TopsUpTo(b)) \subseteq (DOMAIN nals) \X (DOMAIN nals)
<1>1. Len(nals) \in Nat /\ Tops \in SUBSET (1..Len(nals)) /\ DOMAIN nals = 1..Len(nals)
  BY Facts
<1>2. ASSUME NEW u \in Between(TopsUpTo(b)) PROVE u \in (DOMAIN nals) \X (DOMAIN nals)
  <2>1. PICK p, q : Adjacent(TopsUpTo(b), p, q) /\ u = <<p, q - 1>>
    BY BetweenAre, Zenon
  <2>2. p \in 1..Len(nals) /\ q \in 1..Len(nals) /\ p < q
    BY <1>1, <2>1 DEF Adjacent, TopsUpTo
  <2>3. q - 1 \in 1..Len(nals)
    BY <1>1, <2>2
  <2> QED
    BY <1>1, <2>1, <2>2, <2>3
<1> QED
  BY <1>2

LEMMA SplitInitInv ==
    ASSUME SplitInit
    PROVE  SplitInv
<1>1. WellFormed(nals) /\ nals # <<>>
  BY SplitInitWellFormed
<1>2. got = 0 /\ bufStart = 1 /\ units = {} /\ flushed = FALSE
  BY DEF SplitInit
<1>3. /\ Len(nals) \in Nat /\ Len(nals) >= 1 /\ DOMAIN nals = 1..Len(nals)
      /\ 1 \in Tops /\ \A t \in Tops : t \in 1..Len(nals)
  BY <1>1, Facts
<1>4. SplitTypeOK
  <2>1. got \in 0..(3 * Len(nals)) /\ bufStart \in DOMAIN nals
    BY <1>2, <1>3
  <2> QED
    BY <1>2, <2>1 DEF SplitTypeOK
<1>5. TopsUpTo(1) = {1}
  <2>1. \A t \in Tops : t <= 1 <=> t = 1
    BY <1>3
  <2> QED
    BY <1>3, <2>1 DEF TopsUpTo
<1>6. Between(TopsUpTo(1)) = {}
  BY <1>5, BetweenOne
<1>7. \A t \in Tops : ~(3 * t <= 0)
  BY <1>3
<1> QED
  BY <1>1, <1>2, <1>3, <1>4, <1>6, <1>7 DEF SplitInv

\* A chunk: the buffer moves on to the last beginning the splitter can know of.
LEMMA PushInv ==
    ASSUME SplitInv, NEW k \in 1..(3 * Len(nals)), Push(k)
    PROVE  SplitInv'
<1>1. /\ WellFormed(nals) /\ nals # <<>> /\ bufStart \in Tops /\ SplitTypeOK
      /\ ~flushed /\ units = Between(TopsUpTo(bufStart))
  BY DEF SplitInv, Push
<1>2. /\ Len(nals) \in Nat /\ Len(nals) >= 1 /\ DOMAIN nals = 1..Len(nals)
      /\ Tops \in SUBSET (1..Len(nals))
  BY <1>1, Facts
<1>3. k \in Nat /\ bufStart \in 1..Len(nals) /\ k \in 0..(3 * Len(nals))
  BY <1>1, <1>2
<1> DEFINE R == Ready(bufStart, k)
<1>4. UnitStart(bufStart, k) = R
  BY <1>1, <1>3, StartsAreReady
<1>5. /\ nals' = nals /\ flushed' = flushed /\ got' = k
      /\ units' = units \cup Between(R)
      /\ bufStart' = IF R = {} THEN bufStart ELSE CHOOSE s \in R : \A t \in R : t <= s
  BY <1>4 DEF Push
<1>6. \A t \in R : t \in Tops /\ t \in 1..Len(nals) /\ t >= bufStart /\ 3 * t - 1 <= k
  BY <1>2 DEF Ready
<1>7. \A t \in Tops : t > bufStart /\ 3 * t <= k => t \in R
  BY <1>2, <1>3 DEF Ready
<1>8. bufStart \in R <=> 3 * bufStart - 1 <= k
  BY <1>1, <1>2, <1>3 DEF Ready
<1> HIDE DEF R
<1>9. /\ bufStart' \in Tops /\ bufStart' >= bufStart
      /\ \A t \in Tops : 3 * t <= k => t <= bufStart'
      /\ units' = Between(TopsUpTo(bufStart'))
  <2>1. CASE R = {}
    <3>1. bufStart' = bufStart
      BY <1>5, <2>1
    <3>2. Between(R) = {}
      <4>1. ASSUME NEW u \in Between(R) PROVE FALSE
        <5>1. PICK p, q : Adjacent(R, p, q)
          BY BetweenAre, Zenon
        <5> QED
          BY <2>1, <5>1 DEF Adjacent
      <4> QED
        BY <4>1
    <3>3. ASSUME NEW t \in Tops, 3 * t <= k PROVE t <= bufStart
      BY <1>2, <1>3, <1>7, <2>1, <3>3
    <3>4. units' = units
      BY <1>5, <3>2
    <3>5. bufStart' >= bufStart /\ \A t \in Tops : 3 * t <= k => t <= bufStart'
      BY <1>3, <3>1, <3>3
    <3> QED
      BY <1>1, <3>1, <3>4, <3>5
  <2>2. CASE R # {}
    <3> DEFINE m == CHOOSE s \in R : \A t \in R : t <= s
    <3>1. bufStart' = m
      BY <1>5, <2>2
    <3>2. \E s \in R : \A t \in R : t <= s
      <4>1. R \in SUBSET (0..Len(nals))
        BY <1>2, <1>6
      <4> QED
        BY <1>2, <2>2, <4>1, GreatestElement
    <3>3. m \in R /\ \A t \in R : t <= m
      BY <3>2, Zenon
    <3> HIDE DEF m
    <3>4. m \in Tops /\ m \in 1..Len(nals) /\ m >= bufStart /\ 3 * m - 1 <= k
      BY <1>6, <3>3
    <3>5. bufStart \in R
      <4>1. 3 * bufStart - 1 <= k
        BY <1>2, <1>3, <3>4
      <4> QED
        BY <1>8, <4>1
    <3>6. \A t \in Tops : 3 * t <= k => t <= m
      <4> TAKE t \in Tops
      <4>1. t \in 1..Len(nals)
        BY <1>2
      <4>2. CASE t > bufStart
        BY <1>7, <3>3, <4>2
      <4>3. CASE t <= bufStart
        BY <1>3, <3>4, <4>1, <4>3
      <4> QED
        BY <1>3, <4>1, <4>2, <4>3
    <3>7. {t \in TopsUpTo(m) : t >= bufStart} = R
      <4>1. ASSUME NEW t \in Tops, t <= m, t >= bufStart PROVE t \in R
        <5>1. t \in 1..Len(nals)
          BY <1>2
        <5>2. CASE t = m \/ t = bufStart
          BY <3>3, <3>5, <5>2
        <5>3. CASE t # m /\ t # bufStart
          <6>1. t <= m - 1 /\ t > bufStart
            BY <1>3, <3>4, <4>1, <5>1, <5>3
          <6>2. 3 * t <= k
            BY <1>3, <3>4, <5>1, <6>1
          <6> QED
            BY <1>7, <6>1, <6>2
        <5> QED
          BY <5>2, <5>3
      <4>2. ASSUME NEW t \in R PROVE t \in Tops /\ t <= m /\ t >= bufStart
        BY <1>6, <3>3
      <4> QED
        BY <4>1, <4>2 DEF TopsUpTo
    <3>8. {t \in TopsUpTo(m) : t <= bufStart} = TopsUpTo(bufStart)
      <4>1. ASSUME NEW t \in Tops, t <= bufStart PROVE t <= m
        BY <1>2, <1>3, <3>4, <4>1
      <4> QED
        BY <4>1 DEF TopsUpTo
    <3>9. TopsUpTo(m) \in SUBSET Int /\ bufStart \in TopsUpTo(m)
      <4>1. bufStart \in TopsUpTo(m)
        BY <1>1, <3>4 DEF TopsUpTo
      <4>2. \A t \in TopsUpTo(m) : t \in Int
        BY <1>2 DEF TopsUpTo
      <4> QED
        BY <4>1, <4>2
    <3> DEFINE B == TopsUpTo(m)
    <3>10. Between(B) = Between({t \in B : t <= bufStart})
                            \cup Between({t \in B : t >= bufStart})
      <4> HIDE DEF B
      <4>1. B \in SUBSET Int /\ bufStart \in B
        BY <3>9 DEF B
      <4> QED
        BY <4>1, BetweenSplit
    <3>11. Between(TopsUpTo(m)) = Between(TopsUpTo(bufStart)) \cup Between(R)
      BY <3>7, <3>8, <3>10
    <3> QED
      BY <1>1, <1>5, <3>1, <3>4, <3>6, <3>11
  <2> QED
    BY <2>1, <2>2
<1>10. Tops' = Tops /\ \A b : TopsUpTo(b)' = TopsUpTo(b)
  BY <1>5 DEF Tops, TopsUpTo, Boundary, IsVCL
<1>12. units' \subseteq (DOMAIN nals) \X (DOMAIN nals)
  BY <1>1, <1>9, BeforeTyped
<1>13. SplitTypeOK'
  BY <1>1, <1>2, <1>3, <1>5, <1>9, <1>12 DEF SplitTypeOK
<1> QED
  BY <1>1, <1>5, <1>9, <1>10, <1>13 DEF SplitInv, WellFormed

\* The end: the rest of the buffer is the last unit.
LEMMA FlushInv ==
    ASSUME SplitInv, Flush
    PROVE  SplitInv'
<1>1. /\ WellFormed(nals) /\ nals # <<>> /\ bufStart \in Tops /\ SplitTypeOK
      /\ ~flushed /\ units = Between(TopsUpTo(bufStart))
      /\ \A t \in Tops : 3 * t <= got => t <= bufStart
  BY DEF SplitInv, Flush
<1>2. /\ Len(nals) \in Nat /\ Len(nals) >= 1 /\ DOMAIN nals = 1..Len(nals)
      /\ \A t \in Tops : t \in 1..Len(nals) /\ t \in Int
  BY <1>1, Facts
<1> DEFINE rest == {<<bufStart, e>> : e \in {i \in Visible(got) : i >= bufStart
                                                      /\ i + 1 \notin Visible(got)}}
<1>3. /\ nals' = nals /\ got' = got /\ bufStart' = bufStart /\ flushed' = TRUE
      /\ units' = units \cup rest
  BY DEF Flush
<1>4. rest \subseteq (DOMAIN nals) \X (DOMAIN nals)
  BY <1>1 DEF Visible, SplitTypeOK
<1>5. ASSUME got = 3 * Len(nals) PROVE units \cup rest = Whole
  <2>1. Visible(got) = 1..Len(nals)
    <3>1. \A i \in 1..Len(nals) : 3 * i - 1 <= 3 * Len(nals)
      BY <1>2
    <3> QED
      BY <1>2, <1>5, <3>1 DEF Visible
  <2>2. bufStart \in 1..Len(nals)
    BY <1>1, <1>2
  <2>3. \A i \in Visible(got) : i + 1 \notin Visible(got) <=> i = Len(nals)
    BY <1>2, <2>1
  <2>4. Len(nals) \in Visible(got) /\ Len(nals) >= bufStart
    BY <1>2, <2>1, <2>2
  <2>5. rest = {<<bufStart, Len(nals)>>}
    BY <2>3, <2>4
  <2>6. {t \in Tops \cup {End} : t >= bufStart} = {bufStart, End}
    <3>1. ASSUME NEW t \in Tops, t >= bufStart PROVE t = bufStart
      <4>1. 3 * t <= got
        BY <1>2, <1>5
      <4> QED
        BY <1>1, <1>2, <2>2, <3>1, <4>1
    <3>2. End >= bufStart
      BY <1>2, <2>2 DEF End
    <3>3. bufStart >= bufStart
      BY <2>2
    <3> QED
      BY <1>1, <3>1, <3>2, <3>3
  <2>7. Between({bufStart, End}) = {<<bufStart, Len(nals)>>}
    <3>1. bufStart \in Int /\ End \in Int /\ bufStart < End /\ End - 1 = Len(nals)
      BY <1>2, <2>2 DEF End
    <3> HIDE DEF End
    <3>2. Between({bufStart, End}) = {<<bufStart, End - 1>>}
      BY <3>1, BetweenTwo
    <3> QED
      BY <3>1, <3>2
  <2>8. Whole = Between(TopsUpTo(bufStart)) \cup Between({t \in Tops \cup {End} : t >= bufStart})
    BY <1>1, BeforeIsWhole
  <2> HIDE DEF rest
  <2> QED
    BY <1>1, <2>5, <2>6, <2>7, <2>8
<1> HIDE DEF rest
<1>6. Tops' = Tops /\ Whole' = Whole
  BY <1>3 DEF Tops, Whole, UnitStart, Visible, FirstSlice, Boundary, IsVCL
<1>7. SplitTypeOK'
  BY <1>1, <1>3, <1>4 DEF SplitTypeOK
<1>8. WellFormed(nals)' /\ nals' # <<>>
  BY <1>1, <1>3 DEF WellFormed
<1> QED
  BY <1>1, <1>3, <1>5, <1>6, <1>7, <1>8 DEF SplitInv

LEMMA SplitStutterInv ==
    ASSUME SplitInv, UNCHANGED splitVars
    PROVE  SplitInv'
<1>1. /\ nals' = nals /\ got' = got /\ bufStart' = bufStart /\ flushed' = flushed
      /\ units' = units
  BY DEF splitVars
<1>2. Tops' = Tops /\ Whole' = Whole
  BY <1>1 DEF Tops, Whole, UnitStart, Visible, FirstSlice, Boundary, IsVCL
<1>3. SplitTypeOK'
  BY <1>1 DEF SplitInv, SplitTypeOK
<1>4. WellFormed(nals)' /\ nals' # <<>>
  BY <1>1 DEF SplitInv, WellFormed
<1>5. TopsUpTo(bufStart)' = TopsUpTo(bufStart)
  BY <1>1, <1>2 DEF TopsUpTo
<1> QED
  BY <1>1, <1>2, <1>3, <1>4, <1>5 DEF SplitInv

LEMMA SplitStepInv ==
    ASSUME SplitInv, [SplitNext]_splitVars
    PROVE  SplitInv'
<1>1. CASE Flush
  BY <1>1, FlushInv
<1>2. CASE \E k \in 1..(3 * Len(nals)) : Push(k)
  BY <1>2, PushInv
<1>3. CASE UNCHANGED splitVars
  BY <1>3, SplitStutterInv
<1> QED
  BY <1>1, <1>2, <1>3 DEF SplitNext

\* The splitter's variables keep their types, for streams of any length.
THEOREM SplitTypes == SplitSpec => []SplitTypeOK
<1>1. SplitInit => SplitInv
  BY SplitInitInv
<1>2. SplitInv /\ [SplitNext]_splitVars => SplitInv'
  BY SplitStepInv
<1>3. SplitInv => SplitTypeOK
  BY DEF SplitInv
<1> QED
  BY <1>1, <1>2, <1>3, PTL DEF SplitSpec

\* However ffmpeg's output is cut into chunks, the splitter returns the access units
\* it returns for the whole stream in one chunk, for streams of any number of pictures.
THEOREM ChunkingCorrect == SplitSpec => []ChunkingInvisible
<1>1. SplitInit => SplitInv
  BY SplitInitInv
<1>2. SplitInv /\ [SplitNext]_splitVars => SplitInv'
  BY SplitStepInv
<1>3. SplitInv => ChunkingInvisible
  <2> SUFFICES ASSUME SplitInv PROVE ChunkingInvisible
    OBVIOUS
  <2>1. Between(TopsUpTo(bufStart)) \subseteq Whole
    BY BeforeIsWhole DEF SplitInv
  <2> QED
    BY <2>1 DEF SplitInv, ChunkingInvisible
<1> QED
  BY <1>1, <1>2, <1>3, PTL DEF SplitSpec

=============================================================================
