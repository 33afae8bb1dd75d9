-------------------------- MODULE FromVisitorProofs -------------------------
(***************************************************************************)
(* Proofs about FromVisitor and what it composes: FastArray, DataFrame,    *)
(* EncodedFrame and FileReader.  For any size of the chunks and of the     *)
(* buffer, any schemas and any texts, a frame is a rectangular table       *)
(* through the growth of its arrays, whether a client fills it or          *)
(* fromVisitor does; the reader of a regular file stays within its         *)
(* buffer; and the rows that fromVisitor stores are the words of the file. *)
(*                                                                         *)
(* The parts: folds; FastArray as a sequence; a frame as its types and the *)
(* sequences of its cells (FrameOf); its rows (Grid); one step of a client *)
(* (ClientStep); the reader; the composition; the encoding of frames; the  *)
(* words of a text and how much of it the reader has read; and fromVisitor *)
(* (OrderInv).                                                             *)
(***************************************************************************)
EXTENDS FromVisitor, SequenceFacts
-----------------------------------------------------------------------------
(***************************************************************************)
(* Folds.  Each fold of the model goes from one element to the next; o     *)
(* tells which fold it is, and over what.                                  *)
(***************************************************************************)
Round(o, x, m) ==
  CASE o.op = "push" -> push_back(x, o.seq[m])
    [] o.op = "field" ->
         WithColumn(x, o.ks[m] - 1, push_back(Col(x, o.ks[m] - 1).arr_, o.seq[o.ks[m]]))
    [] o.op = "cell" ->
         IF o.type # "S" THEN [cells |-> Append(x.cells, o.seq[x.current]),
                               current |-> x.current + 1]
         ELSE [cells   |-> Append(x.cells, ReadString(o.seq, x.current).cell),
               current |-> ReadString(o.seq, x.current).current]
    [] o.op = "column" ->
         LET c == DecodeColumn(o.seq, x.current, o.seq[2 + o.ks[m]], o.seq[2])
         IN  [df      |-> add_column(x.df, Column(o.seq[2 + o.ks[m]], c.cells)),
              current |-> c.current]

\* f is what the fold has made of the sets of positions up to n.
FoldTo(f, o, b, n) ==
  f = [p \in SUBSET (1 .. n) |->
         IF p = {} THEN b ELSE Round(o, f[p \ {Max(p)}], Max(p))]

LEMMA FoldExists ==
  ASSUME NEW o, NEW b
  PROVE  \A m \in Nat : \E f : FoldTo(f, o, b, m)
<1> DEFINE Q == {m \in Nat : \E f : FoldTo(f, o, b, m)}
<1>1. 0 \in Q
  <2>1. SUBSET (1 .. 0) = {{}}
    OBVIOUS
  <2> DEFINE f == [p \in {{}} |-> b]
  <2>2. f = [p \in {{}} |-> IF p = {} THEN b ELSE Round(o, f[p \ {Max(p)}], Max(p))]
    OBVIOUS
  <2>3. FoldTo(f, o, b, 0)
    BY <2>1, <2>2, Zenon DEF FoldTo
  <2> QED
    BY <2>3
<1>2. ASSUME NEW m \in Nat, m \in Q PROVE m + 1 \in Q
  <2>1. PICK f : FoldTo(f, o, b, m)
    BY <1>2
  <2> DEFINE g == [p \in SUBSET (1 .. m + 1) |->
                     IF m + 1 \in p THEN Round(o, f[p \ {m + 1}], m + 1) ELSE f[p]]
  <2>2. ASSUME NEW p \in SUBSET (1 .. m + 1), p # {}
        PROVE  /\ Max(p) \in p /\ \A y \in p : Max(p) >= y
    <3>1. p \subseteq Nat /\ m + 1 \in Nat /\ \A y \in p : y <= m + 1
      OBVIOUS
    <3> HIDE DEF g
    <3> QED
      BY <2>2, <3>1, LargestNumber
  <2>3. ASSUME NEW p \in SUBSET (1 .. m + 1)
        PROVE  g[p] = IF p = {} THEN b ELSE Round(o, g[p \ {Max(p)}], Max(p))
    <3>1. CASE m + 1 \in p
      <4>1. Max(p) = m + 1
        <5>1. Max(p) \in 1 .. m + 1 /\ Max(p) >= m + 1
          BY <3>1, <2>2
        <5> QED
          BY <5>1
      <4>2. p \ {m + 1} \in SUBSET (1 .. m) /\ p \ {m + 1} \in SUBSET (1 .. m + 1)
        OBVIOUS
      <4>3. g[p] = Round(o, f[p \ {m + 1}], m + 1) /\ g[p \ {m + 1}] = f[p \ {m + 1}]
        BY <3>1, <4>2
      <4> HIDE DEF g
      <4> QED
        BY <3>1, <4>1, <4>3
    <3>2. CASE m + 1 \notin p
      <4>1. p \in SUBSET (1 .. m)
        BY <3>2
      <4>2. g[p] = f[p] /\ g[p \ {Max(p)}] = f[p \ {Max(p)}]
        BY <3>2
      <4>3. f[p] = IF p = {} THEN b ELSE Round(o, f[p \ {Max(p)}], Max(p))
        BY <4>1, <2>1, Zenon DEF FoldTo
      <4> HIDE DEF g
      <4> QED
        BY <4>2, <4>3
    <3> QED
      BY <3>1, <3>2
  <2>4. FoldTo(g, o, b, m + 1)
    <3>1. g = [p \in SUBSET (1 .. m + 1) |-> g[p]]
      OBVIOUS
    <3> HIDE DEF g
    <3> QED
      BY <3>1, <2>3 DEF FoldTo
  <2> HIDE DEF g
  <2> QED
    BY <2>4
<1> HIDE DEF Q
<1>3. Nat \subseteq Q
  BY <1>1, <1>2, AllNumbers
<1> QED
  BY <1>3 DEF Q

\* What the fold has made of the first m elements.
LEMMA FoldSteps ==
  ASSUME NEW n \in Nat, NEW o, NEW b, NEW f, FoldTo(f, o, b, n)
  PROVE  \E g : /\ g[0] = b /\ g[n] = f[1 .. n]
                /\ \A m \in 1 .. n : g[m] = Round(o, g[m - 1], m)
<1> DEFINE g == [m \in 0 .. n |-> f[1 .. m]]
<1>1. g[0] = b
  <2>1. g[0] = f[1 .. 0] /\ 1 .. 0 = {}
    OBVIOUS
  <2>2. f[{}] = b
    BY Zenon DEF FoldTo
  <2> QED
    BY <2>1, <2>2
<1>2. ASSUME NEW m \in 1 .. n PROVE g[m] = Round(o, g[m - 1], m)
  <2>1. 1 .. m \in SUBSET (1 .. n) /\ 1 .. m # {}
    OBVIOUS
  <2>2. Max(1 .. m) = m
    <3>1. 1 .. m \subseteq Nat /\ m \in Nat /\ m \in 1 .. m /\ \A y \in 1 .. m : y <= m
      OBVIOUS
    <3>2. Max(1 .. m) \in 1 .. m /\ \A y \in 1 .. m : Max(1 .. m) >= y
      BY <3>1, <2>1, LargestNumber
    <3> QED
      BY <3>1, <3>2
  <2>3. (1 .. m) \ {m} = 1 .. m - 1
    OBVIOUS
  <2>4. f[1 .. m] = Round(o, f[(1 .. m) \ {Max(1 .. m)}], Max(1 .. m))
    BY <2>1, Zenon DEF FoldTo
  <2>5. g[m] = f[1 .. m] /\ g[m - 1] = f[1 .. m - 1]
    OBVIOUS
  <2> HIDE DEF g
  <2> QED
    BY <2>2, <2>3, <2>4, <2>5
<1>3. g[n] = f[1 .. n]
  OBVIOUS
<1> HIDE DEF g
<1> QED
  BY <1>1, <1>2, <1>3

\* The arrays on the way to ArrayOf(e).
LEMMA ArraySteps ==
  ASSUME NEW e, IsSeq(e)
  PROVE  \E g : /\ g[0] = EmptyArray /\ g[Len(e)] = ArrayOf(e)
                /\ \A m \in 1 .. Len(e) : g[m] = push_back(g[m - 1], e[m])
<1> DEFINE o == [op |-> "push", seq |-> e]
           f == CHOOSE h : h = [p \in SUBSET (1 .. Len(e)) |->
                  IF p = {} THEN EmptyArray ELSE push_back(h[p \ {Max(p)}], e[Max(p)])]
<1>1. DOMAIN e = 1 .. Len(e) /\ Len(e) \in Nat
  BY DEF IsSeq
<1>2. \A x, m : Round(o, x, m) = push_back(x, e[m])
  BY DEF Round
<1> HIDE DEF o
<1>3. f = [p \in SUBSET (1 .. Len(e)) |->
             IF p = {} THEN EmptyArray ELSE push_back(f[p \ {Max(p)}], e[Max(p)])]
  <2>1. PICK h : FoldTo(h, o, EmptyArray, Len(e))
    BY <1>1, FoldExists
  <2>2. h = [p \in SUBSET (1 .. Len(e)) |->
               IF p = {} THEN EmptyArray ELSE push_back(h[p \ {Max(p)}], e[Max(p)])]
    BY <2>1, <1>2 DEF FoldTo
  <2> QED
    BY <2>2, Zenon
<1>4. ArrayOf(e) = f[1 .. Len(e)]
  <2>1. ArrayOf(e) =
          (CHOOSE h : h = [p \in SUBSET (DOMAIN e) |->
             IF p = {} THEN EmptyArray ELSE push_back(h[p \ {Max(p)}], e[Max(p)])])[DOMAIN e]
    BY DEF ArrayOf, FoldLeft, MapThenFoldSet
  <2> QED
    BY <2>1, <1>1, Zenon
<1> HIDE DEF f
<1>5. FoldTo(f, o, EmptyArray, Len(e))
  BY <1>2, <1>3 DEF FoldTo
<1>6. PICK g : /\ g[0] = EmptyArray /\ g[Len(e)] = f[1 .. Len(e)]
               /\ \A m \in 1 .. Len(e) : g[m] = Round(o, g[m - 1], m)
  BY <1>1, <1>5, FoldSteps
<1> QED
  BY <1>2, <1>4, <1>6

\* The array of nothing, and of one element more.
LEMMA ArrayOfNone == ArrayOf(<<>>) = EmptyArray
  BY NoElements, ArraySteps

LEMMA ArrayOneMore ==
  ASSUME NEW e, IsSeq(e), NEW t
  PROVE  ArrayOf(Append(e, t)) = push_back(ArrayOf(e), t)
<1> DEFINE more == Append(e, t)
<1>1. /\ IsSeq(more) /\ Len(more) = Len(e) + 1 /\ Len(e) \in Nat
      /\ more[Len(e) + 1] = t /\ \A m \in 1 .. Len(e) : more[m] = e[m]
  BY AppendIs DEF IsSeq
<1> HIDE DEF more
<1>2. PICK g : /\ g[0] = EmptyArray /\ g[Len(e)] = ArrayOf(e)
               /\ \A m \in 1 .. Len(e) : g[m] = push_back(g[m - 1], e[m])
  BY ArraySteps
<1>3. PICK h : /\ h[0] = EmptyArray /\ h[Len(more)] = ArrayOf(more)
               /\ \A m \in 1 .. Len(more) : h[m] = push_back(h[m - 1], more[m])
  BY <1>1, ArraySteps
<1> DEFINE Q == {m \in Nat : m <= Len(e) => g[m] = h[m]}
<1>4. 0 \in Q
  BY <1>2, <1>3
<1>5. ASSUME NEW m \in Nat, m \in Q PROVE m + 1 \in Q
  <2>1. SUFFICES ASSUME m + 1 <= Len(e) PROVE g[m + 1] = h[m + 1]
    OBVIOUS
  <2>2. /\ m + 1 \in 1 .. Len(e) /\ m + 1 \in 1 .. Len(more) /\ (m + 1) - 1 = m
        /\ g[m] = h[m]
    BY <2>1, <1>1, <1>5
  <2> QED
    BY <2>2, <1>1, <1>2, <1>3
<1> HIDE DEF Q
<1>6. Nat \subseteq Q
  BY <1>4, <1>5, AllNumbers
<1>7. g[Len(e)] = h[Len(e)]
  BY <1>1, <1>6 DEF Q
<1>8. h[Len(more)] = push_back(h[Len(more) - 1], more[Len(more)])
  BY <1>1, <1>3
<1>9. Len(more) - 1 = Len(e) /\ more[Len(more)] = t
  BY <1>1
<1>10. ArrayOf(more) = push_back(ArrayOf(e), t)
  BY <1>2, <1>3, <1>7, <1>8, <1>9
<1> QED
  BY <1>10 DEF more
-----------------------------------------------------------------------------
(***************************************************************************)
(* Arrays in chunks.                                                       *)
(***************************************************************************)
ChunkCount(n) == (n + ArrSize - 1) \div ArrSize

LEMMA Counts ==
  ASSUME NEW n \in Nat
  PROVE  /\ ChunkCount(n) \in Nat /\ ChunkCount(n) * ArrSize \in Int
         /\ n <= ChunkCount(n) * ArrSize /\ ChunkCount(n) * ArrSize < n + ArrSize
<1> DEFINE x == n + ArrSize - 1
           q == x \div ArrSize
<1>1. ArrSize \in Nat \ {0} /\ x \in Nat
  BY FastArrayAssumption
<1> HIDE DEF x
<1>2. q \in Nat /\ q * ArrSize <= x /\ x < q * ArrSize + ArrSize
  BY <1>1, Division
<1> HIDE DEF q
<1>3. q * ArrSize \in Int
  BY <1>1, <1>2, Products
<1>4. n <= q * ArrSize /\ q * ArrSize < n + ArrSize
  BY <1>1, <1>2, <1>3 DEF x
<1> QED
  BY <1>2, <1>3, <1>4 DEF q, x, ChunkCount

LEMMA CountOf ==
  ASSUME NEW n \in Nat, NEW c \in Nat, n <= c * ArrSize, c * ArrSize < n + ArrSize
  PROVE  ChunkCount(n) = c
<1>1. /\ ArrSize \in Nat \ {0} /\ n + ArrSize - 1 \in Nat
      /\ ChunkCount(n) \in Int /\ c \in Int /\ c * ArrSize \in Int
  BY FastArrayAssumption, Counts, Products
<1>2. /\ ChunkCount(n) * ArrSize <= n + ArrSize - 1
      /\ n + ArrSize - 1 < ChunkCount(n) * ArrSize + ArrSize
  BY <1>1, Counts
<1>3. c * ArrSize <= n + ArrSize - 1 /\ n + ArrSize - 1 < c * ArrSize + ArrSize
  BY <1>1
<1> QED
  BY <1>1, <1>2, <1>3, OneQuotient

\* There is a chunk for one element more, or it takes another.
LEMMA CountOneMore ==
  ASSUME NEW n \in Nat
  PROVE  ChunkCount(n + 1) = IF n + 1 > ChunkCount(n) * ArrSize
                             THEN ChunkCount(n) + 1 ELSE ChunkCount(n)
<1>1. /\ ArrSize \in Nat \ {0} /\ n + 1 \in Nat
      /\ ChunkCount(n) \in Nat /\ ChunkCount(n) * ArrSize \in Int
      /\ n <= ChunkCount(n) * ArrSize /\ ChunkCount(n) * ArrSize < n + ArrSize
      /\ (ChunkCount(n) + 1) * ArrSize = ChunkCount(n) * ArrSize + ArrSize
  BY FastArrayAssumption, Counts, Products
<1>2. CASE n + 1 > ChunkCount(n) * ArrSize
  <2>1. /\ ChunkCount(n) + 1 \in Nat
        /\ n + 1 <= (ChunkCount(n) + 1) * ArrSize
        /\ (ChunkCount(n) + 1) * ArrSize < (n + 1) + ArrSize
    BY <1>1, <1>2
  <2> QED
    BY <1>1, <1>2, <2>1, CountOf
<1>3. CASE ~(n + 1 > ChunkCount(n) * ArrSize)
  <2>1. /\ n + 1 <= ChunkCount(n) * ArrSize
        /\ ChunkCount(n) * ArrSize < (n + 1) + ArrSize
    BY <1>1, <1>3
  <2> QED
    BY <1>1, <1>3, <2>1, CountOf
<1> QED
  BY <1>2, <1>3

\* The chunk and the place in it of an element.
LEMMA PlaceOf ==
  ASSUME NEW n \in Nat
  PROVE  /\ n \div ArrSize \in Nat /\ n % ArrSize \in 0 .. ArrSize - 1
         /\ ((n \div ArrSize) + 1 - 1) * ArrSize + (n % ArrSize) = n
         /\ \A c \in Nat \ {0}, k \in 0 .. ArrSize - 1 :
              (c - 1) * ArrSize + k = n => c = (n \div ArrSize) + 1 /\ k = n % ArrSize
         /\ \A m \in Nat : n < m => (n \div ArrSize) + 1 \in 1 .. ChunkCount(m)
<1> DEFINE q == n \div ArrSize
<1>0. ArrSize \in Nat \ {0}
  BY FastArrayAssumption
<1>1. /\ ArrSize \in Nat \ {0} /\ q \in Nat /\ q * ArrSize \in Int
      /\ q * ArrSize <= n /\ n < q * ArrSize + ArrSize
      /\ n % ArrSize = n - q * ArrSize
  <2>1. /\ q \in Nat /\ q * ArrSize <= n /\ n < q * ArrSize + ArrSize
        /\ n % ArrSize = n - q * ArrSize
    BY <1>0, Division
  <2> HIDE DEF q
  <2> QED
    BY <1>0, <2>1, Products
<1> HIDE DEF q
<1>2. ASSUME NEW c \in Nat \ {0}, NEW k \in 0 .. ArrSize - 1,
             (c - 1) * ArrSize + k = n
      PROVE  c = q + 1 /\ k = n % ArrSize
  <2>1. c - 1 \in Int /\ (c - 1) * ArrSize \in Int
    BY <1>1, Products
  <2>2. (c - 1) * ArrSize <= n /\ n < (c - 1) * ArrSize + ArrSize
    BY <1>1, <1>2, <2>1
  <2>3. c - 1 = q
    BY <1>1, <2>1, <2>2, OneQuotient
  <2> QED
    BY <1>1, <1>2, <2>1, <2>3
<1>3. ASSUME NEW m \in Nat, n < m PROVE q + 1 \in 1 .. ChunkCount(m)
  <2>1. /\ ChunkCount(m) \in Nat /\ ChunkCount(m) * ArrSize \in Int
        /\ m <= ChunkCount(m) * ArrSize
    BY Counts
  <2>2. ~(ChunkCount(m) < q + 1)
    <3>1. ASSUME ChunkCount(m) < q + 1 PROVE FALSE
      <4>1. ChunkCount(m) * ArrSize <= q * ArrSize
        <5>1. CASE ChunkCount(m) = q
          BY <5>1, <1>1
        <5>2. CASE ChunkCount(m) < q
          BY <5>2, <1>1, <2>1, Ordered
        <5> QED
          BY <5>1, <5>2, <3>1, <2>1, <1>1
      <4> QED
        BY <4>1, <2>1, <1>1, <1>3
    <3> QED
      BY <3>1
  <2> QED
    BY <1>1, <2>1, <2>2
<1>4. /\ n % ArrSize \in 0 .. ArrSize - 1
      /\ (q + 1 - 1) * ArrSize + (n % ArrSize) = n
  <2>1. q + 1 - 1 = q
    BY <1>1
  <2> QED
    BY <1>1, <2>1
<1> QED
  BY <1>1, <1>2, <1>3, <1>4 DEF q

\* The chunks of an array, for the elements pushed into it.
ChunksFor(count, n, e) ==
  [c \in 1 .. count |->
     [k \in 0 .. ArrSize - 1 |->
        IF (c - 1) * ArrSize + k < n THEN e[(c - 1) * ArrSize + k + 1] ELSE Garbage]]

Chunks(e) == ChunksFor(ChunkCount(Len(e)), Len(e), e)

Holds(a, e) == a = [arr_ |-> Chunks(e), memory_ |-> a.memory_, size_ |-> Len(e)]

\* An element is set in the chunks.
LEMMA ChunkSet ==
  ASSUME NEW count \in Nat, NEW n \in Nat, NEW i \in Nat, NEW e, NEW m \in Nat, NEW f, NEW t,
         (i \div ArrSize) + 1 \in 1 .. count,
         i < m, f[i + 1] = t,
         \A j \in Nat : j # i => /\ j < n <=> j < m
                                 /\ j < n => e[j + 1] = f[j + 1]
  PROVE  [ChunksFor(count, n, e) EXCEPT ![(i \div ArrSize) + 1][i % ArrSize] = t]
           = ChunksFor(count, m, f)
<1> DEFINE q == (i \div ArrSize) + 1
           r == i % ArrSize
<1>1. /\ q \in 1 .. count /\ r \in 0 .. ArrSize - 1 /\ (q - 1) * ArrSize + r = i
      /\ \A c \in Nat \ {0}, k \in 0 .. ArrSize - 1 :
           (c - 1) * ArrSize + k = i => c = q /\ k = r
  <2>1. i % ArrSize \in 0 .. ArrSize - 1
    BY PlaceOf
  <2>2. ((i \div ArrSize) + 1 - 1) * ArrSize + (i % ArrSize) = i
    BY PlaceOf, Zenon
  <2>3. \A c \in Nat \ {0}, k \in 0 .. ArrSize - 1 :
          (c - 1) * ArrSize + k = i => c = (i \div ArrSize) + 1 /\ k = i % ArrSize
    BY PlaceOf, Zenon
  <2>4. /\ q \in 1 .. count /\ r \in 0 .. ArrSize - 1
        /\ q = (i \div ArrSize) + 1 /\ r = i % ArrSize
    BY <2>1, Zenon
  <2>5. \A c \in Nat \ {0}, k \in 0 .. ArrSize - 1 :
          (c - 1) * ArrSize + k = i => c = q /\ k = r
    BY <2>3, Zenon
  <2>6. (q - 1) * ArrSize + r = i
    <3>1. q - 1 = (i \div ArrSize) + 1 - 1
      <4>1. i \div ArrSize \in Nat
        BY PlaceOf
      <4> QED
        BY <2>4, <4>1
    <3> QED
      BY <2>2, <2>4, <3>1, Zenon
  <2> QED
    BY <2>4, <2>5, <2>6, Zenon
<1> HIDE DEF q, r
<1> DEFINE x == ChunksFor(count, n, e)
           y == ChunksFor(count, m, f)
           z == [x EXCEPT ![q][r] = t]
<1>2. /\ x = [c \in 1 .. count |-> x[c]] /\ y = [c \in 1 .. count |-> y[c]]
      /\ \A c \in 1 .. count : /\ x[c] = [k \in 0 .. ArrSize - 1 |-> x[c][k]]
                               /\ y[c] = [k \in 0 .. ArrSize - 1 |-> y[c][k]]
  BY DEF ChunksFor
<1>3. \A c \in 1 .. count, k \in 0 .. ArrSize - 1 :
        /\ x[c][k] = IF (c - 1) * ArrSize + k < n
                     THEN e[(c - 1) * ArrSize + k + 1] ELSE Garbage
        /\ y[c][k] = IF (c - 1) * ArrSize + k < m
                     THEN f[(c - 1) * ArrSize + k + 1] ELSE Garbage
  BY DEF ChunksFor
<1> HIDE DEF x, y
<1>4. /\ z = [c \in 1 .. count |-> z[c]]
      /\ \A c \in 1 .. count : z[c] = IF c = q THEN [x[q] EXCEPT ![r] = t] ELSE x[c]
  BY <1>1, <1>2
<1> HIDE DEF z
<1>5. ASSUME NEW c \in 1 .. count PROVE z[c] = y[c]
  <2>1. z[c] = [k \in 0 .. ArrSize - 1 |-> z[c][k]]
    <3>1. CASE c = q
      BY <1>2, <1>4, <3>1
    <3>2. CASE c # q
      <4>1. z[c] = x[c]
        BY <1>4, <3>2
      <4> QED
        BY <1>2, <4>1
    <3> QED
      BY <3>1, <3>2
  <2>2. ASSUME NEW k \in 0 .. ArrSize - 1 PROVE z[c][k] = y[c][k]
    <3> DEFINE j == (c - 1) * ArrSize + k
    <3>1. j \in Nat
      <4>1. ArrSize \in Nat \ {0} /\ c - 1 \in Nat /\ (c - 1) * ArrSize \in Nat
        BY FastArrayAssumption
      <4> QED
        BY <4>1
    <3>2. /\ x[c][k] = IF j < n THEN e[j + 1] ELSE Garbage
          /\ y[c][k] = IF j < m THEN f[j + 1] ELSE Garbage
      BY <1>3
    <3>3. j = i => c = q /\ k = r
      BY <1>1
    <3>4. c = q /\ k = r => j = i
      BY <1>1
    <3> HIDE DEF j
    <3>5. CASE j = i
      <4>1. z[c][k] = t
        BY <1>1, <1>2, <1>4, <3>3, <3>5
      <4> QED
        BY <4>1, <3>2, <3>5
    <3>6. CASE j # i
      <4>1. z[c][k] = x[c][k]
        <5>1. CASE c # q
          BY <1>4, <5>1
        <5>2. CASE c = q
          <6>1. k # r /\ z[c] = [x[q] EXCEPT ![r] = t]
            BY <1>4, <3>4, <3>6, <5>2
          <6>2. k \in DOMAIN x[q]
            BY <1>1, <1>2
          <6> QED
            BY <5>2, <6>1, <6>2
        <5> QED
          BY <5>1, <5>2
      <4> QED
        BY <4>1, <3>1, <3>2, <3>6
    <3> QED
      BY <3>5, <3>6
  <2> QED
    BY <2>1, <2>2, <1>2
<1>6. z = y
  BY <1>2, <1>4, <1>5
<1> QED
  BY <1>6 DEF z, y, x, q, r

\* A chunk for more elements than there are is new.
LEMMA ChunkNew ==
  ASSUME NEW count \in Nat, NEW n \in Nat, NEW e, n <= count * ArrSize
  PROVE  /\ IsSeq(ChunksFor(count, n, e)) /\ Len(ChunksFor(count, n, e)) = count
         /\ Append(ChunksFor(count, n, e), Chunk) = ChunksFor(count + 1, n, e)
<1> DEFINE x == ChunksFor(count, n, e)
           y == ChunksFor(count + 1, n, e)
<1>1. x = [c \in 1 .. count |-> x[c]] /\ y = [c \in 1 .. count + 1 |-> y[c]]
  BY DEF ChunksFor
<1>2. IsSeq(x) /\ Len(x) = count
  BY <1>1, FunctionIsSeq
<1>3. \A c \in 1 .. count : x[c] = y[c]
  BY DEF ChunksFor
<1>4. y[count + 1] = Chunk
  <2>1. /\ ArrSize \in Nat \ {0} /\ (count + 1) - 1 = count
        /\ count * ArrSize \in Int
    BY FastArrayAssumption, Products
  <2>2. \A k \in 0 .. ArrSize - 1 : ~(((count + 1) - 1) * ArrSize + k < n)
    BY <2>1
  <2>3. y[count + 1] = [k \in 0 .. ArrSize - 1 |->
          IF ((count + 1) - 1) * ArrSize + k < n
          THEN e[((count + 1) - 1) * ArrSize + k + 1] ELSE Garbage]
    BY DEF ChunksFor
  <2> HIDE DEF y
  <2> QED
    BY <2>2, <2>3 DEF Chunk
<1> HIDE DEF x, y
<1>5. Append(x, Chunk) = [c \in 1 .. count + 1 |-> IF c <= count THEN x[c] ELSE Chunk]
  BY <1>2, AppendIs
<1>6. Append(x, Chunk) = y
  <2>1. \A c \in 1 .. count + 1 : y[c] = IF c <= count THEN x[c] ELSE Chunk
    BY <1>3, <1>4
  <2> QED
    BY <1>1, <1>5, <2>1
<1> QED
  BY <1>2, <1>6 DEF x, y

Room(a) == IF a.size_ + 1 > Len(a.arr_) * ArrSize THEN grow(a) ELSE a

LEMMA RoomFor ==
  ASSUME NEW e, IsSeq(e), NEW a, Holds(a, e)
  PROVE  Room(a) = [arr_    |-> ChunksFor(ChunkCount(Len(e) + 1), Len(e), e),
                    memory_ |-> IF /\ Len(e) + 1 > ChunkCount(Len(e)) * ArrSize
                                   /\ ChunkCount(Len(e)) = a.memory_
                                THEN 2 * a.memory_ ELSE a.memory_,
                    size_   |-> Len(e)]
<1>1. /\ Len(e) \in Nat /\ ChunkCount(Len(e)) \in Nat
      /\ Len(e) <= ChunkCount(Len(e)) * ArrSize
  BY Counts DEF IsSeq
<1>2. /\ a = [arr_ |-> Chunks(e), memory_ |-> a.memory_, size_ |-> Len(e)]
      /\ Len(Chunks(e)) = ChunkCount(Len(e))
      /\ Append(Chunks(e), Chunk) = ChunksFor(ChunkCount(Len(e)) + 1, Len(e), e)
  BY <1>1, ChunkNew DEF Holds, Chunks
<1>3. a.arr_ = Chunks(e) /\ a.size_ = Len(e)
  BY <1>2
<1>4. CASE Len(e) + 1 > ChunkCount(Len(e)) * ArrSize
  <2>1. Room(a) = [a EXCEPT !.memory_ = IF Len(a.arr_) = @ THEN 2 * @ ELSE @,
                            !.arr_ = Append(@, Chunk)]
    BY <1>2, <1>3, <1>4 DEF Room, grow
  <2>2. ChunkCount(Len(e) + 1) = ChunkCount(Len(e)) + 1
    BY <1>1, <1>4, CountOneMore
  <2> QED
    BY <1>2, <1>3, <1>4, <2>1, <2>2
<1>5. CASE ~(Len(e) + 1 > ChunkCount(Len(e)) * ArrSize)
  <2>1. Room(a) = a
    BY <1>2, <1>3, <1>5 DEF Room
  <2>2. ChunkCount(Len(e) + 1) = ChunkCount(Len(e))
    BY <1>1, <1>5, CountOneMore
  <2> QED
    BY <1>2, <1>5, <2>1, <2>2 DEF Chunks
<1> QED
  BY <1>4, <1>5

LEMMA SetAndCount ==
  ASSUME NEW x, NEW y, NEW n, NEW c, NEW k, NEW t
  PROVE  [[[arr_ |-> x, memory_ |-> y, size_ |-> n] EXCEPT !.arr_[c][k] = t]
            EXCEPT !.size_ = @ + 1]
           = [arr_ |-> [x EXCEPT ![c][k] = t], memory_ |-> y, size_ |-> n + 1]
<1>1. [[arr_ |-> x, memory_ |-> y, size_ |-> n] EXCEPT !.arr_[c][k] = t]
        = [arr_ |-> [x EXCEPT ![c][k] = t], memory_ |-> y, size_ |-> n]
  OBVIOUS
<1>2. \A z : [[arr_ |-> z, memory_ |-> y, size_ |-> n] EXCEPT !.size_ = @ + 1]
              = [arr_ |-> z, memory_ |-> y, size_ |-> n + 1]
  OBVIOUS
<1> QED
  BY <1>1, <1>2, Zenon

LEMMA PushHolds ==
  ASSUME NEW e, IsSeq(e), NEW a, Holds(a, e), NEW t
  PROVE  /\ Holds(push_back(a, t), Append(e, t))
         /\ push_back(a, t).memory_ = Room(a).memory_
<1> DEFINE n    == Len(e)
           more == Append(e, t)
<1>1. n \in Nat /\ n + 1 \in Nat /\ IsSeq(more) /\ Len(more) = n + 1
      /\ more[n + 1] = t /\ \A k \in 1 .. n : more[k] = e[k]
  BY AppendIs DEF IsSeq
<1>2. /\ Room(a).arr_ = ChunksFor(ChunkCount(n + 1), n, e)
      /\ Room(a) = [arr_ |-> Room(a).arr_, memory_ |-> Room(a).memory_, size_ |-> n]
      /\ a.size_ = n
  BY RoomFor DEF Holds
<1>3. push_back(a, t) =
        [arr_    |-> [Room(a).arr_ EXCEPT ![(n \div ArrSize) + 1][n % ArrSize] = t],
         memory_ |-> Room(a).memory_, size_ |-> n + 1]
  <2>1. push_back(a, t) = [[Room(a) EXCEPT !.arr_[(n \div ArrSize) + 1][n % ArrSize] = t]
                             EXCEPT !.size_ = @ + 1]
    BY <1>2 DEF push_back, set, Room
  <2>2. Room(a) = [arr_ |-> Room(a).arr_, memory_ |-> Room(a).memory_, size_ |-> n]
    BY <1>2
  <2> DEFINE c == (n \div ArrSize) + 1
             k == n % ArrSize
  <2>3. push_back(a, t) = [[Room(a) EXCEPT !.arr_[c][k] = t] EXCEPT !.size_ = @ + 1]
    BY <2>1
  <2> HIDE DEF n, c, k
  <2>4. push_back(a, t) = [arr_    |-> [Room(a).arr_ EXCEPT ![c][k] = t],
                           memory_ |-> Room(a).memory_, size_ |-> n + 1]
    <3> DEFINE x == Room(a).arr_
               y == Room(a).memory_
    <3>1. Room(a) = [arr_ |-> x, memory_ |-> y, size_ |-> n]
      BY <2>2
    <3> HIDE DEF x, y
    <3>2. push_back(a, t) = [arr_ |-> [x EXCEPT ![c][k] = t], memory_ |-> y,
                             size_ |-> n + 1]
      <4>1. push_back(a, t) =
              [[[arr_ |-> x, memory_ |-> y, size_ |-> n] EXCEPT !.arr_[c][k] = t]
                EXCEPT !.size_ = @ + 1]
        BY <2>3, <3>1, Zenon
      <4> QED
        BY <4>1, SetAndCount, Zenon
    <3> QED
      BY <3>2 DEF x, y
  <2> QED
    BY <2>4 DEF c, k
<1>4. [Room(a).arr_ EXCEPT ![(n \div ArrSize) + 1][n % ArrSize] = t] = Chunks(more)
  <2> HIDE DEF n, more
  <2>1. ChunkCount(n + 1) \in Nat /\ (n \div ArrSize) + 1 \in 1 .. ChunkCount(n + 1)
    <3>1. n < n + 1 /\ n + 1 \in Nat
      BY <1>1
    <3> QED
      BY <1>1, <3>1, Counts, PlaceOf, Zenon
  <2>2. \A j \in Nat : j # n => /\ j < n <=> j < n + 1
                                /\ j < n => e[j + 1] = more[j + 1]
    BY <1>1
  <2>3. [ChunksFor(ChunkCount(n + 1), n, e) EXCEPT ![(n \div ArrSize) + 1][n % ArrSize] = t]
          = ChunksFor(ChunkCount(n + 1), n + 1, more)
    BY <1>1, <2>1, <2>2, ChunkSet
  <2> QED
    BY <1>1, <1>2, <2>3 DEF Chunks
<1> HIDE DEF more, n
<1>5. /\ push_back(a, t).memory_ = Room(a).memory_
      /\ push_back(a, t) = [arr_ |-> Chunks(more), memory_ |-> Room(a).memory_,
                            size_ |-> Len(more)]
  BY <1>1, <1>3, <1>4
<1> QED
  BY <1>5 DEF Holds, more

\* The array of a sequence holds its elements, whatever it grew through.
LEMMA ArrayHolds ==
  ASSUME NEW e, IsSeq(e)
  PROVE  Holds(ArrayOf(e), e)
<1> DEFINE Q == {m \in Nat : m <= Len(e) =>
                   Holds(ArrayOf(SubSeq(e, 1, m)), SubSeq(e, 1, m))}
<1>0. Len(e) \in Nat
  BY DEF IsSeq
<1>1. 0 \in Q
  <2>1. SubSeq(e, 1, 0) = <<>>
    BY <1>0, FrontIs, NoElements
  <2>2. ChunkCount(0) = 0
    <3>1. 0 <= 0 * ArrSize /\ 0 * ArrSize < 0 + ArrSize /\ 0 \in Nat
      BY FastArrayAssumption
    <3> QED
      BY <3>1, CountOf
  <2>3. Chunks(<<>>) = <<>>
    <3>1. Len(<<>>) = 0 /\ 0 <= 0 * ArrSize /\ 0 \in Nat
      BY NoElements, FastArrayAssumption
    <3>2. IsSeq(ChunksFor(0, 0, <<>>)) /\ Len(ChunksFor(0, 0, <<>>)) = 0
      BY <3>1, ChunkNew
    <3> QED
      BY <2>2, <3>1, <3>2, NoElements DEF Chunks
  <2>4. Holds(ArrayOf(<<>>), <<>>)
    BY <2>3, ArrayOfNone, NoElements DEF Holds, EmptyArray
  <2> QED
    BY <2>1, <2>4
<1>2. ASSUME NEW m \in Nat, m \in Q PROVE m + 1 \in Q
  <2>1. SUFFICES ASSUME m + 1 <= Len(e)
                 PROVE  Holds(ArrayOf(SubSeq(e, 1, m + 1)), SubSeq(e, 1, m + 1))
    OBVIOUS
  <2> DEFINE f == SubSeq(e, 1, m)
  <2>2. /\ IsSeq(f) /\ SubSeq(e, 1, m + 1) = Append(f, e[m + 1])
    BY <1>0, <2>1, FrontIs, FrontOneMore
  <2>3. Holds(ArrayOf(f), f)
    BY <1>0, <1>2, <2>1
  <2> HIDE DEF f
  <2>4. Holds(push_back(ArrayOf(f), e[m + 1]), Append(f, e[m + 1]))
    BY <2>2, <2>3, PushHolds
  <2> QED
    BY <2>2, <2>4, ArrayOneMore
<1> HIDE DEF Q
<1>3. Len(e) \in Q
  BY <1>0, <1>1, <1>2, AllNumbers
<1> DEFINE g == SubSeq(e, 1, Len(e))
<1>4. g = e
  BY <1>0, FrontIs DEF IsSeq
<1>5. Holds(ArrayOf(g), g)
  BY <1>0, <1>3 DEF Q
<1> HIDE DEF g
<1> QED
  BY <1>4, <1>5

\* How large the table of chunks is, does not depend on what was pushed.
LEMMA MemorySame ==
  ASSUME NEW e, IsSeq(e), NEW f, IsSeq(f), Len(e) = Len(f)
  PROVE  ArrayOf(e).memory_ = ArrayOf(f).memory_
<1> DEFINE Q == {m \in Nat : m <= Len(e) =>
                   ArrayOf(SubSeq(e, 1, m)).memory_ = ArrayOf(SubSeq(f, 1, m)).memory_}
<1>0. Len(e) \in Nat
  BY DEF IsSeq
<1>1. 0 \in Q
  <2>1. SubSeq(e, 1, 0) = <<>> /\ SubSeq(f, 1, 0) = <<>>
    BY <1>0, FrontIs, NoElements
  <2> QED
    BY <2>1
<1>2. ASSUME NEW m \in Nat, m \in Q PROVE m + 1 \in Q
  <2>1. SUFFICES ASSUME m + 1 <= Len(e)
                 PROVE  ArrayOf(SubSeq(e, 1, m + 1)).memory_
                          = ArrayOf(SubSeq(f, 1, m + 1)).memory_
    OBVIOUS
  <2> DEFINE x == SubSeq(e, 1, m)
             y == SubSeq(f, 1, m)
  <2>2. /\ IsSeq(x) /\ Len(x) = m /\ SubSeq(e, 1, m + 1) = Append(x, e[m + 1])
        /\ IsSeq(y) /\ Len(y) = m /\ SubSeq(f, 1, m + 1) = Append(y, f[m + 1])
    BY <1>0, <2>1, FrontIs, FrontOneMore
  <2>3. ArrayOf(x).memory_ = ArrayOf(y).memory_
    BY <1>0, <1>2, <2>1
  <2> HIDE DEF x, y
  <2>4. /\ ArrayOf(Append(x, e[m + 1])).memory_ = Room(ArrayOf(x)).memory_
        /\ ArrayOf(Append(y, f[m + 1])).memory_ = Room(ArrayOf(y)).memory_
    BY <2>2, ArrayHolds, ArrayOneMore, PushHolds
  <2>5. Room(ArrayOf(x)).memory_ = Room(ArrayOf(y)).memory_
    BY <2>2, <2>3, ArrayHolds, RoomFor
  <2> QED
    BY <2>2, <2>4, <2>5
<1> HIDE DEF Q
<1>3. Len(e) \in Q
  BY <1>0, <1>1, <1>2, AllNumbers
<1> DEFINE x == SubSeq(e, 1, Len(e))
           y == SubSeq(f, 1, Len(e))
<1>4. x = e /\ y = f
  BY <1>0, FrontIs DEF IsSeq
<1>5. ArrayOf(x).memory_ = ArrayOf(y).memory_
  BY <1>0, <1>3 DEF Q
<1> HIDE DEF x, y
<1> QED
  BY <1>4, <1>5

\* get, set, and the elements in order.
LEMMA ArrayGet ==
  ASSUME NEW e, IsSeq(e)
  PROVE  /\ ArrayOf(e).size_ = Len(e)
         /\ \A i \in 0 .. Len(e) - 1 : get(ArrayOf(e), i) = e[i + 1]
         /\ Elements(ArrayOf(e)) = e
<1>1. /\ Len(e) \in Nat /\ ArrayOf(e).size_ = Len(e) /\ ArrayOf(e).arr_ = Chunks(e)
  BY ArrayHolds DEF Holds, IsSeq
<1>2. ASSUME NEW i \in 0 .. Len(e) - 1 PROVE get(ArrayOf(e), i) = e[i + 1]
  <2> DEFINE c == (i \div ArrSize) + 1
             k == i % ArrSize
  <2>1. i \in Nat /\ i < Len(e)
    BY <1>1
  <2>2. k \in 0 .. ArrSize - 1 /\ c \in 1 .. ChunkCount(Len(e))
    BY <1>1, <2>1, PlaceOf, Zenon
  <2>3. (c - 1) * ArrSize + k = i
    <3>1. ((i \div ArrSize) + 1 - 1) * ArrSize + k = i
      BY <2>1, PlaceOf, Zenon
    <3>2. i \div ArrSize \in Nat /\ c = (i \div ArrSize) + 1
      BY <2>1, PlaceOf
    <3> HIDE DEF k, c
    <3>3. c - 1 = (i \div ArrSize) + 1 - 1
      BY <3>2
    <3> QED
      BY <3>1, <3>3, Zenon
  <2>4. get(ArrayOf(e), i) = Chunks(e)[c][k]
    BY <1>1 DEF get
  <2> HIDE DEF c, k
  <2>5. Chunks(e)[c][k] = IF (c - 1) * ArrSize + k < Len(e)
                          THEN e[(c - 1) * ArrSize + k + 1] ELSE Garbage
    BY <2>2 DEF Chunks, ChunksFor
  <2> QED
    BY <2>1, <2>3, <2>4, <2>5
<1>3. Elements(ArrayOf(e)) = [k \in 1 .. Len(e) |-> get(ArrayOf(e), k - 1)]
  BY <1>1 DEF Elements
<1>4. \A k \in 1 .. Len(e) : get(ArrayOf(e), k - 1) = e[k]
  <2>1. SUFFICES ASSUME NEW k \in 1 .. Len(e) PROVE get(ArrayOf(e), k - 1) = e[k]
    OBVIOUS
  <2>2. k - 1 \in 0 .. Len(e) - 1 /\ (k - 1) + 1 = k
    BY <1>1
  <2> QED
    BY <1>2, <2>2
<1>5. Elements(ArrayOf(e)) = e
  BY <1>3, <1>4 DEF IsSeq
<1> QED
  BY <1>1, <1>2, <1>5

LEMMA ArraySet ==
  ASSUME NEW e, IsSeq(e), NEW i \in 0 .. Len(e) - 1, NEW t
  PROVE  /\ IsSeq([e EXCEPT ![i + 1] = t]) /\ Len([e EXCEPT ![i + 1] = t]) = Len(e)
         /\ set(ArrayOf(e), i, t) = ArrayOf([e EXCEPT ![i + 1] = t])
<1> DEFINE f == [e EXCEPT ![i + 1] = t]
           n == Len(e)
<1>1. n \in Nat /\ i \in Nat /\ i < n /\ e = [k \in 1 .. n |-> e[k]]
  BY DEF IsSeq
<1>2. /\ f = [k \in 1 .. n |-> f[k]]
      /\ f[i + 1] = t /\ \A k \in 1 .. n : k # i + 1 => f[k] = e[k]
  <2>1. i + 1 \in 1 .. n
    BY <1>1
  <2>2. f = [k \in 1 .. n |-> IF k = i + 1 THEN t ELSE e[k]]
    BY <1>1
  <2> HIDE DEF f, n
  <2> QED
    BY <2>1, <2>2
<1> HIDE DEF f
<1>3. IsSeq(f) /\ Len(f) = n
  BY <1>1, <1>2, FunctionIsSeq
<1>4. Holds(ArrayOf(e), e) /\ Holds(ArrayOf(f), f)
      /\ ArrayOf(f).memory_ = ArrayOf(e).memory_
  BY <1>3, ArrayHolds, MemorySame
<1> HIDE DEF n
<1>5. [Chunks(e) EXCEPT ![(i \div ArrSize) + 1][i % ArrSize] = t] = Chunks(f)
  <2>1. ChunkCount(n) \in Nat /\ (i \div ArrSize) + 1 \in 1 .. ChunkCount(n)
    BY <1>1, Counts, PlaceOf, Zenon
  <2>2. PICK m \in Nat : m = n
    BY <1>1
  <2>3. \A j \in Nat : j # i => /\ j < n <=> j < m
                                /\ j < n => e[j + 1] = f[j + 1]
    BY <1>1, <1>2, <2>2
  <2>4. ChunkCount(n) \in Nat /\ n \in Nat /\ i \in Nat /\ i < m /\ f[i + 1] = t
    BY <1>1, <1>2, <2>1, <2>2
  <2>5. [ChunksFor(ChunkCount(n), n, e) EXCEPT ![(i \div ArrSize) + 1][i % ArrSize] = t]
          = ChunksFor(ChunkCount(n), m, f)
    BY <2>1, <2>3, <2>4, ChunkSet
  <2> QED
    BY <1>3, <2>2, <2>5, Zenon DEF Chunks, n
<1>6. set(ArrayOf(e), i, t) =
        [arr_    |-> [Chunks(e) EXCEPT ![(i \div ArrSize) + 1][i % ArrSize] = t],
         memory_ |-> ArrayOf(e).memory_, size_ |-> Len(e)]
  <2> DEFINE y == ArrayOf(e).memory_
             c == (i \div ArrSize) + 1
             k == i % ArrSize
  <2>1. ArrayOf(e) = [arr_ |-> Chunks(e), memory_ |-> y, size_ |-> Len(e)]
    BY <1>4, Zenon DEF Holds
  <2>2. set(ArrayOf(e), i, t) = [ArrayOf(e) EXCEPT !.arr_[c][k] = t]
    BY Zenon DEF set
  <2> HIDE DEF y, c, k
  <2>3. [[arr_ |-> Chunks(e), memory_ |-> y, size_ |-> Len(e)] EXCEPT !.arr_[c][k] = t]
          = [arr_ |-> [Chunks(e) EXCEPT ![c][k] = t], memory_ |-> y, size_ |-> Len(e)]
    OBVIOUS
  <2>4. set(ArrayOf(e), i, t)
          = [arr_ |-> [Chunks(e) EXCEPT ![c][k] = t], memory_ |-> y, size_ |-> Len(e)]
    BY <2>1, <2>2, <2>3, Zenon
  <2> QED
    BY <2>4 DEF y, c, k
<1>7. set(ArrayOf(e), i, t) = ArrayOf(f)
  BY <1>3, <1>4, <1>5, <1>6 DEF Holds, n
<1> QED
  BY <1>3, <1>7 DEF f, n

\* A copy is laid out as the array is.
LEMMA ArrayCopy == ASSUME NEW e, IsSeq(e) PROVE copy(ArrayOf(e)) = ArrayOf(e)
  BY ArrayGet DEF copy
-----------------------------------------------------------------------------
(***************************************************************************)
(* Frames.                                                                 *)
(***************************************************************************)
\* The columns for the types, and the frame of them.
Columns(types, cells) == [k \in 1 .. Len(types) |-> Column(types[k], cells[k])]

FrameOf(types, cells, n) ==
  [schema_ |-> types, nrows_ |-> n, ncols_ |-> Len(types),
   col_arr_ |-> ArrayOf(Columns(types, cells))]

LEMMA ColumnsAre ==
  ASSUME NEW types, IsSeq(types), NEW cells
  PROVE  /\ IsSeq(Columns(types, cells)) /\ Len(Columns(types, cells)) = Len(types)
         /\ \A k \in 1 .. Len(types) : Columns(types, cells)[k] = Column(types[k], cells[k])
<1> DEFINE cs == Columns(types, cells)
<1>1. /\ Len(types) \in Nat
      /\ cs = [k \in 1 .. Len(types) |-> Column(types[k], cells[k])]
  BY DEF Columns, IsSeq
<1>2. /\ cs = [k \in 1 .. Len(types) |-> cs[k]]
      /\ \A k \in 1 .. Len(types) : cs[k] = Column(types[k], cells[k])
  BY <1>1
<1> HIDE DEF cs
<1>3. IsSeq(cs) /\ Len(cs) = Len(types)
  BY <1>1, <1>2, FunctionIsSeq
<1> QED
  BY <1>2, <1>3 DEF cs

LEMMA FrameParts ==
  ASSUME NEW types, IsSeq(types), NEW cells, NEW n,
         \A k \in 1 .. Len(types) : IsSeq(cells[k])
  PROVE  LET d == FrameOf(types, cells, n)
         IN  /\ d.schema_ = types /\ d.nrows_ = n /\ d.ncols_ = Len(types)
             /\ d.col_arr_ = ArrayOf(Columns(types, cells))
             /\ d.col_arr_.size_ = Len(types)
             /\ \A k \in 1 .. Len(types) :
                  /\ Col(d, k - 1) = Column(types[k], cells[k])
                  /\ Col(d, k - 1).type = types[k]
                  /\ Col(d, k - 1).arr_ = ArrayOf(cells[k])
                  /\ Col(d, k - 1).arr_.size_ = Len(cells[k])
                  /\ Elements(Col(d, k - 1).arr_) = cells[k]
                  /\ \A r \in 1 .. Len(cells[k]) : CellAt(d, k, r) = cells[k][r]
<1> DEFINE d == FrameOf(types, cells, n)
           cs == Columns(types, cells)
<1>1. /\ d.schema_ = types /\ d.nrows_ = n /\ d.ncols_ = Len(types)
      /\ d.col_arr_ = ArrayOf(cs)
  BY DEF FrameOf
<1>2. /\ Len(types) \in Nat /\ IsSeq(cs) /\ Len(cs) = Len(types)
      /\ \A k \in 1 .. Len(types) : cs[k] = Column(types[k], cells[k])
  BY ColumnsAre DEF IsSeq
<1> HIDE DEF cs, d
<1>3. /\ ArrayOf(cs).size_ = Len(types)
      /\ \A i \in 0 .. Len(types) - 1 : get(ArrayOf(cs), i) = cs[i + 1]
  BY <1>2, ArrayGet
<1>4. ASSUME NEW k \in 1 .. Len(types)
      PROVE  /\ Col(d, k - 1) = Column(types[k], cells[k])
             /\ Col(d, k - 1).type = types[k]
             /\ Col(d, k - 1).arr_ = ArrayOf(cells[k])
             /\ Col(d, k - 1).arr_.size_ = Len(cells[k])
             /\ Elements(Col(d, k - 1).arr_) = cells[k]
             /\ \A r \in 1 .. Len(cells[k]) : CellAt(d, k, r) = cells[k][r]
  <2>1. k - 1 \in 0 .. Len(types) - 1 /\ (k - 1) + 1 = k
    BY <1>2
  <2>2. Col(d, k - 1) = Column(types[k], cells[k])
    <3>1. Col(d, k - 1) = get(ArrayOf(cs), k - 1)
      BY <1>1 DEF Col
    <3>2. get(ArrayOf(cs), k - 1) = cs[(k - 1) + 1]
      BY <1>3, <2>1, Zenon
    <3> QED
      BY <3>1, <3>2, <2>1, <1>2
  <2>3. Col(d, k - 1).type = types[k] /\ Col(d, k - 1).arr_ = ArrayOf(cells[k])
    BY <2>2 DEF Column
  <2>4. /\ IsSeq(cells[k]) /\ ArrayOf(cells[k]).size_ = Len(cells[k])
        /\ \A i \in 0 .. Len(cells[k]) - 1 : get(ArrayOf(cells[k]), i) = cells[k][i + 1]
        /\ Elements(ArrayOf(cells[k])) = cells[k]
    BY ArrayGet
  <2>5. ASSUME NEW r \in 1 .. Len(cells[k]) PROVE CellAt(d, k, r) = cells[k][r]
    <3>1. r - 1 \in 0 .. Len(cells[k]) - 1 /\ (r - 1) + 1 = r
      BY <2>4 DEF IsSeq
    <3>2. CellAt(d, k, r) = get(ArrayOf(cells[k]), r - 1)
      BY <2>3 DEF CellAt
    <3>3. get(ArrayOf(cells[k]), r - 1) = cells[k][(r - 1) + 1]
      BY <2>4, <3>1, Zenon
    <3> QED
      BY <3>1, <3>2, <3>3
  <2> QED
    BY <2>2, <2>3, <2>4, <2>5
<1> QED
  BY <1>1, <1>3, <1>4 DEF d, cs

\* Two frames with the same cells are the same.
LEMMA SameFrame ==
  ASSUME NEW types, NEW x, NEW y, NEW n, \A k \in 1 .. Len(types) : x[k] = y[k]
  PROVE  FrameOf(types, x, n) = FrameOf(types, y, n)
<1>1. Columns(types, x) = Columns(types, y)
  BY DEF Columns
<1> QED
  BY <1>1 DEF FrameOf

LEMMA FrameNew ==
  ASSUME NEW types, IsSeq(types)
  PROVE  Frame(types) = FrameOf(types, [k \in 1 .. Len(types) |-> <<>>], 0)
<1> DEFINE cells == [k \in 1 .. Len(types) |-> <<>>]
<1>1. DOMAIN types = 1 .. Len(types)
  BY DEF IsSeq
<1>2. [k \in DOMAIN types |-> Column(types[k], <<>>)] = Columns(types, cells)
  BY <1>1 DEF Columns
<1> QED
  BY <1>2, Zenon DEF Frame, FrameOf

LEMMA AddColumnIs ==
  ASSUME NEW types, IsSeq(types), NEW cells, NEW n, NEW t, NEW s, IsSeq(s),
         \A k \in 1 .. Len(types) : IsSeq(cells[k])
  PROVE  add_column(FrameOf(types, cells, n), Column(t, s))
           = FrameOf(Append(types, t),
                     [k \in 1 .. Len(types) + 1 |-> IF k <= Len(types) THEN cells[k] ELSE s],
                     IF Len(types) = 0 THEN Len(s) ELSE n)
<1> DEFINE d  == FrameOf(types, cells, n)
           cs == Columns(types, cells)
           c  == Column(t, s)
           new == [k \in 1 .. Len(types) + 1 |-> IF k <= Len(types) THEN cells[k] ELSE s]
           more == Append(types, t)
<1>1. /\ d.schema_ = types /\ d.nrows_ = n /\ d.ncols_ = Len(types)
      /\ d.col_arr_ = ArrayOf(cs)
  BY FrameParts
<1>2. c.type = t /\ c.arr_ = ArrayOf(s) /\ ArrayOf(s).size_ = Len(s)
  BY ArrayGet DEF Column
<1>3. clone(c) = c
  <2>1. copy(ArrayOf(s)) = ArrayOf(s)
    BY ArrayCopy
  <2>2. clone(c) = [type |-> t, arr_ |-> copy(ArrayOf(s))]
    BY DEF clone, Column
  <2> QED
    BY <2>1, <2>2 DEF Column
<1>4. /\ Len(types) \in Nat /\ IsSeq(cs) /\ Len(cs) = Len(types)
      /\ \A k \in 1 .. Len(types) : cs[k] = Column(types[k], cells[k])
      /\ IsSeq(more) /\ Len(more) = Len(types) + 1
      /\ more = [k \in 1 .. Len(types) + 1 |-> IF k <= Len(types) THEN types[k] ELSE t]
  BY ColumnsAre, AppendIs DEF IsSeq
<1>5. Append(cs, c) = Columns(more, new)
  <2>1. Append(cs, c) = [k \in 1 .. Len(types) + 1 |-> IF k <= Len(types) THEN cs[k] ELSE c]
    BY <1>4, AppendIs
  <2>2. Columns(more, new) = [k \in 1 .. Len(types) + 1 |-> Column(more[k], new[k])]
    BY <1>4 DEF Columns
  <2>3. \A k \in 1 .. Len(types) + 1 :
          Column(more[k], new[k]) = IF k <= Len(types) THEN cs[k] ELSE c
    BY <1>4
  <2> QED
    BY <2>1, <2>2, <2>3
<1>6. ArrayOf(Append(cs, c)) = push_back(ArrayOf(cs), c)
  BY <1>4, ArrayOneMore
<1> HIDE DEF d, cs, c, new, more
<1>7. add_column(d, c) =
        [schema_  |-> Append(types, t), nrows_ |-> IF Len(types) = 0 THEN Len(s) ELSE n,
         ncols_   |-> Len(types) + 1, col_arr_ |-> push_back(ArrayOf(cs), c)]
  BY <1>1, <1>2, <1>3 DEF add_column
<1>8. add_column(d, c) = FrameOf(more, new, IF Len(types) = 0 THEN Len(s) ELSE n)
  BY <1>4, <1>5, <1>6, <1>7 DEF FrameOf, more
<1> QED
  BY <1>8 DEF d, c, more, new

\* A column is changed in place.
LEMMA WithColumnIs ==
  ASSUME NEW types, IsSeq(types), NEW cells, NEW n,
         \A k \in 1 .. Len(types) : IsSeq(cells[k]),
         NEW k \in 1 .. Len(types), NEW s
  PROVE  WithColumn(FrameOf(types, cells, n), k - 1, ArrayOf(s))
           = FrameOf(types, [c \in 1 .. Len(types) |-> IF c = k THEN s ELSE cells[c]], n)
<1> DEFINE d  == FrameOf(types, cells, n)
           cs == Columns(types, cells)
           c  == Column(types[k], s)
           new == [j \in 1 .. Len(types) |-> IF j = k THEN s ELSE cells[j]]
<1>1. /\ d = [schema_ |-> types, nrows_ |-> n, ncols_ |-> Len(types),
              col_arr_ |-> ArrayOf(cs)]
      /\ get(ArrayOf(cs), k - 1) = Column(types[k], cells[k])
  <2>1. /\ d.col_arr_ = ArrayOf(cs) /\ Col(d, k - 1) = Column(types[k], cells[k])
    BY FrameParts
  <2>2. get(ArrayOf(cs), k - 1) = Column(types[k], cells[k])
    BY <2>1 DEF Col
  <2> HIDE DEF cs
  <2> QED
    BY <2>2 DEF FrameOf, cs
<1>2. [get(ArrayOf(cs), k - 1) EXCEPT !.arr_ = ArrayOf(s)] = c
  <2> HIDE DEF cs
  <2> QED
    BY <1>1 DEF Column
<1>3. /\ Len(types) \in Nat /\ IsSeq(cs) /\ Len(cs) = Len(types)
      /\ cs = [j \in 1 .. Len(types) |-> cs[j]]
      /\ \A j \in 1 .. Len(types) : cs[j] = Column(types[j], cells[j])
  BY ColumnsAre DEF IsSeq
<1>4. set(ArrayOf(cs), k - 1, c) = ArrayOf(Columns(types, new))
  <2>1. k - 1 \in 0 .. Len(cs) - 1 /\ (k - 1) + 1 = k
    BY <1>3
  <2>2. [cs EXCEPT ![k] = c] = Columns(types, new)
    <3>1. \A j \in 1 .. Len(types) : Column(types[j], new[j]) = IF j = k THEN c ELSE cs[j]
      BY <1>3
    <3>2. Columns(types, new) = [j \in 1 .. Len(types) |-> Column(types[j], new[j])]
      BY DEF Columns
    <3> HIDE DEF cs, c, new
    <3>3. [cs EXCEPT ![k] = c] = [j \in 1 .. Len(types) |-> IF j = k THEN c ELSE cs[j]]
      BY <1>3
    <3> QED
      BY <3>1, <3>2, <3>3
  <2> HIDE DEF cs, c, new
  <2>3. set(ArrayOf(cs), k - 1, c) = ArrayOf([cs EXCEPT ![(k - 1) + 1] = c])
    BY <1>3, <2>1, ArraySet
  <2>4. [cs EXCEPT ![(k - 1) + 1] = c] = Columns(types, new)
    BY <2>1, <2>2
  <2> QED
    BY <2>3, <2>4, Zenon
<1> HIDE DEF d, cs, c, new
<1>5. d.col_arr_ = ArrayOf(cs)
  BY <1>1
<1>6. WithColumn(d, k - 1, ArrayOf(s)) = [d EXCEPT !.col_arr_ = set(ArrayOf(cs), k - 1, c)]
  BY <1>2, <1>5 DEF WithColumn
<1>7. WithColumn(d, k - 1, ArrayOf(s))
        = [schema_ |-> types, nrows_ |-> n, ncols_ |-> Len(types),
           col_arr_ |-> ArrayOf(Columns(types, new))]
  BY <1>1, <1>4, <1>6
<1> QED
  BY <1>7, Zenon DEF FrameOf, d, new

\* The frames on the way through the columns, when a row is added.
Put(types, cells, k, s) == [c \in 1 .. Len(types) |-> IF c = k THEN s ELSE cells[c]]

AddField(d, k, v) == WithColumn(d, k - 1, push_back(Col(d, k - 1).arr_, v))

LEMMA AddFieldIs ==
  ASSUME NEW types, IsSeq(types), NEW cells, NEW n,
         \A k \in 1 .. Len(types) : IsSeq(cells[k]),
         NEW k \in 1 .. Len(types), NEW v
  PROVE  AddField(FrameOf(types, cells, n), k, v)
           = FrameOf(types, Put(types, cells, k, Append(cells[k], v)), n)
<1> DEFINE d == FrameOf(types, cells, n)
           s == Append(cells[k], v)
<1>1. Col(d, k - 1).arr_ = ArrayOf(cells[k])
  BY FrameParts
<1>2. push_back(ArrayOf(cells[k]), v) = ArrayOf(s)
  BY ArrayOneMore
<1> HIDE DEF s
<1>3. AddField(d, k, v) = WithColumn(d, k - 1, ArrayOf(s))
  BY <1>1, <1>2, Zenon DEF AddField
<1>4. WithColumn(d, k - 1, ArrayOf(s))
        = FrameOf(types, [c \in 1 .. Len(types) |-> IF c = k THEN s ELSE cells[c]], n)
  BY WithColumnIs
<1> HIDE DEF d
<1> QED
  BY <1>3, <1>4, Zenon DEF d, s, Put

LEMMA AddRowSteps ==
  ASSUME NEW n \in Nat, NEW fields, DOMAIN fields = 1 .. n, NEW d
  PROVE  \E g : /\ g[0] = d /\ add_row(d, fields) = [g[n] EXCEPT !.nrows_ = @ + 1]
                /\ \A m \in 1 .. n : g[m] = AddField(g[m - 1], m, fields[m])
<1> DEFINE ks == [k \in DOMAIN fields |-> k]
           o  == [op |-> "field", ks |-> ks, seq |-> fields]
           push(e, k) == WithColumn(e, k - 1, push_back(Col(e, k - 1).arr_, fields[k]))
           f  == CHOOSE h : h = [p \in SUBSET (1 .. n) |->
                   IF p = {} THEN d ELSE push(h[p \ {Max(p)}], ks[Max(p)])]
<1>1. DOMAIN ks = 1 .. n /\ \A k \in 1 .. n : ks[k] = k
  OBVIOUS
<1>2. \A x, m : Round(o, x, m) = push(x, ks[m])
  BY DEF Round
<1> HIDE DEF o
<1>3. f = [p \in SUBSET (1 .. n) |->
             IF p = {} THEN d ELSE push(f[p \ {Max(p)}], ks[Max(p)])]
  <2>1. PICK h : FoldTo(h, o, d, n)
    BY FoldExists
  <2> HIDE DEF ks
  <2>2. h = [p \in SUBSET (1 .. n) |->
               IF p = {} THEN d ELSE push(h[p \ {Max(p)}], ks[Max(p)])]
    <3> HIDE DEF push
    <3> QED
      BY <2>1, <1>2 DEF FoldTo
  <2> QED
    BY <2>2, Zenon
<1>4. add_row(d, fields) = [f[1 .. n] EXCEPT !.nrows_ = @ + 1]
  <2>1. FoldLeft(push, d, ks) =
          (CHOOSE h : h = [p \in SUBSET (DOMAIN ks) |->
             IF p = {} THEN d ELSE push(h[p \ {Max(p)}], ks[Max(p)])])[DOMAIN ks]
    BY DEF FoldLeft, MapThenFoldSet
  <2>2. FoldLeft(push, d, ks) = f[1 .. n]
    BY <2>1, <1>1, Zenon
  <2>3. add_row(d, fields) = [FoldLeft(push, d, ks) EXCEPT !.nrows_ = @ + 1]
    BY DEF add_row
  <2> QED
    BY <2>2, <2>3, Zenon
<1> HIDE DEF f
<1>5. FoldTo(f, o, d, n)
  <2> HIDE DEF push, ks
  <2> QED
    BY <1>2, <1>3 DEF FoldTo
<1>6. PICK g : /\ g[0] = d /\ g[n] = f[1 .. n]
               /\ \A m \in 1 .. n : g[m] = Round(o, g[m - 1], m)
  BY <1>5, FoldSteps
<1>7. \A m \in 1 .. n : g[m] = AddField(g[m - 1], m, fields[m])
  <2>1. SUFFICES ASSUME NEW m \in 1 .. n PROVE g[m] = AddField(g[m - 1], m, fields[m])
    OBVIOUS
  <2> HIDE DEF ks
  <2>2. ks[m] = m
    BY <1>1
  <2>3. g[m] = push(g[m - 1], ks[m])
    BY <1>2, <1>6, Zenon
  <2> HIDE DEF push
  <2>4. g[m] = push(g[m - 1], m)
    BY <2>2, <2>3, Zenon
  <2> QED
    BY <2>4, Zenon DEF AddField, push
<1> QED
  BY <1>4, <1>6, <1>7

Longer(types, cells, fields) == [c \in 1 .. Len(types) |-> Append(cells[c], fields[c])]

LEMMA AddRowIs ==
  ASSUME NEW types, IsSeq(types), NEW cells, NEW n,
         \A k \in 1 .. Len(types) : IsSeq(cells[k]),
         NEW fields, DOMAIN fields = 1 .. Len(types)
  PROVE  add_row(FrameOf(types, cells, n), fields)
           = FrameOf(types, Longer(types, cells, fields), n + 1)
<1> DEFINE d       == FrameOf(types, cells, n)
           Part(m) == [c \in 1 .. Len(types) |->
                         IF c <= m THEN Append(cells[c], fields[c]) ELSE cells[c]]
           all     == [c \in 1 .. Len(types) |-> Append(cells[c], fields[c])]
<1>0. Len(types) \in Nat
  BY DEF IsSeq
<1>1. PICK g : /\ g[0] = d
               /\ add_row(d, fields) = [g[Len(types)] EXCEPT !.nrows_ = @ + 1]
               /\ \A m \in 1 .. Len(types) : g[m] = AddField(g[m - 1], m, fields[m])
  <2> HIDE DEF d
  <2> QED
    BY <1>0, AddRowSteps
<1> DEFINE Q == {m \in Nat : m <= Len(types) => g[m] = FrameOf(types, Part(m), n)}
<1>2. 0 \in Q
  <2>1. \A k \in 1 .. Len(types) : Part(0)[k] = cells[k]
    OBVIOUS
  <2> HIDE DEF Part
  <2>2. FrameOf(types, Part(0), n) = FrameOf(types, cells, n)
    BY <2>1, SameFrame
  <2> QED
    BY <1>1, <2>2
<1>3. ASSUME NEW m \in Nat, m \in Q PROVE m + 1 \in Q
  <2>1. SUFFICES ASSUME m + 1 <= Len(types)
                 PROVE  g[m + 1] = FrameOf(types, Part(m + 1), n)
    OBVIOUS
  <2>2. /\ m + 1 \in 1 .. Len(types) /\ (m + 1) - 1 = m
        /\ g[m] = FrameOf(types, Part(m), n)
    BY <2>1, <1>0, <1>3
  <2>3. g[m + 1] = AddField(FrameOf(types, Part(m), n), m + 1, fields[m + 1])
    <3>1. g[m + 1] = AddField(g[(m + 1) - 1], m + 1, fields[m + 1])
      BY <1>1, <2>2, Zenon
    <3> QED
      BY <2>2, <3>1, Zenon
  <2>4. \A k \in 1 .. Len(types) : IsSeq(Part(m)[k])
    BY AppendIs
  <2>5. \A c \in 1 .. Len(types) :
          (IF c = m + 1 THEN Append(Part(m)[m + 1], fields[m + 1]) ELSE Part(m)[c])
            = Part(m + 1)[c]
    <3>1. SUFFICES ASSUME NEW c \in 1 .. Len(types)
                   PROVE  (IF c = m + 1 THEN Append(Part(m)[m + 1], fields[m + 1])
                           ELSE Part(m)[c]) = Part(m + 1)[c]
      OBVIOUS
    <3>2. CASE c = m + 1
      <4>1. Part(m)[m + 1] = cells[m + 1] /\ Part(m + 1)[c] = Append(cells[m + 1], fields[m + 1])
        BY <2>2, <3>2
      <4> QED
        BY <3>2, <4>1
    <3>3. CASE c # m + 1
      <4>1. c <= m + 1 <=> c <= m
        BY <1>0, <3>3
      <4> QED
        BY <3>3, <4>1
    <3> QED
      BY <3>2, <3>3
  <2> HIDE DEF Part
  <2> DEFINE x == Part(m)
             y == [c \in 1 .. Len(types) |->
                     IF c = m + 1 THEN Append(x[m + 1], fields[m + 1]) ELSE x[c]]
  <2>6. AddField(FrameOf(types, x, n), m + 1, fields[m + 1]) = FrameOf(types, y, n)
    <3> HIDE DEF x
    <3>1. \A k \in 1 .. Len(types) : IsSeq(x[k])
      BY <2>4 DEF x
    <3>2. m + 1 \in 1 .. Len(types)
      BY <2>2
    <3>3. AddField(FrameOf(types, x, n), m + 1, fields[m + 1])
            = FrameOf(types, Put(types, x, m + 1, Append(x[m + 1], fields[m + 1])), n)
      BY <3>1, <3>2, AddFieldIs
    <3> QED
      BY <3>3, Zenon DEF Put
  <2>7. FrameOf(types, y, n) = FrameOf(types, Part(m + 1), n)
    <3>1. \A c \in 1 .. Len(types) : y[c] = Part(m + 1)[c]
      BY <2>5
    <3> HIDE DEF y
    <3> QED
      BY <3>1, SameFrame
  <2> QED
    BY <2>3, <2>6, <2>7, Zenon
<1> HIDE DEF Q
<1>4. Len(types) \in Q
  BY <1>0, <1>2, <1>3, AllNumbers
<1>5. g[Len(types)] = FrameOf(types, all, n)
  <2>1. g[Len(types)] = FrameOf(types, Part(Len(types)), n)
    BY <1>0, <1>4 DEF Q
  <2>2. \A c \in 1 .. Len(types) : Part(Len(types))[c] = all[c]
    BY <1>0
  <2> HIDE DEF Part, all
  <2>3. FrameOf(types, Part(Len(types)), n) = FrameOf(types, all, n)
    BY <2>2, SameFrame
  <2> QED
    BY <2>1, <2>3, Zenon
<1> HIDE DEF d, all
<1>6. add_row(d, fields) = [FrameOf(types, all, n) EXCEPT !.nrows_ = @ + 1]
  BY <1>1, <1>5, Zenon
<1>7. [FrameOf(types, all, n) EXCEPT !.nrows_ = @ + 1] = FrameOf(types, all, n + 1)
  BY DEF FrameOf
<1> QED
  BY <1>6, <1>7, Zenon DEF d, all, Longer
-----------------------------------------------------------------------------
(***************************************************************************)
(* Tables.                                                                 *)
(***************************************************************************)
Good(types, cells, n) ==
  /\ types \in Seq(Type) /\ n \in Nat
  /\ \A k \in 1 .. Len(types) : /\ cells[k] \in Seq(FrameCell[types[k]])
                                /\ Len(cells[k]) = n

Is(d, types, cells, n) == Good(types, cells, n) /\ d = FrameOf(types, cells, n)

GridRow(types, cells, r) == [c \in 1 .. Len(types) |-> cells[c][r]]

Grid(types, cells, n) == [r \in 1 .. n |-> GridRow(types, cells, r)]

LEMMA FrameCells ==
  /\ DOMAIN FrameCell = Type
  /\ FrameCell["S"] = Seq(Char) \cup {Null}
  /\ \A t \in Type : t # "S" => FrameCell[t] = Value[t] \cup {Garbage}
  /\ \A t \in Type : Value[t] \subseteq FrameCell[t]
BY DataFrameAssumption DEF FrameCell, Type

LEMMA GoodSeqs ==
  ASSUME NEW types, NEW cells, NEW n, Good(types, cells, n)
  PROVE  /\ IsSeq(types) /\ Len(types) \in Nat /\ n \in Nat
         /\ \A k \in 1 .. Len(types) :
              /\ types[k] \in Type /\ IsSeq(cells[k]) /\ Len(cells[k]) = n
              /\ \A r \in 1 .. n : cells[k][r] \in FrameCell[types[k]]
<1>1. types \in Seq(Type) /\ n \in Nat /\ Len(types) \in Nat
  BY DEF Good
<1>2. IsSeq(types)
  BY <1>1, SeqIsSeq
<1>3. ASSUME NEW k \in 1 .. Len(types)
      PROVE  /\ types[k] \in Type /\ IsSeq(cells[k]) /\ Len(cells[k]) = n
             /\ \A r \in 1 .. n : cells[k][r] \in FrameCell[types[k]]
  <2>1. cells[k] \in Seq(FrameCell[types[k]]) /\ Len(cells[k]) = n
    BY DEF Good
  <2>2. IsSeq(cells[k])
    BY <2>1, SeqIsSeq
  <2>3. types[k] \in Type
    BY <1>1
  <2>4. ASSUME NEW r \in 1 .. n PROVE cells[k][r] \in FrameCell[types[k]]
    <3> DEFINE s == cells[k]
               S == FrameCell[types[k]]
    <3>1. s \in Seq(S) /\ r \in 1 .. Len(s)
      BY <2>1
    <3> HIDE DEF s, S
    <3>2. s[r] \in S
      BY <3>1
    <3> QED
      BY <3>2 DEF s, S
  <2> QED
    BY <2>1, <2>2, <2>3, <2>4
<1> QED
  BY <1>1, <1>2, <1>3

LEMMA IsGood ==
  ASSUME NEW types \in Seq(Type), NEW cells, NEW n \in Nat,
         \A k \in 1 .. Len(types) :
           /\ IsSeq(cells[k]) /\ Len(cells[k]) = n
           /\ \A r \in 1 .. n : cells[k][r] \in FrameCell[types[k]]
  PROVE  Good(types, cells, n)
<1>1. ASSUME NEW k \in 1 .. Len(types)
      PROVE  cells[k] \in Seq(FrameCell[types[k]]) /\ Len(cells[k]) = n
  <2> DEFINE s == cells[k]
             S == FrameCell[types[k]]
  <2>1. IsSeq(s) /\ Len(s) = n /\ \A r \in 1 .. Len(s) : s[r] \in S
    OBVIOUS
  <2> HIDE DEF s, S
  <2>2. s \in Seq(S)
    BY <2>1, SeqOfElements
  <2> QED
    BY <2>1, <2>2 DEF s, S
<1> QED
  BY <1>1 DEF Good

\* The rows that a frame has.
LEMMA FrameRows ==
  ASSUME NEW d, NEW types, NEW cells, NEW n, Is(d, types, cells, n)
  PROVE  /\ d.schema_ = types /\ d.nrows_ = n /\ d.ncols_ = Len(types)
         /\ d.col_arr_.size_ = Len(types)
         /\ \A k \in 1 .. Len(types) :
              /\ Col(d, k - 1) = Column(types[k], cells[k])
              /\ Col(d, k - 1).type = types[k]
              /\ Col(d, k - 1).arr_ = ArrayOf(cells[k])
              /\ Col(d, k - 1).arr_.size_ = n
              /\ Elements(Col(d, k - 1).arr_) = cells[k]
              /\ \A r \in 1 .. n : CellAt(d, k, r) = cells[k][r]
         /\ RowsOf(d) = Grid(types, cells, n)
<1>1. /\ Good(types, cells, n) /\ d = FrameOf(types, cells, n) /\ IsSeq(types)
      /\ \A k \in 1 .. Len(types) : IsSeq(cells[k]) /\ Len(cells[k]) = n
  BY GoodSeqs DEF Is
<1>2. /\ d.schema_ = types /\ d.nrows_ = n /\ d.ncols_ = Len(types)
      /\ d.col_arr_.size_ = Len(types)
      /\ \A k \in 1 .. Len(types) :
           /\ Col(d, k - 1) = Column(types[k], cells[k])
           /\ Col(d, k - 1).type = types[k]
           /\ Col(d, k - 1).arr_ = ArrayOf(cells[k])
           /\ Col(d, k - 1).arr_.size_ = n
           /\ Elements(Col(d, k - 1).arr_) = cells[k]
           /\ \A r \in 1 .. n : CellAt(d, k, r) = cells[k][r]
  BY <1>1, FrameParts
<1>3. RowsOf(d) = Grid(types, cells, n)
  <2>1. RowsOf(d) = [r \in 1 .. n |-> [c \in 1 .. Len(types) |-> CellAt(d, c, r)]]
    BY <1>2 DEF RowsOf
  <2>2. ASSUME NEW r \in 1 .. n
        PROVE  [c \in 1 .. Len(types) |-> CellAt(d, c, r)] = GridRow(types, cells, r)
    BY <1>2 DEF GridRow
  <2> QED
    BY <2>1, <2>2 DEF Grid
<1> QED
  BY <1>2, <1>3

LEMMA GridIs ==
  ASSUME NEW types, NEW cells, NEW n, Good(types, cells, n)
  PROVE  /\ IsSeq(Grid(types, cells, n)) /\ Len(Grid(types, cells, n)) = n
         /\ \A r \in 1 .. n :
              /\ Grid(types, cells, n)[r] = GridRow(types, cells, r)
              /\ IsSeq(GridRow(types, cells, r))
              /\ Len(GridRow(types, cells, r)) = Len(types)
              /\ \A c \in 1 .. Len(types) : GridRow(types, cells, r)[c] = cells[c][r]
<1>1. n \in Nat /\ Len(types) \in Nat
  BY GoodSeqs
<1> DEFINE g == Grid(types, cells, n)
<1>2. g = [r \in 1 .. n |-> g[r]] /\ \A r \in 1 .. n : g[r] = GridRow(types, cells, r)
  BY DEF Grid
<1>3. ASSUME NEW r \in 1 .. n
      PROVE  /\ IsSeq(GridRow(types, cells, r))
             /\ Len(GridRow(types, cells, r)) = Len(types)
             /\ \A c \in 1 .. Len(types) : GridRow(types, cells, r)[c] = cells[c][r]
  <2> DEFINE x == GridRow(types, cells, r)
  <2>1. x = [c \in 1 .. Len(types) |-> x[c]] /\ \A c \in 1 .. Len(types) : x[c] = cells[c][r]
    BY DEF GridRow
  <2> HIDE DEF x
  <2>2. IsSeq(x) /\ Len(x) = Len(types)
    BY <1>1, <2>1, FunctionIsSeq
  <2> QED
    BY <2>1, <2>2 DEF x
<1> HIDE DEF g
<1>4. IsSeq(g) /\ Len(g) = n
  BY <1>1, <1>2, FunctionIsSeq
<1> QED
  BY <1>2, <1>3, <1>4 DEF g

\* The last element, and those before it.
LEMMA LastOf ==
  ASSUME NEW s, IsSeq(s), Len(s) > 0, NEW t, IsSeq(t), Len(s) = Len(t) + 1,
         \A k \in 1 .. Len(t) : s[k] = t[k]
  PROVE  Front(s) = t /\ Last(s) = s[Len(t) + 1]
<1>1. Len(t) \in Nat /\ Len(s) - 1 = Len(t) /\ Len(t) \in 0 .. Len(s)
  BY DEF IsSeq
<1>2. SubSeq(s, 1, Len(t)) = [k \in 1 .. Len(t) |-> s[k]]
  BY <1>1, FrontIs
<1>3. [k \in 1 .. Len(t) |-> s[k]] = t
  BY DEF IsSeq
<1> QED
  BY <1>1, <1>2, <1>3 DEF Front, Last

More(types, cells, s) ==
  [k \in 1 .. Len(types) + 1 |-> IF k <= Len(types) THEN cells[k] ELSE s]

LEMMA AddColumnGood ==
  ASSUME NEW types, NEW cells, NEW n, Good(types, cells, n),
         NEW t \in Type, NEW s \in Seq(FrameCell[t]), Len(types) > 0 => Len(s) = n
  PROVE  /\ Good(Append(types, t), More(types, cells, s), Len(s))
         /\ add_column(FrameOf(types, cells, n), Column(t, s))
              = FrameOf(Append(types, t), More(types, cells, s), Len(s))
<1> DEFINE types2 == Append(types, t)
           cells2 == More(types, cells, s)
<1>1. /\ IsSeq(types) /\ Len(types) \in Nat /\ n \in Nat
      /\ \A k \in 1 .. Len(types) :
              /\ types[k] \in Type /\ IsSeq(cells[k]) /\ Len(cells[k]) = n
              /\ \A r \in 1 .. n : cells[k][r] \in FrameCell[types[k]]
  BY GoodSeqs
<1>2. /\ IsSeq(s) /\ Len(s) \in Nat /\ \A r \in 1 .. Len(s) : s[r] \in FrameCell[t]
  <2> DEFINE S == FrameCell[t]
  <2>1. s \in Seq(S)
    OBVIOUS
  <2> HIDE DEF S
  <2>2. IsSeq(s) /\ Len(s) \in Nat /\ \A r \in 1 .. Len(s) : s[r] \in S
    BY <2>1, SeqIsSeq
  <2> QED
    BY <2>2 DEF S
<1>3. /\ types2 \in Seq(Type) /\ Len(types2) = Len(types) + 1
      /\ \A k \in 1 .. Len(types) + 1 : types2[k] = IF k <= Len(types) THEN types[k] ELSE t
  <2>1. types \in Seq(Type)
    BY DEF Good
  <2>2. types2 \in Seq(Type)
    BY <2>1
  <2> QED
    BY <1>1, <2>2, AppendIs
<1>4. \A k \in 1 .. Len(types) + 1 : cells2[k] = IF k <= Len(types) THEN cells[k] ELSE s
  BY DEF More
<1>5. Good(types2, cells2, Len(s))
  <2>1. ASSUME NEW k \in 1 .. Len(types2)
        PROVE  /\ IsSeq(cells2[k]) /\ Len(cells2[k]) = Len(s)
               /\ \A r \in 1 .. Len(s) : cells2[k][r] \in FrameCell[types2[k]]
    <3>1. CASE k <= Len(types)
      <4>1. k \in 1 .. Len(types) /\ cells2[k] = cells[k] /\ types2[k] = types[k]
            /\ Len(s) = n
        BY <1>1, <1>3, <1>4, <3>1
      <4> QED
        BY <1>1, <4>1
    <3>2. CASE ~(k <= Len(types))
      <4>1. cells2[k] = s /\ types2[k] = t
        BY <1>1, <1>3, <1>4, <3>2
      <4> QED
        BY <1>2, <4>1
    <3> QED
      BY <3>1, <3>2
  <2> QED
    BY <1>2, <1>3, <2>1, IsGood
<1>6. add_column(FrameOf(types, cells, n), Column(t, s)) = FrameOf(types2, cells2, Len(s))
  <2> DEFINE m == IF Len(types) = 0 THEN Len(s) ELSE n
  <2>1. m = Len(s)
    BY <1>1
  <2>2. add_column(FrameOf(types, cells, n), Column(t, s))
          = FrameOf(Append(types, t),
                    [k \in 1 .. Len(types) + 1 |-> IF k <= Len(types) THEN cells[k] ELSE s], m)
    BY <1>1, <1>2, AddColumnIs
  <2> HIDE DEF m
  <2>3. add_column(FrameOf(types, cells, n), Column(t, s)) = FrameOf(types2, cells2, m)
    BY <2>2, Zenon DEF More
  <2> QED
    BY <2>1, <2>3
<1> QED
  BY <1>5, <1>6

LEMMA AddColumnGrid ==
  ASSUME NEW types, NEW cells, NEW n, Good(types, cells, n),
         NEW t \in Type, NEW s \in Seq(FrameCell[t]), Len(types) > 0 => Len(s) = n,
         NEW types2, NEW cells2, NEW m, Good(types2, cells2, m),
         Len(types2) = Len(types) + 1, Len(s) = m,
         \A k \in 1 .. Len(types) + 1 : cells2[k] = IF k <= Len(types) THEN cells[k] ELSE s
  PROVE  LET rows  == Grid(types, cells, n)
             rows2 == Grid(types2, cells2, m)
         IN  /\ types # <<>> => Len(rows2) = Len(rows)
             /\ \A r \in DOMAIN rows2 :
                  /\ Len(rows2[r]) = Len(types2)
                  /\ Front(rows2[r]) = IF types = <<>> THEN <<>> ELSE rows[r]
                  /\ Last(rows2[r]) \in FrameCell[t]
<1> DEFINE rows  == Grid(types, cells, n)
           rows2 == Grid(types2, cells2, m)
<1>1. /\ IsSeq(types) /\ Len(types) \in Nat /\ n \in Nat
      /\ \A k \in 1 .. Len(types) :
              /\ types[k] \in Type /\ IsSeq(cells[k]) /\ Len(cells[k]) = n
              /\ \A r \in 1 .. n : cells[k][r] \in FrameCell[types[k]]
  BY GoodSeqs
<1>2. /\ IsSeq(s) /\ Len(s) \in Nat /\ \A r \in 1 .. Len(s) : s[r] \in FrameCell[t]
  <2> DEFINE S == FrameCell[t]
  <2>1. s \in Seq(S)
    OBVIOUS
  <2> HIDE DEF S
  <2>2. IsSeq(s) /\ Len(s) \in Nat /\ \A r \in 1 .. Len(s) : s[r] \in S
    BY <2>1, SeqIsSeq
  <2> QED
    BY <2>2 DEF S
<1>7. /\ IsSeq(rows) /\ Len(rows) = n
      /\ \A r \in 1 .. n :
           /\ rows[r] = GridRow(types, cells, r)
           /\ IsSeq(GridRow(types, cells, r))
           /\ Len(GridRow(types, cells, r)) = Len(types)
           /\ \A c \in 1 .. Len(types) : GridRow(types, cells, r)[c] = cells[c][r]
  BY GridIs
<1>8. /\ IsSeq(rows2) /\ Len(rows2) = m
      /\ \A r \in 1 .. m :
           /\ rows2[r] = GridRow(types2, cells2, r)
           /\ IsSeq(GridRow(types2, cells2, r))
           /\ Len(GridRow(types2, cells2, r)) = Len(types2)
           /\ \A c \in 1 .. Len(types2) : GridRow(types2, cells2, r)[c] = cells2[c][r]
  BY GridIs
<1> HIDE DEF rows, rows2
<1>9. types = <<>> <=> Len(types) = 0
  BY <1>1, NoElements
<1>10. types # <<>> => m = n
  BY <1>1, <1>9
<1>11. ASSUME NEW r \in DOMAIN rows2
       PROVE  /\ Len(rows2[r]) = Len(types2)
              /\ Front(rows2[r]) = IF types = <<>> THEN <<>> ELSE rows[r]
              /\ Last(rows2[r]) \in FrameCell[t]
  <2>1. r \in 1 .. m
    BY <1>8 DEF IsSeq
  <2> DEFINE x == rows2[r]
  <2>2. /\ IsSeq(x) /\ Len(x) = Len(types) + 1
        /\ \A c \in 1 .. Len(types) + 1 :
             x[c] = IF c <= Len(types) THEN cells[c][r] ELSE s[r]
    <3>1. /\ x = GridRow(types2, cells2, r) /\ IsSeq(x) /\ Len(x) = Len(types) + 1
          /\ \A c \in 1 .. Len(types) + 1 : x[c] = cells2[c][r]
      BY <1>8, <2>1
    <3> HIDE DEF x
    <3> QED
      BY <3>1
  <2> DEFINE y == IF types = <<>> THEN <<>> ELSE rows[r]
  <2>3. /\ IsSeq(y) /\ Len(y) = Len(types) /\ \A c \in 1 .. Len(types) : y[c] = cells[c][r]
    <3>1. CASE types = <<>>
      BY <3>1, <1>9, NoElements
    <3>2. CASE types # <<>>
      <4>1. r \in 1 .. n
        BY <1>10, <2>1, <3>2
      <4> QED
        BY <3>2, <4>1, <1>7
    <3> QED
      BY <3>1, <3>2
  <2>4. s[r] \in FrameCell[t]
    BY <1>2, <2>1
  <2> HIDE DEF x, y
  <2>5. Front(x) = y /\ Last(x) = x[Len(types) + 1]
    <3>1. Len(x) > 0 /\ Len(x) = Len(y) + 1 /\ \A c \in 1 .. Len(y) : x[c] = y[c]
      BY <1>1, <2>2, <2>3
    <3> QED
      BY <2>2, <2>3, <3>1, LastOf
  <2>6. Last(x) = s[r]
    BY <1>1, <2>2, <2>5
  <2> QED
    BY <2>2, <2>4, <2>5, <2>6 DEF x, y
<1> QED
  BY <1>7, <1>8, <1>10, <1>11 DEF rows, rows2

LEMMA AddRowGood ==
  ASSUME NEW types, NEW cells, NEW n, Good(types, cells, n),
         NEW fields, DOMAIN fields = 1 .. Len(types),
         \A k \in 1 .. Len(types) : fields[k] \in FrameCell[types[k]]
  PROVE  /\ Good(types, Longer(types, cells, fields), n + 1)
         /\ add_row(FrameOf(types, cells, n), fields)
              = FrameOf(types, Longer(types, cells, fields), n + 1)
         /\ \A k \in 1 .. Len(types) :
              /\ Longer(types, cells, fields)[k][n + 1] = fields[k]
              /\ \A r \in 1 .. n : Longer(types, cells, fields)[k][r] = cells[k][r]
<1> DEFINE cells2 == Longer(types, cells, fields)
<1>1. /\ IsSeq(types) /\ Len(types) \in Nat /\ n \in Nat
      /\ \A k \in 1 .. Len(types) :
              /\ types[k] \in Type /\ IsSeq(cells[k]) /\ Len(cells[k]) = n
              /\ \A r \in 1 .. n : cells[k][r] \in FrameCell[types[k]]
  BY GoodSeqs
<1>2. \A k \in 1 .. Len(types) : cells2[k] = Append(cells[k], fields[k])
  BY DEF Longer
<1>3. add_row(FrameOf(types, cells, n), fields) = FrameOf(types, cells2, n + 1)
  BY <1>1, AddRowIs
<1> HIDE DEF cells2
<1>4. ASSUME NEW k \in 1 .. Len(types)
      PROVE  /\ IsSeq(cells2[k]) /\ Len(cells2[k]) = n + 1
             /\ cells2[k][n + 1] = fields[k]
             /\ \A r \in 1 .. n : cells2[k][r] = cells[k][r]
             /\ \A r \in 1 .. n + 1 : cells2[k][r] \in FrameCell[types[k]]
  <2> DEFINE x == cells2[k]
             y == cells[k]
             v == fields[k]
             S == FrameCell[types[k]]
  <2>1. x = Append(y, v) /\ IsSeq(y) /\ Len(y) = n /\ n \in Nat
    BY <1>1, <1>2
  <2>2. v \in S /\ \A r \in 1 .. n : y[r] \in S
    BY <1>1
  <2> HIDE DEF x, y, v, S
  <2>3. /\ IsSeq(x) /\ Len(x) = n + 1
        /\ x = [r \in 1 .. n + 1 |-> IF r <= n THEN y[r] ELSE v]
    BY <2>1, AppendIs
  <2>4. x[n + 1] = v /\ \A r \in 1 .. n : x[r] = y[r]
    BY <2>1, <2>3
  <2>5. \A r \in 1 .. n + 1 : x[r] \in S
    BY <2>1, <2>2, <2>3
  <2> QED
    BY <2>3, <2>4, <2>5 DEF x, y, v, S
<1>5. Good(types, cells2, n + 1)
  <2>1. types \in Seq(Type) /\ n + 1 \in Nat
    BY <1>1 DEF Good
  <2> QED
    BY <1>4, <2>1, IsGood
<1> QED
  BY <1>3, <1>4, <1>5 DEF cells2

LEMMA AddRowGrid ==
  ASSUME NEW types, NEW cells, NEW n, Good(types, cells, n),
         NEW cells2, NEW m, Good(types, cells2, m), m = n + 1,
         \A k \in 1 .. Len(types), r \in 1 .. n : cells2[k][r] = cells[k][r]
  PROVE  LET rows  == Grid(types, cells, n)
             rows2 == Grid(types, cells2, m)
         IN  /\ rows2 # <<>> /\ Front(rows2) = rows
             /\ DOMAIN Last(rows2) = DOMAIN types
             /\ \A c \in DOMAIN types : Last(rows2)[c] \in FrameCell[types[c]]
<1> DEFINE rows  == Grid(types, cells, n)
           rows2 == Grid(types, cells2, m)
<1>1. /\ IsSeq(types) /\ Len(types) \in Nat /\ n \in Nat /\ m \in Nat /\ m \in 1 .. m
      /\ DOMAIN types = 1 .. Len(types)
      /\ \A k \in 1 .. Len(types), r \in 1 .. m : cells2[k][r] \in FrameCell[types[k]]
  <2>1. /\ IsSeq(types) /\ Len(types) \in Nat /\ n \in Nat /\ m \in Nat
        /\ \A k \in 1 .. Len(types), r \in 1 .. m : cells2[k][r] \in FrameCell[types[k]]
    BY GoodSeqs, Zenon
  <2>2. m \in 1 .. m
    BY <2>1
  <2> QED
    BY <2>1, <2>2 DEF IsSeq
<1>2. /\ IsSeq(rows) /\ Len(rows) = n
      /\ \A r \in 1 .. n :
           /\ rows[r] = GridRow(types, cells, r)
           /\ IsSeq(GridRow(types, cells, r))
           /\ Len(GridRow(types, cells, r)) = Len(types)
           /\ \A c \in 1 .. Len(types) : GridRow(types, cells, r)[c] = cells[c][r]
  BY GridIs
<1>3. /\ IsSeq(rows2) /\ Len(rows2) = m
      /\ \A r \in 1 .. m :
           /\ rows2[r] = GridRow(types, cells2, r)
           /\ IsSeq(GridRow(types, cells2, r))
           /\ Len(GridRow(types, cells2, r)) = Len(types)
           /\ \A c \in 1 .. Len(types) : GridRow(types, cells2, r)[c] = cells2[c][r]
  BY GridIs
<1> HIDE DEF rows, rows2
<1>4. ASSUME NEW r \in 1 .. n PROVE rows2[r] = rows[r]
  <2>1. r \in 1 .. m
    BY <1>1
  <2>2. GridRow(types, cells2, r) = GridRow(types, cells, r)
    BY <1>2, <1>3, <2>1, SameSeq
  <2> QED
    BY <1>2, <1>3, <2>1, <2>2
<1>5. Front(rows2) = rows /\ Last(rows2) = rows2[m]
  <2>1. Len(rows2) > 0 /\ Len(rows2) = Len(rows) + 1 /\ \A r \in 1 .. Len(rows) : rows2[r] = rows[r]
    BY <1>1, <1>2, <1>3, <1>4
  <2> QED
    BY <1>2, <1>3, <2>1, LastOf
<1>6. rows2 # <<>>
  BY <1>1, <1>3, NoElements
<1>7. DOMAIN Last(rows2) = 1 .. Len(types)
  BY <1>1, <1>3, <1>5 DEF IsSeq
<1>8. \A c \in 1 .. Len(types) : Last(rows2)[c] \in FrameCell[types[c]]
  BY <1>1, <1>3, <1>5
<1> QED
  BY <1>1, <1>5, <1>6, <1>7, <1>8 DEF rows, rows2

\* One cell of one column is set.
WithCell(types, cells, k, i, v) == Put(types, cells, k, [cells[k] EXCEPT ![i] = v])

LEMMA SetCellGood ==
  ASSUME NEW types, NEW cells, NEW n, Good(types, cells, n),
         NEW k \in 1 .. Len(types), NEW i \in 1 .. n, NEW v \in FrameCell[types[k]]
  PROVE  /\ Good(types, WithCell(types, cells, k, i, v), n)
         /\ WithColumn(FrameOf(types, cells, n), k - 1, set(ArrayOf(cells[k]), i - 1, v))
              = FrameOf(types, WithCell(types, cells, k, i, v), n)
         /\ \A c \in 1 .. Len(types), r \in 1 .. n :
              WithCell(types, cells, k, i, v)[c][r]
                = IF c = k /\ r = i THEN v ELSE cells[c][r]
<1> DEFINE new    == [cells[k] EXCEPT ![i] = v]
           cells2 == WithCell(types, cells, k, i, v)
<1>1. /\ IsSeq(types) /\ Len(types) \in Nat /\ n \in Nat /\ types \in Seq(Type)
      /\ \A c \in 1 .. Len(types) :
              /\ types[c] \in Type /\ IsSeq(cells[c]) /\ Len(cells[c]) = n
              /\ \A r \in 1 .. n : cells[c][r] \in FrameCell[types[c]]
  BY GoodSeqs DEF Good
<1>2. /\ IsSeq(new) /\ Len(new) = n
      /\ set(ArrayOf(cells[k]), i - 1, v) = ArrayOf(new)
      /\ \A r \in 1 .. n : new[r] = IF r = i THEN v ELSE cells[k][r]
  <2> DEFINE e == cells[k]
  <2>1. IsSeq(e) /\ Len(e) = n
    BY <1>1
  <2> HIDE DEF e
  <2>2. i - 1 \in 0 .. Len(e) - 1 /\ (i - 1) + 1 = i
    BY <1>1, <2>1
  <2>3. /\ IsSeq([e EXCEPT ![(i - 1) + 1] = v]) /\ Len([e EXCEPT ![(i - 1) + 1] = v]) = Len(e)
        /\ set(ArrayOf(e), i - 1, v) = ArrayOf([e EXCEPT ![(i - 1) + 1] = v])
    BY <2>1, <2>2, ArraySet
  <2>4. [e EXCEPT ![(i - 1) + 1] = v] = [e EXCEPT ![i] = v]
    BY <2>2
  <2>5. \A r \in 1 .. n : [e EXCEPT ![i] = v][r] = IF r = i THEN v ELSE e[r]
    BY <1>1, <2>1 DEF IsSeq
  <2>6. /\ IsSeq([e EXCEPT ![i] = v]) /\ Len([e EXCEPT ![i] = v]) = n
        /\ set(ArrayOf(e), i - 1, v) = ArrayOf([e EXCEPT ![i] = v])
    BY <2>1, <2>3, <2>4
  <2> QED
    BY <2>5, <2>6, Zenon DEF e
<1>3. \A c \in 1 .. Len(types) : cells2[c] = IF c = k THEN new ELSE cells[c]
  BY DEF WithCell, Put
<1>4. WithColumn(FrameOf(types, cells, n), k - 1, ArrayOf(new)) = FrameOf(types, cells2, n)
  <2> HIDE DEF new
  <2>1. WithColumn(FrameOf(types, cells, n), k - 1, ArrayOf(new))
          = FrameOf(types, [c \in 1 .. Len(types) |-> IF c = k THEN new ELSE cells[c]], n)
    BY <1>1, WithColumnIs
  <2>2. [c \in 1 .. Len(types) |-> IF c = k THEN new ELSE cells[c]] = cells2
    BY Zenon DEF WithCell, Put, new
  <2> QED
    BY <2>1, <2>2, Zenon
<1> HIDE DEF new, cells2
<1>5. ASSUME NEW c \in 1 .. Len(types)
      PROVE  /\ IsSeq(cells2[c]) /\ Len(cells2[c]) = n
             /\ \A r \in 1 .. n : /\ cells2[c][r] = IF c = k /\ r = i THEN v ELSE cells[c][r]
                                  /\ cells2[c][r] \in FrameCell[types[c]]
  <2>1. CASE c = k
    BY <1>1, <1>2, <1>3, <2>1
  <2>2. CASE c # k
    BY <1>1, <1>3, <2>2
  <2> QED
    BY <2>1, <2>2
<1>6. Good(types, cells2, n)
  BY <1>1, <1>5, IsGood
<1> QED
  BY <1>2, <1>4, <1>5, <1>6 DEF cells2

OneCell(types, rows, rows2, i, k) ==
  /\ DOMAIN rows2 = DOMAIN rows /\ i \in DOMAIN rows /\ k \in DOMAIN types
  /\ rows2[i][k] \in FrameCell[types[k]]
  /\ rows2 = [rows EXCEPT ![i][k] = rows2[i][k]]

LEMMA SetCellGrid ==
  ASSUME NEW types, NEW cells, NEW n, Good(types, cells, n),
         NEW cells2, Good(types, cells2, n),
         NEW k \in 1 .. Len(types), NEW i \in 1 .. n,
         \A c \in 1 .. Len(types), r \in 1 .. n :
           c # k \/ r # i => cells2[c][r] = cells[c][r]
  PROVE  OneCell(types, Grid(types, cells, n), Grid(types, cells2, n), i, k)
<1> DEFINE rows  == Grid(types, cells, n)
           rows2 == Grid(types, cells2, n)
<1>1. /\ IsSeq(types) /\ Len(types) \in Nat /\ n \in Nat
      /\ DOMAIN types = 1 .. Len(types)
      /\ \A c \in 1 .. Len(types), r \in 1 .. n : cells2[c][r] \in FrameCell[types[c]]
  <2>1. /\ IsSeq(types) /\ Len(types) \in Nat /\ n \in Nat
        /\ \A c \in 1 .. Len(types), r \in 1 .. n : cells2[c][r] \in FrameCell[types[c]]
    BY GoodSeqs, Zenon
  <2> QED
    BY <2>1 DEF IsSeq
<1>2. /\ IsSeq(rows) /\ Len(rows) = n
      /\ \A r \in 1 .. n :
           /\ rows[r] = GridRow(types, cells, r)
           /\ IsSeq(GridRow(types, cells, r))
           /\ Len(GridRow(types, cells, r)) = Len(types)
           /\ \A c \in 1 .. Len(types) : GridRow(types, cells, r)[c] = cells[c][r]
  BY GridIs
<1>3. /\ IsSeq(rows2) /\ Len(rows2) = n
      /\ \A r \in 1 .. n :
           /\ rows2[r] = GridRow(types, cells2, r)
           /\ IsSeq(GridRow(types, cells2, r))
           /\ Len(GridRow(types, cells2, r)) = Len(types)
           /\ \A c \in 1 .. Len(types) : GridRow(types, cells2, r)[c] = cells2[c][r]
  BY GridIs
<1> HIDE DEF rows, rows2
<1>4. /\ rows = [r \in 1 .. n |-> rows[r]] /\ rows2 = [r \in 1 .. n |-> rows2[r]]
      /\ \A r \in 1 .. n : /\ rows[r] = [c \in 1 .. Len(types) |-> rows[r][c]]
                           /\ rows2[r] = [c \in 1 .. Len(types) |-> rows2[r][c]]
      /\ \A r \in 1 .. n, c \in 1 .. Len(types) :
           c # k \/ r # i => rows2[r][c] = rows[r][c]
  <2>1. rows = [r \in 1 .. n |-> rows[r]] /\ rows2 = [r \in 1 .. n |-> rows2[r]]
    BY <1>2, <1>3 DEF IsSeq
  <2>2. ASSUME NEW r \in 1 .. n
        PROVE  /\ rows[r] = [c \in 1 .. Len(types) |-> rows[r][c]]
               /\ rows2[r] = [c \in 1 .. Len(types) |-> rows2[r][c]]
    <3> DEFINE x == rows[r]
               y == rows2[r]
    <3>1. IsSeq(x) /\ Len(x) = Len(types) /\ IsSeq(y) /\ Len(y) = Len(types)
      BY <1>2, <1>3
    <3> HIDE DEF x, y
    <3>2. x = [c \in 1 .. Len(types) |-> x[c]] /\ y = [c \in 1 .. Len(types) |-> y[c]]
      BY <3>1 DEF IsSeq
    <3> QED
      BY <3>2, Zenon DEF x, y
  <2>3. \A r \in 1 .. n, c \in 1 .. Len(types) :
           c # k \/ r # i => rows2[r][c] = rows[r][c]
    BY <1>2, <1>3
  <2> QED
    BY <2>1, <2>2, <2>3
<1>5. rows2[i] = [rows[i] EXCEPT ![k] = rows2[i][k]]
  BY <1>4
<1>6. \A r \in 1 .. n : r # i => rows2[r] = rows[r]
  <2>1. SUFFICES ASSUME NEW r \in 1 .. n, r # i PROVE rows2[r] = rows[r]
    OBVIOUS
  <2>2. \A c \in 1 .. Len(types) : rows2[r][c] = rows[r][c]
    BY <1>4, <2>1
  <2> QED
    BY <1>4, <2>2
<1>7. rows2 = [rows EXCEPT ![i][k] = rows2[i][k]]
  <2> DEFINE z == [rows[i] EXCEPT ![k] = rows2[i][k]]
  <2> HIDE DEF z
  <2>1. rows2 = [rows EXCEPT ![i] = z]
    BY <1>4, <1>5, <1>6 DEF z
  <2>2. [rows EXCEPT ![i][k] = rows2[i][k]] = [rows EXCEPT ![i] = z]
    BY Zenon DEF z
  <2> QED
    BY <2>1, <2>2, Zenon
<1>8. rows2[i][k] \in FrameCell[types[k]]
  BY <1>1, <1>3
<1>9. DOMAIN rows2 = DOMAIN rows /\ i \in DOMAIN rows /\ k \in DOMAIN types
  BY <1>1, <1>4
<1> QED
  BY <1>7, <1>8, <1>9, Zenon DEF rows, rows2, OneCell
-----------------------------------------------------------------------------
(***************************************************************************)
(* The operations of a frame.                                              *)
(***************************************************************************)
\* A frame of some cells.
FrameInv == \E cells : Is(df, df.schema_, cells, df.nrows_)

\* What a field of a row can be, of each type.
Field(t) == IF t = "S" THEN Seq(Char) \cup {Garbage} ELSE FrameCell[t]

RowInv == /\ row = [schema_ |-> row.schema_, fields |-> row.fields]
          /\ row.schema_ \in Seq(Type)
          /\ row.fields = [k \in 1 .. Len(row.schema_) |-> row.fields[k]]
          /\ \A k \in 1 .. Len(row.schema_) : row.fields[k] \in Field(row.schema_[k])

Programs == program \in {"going", "aborted", "crashed", "exit"}

TableStep == T!Next \/ (df.schema_' = df.schema_ /\ RowsOf(df)' = RowsOf(df))

LEMMA SameEnds == \A s : T!Front(s) = Front(s) /\ T!Last(s) = Last(s)
  BY DEF T!Front, Front, T!Last, Last

\* A frame is made of what a step leaves.
LEMMA FrameFrom ==
  ASSUME NEW d, NEW types, NEW cells, NEW n, Is(d, types, cells, n)
  PROVE  \E x : Is(d, d.schema_, x, d.nrows_)
<1>1. d.schema_ = types /\ d.nrows_ = n
  BY FrameRows
<1> QED
  BY <1>1, Zenon

LEMMA EmptyFrame ==
  ASSUME NEW types \in Seq(Type)
  PROVE  /\ Is(Frame(types), types, [k \in 1 .. Len(types) |-> <<>>], 0)
         /\ Frame(types).schema_ = types /\ RowsOf(Frame(types)) = <<>>
<1> DEFINE cells == [k \in 1 .. Len(types) |-> <<>>]
<1>1. IsSeq(types)
  BY SeqIsSeq
<1>2. \A k \in 1 .. Len(types) : cells[k] = <<>>
  OBVIOUS
<1>3. Frame(types) = FrameOf(types, cells, 0)
  BY <1>1, FrameNew
<1> HIDE DEF cells
<1>4. Good(types, cells, 0)
  <2>1. \A k \in 1 .. Len(types) :
           /\ IsSeq(cells[k]) /\ Len(cells[k]) = 0
           /\ \A r \in 1 .. 0 : cells[k][r] \in FrameCell[types[k]]
    BY <1>2, NoElements
  <2> QED
    BY <2>1, IsGood
<1>5. Is(Frame(types), types, cells, 0)
  BY <1>3, <1>4 DEF Is
<1>6. Frame(types).schema_ = types /\ RowsOf(Frame(types)) = Grid(types, cells, 0)
  BY <1>5, FrameRows
<1>7. Grid(types, cells, 0) = <<>>
  BY <1>4, GridIs, NoElements
<1> QED
  BY <1>5, <1>6, <1>7 DEF cells

LEMMA MakeFrame ==
  ASSUME NEW types \in Seq(Type), df' = Frame(types)
  PROVE  FrameInv' /\ TableStep
<1>1. /\ Is(df', types, [k \in 1 .. Len(types) |-> <<>>], 0)
      /\ df'.schema_ = types /\ RowsOf(df') = <<>>
  BY EmptyFrame
<1>2. FrameInv'
  BY <1>1, FrameFrom DEF FrameInv
<1>3. T!New
  BY <1>1, FrameCells DEF T!New
<1> QED
  BY <1>2, <1>3 DEF TableStep, T!Next

LEMMA MakeColumn ==
  ASSUME FrameInv, NEW t \in Type, NEW s \in Seq(FrameCell[t]),
         df.ncols_ > 0 => Len(s) = df.nrows_, df' = add_column(df, Column(t, s))
  PROVE  FrameInv' /\ TableStep
<1> DEFINE types == df.schema_
           n     == df.nrows_
<1>1. PICK cells : Is(df, types, cells, n)
  BY DEF FrameInv
<1>2. /\ df.ncols_ = Len(types) /\ RowsOf(df) = Grid(types, cells, n)
      /\ Good(types, cells, n) /\ df = FrameOf(types, cells, n)
      /\ Len(types) > 0 => Len(s) = n
  BY <1>1, FrameRows DEF Is
<1> HIDE DEF types, n
<1> DEFINE types2 == Append(types, t)
           cells2 == More(types, cells, s)
           m      == Len(s)
<1>3. Good(types2, cells2, m) /\ df' = FrameOf(types2, cells2, m)
  BY <1>2, AddColumnGood
<1>4. /\ Len(types2) = Len(types) + 1
      /\ \A k \in 1 .. Len(types) + 1 : cells2[k] = IF k <= Len(types) THEN cells[k] ELSE s
  BY <1>2, AppendIs, GoodSeqs DEF More
<1>5. Is(df', types2, cells2, m)
  BY <1>3 DEF Is
<1> HIDE DEF types2, cells2, m
<1>6. df'.schema_ = types2 /\ RowsOf(df') = Grid(types2, cells2, m)
  BY <1>5, FrameRows
<1>7. /\ types # <<>> => Len(RowsOf(df')) = Len(RowsOf(df))
      /\ \A r \in DOMAIN RowsOf(df') :
           /\ Len(RowsOf(df')[r]) = Len(types2)
           /\ Front(RowsOf(df')[r]) = IF types = <<>> THEN <<>> ELSE RowsOf(df)[r]
           /\ Last(RowsOf(df')[r]) \in FrameCell[t]
  <2>1. (Len(types) > 0 => Len(s) = n) /\ Len(s) = m
    BY <1>2 DEF m
  <2>2. LET rows  == Grid(types, cells, n)
            rows2 == Grid(types2, cells2, m)
        IN  /\ types # <<>> => Len(rows2) = Len(rows)
            /\ \A r \in DOMAIN rows2 :
                 /\ Len(rows2[r]) = Len(types2)
                 /\ Front(rows2[r]) = IF types = <<>> THEN <<>> ELSE rows[r]
                 /\ Last(rows2[r]) \in FrameCell[t]
    BY <1>2, <1>3, <1>4, <2>1, AddColumnGrid
  <2> QED
    BY <1>2, <1>6, <2>2
<1>8. T!AddColumn
  <2>1. t \in DOMAIN FrameCell /\ df'.schema_ = Append(df.schema_, t)
    BY <1>6, FrameCells DEF types2, types
  <2>2. /\ df.schema_ # <<>> => Len(RowsOf(df')) = Len(RowsOf(df))
        /\ \A r \in DOMAIN RowsOf(df') :
           /\ Len(RowsOf(df')[r]) = Len(df'.schema_)
           /\ Front(RowsOf(df')[r]) = IF df.schema_ = <<>> THEN <<>> ELSE RowsOf(df)[r]
           /\ Last(RowsOf(df')[r]) \in FrameCell[t]
    BY <1>6, <1>7 DEF types
  <2> QED
    BY <2>1, <2>2, SameEnds DEF T!AddColumn
<1>9. FrameInv'
  BY <1>5, FrameFrom DEF FrameInv
<1> QED
  BY <1>8, <1>9 DEF TableStep, T!Next

LEMMA AddFields ==
  ASSUME FrameInv, NEW fields, DOMAIN fields = 1 .. Len(df.schema_),
         \A k \in 1 .. Len(df.schema_) : fields[k] \in FrameCell[df.schema_[k]],
         df' = add_row(df, fields)
  PROVE  FrameInv' /\ TableStep /\ df'.schema_ = df.schema_
<1> DEFINE types == df.schema_
           n     == df.nrows_
<1>1. PICK cells : Is(df, types, cells, n)
  BY DEF FrameInv
<1>2. /\ RowsOf(df) = Grid(types, cells, n) /\ n \in Nat
      /\ Good(types, cells, n) /\ df = FrameOf(types, cells, n)
      /\ DOMAIN types = 1 .. Len(types)
  <2>1. RowsOf(df) = Grid(types, cells, n) /\ Good(types, cells, n) /\ df = FrameOf(types, cells, n)
    BY <1>1, FrameRows DEF Is
  <2> HIDE DEF types, n
  <2>2. IsSeq(types) /\ n \in Nat
    BY <2>1, GoodSeqs
  <2> QED
    BY <2>1, <2>2 DEF IsSeq
<1>3. /\ DOMAIN fields = 1 .. Len(types)
      /\ \A k \in 1 .. Len(types) : fields[k] \in FrameCell[types[k]]
  OBVIOUS
<1>0. types = df.schema_
  OBVIOUS
<1> HIDE DEF types, n
<1> DEFINE cells2 == Longer(types, cells, fields)
           m      == n + 1
<1>4. /\ Good(types, cells2, m) /\ df' = FrameOf(types, cells2, m)
      /\ \A k \in 1 .. Len(types), r \in 1 .. n : cells2[k][r] = cells[k][r]
  BY <1>2, <1>3, AddRowGood
<1>5. Is(df', types, cells2, m)
  BY <1>4 DEF Is
<1>6. m = n + 1
  OBVIOUS
<1> HIDE DEF cells2, m
<1>7. df'.schema_ = types /\ RowsOf(df') = Grid(types, cells2, m)
  BY <1>5, FrameRows
<1>8. /\ RowsOf(df') # <<>> /\ Front(RowsOf(df')) = RowsOf(df)
      /\ DOMAIN Last(RowsOf(df')) = DOMAIN types
      /\ \A c \in DOMAIN types : Last(RowsOf(df'))[c] \in FrameCell[types[c]]
  <2>1. LET rows  == Grid(types, cells, n)
            rows2 == Grid(types, cells2, m)
        IN  /\ rows2 # <<>> /\ Front(rows2) = rows
            /\ DOMAIN Last(rows2) = DOMAIN types
            /\ \A c \in DOMAIN types : Last(rows2)[c] \in FrameCell[types[c]]
    BY <1>2, <1>4, <1>6, AddRowGrid
  <2> QED
    BY <1>2, <1>7, <2>1
<1>9. T!AddRow
  BY <1>0, <1>7, <1>8, SameEnds DEF T!AddRow
<1>10. FrameInv'
  BY <1>5, FrameFrom DEF FrameInv
<1> QED
  BY <1>0, <1>7, <1>9, <1>10 DEF TableStep, T!Next

LEMMA SetOneCell ==
  ASSUME FrameInv, NEW k \in 1 .. Len(df.schema_), NEW i \in 1 .. df.nrows_,
         NEW v \in FrameCell[df.schema_[k]],
         df' = WithColumn(df, k - 1, set(Col(df, k - 1).arr_, i - 1, v))
  PROVE  FrameInv' /\ TableStep /\ df'.schema_ = df.schema_
<1> DEFINE types == df.schema_
           n     == df.nrows_
<1>1. PICK cells : Is(df, types, cells, n)
  BY DEF FrameInv
<1>2. /\ RowsOf(df) = Grid(types, cells, n)
      /\ Good(types, cells, n) /\ df = FrameOf(types, cells, n)
      /\ Col(df, k - 1).arr_ = ArrayOf(cells[k])
  BY <1>1, FrameRows DEF Is
<1>3. k \in 1 .. Len(types) /\ i \in 1 .. n /\ v \in FrameCell[types[k]] /\ types = df.schema_
  OBVIOUS
<1> HIDE DEF types, n
<1> DEFINE cells2 == WithCell(types, cells, k, i, v)
<1>4. /\ Good(types, cells2, n)
      /\ WithColumn(FrameOf(types, cells, n), k - 1, set(ArrayOf(cells[k]), i - 1, v))
           = FrameOf(types, cells2, n)
      /\ \A c \in 1 .. Len(types), r \in 1 .. n :
           cells2[c][r] = IF c = k /\ r = i THEN v ELSE cells[c][r]
  BY <1>2, <1>3, SetCellGood
<1> HIDE DEF cells2
<1>5. Is(df', types, cells2, n)
  BY <1>2, <1>4 DEF Is
<1>6. df'.schema_ = types /\ RowsOf(df') = Grid(types, cells2, n)
  BY <1>5, FrameRows
<1>7. /\ DOMAIN RowsOf(df') = DOMAIN RowsOf(df)
      /\ i \in DOMAIN RowsOf(df) /\ k \in DOMAIN types
      /\ RowsOf(df')[i][k] \in FrameCell[types[k]]
      /\ RowsOf(df') = [RowsOf(df) EXCEPT ![i][k] = RowsOf(df')[i][k]]
  <2>1. \A c \in 1 .. Len(types), r \in 1 .. n : c # k \/ r # i => cells2[c][r] = cells[c][r]
    BY <1>4
  <2>2. OneCell(types, Grid(types, cells, n), Grid(types, cells2, n), i, k)
    BY <1>2, <1>3, <1>4, <2>1, SetCellGrid
  <2>3. OneCell(types, RowsOf(df), RowsOf(df'), i, k)
    BY <1>2, <1>6, <2>2
  <2> QED
    BY <2>3, Zenon DEF OneCell
<1>8. T!SetCell
  BY <1>3, <1>6, <1>7, Zenon DEF T!SetCell
<1>9. FrameInv'
  BY <1>5, FrameFrom DEF FrameInv
<1> QED
  BY <1>3, <1>6, <1>8, <1>9 DEF TableStep, T!Next

LEMMA FrameParts2 ==
  ASSUME FrameInv
  PROVE  /\ df.schema_ \in Seq(Type) /\ Len(df.schema_) \in Nat
         /\ DOMAIN df.schema_ = 1 .. Len(df.schema_)
         /\ df.nrows_ \in Nat /\ df.ncols_ = Len(df.schema_)
         /\ df.col_arr_.size_ = Len(df.schema_)
         /\ \A k \in 1 .. Len(df.schema_) :
              /\ df.schema_[k] \in Type
              /\ Col(df, k - 1).type = df.schema_[k]
              /\ Col(df, k - 1).arr_.size_ = df.nrows_
              /\ \A r \in 1 .. df.nrows_ : CellAt(df, k, r) \in FrameCell[df.schema_[k]]
<1> DEFINE types == df.schema_
           n     == df.nrows_
<1>1. PICK cells : Is(df, types, cells, n)
  BY DEF FrameInv
<1>2. types = df.schema_ /\ n = df.nrows_
  OBVIOUS
<1> HIDE DEF types, n
<1>3. /\ df.ncols_ = Len(types) /\ df.col_arr_.size_ = Len(types)
      /\ \A k \in 1 .. Len(types) :
              /\ Col(df, k - 1).type = types[k]
              /\ Col(df, k - 1).arr_.size_ = n
              /\ \A r \in 1 .. n : CellAt(df, k, r) = cells[k][r]
  BY <1>1, FrameRows
<1>4. Good(types, cells, n)
  BY <1>1 DEF Is
<1>5. /\ IsSeq(types) /\ Len(types) \in Nat /\ n \in Nat /\ types \in Seq(Type)
      /\ \A k \in 1 .. Len(types) :
              /\ types[k] \in Type
              /\ \A r \in 1 .. n : cells[k][r] \in FrameCell[types[k]]
  BY <1>4, GoodSeqs DEF Good
<1>6. DOMAIN types = 1 .. Len(types)
  BY <1>5 DEF IsSeq
<1> QED
  BY <1>2, <1>3, <1>5, <1>6

LEMMA NewRowOf ==
  ASSUME NEW types \in Seq(Type), row' = Row(types)
  PROVE  RowInv' /\ row'.schema_ = types
<1> DEFINE fields == [k \in 1 .. Len(types) |-> Garbage]
<1>1. row' = [schema_ |-> types, fields |-> fields] /\ Len(types) \in Nat
  <2>1. DOMAIN types = 1 .. Len(types) /\ Len(types) \in Nat
    OBVIOUS
  <2> QED
    BY <2>1 DEF Row
<1>2. \A k \in 1 .. Len(types) : types[k] \in Type /\ fields[k] = Garbage
  OBVIOUS
<1>3. fields = [k \in 1 .. Len(types) |-> fields[k]]
  OBVIOUS
<1>4. \A t \in Type : Garbage \in Field(t)
  BY FrameCells DEF Field
<1> HIDE DEF fields
<1> QED
  BY <1>1, <1>2, <1>3, <1>4 DEF RowInv

LEMMA RowWith ==
  ASSUME RowInv, NEW fields, row' = [row EXCEPT !.fields = fields],
         fields = [k \in 1 .. Len(row.schema_) |-> fields[k]],
         \A k \in 1 .. Len(row.schema_) : fields[k] \in Field(row.schema_[k])
  PROVE  RowInv' /\ row'.schema_ = row.schema_ /\ row'.fields = fields
<1> DEFINE types == row.schema_
<1>1. row = [schema_ |-> types, fields |-> row.fields] /\ types \in Seq(Type)
  BY DEF RowInv
<1>2. row' = [schema_ |-> types, fields |-> fields]
  BY <1>1
<1>3. /\ fields = [k \in 1 .. Len(types) |-> fields[k]]
      /\ \A k \in 1 .. Len(types) : fields[k] \in Field(types[k])
  OBVIOUS
<1>4. row'.schema_ = types /\ row'.fields = fields
  BY <1>2
<1>5. types = row.schema_
  OBVIOUS
<1> HIDE DEF types
<1> QED
  BY <1>1, <1>2, <1>3, <1>4, <1>5 DEF RowInv

\* What a client does with a frame and a row.
ClientInv == FrameInv /\ RowInv /\ Programs

LEMMA ClientStep == ClientInv /\ FrameNext => ClientInv' /\ TableStep
<1> SUFFICES ASSUME ClientInv, FrameNext PROVE ClientInv' /\ TableStep
  OBVIOUS
<1>0. FrameInv /\ RowInv /\ Programs
  BY DEF ClientInv
<1>1. UNCHANGED df => FrameInv' /\ TableStep
  BY <1>0 DEF FrameInv, TableStep
<1>2. UNCHANGED row => RowInv'
  BY <1>0 DEF RowInv
<1>3. UNCHANGED program => Programs'
  BY <1>0 DEF Programs
<1>4. program' \in {"going", "aborted", "crashed", "exit"} => Programs'
  BY DEF Programs
<1>5. ASSUME NEW types \in Schemas, NewFrame(types) PROVE ClientInv' /\ TableStep
  <2>1. CASE \A k \in DOMAIN types : types[k] \in Type
    <3>1. types \in Seq(STRING)
      BY DataFrameAssumption
    <3>2. types \in Seq(Type)
      BY <2>1, <3>1
    <3>3. df' = Frame(types) /\ UNCHANGED program /\ UNCHANGED row
      BY <1>5, <2>1 DEF NewFrame
    <3> QED
      BY <1>2, <1>3, <3>2, <3>3, MakeFrame DEF ClientInv
  <2>2. CASE ~ \A k \in DOMAIN types : types[k] \in Type
    BY <1>1, <1>2, <1>4, <1>5, <2>2 DEF NewFrame, ClientInv
  <2> QED
    BY <2>1, <2>2
<1>6. CASE NewRow
  <2>1. df.schema_ \in Seq(Type) /\ row' = Row(df.schema_)
    BY <1>0, <1>6, FrameParts2 DEF NewRow
  <2>2. RowInv'
    BY <2>1, NewRowOf
  <2> QED
    BY <1>1, <1>3, <1>6, <2>2 DEF NewRow, ClientInv
<1>7. ASSUME NEW t \in Type, NEW n \in 0 .. MaxCells \div (df.ncols_ + 1),
             NEW cells \in [1 .. n -> Value[t]], AddColumn(Column(t, cells))
      PROVE  ClientInv' /\ TableStep
  <2>1. cells \in Seq(FrameCell[t]) /\ Column(t, cells).arr_.size_ = Len(cells)
    <3>1. n \in Nat /\ MaxCells \in Nat /\ df.ncols_ \in Nat
      <4>1. df.ncols_ \in Nat /\ MaxCells \in Nat
        BY <1>0, FrameParts2, DataFrameAssumption
      <4>2. MaxCells \div (df.ncols_ + 1) \in Int
        BY <4>1
      <4> QED
        BY <4>1, <4>2
    <3>2. IsSeq(cells) /\ Len(cells) = n
      BY <3>1, FunctionIsSeq
    <3>3. \A k \in 1 .. Len(cells) : cells[k] \in FrameCell[t]
      BY <3>2, FrameCells
    <3>4. cells \in Seq(FrameCell[t])
      BY <3>2, <3>3, SeqOfElements
    <3> QED
      BY <3>2, <3>4, ArrayGet DEF Column
  <2>2. CASE df.ncols_ > 0 /\ Column(t, cells).arr_.size_ # df.nrows_
    BY <1>1, <1>2, <1>4, <1>7, <2>2 DEF AddColumn, ClientInv
  <2>3. CASE ~(df.ncols_ > 0 /\ Column(t, cells).arr_.size_ # df.nrows_)
    <3>1. df' = add_column(df, Column(t, cells)) /\ UNCHANGED program /\ UNCHANGED row
      BY <1>7, <2>3 DEF AddColumn
    <3>2. df.ncols_ > 0 => Len(cells) = df.nrows_
      BY <2>1, <2>3
    <3>3. FrameInv' /\ TableStep
      BY <1>0, <2>1, <3>1, <3>2, MakeColumn
    <3> QED
      BY <1>2, <1>3, <3>1, <3>3 DEF ClientInv
  <2> QED
    BY <2>2, <2>3
<1>8. ASSUME NEW k \in DOMAIN row.fields, NEW v \in Value[row.schema_[k]], SetField(k, v)
      PROVE  ClientInv' /\ TableStep
  <2>1. CASE v = Null
    BY <1>1, <1>2, <1>4, <1>8, <2>1 DEF SetField, ClientInv
  <2>2. CASE v # Null
    <3> DEFINE fields == [row.fields EXCEPT ![k] = v]
    <3>1. row' = [row EXCEPT !.fields = fields] /\ UNCHANGED program /\ UNCHANGED df
      BY <1>8, <2>2, Zenon DEF SetField
    <3>2. /\ row.schema_ \in Seq(Type) /\ k \in 1 .. Len(row.schema_)
          /\ row.fields = [c \in 1 .. Len(row.schema_) |-> row.fields[c]]
          /\ \A c \in 1 .. Len(row.schema_) : row.fields[c] \in Field(row.schema_[c])
      BY <1>0 DEF RowInv
    <3>3. v \in Field(row.schema_[k])
      <4>1. row.schema_[k] \in Type
        BY <3>2
      <4>2. Value["S"] \subseteq Seq(Char) \cup {Null}
        BY DataFrameAssumption
      <4>3. v \in FrameCell[row.schema_[k]]
        BY <4>1, FrameCells
      <4> QED
        BY <2>2, <4>2, <4>3 DEF Field
    <3>4. /\ fields = [c \in 1 .. Len(row.schema_) |-> fields[c]]
          /\ \A c \in 1 .. Len(row.schema_) : fields[c] \in Field(row.schema_[c])
      BY <3>2, <3>3
    <3> HIDE DEF fields
    <3>5. RowInv'
      BY <1>0, <3>1, <3>4, RowWith
    <3> QED
      BY <1>1, <1>3, <3>1, <3>5 DEF ClientInv
  <2> QED
    BY <2>1, <2>2
<1>9. CASE AddRow
  <2>1. CASE UNCHANGED df /\ program' \in {"aborted", "crashed"}
    BY <1>1, <1>2, <1>4, <1>9, <2>1 DEF AddRow, ClientInv
  <2>2. CASE ~(UNCHANGED df /\ program' \in {"aborted", "crashed"})
    <3>1. /\ row.schema_ = df.schema_
          /\ \A k \in DOMAIN row.fields : row.schema_[k] = "S" => row.fields[k] # Garbage
          /\ df' = add_row(df, row.fields) /\ UNCHANGED program /\ UNCHANGED row
      BY <1>9, <2>2 DEF AddRow, SameSchema
    <3>2. DOMAIN row.fields = 1 .. Len(df.schema_)
      BY <1>0, <3>1 DEF RowInv
    <3>3. \A k \in 1 .. Len(df.schema_) : row.fields[k] \in FrameCell[df.schema_[k]]
      BY <1>0, <3>1, <3>2, FrameCells DEF RowInv, Field
    <3>4. FrameInv' /\ TableStep
      BY <1>0, <3>1, <3>2, <3>3, AddFields
    <3> QED
      BY <1>2, <1>3, <3>1, <3>4 DEF ClientInv
  <2> QED
    BY <2>1, <2>2
<1>10. ASSUME NEW t \in Type, NEW k \in 0 .. df.ncols_, NEW idx \in 0 .. df.nrows_,
              NEW v \in Value[t], SetCell(t, k, idx, v)
       PROVE  ClientInv' /\ TableStep
  <2>1. CASE k >= Len(df.schema_) \/ idx >= df.nrows_ \/ df.schema_[k + 1] # t
    BY <1>1, <1>2, <1>4, <1>10, <2>1 DEF SetCell, ClientInv
  <2>2. CASE ~(k >= Len(df.schema_) \/ idx >= df.nrows_ \/ df.schema_[k + 1] # t)
    <3>1. /\ df' = WithColumn(df, k, set(Col(df, k).arr_, idx, v))
          /\ UNCHANGED program /\ UNCHANGED row
      BY <1>10, <2>2 DEF SetCell
    <3>2. /\ k + 1 \in 1 .. Len(df.schema_) /\ (k + 1) - 1 = k
          /\ idx + 1 \in 1 .. df.nrows_ /\ (idx + 1) - 1 = idx
      BY <1>0, <2>2, FrameParts2
    <3>3. v \in FrameCell[df.schema_[k + 1]]
      BY <2>2, FrameCells
    <3>4. df' = WithColumn(df, (k + 1) - 1,
                           set(Col(df, (k + 1) - 1).arr_, (idx + 1) - 1, v))
      BY <3>1, <3>2
    <3>5. FrameInv' /\ TableStep
      BY <1>0, <3>2, <3>3, <3>4, SetOneCell, Zenon
    <3> QED
      BY <1>2, <1>3, <3>1, <3>5 DEF ClientInv
  <2> QED
    BY <2>1, <2>2
<1>11. ASSUME NEW idx \in 0 .. df.nrows_, FillRow(idx) PROVE ClientInv' /\ TableStep
  <2> DEFINE cells == [c \in 1 .. df.ncols_ |-> CellAt(df, c, idx + 1)]
  <2>1. CASE UNCHANGED row /\ program' \in {"going", "aborted", "crashed", "exit"}
    BY <1>1, <1>2, <1>4, <1>11, <2>1 DEF FillRow, ClientInv
  <2>2. CASE ~(UNCHANGED row /\ program' \in {"going", "aborted", "crashed", "exit"})
    <3>1. /\ row.schema_ = df.schema_ /\ (df.ncols_ = 0 \/ idx < df.nrows_)
          /\ Null \notin Range(cells) /\ row' = [row EXCEPT !.fields = cells]
          /\ UNCHANGED program /\ UNCHANGED df
      <4> DEFINE access == Access(Col(df, 0).arr_, idx)
      <4>1. /\ df.ncols_ \in Nat /\ df.nrows_ \in Nat
            /\ df.ncols_ > 0 => Col(df, 0).arr_.size_ = df.nrows_
        <5>1. /\ df.ncols_ \in Nat /\ df.nrows_ \in Nat /\ df.ncols_ = Len(df.schema_)
              /\ \A k \in 1 .. Len(df.schema_) : Col(df, k - 1).arr_.size_ = df.nrows_
          BY <1>0, FrameParts2
        <5>2. 1 - 1 = 0
          OBVIOUS
        <5> QED
          BY <5>1, <5>2
      <4>2. /\ access \in {"crashed", "aborted", "ok"}
            /\ df.ncols_ > 0 => (access = "ok" <=> idx < df.nrows_)
        BY <4>1 DEF Access
      <4> HIDE DEF access, cells
      <4>3. row.schema_ = df.schema_
        BY <1>11, <2>2 DEF FillRow, SameSchema
      <4>4. ~(df.ncols_ > 0 /\ access # "ok")
        <5>1. SUFFICES ASSUME df.ncols_ > 0 /\ access # "ok" PROVE FALSE
          OBVIOUS
        <5>2. ~(df.ncols_ = 0 \/ idx < df.nrows_)
          BY <4>1, <4>2, <5>1
        <5>3. program' = access /\ UNCHANGED row
          BY <1>11, <4>3, <5>1, <5>2 DEF FillRow, SameSchema, access
        <5> QED
          <6>1. program' \in {"going", "aborted", "crashed", "exit"}
            BY <4>2, <5>1, <5>3
          <6> QED
            BY <2>2, <5>3, <6>1
      <4>5. df.ncols_ = 0 \/ idx < df.nrows_
        BY <4>1, <4>2, <4>4
      <4>6. /\ UNCHANGED df
            /\ IF Null \in Range(cells)
               THEN program' = "crashed" /\ UNCHANGED row
               ELSE row' = [row EXCEPT !.fields = cells] /\ UNCHANGED program
        BY <1>11, <4>3, <4>4, <4>5 DEF FillRow, SameSchema, access, cells
      <4> QED
        BY <2>2, <4>3, <4>5, <4>6
    <3>2. /\ df.ncols_ = Len(row.schema_) /\ df.ncols_ \in Nat /\ df.nrows_ \in Nat
          /\ \A c \in 1 .. Len(row.schema_) :
               /\ row.schema_[c] \in Type
               /\ \A r \in 1 .. df.nrows_ : CellAt(df, c, r) \in FrameCell[row.schema_[c]]
      BY <1>0, <3>1, FrameParts2
    <3>3. ASSUME NEW c \in 1 .. Len(row.schema_) PROVE cells[c] \in Field(row.schema_[c])
      <4>1. cells[c] = CellAt(df, c, idx + 1) /\ cells[c] \in Range(cells)
        BY <3>2 DEF Range
      <4>2. idx + 1 \in 1 .. df.nrows_
        BY <3>1, <3>2
      <4>3. cells[c] \in FrameCell[row.schema_[c]] /\ row.schema_[c] \in Type
        BY <3>2, <4>1, <4>2
      <4>4. cells[c] # Null
        BY <3>1, <4>1
      <4> HIDE DEF cells
      <4> QED
        BY <4>3, <4>4, FrameCells DEF Field
    <3>4. cells = [c \in 1 .. Len(row.schema_) |-> cells[c]]
      BY <3>2
    <3> HIDE DEF cells
    <3>5. RowInv'
      BY <1>0, <3>1, <3>3, <3>4, RowWith
    <3> QED
      BY <1>1, <1>3, <3>1, <3>5 DEF ClientInv
  <2> QED
    BY <2>1, <2>2
<1> QED
  BY <1>5, <1>6, <1>7, <1>8, <1>9, <1>10, <1>11 DEF FrameNext
-----------------------------------------------------------------------------
(***************************************************************************)
(* The positions of the reader and of the file, for any size of the buffer *)
(* and any text.                                                           *)
(***************************************************************************)
(* The positions, and why there is room for one more character when a word *)
(* ends with the file: the read that met the end did not fill the buffer.  *)
Positions ==
  /\ reader \in {"new", "skip", "scan", "ready", "aborted", "crashed", "overrun"}
  /\ end_ \in 0 .. BUFSIZE /\ i_ \in Nat /\ wStart \in Nat
  /\ reader = "new" => i_ = 0 /\ end_ = 0
  /\ reader = "scan" => wStart <= end_

File == /\ file_ \in [text : Text, at : Nat, feof : BOOLEAN]
        /\ file_.at <= Len(file_.text)
        /\ file_.feof => end_ < BUFSIZE
        /\ reader = "new" => ~file_.feof

ReaderInv == Positions /\ File
(* What a read changes of a file.                                          *)
LEMMA FileRead ==
  ASSUME NEW r \in [text : Text, at : Nat, feof : BOOLEAN],
         NEW a \in Nat, NEW f \in BOOLEAN
  PROVE  LET s == [r EXCEPT !.at = a, !.feof = f]
         IN  /\ s \in [text : Text, at : Nat, feof : BOOLEAN]
             /\ s.at = a /\ s.text = r.text /\ s.feof = f
OBVIOUS

(* A refill ends within the buffer, and below its end if it met the end of *)
(* the file.                                                               *)
LEMMA Refill ==
  ASSUME ReaderInv, ~file_.feof, NEW i \in 0 .. end_
  PROVE  LET w == fillBuffer(i)
         IN  /\ w.i = end_ - i
             /\ w.end \in 0 .. BUFSIZE /\ w.i <= w.end
             /\ w.file \in [text : Text, at : Nat, feof : BOOLEAN]
             /\ w.file.at <= Len(w.file.text)
             /\ w.file.feof => w.end < BUFSIZE
<1> DEFINE left  == Len(file_.text) - file_.at
           room  == BUFSIZE - (end_ - i)
           count == IF left < room THEN left ELSE room
           feof  == file_.feof \/ count < room
<1>0. /\ file_ \in [text : Text, at : Nat, feof : BOOLEAN]
      /\ Len(file_.text) \in Nat /\ file_.at \in Nat
      /\ file_.at <= Len(file_.text) /\ end_ \in 0 .. BUFSIZE
      /\ BUFSIZE \in Nat
  BY FileReaderAssumption DEF ReaderInv, Positions, File
<1>1. left \in Nat /\ room \in Nat /\ count \in 0 .. room /\ count \in 0 .. left
  BY <1>0
<1>2. /\ fillBuffer(i).i = end_ - i
      /\ fillBuffer(i).end = (end_ - i) + count
      /\ fillBuffer(i).file = [file_ EXCEPT !.at = @ + count, !.feof = feof]
  BY Zenon DEF fillBuffer
<1>3. feof \in BOOLEAN /\ (feof => count < room)
  OBVIOUS
<1> HIDE DEF count, feof
<1>4. /\ fillBuffer(i).file \in [text : Text, at : Nat, feof : BOOLEAN]
      /\ fillBuffer(i).file.at = file_.at + count
      /\ fillBuffer(i).file.text = file_.text
      /\ fillBuffer(i).file.feof = feof
  <2>1. fillBuffer(i).file = [file_ EXCEPT !.at = file_.at + count, !.feof = feof]
    BY <1>0, <1>2
  <2>2. file_.at + count \in Nat
    BY <1>0, <1>1
  <2> QED
    BY <1>0, <1>3, <2>1, <2>2, FileRead
<1>5. /\ (end_ - i) + count \in 0 .. BUFSIZE /\ end_ - i <= (end_ - i) + count
      /\ count < room => (end_ - i) + count < BUFSIZE
      /\ file_.at + count <= Len(file_.text)
  BY <1>0, <1>1
<1> HIDE DEF left, room
<1> QED
  BY <1>2, <1>3, <1>4, <1>5

(* A window is a refill, or the buffer as it is.                           *)
LEMMA Windows ==
  ASSUME ReaderInv, ~(i_ = end_ /\ file_.feof), NEW from \in 0 .. end_
  PROVE  LET w == Window(from)
         IN  /\ w.i = IF i_ = end_ THEN end_ - from ELSE i_
             /\ w.i \in Nat /\ w.end \in 0 .. BUFSIZE
             /\ i_ = end_ => w.i <= w.end
             /\ i_ # end_ => w.end = end_
             /\ w.file \in [text : Text, at : Nat, feof : BOOLEAN]
             /\ w.file.at <= Len(w.file.text)
             /\ w.file.feof => w.end < BUFSIZE
<1>1. CASE i_ = end_
  <2>1. Window(from) = fillBuffer(from)
    BY <1>1 DEF Window
  <2> QED
    BY <1>1, <2>1, Refill DEF ReaderInv, Positions
<1>2. CASE i_ # end_
  <2>1. Window(from) = [buf |-> buf_, i |-> i_, end |-> end_, file |-> file_]
    BY <1>2 DEF Window
  <2> QED
    BY <1>2, <2>1 DEF ReaderInv, Positions, File
<1> QED
  BY <1>1, <1>2

LEMMA ReaderInitially == InitReader => ReaderInv
BY FileReaderAssumption DEF InitReader, ReaderInv, Positions, File

LEMMA ReaderInductive == ReaderInv /\ [ReaderNext]_readerVars => ReaderInv'
<1> SUFFICES ASSUME ReaderInv, [ReaderNext]_readerVars PROVE ReaderInv'
  OBVIOUS
<1> USE DEF ReaderInv, Positions
<1>0. /\ BUFSIZE \in Nat \ {0} /\ end_ \in 0 .. BUFSIZE /\ i_ \in Nat
      /\ wStart \in Nat
  BY FileReaderAssumption
<1>1. CASE OpenReader
  <2>0. /\ i_ \in 0 .. end_ /\ ~file_.feof
    BY <1>1 DEF OpenReader, File
  <2>1. /\ i_' = fillBuffer(i_).i /\ end_' = fillBuffer(i_).end
        /\ file_' = fillBuffer(i_).file
        /\ reader' = "skip" /\ wStart' = wStart
    BY <1>1, Zenon DEF OpenReader
  <2>2. Positions'
    BY <1>0, <2>0, <2>1, Refill
  <2>3. File'
    BY <2>0, <2>1, Refill DEF File
  <2> QED
    BY <2>2, <2>3
<1>2. CASE Skip
  <2>1. CASE i_ = end_ /\ file_.feof
    BY <1>2, <2>1 DEF Skip, File
  <2>2. CASE ~(i_ = end_ /\ file_.feof)
    <3> DEFINE w     == Window(i_)
               from  == IF i_ = end_ THEN i_ ELSE 0
    <3>1. /\ end_' = w.end /\ file_' = w.file /\ wStart' = wStart
          /\ reader' \in {"crashed", "skip", "ready"}
          /\ i_' \in {w.i, w.i + 1}
      BY <1>2, <2>2, Zenon DEF Skip
    <3>2. w = Window(from)
      BY DEF Window
    <3>3. from \in 0 .. end_
      BY <1>0
    <3> HIDE DEF w, from
    <3>4. Positions' /\ File'
      BY <1>0, <2>2, <3>1, <3>2, <3>3, Windows DEF File
    <3> QED
      BY <3>4
  <2> QED
    BY <2>1, <2>2
<1>3. CASE Visit
  BY <1>0, <1>3 DEF Visit, File
<1>4. CASE Scan
  <2>1. CASE i_ = end_ /\ file_.feof
    BY <1>0, <1>4, <2>1 DEF Scan, EndWord, File
  <2>2. CASE ~(i_ = end_ /\ file_.feof)
    <3> DEFINE w     == Window(wStart)
               start == IF i_ = end_ THEN 0 ELSE wStart
    <3>1. /\ end_' = w.end /\ file_' = w.file /\ wStart' = start
          /\ reader' \in {"crashed", "overrun", "skip", "scan"}
          /\ i_' \in {w.i, w.i + 1}
      BY <1>4, <2>2 DEF Scan, EndWord
    <3>2. wStart \in 0 .. end_ /\ reader = "scan"
      BY <1>0, <1>4 DEF Scan
    <3>3. start \in Nat /\ (i_ = end_ => start = 0) /\ (i_ # end_ => start = wStart)
      BY <1>0
    <3> HIDE DEF start
    <3>4. Positions' /\ File'
      BY <1>0, <2>2, <3>1, <3>2, <3>3, Windows DEF File
    <3> QED
      BY <3>4
  <2> QED
    BY <2>1, <2>2
<1>5. CASE UNCHANGED readerVars
  BY <1>5 DEF readerVars, File
<1> QED
  BY <1>1, <1>2, <1>3, <1>4, <1>5 DEF ReaderNext

\* What the buffer and the words consist of.
Characters == /\ file_.text \in Seq(Char)
              /\ buf_ \in [0 .. BUFSIZE -> Char]
              /\ word \in Seq(Char)

\* What is behind the text in the buffer is not of the file.
LEMMA RefillCharacters ==
  ASSUME ReaderInv, Characters, NEW i \in 0 .. end_
  PROVE  fillBuffer(i).buf \in [0 .. BUFSIZE -> Char] /\ fillBuffer(i).file.text = file_.text
<1> DEFINE left  == Len(file_.text) - file_.at
           start == end_ - i
           room  == BUFSIZE - start
           count == IF left < room THEN left ELSE room
<1>0. /\ file_ \in [text : Text, at : Nat, feof : BOOLEAN]
      /\ Len(file_.text) \in Nat /\ file_.at \in Nat /\ file_.text \in Seq(Char)
      /\ file_.at <= Len(file_.text) /\ end_ \in 0 .. BUFSIZE
      /\ BUFSIZE \in Nat /\ buf_ \in [0 .. BUFSIZE -> Char]
  BY FileReaderAssumption DEF ReaderInv, Positions, File, Characters
<1>1. /\ start \in Nat /\ start <= end_
      /\ count \in Nat /\ file_.at + count <= Len(file_.text)
  BY <1>0
<1>2. fillBuffer(i).file.text = file_.text
  BY <1>0 DEF fillBuffer
<1>3. fillBuffer(i).buf = [k \in 0 .. BUFSIZE |->
                             CASE k < start -> buf_[i + k]
                               [] k \in start .. start + count - 1 ->
                                    file_.text[file_.at + k - start + 1]
                               [] OTHER -> buf_[k]]
  BY Zenon DEF fillBuffer
<1> HIDE DEF count
<1>4. ASSUME NEW k \in 0 .. BUFSIZE
      PROVE  (CASE k < start -> buf_[i + k]
                [] k \in start .. start + count - 1 -> file_.text[file_.at + k - start + 1]
                [] OTHER -> buf_[k]) \in Char
  <2>1. CASE k < start
    <3>1. i + k \in 0 .. BUFSIZE /\ ~(k \in start .. start + count - 1)
      BY <1>0, <1>1, <2>1
    <3> QED
      BY <1>0, <2>1, <3>1
  <2>2. CASE k \in start .. start + count - 1
    <3>1. file_.at + k - start + 1 \in 1 .. Len(file_.text) /\ ~(k < start)
      BY <1>0, <1>1, <2>2
    <3>2. file_.text[file_.at + k - start + 1] \in Char
      BY <1>0, <3>1
    <3> QED
      BY <2>2, <3>1, <3>2
  <2>3. CASE ~(k < start) /\ ~(k \in start .. start + count - 1)
    BY <1>0, <2>3
  <2> QED
    BY <2>1, <2>2, <2>3
<1> QED
  BY <1>2, <1>3, <1>4

LEMMA WindowCharacters ==
  ASSUME ReaderInv, Characters, NEW from \in 0 .. end_
  PROVE  Window(from).buf \in [0 .. BUFSIZE -> Char] /\ Window(from).file.text = file_.text
<1>1. CASE i_ = end_
  BY <1>1, RefillCharacters DEF Window
<1>2. CASE i_ # end_
  BY <1>2 DEF Window, Characters
<1> QED
  BY <1>1, <1>2

LEMMA EndOfWord ==
  ASSUME NEW b \in [0 .. BUFSIZE -> Char], NEW start \in Nat, NEW i \in Nat,
         EndWord(b, start, i), word \in Seq(Char)
  PROVE  buf_' \in [0 .. BUFSIZE -> Char] /\ word' \in Seq(Char)
<1>0. BUFSIZE \in Nat /\ Nul \in Char
  BY FileReaderAssumption, FromVisitorAssumption
<1>a. CASE i > BUFSIZE
  BY <1>0, <1>a DEF EndWord
<1>b. SUFFICES ASSUME i <= BUFSIZE
               PROVE  buf_' \in [0 .. BUFSIZE -> Char] /\ word' \in Seq(Char)
  BY <1>0, <1>a
<1> DEFINE w == [k \in 1 .. i - start |-> b[start + k - 1]]
<1>1. word' = w /\ buf_' = [b EXCEPT ![i] = Nul]
  BY <1>b DEF EndWord
<1>2. \A k \in 1 .. i - start : w[k] \in Char
  <2>1. SUFFICES ASSUME NEW k \in 1 .. i - start PROVE b[start + k - 1] \in Char
    OBVIOUS
  <2>2. start + k - 1 \in 0 .. BUFSIZE
    BY <1>0, <1>b
  <2> QED
    BY <2>2
<1>3. w \in Seq(Char)
  <2>1. CASE start <= i
    <3>1. i - start \in Nat
      BY <2>1
    <3>2. w \in [1 .. i - start -> Char]
      BY <1>2
    <3> HIDE DEF w
    <3> QED
      BY <3>1, <3>2, SeqDef
  <2>2. CASE ~(start <= i)
    <3>1. 1 .. i - start = {} /\ 1 .. 0 = {}
      BY <2>2
    <3>2. w \in [1 .. 0 -> Char]
      BY <1>2, <3>1
    <3> HIDE DEF w
    <3> QED
      BY <3>2, SeqDef
  <2> QED
    BY <2>1, <2>2
<1>4. buf_' \in [0 .. BUFSIZE -> Char]
  BY <1>0, <1>1
<1> QED
  BY <1>1, <1>3, <1>4

LEMMA CharactersStep ==
  ASSUME ReaderInv, Characters, [ReaderNext]_readerVars
  PROVE  Characters'
<1>0. /\ BUFSIZE \in Nat \ {0} /\ end_ \in 0 .. BUFSIZE /\ i_ \in Nat
      /\ wStart \in Nat /\ (reader = "scan" => wStart <= end_)
      /\ (reader = "new" => i_ = 0)
      /\ (file_.feof => end_ < BUFSIZE)
  BY FileReaderAssumption DEF ReaderInv, Positions, File
<1> USE DEF Characters
<1>1. CASE OpenReader
  <2>1. i_ \in 0 .. end_
    BY <1>0, <1>1 DEF OpenReader
  <2> QED
    BY <1>1, <2>1, RefillCharacters DEF OpenReader
<1>2. CASE Skip
  <2>1. CASE i_ = end_ /\ file_.feof
    BY <1>2, <2>1 DEF Skip
  <2>2. CASE ~(i_ = end_ /\ file_.feof)
    <3>1. buf_' = Window(i_).buf /\ file_' = Window(i_).file /\ UNCHANGED word
      BY <1>2, <2>2 DEF Skip
    <3>2. Window(i_).buf \in [0 .. BUFSIZE -> Char] /\ Window(i_).file.text = file_.text
      <4>1. CASE i_ = end_
        <5>1. i_ \in 0 .. end_
          BY <1>0, <4>1
        <5> QED
          BY <5>1, WindowCharacters
      <4>2. CASE i_ # end_
        BY <4>2 DEF Window
      <4> QED
        BY <4>1, <4>2
    <3> QED
      BY <3>1, <3>2
  <2> QED
    BY <2>1, <2>2
<1>3. CASE Visit
  BY <1>3 DEF Visit
<1>4. CASE Scan
  <2>0. wStart \in 0 .. end_ /\ reader = "scan"
    BY <1>0, <1>4 DEF Scan
  <2>1. CASE i_ = end_ /\ file_.feof
    <3>1. EndWord(buf_, wStart, i_ + 1) /\ UNCHANGED file_
      BY <1>4, <2>1 DEF Scan
    <3>2. i_ + 1 \in Nat
      BY <1>0
    <3>3. buf_' \in [0 .. BUFSIZE -> Char] /\ word' \in Seq(Char)
      BY <1>0, <3>1, <3>2, EndOfWord
    <3> QED
      BY <3>1, <3>3
  <2>2. CASE ~(i_ = end_ /\ file_.feof)
    <3> DEFINE w     == Window(wStart)
               start == IF i_ = end_ THEN 0 ELSE wStart
    <3>1. /\ w.buf \in [0 .. BUFSIZE -> Char] /\ w.file.text = file_.text
          /\ w.i \in Nat
      BY <1>0, <2>0, <2>2, WindowCharacters, Windows
    <3>2. start \in Nat
      BY <1>0
    <3>3. /\ file_' = w.file
          /\ \/ EndWord(w.buf, start, w.i)
             \/ buf_' = w.buf /\ word' = word
      BY <1>4, <2>2 DEF Scan
    <3> HIDE DEF w, start
    <3>4. buf_' \in [0 .. BUFSIZE -> Char] /\ word' \in Seq(Char)
      <4>1. CASE EndWord(w.buf, start, w.i)
        BY <3>1, <3>2, <4>1, EndOfWord
      <4> QED
        BY <3>1, <3>3, <4>1
    <3> QED
      BY <3>1, <3>3, <3>4
  <2> QED
    BY <2>1, <2>2
<1>5. CASE UNCHANGED readerVars
  BY <1>5 DEF readerVars
<1> QED
  BY <1>1, <1>2, <1>3, <1>4, <1>5 DEF ReaderNext
-----------------------------------------------------------------------------
(***************************************************************************)
(* The frames of clients and of fromVisitor.                               *)
(***************************************************************************)
CallInv == /\ user \in {"client", "visitor"}
           /\ loop \in {"before", "first", "next", "after"}
           /\ loop # "before" => /\ user = "visitor"
                                 /\ df.schema_ = <<"S">> /\ row.schema_ = <<"S">>

VisitorInv == ClientInv /\ ReaderInv /\ Characters /\ CallInv

LEMMA VisitorInitially == VisitorInit => VisitorInv /\ T!Init
<1> SUFFICES ASSUME VisitorInit PROVE VisitorInv /\ T!Init
  OBVIOUS
<1>1. /\ FrameInit /\ InitReader /\ user \in {"client", "visitor"} /\ loop = "before"
  BY DEF VisitorInit
<1>2. <<>> \in Seq(Type)
  BY EmptySeq
<1>3. FrameInv /\ df.schema_ = <<>> /\ RowsOf(df) = <<>>
  BY <1>1, <1>2, EmptyFrame, FrameFrom DEF FrameInit, FrameInv
<1>4. RowInv
  <2>1. Len(<<>>) = 0 /\ DOMAIN <<>> = 1 .. Len(<<>>)
    BY NoElements DEF IsSeq
  <2>2. row = [schema_ |-> <<>>, fields |-> [k \in 1 .. Len(<<>>) |-> Garbage]]
    BY <1>1, <2>1 DEF FrameInit, Row
  <2>3. \A k \in 1 .. Len(<<>>) : FALSE
    BY <2>1
  <2> QED
    BY <1>2, <2>2, <2>3 DEF RowInv
<1>5. ReaderInv
  BY <1>1, ReaderInitially
<1>6. Characters
  <2>1. file_.text \in Text
    BY <1>1 DEF InitReader
  <2>2. PICK m \in Stale : buf_ = [k \in 0 .. BUFSIZE |-> m]
    BY <1>1 DEF InitReader
  <2>3. word \in Seq(Char)
    BY <1>1, EmptySeq DEF InitReader
  <2> QED
    BY <2>1, <2>2, <2>3, FromVisitorAssumption DEF Characters
<1>7. Programs /\ CallInv
  BY <1>1 DEF FrameInit, Programs, CallInv
<1> QED
  BY <1>3, <1>4, <1>5, <1>6, <1>7 DEF VisitorInv, ClientInv, T!Init

LEMMA VisitorReads == VisitorNext => [ReaderNext]_readerVars
<1> SUFFICES ASSUME VisitorNext PROVE [ReaderNext]_readerVars
  OBVIOUS
<1>1. CASE Client
  BY <1>1 DEF Client
<1>2. ASSUME NEW key \in Key, NEW vals, FromArray(key, vals) PROVE UNCHANGED readerVars
  BY <1>2 DEF FromArray
<1>3. ASSUME NEW key \in Key, Loop(key) PROVE [ReaderNext]_readerVars
  BY <1>3 DEF Loop, ReaderNext
<1>4. CASE Begin
  BY <1>4 DEF Begin, ReaderNext
<1>5. CASE Read
  BY <1>5 DEF Read, ReaderNext
<1> QED
  BY <1>1, <1>2, <1>3, <1>4, <1>5 DEF VisitorNext

LEMMA OneType == <<"S">> \in Seq(Type) /\ Len(<<"S">>) = 1 /\ <<"S">>[1] = "S"
  BY DEF Type

\* A row of one string.
LEMMA WordFields ==
  ASSUME NEW w \in Seq(Char)
  PROVE  /\ DOMAIN <<w>> = 1 .. Len(<<"S">>)
         /\ <<w>> = [k \in 1 .. Len(<<"S">>) |-> <<w>>[k]]
         /\ \A k \in 1 .. Len(<<"S">>) : /\ <<w>>[k] \in FrameCell[<<"S">>[k]]
                                         /\ <<w>>[k] \in Field(<<"S">>[k])
<1>1. w \in FrameCell["S"] /\ w \in Field("S")
  BY FrameCells DEF Field
<1>2. Len(<<"S">>) = 1 /\ <<"S">>[1] = "S" /\ DOMAIN <<w>> = 1 .. 1 /\ <<w>>[1] = w
  OBVIOUS
<1>3. <<w>> = [k \in 1 .. 1 |-> <<w>>[k]]
  OBVIOUS
<1>4. \A k \in 1 .. 1 : k = 1
  OBVIOUS
<1> QED
  BY <1>1, <1>2, <1>3, <1>4

LEMMA FrameStep ==
  ASSUME VisitorInv, VisitorNext
  PROVE  ClientInv' /\ TableStep /\ CallInv'
<1>0. ClientInv /\ FrameInv /\ RowInv /\ Programs /\ CallInv /\ Characters
  BY DEF VisitorInv, ClientInv
<1>1. UNCHANGED frameVars => ClientInv' /\ TableStep
  BY <1>0 DEF frameVars, ClientInv, FrameInv, RowInv, Programs, TableStep
<1>2. UNCHANGED <<row, program>> => RowInv' /\ Programs'
  BY <1>0 DEF RowInv, Programs
<1>3. CASE Client
  <2>1. FrameNext /\ user = "client" /\ UNCHANGED callVars
    BY <1>3 DEF Client
  <2>2. ClientInv' /\ TableStep
    BY <1>0, <2>1, ClientStep
  <2>3. CallInv'
    BY <1>0, <2>1 DEF CallInv, callVars
  <2> QED
    BY <2>2, <2>3
<1>4. ASSUME NEW key \in Key, NEW n \in 0 .. 2, NEW vals \in [1 .. n -> Value["F"]],
             FromArray(key, vals)
      PROVE  ClientInv' /\ TableStep /\ CallInv'
  <2>0. user = "client" /\ user' = user /\ loop' = loop /\ df = Frame(<<>>) /\ row' = row
    BY <1>4 DEF FromArray
  <2>1. CallInv'
    BY <1>0, <2>0 DEF CallInv
  <2>2. CASE kv[key] # NoValue
    <3>1. UNCHANGED df /\ program' = "aborted"
      BY <1>4, <2>2 DEF FromArray
    <3> QED
      BY <1>0, <2>0, <2>1, <3>1 DEF ClientInv, FrameInv, RowInv, Programs, TableStep
  <2>3. CASE kv[key] = NoValue
    <3>1. df' = add_column(df, Column("F", vals)) /\ UNCHANGED program
      BY <1>4, <2>3 DEF FromArray
    <3>2. vals \in Seq(FrameCell["F"]) /\ "F" \in Type
      <4>1. IsSeq(vals) /\ Len(vals) = n
        BY FunctionIsSeq
      <4>2. \A k \in 1 .. Len(vals) : vals[k] \in FrameCell["F"]
        BY <4>1, FrameCells DEF Type
      <4> QED
        BY <4>1, <4>2, SeqOfElements DEF Type
    <3>3. df.ncols_ = 0
      <4>1. df.ncols_ = Len(<<>>)
        BY <2>0 DEF Frame
      <4> QED
        BY <4>1, NoElements
    <3>4. FrameInv' /\ TableStep
      <4>1. df.ncols_ > 0 => Len(vals) = df.nrows_
        BY <3>3
      <4> QED
        BY <1>0, <3>1, <3>2, <4>1, MakeColumn
    <3> QED
      BY <1>2, <2>0, <2>1, <3>1, <3>4 DEF ClientInv
  <2> QED
    BY <2>2, <2>3
<1>5. ASSUME NEW key \in Key, Loop(key) PROVE ClientInv' /\ TableStep /\ CallInv'
  <2>0. /\ user = "visitor" /\ user' = user /\ program' = program
        /\ loop \in {"first", "next"} /\ loop' \in {"next", "after"}
        /\ df.schema_ = <<"S">> /\ row.schema_ = <<"S">>
    BY <1>0, <1>5 DEF Loop, CallInv
  <2>1. CASE loop = "next"
    <3>1. row' = [row EXCEPT !.fields = <<word>>] /\ df' = add_row(df, <<word>>)
      BY <1>5, <2>1 DEF Loop
    <3>2. /\ DOMAIN <<word>> = 1 .. Len(<<"S">>)
          /\ <<word>> = [k \in 1 .. Len(<<"S">>) |-> <<word>>[k]]
          /\ \A k \in 1 .. Len(<<"S">>) : /\ <<word>>[k] \in FrameCell[<<"S">>[k]]
                                          /\ <<word>>[k] \in Field(<<"S">>[k])
      BY <1>0, WordFields DEF Characters
    <3> DEFINE fields == <<word>>
    <3>3. /\ DOMAIN fields = 1 .. Len(df.schema_)
          /\ \A k \in 1 .. Len(df.schema_) : fields[k] \in FrameCell[df.schema_[k]]
          /\ fields = [k \in 1 .. Len(row.schema_) |-> fields[k]]
          /\ \A k \in 1 .. Len(row.schema_) : fields[k] \in Field(row.schema_[k])
          /\ row' = [row EXCEPT !.fields = fields] /\ df' = add_row(df, fields)
      BY <2>0, <3>1, <3>2
    <3> HIDE DEF fields
    <3>4. FrameInv' /\ TableStep /\ df'.schema_ = df.schema_
      BY <1>0, <3>3, AddFields
    <3>5. RowInv' /\ row'.schema_ = row.schema_
      BY <1>0, <3>3, RowWith
    <3> QED
      BY <1>0, <2>0, <3>4, <3>5 DEF ClientInv, Programs, CallInv
  <2>2. CASE loop # "next"
    <3>1. UNCHANGED <<df, row, program>>
      BY <1>5, <2>0, <2>2 DEF Loop
    <3> QED
      BY <1>1, <2>0, <3>1 DEF frameVars, CallInv
  <2> QED
    BY <2>1, <2>2
<1>6. CASE Begin
  <2>1. /\ df' = Frame(<<"S">>) /\ row' = Row(<<"S">>) /\ program' = program
        /\ user = "visitor" /\ user' = user /\ loop' = "first"
    BY <1>6 DEF Begin
  <2>2. FrameInv' /\ TableStep /\ RowInv' /\ row'.schema_ = <<"S">>
    BY <2>1, OneType, MakeFrame, NewRowOf
  <2>3. df'.schema_ = <<"S">>
    BY <2>1 DEF Frame
  <2> QED
    BY <1>0, <2>1, <2>2, <2>3 DEF ClientInv, Programs, CallInv
<1>7. CASE Read
  <2>1. UNCHANGED frameVars /\ UNCHANGED callVars
    BY <1>7 DEF Read
  <2>2. CallInv'
    BY <1>0, <2>1 DEF frameVars, callVars, CallInv
  <2> QED
    BY <1>1, <2>1, <2>2
<1> QED
  BY <1>3, <1>4, <1>5, <1>6, <1>7 DEF VisitorNext

LEMMA VisitorInductive == VisitorInv /\ [VisitorNext]_allVars => VisitorInv'
<1>1. ASSUME VisitorInv, VisitorNext PROVE VisitorInv'
  <2>1. [ReaderNext]_readerVars
    BY <1>1, VisitorReads
  <2>2. ReaderInv' /\ Characters'
    BY <1>1, <2>1, ReaderInductive, CharactersStep DEF VisitorInv
  <2> QED
    BY <1>1, <2>2, FrameStep DEF VisitorInv
<1>2. ASSUME VisitorInv, UNCHANGED allVars PROVE VisitorInv'
  <2>1. ReaderInv' /\ Characters'
    BY <1>2, ReaderInductive, CharactersStep DEF VisitorInv, allVars
  <2>2. ClientInv' /\ CallInv'
    BY <1>2 DEF VisitorInv, allVars, frameVars, callVars, ClientInv, FrameInv, RowInv,
                Programs, CallInv
  <2> QED
    BY <2>1, <2>2 DEF VisitorInv
<1> QED
  BY <1>1, <1>2

(* The columns of a frame are as many as its schema says, of its types, in *)
(* order, and equally long: as long as the frame has rows (add_column,     *)
(* add_row, fromArray, fromVisitor).                                       *)
THEOREM FramesAreRectangular == VisitorSpec => []Rectangular
<1>1. VisitorInv => Rectangular
  <2> SUFFICES ASSUME VisitorInv PROVE Rectangular
    OBVIOUS
  <2>1. FrameInv /\ RowInv /\ Programs
    BY DEF VisitorInv, ClientInv
  <2>2. DOMAIN row.fields = DOMAIN row.schema_
    <3>1. row.schema_ \in Seq(Type) /\ DOMAIN row.fields = 1 .. Len(row.schema_)
      BY <2>1 DEF RowInv
    <3> QED
      BY <3>1
  <2>3. /\ df.ncols_ = Len(df.schema_) /\ df.col_arr_.size_ = Len(df.schema_)
        /\ \A k \in 1 .. Len(df.schema_) :
              /\ Col(df, k - 1).type = df.schema_[k]
              /\ Col(df, k - 1).arr_.size_ = df.nrows_
    BY <2>1, FrameParts2
  <2> QED
    BY <2>1, <2>2, <2>3 DEF Rectangular, Programs
<1> QED
  BY VisitorInitially, VisitorInductive, <1>1, PTL DEF VisitorSpec

(* A frame is a table: whatever is added or set, through the growth of the *)
(* arrays in chunks and of the chunks' table, every other cell stays as it *)
(* was put (FastArray, add_column, add_row, set).                          *)
THEOREM FramesAreTables == VisitorSpec => TableSpec
<1>1. VisitorInv /\ [VisitorNext]_allVars => [T!Next]_<<df.schema_, RowsOf(df)>>
  <2>1. ASSUME VisitorInv, VisitorNext PROVE [T!Next]_<<df.schema_, RowsOf(df)>>
    BY <2>1, FrameStep DEF TableStep
  <2>2. ASSUME UNCHANGED allVars PROVE UNCHANGED <<df.schema_, RowsOf(df)>>
    BY <2>2 DEF allVars, frameVars
  <2> QED
    BY <2>1, <2>2
<1> QED
  BY VisitorInitially, VisitorInductive, <1>1, PTL DEF VisitorSpec, TableSpec, T!Spec
-----------------------------------------------------------------------------
(***************************************************************************)
(* The encoding of a frame.                                                *)
(***************************************************************************)
\* What a string without separators is read as, and how far a string is read
\* that has some.
NoTab(x) == \A k \in 1 .. Len(x) : x[k] # Tab

\* What is read from position a on, when there is a separator at e.
ReadsTo(s, a, e, r) ==
  /\ IsSeq(r.cell) /\ NoTab(r.cell)
  /\ r.current \in Nat \ {0} /\ r.current <= e + 1
  /\ \A x : /\ IsSeq(x) /\ a + Len(x) = e /\ NoTab(x)
            /\ \A k \in 1 .. Len(x) : s[a + k - 1] = x[k]
            => r.cell = x /\ r.current = e + 1

LEMMA ReadStringIs ==
  ASSUME NEW s, IsSeq(s), NEW a \in Nat \ {0},
         NEW e \in Nat, a <= e, e <= Len(s), s[e] = Tab
  PROVE  ReadsTo(s, a, e, ReadString(s, a))
<1> DEFINE Z   == {k \in a .. Len(s) : s[k] = Tab}
           end == Min(Z)
           c   == SubSeq(s, a, end - 1)
<1>0. Len(s) \in Nat
  BY DEF IsSeq
<1>1. end \in Z /\ \A k \in Z : end <= k
  <2>1. Z \subseteq Nat /\ e \in Z
    BY <1>0
  <2> HIDE DEF Z
  <2>2. \E x \in Z : \A y \in Z : x <= y
    BY <2>1, LeastNumber
  <2> QED
    BY <2>2 DEF Min
<1>2. ReadString(s, a) = [cell |-> c, current |-> end + 1]
  BY Zenon DEF ReadString
<1> HIDE DEF end
<1>3. /\ end \in Nat /\ a <= end /\ end <= e /\ end <= Len(s) /\ s[end] = Tab
      /\ \A k \in a .. end - 1 : s[k] # Tab
  <2>1. end \in a .. Len(s) /\ s[end] = Tab /\ end <= e /\ end \in Nat
    BY <1>0, <1>1
  <2>2. ASSUME NEW k \in a .. end - 1, s[k] = Tab PROVE FALSE
    <3>1. k \in Z /\ ~(end <= k)
      BY <1>0, <2>1, <2>2
    <3> QED
      BY <1>1, <3>1
  <2> QED
    BY <2>1, <2>2
<1> HIDE DEF Z
<1> DEFINE n == end - a
<1>4. n \in Nat /\ a + n - 1 = end - 1 /\ a \in 1 .. Len(s) /\ a + n - 1 <= Len(s)
      /\ a + n = end
  BY <1>0, <1>3
<1> HIDE DEF n
<1>5. IsSeq(c) /\ Len(c) = n /\ \A k \in 1 .. n : c[k] = s[a + k - 1]
  <2>1. /\ IsSeq(SubSeq(s, a, a + n - 1)) /\ Len(SubSeq(s, a, a + n - 1)) = n
        /\ \A k \in 1 .. n : SubSeq(s, a, a + n - 1)[k] = s[a + k - 1]
    BY <1>4, SubSeqIs
  <2> QED
    BY <1>4, <2>1
<1> HIDE DEF c
<1>6. NoTab(c)
  <2>1. ASSUME NEW k \in 1 .. n PROVE c[k] # Tab
    <3>1. a + k - 1 \in a .. end - 1
      BY <1>3, <1>4
    <3> QED
      BY <1>3, <1>5, <3>1
  <2> QED
    BY <1>5, <2>1 DEF NoTab
<1>7. ASSUME NEW x, IsSeq(x), a + Len(x) = e, NoTab(x),
             \A k \in 1 .. Len(x) : s[a + k - 1] = x[k]
      PROVE  c = x /\ end = e
  <2>0. Len(x) \in Nat
    BY <1>7 DEF IsSeq
  <2>1. end = e
    <3>1. SUFFICES ASSUME end # e PROVE FALSE
      OBVIOUS
    <3> DEFINE k == end - a + 1
    <3>2. k \in 1 .. Len(x) /\ a + k - 1 = end
      BY <1>3, <1>7, <2>0, <3>1
    <3> HIDE DEF k
    <3>3. x[k] = s[end]
      BY <1>7, <3>2
    <3> QED
      BY <1>3, <1>7, <3>2, <3>3 DEF NoTab
  <2>2. Len(x) = n
    BY <1>4, <1>7, <2>0, <2>1
  <2>3. c = x
    BY <1>5, <1>7, <2>2, SameSeq
  <2> QED
    BY <2>1, <2>3
<1>8. end + 1 \in Nat \ {0} /\ end + 1 <= e + 1
  BY <1>3
<1> DEFINE r == ReadString(s, a)
<1>9. r.cell = c /\ r.current = end + 1
  BY <1>2
<1> HIDE DEF r
<1>10. ReadsTo(s, a, e, r)
  BY <1>5, <1>6, <1>7, <1>8, <1>9 DEF ReadsTo
<1> QED
  BY <1>10 DEF r

\* The rounds of DecodeColumn and of Decode.
ReadCell(s, t, h) ==
  IF t # "S" THEN [cells |-> Append(h.cells, s[h.current]), current |-> h.current + 1]
  ELSE [cells   |-> Append(h.cells, ReadString(s, h.current).cell),
        current |-> ReadString(s, h.current).current]

LEMMA DecodeColumnSteps ==
  ASSUME NEW s, NEW current, NEW t, NEW size \in Nat
  PROVE  \E g : /\ g[0] = [cells |-> <<>>, current |-> current]
                /\ g[size] = DecodeColumn(s, current, t, size)
                /\ \A m \in 1 .. size : g[m] = ReadCell(s, t, g[m - 1])
<1> DEFINE b  == [cells |-> <<>>, current |-> current]
           ks == [k \in 1 .. size |-> k]
           o  == [op |-> "cell", seq |-> s, type |-> t]
           Cell(h, k) ==
             IF t # "S" THEN [cells |-> Append(h.cells, s[h.current]),
                              current |-> h.current + 1]
             ELSE LET r == ReadString(s, h.current)
                  IN  [cells |-> Append(h.cells, r.cell), current |-> r.current]
           f  == CHOOSE h : h = [p \in SUBSET (1 .. size) |->
                   IF p = {} THEN b ELSE Cell(h[p \ {Max(p)}], ks[Max(p)])]
<1>1. DOMAIN ks = 1 .. size
  OBVIOUS
<1>2. \A x, m : Round(o, x, m) = Cell(x, ks[m])
  BY Zenon DEF Round
<1>8. \A x, m : Cell(x, ks[m]) = ReadCell(s, t, x)
  BY Zenon DEF ReadCell
<1> HIDE DEF o, Cell, b, ks
<1>3. f = [p \in SUBSET (1 .. size) |->
             IF p = {} THEN b ELSE Cell(f[p \ {Max(p)}], ks[Max(p)])]
  <2>1. PICK h : FoldTo(h, o, b, size)
    BY FoldExists
  <2>2. h = [p \in SUBSET (1 .. size) |->
               IF p = {} THEN b ELSE Cell(h[p \ {Max(p)}], ks[Max(p)])]
    BY <2>1, <1>2 DEF FoldTo
  <2> QED
    BY <2>2, Zenon
<1>4. DecodeColumn(s, current, t, size) = f[1 .. size]
  <2>1. DecodeColumn(s, current, t, size) =
          (CHOOSE h : h = [p \in SUBSET (DOMAIN ks) |->
             IF p = {} THEN b ELSE Cell(h[p \ {Max(p)}], ks[Max(p)])])[DOMAIN ks]
    BY DEF DecodeColumn, FoldLeft, MapThenFoldSet, Cell, b, ks
  <2> QED
    BY <2>1, <1>1, Zenon
<1> HIDE DEF f
<1>5. FoldTo(f, o, b, size)
  BY <1>2, <1>3 DEF FoldTo
<1>6. PICK g : /\ g[0] = b /\ g[size] = f[1 .. size]
               /\ \A m \in 1 .. size : g[m] = Round(o, g[m - 1], m)
  BY <1>5, FoldSteps
<1>7. \A m \in 1 .. size : g[m] = ReadCell(s, t, g[m - 1])
  BY <1>2, <1>6, <1>8, Zenon
<1> QED
  BY <1>4, <1>6, <1>7 DEF b

ReadColumn(s, m, h) ==
  LET c == DecodeColumn(s, h.current, s[2 + m], s[2])
  IN  [df |-> add_column(h.df, Column(s[2 + m], c.cells)), current |-> c.current]

LEMMA DecodeSteps ==
  ASSUME NEW s, s[1] \in Nat
  PROVE  \E g : /\ g[0] = [df |-> Frame(<<>>), current |-> 3 + s[1]]
                /\ Decode(s) = g[s[1]].df
                /\ \A m \in 1 .. s[1] : g[m] = ReadColumn(s, m, g[m - 1])
<1> DEFINE w  == s[1]
           b  == [df |-> Frame(<<>>), current |-> 3 + w]
           ks == [k \in 1 .. w |-> k]
           o  == [op |-> "column", seq |-> s, ks |-> ks]
           Grown(h, k) ==
             LET c == DecodeColumn(s, h.current, s[2 + k], s[2])
             IN  [df      |-> add_column(h.df, Column(s[2 + k], c.cells)),
                  current |-> c.current]
           f  == CHOOSE h : h = [p \in SUBSET (1 .. w) |->
                   IF p = {} THEN b ELSE Grown(h[p \ {Max(p)}], ks[Max(p)])]
<1>1. DOMAIN ks = 1 .. w /\ \A m \in 1 .. w : ks[m] = m
  OBVIOUS
<1>2. \A x, m : Round(o, x, m) = Grown(x, ks[m])
  BY Zenon DEF Round
<1>8. \A x, m : Grown(x, m) = ReadColumn(s, m, x)
  BY Zenon DEF ReadColumn
<1> HIDE DEF o, Grown, b, ks
<1>3. f = [p \in SUBSET (1 .. w) |->
             IF p = {} THEN b ELSE Grown(f[p \ {Max(p)}], ks[Max(p)])]
  <2>1. PICK h : FoldTo(h, o, b, w)
    BY FoldExists
  <2>2. h = [p \in SUBSET (1 .. w) |->
               IF p = {} THEN b ELSE Grown(h[p \ {Max(p)}], ks[Max(p)])]
    BY <2>1, <1>2 DEF FoldTo
  <2> QED
    BY <2>2, Zenon
<1>4. Decode(s) = f[1 .. w].df
  <2>1. Decode(s) =
          (CHOOSE h : h = [p \in SUBSET (DOMAIN ks) |->
             IF p = {} THEN b ELSE Grown(h[p \ {Max(p)}], ks[Max(p)])])[DOMAIN ks].df
    BY DEF Decode, FoldLeft, MapThenFoldSet, Grown, b, ks
  <2> QED
    BY <2>1, <1>1, Zenon
<1> HIDE DEF f
<1>5. FoldTo(f, o, b, w)
  BY <1>2, <1>3 DEF FoldTo
<1>6. PICK g : /\ g[0] = b /\ g[w] = f[1 .. w]
               /\ \A m \in 1 .. w : g[m] = Round(o, g[m - 1], m)
  BY <1>5, FoldSteps
<1>7. \A m \in 1 .. w : g[m] = ReadColumn(s, m, g[m - 1])
  <2>1. SUFFICES ASSUME NEW m \in 1 .. w PROVE g[m] = ReadColumn(s, m, g[m - 1])
    OBVIOUS
  <2>2. g[m] = Grown(g[m - 1], ks[m]) /\ ks[m] = m
    BY <1>1, <1>2, <1>6
  <2>3. g[m] = Grown(g[m - 1], m)
    BY <2>2, Zenon
  <2> QED
    BY <1>8, <2>3, Zenon
<1> QED
  BY <1>4, <1>6, <1>7 DEF b, w

\* A column of numbers, read from current on.
NumbersRead(c, s, current, size) ==
  /\ IsSeq(c.cells) /\ Len(c.cells) = size
  /\ c.current = current + size
  /\ \A k \in 1 .. size : c.cells[k] = s[current + k - 1]

LEMMA NumbersAre ==
  ASSUME NEW s, NEW current \in Nat \ {0}, NEW t, t # "S", NEW size \in Nat
  PROVE  NumbersRead(DecodeColumn(s, current, t, size), s, current, size)
<1>1. PICK g : /\ g[0] = [cells |-> <<>>, current |-> current]
               /\ g[size] = DecodeColumn(s, current, t, size)
               /\ \A m \in 1 .. size : g[m] = ReadCell(s, t, g[m - 1])
  BY DecodeColumnSteps
<1> DEFINE L(m) == /\ IsSeq(g[m].cells) /\ Len(g[m].cells) = m
                   /\ g[m].current = current + m
                   /\ \A k \in 1 .. m : g[m].cells[k] = s[current + k - 1]
           Q    == {m \in Nat : m <= size => L(m)}
<1>2. 0 \in Q
  <2>1. L(0)
    BY <1>1, NoElements
  <2> QED
    BY <2>1
<1>3. ASSUME NEW m \in Nat, m \in Q PROVE m + 1 \in Q
  <2>1. SUFFICES ASSUME m + 1 <= size PROVE L(m + 1)
    OBVIOUS
  <2>2. L(m)
    BY <1>3, <2>1
  <2>3. m + 1 \in 1 .. size /\ (m + 1) - 1 = m
    BY <2>1
  <2>4. g[m + 1] = [cells   |-> Append(g[m].cells, s[g[m].current]),
                    current |-> g[m].current + 1]
    <3>1. g[m + 1] = ReadCell(s, t, g[(m + 1) - 1])
      BY <1>1, <2>3
    <3> QED
      BY <2>3, <3>1 DEF ReadCell
  <2> DEFINE x == g[m].cells
             v == s[g[m].current]
             y == g[m + 1].cells
  <2>5. y = Append(x, v) /\ IsSeq(x) /\ Len(x) = m /\ v = s[current + m]
    BY <2>2, <2>4
  <2>6. g[m + 1].current = current + (m + 1)
    BY <2>2, <2>4
  <2>7. \A k \in 1 .. m : x[k] = s[current + k - 1]
    BY <2>2
  <2> HIDE DEF x, v
  <2>8. IsSeq(y) /\ Len(y) = m + 1
        /\ y = [k \in 1 .. m + 1 |-> IF k <= m THEN x[k] ELSE v]
    BY <2>5, AppendIs
  <2> HIDE DEF y
  <2>9. \A k \in 1 .. m + 1 : y[k] = s[current + k - 1]
    <3>1. SUFFICES ASSUME NEW k \in 1 .. m + 1 PROVE y[k] = s[current + k - 1]
      OBVIOUS
    <3>2. CASE k <= m
      BY <2>7, <2>8, <3>2
    <3>3. CASE ~(k <= m)
      <4>1. k = m + 1 /\ current + k - 1 = current + m
        BY <3>3
      <4> QED
        BY <2>5, <2>8, <3>3, <4>1
    <3> QED
      BY <3>2, <3>3
  <2> QED
    BY <2>6, <2>8, <2>9 DEF y
<1> HIDE DEF Q
<1>4. size \in Q
  BY <1>2, <1>3, AllNumbers
<1>5. L(size)
  BY <1>4 DEF Q
<1> QED
  BY <1>1, <1>5 DEF NumbersRead

\* Strings one behind the other, each with its separator.
Ended(x) == [k \in 1 .. Len(x) |-> Append(x[k], Tab)]

LEMMA EndedIs ==
  ASSUME NEW x, IsSeq(x), \A k \in 1 .. Len(x) : IsSeq(x[k])
  PROVE  /\ IsSeq(Ended(x)) /\ Len(Ended(x)) = Len(x)
         /\ \A k \in 1 .. Len(x) :
              /\ IsSeq(Ended(x)[k]) /\ Len(Ended(x)[k]) = Len(x[k]) + 1
              /\ Ended(x)[k][Len(x[k]) + 1] = Tab
              /\ \A j \in 1 .. Len(x[k]) : Ended(x)[k][j] = x[k][j]
<1> DEFINE q == Ended(x)
<1>1. Len(x) \in Nat /\ q = [k \in 1 .. Len(x) |-> q[k]]
      /\ \A k \in 1 .. Len(x) : q[k] = Append(x[k], Tab)
  BY DEF Ended, IsSeq
<1> HIDE DEF q
<1>2. IsSeq(q) /\ Len(q) = Len(x)
  BY <1>1, FunctionIsSeq
<1>3. ASSUME NEW k \in 1 .. Len(x)
      PROVE  /\ IsSeq(q[k]) /\ Len(q[k]) = Len(x[k]) + 1
             /\ q[k][Len(x[k]) + 1] = Tab
             /\ \A j \in 1 .. Len(x[k]) : q[k][j] = x[k][j]
  <2> DEFINE u == x[k]
             v == q[k]
  <2>1. IsSeq(u) /\ v = Append(u, Tab) /\ Len(u) \in Nat
    BY <1>1 DEF IsSeq
  <2> HIDE DEF u, v
  <2>2. /\ IsSeq(v) /\ Len(v) = Len(u) + 1
        /\ v = [j \in 1 .. Len(u) + 1 |-> IF j <= Len(u) THEN u[j] ELSE Tab]
    BY <2>1, AppendIs
  <2>3. v[Len(u) + 1] = Tab /\ \A j \in 1 .. Len(u) : v[j] = u[j]
    BY <2>1, <2>2
  <2> QED
    BY <2>2, <2>3 DEF u, v
<1> QED
  BY <1>2, <1>3 DEF q

LEMMA StringsLaid ==
  ASSUME NEW s, NEW at \in Nat, NEW x, IsSeq(x), \A k \in 1 .. Len(x) : IsSeq(x[k]),
         NEW pos, Laid(s, at, Ended(x), pos)
  PROVE  /\ pos[0] = 0
         /\ \A m \in 0 .. Len(x) : pos[m] \in Nat /\ at + pos[m] <= Len(s)
         /\ \A m \in 1 .. Len(x) :
              /\ pos[m] = pos[m - 1] + (Len(x[m]) + 1)
              /\ s[at + pos[m]] = Tab
              /\ \A j \in 1 .. Len(x[m]) : s[at + pos[m - 1] + j] = x[m][j]
<1> DEFINE q == Ended(x)
<1>1. /\ Len(q) = Len(x) /\ Len(x) \in Nat
      /\ \A k \in 1 .. Len(x) :
           /\ Len(q[k]) = Len(x[k]) + 1 /\ Len(x[k]) \in Nat
           /\ q[k][Len(x[k]) + 1] = Tab
           /\ \A j \in 1 .. Len(x[k]) : q[k][j] = x[k][j]
  <2>1. Len(x) \in Nat /\ \A k \in 1 .. Len(x) : Len(x[k]) \in Nat
    BY DEF IsSeq
  <2> QED
    BY <2>1, EndedIs
<1> HIDE DEF q
<1>2. /\ pos[0] = 0
      /\ \A k \in 0 .. Len(x) : pos[k] \in Nat /\ at + pos[k] <= Len(s)
      /\ \A k \in 1 .. Len(x) :
           /\ pos[k] = pos[k - 1] + Len(q[k])
           /\ \A j \in 1 .. Len(q[k]) : s[at + pos[k - 1] + j] = q[k][j]
  BY <1>1 DEF Laid, q
<1>3. ASSUME NEW m \in 1 .. Len(x)
      PROVE  /\ pos[m] = pos[m - 1] + (Len(x[m]) + 1)
             /\ s[at + pos[m]] = Tab
             /\ \A j \in 1 .. Len(x[m]) : s[at + pos[m - 1] + j] = x[m][j]
  <2>1. pos[m] = pos[m - 1] + (Len(x[m]) + 1)
    BY <1>1, <1>2
  <2>2. s[at + pos[m]] = Tab
    <3>1. Len(x[m]) + 1 \in 1 .. Len(q[m]) /\ Len(x[m]) \in Nat
      BY <1>1
    <3>2. s[at + pos[m - 1] + (Len(x[m]) + 1)] = Tab
      BY <1>1, <1>2, <3>1
    <3>3. pos[m - 1] \in Nat
      BY <1>1, <1>2
    <3>4. at + pos[m - 1] + (Len(x[m]) + 1) = at + pos[m]
      BY <2>1, <3>1, <3>3
    <3> QED
      BY <3>2, <3>4
  <2>3. ASSUME NEW j \in 1 .. Len(x[m]) PROVE s[at + pos[m - 1] + j] = x[m][j]
    <3>1. j \in 1 .. Len(q[m])
      BY <1>1
    <3> QED
      BY <1>1, <1>2, <3>1
  <2> QED
    BY <2>1, <2>2, <2>3
<1> QED
  BY <1>2, <1>3

\* What is read of the strings x between two positions, from current on.
StringsRead(c, x, current, from, to) ==
  /\ IsSeq(c.cells) /\ Len(c.cells) = Len(x)
  /\ \A k \in 1 .. Len(x) : IsSeq(c.cells[k]) /\ NoTab(c.cells[k])
  /\ c.current \in Nat \ {0} /\ c.current <= to + 1
  /\ current = from + 1 /\ (\A k \in 1 .. Len(x) : NoTab(x[k])) =>
       /\ c.current = to + 1
       /\ \A k \in 1 .. Len(x) : c.cells[k] = x[k]

LEMMA StringsAre ==
  ASSUME NEW s, IsSeq(s), NEW at \in Nat, NEW current \in Nat \ {0}, current <= at + 1,
         NEW x, IsSeq(x), \A k \in 1 .. Len(x) : IsSeq(x[k]),
         NEW pos, Laid(s, at, Ended(x), pos)
  PROVE  StringsRead(DecodeColumn(s, current, "S", Len(x)), x, current, at, at + pos[Len(x)])
<1> DEFINE size  == Len(x)
           clean == current = at + 1 /\ \A k \in 1 .. Len(x) : NoTab(x[k])
<1>0. size \in Nat
  BY DEF IsSeq
<1>1. PICK g : /\ g[0] = [cells |-> <<>>, current |-> current]
               /\ g[size] = DecodeColumn(s, current, "S", size)
               /\ \A m \in 1 .. size : g[m] = ReadCell(s, "S", g[m - 1])
  BY <1>0, DecodeColumnSteps
<1>2. /\ pos[0] = 0
      /\ \A m \in 0 .. size : pos[m] \in Nat /\ at + pos[m] <= Len(s)
      /\ \A m \in 1 .. size :
           /\ pos[m] = pos[m - 1] + (Len(x[m]) + 1)
           /\ s[at + pos[m]] = Tab
           /\ \A j \in 1 .. Len(x[m]) : s[at + pos[m - 1] + j] = x[m][j]
  BY StringsLaid
<1>c. clean => current = at + 1 /\ \A k \in 1 .. size : NoTab(x[k])
  OBVIOUS
<1> HIDE DEF clean
<1> DEFINE L(m) == /\ IsSeq(g[m].cells) /\ Len(g[m].cells) = m
                   /\ \A k \in 1 .. m : IsSeq(g[m].cells[k]) /\ NoTab(g[m].cells[k])
                   /\ g[m].current \in Nat \ {0}
                   /\ g[m].current <= at + pos[m] + 1
                   /\ clean => /\ g[m].current = at + pos[m] + 1
                               /\ \A k \in 1 .. m : g[m].cells[k] = x[k]
           Q    == {m \in Nat : m <= size => L(m)}
<1>3. 0 \in Q
  <2>1. L(0)
    BY <1>1, <1>2, <1>c, NoElements
  <2> QED
    BY <2>1
<1>4. ASSUME NEW m \in Nat, m \in Q PROVE m + 1 \in Q
  <2>1. SUFFICES ASSUME m + 1 <= size PROVE L(m + 1)
    OBVIOUS
  <2>2. L(m)
    BY <1>0, <1>4, <2>1
  <2>3. m + 1 \in 1 .. size /\ (m + 1) - 1 = m /\ m \in 0 .. size /\ m + 1 \in 0 .. size
    BY <1>0, <2>1
  <2> DEFINE a  == g[m].current
             e  == at + pos[m + 1]
             y  == g[m].cells
             z  == g[m + 1].cells
             r  == ReadString(s, a)
             xm == x[m + 1]
  <2>4. z = Append(y, r.cell) /\ g[m + 1].current = r.current
    <3>1. g[m + 1] = ReadCell(s, "S", g[(m + 1) - 1])
      BY <1>1, <2>3
    <3>2. g[m + 1] = [cells   |-> Append(g[m].cells, ReadString(s, g[m].current).cell),
                      current |-> ReadString(s, g[m].current).current]
      BY <2>3, <3>1 DEF ReadCell
    <3> QED
      BY <3>2
  <2>5. /\ IsSeq(y) /\ Len(y) = m /\ \A k \in 1 .. m : IsSeq(y[k]) /\ NoTab(y[k])
        /\ a \in Nat \ {0} /\ a <= at + pos[m] + 1
        /\ clean => a = at + pos[m] + 1 /\ \A k \in 1 .. m : y[k] = x[k]
    BY <2>2
  <2> DEFINE p == pos[m]
             l == Len(xm)
  <2>6. /\ IsSeq(xm) /\ l \in Nat /\ p \in Nat /\ e = at + p + (l + 1)
        /\ e = at + pos[m + 1] /\ e <= Len(s) /\ s[e] = Tab
        /\ \A j \in 1 .. l : s[at + p + j] = xm[j]
    <3>1. IsSeq(xm) /\ l \in Nat /\ p \in Nat /\ at + pos[m + 1] <= Len(s)
      <4>1. IsSeq(xm)
        BY <2>3
      <4>2. l \in Nat
        BY <4>1 DEF IsSeq
      <4> QED
        BY <1>2, <2>3, <4>1, <4>2
    <3>2. pos[m + 1] = pos[(m + 1) - 1] + (Len(x[m + 1]) + 1) /\ s[at + pos[m + 1]] = Tab
          /\ \A j \in 1 .. Len(x[m + 1]) : s[at + pos[(m + 1) - 1] + j] = x[m + 1][j]
      BY <1>2, <2>3
    <3>3. pos[m + 1] = p + (l + 1) /\ \A j \in 1 .. l : s[at + p + j] = xm[j]
      BY <2>3, <3>2
    <3> HIDE DEF p, l, xm
    <3>4. at + pos[m + 1] = at + p + (l + 1)
      BY <3>1, <3>3
    <3> QED
      BY <3>1, <3>2, <3>3, <3>4
  <2> HIDE DEF a, e, y, z, r, L, Q, p, l
  <2>7. e \in Nat /\ a <= e
    <3>1. a <= at + p + 1 /\ a \in Nat
      BY <2>5 DEF p
    <3> QED
      BY <2>6, <3>1
  <2> HIDE DEF xm
  <2>8. /\ IsSeq(r.cell) /\ NoTab(r.cell)
        /\ r.current \in Nat \ {0} /\ r.current <= e + 1
        /\ \A h : /\ IsSeq(h) /\ a + Len(h) = e /\ NoTab(h)
                  /\ \A k \in 1 .. Len(h) : s[a + k - 1] = h[k]
                  => r.cell = h /\ r.current = e + 1
    <3>1. a \in Nat \ {0} /\ e \in Nat /\ a <= e /\ e <= Len(s) /\ s[e] = Tab
      BY <2>5, <2>6, <2>7
    <3>2. ReadsTo(s, a, e, ReadString(s, a))
      BY <3>1, ReadStringIs
    <3>3. ReadsTo(s, a, e, r)
      BY <3>2 DEF r
    <3> QED
      BY <3>3 DEF ReadsTo
  <2>9. ASSUME clean PROVE r.cell = xm /\ r.current = e + 1
    <3>1. a = at + p + 1 /\ NoTab(xm)
      BY <1>c, <2>3, <2>5, <2>9 DEF xm, p
    <3>2. a + l = e
      BY <2>6, <3>1
    <3>3. \A k \in 1 .. l : s[a + k - 1] = xm[k]
      <4>1. SUFFICES ASSUME NEW k \in 1 .. l PROVE s[a + k - 1] = xm[k]
        OBVIOUS
      <4>2. a + k - 1 = at + p + k
        BY <2>6, <3>1
      <4> QED
        BY <2>6, <4>2
    <3>4. l = Len(xm)
      BY DEF l
    <3> QED
      BY <2>6, <2>8, <3>1, <3>2, <3>3, <3>4
  <2>10. IsSeq(z) /\ Len(z) = m + 1
         /\ z = [k \in 1 .. m + 1 |-> IF k <= m THEN y[k] ELSE r.cell]
    BY <2>4, <2>5, AppendIs
  <2>11. z[m + 1] = r.cell /\ \A k \in 1 .. m : z[k] = y[k]
    BY <2>10
  <2>12. \A k \in 1 .. m + 1 : k = m + 1 \/ k \in 1 .. m
    OBVIOUS
  <2>13. \A k \in 1 .. m + 1 : IsSeq(z[k]) /\ NoTab(z[k])
    BY <2>5, <2>8, <2>11, <2>12
  <2>14. clean => \A k \in 1 .. m + 1 : z[k] = x[k]
    BY <2>5, <2>9, <2>11, <2>12 DEF xm
  <2> QED
    BY <2>4, <2>6, <2>8, <2>9, <2>10, <2>13, <2>14 DEF L, z
<1> HIDE DEF Q
<1>5. size \in Q
  BY <1>0, <1>3, <1>4, AllNumbers
<1>6. L(size)
  BY <1>0, <1>5 DEF Q
<1> QED
  BY <1>1, <1>6 DEF clean, StringsRead

\* Where parts are that make up a part.
LEMMA LaidWithin ==
  ASSUME NEW f, Len(f) \in Nat, NEW q, Len(q) \in Nat, NEW pos, Laid(f, 0, q, pos),
         \A k \in 1 .. Len(q) : Len(q[k]) \in Nat,
         NEW s, Len(s) \in Nat, NEW at \in Nat, at + Len(f) <= Len(s),
         \A j \in 1 .. Len(f) : s[at + j] = f[j]
  PROVE  Laid(s, at, q, pos)
<1>1. /\ pos[0] = 0
      /\ \A k \in 0 .. Len(q) : pos[k] \in Nat /\ 0 + pos[k] <= Len(f)
      /\ \A k \in 1 .. Len(q) :
           /\ pos[k] = pos[k - 1] + Len(q[k])
           /\ \A j \in 1 .. Len(q[k]) : f[0 + pos[k - 1] + j] = q[k][j]
  BY DEF Laid
<1>2. ASSUME NEW k \in 0 .. Len(q) PROVE pos[k] \in Nat /\ at + pos[k] <= Len(s)
  <2> DEFINE a == pos[k]
  <2>1. a \in Nat /\ 0 + a <= Len(f)
    BY <1>1
  <2> HIDE DEF a
  <2>2. at + a <= Len(s)
    BY <2>1
  <2> QED
    BY <2>1, <2>2 DEF a
<1>3. ASSUME NEW k \in 1 .. Len(q), NEW j \in 1 .. Len(q[k])
      PROVE  s[at + pos[k - 1] + j] = q[k][j]
  <2>1. k - 1 \in 0 .. Len(q) /\ k \in 0 .. Len(q)
    OBVIOUS
  <2> DEFINE a == pos[k - 1]
             b == pos[k]
             l == Len(q[k])
  <2>2. /\ a \in Nat /\ b \in Nat /\ l \in Nat /\ 0 + b <= Len(f) /\ b = a + l
        /\ f[0 + a + j] = q[k][j] /\ j \in 1 .. l
    <3>1. a \in Nat /\ b \in Nat /\ 0 + b <= Len(f)
      BY <1>1, <2>1
    <3>2. l \in Nat /\ j \in 1 .. l
      OBVIOUS
    <3>3. b = a + l /\ f[0 + a + j] = q[k][j]
      BY <1>1
    <3> QED
      BY <3>1, <3>2, <3>3
  <2> HIDE DEF a, b, l
  <2>3. a + j \in 1 .. Len(f) /\ 0 + a + j = a + j /\ at + (a + j) = at + a + j
    <3>1. j \in Nat /\ 1 <= j /\ j <= l
      BY <2>2
    <3>2. a + j <= b
      BY <2>2, <3>1
    <3> QED
      BY <2>2, <3>1, <3>2
  <2>4. s[at + (a + j)] = f[a + j]
    BY <2>3
  <2>5. s[at + a + j] = q[k][j]
    BY <2>2, <2>3, <2>4
  <2> QED
    BY <2>5 DEF a
<1> QED
  BY <1>1, <1>2, <1>3 DEF Laid

\* The parts of an encoded frame behind its head: its columns.
Parts(types, cells) ==
  [k \in 1 .. Len(types) |->
     IF types[k] # "S" THEN cells[k] ELSE FlattenSeq(Ended(cells[k]))]

\* Cells without null strings.
Proper(types, cells, n) ==
  /\ IsSeq(types) /\ n \in Nat
  /\ \A k \in 1 .. Len(types) :
       /\ IsSeq(cells[k]) /\ Len(cells[k]) = n
       /\ types[k] = "S" => \A r \in 1 .. n : IsSeq(cells[k][r])

LEMMA PartsAre ==
  ASSUME NEW types, NEW cells, NEW n, Proper(types, cells, n)
  PROVE  /\ IsSeq(Parts(types, cells)) /\ Len(Parts(types, cells)) = Len(types)
         /\ \A k \in 1 .. Len(types) :
              /\ IsSeq(Parts(types, cells)[k])
              /\ types[k] # "S" => Parts(types, cells)[k] = cells[k]
              /\ types[k] = "S" =>
                   Parts(types, cells)[k] = FlattenSeq(Ended(cells[k]))
<1> DEFINE p == Parts(types, cells)
<1>1. Len(types) \in Nat /\ p = [k \in 1 .. Len(types) |-> p[k]]
      /\ \A k \in 1 .. Len(types) :
           p[k] = IF types[k] # "S" THEN cells[k] ELSE FlattenSeq(Ended(cells[k]))
  BY DEF Parts, Proper, IsSeq
<1> HIDE DEF p
<1>2. IsSeq(p) /\ Len(p) = Len(types)
  BY <1>1, FunctionIsSeq
<1>3. ASSUME NEW k \in 1 .. Len(types) PROVE IsSeq(p[k])
  <2>1. CASE types[k] # "S"
    BY <1>1, <2>1 DEF Proper
  <2>2. CASE types[k] = "S"
    <3> DEFINE x == cells[k]
    <3>1. IsSeq(x) /\ \A r \in 1 .. Len(x) : IsSeq(x[r])
      BY <2>2 DEF Proper
    <3>2. p[k] = FlattenSeq(Ended(x))
      BY <1>1, <2>2
    <3> HIDE DEF x
    <3>3. IsSeq(Ended(x)) /\ \A r \in 1 .. Len(Ended(x)) : IsSeq(Ended(x)[r])
      BY <3>1, EndedIs
    <3>4. IsSeq(FlattenSeq(Ended(x)))
      BY <3>3, Flattened
    <3> QED
      BY <3>2, <3>4
  <2> QED
    BY <2>1, <2>2
<1> QED
  BY <1>1, <1>2, <1>3 DEF p

LEMMA EncodeIs ==
  ASSUME NEW types, NEW cells, NEW n, Proper(types, cells, n)
  PROVE  LET s == Encode(FrameOf(types, cells, n))
         IN  /\ IsSeq(s) /\ s[1] = Len(types) /\ s[2] = n
             /\ \A k \in 1 .. Len(types) : s[2 + k] = types[k]
             /\ \E pos : Laid(s, 2 + Len(types), Parts(types, cells), pos)
<1> DEFINE d    == FrameOf(types, cells, n)
           p    == Parts(types, cells)
           two  == <<Len(types), n>>
           head == two \o types
           f    == FlattenSeq(p)
           s    == head \o f
           w    == Len(types)
<1>1. /\ IsSeq(types) /\ w \in Nat /\ n \in Nat
      /\ \A k \in 1 .. Len(types) : IsSeq(cells[k]) /\ Len(cells[k]) = n
  BY DEF Proper, IsSeq
<1>2. /\ IsSeq(p) /\ Len(p) = Len(types)
      /\ \A k \in 1 .. Len(types) : IsSeq(p[k])
  BY PartsAre
<1>3. Encode(d) = s
  <2>1. /\ d.ncols_ = Len(types) /\ d.nrows_ = n /\ d.schema_ = types
        /\ \A k \in 1 .. Len(types) :
             /\ Col(d, k - 1).type = types[k] /\ Elements(Col(d, k - 1).arr_) = cells[k]
    BY <1>1, FrameParts
  <2> DEFINE h == [c \in 1 .. d.ncols_ |-> EncodeColumn(Col(d, c - 1))]
  <2> HIDE DEF d
  <2>2. ASSUME NEW k \in 1 .. Len(types)
        PROVE  EncodeColumn(Col(d, k - 1))
                 = IF types[k] # "S" THEN cells[k] ELSE FlattenSeq(Ended(cells[k]))
    <3>1. Col(d, k - 1).type = types[k] /\ Elements(Col(d, k - 1).arr_) = cells[k]
      BY <2>1
    <3>2. DOMAIN cells[k] = 1 .. Len(cells[k])
      BY <1>1 DEF IsSeq
    <3>3. Ended(cells[k]) = [j \in DOMAIN cells[k] |-> Append(cells[k][j], Tab)]
      BY <3>2 DEF Ended
    <3> QED
      BY <3>1, <3>3, Zenon DEF EncodeColumn
  <2>3. h = p
    BY <2>1, <2>2 DEF Parts
  <2>4. Encode(d) = <<d.ncols_, d.nrows_>> \o d.schema_ \o FlattenSeq(h)
    BY Zenon DEF Encode
  <2> HIDE DEF h
  <2> QED
    BY <2>1, <2>3, <2>4
<1> HIDE DEF p, d
<1>4. IsSeq(two) /\ Len(two) = 2 /\ two[1] = w /\ two[2] = n
  <2>1. two \in Seq({w, n}) /\ Len(two) = 2 /\ two[1] = w /\ two[2] = n
    OBVIOUS
  <2> HIDE DEF two
  <2> QED
    BY <2>1, SeqIsSeq
<1> HIDE DEF two
<1>5. /\ IsSeq(head) /\ Len(head) = Len(two) + Len(types)
      /\ \A k \in 1 .. Len(two) : head[k] = two[k]
      /\ \A k \in 1 .. Len(types) : head[Len(two) + k] = types[k]
  <2>1. IsSeq(two) /\ IsSeq(types)
    BY <1>1, <1>4
  <2> QED
    BY <2>1, ConcatElements
<1>6. PICK pos : IsSeq(f) /\ Laid(f, 0, p, pos)
  BY <1>2, Flattened
<1> HIDE DEF head, f
<1>7. /\ IsSeq(s) /\ Len(s) = Len(head) + Len(f)
      /\ \A k \in 1 .. Len(head) : s[k] = head[k]
      /\ \A k \in 1 .. Len(f) : s[Len(head) + k] = f[k]
  <2>1. IsSeq(head) /\ IsSeq(f)
    BY <1>5, <1>6
  <2> QED
    BY <2>1, ConcatElements
<1> HIDE DEF s
<1>8. Len(head) = 2 + w /\ Len(f) \in Nat /\ Len(s) \in Nat /\ Len(s) = (2 + w) + Len(f)
  <2>1. Len(f) \in Nat /\ Len(s) \in Nat
    BY <1>6, <1>7 DEF IsSeq
  <2> QED
    BY <1>4, <1>5, <1>7, <2>1
<1>9. s[1] = w /\ s[2] = n
  <2>1. 1 \in 1 .. Len(two) /\ 2 \in 1 .. Len(two) /\ 1 \in 1 .. Len(head) /\ 2 \in 1 .. Len(head)
    BY <1>1, <1>4, <1>8
  <2> QED
    BY <1>4, <1>5, <1>7, <2>1
<1>10. ASSUME NEW k \in 1 .. Len(types) PROVE s[2 + k] = types[k]
  <2>1. 2 + k \in 1 .. Len(head)
    BY <1>1, <1>8
  <2> QED
    BY <1>4, <1>5, <1>7, <2>1
<1>11. Laid(s, 2 + w, p, pos)
  <2>1. /\ Len(p) \in Nat /\ 2 + w \in Nat /\ (2 + w) + Len(f) <= Len(s)
        /\ \A k \in 1 .. Len(p) : Len(p[k]) \in Nat
    <3>1. \A k \in 1 .. Len(p) : Len(p[k]) \in Nat
      BY <1>2 DEF IsSeq
    <3> QED
      BY <1>1, <1>2, <1>8, <3>1
  <2>2. \A j \in 1 .. Len(f) : s[(2 + w) + j] = f[j]
    BY <1>7, <1>8
  <2> QED
    BY <1>6, <1>8, <2>1, <2>2, LaidWithin
<1> QED
  BY <1>3, <1>7, <1>9, <1>10, <1>11 DEF d, p

\* What is read of a column between two positions, from current on: the
\* column itself, unless the reading is late or there are separators.
ColumnRead(c, t, column, n, current, from, to) ==
  /\ IsSeq(c.cells) /\ Len(c.cells) = n
  /\ t = "S" => \A r \in 1 .. n : IsSeq(c.cells[r]) /\ NoTab(c.cells[r])
  /\ c.current \in Nat \ {0} /\ c.current <= to + 1
  /\ /\ current = from + 1
     /\ t = "S" => \A r \in 1 .. n : NoTab(column[r])
     => c.cells = column /\ c.current = to + 1

LEMMA ColumnIs ==
  ASSUME NEW types, NEW cells, NEW n, Proper(types, cells, n),
         NEW s, IsSeq(s), NEW at \in Nat, NEW pos, Laid(s, at, Parts(types, cells), pos),
         NEW k \in 1 .. Len(types),
         NEW current \in Nat \ {0}, current <= at + pos[k - 1] + 1
  PROVE  ColumnRead(DecodeColumn(s, current, types[k], n), types[k], cells[k], n, current,
                    at + pos[k - 1], at + pos[k])
<1> DEFINE p    == Parts(types, cells)
           x    == cells[k]
           c    == DecodeColumn(s, current, types[k], n)
           a    == pos[k - 1]
           b    == pos[k]
           l    == Len(p[k])
<1>1. /\ n \in Nat /\ IsSeq(x) /\ Len(x) = n /\ Len(types) \in Nat
      /\ types[k] = "S" => \A r \in 1 .. n : IsSeq(x[r])
  BY DEF Proper, IsSeq
<1>2. /\ Len(p) = Len(types) /\ IsSeq(p[k]) /\ l \in Nat
      /\ types[k] # "S" => p[k] = x
      /\ types[k] = "S" => p[k] = FlattenSeq(Ended(x))
  <2>1. /\ Len(p) = Len(types) /\ IsSeq(p[k])
        /\ types[k] # "S" => p[k] = x
        /\ types[k] = "S" => p[k] = FlattenSeq(Ended(x))
    BY PartsAre
  <2> QED
    BY <2>1 DEF IsSeq
<1> HIDE DEF p
<1>3. /\ a \in Nat /\ b \in Nat /\ b = a + l /\ at + b <= Len(s)
      /\ \A j \in 1 .. l : s[at + a + j] = p[k][j]
  <2>1. k \in 1 .. Len(p) /\ k \in 0 .. Len(p) /\ k - 1 \in 0 .. Len(p)
    BY <1>1, <1>2
  <2> QED
    BY <2>1 DEF Laid, p
<1>4. current <= at + a + 1
  OBVIOUS
<1>5. Len(s) \in Nat
  BY DEF IsSeq
<1> HIDE DEF a, b, l, c, x
<1>6. CASE types[k] # "S"
  <2>1. /\ IsSeq(c.cells) /\ Len(c.cells) = n /\ c.current = current + n
        /\ \A j \in 1 .. n : c.cells[j] = s[current + j - 1]
    <3>1. types[k] # "S" /\ n \in Nat /\ current \in Nat \ {0}
      BY <1>1, <1>6
    <3>2. NumbersRead(c, s, current, n)
      BY <3>1, NumbersAre DEF c
    <3> QED
      BY <3>2 DEF NumbersRead
  <2>2. l = n
    BY <1>1, <1>2, <1>6 DEF l
  <2>3. c.current \in Nat \ {0} /\ c.current <= at + b + 1
    <3> DEFINE z == c.current
    <3>1. z = current + n /\ n \in Nat /\ b = a + n /\ a \in Nat /\ current <= at + a + 1
      BY <1>1, <1>3, <1>4, <2>1, <2>2
    <3> HIDE DEF z
    <3>2. z \in Nat \ {0} /\ z <= at + b + 1
      BY <3>1
    <3> QED
      BY <3>2 DEF z
  <2>4. ASSUME current = at + a + 1 PROVE c.cells = x /\ c.current = at + b + 1
    <3>1. c.current = at + b + 1
      BY <1>1, <1>3, <2>1, <2>2, <2>4
    <3>2. ASSUME NEW j \in 1 .. n PROVE c.cells[j] = x[j]
      <4>1. current + j - 1 = at + a + j
        BY <1>3, <2>4
      <4>2. s[at + a + j] = x[j]
        BY <1>2, <1>3, <1>6, <2>2
      <4> QED
        BY <2>1, <4>1, <4>2
    <3>3. c.cells = x
      BY <1>1, <2>1, <3>2, SameSeq
    <3> QED
      BY <3>1, <3>3
  <2> QED
    BY <1>6, <2>1, <2>3, <2>4 DEF a, b, c, x, ColumnRead
<1>7. CASE types[k] = "S"
  <2> DEFINE q == Ended(x)
             f == FlattenSeq(q)
             m == at + a
  <2>1. \A r \in 1 .. Len(x) : IsSeq(x[r])
    BY <1>1, <1>7
  <2>2. IsSeq(q) /\ Len(q) = n /\ \A r \in 1 .. Len(q) : IsSeq(q[r])
    BY <1>1, <2>1, EndedIs
  <2> HIDE DEF q
  <2>3. PICK pos2 : Laid(f, 0, q, pos2) /\ Len(f) = pos2[Len(q)]
    BY <2>2, Flattened
  <2>4. p[k] = f /\ l = Len(f)
    BY <1>2, <1>7 DEF q, l
  <2> HIDE DEF f
  <2>5. m \in Nat /\ m + Len(f) <= Len(s) /\ m + Len(f) = at + b
        /\ \A j \in 1 .. Len(f) : s[m + j] = f[j]
    BY <1>2, <1>3, <1>5, <2>4
  <2>6. Laid(s, m, q, pos2)
    <3>1. \A r \in 1 .. Len(q) : Len(q[r]) \in Nat
      BY <2>2 DEF IsSeq
    <3>2. Len(f) \in Nat /\ Len(q) \in Nat
      BY <1>1, <1>2, <2>2, <2>4
    <3> HIDE DEF m
    <3> QED
      BY <1>5, <2>3, <2>5, <3>1, <3>2, LaidWithin
  <2>7. current <= m + 1 /\ (current = at + a + 1 <=> current = m + 1)
    BY <1>4
  <2>8. m + pos2[Len(x)] = at + b
    BY <1>1, <2>2, <2>3, <2>5
  <2> HIDE DEF m
  <2> DEFINE e == DecodeColumn(s, current, "S", Len(x))
  <2>9. StringsRead(e, x, current, m, m + pos2[Len(x)])
    <3>1. Laid(s, m, Ended(x), pos2)
      BY <2>6 DEF q
    <3>2. m \in Nat /\ current <= m + 1 /\ IsSeq(x)
      BY <1>1, <2>5, <2>7
    <3> QED
      BY <2>1, <3>1, <3>2, StringsAre
  <2>10. e = c
    BY <1>1, <1>7 DEF c
  <2> HIDE DEF e
  <2>11. (\A r \in 1 .. n : c.cells[r] = x[r]) => c.cells = x
    BY <1>1, <2>9, <2>10, SameSeq DEF StringsRead
  <2>12. /\ IsSeq(c.cells) /\ Len(c.cells) = n
         /\ \A r \in 1 .. n : IsSeq(c.cells[r]) /\ NoTab(c.cells[r])
         /\ c.current \in Nat \ {0} /\ c.current <= at + b + 1
         /\ current = at + a + 1 /\ (\A r \in 1 .. n : NoTab(x[r])) =>
              c.cells = x /\ c.current = at + b + 1
    BY <1>1, <2>7, <2>8, <2>9, <2>10, <2>11 DEF StringsRead
  <2> QED
    BY <1>7, <2>12 DEF a, b, c, x, ColumnRead
<1> QED
  BY <1>6, <1>7

\* The frame of the first m columns.
FirstColumns(types, x, n, m) ==
  FrameOf(SubSeq(types, 1, m), x, IF m = 0 THEN 0 ELSE n)

\* y has the column c behind the first m columns of x.
WithNext(types, x, y, n, m, c) ==
  /\ add_column(FirstColumns(types, x, n, m), Column(types[m + 1], c))
       = FirstColumns(types, y, n, m + 1)
  /\ y[m + 1] = c /\ \A k \in 1 .. m : y[k] = x[k]

LEMMA OneColumnMore ==
  ASSUME NEW types, IsSeq(types), NEW m \in 0 .. Len(types) - 1, NEW n, NEW x,
         \A k \in 1 .. m : IsSeq(x[k]),
         NEW c, IsSeq(c), Len(c) = n
  PROVE  \E y : WithNext(types, x, y, n, m, c)
<1> DEFINE first == SubSeq(types, 1, m)
           y     == More(first, x, c)
           h     == IF m = 0 THEN 0 ELSE n
           t     == types[m + 1]
<1>1. /\ IsSeq(first) /\ Len(first) = m /\ m \in Nat
      /\ SubSeq(types, 1, m + 1) = Append(first, t)
  <2>1. Len(types) \in Nat
    BY DEF IsSeq
  <2>2. m \in 0 .. Len(types) /\ m \in Nat
    BY <2>1
  <2> QED
    BY <2>2, FrontIs, FrontOneMore
<1> HIDE DEF first, t
<1>2. add_column(FrameOf(first, x, h), Column(t, c))
        = FrameOf(Append(first, t), y, IF Len(first) = 0 THEN Len(c) ELSE h)
  <2>1. \A k \in 1 .. Len(first) : IsSeq(x[k])
    BY <1>1
  <2> HIDE DEF h
  <2>2. add_column(FrameOf(first, x, h), Column(t, c))
          = FrameOf(Append(first, t),
                    [k \in 1 .. Len(first) + 1 |-> IF k <= Len(first) THEN x[k] ELSE c],
                    IF Len(first) = 0 THEN Len(c) ELSE h)
    BY <1>1, <2>1, AddColumnIs
  <2> QED
    BY <2>2, Zenon DEF More
<1>3. (IF Len(first) = 0 THEN Len(c) ELSE h) = n /\ (IF m + 1 = 0 THEN 0 ELSE n) = n
  BY <1>1
<1>4. y[m + 1] = c /\ \A k \in 1 .. m : y[k] = x[k]
  BY <1>1 DEF More
<1> HIDE DEF y
<1>5. add_column(FirstColumns(types, x, n, m), Column(types[m + 1], c))
        = FirstColumns(types, y, n, m + 1)
  <2>1. FirstColumns(types, x, n, m) = FrameOf(first, x, h)
    BY Zenon DEF FirstColumns, first
  <2>2. FirstColumns(types, y, n, m + 1) = FrameOf(Append(first, t), y, n)
    BY <1>1, <1>3 DEF FirstColumns
  <2> HIDE DEF h
  <2> QED
    BY <1>2, <1>3, <2>1, <2>2 DEF t
<1> QED
  BY <1>4, <1>5 DEF WithNext

\* The strings of a frame have no separators.
Plain(types, cells, n) ==
  \A k \in 1 .. Len(types) : types[k] = "S" => \A r \in 1 .. n : NoTab(cells[k][r])

\* What is decoded after m columns.
ReadSoFar(h, types, cells, n, m, x, last) ==
  /\ h.df = FirstColumns(types, x, n, m)
  /\ \A k \in 1 .. m : /\ IsSeq(x[k]) /\ Len(x[k]) = n
                       /\ types[k] = "S" => \A r \in 1 .. n : NoTab(x[k][r])
  /\ h.current \in Nat \ {0} /\ h.current <= last + 1
  /\ Plain(types, cells, n) => /\ h.current = last + 1
                               /\ \A k \in 1 .. m : x[k] = cells[k]

LEMMA ReadOneColumn ==
  ASSUME NEW types, NEW cells, NEW n, Proper(types, cells, n),
         NEW s, IsSeq(s), s[2] = n, \A k \in 1 .. Len(types) : s[2 + k] = types[k],
         NEW at \in Nat, NEW pos, Laid(s, at, Parts(types, cells), pos),
         NEW m \in 0 .. Len(types) - 1, NEW h, NEW x,
         ReadSoFar(h, types, cells, n, m, x, at + pos[m])
  PROVE  \E y : ReadSoFar(ReadColumn(s, m + 1, h), types, cells, n, m + 1, y,
                          at + pos[m + 1])
<1> DEFINE t    == types[m + 1]
           a    == h.current
           c    == DecodeColumn(s, a, t, n)
           next == ReadColumn(s, m + 1, h)
           last == at + pos[m + 1]
<1>1. IsSeq(types) /\ Len(types) \in Nat /\ m + 1 \in 1 .. Len(types) /\ (m + 1) - 1 = m
      /\ m \in Nat
  BY DEF Proper, IsSeq
<1>2. next.df = add_column(h.df, Column(t, c.cells)) /\ next.current = c.current
  <2>1. s[2 + (m + 1)] = t
    BY <1>1
  <2> QED
    BY <2>1 DEF ReadColumn
<1>3. /\ h.df = FirstColumns(types, x, n, m)
      /\ \A k \in 1 .. m : /\ IsSeq(x[k]) /\ Len(x[k]) = n
                           /\ types[k] = "S" => \A r \in 1 .. n : NoTab(x[k][r])
      /\ a \in Nat \ {0} /\ a <= at + pos[m] + 1
      /\ Plain(types, cells, n) => /\ a = at + pos[m] + 1
                                   /\ \A k \in 1 .. m : x[k] = cells[k]
  BY DEF ReadSoFar
<1> HIDE DEF a, next
<1>4. /\ IsSeq(c.cells) /\ Len(c.cells) = n
      /\ t = "S" => \A r \in 1 .. n : IsSeq(c.cells[r]) /\ NoTab(c.cells[r])
      /\ c.current \in Nat \ {0} /\ c.current <= last + 1
      /\ /\ a = at + pos[m] + 1
         /\ t = "S" => \A r \in 1 .. n : NoTab(cells[m + 1][r])
         => c.cells = cells[m + 1] /\ c.current = last + 1
  <2> DEFINE k == m + 1
  <2>1. k \in 1 .. Len(types) /\ k - 1 = m
    BY <1>1
  <2> HIDE DEF k
  <2>2. a \in Nat \ {0} /\ a <= at + pos[k - 1] + 1
    BY <1>3, <2>1
  <2> DEFINE e == DecodeColumn(s, a, types[k], n)
  <2>3. ColumnRead(e, types[k], cells[k], n, a, at + pos[k - 1], at + pos[k])
    BY <2>1, <2>2, ColumnIs
  <2>4. e = c
    BY DEF k
  <2> HIDE DEF e, c
  <2> QED
    BY <2>1, <2>3, <2>4 DEF k, ColumnRead
<1> HIDE DEF c, last
<1>5. PICK y : /\ add_column(FirstColumns(types, x, n, m), Column(t, c.cells))
                    = FirstColumns(types, y, n, m + 1)
               /\ y[m + 1] = c.cells /\ \A k \in 1 .. m : y[k] = x[k]
  <2>1. \A k \in 1 .. m : IsSeq(x[k])
    BY <1>3
  <2> DEFINE z == c.cells
  <2>2. IsSeq(z) /\ Len(z) = n
    BY <1>4
  <2> HIDE DEF z
  <2>3. \E y : WithNext(types, x, y, n, m, z)
    BY <1>1, <2>1, <2>2, OneColumnMore
  <2> QED
    BY <2>3 DEF WithNext, z
<1>6. next.df = FirstColumns(types, y, n, m + 1)
  BY <1>2, <1>3, <1>5
<1>7. \A k \in 1 .. m + 1 : k = m + 1 \/ k \in 1 .. m
  BY <1>1
<1>8. \A k \in 1 .. m + 1 : /\ IsSeq(y[k]) /\ Len(y[k]) = n
                            /\ types[k] = "S" => \A r \in 1 .. n : NoTab(y[k][r])
  BY <1>3, <1>4, <1>5, <1>7
<1>9. ASSUME Plain(types, cells, n)
      PROVE  next.current = last + 1 /\ \A k \in 1 .. m + 1 : y[k] = cells[k]
  <2>1. t = "S" => \A r \in 1 .. n : NoTab(cells[m + 1][r])
    BY <1>1, <1>9 DEF Plain
  <2>2. c.cells = cells[m + 1] /\ c.current = last + 1
    BY <1>3, <1>4, <1>9, <2>1
  <2> QED
    BY <1>2, <1>3, <1>5, <1>7, <1>9, <2>2
<1>10. next.current \in Nat \ {0} /\ next.current <= last + 1
  BY <1>2, <1>4
<1>11. ReadSoFar(next, types, cells, n, m + 1, y, last)
  BY <1>6, <1>8, <1>9, <1>10 DEF ReadSoFar
<1> QED
  BY <1>11 DEF next, last

LEMMA DecodedIs ==
  ASSUME NEW types, NEW cells, NEW n, Proper(types, cells, n)
  PROVE  \E x : /\ Decode(Encode(FrameOf(types, cells, n)))
                     = FrameOf(types, x, IF Len(types) = 0 THEN 0 ELSE n)
                /\ \A k \in 1 .. Len(types) : IsSeq(x[k]) /\ Len(x[k]) = n
                /\ Plain(types, x, n)
                /\ Plain(types, cells, n) => \A k \in 1 .. Len(types) : x[k] = cells[k]
<1> DEFINE s  == Encode(FrameOf(types, cells, n))
           w  == Len(types)
           at == 2 + w
<1>1. /\ IsSeq(s) /\ s[1] = w /\ s[2] = n
      /\ \A k \in 1 .. Len(types) : s[2 + k] = types[k]
      /\ \E pos : Laid(s, at, Parts(types, cells), pos)
  BY EncodeIs
<1> HIDE DEF s
<1>2. PICK pos : Laid(s, at, Parts(types, cells), pos)
  BY <1>1
<1>3. IsSeq(types) /\ w \in Nat /\ at \in Nat
  BY DEF Proper, IsSeq
<1>4. PICK g : /\ g[0] = [df |-> Frame(<<>>), current |-> 3 + w]
               /\ Decode(s) = g[w].df
               /\ \A m \in 1 .. w : g[m] = ReadColumn(s, m, g[m - 1])
  <2>1. s[1] \in Nat
    BY <1>1, <1>3
  <2>2. \E g : /\ g[0] = [df |-> Frame(<<>>), current |-> 3 + s[1]]
               /\ Decode(s) = g[s[1]].df
               /\ \A m \in 1 .. s[1] : g[m] = ReadColumn(s, m, g[m - 1])
    BY <2>1, DecodeSteps
  <2> QED
    BY <1>1, <2>2
<1> DEFINE L(m) == \E x : ReadSoFar(g[m], types, cells, n, m, x, at + pos[m])
           Q    == {m \in Nat : m <= w => L(m)}
<1>5. 0 \in Q
  <2> DEFINE x == [k \in 1 .. Len(types) |-> <<>>]
  <2>1. g[0].df = FirstColumns(types, cells, n, 0)
    <3>1. Frame(<<>>) = FrameOf(<<>>, [k \in 1 .. Len(<<>>) |-> <<>>], 0)
      BY NoElements, FrameNew
    <3>2. Len(<<>>) = 0
      BY NoElements
    <3>3. FrameOf(<<>>, [k \in 1 .. Len(<<>>) |-> <<>>], 0) = FrameOf(<<>>, cells, 0)
      BY <3>2, SameFrame
    <3>4. SubSeq(types, 1, 0) = <<>>
      <4>1. 0 \in 0 .. Len(types)
        BY <1>3
      <4>2. IsSeq(SubSeq(types, 1, 0)) /\ Len(SubSeq(types, 1, 0)) = 0
        BY <1>3, <4>1, FrontIs
      <4> QED
        BY <4>2, NoElements
    <3>5. FirstColumns(types, cells, n, 0) = FrameOf(<<>>, cells, 0)
      BY <3>4 DEF FirstColumns
    <3>6. g[0].df = Frame(<<>>)
      BY <1>4
    <3> QED
      BY <3>1, <3>3, <3>5, <3>6
  <2>2. pos[0] = 0
    BY <1>2 DEF Laid
  <2>3. g[0].current = at + pos[0] + 1 /\ g[0].current \in Nat \ {0}
    <3>1. g[0].current = 3 + w
      BY <1>4
    <3> QED
      BY <1>3, <2>2, <3>1
  <2>4. \A k \in 1 .. 0 : FALSE
    OBVIOUS
  <2>5. ReadSoFar(g[0], types, cells, n, 0, cells, at + pos[0])
    <3> DEFINE z == g[0].current
               y == at + pos[0] + 1
    <3>1. z = y /\ z \in Nat \ {0}
      BY <2>3
    <3>2. z \in Nat \ {0} /\ z <= y
      <4> HIDE DEF z, y
      <4> QED
        BY <3>1
    <3> QED
      BY <2>1, <2>3, <2>4, <3>2 DEF ReadSoFar
  <2> QED
    BY <2>5
<1>6. ASSUME NEW m \in Nat, m \in Q PROVE m + 1 \in Q
  <2>1. SUFFICES ASSUME m + 1 <= w PROVE L(m + 1)
    OBVIOUS
  <2>2. PICK x : ReadSoFar(g[m], types, cells, n, m, x, at + pos[m])
    BY <1>3, <1>6, <2>1
  <2>3. m \in 0 .. Len(types) - 1 /\ g[m + 1] = ReadColumn(s, m + 1, g[m])
    <3>1. m + 1 \in 1 .. w /\ (m + 1) - 1 = m
      BY <1>3, <2>1
    <3>2. g[m + 1] = ReadColumn(s, m + 1, g[(m + 1) - 1])
      BY <1>4, <3>1
    <3> QED
      BY <1>3, <2>1, <3>1, <3>2
  <2> HIDE DEF Q
  <2>4. \E y : ReadSoFar(ReadColumn(s, m + 1, g[m]), types, cells, n, m + 1, y,
                         at + pos[m + 1])
    <3> HIDE DEF at
    <3> QED
      BY <1>1, <1>2, <1>3, <2>2, <2>3, ReadOneColumn
  <2> QED
    BY <2>3, <2>4
<1> HIDE DEF Q
<1>7. w \in Q
  BY <1>3, <1>5, <1>6, AllNumbers
<1>8. PICK x : ReadSoFar(g[w], types, cells, n, w, x, at + pos[w])
  BY <1>3, <1>7 DEF Q
<1>9. SubSeq(types, 1, w) = types
  <2>1. w \in 0 .. Len(types)
    BY <1>3
  <2>2. /\ IsSeq(SubSeq(types, 1, w)) /\ Len(SubSeq(types, 1, w)) = w
        /\ SubSeq(types, 1, w) = [k \in 1 .. w |-> types[k]]
    BY <1>3, <2>1, FrontIs
  <2> QED
    BY <1>3, <2>2 DEF IsSeq
<1>10. Decode(s) = FrameOf(types, x, IF Len(types) = 0 THEN 0 ELSE n)
  BY <1>4, <1>8, <1>9 DEF ReadSoFar, FirstColumns
<1>11. /\ \A k \in 1 .. w : IsSeq(x[k]) /\ Len(x[k]) = n
       /\ Plain(types, x, n)
       /\ Plain(types, cells, n) => \A k \in 1 .. Len(types) : x[k] = cells[k]
  BY <1>8 DEF ReadSoFar, Plain
<1> QED
  BY <1>10, <1>11 DEF s

\* A frame of the model is encoded and decoded to itself just when it can be.
LEMMA FrameRoundTrip ==
  ASSUME NEW types, NEW cells, NEW n, Good(types, cells, n)
  PROVE  LET d == FrameOf(types, cells, n)
         IN  ~HasNull(d) => (Decode(Encode(d)) = d <=> Encodable(d))
<1> DEFINE d == FrameOf(types, cells, n)
           w == Len(types)
<1> SUFFICES ASSUME ~HasNull(d) PROVE Decode(Encode(d)) = d <=> Encodable(d)
  OBVIOUS
<1>1. /\ IsSeq(types) /\ w \in Nat /\ n \in Nat
      /\ \A k \in 1 .. w : /\ IsSeq(cells[k]) /\ Len(cells[k]) = n
                           /\ \A r \in 1 .. n : cells[k][r] \in FrameCell[types[k]]
  BY GoodSeqs
<1>2. /\ d.schema_ = types /\ d.nrows_ = n /\ d.ncols_ = w
      /\ \A k \in 1 .. w : /\ Elements(Col(d, k - 1).arr_) = cells[k]
                           /\ \A r \in 1 .. n : CellAt(d, k, r) = cells[k][r]
  BY <1>1, FrameParts
<1>3. ASSUME NEW k \in 1 .. w, types[k] = "S", NEW r \in 1 .. n PROVE IsSeq(cells[k][r])
  <2>1. cells[k][r] # Null
    <3>1. Null \notin Range(cells[k])
      BY <1>2 DEF HasNull
    <3>2. DOMAIN cells[k] = 1 .. n
      BY <1>1 DEF IsSeq
    <3> QED
      BY <3>1, <3>2 DEF Range
  <2>2. cells[k][r] \in Seq(Char)
    BY <1>1, <1>3, <2>1, FrameCells
  <2> QED
    BY <2>2, SeqIsSeq
<1>4. Proper(types, cells, n)
  BY <1>1, <1>3 DEF Proper
<1>5. PICK x : /\ Decode(Encode(d)) = FrameOf(types, x, IF w = 0 THEN 0 ELSE n)
               /\ \A k \in 1 .. w : IsSeq(x[k]) /\ Len(x[k]) = n
               /\ Plain(types, x, n)
               /\ Plain(types, cells, n) => \A k \in 1 .. w : x[k] = cells[k]
  BY <1>4, DecodedIs
<1>6. Encodable(d) <=> Plain(types, cells, n) /\ (n > 0 => w > 0)
  <2>1. ASSUME NEW k \in 1 .. w, types[k] = "S", NEW r \in 1 .. n
        PROVE  Tab \notin Range(CellAt(d, k, r)) <=> NoTab(cells[k][r])
    <3> DEFINE c == cells[k][r]
    <3>1. CellAt(d, k, r) = c /\ IsSeq(c)
      BY <1>2, <1>3, <2>1
    <3> HIDE DEF c
    <3>2. DOMAIN c = 1 .. Len(c)
      BY <3>1 DEF IsSeq
    <3>3. Tab \notin Range(c) <=> NoTab(c)
      BY <3>2 DEF Range, NoTab
    <3> QED
      BY <3>1, <3>3 DEF c
  <2> HIDE DEF d
  <2>2. Encodable(d) <=>
          /\ \A k \in 1 .. w : types[k] = "S" =>
               \A r \in 1 .. n : Tab \notin Range(CellAt(d, k, r))
          /\ n > 0 => w > 0
    BY <1>2 DEF Encodable
  <2> QED
    BY <2>1, <2>2 DEF Plain
<1>7. ASSUME Encodable(d) PROVE Decode(Encode(d)) = d
  <2>1. (IF w = 0 THEN 0 ELSE n) = n
    BY <1>1, <1>6, <1>7
  <2>2. \A k \in 1 .. Len(types) : x[k] = cells[k]
    BY <1>5, <1>6, <1>7
  <2>3. FrameOf(types, x, n) = FrameOf(types, cells, n)
    BY <2>2, SameFrame
  <2> HIDE DEF d
  <2> QED
    BY <1>5, <2>1, <2>3 DEF d
<1>8. ASSUME Decode(Encode(d)) = d PROVE Encodable(d)
  <2> DEFINE m == IF w = 0 THEN 0 ELSE n
             e == FrameOf(types, x, m)
  <2>1. /\ e.nrows_ = m
        /\ \A k \in 1 .. w : \A r \in 1 .. n : CellAt(e, k, r) = x[k][r]
    <3> HIDE DEF m
    <3>1. \A k \in 1 .. Len(types) : IsSeq(x[k]) /\ Len(x[k]) = n
      BY <1>5
    <3> QED
      BY <1>1, <3>1, FrameParts
  <2>2. e = d
    BY <1>5, <1>8
  <2>3. m = n
    BY <1>2, <2>1, <2>2
  <2>4. n > 0 => w > 0
    BY <1>1, <2>3
  <2>5. Plain(types, cells, n)
    <3> HIDE DEF d, e
    <3>1. \A k \in 1 .. w : \A r \in 1 .. n : x[k][r] = cells[k][r]
      BY <1>2, <2>1, <2>2
    <3> QED
      BY <1>5, <3>1 DEF Plain
  <2> QED
    BY <1>6, <2>4, <2>5
<1> QED
  BY <1>7, <1>8

(* A frame that is encoded and decoded is itself if and only if no string  *)
(* in it contains the separator and no rows are without columns (encode,   *)
(* decode_df).                                                             *)
THEOREM FramesAreEncoded == VisitorSpec => []RoundTrip
<1>1. VisitorInv => RoundTrip
  <2> SUFFICES ASSUME VisitorInv PROVE RoundTrip
    OBVIOUS
  <2>1. PICK cells : Is(df, df.schema_, cells, df.nrows_)
    BY DEF VisitorInv, ClientInv, FrameInv
  <2> DEFINE types == df.schema_
             n     == df.nrows_
  <2>2. Good(types, cells, n) /\ df = FrameOf(types, cells, n)
    BY <2>1 DEF Is
  <2> HIDE DEF types, n
  <2>3. ~HasNull(df) => (Decode(Encode(df)) = df <=> Encodable(df))
    BY <2>2, FrameRoundTrip
  <2> QED
    BY <2>3 DEF RoundTrip
<1> QED
  BY VisitorInitially, VisitorInductive, <1>1, PTL DEF VisitorSpec
-----------------------------------------------------------------------------
(***************************************************************************)
(* The words of a text.                                                    *)
(***************************************************************************)
\* Where the words of a text begin, and in order.
Starts(t) == {k \in 1 .. Len(t) : /\ t[k] # Blank
                                  /\ k - 1 \in 1 .. Len(t) => t[k - 1] = Blank}

Beginnings(t) == Ascending(Starts(t))

\* The number of words of a text.
Count(t) == Len(Beginnings(t))

\* A stretch of a text without white space.
Letters(t, from, to) == \A q \in from .. to : t[q] # Blank

LEMMA BeginningsAre ==
  ASSUME NEW t, IsSeq(t)
  PROVE  /\ Count(t) \in Nat /\ IsSeq(Beginnings(t))
         /\ \A k \in 1 .. Count(t) : Beginnings(t)[k] \in Starts(t)
         /\ \A x \in Starts(t) : \E k \in 1 .. Count(t) : Beginnings(t)[k] = x
         /\ \A j, k \in 1 .. Count(t) : j < k => Beginnings(t)[j] < Beginnings(t)[k]
<1>1. Starts(t) \subseteq 1 .. Len(t) /\ Len(t) \in Nat
  BY DEF Starts, IsSeq
<1>2. Ascent(Beginnings(t), Starts(t))
  BY <1>1, AscendingIs DEF Beginnings
<1> QED
  BY <1>2 DEF Ascent, Count, IsSeq

\* A word is the letters from where it begins up to white space or the end.
WordUpTo(t, k, e) ==
  /\ e \in 1 .. Len(t) /\ Beginnings(t)[k] <= e /\ Letters(t, Beginnings(t)[k], e)
  /\ e < Len(t) => t[e + 1] = Blank

LEMMA WordsAre ==
  ASSUME NEW t, IsSeq(t)
  PROVE  /\ IsSeq(Words(t)) /\ Len(Words(t)) = Count(t)
         /\ \A k \in 1 .. Count(t) :
              \E e : WordUpTo(t, k, e) /\ Words(t)[k] = SubSeq(t, Beginnings(t)[k], e)
<1> DEFINE In(k)  == k \in DOMAIN t /\ t[k] # Blank
           starts == Ascending({k \in DOMAIN t : In(k) /\ ~In(k - 1)})
           Ends(k) == {l \in k .. Len(t) : ~In(l + 1)}
<1>1. Len(t) \in Nat /\ DOMAIN t = 1 .. Len(t)
  BY DEF IsSeq
<1>2. starts = Beginnings(t)
  <2>1. {k \in DOMAIN t : In(k) /\ ~In(k - 1)} = Starts(t)
    BY <1>1 DEF Starts
  <2> QED
    BY <2>1 DEF Beginnings
<1>3. Words(t) = [n \in DOMAIN starts |-> SubSeq(t, starts[n], Min(Ends(starts[n])))]
  BY Zenon DEF Words
<1> DEFINE s == Beginnings(t)
           w == Words(t)
<1>4. /\ Count(t) \in Nat /\ IsSeq(s) /\ Len(s) = Count(t)
      /\ \A k \in 1 .. Count(t) : s[k] \in Starts(t)
  BY BeginningsAre DEF Count
<1>5. DOMAIN s = 1 .. Count(t)
  BY <1>4 DEF IsSeq
<1>6. w = [n \in 1 .. Count(t) |-> SubSeq(t, s[n], Min(Ends(s[n])))]
  BY <1>2, <1>3, <1>5
<1> HIDE DEF s, w, starts
<1>7. w = [n \in 1 .. Count(t) |-> w[n]]
  BY <1>6
<1>8. IsSeq(w) /\ Len(w) = Count(t)
  BY <1>4, <1>7, FunctionIsSeq
<1>9. ASSUME NEW k \in 1 .. Count(t)
      PROVE  \E e : WordUpTo(t, k, e) /\ w[k] = SubSeq(t, s[k], e)
  <2>0. s[k] \in 1 .. Len(t) /\ t[s[k]] # Blank
    BY <1>4 DEF Starts
  <2> DEFINE E == Ends(s[k])
             e == Min(E)
  <2>1. E \subseteq Nat /\ Len(t) \in E
    BY <1>1, <2>0
  <2>2. E = {l \in s[k] .. Len(t) : ~In(l + 1)}
    OBVIOUS
  <2> HIDE DEF E
  <2>3. e \in E /\ \A l \in E : e <= l
    BY <2>1, LeastIs
  <2> HIDE DEF e
  <2>4. e \in s[k] .. Len(t) /\ e \in Nat /\ ~In(e + 1)
    BY <2>1, <2>2, <2>3
  <2>5. e < Len(t) => t[e + 1] = Blank
    BY <1>1, <2>0, <2>4
  <2>6. ASSUME NEW q \in s[k] .. e PROVE t[q] # Blank
    <3>1. CASE q = s[k]
      BY <2>0, <3>1
    <3>2. CASE q # s[k]
      <4>1. q - 1 \in s[k] .. Len(t) /\ ~(e <= q - 1) /\ (q - 1) + 1 = q
        BY <1>1, <2>0, <2>4, <3>2
      <4>2. q - 1 \notin E
        BY <2>3, <4>1
      <4>3. In(q)
        BY <2>2, <4>1, <4>2
      <4> QED
        BY <4>3
    <3> QED
      BY <3>1, <3>2
  <2>7. e \in 1 .. Len(t) /\ s[k] <= e
    BY <1>1, <2>0, <2>4
  <2>8. WordUpTo(t, k, e)
    BY <2>5, <2>6, <2>7 DEF WordUpTo, Letters, s
  <2>9. w[k] = SubSeq(t, s[k], e)
    BY <1>6 DEF e, E
  <2> QED
    BY <2>8, <2>9
<1> QED
  BY <1>8, <1>9 DEF s, w

\* No separator is within a word.
LEMMA WordsPlain ==
  ASSUME NEW t \in Text, IsSeq(t), NEW k \in 1 .. Count(t)
  PROVE  IsSeq(Words(t)[k]) /\ NoTab(Words(t)[k])
<1> DEFINE a == Beginnings(t)[k]
           w == Words(t)[k]
<1>1. PICK e : WordUpTo(t, k, e) /\ w = SubSeq(t, a, e)
  BY WordsAre
<1>2. a \in 1 .. Len(t)
  BY BeginningsAre DEF Starts
<1>3. e \in 1 .. Len(t) /\ a <= e /\ Letters(t, a, e) /\ Len(t) \in Nat
  BY <1>1 DEF WordUpTo, IsSeq
<1> HIDE DEF a, w
<1>n. PICK n : n = e - a + 1
  OBVIOUS
<1>4. n \in Nat /\ a + n - 1 = e /\ a + n - 1 <= Len(t)
  BY <1>2, <1>3, <1>n
<1>5. IsSeq(w) /\ Len(w) = n /\ \A j \in 1 .. n : w[j] = t[a + j - 1]
  <2>1. /\ IsSeq(SubSeq(t, a, a + n - 1)) /\ Len(SubSeq(t, a, a + n - 1)) = n
        /\ \A j \in 1 .. n : SubSeq(t, a, a + n - 1)[j] = t[a + j - 1]
    BY <1>2, <1>4, SubSeqIs
  <2> QED
    BY <1>1, <1>4, <2>1
<1>6. ASSUME NEW j \in 1 .. n PROVE w[j] # Tab
  <2>1. a + j - 1 \in a .. e /\ a + j - 1 \in 1 .. Len(t)
    BY <1>2, <1>3, <1>4
  <2>2. t[a + j - 1] # Blank
    BY <1>3, <2>1 DEF Letters
  <2>3. a + j - 1 \in DOMAIN t
    BY <2>1 DEF IsSeq
  <2>4. t[a + j - 1] # Tab
    BY <2>2, <2>3, FromVisitorAssumption
  <2> QED
    BY <1>5, <2>4
<1> QED
  BY <1>5, <1>6 DEF NoTab, w

\* The first c words of a text begin up to p, and the others behind it.
Passed(t, p, c) == /\ p \in Nat /\ c \in 0 .. Count(t)
                   /\ \A k \in 1 .. Count(t) : k <= c <=> Beginnings(t)[k] <= p

\* Between two words.
Between(t, p, c) == Passed(t, p, c) /\ (p \in 1 .. Len(t) => t[p] = Blank)

LEMMA NonePassed == ASSUME NEW t, IsSeq(t) PROVE Between(t, 0, 0)
<1>1. /\ Count(t) \in Nat /\ Len(t) \in Nat
      /\ \A k \in 1 .. Count(t) : Beginnings(t)[k] \in 1 .. Len(t)
  BY BeginningsAre DEF Starts, IsSeq
<1> QED
  BY <1>1 DEF Between, Passed

\* Behind white space the next word begins where it ends.
LEMMA NextBegins ==
  ASSUME NEW t, IsSeq(t), NEW p, NEW c, Between(t, p, c),
         p < Len(t), t[p + 1] # Blank
  PROVE  c + 1 \in 1 .. Count(t) /\ Beginnings(t)[c + 1] = p + 1
<1> DEFINE s == Beginnings(t)
           m == Count(t)
<1>0. /\ m \in Nat /\ p \in Nat /\ c \in 0 .. m /\ Len(t) \in Nat
      /\ \A k \in 1 .. m : k <= c <=> s[k] <= p
      /\ p \in 1 .. Len(t) => t[p] = Blank
  BY BeginningsAre DEF Between, Passed, IsSeq
<1>1. /\ \A k \in 1 .. m : s[k] \in Starts(t)
      /\ \A x \in Starts(t) : \E k \in 1 .. m : s[k] = x
      /\ \A j, k \in 1 .. m : j < k => s[j] < s[k]
  BY BeginningsAre
<1>2. p + 1 \in Starts(t)
  BY <1>0 DEF Starts
<1> HIDE DEF s, m
<1>3. PICK k \in 1 .. m : s[k] = p + 1
  BY <1>1, <1>2
<1>4. ~(k <= c)
  BY <1>0, <1>3
<1>5. c + 1 \in 1 .. m /\ c + 1 <= k
  BY <1>0, <1>4
<1>6. ~(s[c + 1] <= p)
  BY <1>0, <1>5
<1>7. s[c + 1] \in Nat
  BY <1>0, <1>1, <1>5 DEF Starts
<1>8. s[c + 1] <= s[k]
  <2>1. CASE c + 1 = k
    BY <1>0, <1>3, <1>7, <2>1
  <2>2. CASE c + 1 < k
    <3>1. s[c + 1] < s[k]
      BY <1>1, <1>5, <2>2
    <3> QED
      BY <1>0, <1>3, <1>7, <3>1
  <2> QED
    BY <1>0, <1>5, <2>1, <2>2
<1>9. s[c + 1] = p + 1
  BY <1>0, <1>3, <1>6, <1>7, <1>8
<1> QED
  BY <1>5, <1>9 DEF s, m

\* White space is passed, and what is behind the text.
LEMMA BlankPassed ==
  ASSUME NEW t, IsSeq(t), NEW p, NEW c, Between(t, p, c),
         p < Len(t) => t[p + 1] = Blank
  PROVE  Between(t, p + 1, c)
<1>0. /\ Count(t) \in Nat /\ p \in Nat /\ c \in 0 .. Count(t) /\ Len(t) \in Nat
      /\ \A k \in 1 .. Count(t) : k <= c <=> Beginnings(t)[k] <= p
      /\ \A k \in 1 .. Count(t) : Beginnings(t)[k] \in Starts(t)
  BY BeginningsAre DEF Between, Passed, IsSeq
<1>1. \A k \in 1 .. Count(t) : Beginnings(t)[k] \in Nat /\ Beginnings(t)[k] # p + 1
  <2>1. SUFFICES ASSUME NEW x \in Starts(t) PROVE x \in Nat /\ x # p + 1
    BY <1>0
  <2> QED
    BY <1>0 DEF Starts
<1>2. \A k \in 1 .. Count(t) : k <= c <=> Beginnings(t)[k] <= p + 1
  BY <1>0, <1>1
<1>3. p + 1 \in 1 .. Len(t) => t[p + 1] = Blank
  BY <1>0
<1> QED
  BY <1>0, <1>2, <1>3 DEF Between, Passed

\* A word is passed with the white space behind it.
LEMMA WordPassed ==
  ASSUME NEW t, IsSeq(t), NEW c \in Nat, c + 1 \in 1 .. Count(t), NEW p \in Nat,
         Letters(t, Beginnings(t)[c + 1], p), Beginnings(t)[c + 1] <= p,
         p < Len(t), t[p + 1] = Blank
  PROVE  /\ Between(t, p + 1, c + 1)
         /\ Words(t)[c + 1] = SubSeq(t, Beginnings(t)[c + 1], p)
<1> DEFINE s == Beginnings(t)
           m == Count(t)
<1>0. /\ m \in Nat /\ Len(t) \in Nat
      /\ \A k \in 1 .. m : s[k] \in Starts(t)
      /\ \A j, k \in 1 .. m : j < k => s[j] < s[k]
  BY BeginningsAre DEF IsSeq
<1>1. \A k \in 1 .. m : s[k] \in 1 .. Len(t)
  BY <1>0 DEF Starts
<1>2. p \in 1 .. Len(t)
  BY <1>0, <1>1
<1>3. Words(t)[c + 1] = SubSeq(t, s[c + 1], p)
  <2>1. PICK e : WordUpTo(t, c + 1, e) /\ Words(t)[c + 1] = SubSeq(t, s[c + 1], e)
    BY WordsAre
  <2>2. /\ e \in 1 .. Len(t) /\ s[c + 1] <= e /\ Letters(t, s[c + 1], e)
        /\ e < Len(t) => t[e + 1] = Blank
    BY <2>1 DEF WordUpTo
  <2>3. s[c + 1] \in 1 .. Len(t) /\ Letters(t, s[c + 1], p) /\ s[c + 1] <= p
    BY <1>1
  <2>4. ~(p < e)
    <3> SUFFICES ASSUME p < e PROVE FALSE
      OBVIOUS
    <3>1. p + 1 \in s[c + 1] .. e
      BY <1>0, <2>2, <2>3
    <3> QED
      BY <2>2, <3>1 DEF Letters
  <2>5. ~(e < p)
    <3> SUFFICES ASSUME e < p PROVE FALSE
      OBVIOUS
    <3>1. e + 1 \in s[c + 1] .. p /\ e < Len(t)
      BY <1>0, <1>2, <2>2, <2>3
    <3> QED
      BY <2>2, <2>3, <3>1 DEF Letters
  <2>6. e = p
    BY <1>0, <2>2, <2>4, <2>5
  <2> QED
    BY <2>1, <2>6
<1>4. ASSUME NEW k \in 1 .. m PROVE k <= c + 1 <=> s[k] <= p + 1
  <2>1. CASE k <= c + 1
    <3>1. s[k] <= s[c + 1]
      <4>1. k = c + 1 \/ k < c + 1
        BY <2>1
      <4> QED
        BY <1>0, <1>1, <4>1
    <3> QED
      BY <1>1, <2>1, <3>1
  <2>2. CASE ~(k <= c + 1)
    <3>1. s[c + 1] < s[k] /\ s[k] \in Starts(t)
      BY <1>0, <2>2
    <3>2. SUFFICES ASSUME s[k] <= p + 1 PROVE FALSE
      BY <2>2
    <3>3. t[s[k]] # Blank /\ (s[k] - 1 \in 1 .. Len(t) => t[s[k] - 1] = Blank)
      BY <3>1 DEF Starts
    <3>4. s[k] # p + 1
      BY <3>3
    <3>5. s[k] - 1 \in s[c + 1] .. p /\ s[k] - 1 \in 1 .. Len(t)
      BY <1>1, <1>2, <3>1, <3>2, <3>4
    <3> QED
      BY <3>3, <3>5 DEF Letters
  <2> QED
    BY <2>1, <2>2
<1>5. c + 1 \in 0 .. m
  BY <1>0
<1> QED
  BY <1>3, <1>4, <1>5 DEF Between, Passed

\* At the end all words are passed.
LEMMA AllPassed ==
  ASSUME NEW t, IsSeq(t), NEW p, NEW c, Passed(t, p, c), p >= Len(t)
  PROVE  c = Count(t)
<1>0. /\ Count(t) \in Nat /\ p \in Nat /\ c \in 0 .. Count(t) /\ Len(t) \in Nat
      /\ \A k \in 1 .. Count(t) : k <= c <=> Beginnings(t)[k] <= p
      /\ \A k \in 1 .. Count(t) : Beginnings(t)[k] \in 1 .. Len(t)
  BY BeginningsAre DEF Passed, IsSeq, Starts
<1>1. CASE Count(t) = 0
  BY <1>0, <1>1
<1>2. CASE Count(t) # 0
  <2>1. Count(t) \in 1 .. Count(t) /\ Beginnings(t)[Count(t)] <= p
    BY <1>0, <1>2
  <2>2. Count(t) <= c
    BY <1>0, <2>1
  <2> QED
    BY <1>0, <2>2
<1> QED
  BY <1>1, <1>2

-----------------------------------------------------------------------------
(***************************************************************************)
(* What the reader has read of a text.                                     *)
(***************************************************************************)
\* The buffer shows, from low to its end, the characters before the position
\* of the file.
Shows(buf, low, end, file) ==
  /\ end \in Nat /\ file.at \in Nat /\ end <= file.at /\ file.at <= Len(file.text)
  /\ file.feof => file.at = Len(file.text)
  /\ \A k \in low .. end - 1 : buf[k] = file.text[file.at - end + k + 1]

\* From its beginning on it shows a letter wherever the text has one: visit
\* writes only where a word has ended.
Kept(buf, end, file) ==
  \A k \in 0 .. end - 1 : file.text[file.at - end + k + 1] # Blank => buf[k] # Blank

\* A buffer is full up to the end of the file.  Behind its end the reader is
\* stopped by what an earlier refill has left, and before visit it is at a
\* letter, or done.
Filled == /\ file_.feof \/ end_ = BUFSIZE
          /\ Kept(buf_, end_, file_)
          /\ i_ > end_ => file_.feof /\ \E k \in i_ .. BUFSIZE - 1 : buf_[k] # Blank
          /\ reader = "ready" => IF i_ < end_ THEN buf_[i_] # Blank ELSE file_.feof

LEMMA ShownIsKept ==
  ASSUME NEW buf, NEW end, NEW file, Shows(buf, 0, end, file)
  PROVE  Kept(buf, end, file)
BY DEF Shows, Kept

(* A refill ends with the buffer or with the file, and one that finds      *)
(* nothing behind a whole buffer leaves it as it is.                       *)
LEMMA RefillFills ==
  ASSUME ReaderInv, ~file_.feof, NEW i \in 0 .. end_, NEW w, w = fillBuffer(i)
  PROVE  /\ w.file.feof \/ w.end = BUFSIZE
         /\ i = end_ /\ w.end = 0 =>
              /\ \A k \in 0 .. BUFSIZE : w.buf[k] = buf_[k]
              /\ file_.at = Len(file_.text)
<1> DEFINE t     == file_.text
           at    == file_.at
           start == end_ - i
           left  == Len(t) - at
           room  == BUFSIZE - start
           count == IF left < room THEN left ELSE room
           feof  == file_.feof \/ count < room
           Source(k) == CASE k < start -> buf_[i + k]
                          [] k \in start .. start + count - 1 -> t[at + k - start + 1]
                          [] OTHER -> buf_[k]
<1>0. /\ file_ \in [text : Text, at : Nat, feof : BOOLEAN]
      /\ Len(t) \in Nat /\ at \in Nat /\ at <= Len(t) /\ end_ \in 0 .. BUFSIZE
      /\ BUFSIZE \in Nat \ {0} /\ i \in Nat /\ i <= end_
  BY FileReaderAssumption DEF ReaderInv, Positions, File
<1>1. /\ w.end = start + count
      /\ w.file = [file_ EXCEPT !.at = @ + count, !.feof = feof]
      /\ w.buf = [k \in 0 .. BUFSIZE |-> Source(k)]
  <2>1. fillBuffer(i) =
          [buf  |-> [k \in 0 .. BUFSIZE |-> Source(k)],
           i    |-> start,
           end  |-> start + count,
           file |-> [file_ EXCEPT !.at = @ + count, !.feof = feof]]
    BY Zenon DEF fillBuffer
  <2> HIDE DEF start, left, room, count, feof, t, at, Source
  <2> QED
    BY <2>1
<1>2. /\ left \in Nat /\ room \in Nat /\ count \in Nat /\ count <= room
      /\ count < room => count = left
      /\ start + room = BUFSIZE /\ start \in Nat
  BY <1>0
<1>3. ~feof => count = room
  BY <1>2
<1>4. w.file.feof = feof
  <2>1. feof \in BOOLEAN /\ count \in Nat
    BY <1>2
  <2> HIDE DEF feof, count
  <2>2. w.file = [file_ EXCEPT !.at = file_.at + count, !.feof = feof]
    BY <1>0, <1>1
  <2> QED
    BY <1>0, <2>1, <2>2, FileRead
<1>5. ASSUME i = end_, w.end = 0
      PROVE  (\A k \in 0 .. BUFSIZE : w.buf[k] = buf_[k]) /\ at = Len(t)
  <2>1. start = 0 /\ count = 0 /\ at = Len(t)
    <3>1. start = 0 /\ count = 0
      BY <1>0, <1>1, <1>2, <1>5
    <3>2. count < room
      BY <1>0, <1>2, <3>1
    <3> QED
      BY <1>0, <1>2, <3>1, <3>2
  <2>2. ASSUME NEW k \in 0 .. BUFSIZE PROVE w.buf[k] = buf_[k]
    <3>1. w.buf[k] = Source(k)
      <4> HIDE DEF Source
      <4> QED
        BY <1>1
    <3>2. ~(k < start) /\ ~(k \in start .. start + count - 1)
      <4> HIDE DEF start, count
      <4> QED
        BY <1>0, <2>1
    <3> QED
      BY <3>1, <3>2
  <2> QED
    BY <2>1, <2>2
<1>6. feof \/ w.end = BUFSIZE
  <2> HIDE DEF feof, count, room, start
  <2> QED
    BY <1>1, <1>2, <1>3
<1> QED
  BY <1>4, <1>5, <1>6

LEMMA RefillShows ==
  ASSUME ReaderInv, ~file_.feof, NEW i \in 0 .. end_, Shows(buf_, i, end_, file_),
         NEW w, w = fillBuffer(i)
  PROVE  /\ Shows(w.buf, 0, w.end, w.file) /\ w.file.text = file_.text
         /\ w.i = end_ - i /\ w.i <= w.end
         /\ w.file.at - w.end = file_.at - end_ + i
         /\ w.i = w.end => file_.at = Len(file_.text) \/ end_ - i = BUFSIZE
<1> DEFINE t     == file_.text
           at    == file_.at
           start == end_ - i
           left  == Len(t) - at
           room  == BUFSIZE - start
           count == IF left < room THEN left ELSE room
           feof  == file_.feof \/ count < room
<1>0. /\ file_ \in [text : Text, at : Nat, feof : BOOLEAN]
      /\ Len(t) \in Nat /\ at \in Nat /\ at <= Len(t) /\ end_ \in 0 .. BUFSIZE
      /\ BUFSIZE \in Nat /\ i \in Nat /\ i <= end_ /\ end_ <= at
      /\ \A k \in i .. end_ - 1 : buf_[k] = t[at - end_ + k + 1]
  BY FileReaderAssumption DEF ReaderInv, Positions, File, Shows
<1>1. /\ w.i = start
      /\ w.end = start + count
      /\ w.file = [file_ EXCEPT !.at = @ + count, !.feof = feof]
      /\ w.buf = [k \in 0 .. BUFSIZE |->
                   CASE k < start -> buf_[i + k]
                     [] k \in start .. start + count - 1 -> t[at + k - start + 1]
                     [] OTHER -> buf_[k]]
  <2>1. fillBuffer(i) =
          [buf  |-> [k \in 0 .. BUFSIZE |->
                      CASE k < start -> buf_[i + k]
                        [] k \in start .. start + count - 1 -> t[at + k - start + 1]
                        [] OTHER -> buf_[k]],
           i    |-> start,
           end  |-> start + count,
           file |-> [file_ EXCEPT !.at = @ + count, !.feof = feof]]
    BY Zenon DEF fillBuffer
  <2> HIDE DEF start, left, room, count, feof, t, at
  <2> QED
    BY <2>1
<1>2. /\ left \in Nat /\ room \in Nat /\ count \in Nat /\ start \in 0 .. end_
      /\ count <= left /\ count <= room
      /\ count = left \/ count = room
      /\ count < room => count = left
  BY <1>0
<1>3. feof \in BOOLEAN /\ (feof => count < room)
  OBVIOUS
<1> HIDE DEF count, feof
<1>3a. left = Len(t) - at /\ room = BUFSIZE - start /\ start = end_ - i
  OBVIOUS
<1>4. w.file.at = at + count /\ w.file.text = t /\ w.file.feof = feof
  <2>1. w.file = [file_ EXCEPT !.at = at + count, !.feof = feof]
    BY <1>0, <1>1
  <2>2. at + count \in Nat
    BY <1>0, <1>2
  <2> QED
    BY <1>0, <1>3, <2>1, <2>2, FileRead
<1>5. ASSUME NEW k \in 0 .. (start + count) - 1
      PROVE  w.buf[k] = t[(at + count) - (start + count) + k + 1]
  <2>0. k \in 0 .. BUFSIZE /\ (at + count) - (start + count) + k + 1 = at - start + k + 1
    BY <1>0, <1>2
  <2>1. CASE k < start
    <3>0. k < start /\ ~(k \in start .. start + count - 1)
      BY <1>2, <2>1
    <3>1. w.buf[k] = buf_[i + k]
      <4> HIDE DEF start, t, at
      <4>1. w.buf[k] = CASE k < start -> buf_[i + k]
                         [] k \in start .. start + count - 1 -> t[at + k - start + 1]
                         [] OTHER -> buf_[k]
        BY <1>1, <2>0
      <4> QED
        BY <3>0, <4>1
    <3>2. i + k \in i .. end_ - 1 /\ at - end_ + (i + k) + 1 = at - start + k + 1
      BY <1>0, <1>2, <2>1
    <3> QED
      BY <1>0, <2>0, <3>1, <3>2
  <2>2. CASE ~(k < start)
    <3>1. k \in start .. start + count - 1
      BY <1>2, <2>2
    <3>2. w.buf[k] = t[at + k - start + 1]
      BY <1>1, <2>0, <2>2, <3>1
    <3>3. at + k - start + 1 = at - start + k + 1
      BY <1>0, <1>2
    <3> QED
      BY <2>0, <3>2, <3>3
  <2> QED
    BY <2>1, <2>2
<1>6. /\ start + count \in Nat /\ at + count \in Nat /\ start + count <= at + count
      /\ at + count <= Len(t)
      /\ count = left => at + count = Len(t)
      /\ (at + count) - (start + count) = at - end_ + i
      /\ start <= start + count
      /\ start = start + count => at = Len(t) \/ start = BUFSIZE
  <2> HIDE DEF left, room, start, t, at
  <2>0. /\ Len(t) \in Nat /\ at \in Nat /\ at <= Len(t) /\ end_ \in Nat
        /\ BUFSIZE \in Nat /\ i \in Nat /\ i <= end_ /\ end_ <= at
        /\ count \in Nat /\ count <= left /\ (count = left \/ count = room)
        /\ left = Len(t) - at /\ room = BUFSIZE - start /\ start = end_ - i
    BY <1>0, <1>2, <1>3a
  <2>1. start + count \in Nat /\ at + count \in Nat /\ start + count <= at + count
        /\ at + count <= Len(t) /\ start <= start + count
    BY <2>0
  <2>2. /\ count = left => at + count = Len(t)
        /\ (at + count) - (start + count) = at - end_ + i
    BY <2>0
  <2>3. start = start + count => at = Len(t) \/ start = BUFSIZE
    BY <2>0
  <2> QED
    BY <2>1, <2>2, <2>3
<1>7. Shows(w.buf, 0, w.end, w.file)
  <2>1. w.end = start + count /\ w.file.at = at + count /\ w.file.text = t
    BY <1>1, <1>4
  <2>2. w.file.feof => at + count = Len(t)
    BY <1>2, <1>3, <1>4, <1>6
  <2> HIDE DEF start, t, at
  <2> QED
    BY <1>5, <1>6, <2>1, <2>2 DEF Shows
<1> QED
  BY <1>1, <1>4, <1>6, <1>7

LEMMA WindowShows ==
  ASSUME ReaderInv, ~(i_ = end_ /\ file_.feof), NEW from \in Nat, from <= i_,
         Shows(buf_, from, end_, file_), NEW w, w = Window(from),
         NEW low, low = IF i_ = end_ THEN 0 ELSE from
  PROVE  /\ Shows(w.buf, low, w.end, w.file) /\ w.file.text = file_.text
         /\ w.i \in Nat /\ low <= w.i /\ w.end \in Nat /\ w.file.at \in Nat
         /\ w.file.at - w.end + w.i = file_.at - end_ + i_
         /\ w.file.at - w.end + low = file_.at - end_ + from
         /\ i_ = end_ => /\ w.i = end_ - from /\ w.i <= w.end
                         /\ w.i = w.end => \/ file_.at = Len(file_.text)
                                           \/ end_ - from = BUFSIZE
         /\ i_ # end_ => w = [buf |-> buf_, i |-> i_, end |-> end_, file |-> file_]
<1>0. /\ end_ \in Nat /\ i_ \in Nat /\ file_.at \in Nat
      /\ file_ \in [text : Text, at : Nat, feof : BOOLEAN]
  BY FileReaderAssumption DEF ReaderInv, Positions, File
<1>1. CASE i_ = end_
  <2>1. w = fillBuffer(from) /\ from \in 0 .. end_ /\ low = 0 /\ ~file_.feof
    BY <1>0, <1>1 DEF Window
  <2>2. /\ Shows(w.buf, 0, w.end, w.file) /\ w.file.text = file_.text
        /\ w.i = end_ - from /\ w.i <= w.end
        /\ w.file.at - w.end = file_.at - end_ + from
        /\ w.i = w.end => file_.at = Len(file_.text) \/ end_ - from = BUFSIZE
    BY <2>1, RefillShows
  <2>3. w.end \in Nat /\ w.file.at \in Nat
    BY <2>2 DEF Shows
  <2> QED
    BY <1>0, <1>1, <2>1, <2>2, <2>3
<1>2. CASE i_ # end_
  <2>1. w = [buf |-> buf_, i |-> i_, end |-> end_, file |-> file_] /\ low = from
    BY <1>2 DEF Window
  <2> QED
    BY <1>0, <1>2, <2>1
<1> QED
  BY <1>1, <1>2

\* The characters of the text that the reader is past.
Pos == file_.at - end_ + i_

\* The reader between two words, of which c are read: only at the end of the
\* file does it go on behind the end of the buffer.
Skipping(c) == /\ Between(file_.text, Pos, c)
               /\ Shows(buf_, i_, end_, file_)
               /\ i_ > end_ => file_.at = Len(file_.text)

\* The reader within the word behind c others: from wStart on it has met
\* letters only.
Scanning(c) == /\ c \in Nat /\ c + 1 \in 1 .. Count(file_.text)
               /\ wStart <= i_ /\ i_ <= end_
               /\ Beginnings(file_.text)[c + 1] = file_.at - end_ + wStart + 1
               /\ Letters(file_.text, Beginnings(file_.text)[c + 1], Pos)
               /\ Shows(buf_, wStart, end_, file_)

\* What Regular says of words.
LEMMA RegularIs ==
  ASSUME NEW t, IsSeq(t), Regular(t)
  PROVE  /\ Len(t) > 0 => t[Len(t)] = Blank
         /\ \A from, to \in 1 .. Len(t) : from <= to /\ Letters(t, from, to)
              => to - from + 1 < BUFSIZE
<1>1. ASSUME NEW from \in 1 .. Len(t), NEW to \in 1 .. Len(t), from <= to,
             Letters(t, from, to)
      PROVE  to - from + 1 < BUFSIZE
  <2>1. Len(t) \in Nat /\ to \in from .. to
    BY <1>1 DEF IsSeq
  <2>2. Run(t, from, to) /\ t[to] # Blank
    BY <1>1, <2>1 DEF Run, Letters
  <2> QED
    BY <2>2 DEF Regular
<1>2. Len(t) > 0 => t[Len(t)] = Blank
  BY DEF Regular
<1> QED
  BY <1>1, <1>2

(* The buffer of a window, whether it is filled again or not.              *)
LEMMA WindowFills ==
  ASSUME ReaderInv, Characters, Filled, ~(i_ = end_ /\ file_.feof), NEW from,
         i_ = end_ => from \in 0 .. end_ /\ Shows(buf_, from, end_, file_),
         NEW w, w = Window(from)
  PROVE  /\ w.file.feof \/ w.end = BUFSIZE
         /\ Kept(w.buf, w.end, w.file)
         /\ w.buf \in [0 .. BUFSIZE -> Char] /\ w.end \in 0 .. BUFSIZE
<1>1. CASE i_ = end_
  <2>1. w = fillBuffer(from) /\ from \in 0 .. end_ /\ ~file_.feof
    BY <1>1 DEF Window
  <2>2. Shows(w.buf, 0, w.end, w.file)
    BY <1>1, <2>1, RefillShows
  <2>3. w.file.feof \/ w.end = BUFSIZE
    BY <2>1, RefillFills
  <2>4. w.buf \in [0 .. BUFSIZE -> Char] /\ w.end \in 0 .. BUFSIZE
    BY <2>1, RefillCharacters, Refill
  <2>5. Kept(w.buf, w.end, w.file)
    BY <2>2, ShownIsKept
  <2> QED
    BY <2>3, <2>4, <2>5
<1>2. CASE i_ # end_
  <2>1. w = [buf |-> buf_, i |-> i_, end |-> end_, file |-> file_]
    BY <1>2 DEF Window
  <2>2. w.buf = buf_ /\ w.end = end_ /\ w.file = file_
    BY <2>1
  <2> QED
    BY <2>2 DEF Filled, Characters, ReaderInv, Positions
<1> QED
  BY <1>1, <1>2

(* The white space at the end of the text is shorter than a buffer: a      *)
(* whole buffer of the last characters has a letter.                       *)
LEMMA LetterAtEnd ==
  ASSUME NEW t, IsSeq(t), Regular(t), NEW buf, NEW file, file.text = t,
         file.at = Len(t), BUFSIZE <= Len(t), Kept(buf, BUFSIZE, file)
  PROVE  \E k \in 0 .. BUFSIZE - 1 : buf[k] # Blank
<1>0. BUFSIZE \in Nat \ {0} /\ Len(t) \in Nat
  BY FileReaderAssumption DEF IsSeq
<1>1. PICK from : from = Len(t) - BUFSIZE + 1
  OBVIOUS
<1>2. PICK k \in from .. Len(t) : t[k] # Blank
  <2>1. from \in 1 .. Len(t) /\ Len(t) \in 1 .. Len(t) /\ Len(t) - from + 1 = BUFSIZE
    BY <1>0, <1>1
  <2>2. ~Run(t, from, Len(t))
    BY <1>0, <2>1 DEF Regular
  <2>3. t[Len(t)] = Blank
    BY <1>0 DEF Regular
  <2> QED
    BY <2>2, <2>3 DEF Run
<1>3. PICK m \in 0 .. BUFSIZE - 1 : m = k - from
  <2>1. PICK l \in Nat : l = Len(t)
    BY <1>0
  <2>2. k - from \in 0 .. BUFSIZE - 1
    BY <1>0, <1>1, <1>2, <2>1
  <2> QED
    BY <2>2
<1>4. file.at - BUFSIZE + m + 1 = k
  BY <1>0, <1>1, <1>2, <1>3
<1>5. buf[m] # Blank
  BY <1>2, <1>4 DEF Kept
<1> QED
  BY <1>5

(* A round of skipWhitespace_ in a regular file.                           *)
LEMMA SkipFills ==
  ASSUME ReaderInv, Characters, IsSeq(file_.text), Regular(file_.text), Skip, Filled,
         Shows(buf_, i_, end_, file_)
  PROVE  reader' \in {"skip", "ready"} /\ Filled'
<1>0. /\ end_ \in 0 .. BUFSIZE /\ i_ \in Nat /\ BUFSIZE \in Nat \ {0}
      /\ Len(file_.text) \in Nat
  BY FileReaderAssumption DEF ReaderInv, Positions, IsSeq
<1>1. CASE i_ = end_ /\ file_.feof
  <2>1. reader' = "ready" /\ UNCHANGED <<file_, buf_, i_, end_>>
    BY <1>1 DEF Skip
  <2> QED
    BY <1>0, <1>1, <2>1 DEF Filled, Kept
<1>2. CASE ~(i_ = end_ /\ file_.feof)
  <2>1. PICK w : w = Window(i_)
    OBVIOUS
  <2>2. /\ buf_' = w.buf /\ end_' = w.end /\ file_' = w.file
        /\ \E x \in Reads(w.buf, w.i) :
             /\ reader' = CASE x = Blank -> "skip"
                            [] x = Unmapped -> "crashed"
                            [] OTHER -> "ready"
             /\ i_' = IF x = Blank THEN w.i + 1 ELSE w.i
    BY <1>2, <2>1 DEF Skip
  <2>3. i_ = end_ => i_ \in 0 .. end_
    BY <1>0
  <2>4. /\ w.file.feof \/ w.end = BUFSIZE
        /\ Kept(w.buf, w.end, w.file)
        /\ w.buf \in [0 .. BUFSIZE -> Char] /\ w.end \in 0 .. BUFSIZE
    BY <1>2, <2>1, <2>3, WindowFills
  <2>5. w.i \in Nat
    <3>1. CASE i_ = end_
      BY <1>2, <2>1, <2>3, <3>1, Windows
    <3>2. CASE i_ # end_
      BY <1>0, <2>1, <3>2 DEF Window
    <3> QED
      BY <3>1, <3>2
  \* Behind the end of the buffer a letter of the last one stops it.
  <2>6. w.i >= w.end => w.file.feof /\ \E k \in w.i .. BUFSIZE - 1 : w.buf[k] # Blank
    <3> SUFFICES ASSUME w.i >= w.end
                 PROVE  w.file.feof /\ \E k \in w.i .. BUFSIZE - 1 : w.buf[k] # Blank
      OBVIOUS
    <3>1. CASE i_ = end_
      <4>1. w = fillBuffer(i_) /\ i_ \in 0 .. end_ /\ ~file_.feof
        BY <1>2, <2>1, <2>3, <3>1 DEF Window
      <4>2. w.i = 0 /\ w.end = 0
        <5>1. w.i = end_ - i_ /\ w.i <= w.end
          BY <4>1, Refill
        <5> QED
          BY <1>0, <2>4, <2>5, <3>1, <5>1
      <4>3. /\ \A k \in 0 .. BUFSIZE : w.buf[k] = buf_[k]
            /\ file_.at = Len(file_.text)
        BY <3>1, <4>1, <4>2, RefillFills
      <4>4. end_ = BUFSIZE /\ Kept(buf_, BUFSIZE, file_) /\ BUFSIZE <= Len(file_.text)
        BY <4>1, <4>3 DEF Filled, Shows
      <4>5. \E k \in 0 .. BUFSIZE - 1 : buf_[k] # Blank
        BY <4>3, <4>4, LetterAtEnd
      <4>6. PICK k \in 0 .. BUFSIZE - 1 : buf_[k] # Blank
        BY <4>5
      <4>7. w.buf[k] = buf_[k] /\ k \in w.i .. BUFSIZE - 1
        BY <1>0, <4>2, <4>3, <4>6
      <4>8. w.file.feof
        BY <1>0, <2>4, <4>2
      <4> QED
        BY <4>6, <4>7, <4>8
    <3>2. CASE i_ # end_
      <4>1. w = [buf |-> buf_, i |-> i_, end |-> end_, file |-> file_]
        BY <2>1, <3>2 DEF Window
      <4>2. w.buf = buf_ /\ w.i = i_ /\ w.end = end_ /\ w.file = file_
        BY <4>1
      <4>3. i_ > end_
        BY <1>0, <3>2, <4>2
      <4> QED
        BY <4>2, <4>3 DEF Filled
    <3> QED
      BY <3>1, <3>2
  <2>7. w.i \in 0 .. BUFSIZE
    BY <1>0, <2>4, <2>5, <2>6
  <2>8. Reads(w.buf, w.i) = {w.buf[w.i]} /\ w.buf[w.i] # Unmapped
    <3>1. w.buf[w.i] \in Char
      BY <2>4, <2>7
    <3> QED
      BY <1>0, <2>7, <3>1, FromVisitorAssumption DEF Reads
  <2>9. /\ reader' = IF w.buf[w.i] = Blank THEN "skip" ELSE "ready"
        /\ i_' = IF w.buf[w.i] = Blank THEN w.i + 1 ELSE w.i
    BY <2>2, <2>8
  <2>10. (file_.feof \/ end_ = BUFSIZE)' /\ Kept(buf_, end_, file_)'
    BY <2>2, <2>4
  <2>11. CASE w.buf[w.i] = Blank
    <3>1. reader' = "skip" /\ i_' = w.i + 1
      BY <2>9, <2>11
    <3>2. ASSUME i_' > end_'
          PROVE  file_'.feof /\ \E k \in i_' .. BUFSIZE - 1 : buf_'[k] # Blank
      <4>1. w.i >= w.end
        BY <2>2, <2>4, <2>5, <3>1, <3>2
      <4>2. PICK k \in w.i .. BUFSIZE - 1 : w.buf[k] # Blank
        BY <2>6, <4>1
      <4>3. k # w.i
        BY <2>11, <4>2
      <4>4. k \in i_' .. BUFSIZE - 1
        BY <1>0, <2>5, <3>1, <4>2, <4>3
      <4> QED
        BY <2>2, <2>6, <4>1, <4>2, <4>4
    <3> QED
      BY <2>10, <3>1, <3>2 DEF Filled
  <2>12. CASE w.buf[w.i] # Blank
    <3>1. reader' = "ready" /\ i_' = w.i
      BY <2>9, <2>12
    <3>2. IF i_' < end_' THEN buf_'[i_'] # Blank ELSE file_'.feof
      <4>1. ~(w.i < w.end) => w.i >= w.end
        BY <2>4, <2>5
      <4> QED
        BY <2>2, <2>6, <2>12, <3>1, <4>1
    <3>3. i_' > end_' => file_'.feof /\ \E k \in i_' .. BUFSIZE - 1 : buf_'[k] # Blank
      <4>1. w.i > w.end => w.i >= w.end
        BY <2>4, <2>5
      <4> QED
        BY <2>2, <2>6, <3>1, <4>1
    <3> QED
      BY <2>10, <3>1, <3>2, <3>3 DEF Filled
  <2> QED
    BY <2>11, <2>12
<1> QED
  BY <1>1, <1>2

(* visit begins before the end, at a letter.                               *)
LEMMA VisitFills ==
  ASSUME ReaderInv, Visit, Filled, ~done
  PROVE  reader' = "scan" /\ Filled'
<1>0. end_ \in Nat /\ i_ \in Nat
  BY FileReaderAssumption DEF ReaderInv, Positions
<1>1. /\ reader = "ready" /\ UNCHANGED <<file_, buf_, i_, end_>>
      /\ reader' = IF i_ < end_ /\ buf_[i_] # Blank THEN "scan" ELSE "aborted"
  BY DEF Visit
<1>2. i_ < end_ /\ buf_[i_] # Blank
  BY <1>0, <1>1 DEF Filled, done
<1>3. reader' = "scan"
  BY <1>1, <1>2
<1> QED
  BY <1>1, <1>3 DEF Filled, Kept

LEMMA OpenReads ==
  ASSUME ReaderInv, IsSeq(file_.text), OpenReader, file_.at = 0
  PROVE  Skipping(0)' /\ Filled' /\ file_'.text = file_.text
<1>1. i_ = 0 /\ end_ = 0 /\ ~file_.feof /\ Len(file_.text) \in Nat
  BY DEF ReaderInv, Positions, File, OpenReader, IsSeq
<1>2. PICK w : w = fillBuffer(i_)
  OBVIOUS
<1>3. buf_' = w.buf /\ i_' = w.i /\ end_' = w.end /\ file_' = w.file
  BY <1>2 DEF OpenReader
<1>4. Shows(buf_, i_, end_, file_)
  BY <1>1 DEF Shows
<1>5. /\ Shows(w.buf, 0, w.end, w.file) /\ w.file.text = file_.text
      /\ w.i = 0 /\ w.i <= w.end /\ w.file.at - w.end = 0
  <2>1. i_ \in 0 .. end_
    BY <1>1
  <2>2. /\ Shows(w.buf, 0, w.end, w.file) /\ w.file.text = file_.text
        /\ w.i = end_ - i_ /\ w.i <= w.end
        /\ w.file.at - w.end = file_.at - end_ + i_
    BY <1>1, <1>2, <1>4, <2>1, RefillShows
  <2> QED
    BY <1>1, <2>2
<1>6. w.end \in Nat /\ w.file.at \in Nat
  BY <1>5 DEF Shows
<1>7. Pos' = 0
  BY <1>3, <1>5, <1>6 DEF Pos
<1>8. Between(file_.text, 0, 0)
  BY NonePassed
<1>9. Filled'
  <2>1. i_ \in 0 .. end_
    BY <1>1
  <2>2. w.file.feof \/ w.end = BUFSIZE
    BY <1>1, <1>2, <2>1, RefillFills
  <2>3. Kept(w.buf, w.end, w.file)
    BY <1>5, ShownIsKept
  <2>4. reader' = "skip" /\ ~(i_' > end_')
    BY <1>3, <1>5, <1>6 DEF OpenReader
  <2> QED
    BY <1>3, <2>2, <2>3, <2>4 DEF Filled
<1> QED
  BY <1>3, <1>5, <1>6, <1>7, <1>8, <1>9 DEF Skipping

LEMMA SkipReads ==
  ASSUME ReaderInv, IsSeq(file_.text), Skip, NEW c, Skipping(c)
  PROVE  /\ reader' \in {"skip", "ready", "crashed"}
         /\ reader' \in {"skip", "ready"} => Skipping(c)'
         /\ file_'.text = file_.text
<1> DEFINE t == file_.text
<1>0. /\ end_ \in Nat /\ i_ \in Nat /\ file_.at \in Nat /\ Len(t) \in Nat
      /\ BUFSIZE \in Nat \ {0} /\ end_ <= BUFSIZE
      /\ Between(t, Pos, c) /\ Shows(buf_, i_, end_, file_)
      /\ i_ > end_ => file_.at = Len(t)
  BY FileReaderAssumption DEF ReaderInv, Positions, File, Skipping, IsSeq
<1>1. CASE i_ = end_ /\ file_.feof
  <2>1. reader' = "ready" /\ UNCHANGED <<file_, buf_, i_, end_>>
    BY <1>1 DEF Skip
  <2> QED
    BY <2>1 DEF Skipping, Pos
<1>2. CASE ~(i_ = end_ /\ file_.feof)
  <2>1. PICK w : w = Window(i_)
    OBVIOUS
  <2>2. /\ buf_' = w.buf /\ end_' = w.end /\ file_' = w.file
        /\ \E x \in Reads(w.buf, w.i) :
             \/ x = Blank /\ reader' = "skip" /\ i_' = w.i + 1
             \/ x # Blank /\ reader' \in {"ready", "crashed"} /\ i_' = w.i
    <3>1. /\ buf_' = w.buf /\ end_' = w.end /\ file_' = w.file
          /\ \E x \in Reads(w.buf, w.i) :
               /\ reader' = CASE x = Blank -> "skip"
                              [] x = Unmapped -> "crashed"
                              [] OTHER -> "ready"
               /\ i_' = IF x = Blank THEN w.i + 1 ELSE w.i
      BY <1>2, <2>1 DEF Skip
    <3>2. PICK x \in Reads(w.buf, w.i) :
            /\ reader' = CASE x = Blank -> "skip"
                           [] x = Unmapped -> "crashed"
                           [] OTHER -> "ready"
            /\ i_' = IF x = Blank THEN w.i + 1 ELSE w.i
      BY <3>1
    <3>3. CASE x = Blank
      <4>1. x # Unmapped
        BY <3>3, FileReaderAssumption
      <4> QED
        BY <3>1, <3>2, <3>3, <4>1
    <3>4. CASE x # Blank
      <4>1. reader' \in {"ready", "crashed"} /\ i_' = w.i
        BY <3>2, <3>4
      <4> QED
        BY <3>1, <3>4, <4>1
    <3> QED
      BY <3>3, <3>4
  <2>3. PICK low : low = IF i_ = end_ THEN 0 ELSE i_
    OBVIOUS
  <2>4. /\ Shows(w.buf, low, w.end, w.file) /\ w.file.text = t
        /\ w.i \in Nat /\ low <= w.i /\ w.end \in Nat /\ w.file.at \in Nat
        /\ w.file.at - w.end + w.i = file_.at - end_ + i_
        /\ i_ = end_ => /\ w.i = end_ - i_ /\ w.i <= w.end
                        /\ w.i = w.end => \/ file_.at = Len(t)
                                          \/ end_ - i_ = BUFSIZE
        /\ i_ # end_ => w = [buf |-> buf_, i |-> i_, end |-> end_, file |-> file_]
    <3>1. i_ \in Nat /\ i_ <= i_
      BY <1>0
    <3> QED
      BY <1>0, <1>2, <2>1, <2>3, <3>1, WindowShows
  <2>5. low \in Nat /\ low <= w.i /\ w.i \in Nat /\ w.end \in Nat /\ w.file.at \in Nat
    BY <1>0, <2>3, <2>4
  <2>6. w.i >= w.end => w.file.at = Len(t)
    <3> SUFFICES ASSUME w.i >= w.end PROVE w.file.at = Len(t)
      OBVIOUS
    <3>1. CASE i_ = end_
      <4>1. w.i = w.end /\ end_ - i_ # BUFSIZE /\ file_.at = Len(t)
        BY <1>0, <2>4, <3>1
      <4>2. w.file.at = file_.at
        BY <1>0, <2>4, <3>1, <4>1
      <4> QED
        BY <4>1, <4>2
    <3>2. CASE i_ # end_
      <4>1. w.file.at = file_.at /\ w.i = i_ /\ w.end = end_
        BY <2>4, <3>2
      <4>2. i_ > end_
        BY <1>0, <3>2, <4>1
      <4> QED
        BY <1>0, <4>1, <4>2
    <3> QED
      BY <3>1, <3>2
  <2>7. w.file.at - w.end + w.i = Pos /\ Pos \in Int
    BY <1>0, <2>4 DEF Pos
  <2>8. Shows(w.buf, w.i, w.end, w.file) /\ Shows(w.buf, w.i + 1, w.end, w.file)
    <3>1. \A k : k \in w.i .. w.end - 1 => k \in low .. w.end - 1
      BY <2>4, <2>5
    <3>2. \A k : k \in w.i + 1 .. w.end - 1 => k \in low .. w.end - 1
      BY <2>4, <2>5
    <3> QED
      BY <2>4, <3>1, <3>2 DEF Shows
  <2>9. CASE reader' = "skip"
    <3>1. /\ i_' = w.i + 1
          /\ w.i < w.end => w.buf[w.i] = Blank
      <4>1. Blank \in Reads(w.buf, w.i) /\ i_' = w.i + 1
        BY <2>2, <2>9
      <4>2. w.end <= BUFSIZE
        <5>1. i_ = end_ => i_ \in 0 .. end_
          BY <1>0
        <5>2. i_ # end_ => w.end = end_
          BY <2>4
        <5>3. i_ = end_ => w.end <= BUFSIZE
          BY <1>2, <2>1, <5>1, Windows
        <5> QED
          BY <1>0, <5>2, <5>3
      <4>3. w.i < w.end => Reads(w.buf, w.i) = {w.buf[w.i]}
        BY <1>0, <2>5, <4>2 DEF Reads
      <4> QED
        BY <4>1, <4>3
    <3>2. Pos < Len(t) => t[Pos + 1] = Blank
      <4> SUFFICES ASSUME Pos < Len(t) PROVE t[Pos + 1] = Blank
        OBVIOUS
      <4>1. w.i < w.end
        BY <1>0, <2>4, <2>6, <2>7
      <4>2. w.i \in low .. w.end - 1
        BY <2>4, <2>5, <4>1
      <4>3. w.buf[w.i] = t[w.file.at - w.end + w.i + 1]
        BY <2>4, <4>2 DEF Shows
      <4> QED
        BY <2>7, <3>1, <4>1, <4>3
    <3>3. Between(t, Pos + 1, c)
      BY <1>0, <3>2, BlankPassed
    <3>4. Pos' = Pos + 1
      <4>1. Pos' = w.file.at - w.end + (w.i + 1)
        BY <2>2, <3>1 DEF Pos
      <4> QED
        BY <2>5, <2>7, <4>1
    <3>5. i_' > end_' => file_'.at = Len(t)
      BY <2>2, <2>4, <2>6, <3>1
    <3> QED
      BY <2>2, <2>4, <2>8, <2>9, <3>1, <3>3, <3>4, <3>5 DEF Skipping
  <2>10. CASE reader' = "ready"
    <3>1. i_' = w.i
      BY <2>2, <2>10
    <3>2. Pos' = Pos
      BY <2>2, <2>7, <3>1 DEF Pos
    <3>3. i_' > end_' => file_'.at = Len(t)
      BY <2>2, <2>4, <2>6, <3>1
    <3> QED
      BY <1>0, <2>2, <2>4, <2>8, <2>10, <3>1, <3>2, <3>3 DEF Skipping
  <2>11. reader' \in {"crashed", "skip", "ready"}
    BY <2>2
  <2> QED
    BY <2>2, <2>4, <2>9, <2>10, <2>11
<1> QED
  BY <1>1, <1>2

LEMMA VisitReads ==
  ASSUME ReaderInv, IsSeq(file_.text), Visit, NEW c, Skipping(c)
  PROVE  /\ reader' \in {"scan", "aborted"}
         /\ reader' = "scan" => Scanning(c)'
         /\ file_'.text = file_.text
<1> DEFINE t == file_.text
<1>0. /\ end_ \in Nat /\ i_ \in Nat /\ file_.at \in Nat /\ Len(t) \in Nat
      /\ Between(t, Pos, c) /\ Shows(buf_, i_, end_, file_)
  BY FileReaderAssumption DEF ReaderInv, Positions, File, Skipping, IsSeq
<1>1. /\ reader' = IF i_ < end_ /\ buf_[i_] # Blank THEN "scan" ELSE "aborted"
      /\ wStart' = i_
      /\ UNCHANGED <<file_, buf_, i_, end_>>
  BY DEF Visit
<1>2. ASSUME reader' = "scan" PROVE Scanning(c)'
  <2>1. i_ < end_ /\ buf_[i_] # Blank
    BY <1>1, <1>2
  <2>2. i_ \in i_ .. end_ - 1
    BY <1>0, <2>1
  <2>3. buf_[i_] = t[Pos + 1] /\ end_ <= file_.at /\ file_.at <= Len(t)
    BY <1>0, <2>2 DEF Shows, Pos
  <2>4. Pos < Len(t) /\ Pos \in Nat
    BY <1>0, <2>1, <2>3 DEF Pos
  <2>5. c + 1 \in 1 .. Count(t) /\ Beginnings(t)[c + 1] = Pos + 1
    BY <1>0, <2>1, <2>3, <2>4, NextBegins
  <2>6. c \in Nat
    BY <1>0, BeginningsAre DEF Between, Passed
  <2>7. Letters(t, Pos + 1, Pos)
    BY <2>4 DEF Letters
  <2>8. wStart' <= i_' /\ i_' <= end_'
    BY <1>0, <1>1, <2>1
  <2>9. Beginnings(t)[c + 1] = file_.at - end_ + i_ + 1
    BY <2>5 DEF Pos
  <2>10. Letters(t, Beginnings(t)[c + 1], Pos)
    BY <2>5, <2>7
  <2> QED
    BY <1>0, <1>1, <2>5, <2>6, <2>8, <2>9, <2>10 DEF Scanning, Pos
<1> QED
  BY <1>1, <1>2

\* The word that visit takes from the buffer.
Taken(buf, low, i) == [k \in 1 .. i - low |-> buf[low + k - 1]]

LEMMA WordIs ==
  ASSUME NEW buf, NEW low \in Nat, NEW end, NEW file, Shows(buf, low, end, file),
         IsSeq(file.text), NEW i \in Nat, low <= i, i < end
  PROVE  SubSeq(file.text, file.at - end + low + 1, file.at - end + i)
           = Taken(buf, low, i)
<1>t. PICK t : t = file.text
  OBVIOUS
<1>d. PICK d : d = file.at - end
  OBVIOUS
<1>n. PICK n : n = i - low
  OBVIOUS
<1>0. /\ end \in Nat /\ d \in Nat /\ d + end <= Len(t)
      /\ \A k \in low .. end - 1 : buf[k] = t[d + k + 1]
      /\ Len(t) \in Nat /\ n \in Nat /\ IsSeq(t) /\ i = low + n
  BY <1>t, <1>d, <1>n DEF Shows, IsSeq
<1> DEFINE a == d + low + 1
           p == d + i
<1>1. a \in 1 .. Len(t) /\ p = a + n - 1 /\ a + n - 1 <= Len(t)
  <2>1. PICK l : l = Len(t)
    OBVIOUS
  <2>2. /\ end \in Nat /\ d \in Nat /\ d + end <= l /\ l \in Nat /\ n \in Nat
        /\ i = low + n /\ i < end
    BY <1>0, <2>1
  <2> QED
    BY <2>1, <2>2
<1> HIDE DEF a, p
<1>2. /\ IsSeq(SubSeq(t, a, a + n - 1)) /\ Len(SubSeq(t, a, a + n - 1)) = n
      /\ \A k \in 1 .. n : SubSeq(t, a, a + n - 1)[k] = t[a + k - 1]
  <2>1. IsSeq(t) /\ a \in 1 .. Len(t) /\ n \in Nat /\ a + n - 1 <= Len(t)
    BY <1>0, <1>1
  <2> QED
    BY <2>1, SubSeqIs
<1>3. ASSUME NEW k \in 1 .. n PROVE t[a + k - 1] = buf[low + k - 1]
  <2>1. low + k - 1 \in low .. end - 1
    <3>1. n \in Nat /\ i = low + n /\ end \in Nat
      BY <1>0
    <3> QED
      BY <3>1
  <2>2. d + (low + k - 1) + 1 = a + k - 1
    <3>1. n \in Nat /\ d \in Nat
      BY <1>0
    <3> QED
      BY <3>1 DEF a
  <2>3. buf[low + k - 1] = t[d + (low + k - 1) + 1]
    BY <1>0, <2>1
  <2> QED
    BY <2>2, <2>3
<1>4. SubSeq(t, a, p) = [k \in 1 .. n |-> buf[low + k - 1]]
  <2> DEFINE s == SubSeq(t, a, p)
  <2>0. /\ IsSeq(s) /\ Len(s) = n /\ \A k \in 1 .. n : s[k] = t[a + k - 1]
    BY <1>1, <1>2
  <2> HIDE DEF s
  <2>1. s = [k \in 1 .. n |-> s[k]]
    BY <2>0 DEF IsSeq
  <2>2. \A k \in 1 .. n : s[k] = buf[low + k - 1]
    BY <2>0, <1>3
  <2>3. s = [k \in 1 .. n |-> buf[low + k - 1]]
    BY <2>1, <2>2
  <2> QED
    BY <2>3 DEF s
<1>5. SubSeq(t, a, p) = Taken(buf, low, i)
  BY <1>n, <1>4 DEF Taken
<1> QED
  BY <1>t, <1>d, <1>5 DEF a, p

LEMMA ScanReads ==
  ASSUME ReaderInv, Characters, IsSeq(file_.text), Regular(file_.text), Scan,
         NEW c, Scanning(c)
  PROVE  /\ reader' \in {"scan", "skip"} /\ i_' \in 0 .. BUFSIZE
         /\ reader' = "scan" => Scanning(c)'
         /\ reader' = "skip" => Skipping(c + 1)' /\ word' = Words(file_.text)[c + 1]
         /\ file_'.text = file_.text
         /\ Filled => Filled'
<1> DEFINE t == file_.text
           a == Beginnings(t)[c + 1]
<1>0. /\ end_ \in Nat /\ i_ \in Nat /\ file_.at \in Nat /\ Len(t) \in Nat
      /\ wStart \in Nat /\ wStart <= i_ /\ i_ <= end_
      /\ BUFSIZE \in Nat \ {0} /\ end_ <= BUFSIZE
      /\ Shows(buf_, wStart, end_, file_) /\ end_ <= file_.at /\ file_.at <= Len(t)
      /\ a = file_.at - end_ + wStart + 1 /\ Letters(t, a, Pos)
      /\ c \in Nat /\ c + 1 \in 1 .. Count(t)
      /\ file_.feof => file_.at = Len(t)
  BY FileReaderAssumption DEF ReaderInv, Positions, File, Scanning, IsSeq, Shows
<1>1. a \in Starts(t) /\ a \in 1 .. Len(t) /\ t[a] # Blank
  BY <1>0, BeginningsAre DEF Starts
<1>2. Pos \in Nat /\ a <= Pos + 1 /\ Pos <= file_.at
  BY <1>0 DEF Pos
<1> HIDE DEF t, a
<1>3. t = file_.text /\ IsSeq(t) /\ Regular(t)
  BY DEF t
\* Within a word the text does not end.
<1>4. Pos < Len(t)
  <2> SUFFICES ASSUME Pos = Len(t) PROVE FALSE
    BY <1>0, <1>2
  <2>1. Pos \in a .. Pos /\ Len(t) > 0
    BY <1>0, <1>1, <1>2
  <2>2. t[Len(t)] # Blank
    BY <1>0, <2>1 DEF Letters
  <2> QED
    BY <1>3, <2>1, <2>2, RegularIs
<1>5. ~(i_ = end_ /\ file_.feof)
  BY <1>0, <1>4 DEF Pos
\* And it is shorter than the buffer.
<1>6. end_ = i_ => end_ - wStart < BUFSIZE
  <2> SUFFICES ASSUME end_ = i_, ~(end_ - wStart < BUFSIZE) PROVE FALSE
    OBVIOUS
  <2>1. Pos - a + 1 = BUFSIZE /\ a <= Pos
    BY <1>0 DEF Pos
  <2>2. Pos \in 1 .. Len(t)
    BY <1>1, <1>2, <1>4, <2>1
  <2> QED
    BY <1>0, <1>1, <1>3, <2>1, <2>2, RegularIs
<1>7. PICK w, low : w = Window(wStart) /\ low = IF i_ = end_ THEN 0 ELSE wStart
  OBVIOUS
<1>8. /\ file_' = w.file /\ end_' = w.end /\ wStart' = low
      /\ \E x \in Reads(w.buf, w.i) :
           \/ x = Blank /\ EndWord(w.buf, low, w.i)
           \/ /\ x # Blank /\ buf_' = w.buf /\ word' = word
              /\ x # Unmapped => i_' = w.i + 1 /\ reader' = reader
  BY <1>5, <1>7 DEF Scan
<1>9. /\ Shows(w.buf, low, w.end, w.file) /\ w.file.text = t
      /\ w.i \in Nat /\ low <= w.i /\ w.end \in Nat /\ w.file.at \in Nat
      /\ w.file.at - w.end + w.i = Pos
      /\ w.file.at - w.end + low = file_.at - end_ + wStart
      /\ i_ = end_ => /\ w.i = end_ - wStart /\ w.i <= w.end
                      /\ w.i = w.end => \/ file_.at = Len(t)
                                        \/ end_ - wStart = BUFSIZE
      /\ i_ # end_ => w = [buf |-> buf_, i |-> i_, end |-> end_, file |-> file_]
  <2>1. wStart \in Nat /\ wStart <= i_ /\ Shows(buf_, wStart, end_, file_)
    BY <1>0
  <2>2. /\ Shows(w.buf, low, w.end, w.file) /\ w.file.text = file_.text
        /\ w.i \in Nat /\ low <= w.i /\ w.end \in Nat /\ w.file.at \in Nat
        /\ w.file.at - w.end + w.i = file_.at - end_ + i_
        /\ w.file.at - w.end + low = file_.at - end_ + wStart
        /\ i_ = end_ => /\ w.i = end_ - wStart /\ w.i <= w.end
                        /\ w.i = w.end => \/ file_.at = Len(file_.text)
                                          \/ end_ - wStart = BUFSIZE
        /\ i_ # end_ => w = [buf |-> buf_, i |-> i_, end |-> end_, file |-> file_]
    BY <1>5, <1>7, <2>1, WindowShows
  <2>3. w.file.at - w.end + w.i = Pos
    BY <2>2 DEF Pos
  <2> QED
    BY <1>3, <2>2, <2>3
<1>10. /\ low \in Nat /\ reader = "scan" /\ low <= w.i /\ w.i \in Nat /\ w.end \in Nat
       /\ BUFSIZE \in Nat
  BY <1>0, <1>7, <1>9 DEF Scan
<1>11. w.i < w.end
  <2>1. CASE i_ = end_
    <3>1. file_.at # Len(t)
      BY <1>0, <1>4, <2>1 DEF Pos
    <3> QED
      BY <1>6, <1>9, <2>1, <3>1
  <2>2. CASE i_ # end_
    <3>1. w.i = i_ /\ w.end = end_
      BY <1>9, <2>2
    <3> QED
      BY <1>0, <2>2, <3>1
  <2> QED
    BY <2>1, <2>2
<1>12. w.buf[w.i] = t[Pos + 1]
  <2>1. w.i \in low .. w.end - 1
    BY <1>9, <1>10, <1>11
  <2>2. w.buf[w.i] = t[w.file.at - w.end + w.i + 1]
    BY <1>9, <2>1 DEF Shows
  <2> QED
    BY <1>9, <2>2
<1>13. a = w.file.at - w.end + low + 1 /\ file_'.text = t
  BY <1>0, <1>8, <1>9, <1>10
\* It is in the buffer, and a character of the text.
<1>14. /\ w.end <= BUFSIZE /\ w.buf \in [0 .. BUFSIZE -> Char]
       /\ \/ w.buf[w.i] = Blank /\ EndWord(w.buf, low, w.i)
          \/ /\ w.buf[w.i] # Blank
             /\ buf_' = w.buf /\ i_' = w.i + 1 /\ word' = word /\ reader' = reader
  <2>1. wStart \in 0 .. end_
    BY <1>0
  <2>2. Window(wStart).buf \in [0 .. BUFSIZE -> Char] /\ Window(wStart).end \in 0 .. BUFSIZE
    BY <1>5, <2>1, WindowCharacters, Windows
  <2>3. w.end \in 0 .. BUFSIZE /\ w.buf \in [0 .. BUFSIZE -> Char]
    BY <1>7, <2>2
  <2>4. w.i \in 0 .. BUFSIZE
    BY <1>10, <1>11, <2>3
  <2>5. Reads(w.buf, w.i) = {w.buf[w.i]}
    BY <1>10, <2>4 DEF Reads
  <2>6. w.buf[w.i] # Unmapped
    BY <2>3, <2>4, FromVisitorAssumption
  <2> QED
    BY <1>8, <2>3, <2>5, <2>6
<1>f. Filled => (w.file.feof \/ w.end = BUFSIZE) /\ Kept(w.buf, w.end, w.file)
  <2>1. wStart \in 0 .. end_ /\ Shows(buf_, wStart, end_, file_)
    BY <1>0
  <2> QED
    BY <1>5, <1>7, <2>1, WindowFills
<1>15. CASE w.buf[w.i] = Blank
  <2>1. EndWord(w.buf, low, w.i) /\ w.i <= BUFSIZE
    BY <1>10, <1>11, <1>14, <1>15
  <2>2. /\ word' = [k \in 1 .. w.i - low |-> w.buf[low + k - 1]]
        /\ buf_' = [w.buf EXCEPT ![w.i] = Nul]
        /\ i_' = w.i + 1 /\ reader' = "skip"
    BY <2>1 DEF EndWord
  <2>3. t[Pos + 1] = Blank /\ a <= Pos
    <3>1. t[Pos + 1] = Blank
      BY <1>12, <1>15
    <3>2. a # Pos + 1
      BY <1>1, <3>1
    <3> QED
      BY <1>1, <1>2, <3>1, <3>2
  <2>4. Between(t, Pos + 1, c + 1) /\ Words(t)[c + 1] = SubSeq(t, a, Pos)
    <3>1. /\ Letters(t, Beginnings(t)[c + 1], Pos) /\ Beginnings(t)[c + 1] <= Pos
          /\ a = Beginnings(t)[c + 1]
      BY <1>0, <2>3 DEF a
    <3>2. /\ c \in Nat /\ c + 1 \in 1 .. Count(t) /\ Pos \in Nat /\ IsSeq(t)
          /\ Pos < Len(t) /\ t[Pos + 1] = Blank
      BY <1>0, <1>2, <1>3, <1>4, <2>3
    <3>3. /\ Between(t, Pos + 1, c + 1)
          /\ Words(t)[c + 1] = SubSeq(t, Beginnings(t)[c + 1], Pos)
      BY <3>1, <3>2, WordPassed
    <3> QED
      BY <3>1, <3>3
  <2>5. SubSeq(t, a, Pos) = [k \in 1 .. w.i - low |-> w.buf[low + k - 1]]
    <3>1. PICK f : f = w.file
      OBVIOUS
    <3>2. PICK e : e = w.end
      OBVIOUS
    <3>3. PICK b : b = w.buf
      OBVIOUS
    <3>4. PICK i : i = w.i
      OBVIOUS
    <3>5. /\ Shows(b, low, e, f) /\ IsSeq(f.text) /\ low \in Nat /\ i \in Nat
          /\ low <= i /\ i < e
      BY <1>3, <1>9, <1>10, <1>11, <3>1, <3>2, <3>3, <3>4
    <3>6. SubSeq(f.text, f.at - e + low + 1, f.at - e + i) = Taken(b, low, i)
      BY <3>5, WordIs
    <3>7. f.text = t /\ f.at - e + low + 1 = a /\ f.at - e + i = Pos
      BY <1>9, <1>13, <3>1, <3>2, <3>4
    <3>8. SubSeq(t, a, Pos) = Taken(b, low, i)
      BY <3>6, <3>7
    <3> QED
      BY <3>3, <3>4, <3>8 DEF Taken
  <2>6. w.buf \in [0 .. BUFSIZE -> Char] /\ w.end <= BUFSIZE
    BY <1>14
  <2>7. Shows(buf_', i_', end_', file_')
    <3>1. ASSUME NEW k \in w.i + 1 .. w.end - 1
          PROVE  buf_'[k] = w.file.text[w.file.at - w.end + k + 1]
      <4>1. k \in 0 .. BUFSIZE /\ k # w.i /\ k \in low .. w.end - 1
        <5>1. low \in Nat /\ low <= w.i /\ w.i \in Nat /\ w.end \in Nat /\ w.end <= BUFSIZE
          BY <1>10, <2>6
        <5> QED
          BY <1>10, <5>1
      <4>2. buf_'[k] = w.buf[k]
        BY <2>2, <2>6, <4>1
      <4> QED
        BY <1>9, <4>1, <4>2 DEF Shows
    <3> QED
      BY <1>8, <1>9, <2>2, <3>1 DEF Shows
  <2>8. Pos' = Pos + 1 /\ ~(i_' > end_')
    BY <1>8, <1>9, <1>11, <2>2 DEF Pos
  <2>9. Skipping(c + 1)'
    BY <1>13, <2>4, <2>7, <2>8 DEF Skipping
  <2>10. i_' \in 0 .. BUFSIZE
    BY <1>10, <1>11, <1>14, <2>2
  \* Where visit writes, the text has no letter.
  <2>11. ASSUME Filled PROVE Filled'
    <3>1. ASSUME NEW k \in 0 .. w.end - 1,
                 w.file.text[w.file.at - w.end + k + 1] # Blank
          PROVE  buf_'[k] # Blank
      <4>1. w.buf[k] # Blank
        BY <1>f, <2>11, <3>1 DEF Kept
      <4>2. k \in 0 .. BUFSIZE /\ k # w.i
        BY <1>10, <1>15, <2>6, <4>1
      <4>3. buf_'[k] = w.buf[k]
        BY <2>2, <2>6, <4>2
      <4> QED
        BY <4>1, <4>3
    <3>2. Kept(buf_, end_, file_)'
      BY <1>8, <3>1 DEF Kept
    <3> QED
      BY <1>8, <1>f, <2>2, <2>8, <2>11, <3>2 DEF Filled
  <2> QED
    BY <1>13, <2>2, <2>4, <2>5, <2>9, <2>10, <2>11 DEF t
<1>16. CASE w.buf[w.i] # Blank
  <2>1. buf_' = w.buf /\ i_' = w.i + 1 /\ reader' = "scan" /\ i_' \in 0 .. BUFSIZE
    BY <1>10, <1>11, <1>14, <1>16
  <2>2. t[Pos + 1] # Blank
    BY <1>12, <1>16
  <2>3. Pos' = Pos + 1
    BY <1>8, <1>9, <2>1 DEF Pos
  <2>4. Letters(t, a, Pos + 1)
    <3>1. \A q \in a .. Pos + 1 : q \in a .. Pos \/ q = Pos + 1
      BY <1>1, <1>2
    <3> QED
      BY <1>0, <2>2, <3>1 DEF Letters
  <2>5. wStart' <= i_' /\ i_' <= end_'
    BY <1>8, <1>9, <1>10, <1>11, <2>1
  <2>6. a = file_'.at - end_' + wStart' + 1
    BY <1>8, <1>13
  <2>7. Scanning(c)'
    <3>1. a = Beginnings(file_'.text)[c + 1]
      BY <1>13 DEF a
    <3> QED
      BY <1>0, <1>8, <1>9, <1>13, <2>1, <2>3, <2>4, <2>5, <2>6, <3>1 DEF Scanning
  <2>8. Filled => Filled'
    <3>1. reader' = "scan" /\ ~(i_' > end_')
      BY <1>8, <1>10, <1>11, <2>1
    <3> QED
      BY <1>8, <1>f, <2>1, <3>1 DEF Filled
  <2> QED
    BY <1>13, <2>1, <2>7, <2>8 DEF t
<1> QED
  BY <1>15, <1>16

-----------------------------------------------------------------------------
(***************************************************************************)
(* The rows of one string each.                                            *)
(***************************************************************************)
\* The rows of a frame are the first words of a text.
FirstWords(d, t) == \A k \in 1 .. d.nrows_ : RowsOf(d)[k] = <<Words(t)[k]>>

\* The rows of a frame of one column of strings.
LEMMA OneColumn ==
  ASSUME NEW d, NEW cells, NEW n, Is(d, <<"S">>, cells, n)
  PROVE  /\ d.nrows_ = n /\ n \in Nat /\ d.schema_ = <<"S">>
         /\ \A r \in 1 .. n : RowsOf(d)[r] = <<cells[1][r]>>
<1>1. /\ d.schema_ = <<"S">> /\ d.nrows_ = n
      /\ RowsOf(d) = Grid(<<"S">>, cells, n) /\ Good(<<"S">>, cells, n)
  BY FrameRows DEF Is
<1>2. n \in Nat
  BY <1>1 DEF Good
<1>3. ASSUME NEW r \in 1 .. n PROVE RowsOf(d)[r] = <<cells[1][r]>>
  <2>1. RowsOf(d)[r] = GridRow(<<"S">>, cells, r)
    BY <1>1, GridIs
  <2>2. GridRow(<<"S">>, cells, r) = [c \in 1 .. 1 |-> cells[c][r]]
    BY OneType DEF GridRow
  <2> DEFINE v == cells[1][r]
  <2>3. [c \in 1 .. 1 |-> cells[c][r]] = [c \in 1 .. 1 |-> v]
    OBVIOUS
  <2> HIDE DEF v
  <2>4. [c \in 1 .. 1 |-> v] = <<v>>
    OBVIOUS
  <2>5. RowsOf(d)[r] = <<v>>
    BY <2>1, <2>2, <2>3, <2>4
  <2> QED
    BY <2>5 DEF v
<1> QED
  BY <1>1, <1>2, <1>3

LEMMA WordAdded ==
  ASSUME FrameInv, df.schema_ = <<"S">>, NEW w \in Seq(Char), NEW d, d = add_row(df, <<w>>),
         NEW t, FirstWords(df, t), w = Words(t)[df.nrows_ + 1]
  PROVE  d.nrows_ = df.nrows_ + 1 /\ FirstWords(d, t)
<1> DEFINE types == <<"S">>
           fields == <<w>>
           n == df.nrows_
<1>1. PICK cells : Is(df, types, cells, n)
  BY DEF FrameInv
<1>2. /\ Good(types, cells, n) /\ df = FrameOf(types, cells, n)
      /\ DOMAIN fields = 1 .. Len(types)
      /\ \A k \in 1 .. Len(types) : fields[k] \in FrameCell[types[k]]
      /\ Len(types) = 1 /\ fields[1] = w /\ d = add_row(df, fields)
  BY <1>1, WordFields, OneType DEF Is
<1> HIDE DEF types, fields, n
<1> DEFINE more == Longer(types, cells, fields)
<1>3. /\ Good(types, more, n + 1)
      /\ add_row(FrameOf(types, cells, n), fields) = FrameOf(types, more, n + 1)
      /\ \A k \in 1 .. Len(types) :
           /\ more[k][n + 1] = fields[k]
           /\ \A r \in 1 .. n : more[k][r] = cells[k][r]
  BY <1>2, AddRowGood
<1> HIDE DEF more
<1>4. Is(d, types, more, n + 1)
  BY <1>2, <1>3 DEF Is
<1>5. /\ d.nrows_ = n + 1 /\ n \in Nat
      /\ \A r \in 1 .. n + 1 : RowsOf(d)[r] = <<more[1][r]>>
      /\ \A r \in 1 .. n : RowsOf(df)[r] = <<cells[1][r]>>
  BY <1>1, <1>4, OneColumn DEF types
<1>6. more[1][n + 1] = w /\ \A r \in 1 .. n : more[1][r] = cells[1][r]
  BY <1>2, <1>3
<1>7. ASSUME NEW r \in 1 .. n + 1 PROVE RowsOf(d)[r] = <<Words(t)[r]>>
  <2>1. CASE r = n + 1
    <3>1. RowsOf(d)[r] = <<w>>
      BY <1>5, <1>6, <2>1
    <3> QED
      BY <2>1, <3>1 DEF n
  <2>2. CASE r # n + 1
    <3>1. r \in 1 .. n
      BY <1>5, <2>2
    <3>2. RowsOf(d)[r] = RowsOf(df)[r]
      BY <1>5, <1>6, <3>1
    <3> QED
      BY <3>1, <3>2 DEF FirstWords, n
  <2> QED
    BY <2>1, <2>2
<1> QED
  BY <1>5, <1>7 DEF FirstWords, n

\* Words without separators come back from the store.
LEMMA WordsStored ==
  ASSUME NEW d, NEW cells, NEW n, Is(d, <<"S">>, cells, n), NEW t, FirstWords(d, t),
         \A k \in 1 .. n : IsSeq(Words(t)[k]) /\ NoTab(Words(t)[k])
  PROVE  Decode(Encode(d)) = d
<1> DEFINE types == <<"S">>
<1>1. /\ Good(types, cells, n) /\ d = FrameOf(types, cells, n) /\ d.nrows_ = n
      /\ \A r \in 1 .. n : RowsOf(d)[r] = <<cells[1][r]>>
      /\ Len(types) = 1 /\ types[1] = "S"
  BY OneColumn, OneType DEF Is
<1>2. ASSUME NEW r \in 1 .. n PROVE IsSeq(cells[1][r]) /\ NoTab(cells[1][r])
  <2>1. <<cells[1][r]>> = <<Words(t)[r]>>
    BY <1>1 DEF FirstWords
  <2>2. cells[1][r] = Words(t)[r]
    BY <2>1
  <2> QED
    BY <2>2
<1> HIDE DEF types
<1>3. Proper(types, cells, n) /\ Plain(types, cells, n)
  <2>1. /\ IsSeq(types) /\ n \in Nat
        /\ \A k \in 1 .. Len(types) : IsSeq(cells[k]) /\ Len(cells[k]) = n
    BY <1>1, GoodSeqs
  <2>2. \A k \in 1 .. Len(types) : k = 1
    BY <1>1
  <2> QED
    BY <1>2, <2>1, <2>2 DEF Proper, Plain
<1>4. PICK x : /\ Decode(Encode(d)) = FrameOf(types, x, IF Len(types) = 0 THEN 0 ELSE n)
               /\ \A k \in 1 .. Len(types) : x[k] = cells[k]
  BY <1>1, <1>3, DecodedIs
<1>5. FrameOf(types, x, n) = FrameOf(types, cells, n)
  BY <1>4, SameFrame
<1>6. (IF Len(types) = 0 THEN 0 ELSE n) = n
  BY <1>1
<1> QED
  BY <1>1, <1>4, <1>5, <1>6

-----------------------------------------------------------------------------
(***************************************************************************)
(* fromVisitor and its reader.                                             *)
(***************************************************************************)
\* The words that have been read: one more than rows until it is added.
WordsRead == IF loop = "next" /\ reader \in {"skip", "ready"}
             THEN df.nrows_ + 1 ELSE df.nrows_

\* Where the reader is in the text, and what has become of the words: those
\* before are rows, and the one that is in the reader's hands is the next.
Order == /\ loop = "before" <=> reader = "new"
         /\ loop = "before" => file_.at = 0 /\ df.nrows_ = 0
         /\ reader \in {"skip", "ready"} => Skipping(WordsRead)
         /\ reader = "scan" => loop = "next" /\ Scanning(df.nrows_)
         /\ FirstWords(df, file_.text)
         /\ loop = "next" /\ reader \in {"skip", "ready"} =>
              word = Words(file_.text)[df.nrows_ + 1]
         /\ loop = "after" => /\ df.nrows_ = Count(file_.text) /\ reader = "ready"
                              /\ \E key \in Key : kv[key] = Encode(df)
         /\ DOMAIN kv = Key
         /\ reader \in {"new", "skip", "scan", "ready"}
         /\ reader # "new" => Filled

OrderInv == user = "visitor" /\ Regular(file_.text) => Order

\* The reader changes only its place in the text.
LEMMA TextStays == ReaderInv /\ [ReaderNext]_readerVars => file_'.text = file_.text
<1> SUFFICES ASSUME ReaderInv, [ReaderNext]_readerVars PROVE file_'.text = file_.text
  OBVIOUS
<1>1. ASSUME NEW i PROVE fillBuffer(i).file.text = file_.text
  <2>1. PICK n, f : fillBuffer(i).file = [file_ EXCEPT !.at = n, !.feof = f]
    <3> DEFINE left  == Len(file_.text) - file_.at
               room  == BUFSIZE - (end_ - i)
               count == IF left < room THEN left ELSE room
    <3>1. fillBuffer(i).file
            = [file_ EXCEPT !.at = @ + count, !.feof = @ \/ count < room]
      BY Zenon DEF fillBuffer
    <3>2. file_ \in [text : Text, at : Nat, feof : BOOLEAN]
      BY DEF ReaderInv, File
    <3> HIDE DEF count, room
    <3>3. fillBuffer(i).file
            = [file_ EXCEPT !.at = file_.at + count, !.feof = file_.feof \/ count < room]
      BY <3>1, <3>2
    <3> QED
      BY <3>3
  <2>2. file_ \in [text : Text, at : Nat, feof : BOOLEAN]
    BY DEF ReaderInv, File
  <2>3. [file_ EXCEPT !.at = n, !.feof = f].text = file_.text
    BY <2>2
  <2> QED
    BY <2>1, <2>3
<1>2. ASSUME NEW from PROVE Window(from).file.text = file_.text
  BY <1>1 DEF Window
<1>3. CASE OpenReader
  BY <1>1, <1>3 DEF OpenReader
<1>4. CASE Skip
  BY <1>2, <1>4 DEF Skip
<1>5. CASE Visit
  BY <1>5 DEF Visit
<1>6. CASE Scan
  BY <1>2, <1>6 DEF Scan
<1>7. CASE UNCHANGED readerVars
  BY <1>7 DEF readerVars
<1> QED
  BY <1>3, <1>4, <1>5, <1>6, <1>7 DEF ReaderNext

LEMMA OrderInitially == VisitorInit => OrderInv
<1> SUFFICES ASSUME VisitorInit PROVE OrderInv
  OBVIOUS
<1>1. /\ FrameInit /\ InitReader /\ loop = "before"
  BY DEF VisitorInit
<1>2. reader = "new" /\ file_.at = 0
  BY <1>1 DEF InitReader
<1>3. df.nrows_ = 0
  BY <1>1 DEF FrameInit, Frame
<1>4. FirstWords(df, file_.text)
  BY <1>3 DEF FirstWords
<1>5. DOMAIN kv = Key
  BY DEF VisitorInit
<1> QED
  BY <1>1, <1>2, <1>3, <1>4, <1>5 DEF OrderInv, Order

\* A step of the reader.
LEMMA ReadOrder ==
  ASSUME VisitorInv, Order, IsSeq(file_.text), Regular(file_.text), Read,
         file_'.text = file_.text
  PROVE  Order'
<1>0. /\ ReaderInv /\ Characters
      /\ loop = "before" <=> reader = "new"
      /\ loop = "before" => file_.at = 0 /\ df.nrows_ = 0
      /\ reader \in {"skip", "ready"} => Skipping(WordsRead)
      /\ reader = "scan" => loop = "next" /\ Scanning(df.nrows_)
      /\ FirstWords(df, file_.text)
      /\ loop = "next" /\ reader \in {"skip", "ready"} =>
           word = Words(file_.text)[df.nrows_ + 1]
      /\ loop = "after" => reader = "ready"
      /\ DOMAIN kv = Key
      /\ reader # "new" => Filled
  BY DEF VisitorInv, Order
<1>1. /\ df' = df /\ loop' = loop /\ kv' = kv
      /\ Skip \/ Scan
      /\ reader \in {"skip", "scan"}
  BY DEF Read, frameVars, callVars, Skip, Scan
<1>2. /\ loop # "before" /\ loop # "after" /\ (DOMAIN kv = Key)'
      /\ FirstWords(df, file_.text)'
  BY <1>0, <1>1
<1>3. PICK c : c = WordsRead
  OBVIOUS
<1>4. CASE reader = "skip"
  <2>1. Skip /\ word' = word
    BY <1>1, <1>4 DEF Scan, Skip
  <2>2. Skipping(c)
    BY <1>0, <1>3, <1>4 DEF Skipping
  <2>3. c = IF loop = "next" THEN df.nrows_ + 1 ELSE df.nrows_
    BY <1>3, <1>4 DEF WordsRead
  <2>4. /\ reader' \in {"skip", "ready", "crashed"}
        /\ reader' \in {"skip", "ready"} => Skipping(c)'
    BY <1>0, <2>1, <2>2, SkipReads
  <2>5. reader' \in {"skip", "ready"} => Skipping(WordsRead)'
    <3>1. reader' \in {"skip", "ready"} => WordsRead' = c
      BY <1>1, <2>3 DEF WordsRead
    <3> QED
      BY <2>4, <3>1 DEF Skipping
  <2>6. loop = "next" => word' = Words(file_.text)[df.nrows_ + 1]
    BY <1>0, <1>4, <2>1
  <2>7. reader' \in {"skip", "ready"} /\ Filled'
    <3>1. Shows(buf_, i_, end_, file_) /\ Filled
      BY <1>0, <1>4, <2>2 DEF Skipping
    <3> QED
      BY <1>0, <2>1, <3>1, SkipFills
  <2> QED
    BY <1>1, <1>2, <1>4, <2>4, <2>5, <2>6, <2>7 DEF Order
<1>5. CASE reader = "scan"
  <2>1. Scan /\ loop = "next" /\ Scanning(df.nrows_)
    BY <1>0, <1>1, <1>5 DEF Skip
  <2>2. PICK n : n = df.nrows_
    OBVIOUS
  <2>3. Scanning(n)
    BY <2>1, <2>2 DEF Scanning
  <2>4. /\ reader' \in {"scan", "skip"}
        /\ reader' = "scan" => Scanning(n)'
        /\ reader' = "skip" => Skipping(n + 1)' /\ word' = Words(file_.text)[n + 1]
        /\ Filled => Filled'
    BY <1>0, <2>3, <2>1, ScanReads
  <2>5. reader' = "scan" => Scanning(df.nrows_)'
    BY <1>1, <2>2, <2>4 DEF Scanning
  <2>6. reader' = "skip" => Skipping(WordsRead)'
    <3>1. reader' = "skip" => WordsRead' = n + 1
      BY <1>1, <2>1, <2>2 DEF WordsRead
    <3> QED
      BY <2>4, <3>1 DEF Skipping
  <2>7. Filled'
    BY <1>0, <1>5, <2>4
  <2> QED
    BY <1>1, <1>2, <2>1, <2>2, <2>4, <2>5, <2>6, <2>7 DEF Order
<1> QED
  BY <1>1, <1>4, <1>5

\* A round of the loop of fromVisitor: the word becomes a row, and then either
\* the next is begun, or none is left.
LEMMA LoopOrder ==
  ASSUME VisitorInv, Order, IsSeq(file_.text), NEW key \in Key, Loop(key),
         file_'.text = file_.text
  PROVE  Order'
<1>0. /\ ReaderInv /\ Characters /\ FrameInv /\ CallInv
      /\ reader \in {"skip", "ready"} => Skipping(WordsRead)
      /\ FirstWords(df, file_.text)
      /\ loop = "next" /\ reader \in {"skip", "ready"} =>
           word = Words(file_.text)[df.nrows_ + 1]
      /\ DOMAIN kv = Key
      /\ reader # "new" => Filled
  BY DEF VisitorInv, ClientInv, Order
<1>1. /\ reader = "ready" /\ loop \in {"first", "next"} /\ Skipping(WordsRead)
      /\ df' = IF loop = "next" THEN add_row(df, <<word>>) ELSE df
      /\ df.schema_ = <<"S">>
  BY <1>0 DEF Loop, CallInv
<1>2. PICK c : c = WordsRead
  OBVIOUS
<1>3. c = (IF loop = "next" THEN df.nrows_ + 1 ELSE df.nrows_) /\ Skipping(c)
  BY <1>1, <1>2 DEF WordsRead, Skipping
<1>4. df'.nrows_ = c /\ FirstWords(df', file_.text)
  <2>1. CASE loop = "next"
    <3>1. PICK w \in Seq(Char) : w = word
      BY <1>0 DEF Characters
    <3>2. PICK d : d = add_row(df, <<w>>)
      OBVIOUS
    <3>3. d = df' /\ w = Words(file_.text)[df.nrows_ + 1]
      BY <1>0, <1>1, <2>1, <3>1, <3>2
    <3>4. d.nrows_ = df.nrows_ + 1 /\ FirstWords(d, file_.text)
      BY <1>0, <1>1, <3>2, <3>3, WordAdded
    <3> QED
      BY <1>3, <2>1, <3>3, <3>4
  <2>2. CASE loop # "next"
    BY <1>0, <1>1, <1>3, <2>2
  <2> QED
    BY <2>1, <2>2
<1>5. FirstWords(df, file_.text)'
  BY <1>4
<1>6. CASE done
  <2>1. loop' = "after" /\ kv' = [kv EXCEPT ![key] = Encode(df')] /\ UNCHANGED readerVars
    BY <1>6 DEF Loop
  <2>2. kv'[key] = Encode(df') /\ DOMAIN kv' = Key
    BY <1>0, <2>1
  <2>3. c = Count(file_.text)
    <3>1. /\ end_ \in Nat /\ i_ \in Nat /\ file_.at \in Nat /\ i_ >= end_
          /\ file_.at = Len(file_.text) /\ Passed(file_.text, Pos, c)
      <4>1. end_ \in Nat /\ i_ \in Nat /\ file_.at \in Nat /\ i_ >= end_
        BY <1>0, <1>6, FileReaderAssumption DEF done, ReaderInv, Positions, File
      <4>2. file_.feof => file_.at = Len(file_.text)
        BY <1>3 DEF Skipping, Shows
      <4>3. Passed(file_.text, Pos, c)
        BY <1>3 DEF Skipping, Between
      <4> QED
        BY <1>6, <4>1, <4>2, <4>3 DEF done
    <3>2. Pos >= Len(file_.text)
      BY <3>1 DEF Pos
    <3> QED
      BY <3>1, <3>2, AllPassed
  <2>4. Skipping(c)' /\ WordsRead' = c /\ reader' = "ready"
    BY <1>1, <1>3, <1>4, <2>1 DEF readerVars, Skipping, Pos, WordsRead
  <2>5. Skipping(WordsRead)'
    BY <2>4 DEF Skipping
  <2>6. Filled'
    BY <1>0, <1>1, <2>1 DEF Filled, Kept, readerVars
  <2> QED
    BY <1>4, <1>5, <2>1, <2>2, <2>3, <2>4, <2>5, <2>6 DEF Order
<1>7. CASE ~done
  <2>1. loop' = "next" /\ Visit /\ kv' = kv
    BY <1>7 DEF Loop
  <2>2. /\ reader' \in {"scan", "aborted"}
        /\ reader' = "scan" => Scanning(c)'
    BY <1>0, <1>3, <2>1, VisitReads
  <2>3. reader' = "scan" => Scanning(df.nrows_)'
    BY <1>4, <2>2 DEF Scanning
  <2>4. reader' = "scan" /\ Filled'
    BY <1>0, <1>1, <1>7, <2>1, VisitFills
  <2> QED
    BY <1>0, <1>5, <2>1, <2>2, <2>3, <2>4 DEF Order
<1> QED
  BY <1>6, <1>7

LEMMA BeginOrder ==
  ASSUME VisitorInv, Order, IsSeq(file_.text), Begin, file_'.text = file_.text
  PROVE  Order'
<1>1. /\ ReaderInv /\ OpenReader /\ file_.at = 0 /\ DOMAIN kv' = Key
      /\ loop' = "first" /\ reader' = "skip" /\ df' = Frame(<<"S">>)
  BY DEF VisitorInv, Order, Begin, OpenReader
<1>2. Skipping(0)' /\ Filled'
  BY <1>1, OpenReads
<1>3. df'.nrows_ = 0
  BY <1>1 DEF Frame
<1>4. WordsRead' = 0
  BY <1>1, <1>3 DEF WordsRead
<1>5. Skipping(WordsRead)'
  BY <1>2, <1>4 DEF Skipping
<1>6. FirstWords(df, file_.text)'
  BY <1>3 DEF FirstWords
<1> QED
  BY <1>1, <1>2, <1>5, <1>6 DEF Order

LEMMA OrderInductive == VisitorInv /\ OrderInv /\ [VisitorNext]_allVars => OrderInv'
<1> SUFFICES ASSUME VisitorInv, OrderInv, [VisitorNext]_allVars,
                    user' = "visitor", Regular(file_'.text)
             PROVE  Order'
  BY DEF OrderInv
<1>1. file_'.text = file_.text
  <2>1. [ReaderNext]_readerVars
    BY VisitorReads DEF allVars, readerVars
  <2> QED
    BY <2>1, TextStays DEF VisitorInv
<1>2. user = "visitor"
  BY DEF VisitorNext, Client, FromArray, Begin, Read, Loop, callVars, allVars
<1>3. Order /\ Regular(file_.text) /\ IsSeq(file_.text)
  <2>1. file_.text \in Seq(Char)
    BY DEF VisitorInv, Characters
  <2> QED
    BY <1>1, <1>2, <2>1, SeqIsSeq DEF OrderInv
<1>4. CASE \E key \in Key : Loop(key)
  BY <1>1, <1>3, <1>4, LoopOrder
<1>5. CASE Begin
  BY <1>1, <1>3, <1>5, BeginOrder
<1>6. CASE Read
  BY <1>1, <1>3, <1>6, ReadOrder
<1>7. CASE UNCHANGED allVars
  BY <1>3, <1>7 DEF Order, allVars, frameVars, readerVars, callVars, Skipping, Scanning,
                    WordsRead, Pos, Filled, Kept
<1> QED
  BY <1>2, <1>4, <1>5, <1>6, <1>7 DEF VisitorNext, Client, FromArray

(* The rows of the frame are the words of the file, in their order,        *)
(* wherever the ends of the buffer fall, and all of them in the stored     *)
(* value (visit, fillBuffer_, fromVisitor).                                *)
THEOREM WordsAreInOrder == VisitorSpec => []WordsInOrder
<1>1. VisitorInv /\ OrderInv => WordsInOrder
  <2> SUFFICES ASSUME VisitorInv, OrderInv, user = "visitor", Regular(file_.text)
               PROVE  /\ \A n \in 1 .. df.nrows_ :
                            <<Words(file_.text)[n]>> = RowsOf(df)[n]
                      /\ loop = "after" =>
                           \E key \in Key :
                             RowsOf(Decode(kv[key])) =
                               [n \in DOMAIN Words(file_.text) |->
                                  <<Words(file_.text)[n]>>]
    BY DEF WordsInOrder
  <2> DEFINE t == file_.text
             n == df.nrows_
  <2>1. Order /\ FirstWords(df, t)
    BY DEF OrderInv, Order
  <2>2. \A k \in 1 .. n : <<Words(t)[k]>> = RowsOf(df)[k]
    BY <2>1 DEF FirstWords
  <2>3. ASSUME loop = "after"
        PROVE  \E key \in Key :
                 RowsOf(Decode(kv[key])) = [k \in DOMAIN Words(t) |-> <<Words(t)[k]>>]
    <3>1. PICK key \in Key : kv[key] = Encode(df)
      BY <2>1, <2>3 DEF Order
    <3>2. n = Count(t) /\ df.schema_ = <<"S">> /\ t \in Text /\ IsSeq(t)
      <4>1. t \in Seq(Char) /\ t \in Text
        BY DEF VisitorInv, Characters, ReaderInv, File
      <4> QED
        BY <2>1, <2>3, <4>1, SeqIsSeq DEF Order, VisitorInv, CallInv
    <3>3. PICK cells : Is(df, <<"S">>, cells, n)
      BY <3>2 DEF VisitorInv, ClientInv, FrameInv
    <3>4. DOMAIN Words(t) = 1 .. n
      BY <3>2, WordsAre DEF IsSeq
    <3>5. \A k \in 1 .. n : IsSeq(Words(t)[k]) /\ NoTab(Words(t)[k])
      BY <3>2, WordsPlain
    <3>6. Decode(Encode(df)) = df
      BY <2>1, <3>3, <3>5, WordsStored
    <3>7. RowsOf(df) = [k \in 1 .. n |-> RowsOf(df)[k]]
      BY DEF RowsOf
    <3>8. RowsOf(df) = [k \in DOMAIN Words(t) |-> <<Words(t)[k]>>]
      BY <2>2, <3>4, <3>7
    <3> QED
      BY <3>1, <3>6, <3>8
  <2> QED
    BY <2>2, <2>3
<1>2. VisitorInit => VisitorInv
  BY VisitorInitially
<1> QED
  BY <1>1, <1>2, VisitorInductive, OrderInitially, OrderInductive, PTL DEF VisitorSpec

(* Of a file that the reader is made for no position outside the buffer is *)
(* read or written, and the assertions of visit hold, wherever the refills *)
(* fall (skipWhitespace_, visit, fillBuffer_).                             *)
THEOREM ReaderStaysInBuffer == VisitorSpec => []StaysInBuffer
<1>1. VisitorInv /\ OrderInv => StaysInBuffer
  <2> SUFFICES ASSUME VisitorInv, OrderInv, user = "visitor", Regular(file_.text)
               PROVE  /\ reader \notin {"aborted", "crashed", "overrun"}
                      /\ i_ <= BUFSIZE
    BY DEF StaysInBuffer
  <2>1. /\ reader \in {"new", "skip", "scan", "ready"}
        /\ reader # "new" => Filled
        /\ end_ \in 0 .. BUFSIZE /\ i_ \in Nat /\ BUFSIZE \in Nat
        /\ reader = "new" => i_ = 0
    BY FileReaderAssumption DEF OrderInv, Order, VisitorInv, ReaderInv, Positions
  <2>2. ASSUME i_ > end_, reader # "new" PROVE i_ <= BUFSIZE
    <3>1. PICK k \in i_ .. BUFSIZE - 1 : buf_[k] # Blank
      BY <2>1, <2>2 DEF Filled
    <3> QED
      BY <2>1, <3>1
  <2> QED
    BY <2>1, <2>2
<1>2. VisitorInit => VisitorInv
  BY VisitorInitially
<1> QED
  BY <1>1, <1>2, VisitorInductive, OrderInitially, OrderInductive, PTL DEF VisitorSpec
=============================================================================
