--------------------------- MODULE SorMainProofs ----------------------------
(***************************************************************************)
(* Proofs about SorMain, SoRParser, SoRFields and Options: for every file, *)
(* size of the window and of the sample, what is read of a line is what    *)
(* was written into it, a cell is that of its row and column wherever the  *)
(* window has moved, and the frame of main is its file; and a command line *)
(* of any length is taken for what it says.                                *)
(*                                                                         *)
(* The range of lines is set as the callers set it: before the window has  *)
(* moved, and not widened (~RangeAnytime).                                 *)
(***************************************************************************)
EXTENDS SorMain, SequenceTheorems, FiniteSetTheorems, TLAPS
-----------------------------------------------------------------------------
\* Numbers.

\* The least of some numbers exists.
LEMMA LeastNumber ==
  ASSUME NEW T, T \subseteq Nat, T # {}
  PROVE  \E x \in T : \A y \in T : x <= y
<1> DEFINE R == OpToRel(<, Nat)
<1>1. IsWellFoundedOn(R, Nat)
  BY NatLessThanWellFounded
<1>2. \A x, y \in Nat : y < x => <<y, x>> \in R
  BY DEF OpToRel
<1> HIDE DEF R
<1>3. PICK x \in T : \A y \in T : ~ (<<y, x>> \in R)
  BY <1>1, WFMin
<1>4. \A y \in T : y \in Nat /\ x \in Nat /\ ~ (y < x)
  BY <1>2, <1>3
<1>5. \A y \in T : x <= y
  BY <1>4
<1> QED
  BY <1>5

\* What holds of 0, and of a number's successor when it holds of the number,
\* holds of all numbers: T are those of which it holds.
LEMMA AllNumbers ==
  ASSUME NEW T, 0 \in T, \A m \in Nat : m \in T => m + 1 \in T
  PROVE  Nat \subseteq T
<1> SUFFICES ASSUME NEW n \in Nat, n \notin T PROVE FALSE
  OBVIOUS
<1> DEFINE Z == Nat \ T
<1>1. PICK x \in Z : \A y \in Z : x <= y
  <2>1. Z \subseteq Nat /\ Z # {}
    OBVIOUS
  <2> HIDE DEF Z
  <2> QED
    BY <2>1, LeastNumber
<1>2. x # 0 /\ x \in Nat
  BY <1>1
<1>3. x - 1 \in Nat /\ x - 1 \notin Z
  BY <1>1, <1>2
<1> QED
  BY <1>1, <1>2, <1>3

\* The largest of some numbers that are bounded exists, and is Max.
LEMMA LargestNumber ==
  ASSUME NEW T, T \subseteq Nat, T # {}, NEW b \in Nat, \A y \in T : y <= b
  PROVE  Max(T) \in T /\ \A y \in T : Max(T) >= y
<1> DEFINE U == {u \in Nat : \A y \in T : y <= u}
<1>1. PICK x \in U : \A u \in U : x <= u
  <2>1. U \subseteq Nat /\ U # {}
    OBVIOUS
  <2> HIDE DEF U
  <2> QED
    BY <2>1, LeastNumber
<1>2. x \in T
  <2>1. SUFFICES ASSUME x \notin T PROVE FALSE
    OBVIOUS
  <2>2. x \in Nat /\ \A y \in T : y < x
    BY <1>1, <2>1
  <2>3. x # 0
    <3>1. PICK y \in T : TRUE
      OBVIOUS
    <3>2. y \in Nat /\ y < x
      BY <2>2
    <3> QED
      BY <2>2, <3>2
  <2>4. x - 1 \in U
    BY <2>2, <2>3
  <2> QED
    BY <1>1, <2>2, <2>4
<1>3. \E m \in T : \A y \in T : m >= y
  BY <1>1, <1>2
<1> QED
  BY <1>3 DEF Max

LEMMA SmallestNumber ==
  ASSUME NEW T, T \subseteq Nat, T # {}
  PROVE  Min(T) \in T /\ \A y \in T : Min(T) =< y
  BY LeastNumber DEF Min

\* A column of n elements.
LEMMA FunctionSeq ==
  ASSUME NEW n \in Nat, NEW s, s = [k \in 1 .. n |-> s[k]]
  PROVE  Len(s) = n /\ \A T : (\A k \in 1 .. n : s[k] \in T) => s \in Seq(T)
<1>1. \A T : (\A k \in 1 .. n : s[k] \in T) => s \in [1 .. n -> T]
  OBVIOUS
<1>2. \A T : (\A k \in 1 .. n : s[k] \in T) => s \in Seq(T)
  BY <1>1, SeqDef
<1>3. s \in Seq({s[k] : k \in 1 .. n})
  BY <1>2
<1>4. DOMAIN s = 1 .. Len(s) /\ Len(s) \in Nat /\ DOMAIN s = 1 .. n
  BY <1>3, LenProperties
<1> QED
  BY <1>2, <1>4

\* Two of them, one behind the other.
LEMMA ConcatFunctions ==
  ASSUME NEW m \in Nat, NEW n \in Nat,
         NEW s, s = [k \in 1 .. m |-> s[k]], NEW t, t = [k \in 1 .. n |-> t[k]]
  PROVE  s \o t = [k \in 1 .. m + n |-> IF k <= m THEN s[k] ELSE t[k - m]]
<1> DEFINE T == {s[k] : k \in 1 .. m} \cup {t[k] : k \in 1 .. n}
<1>1. s \in Seq(T) /\ t \in Seq(T) /\ Len(s) = m /\ Len(t) = n
  <2>1. (\A k \in 1 .. m : s[k] \in T) /\ (\A k \in 1 .. n : t[k] \in T)
    OBVIOUS
  <2> HIDE DEF T
  <2>2. Len(s) = m /\ s \in Seq(T)
    BY <2>1, FunctionSeq
  <2>3. Len(t) = n /\ t \in Seq(T)
    BY <2>1, FunctionSeq
  <2> QED
    BY <2>2, <2>3
<1>2. /\ s \o t \in Seq(T) /\ Len(s \o t) = m + n
      /\ \A k \in 1 .. m + n : (s \o t)[k] = IF k <= m THEN s[k] ELSE t[k - m]
  BY <1>1, ConcatProperties
<1>3. s \o t = [k \in 1 .. m + n |-> (s \o t)[k]]
  BY <1>2, LenProperties
<1> QED
  BY <1>2, <1>3
-----------------------------------------------------------------------------
\* A fold over the symbols of a line goes from one to the next.

After(s, line) == FoldLeft(Scan, s, line)

\* f is what the fold has made of the sets of positions up to m.
FoldTo(f, s, line, m) ==
  f = [p \in SUBSET (1 .. m) |->
         IF p = {} THEN s ELSE Scan(f[p \ {Max(p)}], line[Max(p)])]

LEMMA FoldExists ==
  ASSUME NEW s, NEW line
  PROVE  \A m \in Nat : \E f : FoldTo(f, s, line, m)
<1> DEFINE T == {m \in Nat : \E f : FoldTo(f, s, line, m)}
<1>1. 0 \in T
  <2>1. SUBSET (1 .. 0) = {{}}
    OBVIOUS
  <2> DEFINE f == [p \in {{}} |-> s]
  <2>2. f = [p \in {{}} |-> IF p = {} THEN s ELSE Scan(f[p \ {Max(p)}], line[Max(p)])]
    OBVIOUS
  <2>3. FoldTo(f, s, line, 0)
    BY <2>1, <2>2, Zenon DEF FoldTo
  <2> QED
    BY <2>3
<1>2. ASSUME NEW m \in Nat, m \in T PROVE m + 1 \in T
  <2>1. PICK f : FoldTo(f, s, line, m)
    BY <1>2
  <2> DEFINE g == [p \in SUBSET (1 .. m + 1) |->
                     IF m + 1 \in p THEN Scan(f[p \ {m + 1}], line[m + 1]) ELSE f[p]]
  <2>2. ASSUME NEW p \in SUBSET (1 .. m + 1), p # {}
        PROVE  /\ Max(p) \in p /\ \A y \in p : Max(p) >= y
    <3>1. p \subseteq Nat /\ m + 1 \in Nat /\ \A y \in p : y <= m + 1
      OBVIOUS
    <3> HIDE DEF g
    <3> QED
      BY <2>2, <3>1, LargestNumber
  <2>3. ASSUME NEW p \in SUBSET (1 .. m + 1)
        PROVE  g[p] = IF p = {} THEN s ELSE Scan(g[p \ {Max(p)}], line[Max(p)])
    <3>1. CASE m + 1 \in p
      <4>1. Max(p) = m + 1
        <5>1. Max(p) \in 1 .. m + 1 /\ Max(p) >= m + 1
          BY <3>1, <2>2
        <5> QED
          BY <5>1
      <4>2. p \ {m + 1} \in SUBSET (1 .. m) /\ p \ {m + 1} \in SUBSET (1 .. m + 1)
        OBVIOUS
      <4>3. g[p] = Scan(f[p \ {m + 1}], line[m + 1]) /\ g[p \ {m + 1}] = f[p \ {m + 1}]
        BY <3>1, <4>2
      <4> HIDE DEF g
      <4> QED
        BY <3>1, <4>1, <4>3
    <3>2. CASE m + 1 \notin p
      <4>1. p \in SUBSET (1 .. m)
        BY <3>2
      <4>2. g[p] = f[p] /\ g[p \ {Max(p)}] = f[p \ {Max(p)}]
        BY <3>2
      <4>3. f[p] = IF p = {} THEN s ELSE Scan(f[p \ {Max(p)}], line[Max(p)])
        BY <4>1, <2>1, Zenon DEF FoldTo
      <4> HIDE DEF g
      <4> QED
        BY <4>2, <4>3
    <3> QED
      BY <3>1, <3>2
  <2>4. FoldTo(g, s, line, m + 1)
    <3>1. g = [p \in SUBSET (1 .. m + 1) |-> g[p]]
      OBVIOUS
    <3> HIDE DEF g
    <3> QED
      BY <3>1, <2>3 DEF FoldTo
  <2> HIDE DEF g
  <2> QED
    BY <2>4
<1> HIDE DEF T
<1>3. Nat \subseteq T
  BY <1>1, <1>2, AllNumbers
<1> QED
  BY <1>3 DEF T

\* What the fold has made of the first m symbols.
LEMMA FoldSteps ==
  ASSUME NEW S, NEW line \in Seq(S), NEW s
  PROVE  \E g : /\ g[0] = s /\ g[Len(line)] = After(s, line)
                /\ \A m \in 1 .. Len(line) : g[m] = Scan(g[m - 1], line[m])
<1>1. DOMAIN line = 1 .. Len(line) /\ Len(line) \in Nat
  OBVIOUS
<1> DEFINE f == CHOOSE f : FoldTo(f, s, line, Len(line))
<1>2. FoldTo(f, s, line, Len(line))
  BY <1>1, FoldExists
<1>3. After(s, line) = f[1 .. Len(line)]
  <2>1. After(s, line) =
          (CHOOSE h : h = [p \in SUBSET (DOMAIN line) |->
             IF p = {} THEN s ELSE Scan(h[p \ {Max(p)}], line[Max(p)])])[DOMAIN line]
    BY DEF After, FoldLeft, MapThenFoldSet
  <2> QED
    BY <2>1, <1>1, Zenon DEF FoldTo
<1> HIDE DEF f
<1> DEFINE g == [m \in 0 .. Len(line) |-> f[1 .. m]]
<1>4. g[0] = s
  <2>1. g[0] = f[1 .. 0] /\ 1 .. 0 = {}
    BY <1>1
  <2>2. f[{}] = s
    BY <1>2, Zenon DEF FoldTo
  <2> QED
    BY <2>1, <2>2
<1>5. ASSUME NEW m \in 1 .. Len(line) PROVE g[m] = Scan(g[m - 1], line[m])
  <2>1. 1 .. m \in SUBSET (1 .. Len(line)) /\ 1 .. m # {}
    BY <1>1
  <2>2. Max(1 .. m) = m
    <3>1. 1 .. m \subseteq Nat /\ m \in Nat /\ m \in 1 .. m /\ \A y \in 1 .. m : y <= m
      BY <1>1
    <3>2. Max(1 .. m) \in 1 .. m /\ \A y \in 1 .. m : Max(1 .. m) >= y
      BY <3>1, <2>1, LargestNumber
    <3> QED
      BY <3>1, <3>2
  <2>3. (1 .. m) \ {m} = 1 .. m - 1
    BY <1>1
  <2>4. f[1 .. m] = Scan(f[(1 .. m) \ {Max(1 .. m)}], line[Max(1 .. m)])
    BY <2>1, <1>2, Zenon DEF FoldTo
  <2>5. g[m] = f[1 .. m] /\ g[m - 1] = f[1 .. m - 1]
    BY <1>1
  <2> HIDE DEF g
  <2> QED
    BY <2>2, <2>3, <2>4, <2>5
<1>6. g[Len(line)] = After(s, line)
  BY <1>1, <1>3
<1> HIDE DEF g
<1> QED
  BY <1>4, <1>5, <1>6

\* The fold over nothing, and over one symbol more.
LEMMA AfterNone == ASSUME NEW s PROVE After(s, <<>>) = s
<1>1. <<>> \in Seq({}) /\ Len(<<>>) = 0
  BY EmptySeq
<1> QED
  BY <1>1, FoldSteps

LEMMA AfterOneMore ==
  ASSUME NEW S, NEW line \in Seq(S), NEW c \in S, NEW s
  PROVE  After(s, Append(line, c)) = Scan(After(s, line), c)
<1> DEFINE more == Append(line, c)
<1>1. /\ more \in Seq(S) /\ Len(more) = Len(line) + 1 /\ Len(line) \in Nat
      /\ more[Len(line) + 1] = c /\ \A m \in 1 .. Len(line) : more[m] = line[m]
  OBVIOUS
<1> HIDE DEF more
<1>2. PICK g : /\ g[0] = s /\ g[Len(line)] = After(s, line)
               /\ \A m \in 1 .. Len(line) : g[m] = Scan(g[m - 1], line[m])
  BY FoldSteps
<1>3. PICK h : /\ h[0] = s /\ h[Len(more)] = After(s, more)
               /\ \A m \in 1 .. Len(more) : h[m] = Scan(h[m - 1], more[m])
  BY <1>1, FoldSteps
<1> DEFINE T == {m \in Nat : m <= Len(line) => g[m] = h[m]}
<1>4. 0 \in T
  BY <1>2, <1>3
<1>5. ASSUME NEW m \in Nat, m \in T PROVE m + 1 \in T
  <2>1. SUFFICES ASSUME m + 1 <= Len(line) PROVE g[m + 1] = h[m + 1]
    OBVIOUS
  <2>2. /\ m + 1 \in 1 .. Len(line) /\ m + 1 \in 1 .. Len(more) /\ (m + 1) - 1 = m
        /\ g[m] = h[m]
    BY <2>1, <1>1, <1>5
  <2> QED
    BY <2>2, <1>1, <1>2, <1>3
<1> HIDE DEF T
<1>6. Nat \subseteq T
  BY <1>4, <1>5, AllNumbers
<1>7. g[Len(line)] = h[Len(line)]
  BY <1>1, <1>6 DEF T
<1>8. h[Len(more)] = Scan(h[Len(more) - 1], more[Len(more)])
  BY <1>1, <1>3
<1>9. Len(more) - 1 = Len(line) /\ more[Len(more)] = c
  BY <1>1
<1>10. After(s, more) = Scan(After(s, line), c)
  BY <1>2, <1>3, <1>7, <1>8, <1>9
<1> QED
  BY <1>10 DEF more
-----------------------------------------------------------------------------
LEMMA AfterSymbol == ASSUME NEW s, NEW c PROVE After(s, <<c>>) = Scan(s, c)
<1>1. /\ <<>> \in Seq({c}) /\ c \in {c} /\ Append(<<>>, c) = <<c>>
  OBVIOUS
<1>2. After(s, Append(<<>>, c)) = Scan(After(s, <<>>), c)
  BY <1>1, AfterOneMore, Zenon
<1> QED
  BY <1>1, <1>2, AfterNone

\* The front of a line, with one symbol more.
LEMMA FrontOneMore ==
  ASSUME NEW S, NEW line \in Seq(S), NEW m \in Nat, m + 1 <= Len(line)
  PROVE  /\ SubSeq(line, 1, m + 1) = Append(SubSeq(line, 1, m), line[m + 1])
         /\ SubSeq(line, 1, m) \in Seq(S) /\ line[m + 1] \in S
         /\ Len(SubSeq(line, 1, m)) = m
<1>1. SubSeq(line, 1, m) \in Seq(S) /\ line[m + 1] \in S
  OBVIOUS
<1>2. Len(SubSeq(line, 1, m)) = m /\ Len(SubSeq(line, 1, m + 1)) = m + 1
  OBVIOUS
<1>3. \A k \in 1 .. m + 1 : SubSeq(line, 1, m + 1)[k] = Append(SubSeq(line, 1, m), line[m + 1])[k]
  BY <1>1, <1>2
<1>4. SubSeq(line, 1, m + 1) \in Seq(S) /\ Append(SubSeq(line, 1, m), line[m + 1]) \in Seq(S)
  OBVIOUS
<1>5. Len(Append(SubSeq(line, 1, m), line[m + 1])) = m + 1
  BY <1>1, <1>2, AppendProperties
<1>6. SubSeq(line, 1, m + 1) = Append(SubSeq(line, 1, m), line[m + 1])
  <2> DEFINE s == SubSeq(line, 1, m + 1)
             t == Append(SubSeq(line, 1, m), line[m + 1])
  <2>1. /\ s \in Seq(S) /\ t \in Seq(S) /\ Len(s) = m + 1 /\ Len(t) = m + 1
        /\ \A k \in 1 .. m + 1 : s[k] = t[k]
    BY <1>2, <1>3, <1>4, <1>5
  <2> HIDE DEF s, t
  <2>2. s = t
    BY <2>1, SeqEqual
  <2> QED
    BY <2>2 DEF s, t
<1> QED
  BY <1>1, <1>2, <1>6

\* What holds of the fold over nothing, and over one symbol more when it holds
\* of the fold over the front, holds of the fold over the line.  R[m] are the
\* states that the first m symbols may lead to.
LEMMA FoldInduction ==
  ASSUME NEW S, NEW line \in Seq(S), NEW s, NEW R, s \in R[0],
         \A m \in 0 .. Len(line) - 1 : \A t \in R[m] : Scan(t, line[m + 1]) \in R[m + 1]
  PROVE  After(s, line) \in R[Len(line)]
<1>0. Len(line) \in Nat
  OBVIOUS
<1>1. PICK g : /\ g[0] = s /\ g[Len(line)] = After(s, line)
               /\ \A m \in 1 .. Len(line) : g[m] = Scan(g[m - 1], line[m])
  BY FoldSteps
<1> DEFINE T == {m \in Nat : m <= Len(line) => g[m] \in R[m]}
<1>2. 0 \in T
  BY <1>1
<1>3. ASSUME NEW m \in Nat, m \in T PROVE m + 1 \in T
  <2>1. SUFFICES ASSUME m + 1 <= Len(line) PROVE g[m + 1] \in R[m + 1]
    OBVIOUS
  <2>2. /\ m + 1 \in 1 .. Len(line) /\ m \in 0 .. Len(line) - 1 /\ (m + 1) - 1 = m
        /\ g[m] \in R[m]
    BY <2>1, <1>0, <1>3
  <2> QED
    BY <2>2, <1>1
<1> HIDE DEF T
<1>4. Nat \subseteq T
  BY <1>2, <1>3, AllNumbers
<1> QED
  BY <1>0, <1>1, <1>4 DEF T

LEMMA AfterBoth ==
  ASSUME NEW S, NEW u \in Seq(S), NEW v \in Seq(S), NEW s
  PROVE  After(s, u \o v) = After(After(s, u), v)
<1>1. /\ u \o v \in Seq(S) /\ Len(u \o v) = Len(u) + Len(v)
      /\ Len(u) \in Nat /\ Len(v) \in Nat
      /\ \A k \in 1 .. Len(u) + Len(v) : (u \o v)[k] = IF k <= Len(u) THEN u[k] ELSE v[k - Len(u)]
  BY ConcatProperties
<1> DEFINE line == u \o v
<1> HIDE DEF line
<1>2. PICK g : /\ g[0] = s /\ g[Len(u)] = After(s, u)
               /\ \A m \in 1 .. Len(u) : g[m] = Scan(g[m - 1], u[m])
  BY FoldSteps
<1>3. PICK h : /\ h[0] = After(s, u) /\ h[Len(v)] = After(After(s, u), v)
               /\ \A m \in 1 .. Len(v) : h[m] = Scan(h[m - 1], v[m])
  BY FoldSteps
<1> DEFINE R == [m \in Nat |-> {IF m <= Len(u) THEN g[m] ELSE h[m - Len(u)]}]
<1>4. s \in R[0]
  BY <1>1, <1>2
<1>5. ASSUME NEW m \in 0 .. Len(line) - 1, NEW t \in R[m]
      PROVE  Scan(t, line[m + 1]) \in R[m + 1]
  <2>0. m \in Nat /\ m + 1 \in 1 .. Len(u) + Len(v)
    BY <1>1 DEF line
  <2>1. CASE m + 1 <= Len(u)
    <3>1. m <= Len(u) /\ m + 1 \in 1 .. Len(u) /\ (m + 1) - 1 = m
      BY <2>0, <2>1, <1>1
    <3>2. t = g[m] /\ line[m + 1] = u[m + 1] /\ R[m + 1] = {g[m + 1]}
      BY <2>0, <2>1, <3>1, <1>1 DEF line
    <3> QED
      BY <3>1, <3>2, <1>2
  <2>2. CASE m + 1 > Len(u)
    <3>1. /\ m - Len(u) + 1 \in 1 .. Len(v) /\ (m - Len(u) + 1) - 1 = m - Len(u)
          /\ (m + 1) - Len(u) = m - Len(u) + 1 /\ ~(m + 1 <= Len(u))
      BY <2>0, <2>2, <1>1
    <3>2. line[m + 1] = v[m - Len(u) + 1] /\ R[m + 1] = {h[m - Len(u) + 1]}
      BY <2>0, <3>1, <1>1 DEF line
    <3>3. t = h[m - Len(u)]
      <4>1. CASE m <= Len(u)
        <5>1. m = Len(u) /\ m - Len(u) = 0
          BY <4>1, <2>0, <2>2, <1>1
        <5> QED
          BY <5>1, <4>1, <2>0, <1>2, <1>3
      <4>2. CASE ~(m <= Len(u))
        BY <4>2, <2>0
      <4> QED
        BY <4>1, <4>2
    <3> QED
      BY <3>1, <3>2, <3>3, <1>3
  <2> QED
    BY <2>0, <2>1, <2>2, <1>1
<1> HIDE DEF R
<1>6. After(s, line) \in R[Len(line)]
  BY <1>1, <1>4, <1>5, FoldInduction DEF line
<1>7. R[Len(line)] = {h[Len(v)]}
  <2>1. CASE Len(v) = 0
    <3>1. Len(line) = Len(u) /\ Len(line) \in Nat
      BY <2>1, <1>1 DEF line
    <3> QED
      BY <3>1, <2>1, <1>2, <1>3 DEF R
  <2>2. CASE Len(v) # 0
    <3>1. Len(line) \in Nat /\ ~(Len(line) <= Len(u)) /\ Len(line) - Len(u) = Len(v)
      BY <2>2, <1>1 DEF line
    <3> QED
      BY <3>1 DEF R
  <2> QED
    BY <2>1, <2>2
<1> QED
  BY <1>3, <1>6, <1>7 DEF line
-----------------------------------------------------------------------------
\* The fields of a line.

Field == {None} \cup Seq(Symbol)

ScanState == [fields : Seq(Field), field : Seq(Symbol), inField : BOOLEAN,
              inQuotes : BOOLEAN, fieldComplete : BOOLEAN, fieldEmpty : BOOLEAN,
              invalid : BOOLEAN]

LEMMA ScanType ==
  ASSUME NEW s \in ScanState, NEW c \in Symbol
  PROVE  Scan(s, c) \in ScanState
<1>1. ASSUME s.invalid PROVE Scan(s, c) = s
  BY <1>1, Zenon DEF Scan
<1>2. EndOfTag(s) \in ScanState
  <2>1. Append(s.fields, IF s.fieldEmpty /\ s.field = <<>> THEN None ELSE s.field)
          \in Seq(Field)
    BY DEF ScanState, Field
  <2>2. <<>> \in Seq(Symbol)
    OBVIOUS
  <2> QED
    BY <2>1, <2>2 DEF EndOfTag, ScanState
<1>3. Quote(s) \in ScanState
  BY DEF Quote, ScanState
<1>4. Other(s, c) \in ScanState
  <2>1. Append(s.field, c) \in Seq(Symbol)
    BY DEF ScanState
  <2> QED
    BY <2>1 DEF Other, ScanState
<1>5. [s EXCEPT !.inField = TRUE] \in ScanState
  BY DEF ScanState
<1>6. \/ Scan(s, c) = s \/ Scan(s, c) = [s EXCEPT !.inField = TRUE]
      \/ Scan(s, c) = EndOfTag(s) \/ Scan(s, c) = Quote(s) \/ Scan(s, c) = Other(s, c)
  BY DEF Scan
<1> QED
  BY <1>2, <1>3, <1>4, <1>5, <1>6

(* The fields of a line are words, or nothing.                             *)
LEMMA FieldsType ==
  ASSUME NEW line \in Seq(Symbol)
  PROVE  /\ parseFields(line) \in Seq(Field)
         /\ parseFields(line) = IF After(Outside, line).invalid THEN <<>>
                                ELSE After(Outside, line).fields
<1>1. parseFields(line) = IF After(Outside, line).invalid THEN <<>>
                          ELSE After(Outside, line).fields
  BY Zenon DEF parseFields, After
<1> DEFINE R == [m \in Nat |-> ScanState]
<1>2. Outside \in ScanState
  BY DEF Outside, ScanState
<1>3. Len(line) \in Nat /\ \A m \in 0 .. Len(line) - 1 : line[m + 1] \in Symbol
  OBVIOUS
<1>4. Outside \in R[0]
  BY <1>2
<1>5. \A m \in 0 .. Len(line) - 1 : \A t \in R[m] : Scan(t, line[m + 1]) \in R[m + 1]
  BY <1>3, ScanType
<1> HIDE DEF R
<1>6. After(Outside, line) \in R[Len(line)]
  BY <1>4, <1>5, FoldInduction
<1>7. After(Outside, line) \in ScanState
  BY <1>6, <1>3 DEF R
<1>8. After(Outside, line).fields \in Seq(Field) /\ <<>> \in Seq(Field)
  BY <1>7 DEF ScanState
<1> QED
  BY <1>1, <1>8

LEMMA NoFields == parseFields(<<>>) = <<>>
<1>1. <<>> \in Seq(Symbol)
  OBVIOUS
<1>2. After(Outside, <<>>) = Outside
  BY AfterNone
<1>3. Outside.fields = <<>> /\ ~Outside.invalid
  BY DEF Outside
<1> QED
  BY <1>1, <1>2, <1>3, FieldsType
-----------------------------------------------------------------------------
\* What is written into a line is read from it.

\* The loop between two fields, behind those of F; in a field, of which it has
\* read x, in quotes or not; and behind the content of a field.
Between(s, F) ==
  /\ s \in ScanState /\ ~s.invalid /\ s.fields = F /\ s.field = <<>>
  /\ ~s.inField /\ ~s.inQuotes /\ ~s.fieldComplete /\ s.fieldEmpty

InPlain(s, F, x) ==
  /\ s \in ScanState /\ ~s.invalid /\ s.fields = F /\ s.field = x
  /\ s.inField /\ ~s.inQuotes /\ ~s.fieldComplete /\ s.fieldEmpty

InQuotes(s, F, x) ==
  /\ s \in ScanState /\ ~s.invalid /\ s.fields = F /\ s.field = x
  /\ s.inField /\ s.inQuotes /\ ~s.fieldComplete /\ ~s.fieldEmpty

Behind(s, F, x) ==
  /\ s \in ScanState /\ ~s.invalid /\ s.fields = F /\ s.field = x
  /\ s.inField /\ ~s.inQuotes /\ s.fieldComplete

LEMMA SymbolsApart ==
  /\ "<" # ">" /\ "<" # "quote" /\ ">" # "quote" /\ Blank # "<" /\ Blank # ">"
  /\ Blank # "quote"
  /\ "<" \in Symbol /\ ">" \in Symbol /\ "quote" \in Symbol /\ Blank \in Symbol
  BY DEF Blank, Symbol

\* One symbol between fields.
LEMMA ScanOpen ==
  ASSUME NEW s, NEW F, Between(s, F) PROVE InPlain(Scan(s, "<"), F, <<>>)
<1>1. Scan(s, "<") = [s EXCEPT !.inField = TRUE]
  BY Zenon DEF Scan, Between
<1> QED
  BY <1>1 DEF Between, InPlain, ScanState

LEMMA ScanGap ==
  ASSUME NEW s, NEW F, Between(s, F) PROVE Scan(s, Blank) = s
<1>1. Other(s, Blank) = s
  BY Zenon DEF Other, Between
<1> QED
  BY <1>1, SymbolsApart, Zenon DEF Scan, Between

\* A quote.
LEMMA ScanQuote ==
  ASSUME NEW s, NEW F, NEW x
  PROVE  /\ InPlain(s, F, <<>>) => InQuotes(Scan(s, "quote"), F, <<>>)
         /\ InQuotes(s, F, x) => Behind(Scan(s, "quote"), F, x)
<1>1. ASSUME InPlain(s, F, <<>>) PROVE InQuotes(Scan(s, "quote"), F, <<>>)
  <2>1. Scan(s, "quote") = Quote(s)
    BY <1>1, SymbolsApart, Zenon DEF Scan, InPlain
  <2>2. Quote(s) = [s EXCEPT !.inQuotes = TRUE, !.fieldEmpty = FALSE]
    BY <1>1, Zenon DEF Quote, InPlain
  <2> QED
    BY <1>1, <2>1, <2>2 DEF InPlain, InQuotes, ScanState
<1>2. ASSUME InQuotes(s, F, x) PROVE Behind(Scan(s, "quote"), F, x)
  <2>1. Scan(s, "quote") = Quote(s)
    BY <1>2, SymbolsApart, Zenon DEF Scan, InQuotes
  <2>2. Quote(s) = [s EXCEPT !.inQuotes = FALSE, !.fieldComplete = TRUE]
    BY <1>2, Zenon DEF Quote, InQuotes
  <2> QED
    BY <1>2, <2>1, <2>2 DEF Behind, InQuotes, ScanState
<1> QED
  BY <1>1, <1>2

\* A symbol of the content.
LEMMA ScanContent ==
  ASSUME NEW s, NEW F, NEW x, NEW c \in Symbol \ {"quote"}
  PROVE  /\ InPlain(s, F, x) /\ c # Blank /\ c # ">" => InPlain(Scan(s, c), F, Append(x, c))
         /\ InQuotes(s, F, x) => InQuotes(Scan(s, c), F, Append(x, c))
<1>1. ASSUME InPlain(s, F, x), c # Blank, c # ">" PROVE InPlain(Scan(s, c), F, Append(x, c))
  <2>1. Scan(s, c) = Other(s, c)
    BY <1>1, Zenon DEF Scan, InPlain
  <2>2. Other(s, c) = [s EXCEPT !.field = Append(s.field, c)]
    BY <1>1, Zenon DEF Other, InPlain
  <2> DEFINE y == Append(x, c)
  <2>3. y \in Seq(Symbol)
    BY <1>1 DEF InPlain, ScanState
  <2>4. Scan(s, c) = [s EXCEPT !.field = y]
    BY <1>1, <2>1, <2>2 DEF InPlain
  <2> HIDE DEF y
  <2>5. InPlain(Scan(s, c), F, y)
    BY <1>1, <2>3, <2>4 DEF InPlain, ScanState
  <2> QED
    BY <2>5 DEF y
<1>2. ASSUME InQuotes(s, F, x) PROVE InQuotes(Scan(s, c), F, Append(x, c))
  <2>1. Scan(s, c) = Other(s, c)
    BY <1>2, Zenon DEF Scan, InQuotes
  <2>2. Other(s, c) = [s EXCEPT !.field = Append(s.field, c)]
    BY <1>2, Zenon DEF Other, InQuotes
  <2> DEFINE y == Append(x, c)
  <2>3. y \in Seq(Symbol)
    BY <1>2 DEF InQuotes, ScanState
  <2>4. Scan(s, c) = [s EXCEPT !.field = y]
    BY <1>2, <2>1, <2>2 DEF InQuotes
  <2> HIDE DEF y
  <2>5. InQuotes(Scan(s, c), F, y)
    BY <1>2, <2>3, <2>4 DEF InQuotes, ScanState
  <2> QED
    BY <2>5 DEF y
<1> QED
  BY <1>1, <1>2

\* A space in front of the content, or behind it.
LEMMA ScanBlank ==
  ASSUME NEW s, NEW F, NEW x, InPlain(s, F, x)
  PROVE  /\ x = <<>> => InPlain(Scan(s, Blank), F, x)
         /\ x # <<>> => Behind(Scan(s, Blank), F, x)
<1>1. Scan(s, Blank) = Other(s, Blank)
  BY SymbolsApart, Zenon DEF Scan, InPlain
<1>2. Other(s, Blank) = [s EXCEPT !.fieldComplete = s.field # <<>>]
  BY Zenon DEF Other, InPlain
<1> QED
  BY <1>1, <1>2 DEF InPlain, Behind, ScanState

\* The end of the tag.
LEMMA ScanClose ==
  ASSUME NEW s, NEW F, NEW x
  PROVE  /\ InPlain(s, F, <<>>) => Between(Scan(s, ">"), Append(F, None))
         /\ (InPlain(s, F, x) \/ Behind(s, F, x)) /\ x # <<>> =>
              Between(Scan(s, ">"), Append(F, x))
<1>1. ASSUME NEW y, InPlain(s, F, y) \/ Behind(s, F, y),
             NEW e \in Field, e = IF s.fieldEmpty /\ s.field = <<>> THEN None ELSE s.field
      PROVE  Between(Scan(s, ">"), Append(F, e))
  <2>1. s \in ScanState /\ ~s.invalid /\ s.inField /\ ~s.inQuotes /\ s.fields = F
    BY <1>1 DEF InPlain, Behind
  <2>2. Scan(s, ">") = EndOfTag(s)
    BY <2>1, SymbolsApart, Zenon DEF Scan
  <2> DEFINE G == Append(F, e)
  <2>3. G \in Seq(Field)
    BY <2>1 DEF ScanState
  <2>4. EndOfTag(s) = [s EXCEPT !.inField = FALSE, !.fieldComplete = FALSE,
                                !.fieldEmpty = TRUE, !.field = <<>>, !.fields = G]
    BY <2>1, <1>1, Zenon DEF EndOfTag
  <2> HIDE DEF G
  <2>5. EndOfTag(s) \in ScanState
    <3>1. <<>> \in Seq(Symbol)
      OBVIOUS
    <3> QED
      BY <3>1, <2>1, <2>3, <2>4 DEF ScanState
  <2>6. Between(EndOfTag(s), G)
    BY <2>1, <2>4, <2>5 DEF Between, ScanState
  <2> QED
    BY <2>2, <2>6 DEF G
<1>2. ASSUME InPlain(s, F, <<>>) PROVE Between(Scan(s, ">"), Append(F, None))
  <2>1. None \in Field /\ None = IF s.fieldEmpty /\ s.field = <<>> THEN None ELSE s.field
    BY <1>2 DEF InPlain, Field
  <2> QED
    BY <1>1, <1>2, <2>1
<1>3. ASSUME InPlain(s, F, x) \/ Behind(s, F, x), x # <<>>
      PROVE  Between(Scan(s, ">"), Append(F, x))
  <2>1. x \in Field /\ x = IF s.fieldEmpty /\ s.field = <<>> THEN None ELSE s.field
    BY <1>3 DEF InPlain, Behind, Field, ScanState
  <2> QED
    BY <1>1, <1>3, <2>1
<1> QED
  BY <1>2, <1>3

\* The content of a cell, in quotes or plain.
LEMMA ContentScanned ==
  ASSUME NEW s, NEW F, NEW cell \in Seq(Symbol \ {"quote"})
  PROVE  /\ InQuotes(s, F, <<>>) => InQuotes(After(s, cell), F, cell)
         /\ InPlain(s, F, <<>>) /\ Plain(cell) => InPlain(After(s, cell), F, cell)
<1>0. Len(cell) \in Nat /\ SubSeq(cell, 1, 0) = <<>> /\ SubSeq(cell, 1, Len(cell)) = cell
  BY SubSeqEmpty, SubSeqFull
<1>1. ASSUME NEW m \in 0 .. Len(cell) - 1
      PROVE  /\ m \in Nat /\ m + 1 \in Nat /\ m + 1 \in DOMAIN cell
             /\ SubSeq(cell, 1, m + 1) = Append(SubSeq(cell, 1, m), cell[m + 1])
             /\ cell[m + 1] \in Symbol \ {"quote"}
  <2>1. m \in Nat /\ m + 1 \in Nat /\ m + 1 <= Len(cell) /\ m + 1 \in DOMAIN cell
    BY <1>0
  <2> QED
    BY <2>1, FrontOneMore
<1>2. ASSUME InQuotes(s, F, <<>>) PROVE InQuotes(After(s, cell), F, cell)
  <2> DEFINE R == [m \in Nat |-> {t \in ScanState : InQuotes(t, F, SubSeq(cell, 1, m))}]
  <2>1. s \in R[0]
    BY <1>0, <1>2 DEF InQuotes
  <2>2. ASSUME NEW m \in 0 .. Len(cell) - 1, NEW t \in R[m]
        PROVE  Scan(t, cell[m + 1]) \in R[m + 1]
    <3>1. InQuotes(t, F, SubSeq(cell, 1, m))
      BY <1>1
    <3>2. InQuotes(Scan(t, cell[m + 1]), F, SubSeq(cell, 1, m + 1))
      BY <1>1, <3>1, ScanContent
    <3>3. Scan(t, cell[m + 1]) \in ScanState
      BY <3>2 DEF InQuotes
    <3> QED
      BY <1>1, <3>2, <3>3
  <2> HIDE DEF R
  <2>3. After(s, cell) \in R[Len(cell)]
    BY <2>1, <2>2, FoldInduction
  <2> QED
    BY <1>0, <2>3 DEF R
<1>3. ASSUME InPlain(s, F, <<>>), Plain(cell) PROVE InPlain(After(s, cell), F, cell)
  <2> DEFINE R == [m \in Nat |-> {t \in ScanState : InPlain(t, F, SubSeq(cell, 1, m))}]
  <2>1. s \in R[0]
    BY <1>0, <1>3 DEF InPlain
  <2>2. ASSUME NEW m \in 0 .. Len(cell) - 1, NEW t \in R[m]
        PROVE  Scan(t, cell[m + 1]) \in R[m + 1]
    <3>1. InPlain(t, F, SubSeq(cell, 1, m))
      BY <1>1
    <3>2. cell[m + 1] # Blank /\ cell[m + 1] # ">"
      BY <1>1, <1>3 DEF Plain, Range
    <3>3. InPlain(Scan(t, cell[m + 1]), F, SubSeq(cell, 1, m + 1))
      BY <1>1, <3>1, <3>2, ScanContent
    <3>4. Scan(t, cell[m + 1]) \in ScanState
      BY <3>3 DEF InPlain
    <3> QED
      BY <1>1, <3>3, <3>4
  <2> HIDE DEF R
  <2>3. After(s, cell) \in R[Len(cell)]
    BY <2>1, <2>2, FoldInduction
  <2> QED
    BY <1>0, <2>3 DEF R
<1> QED
  BY <1>2, <1>3

\* The symbols around it.
LEMMA AroundScanned ==
  ASSUME NEW S, NEW a \in S, NEW t \in Seq(S), NEW b \in S, NEW s
  PROVE  /\ <<a>> \o t \o <<b>> \in Seq(S)
         /\ After(s, <<a>> \o t \o <<b>>) = Scan(After(Scan(s, a), t), b)
<1>1. /\ <<a>> \in Seq(S) /\ <<b>> \in Seq(S) /\ <<a>> \o t \in Seq(S)
      /\ <<a>> \o t \o <<b>> \in Seq(S)
  OBVIOUS
<1>2. After(s, <<a>> \o t) = After(After(s, <<a>>), t)
  BY <1>1, AfterBoth
<1>3. After(s, <<a>> \o t \o <<b>>) = After(After(s, <<a>> \o t), <<b>>)
  BY <1>1, AfterBoth
<1> QED
  BY <1>1, <1>2, <1>3, AfterSymbol

LEMMA TagScanned ==
  ASSUME NEW s, NEW F, Between(s, F), NEW c \in SomeCell, NEW l \in OneCell(c)
  PROVE  l \in Seq(Symbol) /\ Between(After(s, l), Append(F, c))
<1>1. PICK t \in Written(c) : l = <<"<">> \o t \o <<">">>
  BY DEF OneCell
<1> DEFINE start == Scan(s, "<")
<1>2. InPlain(start, F, <<>>)
  BY ScanOpen
<1>3. ASSUME t \in Seq(Symbol), Between(Scan(After(start, t), ">"), Append(F, c))
      PROVE  l \in Seq(Symbol) /\ Between(After(s, l), Append(F, c))
  <2>1. l \in Seq(Symbol) /\ After(s, l) = Scan(After(Scan(s, "<"), t), ">")
    BY <1>1, <1>3, SymbolsApart, AroundScanned
  <2> QED
    BY <1>3, <2>1
<1> HIDE DEF start
<1>4. CASE c = None
  <2>1. t \in {<<>>, <<Blank>>}
    BY <1>4, Zenon DEF Written
  <2>2. CASE t = <<>>
    <3>1. t \in Seq(Symbol) /\ After(start, t) = start
      BY <2>2, AfterNone
    <3> QED
      BY <3>1, <1>2, <1>3, <1>4, ScanClose
  <2>3. CASE t = <<Blank>>
    <3>1. t \in Seq(Symbol) /\ After(start, t) = Scan(start, Blank)
      BY <2>3, SymbolsApart, AfterSymbol
    <3>2. InPlain(Scan(start, Blank), F, <<>>)
      BY <1>2, ScanBlank
    <3> QED
      BY <3>1, <3>2, <1>3, <1>4, ScanClose
  <2> QED
    BY <2>1, <2>2, <2>3
<1>5. CASE c # None
  <2>0. c \in Seq(Symbol \ {"quote"}) /\ c # <<>> /\ c \in Seq(Symbol)
    <3>1. c \in Seq(Symbol \ {"quote"}) /\ c # <<>>
      BY <1>5, SoRFieldsAssumption
    <3> QED
      BY <3>1, SeqMonotonic
  <2>1. \/ t = <<"quote">> \o c \o <<"quote">>
        \/ Plain(c) /\ t = c
        \/ Plain(c) /\ t = <<Blank>> \o c \o <<Blank>>
    BY <1>5 DEF Written
  <2>2. CASE t = <<"quote">> \o c \o <<"quote">>
    <3>1. t \in Seq(Symbol) /\ After(start, t) = Scan(After(Scan(start, "quote"), c), "quote")
      BY <2>2, <2>0, SymbolsApart, AroundScanned
    <3>2. InQuotes(After(Scan(start, "quote"), c), F, c)
      BY <1>2, <2>0, ScanQuote, ContentScanned
    <3>3. Behind(After(start, t), F, c)
      BY <3>1, <3>2, ScanQuote
    <3> QED
      BY <3>1, <3>3, <2>0, <1>3, ScanClose
  <2>3. CASE Plain(c) /\ t = c
    <3>1. InPlain(After(start, t), F, c)
      BY <2>3, <2>0, <1>2, ContentScanned
    <3> QED
      BY <3>1, <2>0, <2>3, <1>3, ScanClose
  <2>4. CASE Plain(c) /\ t = <<Blank>> \o c \o <<Blank>>
    <3>1. t \in Seq(Symbol) /\ After(start, t) = Scan(After(Scan(start, Blank), c), Blank)
      BY <2>4, <2>0, SymbolsApart, AroundScanned
    <3>2. InPlain(Scan(start, Blank), F, <<>>)
      BY <1>2, ScanBlank
    <3>3. InPlain(After(Scan(start, Blank), c), F, c)
      BY <3>2, <2>4, <2>0, ContentScanned
    <3>4. Behind(After(start, t), F, c)
      BY <3>1, <3>3, <2>0, ScanBlank
    <3> QED
      BY <3>1, <3>4, <2>0, <1>3, ScanClose
  <2> QED
    BY <2>1, <2>2, <2>3, <2>4
<1> QED
  BY <1>4, <1>5

(* A line of one cell or two is read as it was written, whatever is in the *)
(* cells.                                                                  *)
LEMMA LinesAsWritten ==
  ASSUME NEW w \in WrittenLines
  PROVE  parseFields(w.line) = w.fields
<1>1. Between(Outside, <<>>)
  BY DEF Between, Outside, ScanState
<1>2. ASSUME NEW l \in Seq(Symbol), NEW F, Between(After(Outside, l), F)
      PROVE  parseFields(l) = F
  BY <1>2, FieldsType DEF Between
<1>3. ASSUME NEW c \in SomeCell, NEW l \in OneCell(c), w = [line |-> l, fields |-> <<c>>]
      PROVE  parseFields(w.line) = w.fields
  <2>1. l \in Seq(Symbol) /\ Between(After(Outside, l), Append(<<>>, c))
    BY <1>1, TagScanned
  <2>2. Append(<<>>, c) = <<c>>
    OBVIOUS
  <2>3. parseFields(l) = <<c>>
    BY <2>1, <2>2, <1>2
  <2> QED
    BY <2>3, <1>3
<1>4. ASSUME NEW c \in SomeCell, NEW d \in SomeCell, NEW l \in OneCell(c),
             NEW m \in OneCell(d), NEW gap \in {<<>>, <<Blank>>},
             w = [line |-> l \o gap \o m, fields |-> <<c, d>>]
      PROVE  parseFields(w.line) = w.fields
  <2>1. l \in Seq(Symbol) /\ Between(After(Outside, l), Append(<<>>, c))
    BY <1>1, TagScanned
  <2>2. Append(<<>>, c) = <<c>> /\ Append(<<c>>, d) = <<c, d>>
    <3>1. <<>> \in Seq({c, d}) /\ <<c>> \in Seq({c, d}) /\ <<c, d>> \in Seq({c, d})
      OBVIOUS
    <3>2. Len(<<c>>) = 1 /\ Len(<<c, d>>) = 2 /\ Len(Append(<<c>>, d)) = 2
      BY <3>1
    <3>3. \A k \in 1 .. 2 : Append(<<c>>, d)[k] = <<c, d>>[k]
      BY <3>1, <3>2
    <3>4. Append(<<c>>, d) \in Seq({c, d})
      BY <3>1
    <3>5. Append(<<c>>, d) = <<c, d>>
      BY <3>1, <3>2, <3>3, <3>4, SeqEqual
    <3> QED
      BY <3>5
  <2>3. gap \in Seq(Symbol) /\ Between(After(After(Outside, l), gap), <<c>>)
    <3>1. CASE gap = <<>>
      BY <3>1, <2>1, <2>2, AfterNone
    <3>2. CASE gap = <<Blank>>
      <4>1. gap \in Seq(Symbol)
        BY <3>2, SymbolsApart
      <4>2. After(After(Outside, l), gap) = Scan(After(Outside, l), Blank)
        BY <3>2, AfterSymbol
      <4>3. Scan(After(Outside, l), Blank) = After(Outside, l)
        BY <2>1, ScanGap
      <4> QED
        BY <4>1, <4>2, <4>3, <2>1, <2>2
    <3> QED
      BY <3>1, <3>2
  <2>4. m \in Seq(Symbol) /\ Between(After(After(After(Outside, l), gap), m), <<c, d>>)
    BY <2>2, <2>3, TagScanned
  <2>5. l \o gap \in Seq(Symbol) /\ l \o gap \o m \in Seq(Symbol)
    BY <2>1, <2>3, <2>4
  <2>6. After(Outside, l \o gap) = After(After(Outside, l), gap)
    BY <2>1, <2>3, AfterBoth
  <2>7. After(Outside, l \o gap \o m) = After(After(Outside, l \o gap), m)
    BY <2>4, <2>5, AfterBoth
  <2>8. parseFields(l \o gap \o m) = <<c, d>>
    BY <2>4, <2>5, <2>6, <2>7, <1>2
  <2> QED
    BY <2>8, <1>4
<1>5. ASSUME NEW c \in SomeCell, w \in LinesOfOne(c)
      PROVE  parseFields(w.line) = w.fields
  BY <1>3, <1>5 DEF LinesOfOne
<1>6. ASSUME NEW c \in SomeCell, NEW d \in SomeCell, w \in LinesOfTwo(c, d)
      PROVE  parseFields(w.line) = w.fields
  <2>1. \E l \in OneCell(c), m \in OneCell(d), gap \in {<<>>, <<Blank>>} :
          w = [line |-> l \o gap \o m, fields |-> <<c, d>>]
    BY <1>6 DEF LinesOfTwo
  <2> QED
    BY <1>4, <2>1
<1>7. CASE w \in UNION {LinesOfOne(c) : c \in SomeCell}
  BY <1>5, <1>7
<1>8. CASE w \in UNION {LinesOfTwo(c, d) : c \in SomeCell, d \in SomeCell}
  BY <1>8, <1>6
<1> QED
  BY <1>7, <1>8 DEF WrittenLines
-----------------------------------------------------------------------------
\* The types of cells and of columns.

LEMMA ConvertType ==
  ASSUME NEW conv \in [Word -> Conversion], NEW cell
  PROVE  Convert(conv, cell) \in Conversion
<1> DEFINE t == Trimmed(cell)
<1>1. Convert(conv, cell) = IF t = <<>> \/ t[1] \notin Word THEN "invalid"
                            ELSE IF Len(t) > 1 /\ conv[t[1]] = "whole" THEN "front"
                            ELSE conv[t[1]]
  BY Zenon DEF Convert
<1> HIDE DEF t
<1>2. "invalid" \in Conversion /\ "front" \in Conversion
  BY DEF Conversion
<1>3. \A w \in Word : conv[w] \in Conversion
  OBVIOUS
<1> QED
  BY <1>1, <1>2, <1>3, Zenon

LEMMA Conversions ==
  ASSUME NEW cell
  PROVE  /\ Convert(stoi, cell) \in Conversion /\ Convert(stof, cell) \in Conversion
         /\ Convert(stof, cell) = "invalid" => Convert(stoi, cell) = "invalid"
<1> DEFINE t == Trimmed(cell)
<1>1. Convert(stoi, cell) \in Conversion /\ Convert(stof, cell) \in Conversion
  BY ConvertType, SoRFieldsAssumption
<1>2. \A conv : Convert(conv, cell) = IF t = <<>> \/ t[1] \notin Word THEN "invalid"
                            ELSE IF Len(t) > 1 /\ conv[t[1]] = "whole" THEN "front"
                            ELSE conv[t[1]]
  BY Zenon DEF Convert
<1> HIDE DEF t
<1>3. ASSUME Convert(stof, cell) = "invalid" PROVE Convert(stoi, cell) = "invalid"
  <2>1. CASE t = <<>> \/ t[1] \notin Word
    BY <2>1, <1>2, Zenon
  <2>2. CASE ~(t = <<>> \/ t[1] \notin Word)
    <3>1. Convert(stof, cell) = IF Len(t) > 1 /\ stof[t[1]] = "whole" THEN "front"
                                ELSE stof[t[1]]
      BY <2>2, <1>2, Zenon
    <3>2. stof[t[1]] = "invalid"
      BY <3>1, <1>3
    <3>3. stoi[t[1]] = "invalid"
      BY <2>2, <3>2, SoRFieldsAssumption
    <3> QED
      BY <2>2, <3>3, <1>2
  <2> QED
    BY <2>1, <2>2
<1> QED
  BY <1>1, <1>3

(* What the type of a cell says of its conversions.                        *)
LEMMA CellTypes ==
  ASSUME NEW cell
  PROVE  /\ cellType(cell) \in 0 .. 4
         /\ cellType(cell) = Throws => Convert(stof, cell) = "range"
         /\ cellType(cell) \in {BOOL, INT} => Convert(stoi, cell) = "whole"
         /\ cellType(cell) \in {BOOL, INT, FLOAT} => Convert(stof, cell) # "invalid"
<1> USE DEF BOOL, INT, FLOAT, TEXT, Throws
<1>1. /\ Convert(stoi, cell) \in {"whole", "front", "invalid", "range"}
      /\ Convert(stof, cell) \in {"whole", "front", "invalid", "range"}
      /\ Convert(stof, cell) = "invalid" => Convert(stoi, cell) = "invalid"
  BY Conversions DEF Conversion
<1>2. ASSUME NEW x
      PROVE  FloatOrString(cell, x) =
               IF Convert(stof, cell) = "whole" THEN FLOAT
               ELSE IF Convert(stof, cell) = "range" THEN x ELSE TEXT
  BY <1>1 DEF FloatOrString
<1>3. CASE Convert(stoi, cell) = "whole"
  <2>1. cellType(cell) = IF Len(cell) = 1 /\ cell[1] \in Bits THEN BOOL ELSE INT
    BY <1>3 DEF cellType
  <2>2. cellType(cell) \in {BOOL, INT}
    BY <2>1, Zenon
  <2> QED
    BY <1>1, <1>3, <2>2
<1>4. CASE Convert(stoi, cell) = "front"
  <2>1. cellType(cell) = FloatOrString(cell, FLOAT)
    BY <1>4 DEF cellType
  <2> QED
    BY <1>1, <1>2, <1>4, <2>1
<1>5. CASE Convert(stoi, cell) = "invalid"
  <2>1. cellType(cell) = FloatOrString(cell, Throws)
    BY <1>5 DEF cellType
  <2> QED
    BY <1>1, <1>2, <1>5, <2>1
<1>6. CASE Convert(stoi, cell) = "range"
  <2>1. cellType(cell) = FLOAT
    BY <1>6 DEF cellType
  <2> QED
    BY <1>1, <1>6, <2>1
<1> QED
  BY <1>1, <1>3, <1>4, <1>5, <1>6

(* The type of a column is that of one of its cells, or BOOL, and no cell  *)
(* has a larger one, unless it is a string or throws.                      *)
LEMMA ColumnTypes ==
  ASSUME NEW n \in Nat, NEW col, DOMAIN col = 1 .. n
  PROVE  /\ findColType(col) \in 0 .. 4
         /\ findColType(col) = Throws =>
              \E m \in 1 .. n : col[m] # None /\ cellType(col[m]) = Throws
         /\ findColType(col) < TEXT =>
              \A m \in 1 .. n : col[m] # None => cellType(col[m]) <= findColType(col)
<1> DEFINE cells == {m \in DOMAIN col : col[m] # None}
           ends  == {m \in cells : cellType(col[m]) >= TEXT}
           all   == {BOOL} \cup {cellType(col[m]) : m \in cells}
<1>0. TEXT = 3 /\ Throws = 4 /\ BOOL = 0
  BY DEF TEXT, Throws, BOOL
<1>1. findColType(col) = IF ends # {} THEN cellType(col[Min(ends)]) ELSE Max(all)
  BY Zenon DEF findColType
<1>2. CASE ends # {}
  <2>1. Min(ends) \in ends
    <3>1. ends \subseteq Nat
      OBVIOUS
    <3> HIDE DEF ends
    <3> QED
      BY <3>1, <1>2, SmallestNumber
  <2> DEFINE m == Min(ends)
  <2>2. m \in 1 .. n /\ col[m] # None /\ cellType(col[m]) >= TEXT
    BY <2>1
  <2>3. findColType(col) = cellType(col[m])
    BY <1>1, <1>2
  <2> HIDE DEF m, ends, all, cells
  <2>4. cellType(col[m]) \in 0 .. 4
    BY CellTypes
  <2> QED
    BY <1>0, <2>2, <2>3, <2>4
<1>3. CASE ends = {}
  <2>1. all \subseteq Nat /\ all # {} /\ \A y \in all : y <= 4
    BY <1>0, CellTypes
  <2>2. Max(all) \in all /\ \A y \in all : Max(all) >= y
    <3> HIDE DEF all
    <3> QED
      BY <2>1, LargestNumber
  <2>3. findColType(col) = Max(all)
    BY <1>1, <1>3
  <2>4. \A m \in 1 .. n : col[m] # None => m \in cells /\ cellType(col[m]) \in all
    OBVIOUS
  <2>5. \A m \in cells : cellType(col[m]) \in 0 .. 4 /\ ~(cellType(col[m]) >= TEXT)
    BY <1>3, CellTypes
  <2>6. \A y \in all : y \in 0 .. 2
    BY <1>0, <2>5
  <2> HIDE DEF all, cells, ends
  <2> QED
    BY <1>0, <2>2, <2>3, <2>4, <2>6
<1> QED
  BY <1>2, <1>3
-----------------------------------------------------------------------------
\* The sample.

\* The first b lines of a sample have c fields at most.
Narrow(sample, b, c) == \A m \in 1 .. b : Len(sample[m]) <= c

LEMMA NarrowExists ==
  ASSUME NEW n \in Nat, NEW sample, \A m \in 1 .. n : Len(sample[m]) \in Nat
  PROVE  \E c \in Nat : Narrow(sample, n, c)
<1> DEFINE T == {b \in Nat : b <= n => \E c \in Nat : Narrow(sample, b, c)}
<1>1. 0 \in T
  <2>1. Narrow(sample, 0, 0)
    BY DEF Narrow
  <2> QED
    BY <2>1
<1>2. ASSUME NEW b \in Nat, b \in T, b + 1 <= n
      PROVE  \E c \in Nat : Narrow(sample, b + 1, c)
  <2>1. PICK c \in Nat : Narrow(sample, b, c)
    BY <1>2
  <2>2. b + 1 \in 1 .. n
    BY <1>2
  <2> DEFINE d == Len(sample[b + 1])
  <2>3. d \in Nat
    BY <2>2
  <2>4. ASSUME NEW m \in 1 .. b + 1 PROVE Len(sample[m]) <= c + d
    <3>1. CASE m = b + 1
      BY <3>1, <2>3
    <3>2. CASE m # b + 1
      <4>1. m \in 1 .. b /\ m \in 1 .. n
        BY <3>2, <2>2
      <4>2. Len(sample[m]) <= c
        BY <4>1, <2>1 DEF Narrow
      <4>3. Len(sample[m]) \in Nat
        BY <4>1
      <4> HIDE DEF d
      <4> QED
        BY <4>2, <4>3, <2>3
    <3> QED
      BY <3>1, <3>2
  <2>5. Narrow(sample, b + 1, c + d)
    BY <2>4 DEF Narrow
  <2> QED
    BY <2>3, <2>5
<1>3. \A b \in Nat : b \in T => b + 1 \in T
  BY <1>2
<1> HIDE DEF T
<1>4. Nat \subseteq T
  BY <1>1, <1>3, AllNumbers
<1>5. n \in T
  BY <1>4
<1> QED
  BY <1>5 DEF T

(* The columns of a sample are as many as its longest line has fields.     *)
LEMMA WidthOfSample ==
  ASSUME NEW n \in Nat \ {0}, NEW sample, sample = [m \in 1 .. n |-> sample[m]],
         \A m \in 1 .. n : sample[m] \in Seq(Field)
  PROVE  Width(sample) \in Nat /\ \A m \in 1 .. n : Len(sample[m]) <= Width(sample)
<1>1. \A m \in 1 .. n : Len(sample[m]) \in Nat
  OBVIOUS
<1>2. PICK c \in Nat : Narrow(sample, n, c)
  BY <1>1, NarrowExists
<1> DEFINE lengths == {Len(sample[m]) : m \in DOMAIN sample}
<1>3. DOMAIN sample = 1 .. n
  OBVIOUS
<1>4. \A m \in 1 .. n : Len(sample[m]) <= c
  BY <1>2 DEF Narrow
<1>5. \A m \in 1 .. n : Len(sample[m]) \in lengths
  BY <1>3
<1>6. \A y \in lengths : y \in Nat /\ y <= c
  BY <1>1, <1>3, <1>4
<1>7. Width(sample) = Max(lengths)
  BY DEF Width
<1> HIDE DEF lengths
<1>8. lengths # {} /\ lengths \subseteq Nat
  BY <1>5, <1>6
<1>9. Max(lengths) \in lengths /\ \A y \in lengths : Max(lengths) >= y
  BY <1>6, <1>8, LargestNumber
<1> QED
  BY <1>5, <1>6, <1>7, <1>9
-----------------------------------------------------------------------------
\* Lines and rows.

LEMMA FileFacts ==
  ASSUME NEW f \in File
  PROVE  /\ f.lines \in Seq(Seq(Symbol)) /\ Len(f.lines) \in Nat
         /\ Terminated(f) \in Nat /\ Terminated(f) <= Len(f.lines)
         /\ Len(f.lines) <= Terminated(f) + 1
         /\ filesize(f) = Len(f.lines) + Terminated(f) /\ filesize(f) \in Nat
<1>1. f.lines \in Seq(Seq(Symbol))
  BY SoRParserAssumption
<1>2. Len(f.lines) \in Nat /\ (f.lines # <<>> => Len(f.lines) >= 1)
  BY <1>1, EmptySeq
<1>3. f.lines = <<>> => Len(f.lines) = 0
  BY <1>1
<1> DEFINE size == Len(f.lines)
<1>4. Terminated(f) = IF f.newline \/ f.lines = <<>> THEN size ELSE size - 1
  BY Zenon DEF Terminated
<1>5. filesize(f) = size + Terminated(f)
  BY Zenon DEF filesize
<1>6. size \in Nat /\ (f.lines # <<>> => size >= 1) /\ (f.lines = <<>> => size = 0)
  BY <1>2, <1>3
<1> HIDE DEF size
<1>7. CASE f.newline \/ f.lines = <<>>
  <2>1. Terminated(f) = size
    BY <1>4, <1>7, Zenon
  <2> QED
    BY <1>1, <1>5, <1>6, <2>1 DEF size
<1>8. CASE ~(f.newline \/ f.lines = <<>>)
  <2>1. Terminated(f) = size - 1
    BY <1>4, <1>8, Zenon
  <2> QED
    BY <1>1, <1>5, <1>6, <1>8, <2>1 DEF size
<1> QED
  BY <1>7, <1>8

LEMMA LineType ==
  ASSUME NEW f \in File, NEW n \in Nat
  PROVE  /\ Line(f, n) \in Seq(Symbol)
         /\ n >= Len(f.lines) => Line(f, n) = <<>>
<1>1. /\ f.lines \in Seq(Seq(Symbol)) /\ Len(f.lines) \in Nat
      /\ \A m \in 1 .. Len(f.lines) : f.lines[m] \in Seq(Symbol)
  BY FileFacts
<1>2. CASE n < Len(f.lines)
  <2>1. n + 1 \in 1 .. Len(f.lines)
    BY <1>1, <1>2
  <2> QED
    BY <1>1, <1>2, <2>1 DEF Line
<1>3. CASE ~(n < Len(f.lines))
  <2>1. <<>> \in Seq(Symbol)
    OBVIOUS
  <2> QED
    BY <1>3, <2>1 DEF Line
<1> QED
  BY <1>2, <1>3

\* The cells of the lines from, from + 1 ... of a file.
Rows(f, cols, from, count) ==
  [k \in 1 .. cols |->
     [r \in 1 .. count |-> Cell(parseFields(Line(f, from + r - 1)), k)]]

LEMMA RowsShape ==
  ASSUME NEW f, NEW cols \in Nat, NEW from, NEW count \in Nat
  PROVE  /\ Len(Rows(f, cols, from, count)) = cols
         /\ DOMAIN Rows(f, cols, from, count) = 1 .. cols
         /\ \A k \in 1 .. cols : Len(Rows(f, cols, from, count)[k]) = count
<1> DEFINE c == Rows(f, cols, from, count)
<1>1. c = [k \in 1 .. cols |-> c[k]] /\ DOMAIN c = 1 .. cols
  BY DEF Rows
<1>2. ASSUME NEW k \in 1 .. cols PROVE Len(c[k]) = count
  <2> DEFINE s == [r \in 1 .. count |-> Cell(parseFields(Line(f, from + r - 1)), k)]
  <2>1. c[k] = s
    BY DEF Rows
  <2>2. s = [r \in 1 .. count |-> s[r]]
    OBVIOUS
  <2> HIDE DEF s, c
  <2>3. Len(s) = count
    BY <2>2, FunctionSeq
  <2> QED
    BY <2>1, <2>3
<1> HIDE DEF c
<1>3. Len(c) = cols
  BY <1>1, FunctionSeq
<1> QED
  BY <1>1, <1>2, <1>3 DEF c

\* Reading on, count rows, from where a window of r rows ends.
Adds(cols, from, r, n, count, total) ==
  /\ cols \in Nat /\ from \in Nat /\ r \in Nat /\ count \in Nat
  /\ n = from + r /\ total = r + count

LEMMA RowsAdded ==
  ASSUME NEW f, NEW cols, NEW from, NEW r, NEW n, NEW count, NEW total,
         Adds(cols, from, r, n, count, total)
  PROVE  WithRows(Rows(f, cols, from, r), cols, f, n, count)
           = Rows(f, cols, from, total)
<1> USE DEF Adds
<1> DEFINE c == Rows(f, cols, from, r)
<1>1. ASSUME NEW k \in 1 .. cols
      PROVE  c[k] \o [q \in 1 .. count |-> Cell(parseFields(Line(f, from + r + q - 1)), k)]
               = [q \in 1 .. r + count |-> Cell(parseFields(Line(f, from + q - 1)), k)]
  <2> DEFINE s == [q \in 1 .. r |-> Cell(parseFields(Line(f, from + q - 1)), k)]
             t == [q \in 1 .. count |-> Cell(parseFields(Line(f, from + r + q - 1)), k)]
             u == [q \in 1 .. r + count |-> Cell(parseFields(Line(f, from + q - 1)), k)]
  <2>1. c[k] = s
    BY DEF Rows
  <2>2. s = [q \in 1 .. r |-> s[q]] /\ t = [q \in 1 .. count |-> t[q]]
    OBVIOUS
  <2>3. ASSUME NEW q \in 1 .. r + count
        PROVE  u[q] = IF q <= r THEN s[q] ELSE t[q - r]
    <3>1. CASE q <= r
      BY <3>1
    <3>2. CASE ~(q <= r)
      <4>1. q - r \in 1 .. count /\ from + r + (q - r) - 1 = from + q - 1
        BY <3>2
      <4> QED
        BY <3>2, <4>1
    <3> QED
      BY <3>1, <3>2
  <2>4. u = [q \in 1 .. r + count |-> u[q]]
    OBVIOUS
  <2>a. /\ count \in Nat /\ r \in Nat
    OBVIOUS
  <2> HIDE DEF s, t, u
  <2>5. s \o t = [q \in 1 .. r + count |-> IF q <= r THEN s[q] ELSE t[q - r]]
    BY <2>a, <2>2, ConcatFunctions
  <2>6. s \o t = u
    BY <2>3, <2>4, <2>5
  <2> QED
    BY <2>1, <2>6 DEF t, u
<1> HIDE DEF c
<1>2. WithRows(c, cols, f, from + r, count) =
        [k \in 1 .. cols |->
           [q \in 1 .. r + count |-> Cell(parseFields(Line(f, from + q - 1)), k)]]
  BY <1>1 DEF WithRows
<1> QED
  BY <1>2 DEF Rows, c

LEMMA RowsCleared ==
  ASSUME NEW f, NEW cols \in Nat, NEW from, NEW r \in Nat, NEW n
  PROVE  clearCache(Rows(f, cols, from, r)) = Rows(f, cols, n, 0)
<1>1. ASSUME NEW k \in 1 .. cols
      PROVE  <<>> = [q \in 1 .. 0 |-> Cell(parseFields(Line(f, n + q - 1)), k)]
  <2> DEFINE s == [q \in 1 .. 0 |-> Cell(parseFields(Line(f, n + q - 1)), k)]
  <2>1. s = [q \in 1 .. 0 |-> s[q]]
    OBVIOUS
  <2>2. \A q \in 1 .. 0 : s[q] \in {}
    OBVIOUS
  <2> HIDE DEF s
  <2>3. s \in Seq({}) /\ Len(s) = 0
    BY <2>1, <2>2, FunctionSeq
  <2>4. s = <<>>
    BY <2>3, EmptySeq
  <2> QED
    BY <2>4 DEF s
<1>2. DOMAIN Rows(f, cols, from, r) = 1 .. cols
  BY RowsShape
<1> QED
  BY <1>1, <1>2 DEF clearCache, Rows

\* Behind the last line nothing is read.
LEMMA RowsBehind ==
  ASSUME NEW f \in File, NEW cols \in Nat, NEW r \in Nat
  PROVE  Rows(f, cols, Len(f.lines), r) = [k \in 1 .. cols |-> [q \in 1 .. r |-> None]]
<1>1. ASSUME NEW q \in 1 .. r, NEW k \in 1 .. cols
      PROVE  Cell(parseFields(Line(f, Len(f.lines) + q - 1)), k) = None
  <2>1. Len(f.lines) \in Nat
    BY FileFacts
  <2>2. Len(f.lines) + q - 1 \in Nat /\ Len(f.lines) + q - 1 >= Len(f.lines)
    BY <2>1
  <2>3. Line(f, Len(f.lines) + q - 1) = <<>>
    BY <2>2, LineType
  <2>4. parseFields(Line(f, Len(f.lines) + q - 1)) = <<>>
    BY <2>3, NoFields
  <2>5. Len(<<>>) = 0 /\ ~(k <= 0)
    BY EmptySeq
  <2> QED
    BY <2>4, <2>5 DEF Cell
<1> QED
  BY <1>1 DEF Rows
-----------------------------------------------------------------------------
\* fillCache.

\* A stream at line n.
LEMMA FillReads ==
  ASSUME NEW f \in File, NEW cols \in Nat \ {0}, NEW from \in Nat,
         NEW r \in Nat, r <= CacheSize, NEW d, ~d.eof, ~d.fail, d.pos = 2 * (from + r),
         from + r <= Terminated(f), NEW last \in Int, last <= Terminated(f)
  PROVE  \E q \in r .. CacheSize :
           /\ Fill(d, Rows(f, cols, from, r), f, last).cache = Rows(f, cols, from, q)
           /\ q = CacheSize \/ from + q >= last
           /\ from + q <= Terminated(f)
           /\ Fill(d, Rows(f, cols, from, r), f, last).data.pos \in 0 .. filesize(f)
<1> DEFINE c == Rows(f, cols, from, r)
           room == CacheSize - r
           n == from + r
           count == IF n < last THEN AtMost(room, last - n) ELSE 0
           k == IF count = room THEN n + count ELSE n + count + 1
<1>0. CacheSize \in Nat \ {0}
  BY SoRParserAssumption
<1>1. Room(c) = room /\ Len(c) = cols /\ room \in Nat
  <2>1. Len(c) = cols /\ Len(c[1]) = r
    BY RowsShape
  <2> QED
    BY <2>1, <1>0 DEF Room
<1>2. d.pos \div 2 = n /\ n \in Nat
  BY <1>0
<1>3. count \in 0 .. room /\ (r + count = CacheSize \/ n + count >= last)
      /\ n + count <= Terminated(f)
  BY <1>0, <1>1, FileFacts DEF AtMost
<1>4. WithRows(c, cols, f, n, count) = Rows(f, cols, from, r + count)
  <2>1. Adds(cols, from, r, n, count, r + count)
    BY <1>0, <1>3 DEF Adds
  <2> HIDE DEF count, room, n
  <2> QED
    BY <2>1, RowsAdded, Zenon
<1>5. /\ Fill(d, c, f, last).cache = WithRows(c, cols, f, n, count)
      /\ Fill(d, c, f, last).data = IF room = 0 THEN d
                                    ELSE [pos |-> AtMost(2 * k, filesize(f)),
                                          eof |-> k > Terminated(f), fail |-> FALSE]
  <2> HIDE DEF c, room, n
  <2>1. (CASE d.eof -> 0 [] d.fail -> room
           [] OTHER -> IF n < last THEN AtMost(room, last - n) ELSE 0) = count
    OBVIOUS
  <2> HIDE DEF count
  <2>2. Fill(d, c, f, last).cache = WithRows(c, cols, f, n, count)
    BY <1>1, <1>2, <2>1, Zenon DEF Fill
  <2>3. Fill(d, c, f, last).data =
          CASE d.eof \/ d.fail \/ room = 0 -> d
            [] OTHER -> [pos |-> AtMost(2 * k, filesize(f)),
                         eof |-> k > Terminated(f), fail |-> FALSE]
    BY <1>1, <1>2, <2>1, Zenon DEF Fill
  <2>4. Fill(d, c, f, last).data = IF room = 0 THEN d
                                    ELSE [pos |-> AtMost(2 * k, filesize(f)),
                                          eof |-> k > Terminated(f), fail |-> FALSE]
    <3> HIDE DEF k
    <3> QED
      BY <2>3, Zenon
  <2> QED
    BY <2>2, <2>4
<1>6. Fill(d, c, f, last).data.pos \in 0 .. filesize(f)
  <2>1. filesize(f) \in Nat /\ 2 * n \in 0 .. filesize(f) /\ k \in Nat
    <3>1. count \in Nat /\ n \in Nat
      BY <1>1, <1>2, <1>3
    <3>2. k \in Nat
      <4> HIDE DEF count, n, room
      <4> QED
        BY <3>1
    <3> HIDE DEF k, count
    <3>3. n <= Terminated(f)
      OBVIOUS
    <3> HIDE DEF n
    <3> QED
      BY <3>1, <3>2, <3>3, FileFacts
  <2>2. AtMost(2 * k, filesize(f)) \in 0 .. filesize(f)
    <3> HIDE DEF k
    <3> QED
      BY <2>1 DEF AtMost
  <2>3. d.pos = 2 * n
    OBVIOUS
  <2> HIDE DEF k, n, c, room
  <2>4. CASE room = 0
    BY <2>4, <2>1, <2>3, <1>5
  <2>5. CASE room # 0
    BY <2>5, <2>2, <1>5
  <2> QED
    BY <2>4, <2>5
<1>7. r + count \in r .. CacheSize /\ from + (r + count) = n + count
  BY <1>0, <1>1, <1>3
<1> HIDE DEF count, n, room, k
<1>8. /\ Fill(d, c, f, last).cache = Rows(f, cols, from, r + count)
      /\ r + count = CacheSize \/ from + (r + count) >= last
      /\ from + (r + count) <= Terminated(f)
  BY <1>3, <1>4, <1>5, <1>7
<1> QED
  BY <1>6, <1>7, <1>8, Zenon DEF c

LEMMA EmptyFunction == ASSUME NEW s, s = [q \in 1 .. 0 |-> s[q]] PROVE s = <<>>
<1>1. \A q \in 1 .. 0 : s[q] \in {}
  OBVIOUS
<1>2. s \in Seq({}) /\ Len(s) = 0
  BY <1>1, FunctionSeq
<1> QED
  BY <1>2, EmptySeq

\* A stream at its end: nothing is read.
LEMMA FillEnded ==
  ASSUME NEW f, NEW cols \in Nat \ {0}, NEW from \in Nat, NEW r \in Nat,
         NEW d, d.eof, ~d.fail, NEW last
  PROVE  Fill(d, Rows(f, cols, from, r), f, last)
           = [cache |-> Rows(f, cols, from, r), data |-> d]
<1> DEFINE c == Rows(f, cols, from, r)
           n == d.pos \div 2
<1>1. Len(c) = cols
  BY RowsShape
<1>2. WithRows(c, cols, f, n, 0) = c
  <2>1. ASSUME NEW k \in 1 .. cols
        PROVE  c[k] \o [q \in 1 .. 0 |-> Cell(parseFields(Line(f, n + q - 1)), k)] = c[k]
    <3> DEFINE s == [q \in 1 .. 0 |-> Cell(parseFields(Line(f, n + q - 1)), k)]
               T == {c[k][q] : q \in 1 .. r}
    <3>1. s = [q \in 1 .. 0 |-> s[q]]
      OBVIOUS
    <3>2. c[k] = [q \in 1 .. r |-> c[k][q]] /\ \A q \in 1 .. r : c[k][q] \in T
      BY DEF Rows
    <3> HIDE DEF s, c, T
    <3>3. s = <<>>
      BY <3>1, EmptyFunction
    <3>4. c[k] \in Seq(T)
      BY <3>2, FunctionSeq
    <3>5. c[k] \o <<>> = c[k]
      BY <3>4, ConcatEmptySeq
    <3> QED
      BY <3>3, <3>5 DEF s
  <2>2. c = [k \in 1 .. cols |-> c[k]]
    BY DEF Rows
  <2> HIDE DEF c, n
  <2> QED
    BY <2>1, <2>2 DEF WithRows
<1> HIDE DEF c
<1>3. Fill(d, c, f, last).cache = WithRows(c, cols, f, n, 0)
  BY <1>1, Zenon DEF Fill
<1>4. Fill(d, c, f, last).data = d
  BY Zenon DEF Fill
<1>5. Fill(d, c, f, last) = [cache |-> Fill(d, c, f, last).cache,
                             data |-> Fill(d, c, f, last).data]
  BY DEF Fill
<1> QED
  BY <1>2, <1>3, <1>4, <1>5 DEF c

\* A stream that has failed: rows without values.
LEMMA FillFailed ==
  ASSUME NEW f \in File, numCols \in Nat \ {0}, NEW d, d.fail, NEW last
  PROVE  Fill(d, Rows(f, numCols, Len(f.lines), 0), f, last)
           = [cache |-> Rows(f, numCols, Len(f.lines), CacheSize), data |-> d]
<1> DEFINE c == Rows(f, numCols, Len(f.lines), 0)
<1>0. CacheSize \in Nat \ {0} /\ Len(f.lines) \in Nat
  BY SoRParserAssumption, FileFacts
<1>1. Room(c) = CacheSize
  <2>1. Len(c[1]) = 0
    BY RowsShape
  <2> QED
    BY <2>1, <1>0 DEF Room
<1>2. ASSUME NEW k \in 1 .. numCols
      PROVE  c[k] \o [q \in 1 .. CacheSize |-> None] = [q \in 1 .. CacheSize |-> None]
  <2> DEFINE s == [q \in 1 .. CacheSize |-> None]
  <2>1. c[k] = [q \in 1 .. 0 |-> None]
    <3>1. numCols \in Nat /\ 0 \in Nat
      OBVIOUS
    <3>2. c = [m \in 1 .. numCols |-> [q \in 1 .. 0 |-> None]]
      BY <3>1, RowsBehind, Zenon
    <3> HIDE DEF c
    <3> QED
      BY <3>2
  <2>2. /\ s = [q \in 1 .. CacheSize |-> s[q]]
        /\ c[k] = [q \in 1 .. 0 |-> c[k][q]]
    BY <2>1
  <2>3. c[k] \o s = [q \in 1 .. 0 + CacheSize |-> IF q <= 0 THEN c[k][q] ELSE s[q - 0]]
    <3> HIDE DEF s, c
    <3> QED
      BY <2>2, <1>0, ConcatFunctions
  <2>4. c[k] \o s = [q \in 1 .. CacheSize |-> s[q]]
    <3> HIDE DEF s, c
    <3>1. \A q \in 1 .. CacheSize : ~(q <= 0) /\ q - 0 = q
      BY <1>0
    <3> QED
      BY <2>3, <3>1, <1>0
  <2> QED
    BY <2>4
<1>3. Fill(d, c, f, last).cache
        = [k \in 1 .. numCols |-> c[k] \o [q \in 1 .. CacheSize |-> None]]
  <2> HIDE DEF c
  <2> QED
    BY <1>1, Zenon DEF Fill
<1>4. Fill(d, c, f, last).data = d
  <2> HIDE DEF c
  <2> QED
    BY Zenon DEF Fill
<1>5. Fill(d, c, f, last) = [cache |-> Fill(d, c, f, last).cache,
                             data |-> Fill(d, c, f, last).data]
  BY DEF Fill
<1>6. Rows(f, numCols, Len(f.lines), CacheSize)
        = [k \in 1 .. numCols |-> [q \in 1 .. CacheSize |-> None]]
  BY <1>0, RowsBehind
<1>7. Fill(d, c, f, last).cache = Rows(f, numCols, Len(f.lines), CacheSize)
  <2> HIDE DEF c
  <2> QED
    BY <1>2, <1>3, <1>6
<1> QED
  BY <1>4, <1>5, <1>7
-----------------------------------------------------------------------------
\* Windows.

LEMMA Division ==
  ASSUME NEW a \in Nat, NEW b \in Nat \ {0}
  PROVE  /\ a \div b \in Nat
         /\ (a \div b) * b <= a /\ a < (a \div b) * b + b
         /\ a % b = a - (a \div b) * b
OBVIOUS

LEMMA Products ==
  ASSUME NEW a \in Int, NEW b \in Int, NEW p \in Nat \ {0}
  PROVE  /\ a * p \in Int
         /\ (a + b) * p = a * p + b * p
         /\ (a + 1) * p = a * p + p
         /\ (a - 1) * p = a * p - p
OBVIOUS

LEMMA Ordered ==
  ASSUME NEW a \in Int, NEW b \in Int, NEW p \in Nat \ {0}, a < b
  PROVE  a * p + p <= b * p
<1>1. b * p = a * p + (b - a) * p
  OBVIOUS
<1>2. (b - a) * p >= p
  OBVIOUS
<1> QED
  BY <1>1, <1>2

\* The positions of n windows, the first of which starts with line first.
Windows(first, n) == [w \in 1 .. n |-> 2 * (first + (w - 1) * CacheSize)]

Base(f, seen) == IF seen[1] = -1 THEN Len(f.lines) ELSE seen[1] \div 2

LEMMA WindowsFacts ==
  ASSUME NEW first \in Nat, NEW n \in Nat \ {0}
  PROVE  /\ Len(Windows(first, n)) = n
         /\ \A w \in 1 .. n : /\ first + (w - 1) * CacheSize \in Nat
                              /\ Windows(first, n)[w] = 2 * (first + (w - 1) * CacheSize)
                              /\ Windows(first, n)[w] # -1
                              /\ Windows(first, n)[w] \div 2 = first + (w - 1) * CacheSize
         /\ \A f : Base(f, Windows(first, n)) = first
         /\ Windows(first, n)[1] # -1
<1> DEFINE s == Windows(first, n)
<1>0. CacheSize \in Nat \ {0}
  BY SoRParserAssumption
<1>1. ASSUME NEW w \in 1 .. n
      PROVE  /\ first + (w - 1) * CacheSize \in Nat
             /\ s[w] = 2 * (first + (w - 1) * CacheSize)
             /\ s[w] # -1 /\ s[w] \div 2 = first + (w - 1) * CacheSize
  <2>1. s[w] = 2 * (first + (w - 1) * CacheSize)
    BY DEF Windows
  <2> DEFINE p == (w - 1) * CacheSize
  <2>2. p \in Nat
    BY <1>0
  <2> HIDE DEF p, s
  <2>3. first + p \in Nat /\ 2 * (first + p) # -1 /\ (2 * (first + p)) \div 2 = first + p
    BY <2>2
  <2> QED
    BY <2>1, <2>3 DEF p
<1>2. s = [w \in 1 .. n |-> s[w]]
  BY DEF Windows
<1> HIDE DEF s
<1>3. Len(s) = n
  BY <1>2, FunctionSeq
<1>4. 1 \in 1 .. n /\ (1 - 1) * CacheSize = 0
  BY <1>0
<1>5. s[1] \div 2 = first /\ s[1] # -1
  BY <1>1, <1>4
<1>6. \A f : Base(f, s) = first
  BY <1>5 DEF Base
<1> QED
  BY <1>1, <1>3, <1>5, <1>6 DEF s

\* Windows up to the last newline, one of which is at the offset.
Reached(f, seen, offset) ==
  \/ seen = <<-1>> /\ offset = 0
  \/ \E first \in Nat : \E n \in Nat \ {0} :
       /\ seen = Windows(first, n)
       /\ first + (n - 1) * CacheSize <= Terminated(f)
       /\ \E w \in 0 .. n - 1 : offset = w * CacheSize

\* The rows from the offset on, as many as there is room for, or up to the end
\* of the range.  The line without a newline is only in a window that was
\* filled with the sample.
Shown(f, cols, last, seen, offset, c) ==
  \E r \in 0 .. CacheSize :
    /\ c = Rows(f, cols, Base(f, seen) + offset, r)
    /\ r = CacheSize \/ Base(f, seen) + offset + r >= last
    /\ \/ seen[1] = -1
       \/ Base(f, seen) + offset + r <= Terminated(f)
       \/ Terminated(f) < SchemaLines

Good(f, cols, last, w) ==
  /\ Reached(f, w.seen, w.offset)
  /\ Shown(f, cols, last, w.seen, w.offset, w.cache)
  /\ w.data.pos \in 0 .. filesize(f)

Held == [seen |-> seenCaches, offset |-> cacheOffset, cache |-> cache, data |-> data]

LEMMA MinusOne == Len(<<-1>>) = 1 /\ <<-1>>[1] = -1 /\ \A f : Base(f, <<-1>>) = Len(f.lines)
  BY DEF Base

LEMMA LastRow ==
  ASSUME file \in File, dataEnd \in Nat
  PROVE  lastRow \in Int /\ lastRow <= Terminated(file)
<1>1. Terminated(file) \in Nat
  BY FileFacts
<1>2. (dataEnd - 1) \div 2 \in Int
  OBVIOUS
<1> QED
  BY <1>1, <1>2 DEF lastRow, LastLine, AtMost

(* What loadCache has met, when it looks for a window.                     *)
LEMMA MetWindows ==
  ASSUME file \in File, dataEnd \in Nat, NEW num \in Nat,
         NEW first \in Nat, NEW n \in Nat \ {0}, seenCaches = Windows(first, n),
         first + (n - 1) * CacheSize <= Terminated(file)
  PROVE  \E m \in Nat \ {0} :
           /\ Met(num) = Windows(first, m)
           /\ first + (m - 1) * CacheSize <= Terminated(file)
           /\ num < m \/ first + (m - 1) * CacheSize + CacheSize > lastRow
<1> DEFINE T == Terminated(file)
           from == seenCaches[Len(seenCaches)] \div 2
           more == IF seenCaches[Len(seenCaches)] = -1 \/ lastRow < from THEN 0
                   ELSE (lastRow - from) \div CacheSize
           new == AtMost(more, num + 1 - Len(seenCaches))
           old == Windows(first, n)
<1>0. CacheSize \in Nat \ {0} /\ T \in Nat /\ lastRow \in Int /\ lastRow <= T
  BY SoRParserAssumption, FileFacts, LastRow
<1>1. /\ Len(seenCaches) = n /\ seenCaches[n] # -1
      /\ from = first + (n - 1) * CacheSize /\ from \in Nat
  <2>1. n \in 1 .. n
    OBVIOUS
  <2> HIDE DEF T, more, new, from, old
  <2>2. Len(Windows(first, n)) = n
    BY WindowsFacts
  <2>3. /\ Windows(first, n)[n] # -1 /\ first + (n - 1) * CacheSize \in Nat
        /\ Windows(first, n)[n] \div 2 = first + (n - 1) * CacheSize
    BY <2>1, WindowsFacts
  <2> QED
    BY <2>2, <2>3 DEF from
<1>2. Met(num) = IF num < n THEN seenCaches
                 ELSE seenCaches \o [w \in 1 .. new |-> 2 * (from + w * CacheSize)]
  <2> HIDE DEF from, more, new
  <2> QED
    BY <1>1 DEF Met, from, more, new
<1>3. CASE num < n
  BY <1>2, <1>3
<1>4. CASE ~(num < n)
  <2>1. more = IF lastRow < from THEN 0 ELSE (lastRow - from) \div CacheSize
    <3> HIDE DEF from
    <3> QED
      BY <1>1 DEF more
  <2>2. more \in Nat /\ from + more * CacheSize <= T
        /\ from + more * CacheSize + CacheSize > lastRow
    <3> HIDE DEF from, more, T
    <3>1. CASE lastRow < from
      <4>1. more = 0 /\ more * CacheSize = 0
        BY <2>1, <3>1, <1>0
      <4>2. from <= T
        BY <1>1 DEF T
      <4> QED
        BY <4>1, <4>2, <3>1, <1>0, <1>1
    <3>2. CASE ~(lastRow < from)
      <4> DEFINE a == lastRow - from
      <4>1. a \in Nat /\ a + from = lastRow
        BY <3>2, <1>0, <1>1
      <4>2. more = a \div CacheSize
        BY <2>1, <3>2
      <4> HIDE DEF a
      <4>3. more \in Nat /\ more * CacheSize <= a /\ a < more * CacheSize + CacheSize
        BY <4>1, <4>2, <1>0, Division
      <4>4. more * CacheSize \in Int
        BY <4>3, <1>0
      <4> QED
        BY <4>1, <4>3, <4>4, <1>0, <1>1
    <3> QED
      BY <3>1, <3>2
  <2> HIDE DEF from, more, T
  <2>3. new \in Nat /\ new <= more /\ (n + new = num + 1 \/ new = more)
    BY <2>2, <1>1, <1>4 DEF AtMost
  <2> HIDE DEF new
  <2> DEFINE s == [w \in 1 .. new |-> 2 * (from + w * CacheSize)]
             u == [w \in 1 .. n + new |-> 2 * (first + (w - 1) * CacheSize)]
  <2>4. ASSUME NEW w \in 1 .. n + new
        PROVE  u[w] = IF w <= n THEN old[w] ELSE s[w - n]
    <3>1. CASE w <= n
      <4>1. w \in 1 .. n
        BY <3>1
      <4> QED
        BY <3>1, <4>1 DEF Windows
    <3>2. CASE ~(w <= n)
      <4>1. w - n \in 1 .. new
        BY <3>2, <2>3
      <4>2. (w - 1) * CacheSize = (n - 1) * CacheSize + (w - n) * CacheSize
        <5>1. w - 1 = (n - 1) + (w - n)
          OBVIOUS
        <5> QED
          BY <1>0, <5>1, Products
      <4>3. first + (w - 1) * CacheSize = from + (w - n) * CacheSize
        BY <4>2, <1>1, <1>0
      <4> QED
        BY <3>2, <4>1, <4>3
    <3> QED
      BY <3>1, <3>2
  <2>5. /\ old = [w \in 1 .. n |-> old[w]] /\ s = [w \in 1 .. new |-> s[w]]
        /\ u = [w \in 1 .. n + new |-> u[w]]
    BY DEF Windows
  <2>6. Met(num) = old \o s
    BY <1>2, <1>4
  <2>7. u = Windows(first, n + new)
    BY DEF Windows
  <2> HIDE DEF old, s, u
  <2>8. old \o s = [w \in 1 .. n + new |-> IF w <= n THEN old[w] ELSE s[w - n]]
    BY <2>3, <2>5, ConcatFunctions
  <2>9. Met(num) = Windows(first, n + new)
    BY <2>4, <2>5, <2>6, <2>7, <2>8
  <2> DEFINE m == n + new
  <2>10. m \in Nat \ {0}
    BY <2>3
  <2>11. first + (m - 1) * CacheSize = from + new * CacheSize
    <3>1. m - 1 = (n - 1) + new
      BY <2>3
    <3>2. (m - 1) * CacheSize = (n - 1) * CacheSize + new * CacheSize
      BY <3>1, <2>3, <1>0, Products
    <3> QED
      BY <3>2, <1>0, <1>1, <2>3
  <2>12. from + new * CacheSize <= T
    <3>1. new * CacheSize <= more * CacheSize
      BY <2>3, <2>2, <1>0, Ordered
    <3> QED
      BY <3>1, <2>2, <2>3, <1>0, <1>1
  <2>13. num < m \/ from + new * CacheSize + CacheSize > lastRow
    BY <2>2, <2>3
  <2> HIDE DEF m
  <2> QED
    BY <2>9, <2>10, <2>11, <2>12, <2>13 DEF m, T
<1> QED
  BY <1>3, <1>4
-----------------------------------------------------------------------------
\* loadCache and seekRow.

\* A window that is filled from its first line.
LEMMA FillWindow ==
  ASSUME file \in File, numCols \in Nat \ {0},
         NEW start \in Nat, start <= Terminated(file),
         NEW last \in Int, last <= Terminated(file),
         NEW d, ~d.eof, ~d.fail, d.pos = 2 * start
  PROVE  \E r \in 0 .. CacheSize :
           /\ Fill(d, Rows(file, numCols, start, 0), file, last).cache
                = Rows(file, numCols, start, r)
           /\ r = CacheSize \/ start + r >= last
           /\ start + r <= Terminated(file)
           /\ Fill(d, Rows(file, numCols, start, 0), file, last).data.pos
                \in 0 .. filesize(file)
<1>1. /\ 0 \in Nat /\ 0 <= CacheSize /\ d.pos = 2 * (start + 0)
      /\ start + 0 <= Terminated(file)
  BY SoRParserAssumption
<1> QED
  BY <1>1, FillReads

LEMMA ClearedWindow ==
  ASSUME numCols \in Nat, NEW f, NEW last, NEW seen, NEW offset,
         Shown(f, numCols, last, seen, offset, cache), NEW start
  PROVE  clearCache(cache) = Rows(f, numCols, start, 0)
<1>1. PICK r \in 0 .. CacheSize : cache = Rows(f, numCols, Base(f, seen) + offset, r)
  BY DEF Shown
<1>2. r \in Nat
  BY SoRParserAssumption
<1> QED
  BY <1>1, <1>2, RowsCleared

(* The window that loadCache loads is the one asked for, or the last one   *)
(* if that starts behind the range.                                        *)
LEMMA LoadGood ==
  ASSUME file \in File, dataEnd \in Nat, numCols \in Nat \ {0},
         Good(file, numCols, lastRow, Held), NEW num \in Nat
  PROVE  /\ Good(file, numCols, lastRow, loadCache(num))
         /\ Base(file, loadCache(num).seen) = Base(file, seenCaches)
         /\ loadCache(num).seen[1] = seenCaches[1]
         /\ \/ loadCache(num).offset = num * CacheSize
            \/ /\ loadCache(num).offset + CacheSize <= num * CacheSize
               /\ Base(file, seenCaches) + loadCache(num).offset + CacheSize >= lastRow
<1> DEFINE here == AtMost(num, Len(Met(num)) - 1)
           full == Fill(Seek(data, Met(num)[here + 1]), clearCache(cache), file, lastRow)
           w == loadCache(num)
<1>0. /\ CacheSize \in Nat \ {0} /\ Terminated(file) \in Nat /\ Len(file.lines) \in Nat
      /\ lastRow \in Int /\ lastRow <= Terminated(file)
      /\ Terminated(file) <= Len(file.lines)
  BY SoRParserAssumption, FileFacts, LastRow
<1>1. /\ Reached(file, seenCaches, cacheOffset)
      /\ Shown(file, numCols, lastRow, seenCaches, cacheOffset, cache)
      /\ data.pos \in 0 .. filesize(file)
  BY DEF Good, Held
<1>2. w = [seen |-> Met(num), offset |-> here * CacheSize,
           cache |-> full.cache, data |-> full.data]
  BY Zenon DEF loadCache
<1>3. /\ w.seen = Met(num) /\ w.offset = here * CacheSize
      /\ w.cache = full.cache /\ w.data = full.data
  <2> HIDE DEF w, here, full
  <2> QED
    BY <1>2
<1>4. CASE seenCaches = <<-1>>
  <2>1. Met(num) = <<-1>>
    <3> DEFINE from == seenCaches[Len(seenCaches)] \div 2
               more == IF seenCaches[Len(seenCaches)] = -1 \/ lastRow < from THEN 0
                       ELSE (lastRow - from) \div CacheSize
               new == AtMost(more, num + 1 - Len(seenCaches))
               s == [v \in 1 .. new |-> 2 * (from + v * CacheSize)]
    <3>1. Met(num) = IF num < Len(seenCaches) THEN seenCaches ELSE seenCaches \o s
      BY Zenon DEF Met
    <3>2. Len(seenCaches) = 1 /\ seenCaches[Len(seenCaches)] = -1
      BY <1>4, MinusOne
    <3>3. CASE num < 1
      <4> HIDE DEF s
      <4> QED
        BY <3>1, <3>2, <3>3, <1>4
    <3>4. CASE ~(num < 1)
      <4>1. more = 0
        BY <3>2
      <4>2. new = 0
        BY <4>1, <3>2, <3>4 DEF AtMost
      <4>3. s = [v \in 1 .. 0 |-> s[v]]
        BY <4>2
      <4> HIDE DEF s
      <4>5. s = <<>>
        BY <4>3, EmptyFunction
      <4>6. <<-1>> \o <<>> = <<-1>>
        <5>1. <<-1>> \in Seq(Int)
          OBVIOUS
        <5> QED
          BY <5>1, ConcatEmptySeq
      <4> QED
        BY <3>1, <3>2, <3>4, <4>5, <4>6, <1>4
    <3> QED
      BY <3>3, <3>4
  <2>2. here = 0
    BY <2>1, MinusOne DEF AtMost
  <2>3. Seek(data, Met(num)[here + 1]) = [pos |-> data.pos, eof |-> FALSE, fail |-> TRUE]
    <3> HIDE DEF here, w, full
    <3>1. Met(num)[here + 1] = -1
      BY <2>1, <2>2, MinusOne
    <3> QED
      BY <3>1 DEF Seek
  <2> DEFINE d == Seek(data, Met(num)[here + 1])
  <2>4. d.fail /\ d.pos = data.pos
    <3> HIDE DEF d
    <3> QED
      BY <2>3 DEF d
  <2>5. clearCache(cache) = Rows(file, numCols, Len(file.lines), 0)
    BY <1>1, ClearedWindow
  <2> HIDE DEF d, here, w
  <2>6. full = [cache |-> Rows(file, numCols, Len(file.lines), CacheSize), data |-> d]
    BY <2>4, <2>5, FillFailed DEF d
  <2>7. full.cache = Rows(file, numCols, Len(file.lines), CacheSize) /\ full.data = d
    <3> HIDE DEF full
    <3> QED
      BY <2>6
  <2> HIDE DEF full
  <2>8. w.offset = 0
    BY <1>0, <1>3, <2>2
  <2>9. w.seen = <<-1>>
    BY <1>3, <2>1
  <2>10. Base(file, <<-1>>) = Len(file.lines) /\ <<-1>>[1] = -1
    BY MinusOne
  <2>11. Shown(file, numCols, lastRow, w.seen, w.offset, w.cache)
    <3>1. Len(file.lines) + 0 = Len(file.lines) /\ CacheSize \in 0 .. CacheSize
      BY <1>0
    <3> QED
      BY <3>1, <1>3, <2>7, <2>8, <2>9, <2>10 DEF Shown
  <2>12. Good(file, numCols, lastRow, w)
    BY <1>1, <1>3, <2>4, <2>7, <2>8, <2>9, <2>11 DEF Good, Reached
  <2>13. \/ w.offset = num * CacheSize
         \/ /\ w.offset + CacheSize <= num * CacheSize
            /\ Base(file, seenCaches) + w.offset + CacheSize >= lastRow
    <3>1. CASE num = 0
      BY <3>1, <2>8, <1>0
    <3>2. CASE num # 0
      <4>1. 0 * CacheSize + CacheSize <= num * CacheSize
        BY <3>2, <1>0, Ordered
      <4> QED
        BY <4>1, <1>0, <1>4, <2>8, <2>10
    <3> QED
      BY <3>1, <3>2
  <2> QED
    BY <2>9, <2>12, <2>13, <1>4 DEF w
<1>5. ASSUME NEW first \in Nat, NEW n \in Nat \ {0}, seenCaches = Windows(first, n),
             first + (n - 1) * CacheSize <= Terminated(file)
      PROVE  /\ Good(file, numCols, lastRow, w)
             /\ Base(file, w.seen) = Base(file, seenCaches) /\ w.seen[1] = seenCaches[1]
             /\ \/ w.offset = num * CacheSize
                \/ /\ w.offset + CacheSize <= num * CacheSize
                   /\ Base(file, seenCaches) + w.offset + CacheSize >= lastRow
  <2>1. PICK m \in Nat \ {0} :
          /\ Met(num) = Windows(first, m)
          /\ first + (m - 1) * CacheSize <= Terminated(file)
          /\ num < m \/ first + (m - 1) * CacheSize + CacheSize > lastRow
    BY <1>5, MetWindows
  <2>2. /\ Len(Windows(first, m)) = m /\ Windows(first, m)[1] # -1
        /\ Base(file, Windows(first, m)) = first
        /\ Base(file, Windows(first, n)) = first
    BY WindowsFacts
  <2>3. here = AtMost(num, m - 1)
    BY <2>1, <2>2
  <2>4. here \in 0 .. m - 1 /\ here <= num /\ (here = num \/ (here = m - 1 /\ num >= m))
    <3> HIDE DEF here
    <3> QED
      BY <2>3 DEF AtMost
  <2> DEFINE start == first + here * CacheSize
  <2>5. here + 1 \in 1 .. m /\ (here + 1) - 1 = here
    <3> HIDE DEF here
    <3> QED
      BY <2>4
  <2>6. /\ start \in Nat /\ Met(num)[here + 1] = 2 * start /\ Met(num)[here + 1] # -1
    <3> DEFINE v == here + 1
    <3>1. v \in 1 .. m /\ v - 1 = here
      BY <2>5
    <3> HIDE DEF v, here
    <3>2. /\ first + (v - 1) * CacheSize \in Nat
          /\ Windows(first, m)[v] = 2 * (first + (v - 1) * CacheSize)
          /\ Windows(first, m)[v] # -1
      BY <3>1, WindowsFacts
    <3> QED
      BY <2>1, <3>1, <3>2 DEF v
  <2>7. start <= Terminated(file)
    <3> HIDE DEF here
    <3>1. CASE here = m - 1
      BY <3>1, <2>1
    <3>2. CASE here < m - 1
      <4>1. here * CacheSize + CacheSize <= (m - 1) * CacheSize
        BY <2>4, <3>2, <1>0, Ordered
      <4>2. here * CacheSize \in Int /\ (m - 1) * CacheSize \in Int
        BY <2>4, <1>0
      <4> QED
        BY <4>1, <4>2, <1>0, <2>1
    <3> QED
      BY <3>1, <3>2, <2>4
  <2> DEFINE d == Seek(data, Met(num)[here + 1])
  <2>8. ~d.eof /\ ~d.fail /\ d.pos = 2 * start
    <3>1. d = [pos |-> 2 * start, eof |-> FALSE, fail |-> FALSE]
      <4> HIDE DEF here, start
      <4> QED
        BY <2>6 DEF Seek
    <3> HIDE DEF d, start
    <3> QED
      BY <3>1
  <2>9. clearCache(cache) = Rows(file, numCols, start, 0)
    BY <1>1, ClearedWindow
  <2> HIDE DEF d, start, w
  <2>10. PICK r \in 0 .. CacheSize :
           /\ Fill(d, Rows(file, numCols, start, 0), file, lastRow).cache
                = Rows(file, numCols, start, r)
           /\ r = CacheSize \/ start + r >= lastRow
           /\ start + r <= Terminated(file)
           /\ Fill(d, Rows(file, numCols, start, 0), file, lastRow).data.pos
                \in 0 .. filesize(file)
    BY <1>0, <2>6, <2>7, <2>8, FillWindow
  <2>11. /\ full.cache = Rows(file, numCols, start, r)
         /\ full.data.pos \in 0 .. filesize(file)
    BY <2>9, <2>10 DEF d
  <2> HIDE DEF full
  <2>12. /\ w.seen = Windows(first, m) /\ w.cache = Rows(file, numCols, start, r)
         /\ w.data.pos \in 0 .. filesize(file) /\ Base(file, w.seen) + w.offset = start
    BY <1>3, <2>1, <2>2, <2>11 DEF start
  <2>13. Shown(file, numCols, lastRow, w.seen, w.offset, w.cache)
    BY <2>10, <2>12 DEF Shown
  <2>14. Reached(file, w.seen, w.offset)
    <3> HIDE DEF here
    <3> QED
      BY <1>3, <2>1, <2>4, <2>12 DEF Reached
  <2>15. Good(file, numCols, lastRow, w)
    BY <2>12, <2>13, <2>14 DEF Good
  <2>16. w.seen[1] = seenCaches[1] /\ Base(file, w.seen) = Base(file, seenCaches)
    <3>1. 1 \in 1 .. m /\ 1 \in 1 .. n
      OBVIOUS
    <3>2. Windows(first, m)[1] = Windows(first, n)[1]
      BY <3>1 DEF Windows
    <3> QED
      BY <3>2, <2>2, <2>12, <1>5
  <2>17. \/ w.offset = num * CacheSize
         \/ /\ w.offset + CacheSize <= num * CacheSize
            /\ Base(file, seenCaches) + w.offset + CacheSize >= lastRow
    <3> HIDE DEF here
    <3>1. CASE here = num
      BY <3>1, <1>3
    <3>2. CASE here = m - 1 /\ num >= m
      <4>1. (m - 1) * CacheSize + CacheSize <= num * CacheSize
        BY <3>2, <1>0, Ordered
      <4>2. first + (m - 1) * CacheSize + CacheSize > lastRow
        BY <2>1, <3>2
      <4>3. w.offset = (m - 1) * CacheSize
        BY <1>3, <3>2
      <4>4. Base(file, seenCaches) = first
        BY <2>2, <1>5
      <4>5. (m - 1) * CacheSize \in Int
        BY <1>0
      <4> QED
        BY <4>1, <4>2, <4>3, <4>4, <4>5, <1>0
    <3> QED
      BY <3>1, <3>2, <2>4
  <2> QED
    BY <2>15, <2>16, <2>17
<1> HIDE DEF w
<1> QED
  BY <1>1, <1>4, <1>5 DEF Reached, w
-----------------------------------------------------------------------------
(* seekRow shows the row that is asked for, or the last window there is.   *)
LEMMA SeekGood ==
  ASSUME file \in File, dataEnd \in Nat, numCols \in Nat \ {0},
         Good(file, numCols, lastRow, Held), NEW at \in Nat
  PROVE  /\ Good(file, numCols, lastRow, seekRow(at))
         /\ Base(file, seekRow(at).seen) = Base(file, seenCaches)
         /\ seekRow(at).seen[1] = seenCaches[1]
         /\ \/ seekRow(at).offset = (at \div CacheSize) * CacheSize
            \/ /\ seekRow(at).offset + CacheSize <= (at \div CacheSize) * CacheSize
               /\ Base(file, seenCaches) + seekRow(at).offset + CacheSize >= lastRow
<1>1. at \div CacheSize \in Nat
  BY SoRParserAssumption, Division
<1>2. CASE (at \div CacheSize) * CacheSize # cacheOffset
  <2>1. seekRow(at) = loadCache(at \div CacheSize)
    BY <1>2 DEF seekRow
  <2> DEFINE num == at \div CacheSize
  <2>2. num \in Nat /\ seekRow(at) = loadCache(num)
    BY <1>1, <2>1
  <2> HIDE DEF num
  <2>3. /\ Good(file, numCols, lastRow, loadCache(num))
        /\ Base(file, loadCache(num).seen) = Base(file, seenCaches)
        /\ loadCache(num).seen[1] = seenCaches[1]
        /\ \/ loadCache(num).offset = num * CacheSize
           \/ /\ loadCache(num).offset + CacheSize <= num * CacheSize
              /\ Base(file, seenCaches) + loadCache(num).offset + CacheSize >= lastRow
    BY <2>2, LoadGood
  <2> QED
    BY <2>2, <2>3 DEF num
<1>3. CASE ~((at \div CacheSize) * CacheSize # cacheOffset)
  <2>1. seekRow(at) = Held
    BY <1>3 DEF seekRow, Held
  <2>2. Held.seen = seenCaches /\ Held.offset = cacheOffset
    BY DEF Held
  <2> QED
    BY <1>3, <2>1, <2>2
<1> QED
  BY <1>2, <1>3

LEMMA BaseNat ==
  ASSUME NEW f \in File, NEW seen, NEW offset, Reached(f, seen, offset)
  PROVE  Base(f, seen) \in Nat /\ offset \in Nat /\ (offset = 0 \/ seen # <<-1>>)
<1>1. CASE seen = <<-1>> /\ offset = 0
  BY <1>1, MinusOne, FileFacts
<1>2. ASSUME NEW first \in Nat, NEW n \in Nat \ {0}, seen = Windows(first, n),
             NEW w \in 0 .. n - 1, offset = w * CacheSize
      PROVE  Base(f, seen) \in Nat /\ offset \in Nat /\ seen # <<-1>>
  <2>1. Base(f, seen) = first /\ seen[1] # -1
    BY <1>2, WindowsFacts
  <2>2. w * CacheSize \in Nat
    BY SoRParserAssumption
  <2> QED
    BY <1>2, <2>1, <2>2, MinusOne
<1> QED
  BY <1>1, <1>2 DEF Reached

(* What seekRow shows of the row that is asked for.                        *)
LEMMA RowShown ==
  ASSUME file \in File, dataEnd \in Nat, numCols \in Nat \ {0},
         Good(file, numCols, lastRow, Held), NEW at \in Nat
  PROVE  LET w == seekRow(at)
             from == Base(file, seenCaches)
         IN  /\ w.offset + Len(w.cache[1]) \in Nat
             /\ at >= w.offset + Len(w.cache[1]) => from + at >= lastRow
             /\ at < w.offset + Len(w.cache[1]) =>
                  /\ \A col \in 1 .. numCols :
                       w.cache[col][(at % CacheSize) + 1]
                         = Cell(parseFields(Line(file, from + at)), col)
                  /\ \/ seenCaches[1] = -1
                     \/ from + at < Terminated(file)
                     \/ Terminated(file) < SchemaLines
<1> DEFINE w == seekRow(at)
           from == Base(file, seenCaches)
           num == at \div CacheSize
<1>0. CacheSize \in Nat \ {0} /\ lastRow \in Int /\ Terminated(file) \in Nat
  BY SoRParserAssumption, FileFacts, LastRow
<1>1. /\ Good(file, numCols, lastRow, w)
      /\ Base(file, w.seen) = from /\ w.seen[1] = seenCaches[1]
      /\ \/ w.offset = num * CacheSize
         \/ w.offset + CacheSize <= num * CacheSize /\ from + w.offset + CacheSize >= lastRow
  BY SeekGood
<1>2. num * CacheSize <= at /\ at < num * CacheSize + CacheSize
      /\ at % CacheSize = at - num * CacheSize /\ num * CacheSize \in Int
  <2>1. num \in Nat
    BY <1>0, Division
  <2> QED
    BY <1>0, <2>1, Division
<1> HIDE DEF w, num
<1>3. from \in Nat /\ w.offset \in Nat
  BY <1>1, BaseNat DEF Good
<1>4. PICK r \in 0 .. CacheSize :
        /\ w.cache = Rows(file, numCols, from + w.offset, r)
        /\ r = CacheSize \/ from + w.offset + r >= lastRow
        /\ \/ seenCaches[1] = -1
           \/ from + w.offset + r <= Terminated(file)
           \/ Terminated(file) < SchemaLines
  BY <1>1 DEF Good, Shown
<1> HIDE DEF from
<1>5. Len(w.cache[1]) = r
  <2> DEFINE line == from + w.offset
  <2>1. w.cache = Rows(file, numCols, line, r) /\ 1 \in 1 .. numCols
        /\ r \in Nat /\ numCols \in Nat
    BY <1>0, <1>4
  <2> HIDE DEF line
  <2> QED
    BY <2>1, RowsShape
<1>6. ASSUME at >= w.offset + r PROVE from + at >= lastRow
  BY <1>0, <1>1, <1>2, <1>3, <1>4, <1>6
<1>7. ASSUME at < w.offset + r
      PROVE  /\ \A col \in 1 .. numCols :
                  w.cache[col][(at % CacheSize) + 1]
                    = Cell(parseFields(Line(file, from + at)), col)
             /\ \/ seenCaches[1] = -1
                \/ from + at < Terminated(file)
                \/ Terminated(file) < SchemaLines
  <2>1. w.offset = num * CacheSize
    BY <1>0, <1>1, <1>2, <1>3, <1>7
  <2> DEFINE q == (at % CacheSize) + 1
             line == from + w.offset
  <2>2. q \in 1 .. r /\ line + q - 1 = from + at
    BY <1>0, <1>2, <1>3, <1>7, <2>1
  <2>3. ASSUME NEW col \in 1 .. numCols
        PROVE  w.cache[col][q] = Cell(parseFields(Line(file, line + q - 1)), col)
    <3> HIDE DEF q, line
    <3>1. w.cache = Rows(file, numCols, line, r)
      BY <1>4 DEF line
    <3> QED
      BY <3>1, <2>2 DEF Rows
  <2>4. \/ seenCaches[1] = -1
        \/ from + at < Terminated(file)
        \/ Terminated(file) < SchemaLines
    BY <1>0, <1>3, <1>4, <1>7
  <2> HIDE DEF q, line
  <2>5. \A col \in 1 .. numCols : w.cache[col][q] = Cell(parseFields(Line(file, from + at)), col)
    BY <2>2, <2>3
  <2> QED
    BY <2>4, <2>5 DEF q
<1>8. w.offset + r \in Nat
  BY <1>3
<1> QED
  BY <1>5, <1>6, <1>7, <1>8, Zenon DEF w, from
-----------------------------------------------------------------------------
\* The invariant of the parser.

Unopened ==
  /\ numCols = 0 /\ colTypes = <<>> /\ cache = <<>> /\ cacheOffset = 0
  /\ data.pos = 0 /\ answer = NoAnswer

Opened ==
  /\ numCols \in Nat \ {0} /\ Len(colTypes) = numCols
  /\ \A k \in 1 .. numCols : colTypes[k] \in BOOL .. TEXT
  /\ Good(file, numCols, lastRow, Held)
  /\ CellOfLine /\ RowFound

ParserInv ==
  /\ state \in {"new", "open", "crashed", "thrown"}
  /\ dataStart \in Nat /\ dataSize \in Nat /\ dataEnd \in Nat
  /\ state = "new" => /\ file = [lines |-> <<>>, newline |-> FALSE]
                      /\ dataStart = 0 /\ dataEnd = 0
  /\ state # "new" => file \in File
  /\ state # "open" => Unopened
  /\ state = "open" => Opened

LEMMA ParserInitially == Init => ParserInv
  BY DEF Init, ParserInv, Unopened

LEMMA Types == ParserInv => TypeOK
<1> SUFFICES ASSUME ParserInv PROVE TypeOK
  OBVIOUS
<1>1. CASE state # "open"
  <2>1. filesize(file) \in Nat
    <3>1. CASE state = "new"
      <4>1. file.lines = <<>> /\ ~file.newline /\ Len(<<>>) = 0
        BY <3>1, EmptySeq DEF ParserInv
      <4> QED
        BY <4>1 DEF filesize, Terminated
    <3>2. CASE state # "new"
      BY <3>2, FileFacts DEF ParserInv
    <3> QED
      BY <3>1, <3>2
  <2>2. Len(<<>>) = 0 /\ 1 .. 0 = {}
    BY EmptySeq
  <2>3. file \in File \/ state = "new"
    BY DEF ParserInv
  <2>4. Unopened /\ state \in {"new", "open", "crashed", "thrown"}
    BY <1>1 DEF ParserInv
  <2> QED
    BY <2>1, <2>2, <2>3, <2>4 DEF TypeOK, Unopened
<1>2. CASE state = "open"
  <2>1. file \in File /\ Opened
    BY <1>2 DEF ParserInv
  <2>2. /\ Shown(file, numCols, lastRow, seenCaches, cacheOffset, cache)
        /\ Reached(file, seenCaches, cacheOffset) /\ data.pos \in 0 .. filesize(file)
    BY <2>1 DEF Opened, Good, Held
  <2>3. cacheOffset \in Nat /\ Base(file, seenCaches) \in Nat
    BY <2>1, <2>2, BaseNat
  <2> DEFINE line == Base(file, seenCaches) + cacheOffset
  <2>4. PICK r \in 0 .. CacheSize : cache = Rows(file, numCols, line, r)
    BY <2>2 DEF Shown
  <2>5. r \in Nat /\ numCols \in Nat /\ r <= CacheSize /\ 1 \in 1 .. numCols
    BY <2>1, SoRParserAssumption DEF Opened
  <2> HIDE DEF line
  <2>6. /\ Len(cache) = numCols
        /\ \A k \in 1 .. numCols : Len(cache[k]) = r
    BY <2>4, <2>5, RowsShape
  <2>7. \A k \in 1 .. numCols : Len(cache[k]) = Len(cache[1]) /\ Len(cache[k]) <= CacheSize
    BY <2>5, <2>6
  <2>8. /\ Len(colTypes) = numCols
        /\ \A k \in 1 .. numCols : colTypes[k] \in BOOL .. TEXT
    BY <2>1 DEF Opened
  <2> QED
    BY <1>2, <2>1, <2>2, <2>3, <2>5, <2>6, <2>7, <2>8 DEF TypeOK
<1> QED
  BY <1>1, <1>2

(* What getColIdx answers.                                                 *)
LEMMA Answered ==
  ASSUME ParserInv, NEW at \in Nat, NEW col \in Nat \ {0}, GetColIdx(col, at)
  PROVE  /\ ParserInv'
         /\ answer'.is \in {"cell", "no row", "no column"}
         /\ seenCaches'[1] = seenCaches[1]
         /\ answer'.is = "cell" =>
              /\ answer'.cell = Cell(parseFields(Line(file, Base(file, seenCaches) + at)), col)
              /\ \/ seenCaches[1] = -1
                 \/ Base(file, seenCaches) + at < Terminated(file)
                 \/ Terminated(file) < SchemaLines
         /\ answer'.is = "no column" => col > numCols
         /\ answer'.is = "no row" => Base(file, seenCaches) + at >= lastRow
<1> DEFINE w == seekRow(at)
           from == Base(file, seenCaches)
<1>1. /\ state = "open" /\ state' = state /\ file' = file /\ numCols' = numCols
      /\ colTypes' = colTypes /\ dataStart' = dataStart /\ dataSize' = dataSize
      /\ dataEnd' = dataEnd
  BY DEF GetColIdx, range, schema
<1>2. /\ file \in File /\ Opened /\ numCols \in Nat \ {0} /\ dataEnd \in Nat
      /\ Good(file, numCols, lastRow, Held)
  BY <1>1 DEF ParserInv, Opened
<1>3. lastRow' = lastRow
  BY <1>1 DEF lastRow, LastLine, Limited, filesize, Terminated
<1>4. /\ Good(file, numCols, lastRow, w) /\ Base(file, w.seen) = from
      /\ w.seen[1] = seenCaches[1]
  BY <1>2, SeekGood
<1>5. /\ w.offset + Len(w.cache[1]) \in Nat
      /\ at >= w.offset + Len(w.cache[1]) => from + at >= lastRow
      /\ at < w.offset + Len(w.cache[1]) =>
           /\ \A k \in 1 .. numCols :
                w.cache[k][(at % CacheSize) + 1] = Cell(parseFields(Line(file, from + at)), k)
           /\ \/ seenCaches[1] = -1
              \/ from + at < Terminated(file)
              \/ Terminated(file) < SchemaLines
  BY <1>2, RowShown, Zenon
<1>6. IF col > numCols
      THEN /\ answer' = [col |-> col, row |-> at, is |-> "no column", cell |-> None]
           /\ UNCHANGED window
      ELSE /\ answer' = IF at >= w.offset + Len(w.cache[1])
                        THEN [col |-> col, row |-> at, is |-> "no row", cell |-> None]
                        ELSE [col |-> col, row |-> at, is |-> "cell",
                              cell |-> w.cache[col][(at % CacheSize) + 1]]
           /\ seenCaches' = w.seen /\ cacheOffset' = w.offset
           /\ cache' = w.cache /\ data' = w.data
  BY Zenon DEF GetColIdx
<1> HIDE DEF w, from
<1>7. /\ Good(file, numCols, lastRow, Held') /\ Base(file, seenCaches') = from
      /\ seenCaches'[1] = seenCaches[1]
  <2>1. CASE col > numCols
    BY <1>2, <1>6, <2>1 DEF Held, window, from
  <2>2. CASE ~(col > numCols)
    BY <1>4, <1>6, <2>2 DEF Held, Good
  <2> QED
    BY <2>1, <2>2
<1>8. /\ answer'.is \in {"cell", "no row", "no column"}
      /\ answer'.col = col /\ answer'.row = at
      /\ answer'.is = "cell" =>
           /\ answer'.cell = Cell(parseFields(Line(file, from + at)), col)
           /\ \/ seenCaches[1] = -1
              \/ from + at < Terminated(file)
              \/ Terminated(file) < SchemaLines
      /\ answer'.is = "no column" => col > numCols
      /\ answer'.is = "no row" => from + at >= lastRow
  <2>1. CASE col > numCols
    <3>1. answer' = [col |-> col, row |-> at, is |-> "no column", cell |-> None]
      BY <1>6, <2>1
    <3>2. answer'.is = "no column" /\ answer'.col = col /\ answer'.row = at
      BY <3>1
    <3> QED
      BY <3>2, <2>1
  <2>2. CASE ~(col > numCols) /\ at >= w.offset + Len(w.cache[1])
    <3>1. answer' = [col |-> col, row |-> at, is |-> "no row", cell |-> None]
      BY <1>6, <2>2
    <3>2. answer'.is = "no row" /\ answer'.col = col /\ answer'.row = at
      BY <3>1
    <3> QED
      BY <3>2, <1>5, <2>2
  <2>3. CASE ~(col > numCols) /\ ~(at >= w.offset + Len(w.cache[1]))
    <3>1. at < w.offset + Len(w.cache[1]) /\ col \in 1 .. numCols
      BY <1>2, <1>5, <2>3
    <3>2. answer' = [col |-> col, row |-> at, is |-> "cell",
                     cell |-> w.cache[col][(at % CacheSize) + 1]]
      BY <1>6, <2>3
    <3>3. w.cache[col][(at % CacheSize) + 1] = Cell(parseFields(Line(file, from + at)), col)
      BY <1>5, <3>1
    <3> QED
      BY <1>5, <3>1, <3>2, <3>3
  <2> QED
    BY <2>1, <2>2, <2>3
<1>9. FirstLine' = from
  BY <1>1, <1>7 DEF FirstLine, Base
<1>10. CellOfLine' /\ RowFound'
  BY <1>1, <1>3, <1>8, <1>9 DEF CellOfLine, RowFound
<1>11. Opened'
  BY <1>1, <1>2, <1>3, <1>7, <1>10 DEF Opened
<1>12. ParserInv'
  BY <1>1, <1>11 DEF ParserInv
<1> QED
  BY <1>7, <1>8, <1>12 DEF from
-----------------------------------------------------------------------------
\* setDataStart and setDataSize.

LEMMA OneWindow ==
  ASSUME NEW n \in Nat
  PROVE  <<2 * n>> = Windows(n, 1) /\ n + (1 - 1) * CacheSize = n
<1>1. CacheSize \in Nat
  BY SoRParserAssumption
<1>2. \A w \in 1 .. 1 : 2 * (n + (w - 1) * CacheSize) = 2 * n
  BY <1>1
<1> QED
  BY <1>1, <1>2 DEF Windows

LEMMA NotLimited ==
  ASSUME NEW f \in File, NEW start \in Nat
  PROVE  ~Limited(f, start, filesize(f))
  BY FileFacts DEF Limited

LEMMA DataStartSet ==
  ASSUME ~RangeAnytime, ParserInv, NEW start \in Nat, SetDataStart(start)
  PROVE  ParserInv' /\ (start = 0 => seenCaches'[1] = 0)
<1> DEFINE n == IF start = 0 THEN 0 ELSE start \div 2 + 1
           beyond == n > Terminated(file)
           at == [pos |-> AtMost(2 * n, filesize(file)), eof |-> beyond, fail |-> FALSE]
           lim == Limited(file, dataStart, dataSize)
           end == dataStart + dataSize
           first == IF lim THEN Fill(Seek(at, Tell(at)), clearCache(cache), file,
                                     LastLine(file, TRUE, end))
                    ELSE [cache |-> clearCache(cache), data |-> at]
           second == Fill(first.data, first.cache, file,
                          LastLine(file, Limited(file, start, dataSize),
                                   IF lim THEN end ELSE dataEnd))
           T == Terminated(file)
<1>1. /\ seenCaches' = <<Tell(at)>>
      /\ dataEnd' = IF lim THEN end ELSE dataEnd
      /\ cache' = second.cache /\ data' = second.data
  BY Zenon DEF SetDataStart
<1>2. /\ state = "open" /\ cacheOffset = 0 /\ dataSize = filesize(file)
      /\ dataStart' = start /\ answer' = NoAnswer /\ file' = file /\ dataSize' = dataSize
      /\ numCols' = numCols /\ colTypes' = colTypes /\ cacheOffset' = 0 /\ state' = "open"
  BY DEF SetDataStart, schema
<1>a. CellOfLine' /\ RowFound'
  BY <1>2 DEF NoAnswer, CellOfLine, RowFound
<1>3. /\ file \in File /\ Opened /\ numCols \in Nat \ {0} /\ dataEnd \in Nat
      /\ dataStart \in Nat /\ dataSize \in Nat
      /\ Shown(file, numCols, lastRow, seenCaches, cacheOffset, cache)
  BY <1>2 DEF ParserInv, Opened, Good, Held
<1>4. /\ T \in Nat /\ filesize(file) \in Nat /\ 2 * T <= filesize(file)
      /\ T <= Len(file.lines) /\ Len(file.lines) \in Nat
  BY <1>3, FileFacts
<1>5. n \in Nat
  OBVIOUS
<1>6. ~lim /\ ~Limited(file, start, dataSize)
  BY <1>2, <1>3, NotLimited
<1> DEFINE last == LastLine(file, Limited(file, start, dataSize), dataEnd)
<1>7. last = T /\ lastRow' = T /\ dataEnd' = dataEnd
  <2>1. dataEnd' = dataEnd
    BY <1>1, <1>6
  <2>2. last = T
    BY <1>6 DEF LastLine
  <2>3. lastRow' = LastLine(file', Limited(file', dataStart', dataSize'), dataEnd')
    BY DEF lastRow
  <2>4. lastRow' = last
    BY <1>2, <2>1, <2>3
  <2> QED
    BY <2>1, <2>2, <2>4
<1>8. second = Fill(at, clearCache(cache), file, T)
  <2>1. first = [cache |-> clearCache(cache), data |-> at]
    BY <1>6
  <2> HIDE DEF at, n, lim, first
  <2>2. first.data = at /\ first.cache = clearCache(cache)
    BY <2>1
  <2>3. second = Fill(at, clearCache(cache), file, last)
    BY <1>6, <2>2
  <2> HIDE DEF second, last
  <2> QED
    BY <1>7, <2>3
<1> HIDE DEF second, first, lim, end, last
<1>9. /\ at.fail = FALSE /\ at.eof = beyond /\ at.pos = AtMost(2 * n, filesize(file))
      /\ at.pos \in 0 .. filesize(file)
  <2> HIDE DEF n
  <2> QED
    BY <1>4, <1>5 DEF AtMost
<1>10. CASE beyond
  <2>1. Tell(at) = -1
    BY <1>9, <1>10 DEF Tell
  <2>2. clearCache(cache) = Rows(file, numCols, Len(file.lines), 0)
    BY <1>3, ClearedWindow
  <2>3. second = [cache |-> Rows(file, numCols, Len(file.lines), 0), data |-> at]
    <3> HIDE DEF at
    <3>1. at.eof /\ ~at.fail /\ 0 \in Nat /\ Len(file.lines) \in Nat
      BY <1>4, <1>9, <1>10
    <3> QED
      BY <1>3, <1>8, <2>2, <3>1, FillEnded
  <2> HIDE DEF at
  <2>4. second.cache = Rows(file, numCols, Len(file.lines), 0) /\ second.data = at
    BY <2>3
  <2>5. seenCaches' = <<-1>> /\ Base(file, <<-1>>) = Len(file.lines)
    BY <1>1, <2>1, MinusOne
  <2>6. Reached(file, seenCaches', cacheOffset')
    BY <1>2, <2>5 DEF Reached
  <2>7. Shown(file, numCols, T, seenCaches', cacheOffset', cache')
    <3>1. Len(file.lines) + 0 = Len(file.lines) /\ Len(file.lines) + 0 + 0 >= T
          /\ 0 \in 0 .. CacheSize /\ <<-1>>[1] = -1
      BY <1>4, SoRParserAssumption, MinusOne
    <3> HIDE DEF T
    <3> QED
      BY <1>1, <1>2, <2>4, <2>5, <3>1 DEF Shown
  <2>8. Good(file, numCols, T, Held') 
    BY <1>1, <1>9, <2>4, <2>6, <2>7 DEF Good, Held
  <2>9. start # 0
    BY <1>4, <1>10
  <2> QED
    BY <1>2, <1>3, <1>7, <2>8, <2>9, <1>a DEF ParserInv, Opened
<1>11. CASE ~beyond
  <2>1. n <= T /\ at.pos = 2 * n /\ ~at.eof /\ ~at.fail
    <3>1. n <= T
      BY <1>4, <1>5, <1>11
    <3> DEFINE size == filesize(file)
    <3>2. size \in Nat /\ at.pos = AtMost(2 * n, size) /\ ~at.eof /\ ~at.fail
      <4> HIDE DEF at, n
      <4> QED
        BY <1>4, <1>9, <1>11
    <3>3. 2 * n <= size
      <4> HIDE DEF n, T
      <4> QED
        BY <3>1, <1>4, <1>5
    <3> HIDE DEF size, n, T, at
    <3> QED
      BY <3>1, <3>2, <3>3, <1>5 DEF AtMost
  <2>2. Tell(at) = 2 * n
    <3> HIDE DEF at, n
    <3> QED
      BY <2>1 DEF Tell
  <2>3. clearCache(cache) = Rows(file, numCols, n, 0)
    BY <1>3, ClearedWindow
  <2>a. start = 0 => seenCaches'[1] = 0
    BY <1>1, <2>2
  <2>b. T \in Int /\ T <= T
    BY <1>4
  <2> HIDE DEF at, n
  <2>4. PICK r \in 0 .. CacheSize :
           /\ Fill(at, Rows(file, numCols, n, 0), file, T).cache = Rows(file, numCols, n, r)
           /\ r = CacheSize \/ n + r >= T
           /\ n + r <= T
           /\ Fill(at, Rows(file, numCols, n, 0), file, T).data.pos \in 0 .. filesize(file)
    BY <1>3, <1>5, <2>1, <2>b, FillWindow
  <2>5. /\ cache' = Rows(file, numCols, n, r) /\ data'.pos \in 0 .. filesize(file)
        /\ seenCaches' = Windows(n, 1)
    BY <1>1, <1>5, <1>8, <2>2, <2>3, <2>4, OneWindow
  <2>6. Base(file, seenCaches') = n
    BY <1>5, <2>5, WindowsFacts
  <2>7. Reached(file, seenCaches', cacheOffset')
    <3>1. 0 \in 0 .. 1 - 1 /\ 0 = 0 * CacheSize /\ 1 \in Nat \ {0}
      BY SoRParserAssumption
    <3>2. n + (1 - 1) * CacheSize <= T
      BY <1>5, <2>1, OneWindow
    <3> HIDE DEF T
    <3> QED
      BY <1>2, <1>5, <2>5, <3>1, <3>2 DEF Reached, T
  <2>8. Shown(file, numCols, T, seenCaches', cacheOffset', cache')
    <3>1. n + 0 = n
      BY <1>5
    <3> QED
      BY <1>2, <2>4, <2>5, <2>6, <3>1 DEF Shown
  <2>9. Good(file, numCols, T, Held')
    BY <2>5, <2>7, <2>8 DEF Good, Held
  <2> QED
    BY <1>2, <1>3, <1>7, <2>9, <2>a, <1>a DEF ParserInv, Opened
<1> QED
  BY <1>10, <1>11

LEMMA DataSizeSet ==
  ASSUME ~RangeAnytime, ParserInv, NEW size \in Nat, SetDataSize(size)
  PROVE  ParserInv'
<1> DEFINE last == LastLine(file, TRUE, dataStart + size)
           d == Seek(data, seenCaches[1])
           full == Fill(d, clearCache(cache), file, last)
           T == Terminated(file)
<1>1. IF Limited(file, dataStart, size)
      THEN /\ dataEnd' = dataStart + size
           /\ cache' = full.cache /\ data' = full.data
      ELSE UNCHANGED <<dataEnd, cache, data>>
  BY Zenon DEF SetDataSize
<1>2. /\ state = "open" /\ cacheOffset = 0
      /\ Limited(file, dataStart, size) \/ dataSize = filesize(file)
      /\ dataSize' = size /\ answer' = NoAnswer /\ file' = file /\ dataStart' = dataStart
      /\ numCols' = numCols /\ colTypes' = colTypes /\ cacheOffset' = 0
      /\ seenCaches' = seenCaches /\ state' = "open"
  BY DEF SetDataSize, schema
<1>a. CellOfLine' /\ RowFound'
  BY <1>2 DEF NoAnswer, CellOfLine, RowFound
<1>3. /\ file \in File /\ Opened /\ numCols \in Nat \ {0} /\ dataEnd \in Nat
      /\ dataStart \in Nat /\ dataSize \in Nat
      /\ Shown(file, numCols, lastRow, seenCaches, cacheOffset, cache)
      /\ Reached(file, seenCaches, cacheOffset) /\ data.pos \in 0 .. filesize(file)
      /\ Good(file, numCols, lastRow, Held)
  BY <1>2 DEF ParserInv, Opened, Good, Held
<1>4. /\ T \in Nat /\ T <= Len(file.lines) /\ Len(file.lines) \in Nat
      /\ CacheSize \in Nat \ {0}
  BY <1>3, FileFacts, SoRParserAssumption
<1>5. ASSUME Good(file, numCols, lastRow', Held'), dataEnd' \in Nat
      PROVE  ParserInv'
  BY <1>2, <1>3, <1>5, <1>a DEF ParserInv, Opened
<1>6. CASE ~Limited(file, dataStart, size)
  <2>1. dataEnd' = dataEnd /\ Held' = Held
    BY <1>1, <1>2, <1>6 DEF Held
  <2>2. lastRow = T /\ lastRow' = T
    <3>1. lastRow' = LastLine(file', Limited(file', dataStart', dataSize'), dataEnd')
      BY DEF lastRow
    <3>2. lastRow' = T
      BY <1>2, <1>6, <3>1 DEF LastLine
    <3>3. ~Limited(file, dataStart, dataSize)
      BY <1>2, <1>3, <1>6, NotLimited
    <3> QED
      BY <3>2, <3>3 DEF lastRow, LastLine
  <2> QED
    BY <1>3, <1>5, <2>1, <2>2
<1>7. CASE Limited(file, dataStart, size)
  <2>1. dataEnd' = dataStart + size /\ cache' = full.cache /\ data' = full.data
    BY <1>1, <1>7, Zenon
  <2>2. lastRow' = last
    <3>1. lastRow' = LastLine(file', Limited(file', dataStart', dataSize'), dataEnd')
      BY DEF lastRow
    <3> QED
      BY <1>2, <1>7, <2>1, <3>1
  <2>3. last \in Int /\ last <= T
    <3> DEFINE end == dataStart + size
    <3>1. end \in Nat
      BY <1>3
    <3> HIDE DEF T, end
    <3>2. (end - 1) \div 2 \in Int
      BY <3>1
    <3>3. last = IF T < (end - 1) \div 2 THEN T ELSE (end - 1) \div 2
      BY DEF LastLine, AtMost, last, T, end
    <3> HIDE DEF last
    <3> QED
      BY <1>4, <3>2, <3>3
  <2> HIDE DEF last, d
  <2>4. CASE seenCaches = <<-1>>
    <3>1. d.fail /\ d.pos = data.pos
      BY <2>4, MinusOne DEF d, Seek
    <3>2. clearCache(cache) = Rows(file, numCols, Len(file.lines), 0)
      BY <1>3, ClearedWindow
    <3>3. full = [cache |-> Rows(file, numCols, Len(file.lines), CacheSize), data |-> d]
      BY <1>3, <3>1, <3>2, FillFailed
    <3> HIDE DEF full
    <3>4. cache' = Rows(file, numCols, Len(file.lines), CacheSize) /\ data' = d
      BY <2>1, <3>3
    <3>5. Shown(file, numCols, last, seenCaches', cacheOffset', cache')
      <4>1. Base(file, <<-1>>) = Len(file.lines) /\ <<-1>>[1] = -1
            /\ Len(file.lines) + 0 = Len(file.lines) /\ CacheSize \in 0 .. CacheSize
        BY <1>4, MinusOne
      <4> QED
        BY <1>2, <2>4, <3>4, <4>1 DEF Shown
    <3>6. Good(file, numCols, last, Held')
      BY <1>2, <1>3, <3>1, <3>4, <3>5 DEF Good, Held
    <3> QED
      BY <1>3, <1>5, <2>1, <2>2, <3>6
  <2>5. ASSUME NEW first \in Nat, NEW n \in Nat \ {0}, seenCaches = Windows(first, n),
               first + (n - 1) * CacheSize <= T
        PROVE  ParserInv'
    <3>1. 1 \in 1 .. n /\ (1 - 1) * CacheSize = 0 /\ first + 0 = first
      BY <1>4
    <3>2. seenCaches[1] = 2 * first /\ seenCaches[1] # -1 /\ Base(file, seenCaches) = first
      <4>1. Windows(first, n)[1] = 2 * (first + (1 - 1) * CacheSize)
        BY <3>1, WindowsFacts
      <4>2. Windows(first, n)[1] # -1 /\ Base(file, Windows(first, n)) = first
        BY WindowsFacts
      <4> QED
        BY <2>5, <3>1, <4>1, <4>2
    <3>3. ~d.eof /\ ~d.fail /\ d.pos = 2 * first
      BY <3>2 DEF d, Seek
    <3>4. first <= T
      <4>1. (n - 1) * CacheSize >= 0 /\ (n - 1) * CacheSize \in Int
        BY <1>4
      <4> QED
        BY <1>4, <2>5, <4>1
    <3>5. clearCache(cache) = Rows(file, numCols, first, 0)
      BY <1>3, ClearedWindow
    <3>6. PICK r \in 0 .. CacheSize :
             /\ Fill(d, Rows(file, numCols, first, 0), file, last).cache
                  = Rows(file, numCols, first, r)
             /\ r = CacheSize \/ first + r >= last
             /\ first + r <= T
             /\ Fill(d, Rows(file, numCols, first, 0), file, last).data.pos
                  \in 0 .. filesize(file)
      BY <1>3, <1>4, <2>3, <3>3, <3>4, FillWindow
    <3>7. cache' = Rows(file, numCols, first, r) /\ data'.pos \in 0 .. filesize(file)
      BY <2>1, <3>5, <3>6
    <3>8. Shown(file, numCols, last, seenCaches', cacheOffset', cache')
      BY <1>2, <3>1, <3>2, <3>6, <3>7 DEF Shown
    <3>9. Good(file, numCols, last, Held')
      BY <1>2, <1>3, <3>7, <3>8 DEF Good, Held
    <3> QED
      BY <1>3, <1>5, <2>1, <2>2, <3>9
  <2> QED
    BY <1>3, <2>4, <2>5 DEF Reached
<1> QED
  BY <1>6, <1>7
-----------------------------------------------------------------------------
\* readInitial, setSchema and initialize.

LEMMA SampleFacts ==
  ASSUME NEW f \in File
  PROVE  LET n == AtMost(SchemaLines, Terminated(f) + 1)
             sample == Sample(f)
         IN  /\ n \in Nat \ {0} /\ n <= CacheSize
             /\ Len(sample) = n /\ DOMAIN sample = 1 .. n
             /\ \A m \in 1 .. n : sample[m] = parseFields(Line(f, m - 1))
             /\ Width(sample) \in Nat
             /\ sample[1] # <<>> => Width(sample) \in Nat \ {0}
             /\ SampleColumns(sample) = Rows(f, Width(sample), 0, n)
<1> DEFINE n == AtMost(SchemaLines, Terminated(f) + 1)
           sample == Sample(f)
<1>1. n \in Nat \ {0} /\ n <= CacheSize
  BY SoRParserAssumption, FileFacts DEF AtMost
<1>2. sample = [m \in 1 .. n |-> parseFields(Line(f, m - 1))]
  BY DEF Sample
<1> HIDE DEF n, sample
<1>3. /\ DOMAIN sample = 1 .. n /\ sample = [m \in 1 .. n |-> sample[m]]
      /\ \A m \in 1 .. n : sample[m] = parseFields(Line(f, m - 1))
  BY <1>2
<1>4. \A m \in 1 .. n : sample[m] \in Seq(Field)
  <2>1. ASSUME NEW m \in 1 .. n PROVE parseFields(Line(f, m - 1)) \in Seq(Field)
    <3>1. m - 1 \in Nat
      BY <1>1
    <3>2. Line(f, m - 1) \in Seq(Symbol)
      BY <3>1, LineType
    <3> QED
      BY <3>2, FieldsType
  <2> QED
    BY <1>3, <2>1
<1>5. Len(sample) = n
  BY <1>1, <1>3, FunctionSeq
<1>6. Width(sample) \in Nat /\ \A m \in 1 .. n : Len(sample[m]) <= Width(sample)
  BY <1>1, <1>3, <1>4, WidthOfSample
<1>7. sample[1] # <<>> => Width(sample) \in Nat \ {0}
  <2>1. 1 \in 1 .. n
    BY <1>1
  <2>2. sample[1] # <<>> => Len(sample[1]) >= 1
    BY <1>4, <2>1, EmptySeq
  <2> QED
    BY <1>6, <2>1, <2>2
<1>8. SampleColumns(sample) = Rows(f, Width(sample), 0, n)
  <2>1. SampleColumns(sample)
          = [k \in 1 .. Width(sample) |-> [m \in 1 .. n |-> Cell(sample[m], k)]]
    BY <1>3 DEF SampleColumns
  <2>2. \A m \in 1 .. n : 0 + m - 1 = m - 1
    BY <1>1
  <2>3. \A m \in 1 .. n : sample[m] = parseFields(Line(f, 0 + m - 1))
    BY <1>3, <2>2
  <2> QED
    BY <2>1, <2>3 DEF Rows
<1> QED
  BY <1>1, <1>3, <1>5, <1>6, <1>7, <1>8 DEF n, sample

\* The type of a column, from the sample.
SampledType(f, k) == findColType(SampleColumns(Sample(f))[k])

LEMMA SampledTypes ==
  ASSUME NEW f \in File, NEW k \in 1 .. Width(Sample(f))
  PROVE  LET n == AtMost(SchemaLines, Terminated(f) + 1)
             cell(m) == Cell(parseFields(Line(f, m - 1)), k)
         IN  /\ SampledType(f, k) \in 0 .. 4
             /\ SampledType(f, k) = Throws =>
                  \E m \in 1 .. n : cell(m) # None /\ cellType(cell(m)) = Throws
             /\ SampledType(f, k) < TEXT =>
                  \A m \in 1 .. n : cell(m) # None => cellType(cell(m)) <= SampledType(f, k)
<1> DEFINE n == AtMost(SchemaLines, Terminated(f) + 1)
           col == SampleColumns(Sample(f))[k]
           cell(m) == Cell(parseFields(Line(f, m - 1)), k)
<1>1. n \in Nat \ {0} /\ SampleColumns(Sample(f)) = Rows(f, Width(Sample(f)), 0, n)
  BY SampleFacts
<1> HIDE DEF n
<1>2. col = [m \in 1 .. n |-> Cell(parseFields(Line(f, 0 + m - 1)), k)]
  BY <1>1 DEF Rows
<1>3. DOMAIN col = 1 .. n /\ \A m \in 1 .. n : col[m] = cell(m)
  <2>1. \A m \in 1 .. n : 0 + m - 1 = m - 1
    BY <1>1
  <2> HIDE DEF col
  <2> QED
    BY <1>2, <2>1
<1>4. SampledType(f, k) = findColType(col)
  BY DEF SampledType
<1> HIDE DEF col
<1>5. n \in Nat
  BY <1>1
<1>6. /\ findColType(col) \in 0 .. 4
      /\ findColType(col) = Throws =>
           \E m \in 1 .. n : col[m] # None /\ cellType(col[m]) = Throws
      /\ findColType(col) < TEXT =>
           \A m \in 1 .. n : col[m] # None => cellType(col[m]) <= findColType(col)
  BY <1>3, <1>5, ColumnTypes
<1> HIDE DEF cell
<1>7. /\ SampledType(f, k) \in 0 .. 4
      /\ SampledType(f, k) = Throws =>
           \E m \in 1 .. n : cell(m) # None /\ cellType(cell(m)) = Throws
      /\ SampledType(f, k) < TEXT =>
           \A m \in 1 .. n : cell(m) # None => cellType(cell(m)) <= SampledType(f, k)
  BY <1>3, <1>4, <1>6
<1> QED
  BY <1>7, Zenon DEF cell, n

\* A file that was opened: its columns have the types of the sample, and the
\* window holds all rows of the sample.
AsSampled(f) ==
  /\ numCols = Width(Sample(f))
  /\ \A k \in 1 .. numCols : colTypes[k] = SampledType(f, k)
  /\ dataStart = 0 /\ dataSize = filesize(f)
  /\ Terminated(f) < SchemaLines =>
       cacheOffset = 0 /\ cache = Rows(f, numCols, 0, Terminated(f) + 1)

LEMMA InitializedState ==
  ASSUME NEW f \in File, ParserInv, Initialize(f)
  PROVE  /\ file' = f /\ state' \in {"open", "crashed", "thrown"}
         /\ state' = "open" => /\ seenCaches' = <<0>> /\ AsSampled(f)'
         /\ state' = "thrown" =>
              \E k \in 1 .. Width(Sample(f)) : SampledType(f, k) = Throws
         /\ ParserInv'
<1> DEFINE sample == Sample(f)
           cols == SampleColumns(sample)
           types == [k \in DOMAIN cols |-> findColType(cols[k])]
           ended == Len(sample) > Terminated(f)
           d == [pos |-> AtMost(2 * Len(sample), filesize(f)), eof |-> ended, fail |-> FALSE]
           full == Fill(d, cols, f, Terminated(f))
           n == AtMost(SchemaLines, Terminated(f) + 1)
           T == Terminated(f)
           width == Width(sample)
<1>1. /\ state = "new" /\ file' = f /\ dataSize' = filesize(f) /\ seenCaches' = <<0>>
      /\ dataStart' = dataStart /\ dataEnd' = dataEnd /\ cacheOffset' = cacheOffset
      /\ answer' = answer
  BY DEF Initialize
<1>2. IF sample[1] = <<>>
      THEN /\ state' = "crashed"
           /\ UNCHANGED <<data, schema, cache>>
      ELSE IF Throws \in {types[k] : k \in DOMAIN cols}
      THEN /\ state' = "thrown"
           /\ UNCHANGED <<data, schema, cache>>
      ELSE /\ state' = "open"
           /\ numCols' = Len(cols)
           /\ colTypes' = types
           /\ cache' = full.cache
           /\ data' = full.data
  BY Zenon DEF Initialize
<1>3. /\ n \in Nat \ {0} /\ n <= CacheSize
      /\ Len(sample) = n /\ DOMAIN sample = 1 .. n
      /\ width \in Nat /\ (sample[1] # <<>> => width \in Nat \ {0})
      /\ cols = Rows(f, width, 0, n)
  BY SampleFacts
<1>4. /\ T \in Nat /\ filesize(f) \in Nat /\ 2 * T <= filesize(f)
      /\ CacheSize \in Nat \ {0} /\ SchemaLines \in Nat /\ SchemaLines <= CacheSize
      /\ n = AtMost(SchemaLines, T + 1)
  BY FileFacts, SoRParserAssumption
<1>5. /\ dataStart = 0 /\ dataEnd = 0 /\ Unopened
  BY <1>1 DEF ParserInv
<1> HIDE DEF sample, n, T
<1>6. DOMAIN cols = 1 .. width /\ Len(cols) = width
  <2>1. n \in Nat /\ width \in Nat /\ 0 \in Nat
    BY <1>3
  <2> HIDE DEF width, cols
  <2> QED
    BY <1>3, <2>1, RowsShape
<1>7. DOMAIN types = 1 .. width /\ \A k \in 1 .. width : types[k] = SampledType(f, k)
  BY <1>6 DEF SampledType, sample
<1>8. Len(types) = width
  <2>1. types = [k \in 1 .. width |-> types[k]]
    BY <1>7
  <2> HIDE DEF types, width
  <2> QED
    BY <1>3, <2>1, FunctionSeq
<1> HIDE DEF types, full, width, cols
<1>9. ASSUME state' \in {"crashed", "thrown"}, UNCHANGED <<data, schema, cache>>
      PROVE  ParserInv'
  BY <1>1, <1>4, <1>5, <1>9 DEF ParserInv, Unopened, schema
<1>10. CASE sample[1] = <<>>
  BY <1>1, <1>2, <1>9, <1>10
<1>11. CASE sample[1] # <<>> /\ Throws \in {types[k] : k \in DOMAIN cols}
  <2>1. state' = "thrown" /\ UNCHANGED <<data, schema, cache>>
    BY <1>2, <1>11
  <2>2. PICK k \in 1 .. width : SampledType(f, k) = Throws
    BY <1>6, <1>7, <1>11
  <2> QED
    BY <1>1, <1>9, <2>1, <2>2 DEF width, sample
<1>12. CASE sample[1] # <<>> /\ Throws \notin {types[k] : k \in DOMAIN cols}
  <2>1. /\ state' = "open" /\ numCols' = width /\ colTypes' = types
        /\ cache' = full.cache /\ data' = full.data
    BY <1>2, <1>6, <1>12
  <2>2. width \in Nat \ {0}
    BY <1>3, <1>12
  <2>3. \A k \in 1 .. width : types[k] \in BOOL .. TEXT
    <3>1. ASSUME NEW k \in 1 .. width PROVE types[k] \in BOOL .. TEXT
      <4>1. SampledType(f, k) \in 0 .. 4
        BY SampledTypes DEF width, sample
      <4>2. types[k] # Throws
        BY <1>6, <1>12
      <4> QED
        BY <1>7, <4>1, <4>2 DEF BOOL, TEXT, Throws
    <3> QED
      BY <3>1
  <2>4. PICK r \in n .. CacheSize :
          /\ full.cache = Rows(f, width, 0, r)
          /\ r = CacheSize \/ r >= T
          /\ r <= T \/ (T < SchemaLines /\ r = T + 1)
          /\ T < SchemaLines => r = T + 1
          /\ full.data.pos \in 0 .. filesize(f)
    <3>1. d.pos = AtMost(2 * n, filesize(f)) /\ d.eof = (n > T) /\ d.fail = FALSE
      BY <1>3 DEF T
    <3> HIDE DEF d
    <3>2. full = Fill(d, Rows(f, width, 0, n), f, T)
      BY <1>3 DEF full, T, d
    <3>3. CASE n > T
      <4>1. n = T + 1 /\ T < SchemaLines
        BY <1>3, <1>4, <3>3 DEF AtMost
      <4>2. full = [cache |-> Rows(f, width, 0, n), data |-> d]
        <5>1. d.eof /\ ~d.fail /\ 0 \in Nat /\ n \in Nat
          BY <1>3, <3>1, <3>3
        <5> QED
          BY <2>2, <3>2, <5>1, FillEnded
      <4>3. full.cache = Rows(f, width, 0, n) /\ full.data = d
        BY <4>2
      <4>4. d.pos \in 0 .. filesize(f)
        BY <1>3, <1>4, <3>1 DEF AtMost
      <4>5. n \in n .. CacheSize /\ n >= T
        BY <1>3, <1>4, <4>1
      <4> QED
        BY <4>1, <4>3, <4>4, <4>5
    <3>4. CASE ~(n > T)
      <4>1. n <= T /\ ~(T < SchemaLines)
        BY <1>3, <1>4, <3>4 DEF AtMost
      <4>2. d.pos = 2 * (0 + n) /\ 0 + n <= T
        <5>1. 2 * n <= filesize(f) /\ 2 * n = 2 * (0 + n) /\ 0 + n <= T
          BY <1>3, <1>4, <4>1
        <5>2. AtMost(2 * n, filesize(f)) = 2 * n
          BY <1>3, <1>4, <5>1 DEF AtMost
        <5> QED
          BY <3>1, <5>1, <5>2
      <4>3. ~d.eof /\ ~d.fail /\ 0 \in Nat /\ n \in Nat /\ n <= CacheSize /\ T \in Int /\ T <= T
        <5>1. ~d.eof /\ ~d.fail
          BY <3>1, <3>4
        <5> QED
          BY <1>3, <1>4, <5>1
      <4>4. PICK r \in n .. CacheSize :
              /\ Fill(d, Rows(f, width, 0, n), f, T).cache = Rows(f, width, 0, r)
              /\ r = CacheSize \/ 0 + r >= T
              /\ 0 + r <= T
              /\ Fill(d, Rows(f, width, 0, n), f, T).data.pos \in 0 .. filesize(f)
        BY <2>2, <4>2, <4>3, FillReads DEF T
      <4>5. r \in Nat
        BY <1>3, <1>4
      <4> QED
        BY <3>2, <4>1, <4>4, <4>5
    <3> QED
      BY <3>3, <3>4
  <2>5. r \in 0 .. CacheSize /\ 0 + 0 = 0 /\ 0 + 0 + r = r /\ cacheOffset' = 0
    BY <1>1, <1>3, <1>5 DEF Unopened
  <2>6. /\ seenCaches' = Windows(0, 1) /\ seenCaches'[1] = 0
        /\ Base(f, seenCaches') = 0 /\ 0 + (1 - 1) * CacheSize = 0
    <3>1. 2 * 0 = 0 /\ 0 \in Nat /\ 1 \in Nat \ {0}
      OBVIOUS
    <3>2. <<2 * 0>> = Windows(0, 1) /\ 0 + (1 - 1) * CacheSize = 0
      BY <3>1, OneWindow
    <3>3. Base(f, Windows(0, 1)) = 0
      BY <3>1, WindowsFacts
    <3> QED
      BY <1>1, <3>1, <3>2, <3>3
  <2>7. lastRow' = T
    <3>1. ~Limited(f, 0, filesize(f))
      BY NotLimited
    <3>2. lastRow' = LastLine(file', Limited(file', dataStart', dataSize'), dataEnd')
      BY DEF lastRow
    <3> QED
      BY <1>1, <1>5, <3>1, <3>2 DEF LastLine, T
  <2>8. Shown(f, width, T, seenCaches', cacheOffset', cache')
    BY <1>4, <2>1, <2>4, <2>5, <2>6 DEF Shown, T
  <2>9. Reached(f, seenCaches', cacheOffset')
    <3>1. 0 \in 0 .. 1 - 1 /\ 0 = 0 * CacheSize /\ 0 \in Nat /\ 1 \in Nat \ {0}
      BY <1>4
    <3>2. 0 + (1 - 1) * CacheSize <= Terminated(f)
      BY <1>4, <2>6 DEF T
    <3> QED
      BY <2>5, <2>6, <3>1, <3>2 DEF Reached
  <2>10. Good(f, width, T, Held')
    BY <2>1, <2>4, <2>8, <2>9 DEF Good, Held
  <2>11. CellOfLine' /\ RowFound'
    BY <1>1, <1>5 DEF CellOfLine, RowFound, Unopened, NoAnswer
  <2>12. Opened'
    BY <1>1, <1>8, <2>1, <2>2, <2>3, <2>7, <2>10, <2>11 DEF Opened
  <2>13. ParserInv'
    BY <1>1, <1>4, <1>5, <2>1, <2>12 DEF ParserInv
  <2>14. AsSampled(f)'
    <3>1. T < SchemaLines => cache' = Rows(f, width, 0, T + 1)
      BY <2>1, <2>4
    <3> QED
      BY <1>1, <1>5, <1>7, <2>1, <2>5, <3>1 DEF AsSampled, T, width, sample
  <2> QED
    BY <1>1, <2>1, <2>13, <2>14
<1> QED
  BY <1>10, <1>11, <1>12
-----------------------------------------------------------------------------
\* main.

\* The row of the frame that a line becomes, and the first n of them.
RowOf(n) == [c \in 1 .. numCols |-> AsString(colTypes[c], Content(n - 1, c))]

Frame(n) == [m \in 1 .. n |-> RowOf(m)]

Filling ==
  /\ i \in 0 .. Terminated(file) /\ j \in 0 .. numCols - 1
  /\ df = Frame(i)
  /\ row = [c \in 1 .. numCols |-> row[c]]
  /\ \A c \in 1 .. j : row[c] = AsString(colTypes[c], Content(i, c))

MainInv ==
  /\ ParserInv
  /\ main \in {"options", "schema", "fill", "wide", "done", "thrown", "crashed", "exit"}
  /\ user = "any" => main = "options"
  /\ user # "any" =>
       /\ main = "options" => state = "new"
       /\ state = "open" => AsSampled(file) /\ seenCaches[1] = 0
  /\ main = "options" => df = <<>>
  /\ main \in {"options", "schema"} => i = 0 /\ j = 0 /\ df = <<>>
  /\ main \in {"schema", "fill", "wide"} => state = "open"
  /\ main \in {"fill", "wide"} => Filling
  /\ FrameIsFile /\ SampleIsRead /\ OnlySampleIsRead

LEMMA EmptyFrame == ASSUME df = <<>> PROVE FrameIsFile
<1>1. DOMAIN df = {}
  OBVIOUS
<1> QED
  BY <1>1 DEF FrameIsFile

LEMMA MainInitially == MainInit => MainInv
<1> SUFFICES ASSUME MainInit PROVE MainInv
  OBVIOUS
<1>1. ParserInv /\ state = "new"
  BY ParserInitially DEF MainInit, Init
<1>2. main = "options" /\ df = <<>> /\ i = 0 /\ j = 0
  BY DEF MainInit
<1>3. FrameIsFile /\ SampleIsRead /\ OnlySampleIsRead
  BY <1>2, EmptyFrame DEF SampleIsRead, OnlySampleIsRead
<1> QED
  BY <1>1, <1>2, <1>3 DEF MainInv

\* "any" client of the parser.
LEMMA ClientStep == ASSUME ~RangeAnytime, MainInv, AnyClient PROVE MainInv'
<1>1. /\ user = "any" /\ user' = "any" /\ main' = main /\ i' = i /\ j' = j
      /\ row' = row /\ df' = df /\ Next
  BY DEF AnyClient, options, mainVars
<1>2. main = "options" /\ df = <<>> /\ i = 0 /\ j = 0 /\ ParserInv
  BY <1>1 DEF MainInv
<1>3. ParserInv'
  <2>1. ASSUME NEW f \in File, Initialize(f) PROVE ParserInv'
    BY <1>2, <2>1, InitializedState
  <2>2. ASSUME NEW p \in Position \cap (0 .. filesize(file)),
               SetDataStart(p) \/ SetDataSize(p)
        PROVE  ParserInv'
    <3>1. p \in Nat
      BY SoRParserAssumption
    <3> QED
      BY <1>2, <2>2, <3>1, DataStartSet, DataSizeSet
  <2>3. ASSUME NEW at \in 0 .. MaxRow, NEW col \in 1 .. numCols + 1, GetColIdx(col, at)
        PROVE  ParserInv'
    <3>1. at \in Nat /\ col \in Nat \ {0}
      <4>1. state = "open" /\ numCols \in Nat
        BY <1>2, <2>3 DEF GetColIdx, ParserInv, Opened
      <4> QED
        BY <4>1, SoRParserAssumption
    <3> QED
      BY <1>2, <2>3, <3>1, Answered
  <2> QED
    BY <1>1, <2>1, <2>2, <2>3 DEF Next
<1>4. FrameIsFile' /\ SampleIsRead' /\ OnlySampleIsRead'
  <2>1. DOMAIN df' = {}
    BY <1>1, <1>2
  <2> QED
    BY <1>1, <1>2, <2>1 DEF FrameIsFile, SampleIsRead, OnlySampleIsRead
<1> QED
  BY <1>1, <1>2, <1>3, <1>4 DEF MainInv

\* What the invariants of the parser and of main speak of, but for main itself.
Parts == <<file, data, dataStart, dataSize, dataEnd, numCols, colTypes, cache, cacheOffset,
           seenCaches, state, answer>>

LEMMA Unchanged ==
  ASSUME UNCHANGED vars
  PROVE  /\ ParserInv => ParserInv'
         /\ AsSampled(file) => AsSampled(file)'
         /\ \A n, c : Content(n, c)' = Content(n, c)
         /\ numRows' = numRows
<1>1. UNCHANGED Parts
  BY DEF vars, range, schema, window, Parts
<1>2. ParserInv' = ParserInv
  BY <1>1 DEF Parts, ParserInv, Unopened, Opened, Good, Reached, Shown, Base, Rows, Held, lastRow,
     LastLine, Limited, CellOfLine, RowFound, FirstLine
<1>3. AsSampled(file)' = AsSampled(file)
  BY <1>1 DEF Parts, AsSampled
<1>4. \A n, c : Content(n, c)' = Content(n, c)
  BY <1>1 DEF Parts, Content
<1>5. numRows' = numRows
  BY <1>1 DEF Parts, numRows
<1> QED
  BY <1>2, <1>3, <1>4, <1>5

LEMMA OptionStep == ASSUME MainInv, Option \/ UNCHANGED allVars PROVE MainInv'
<1>1. UNCHANGED vars /\ UNCHANGED mainVars /\ user' = user
  BY DEF Option, NextOption, allVars, options
<1>2. UNCHANGED Parts /\ i' = i /\ j' = j /\ row' = row /\ df' = df /\ main' = main
  BY <1>1 DEF vars, range, schema, window, Parts, mainVars
<1>3. Filling' = Filling
  BY <1>2 DEF Filling, Frame, RowOf, Content, Parts
<1>4. SampleIsRead' = SampleIsRead /\ OnlySampleIsRead' = OnlySampleIsRead
      /\ FrameIsFile' = FrameIsFile
  BY <1>2 DEF SampleIsRead, OnlySampleIsRead, FrameIsFile, Content, numRows, Parts
<1>5. ParserInv' /\ (AsSampled(file) => AsSampled(file)')
  BY <1>1, Unchanged DEF MainInv
<1> QED
  BY <1>1, <1>2, <1>3, <1>4, <1>5 DEF MainInv, Parts
-----------------------------------------------------------------------------
LEMMA FrameRows ==
  ASSUME NEW n \in Nat
  PROVE  /\ Len(Frame(n)) = n
         /\ Append(Frame(n), RowOf(n + 1)) = Frame(n + 1)
         /\ df = Frame(n) => FrameIsFile
<1> DEFINE S == {RowOf(m) : m \in 1 .. n + 1}
<1>1. /\ Frame(n) = [m \in 1 .. n |-> Frame(n)[m]] /\ \A m \in 1 .. n : Frame(n)[m] = RowOf(m)
      /\ Frame(n + 1) = [m \in 1 .. n + 1 |-> RowOf(m)] /\ DOMAIN Frame(n) = 1 .. n
  BY DEF Frame
<1>2. RowOf(n + 1) \in S /\ \A m \in 1 .. n : RowOf(m) \in S
  OBVIOUS
<1>3. df = Frame(n) => FrameIsFile
  <2>1. ASSUME df = Frame(n), NEW m \in DOMAIN df, NEW c \in 1 .. numCols
        PROVE  df[m][c] = AsString(colTypes[c], Content(m - 1, c))
    <3>1. df[m] = RowOf(m)
      BY <1>1, <2>1
    <3> QED
      BY <3>1 DEF RowOf
  <2> QED
    BY <2>1 DEF FrameIsFile
<1> DEFINE s == Frame(n)
<1>4. /\ s = [m \in 1 .. n |-> s[m]] /\ \A m \in 1 .. n : s[m] \in S
  BY <1>1, <1>2
<1> HIDE DEF S, s
<1>5. s \in Seq(S) /\ Len(s) = n
  BY <1>4, FunctionSeq
<1>6. /\ Append(s, RowOf(n + 1)) \in Seq(S)
      /\ Len(Append(s, RowOf(n + 1))) = n + 1
      /\ \A m \in 1 .. n : Append(s, RowOf(n + 1))[m] = s[m]
      /\ Append(s, RowOf(n + 1))[n + 1] = RowOf(n + 1)
  BY <1>2, <1>5, AppendProperties
<1>7. DOMAIN Append(s, RowOf(n + 1)) = 1 .. n + 1
  BY <1>6, LenProperties
<1> DEFINE t == Append(s, RowOf(n + 1))
<1>8. \A m \in 1 .. n + 1 : t[m] = RowOf(m)
  <2>1. ASSUME NEW m \in 1 .. n PROVE t[m] = RowOf(m)
    BY <1>1, <1>6 DEF s
  <2>2. t[n + 1] = RowOf(n + 1)
    BY <1>6
  <2> HIDE DEF t
  <2> QED
    BY <2>1, <2>2
<1>9. t = [m \in 1 .. n + 1 |-> t[m]]
  <2>1. t \in Seq(S) /\ DOMAIN t = 1 .. n + 1
    BY <1>6, <1>7
  <2> HIDE DEF t
  <2> QED
    BY <2>1
<1> HIDE DEF t
<1>10. t = Frame(n + 1)
  BY <1>1, <1>8, <1>9
<1> QED
  BY <1>3, <1>5, <1>10 DEF s, t

LEMMA OpenStep == ASSUME MainInv, Open PROVE MainInv'
<1>1. /\ user = "sor-main" /\ main = "options" /\ state = "new"
      /\ df = <<>> /\ i = 0 /\ j = 0 /\ ParserInv
  BY DEF Open, MainInv
<1>2. user' = user /\ i' = i /\ j' = j /\ row' = row /\ df' = df
  BY DEF Open, options
<1>3. FrameIsFile'
  <2>1. DOMAIN df' = {}
    BY <1>1, <1>2
  <2> QED
    BY <2>1 DEF FrameIsFile
<1>4. CASE filename \notin Names
  <2>1. main' = "exit" /\ UNCHANGED vars
    BY <1>4 DEF Open
  <2>2. ParserInv' /\ state' = state
    BY <1>1, <2>1, Unchanged DEF vars
  <2> QED
    BY <1>1, <1>2, <1>3, <2>1, <2>2 DEF MainInv, SampleIsRead, OnlySampleIsRead
<1>5. CASE filename \in Names
  <2>1. /\ \E f \in File : Initialize(f)
        /\ main' = IF state' = "open" THEN "schema" ELSE state'
    BY <1>5 DEF Open
  <2>2. PICK f \in File : Initialize(f)
    BY <2>1
  <2>3. /\ file' = f /\ state' \in {"open", "crashed", "thrown"}
        /\ state' = "open" => seenCaches' = <<0>> /\ AsSampled(f)'
        /\ state' = "thrown" => \E k \in 1 .. Width(Sample(f)) : SampledType(f, k) = Throws
        /\ ParserInv'
    BY <1>1, <2>2, InitializedState
  <2>4. state' = "open" => AsSampled(file)' /\ seenCaches'[1] = 0
    BY <2>3 DEF AsSampled
  <2>5. ASSUME state' = "thrown" PROVE SampleIsRead'
    <3> DEFINE n == AtMost(SchemaLines, Terminated(f) + 1)
               cell(m, k) == Cell(parseFields(Line(f, m - 1)), k)
    <3>1. PICK k \in 1 .. Width(Sample(f)) : SampledType(f, k) = Throws
      BY <2>3, <2>5
    <3>2. PICK m \in 1 .. n : cell(m, k) # None /\ cellType(cell(m, k)) = Throws
      BY <3>1, SampledTypes
    <3>3. m - 1 \in 0 .. Terminated(f)
      BY SoRParserAssumption, FileFacts DEF AtMost
    <3>4. Convert(stof, cell(m, k)) = "range"
      BY <3>2, CellTypes
    <3>5. Content(m - 1, k)' = cell(m, k)
      BY <2>3 DEF Content
    <3>6. OutOfRange(Content(m - 1, k)')
      BY <3>2, <3>4, <3>5 DEF OutOfRange
    <3>7. numRows' = Terminated(f) + 1
      BY <2>3 DEF numRows
    <3>8. m - 1 \in 0 .. numRows' - 1
      BY <3>3, <3>7, FileFacts
    <3> HIDE DEF cell
    <3>9. \E q \in 0 .. numRows' - 1, c \in 1 .. Width(Sample(file')) :
            OutOfRange(Content(q, c)')
      BY <2>3, <3>6, <3>8
    <3> QED
      BY <3>9 DEF SampleIsRead, OutOfRange
  <2>6. main' \in {"schema", "crashed", "thrown"}
        /\ (main' = "thrown" => state' = "thrown") /\ (main' = "schema" => state' = "open")
    BY <2>1, <2>3
  <2>7. SampleIsRead' /\ OnlySampleIsRead'
    BY <2>5, <2>6 DEF SampleIsRead, OnlySampleIsRead
  <2> QED
    BY <1>1, <1>2, <1>3, <2>3, <2>4, <2>6, <2>7 DEF MainInv
<1> QED
  BY <1>4, <1>5

LEMMA SchemaStep == ASSUME MainInv, MakeSchema PROVE MainInv'
<1>1. /\ main = "schema" /\ user # "any" /\ state = "open" /\ ParserInv /\ FrameIsFile
      /\ AsSampled(file) /\ seenCaches[1] = 0 /\ i = 0 /\ j = 0 /\ df = <<>>
  BY DEF MakeSchema, MainInv
<1>2. /\ UNCHANGED vars /\ user' = user /\ i' = i /\ j' = j /\ df' = df
      /\ main' \in {"fill", "wide", "exit"}
      /\ main' # "exit" => row' = [c \in 1 .. numCols |-> AsString(BOOL, None)]
  BY DEF MakeSchema, options
<1>3. UNCHANGED Parts
  BY <1>2 DEF vars, range, schema, window, Parts
<1>4. ParserInv' /\ AsSampled(file)'
  BY <1>1, <1>2, Unchanged
<1>5. FrameIsFile' /\ SampleIsRead' /\ OnlySampleIsRead'
  <2>1. DOMAIN df' = {}
    BY <1>1, <1>2
  <2> QED
    BY <1>2, <2>1 DEF FrameIsFile, SampleIsRead, OnlySampleIsRead
<1>6. main' # "exit" => Filling'
  <2>1. numCols' = numCols /\ numCols \in Nat \ {0} /\ file' = file /\ file \in File
    BY <1>1, <1>3 DEF Parts, ParserInv, Opened
  <2>2. Terminated(file) \in Nat
    BY <2>1, FileFacts
  <2>3. Frame(0)' = <<>>
    <3>1. Frame(0)' = [m \in 1 .. 0 |-> RowOf(m)']
      BY DEF Frame
    <3> DEFINE s == [m \in 1 .. 0 |-> RowOf(m)']
    <3>2. s = [m \in 1 .. 0 |-> s[m]]
      OBVIOUS
    <3> HIDE DEF s
    <3>3. s = <<>>
      BY <3>2, EmptyFunction
    <3> QED
      BY <3>1, <3>3 DEF s
  <2>4. ASSUME main' # "exit" PROVE row' = [c \in 1 .. numCols' |-> row'[c]]
    BY <1>2, <2>1, <2>4
  <2>5. /\ 0 \in 0 .. Terminated(file') /\ 0 \in 0 .. numCols' - 1 /\ 1 .. 0 = {}
    BY <2>1, <2>2
  <2> QED
    BY <1>1, <1>2, <2>3, <2>4, <2>5 DEF Filling
<1> QED
  BY <1>1, <1>2, <1>3, <1>4, <1>5, <1>6 DEF MainInv, Parts
-----------------------------------------------------------------------------
\* A file that is no longer than the sample stays in its first window.
LEMMA SmallFile ==
  ASSUME ParserInv, AsSampled(file), Terminated(file) < SchemaLines,
         NEW at \in 0 .. Terminated(file), NEW col \in 1 .. numCols, GetColIdx(col, at)
  PROVE  answer'.is = "cell" /\ cache' = cache /\ cacheOffset' = cacheOffset
<1> DEFINE w == seekRow(at)
<1>1. state = "open" /\ file \in File /\ numCols \in Nat \ {0}
  BY DEF GetColIdx, ParserInv, Opened
<1>2. /\ CacheSize \in Nat \ {0} /\ Terminated(file) \in Nat /\ at \in Nat
      /\ at < CacheSize
  BY <1>1, FileFacts, SoRParserAssumption
<1>3. cacheOffset = 0 /\ cache = Rows(file, numCols, 0, Terminated(file) + 1)
  BY DEF AsSampled
<1>4. w = Held
  <2>1. (at \div CacheSize) * CacheSize = 0
    <3>1. at \div CacheSize = 0
      BY <1>2
    <3> QED
      BY <1>2, <3>1
  <2> QED
    BY <1>3, <2>1 DEF seekRow, Held
<1>5. Len(cache[1]) = Terminated(file) + 1
  <2> DEFINE r == Terminated(file) + 1
  <2>1. r \in Nat /\ numCols \in Nat /\ 1 \in 1 .. numCols /\ cache = Rows(file, numCols, 0, r)
    BY <1>1, <1>2, <1>3
  <2> HIDE DEF r
  <2>2. Len(cache[1]) = r
    BY <2>1, RowsShape
  <2> QED
    BY <2>2 DEF r
<1>6. /\ answer' = IF at >= w.offset + Len(w.cache[1])
                   THEN [col |-> col, row |-> at, is |-> "no row", cell |-> None]
                   ELSE [col |-> col, row |-> at, is |-> "cell",
                         cell |-> w.cache[col][(at % CacheSize) + 1]]
      /\ cacheOffset' = w.offset /\ cache' = w.cache
  <2>1. ~(col > numCols)
    BY <1>1
  <2> HIDE DEF w
  <2> QED
    BY <2>1, Zenon DEF GetColIdx, w
<1> HIDE DEF w
<1>7. w.offset = 0 /\ w.cache = cache
  BY <1>3, <1>4 DEF Held
<1>8. ~(at >= w.offset + Len(w.cache[1]))
  BY <1>2, <1>5, <1>7
<1>9. answer' = [col |-> col, row |-> at, is |-> "cell",
                 cell |-> w.cache[col][(at % CacheSize) + 1]]
  BY <1>6, <1>8
<1>10. answer'.is = "cell"
  BY <1>9
<1> QED
  BY <1>3, <1>6, <1>7, <1>10

LEMMA ConvertsWhen ==
  ASSUME NEW type \in 0 .. 3, NEW cell
  PROVE  /\ cell = None \/ type = TEXT => Converts(type, cell)
         /\ cell # None /\ type \in {BOOL, INT} =>
              (Converts(type, cell) <=> Convert(stoi, cell) \in {"whole", "front"})
         /\ cell # None /\ type = FLOAT =>
              (Converts(type, cell) <=> Convert(stof, cell) \in {"whole", "front"})
<1>0. BOOL = 0 /\ INT = 1 /\ FLOAT = 2 /\ TEXT = 3
  BY DEF BOOL, INT, FLOAT, TEXT
<1>1. CASE cell = None \/ type = TEXT
  <2>1. /\ ~(cell # None /\ type \in {BOOL, INT})
        /\ ~(cell # None /\ type = FLOAT)
    BY <1>0, <1>1
  <2> QED
    BY <1>1, <2>1, Zenon DEF Converts
<1>2. CASE cell # None /\ type \in {BOOL, INT}
  <2>1. ~(cell = None \/ type = TEXT) /\ ~(cell # None /\ type = FLOAT)
    BY <1>0, <1>2
  <2> QED
    BY <1>2, <2>1, Zenon DEF Converts
<1>3. CASE cell # None /\ type = FLOAT
  <2>1. ~(cell = None \/ type = TEXT) /\ ~(cell # None /\ type \in {BOOL, INT})
    BY <1>0, <1>3
  <2> QED
    BY <1>3, <2>1, Zenon DEF Converts
<1>4. (cell = None \/ type = TEXT) \/ (cell # None /\ type \in {BOOL, INT})
      \/ (cell # None /\ type = FLOAT)
  BY <1>0
<1> QED
  BY <1>1, <1>2, <1>3, <1>4, Zenon

(* A cell of a small file that does not convert to the type of its column  *)
(* is a number that no float can hold, or is empty in a column of numbers. *)
LEMMA Conforms ==
  ASSUME file \in File, AsSampled(file), Terminated(file) < SchemaLines,
         NEW n \in 0 .. Terminated(file), NEW c \in 1 .. numCols,
         colTypes[c] \in BOOL .. TEXT, ~Readable(c, Content(n, c))
  PROVE  \/ OutOfRange(Content(n, c))
         \/ Content(n, c) = None /\ colTypes[c] # TEXT
<1> DEFINE cell == Content(n, c)
           type == colTypes[c]
           count == AtMost(SchemaLines, Terminated(file) + 1)
<1> SUFFICES ASSUME ~(cell = None /\ type # TEXT) PROVE OutOfRange(cell)
  OBVIOUS
<1>0. BOOL = 0 /\ INT = 1 /\ FLOAT = 2 /\ TEXT = 3
  BY DEF BOOL, INT, FLOAT, TEXT
<1>1. /\ c \in 1 .. Width(Sample(file)) /\ type = SampledType(file, c)
      /\ Terminated(file) \in Nat /\ SchemaLines \in Nat
  BY FileFacts, SoRParserAssumption DEF AsSampled
<1>2. n + 1 \in 1 .. count /\ (n + 1) - 1 = n
  BY <1>1 DEF AtMost
<1>3. type < TEXT /\ cell # None => cellType(cell) <= type
  <2>1. SampledType(file, c) < TEXT =>
           \A m \in 1 .. count : Cell(parseFields(Line(file, m - 1)), c) # None =>
             cellType(Cell(parseFields(Line(file, m - 1)), c)) <= SampledType(file, c)
    BY <1>1, SampledTypes
  <2>2. cell = Cell(parseFields(Line(file, (n + 1) - 1)), c)
    BY <1>2 DEF Content
  <2> HIDE DEF cell, type, count
  <2> QED
    BY <1>1, <1>2, <2>1, <2>2
<1>4. ~Converts(type, cell)
  BY DEF Readable
<1>5. type \in 0 .. 3
  BY <1>0
<1> HIDE DEF cell, type, count
<1>6. cell # None /\ type # TEXT
  BY <1>4, <1>5, ConvertsWhen
<1>7. type \in 0 .. 2 /\ cellType(cell) <= type
  BY <1>0, <1>3, <1>5, <1>6
<1>8. /\ cellType(cell) \in 0 .. 4
      /\ cellType(cell) \in {BOOL, INT} => Convert(stoi, cell) = "whole"
      /\ cellType(cell) \in {BOOL, INT, FLOAT} => Convert(stof, cell) # "invalid"
      /\ Convert(stof, cell) \in {"whole", "front", "invalid", "range"}
  BY CellTypes, Conversions DEF Conversion
<1>9. CASE type \in {BOOL, INT}
  <2>1. Convert(stoi, cell) = "whole"
    BY <1>0, <1>7, <1>8, <1>9
  <2>2. Converts(type, cell)
    BY <1>5, <1>6, <1>9, <2>1, ConvertsWhen
  <2> QED
    BY <1>4, <2>2
<1>10. CASE type = FLOAT
  <2>1. Convert(stof, cell) # "invalid"
    BY <1>0, <1>7, <1>8, <1>10
  <2>2. Convert(stof, cell) \notin {"whole", "front"}
    BY <1>4, <1>5, <1>6, <1>10, ConvertsWhen
  <2> QED
    BY <1>6, <1>8, <2>1, <2>2 DEF OutOfRange
<1> QED
  BY <1>0, <1>7, <1>9, <1>10

LEMMA ReadStep == ASSUME MainInv, ReadCell PROVE MainInv'
<1>1. /\ main \in {"fill", "wide"} /\ user # "any" /\ state = "open" /\ ParserInv /\ FrameIsFile
      /\ AsSampled(file) /\ seenCaches[1] = 0 /\ Filling
  BY DEF ReadCell, MainInv
<1>2. file \in File /\ numCols \in Nat \ {0} /\ \A c \in 1 .. numCols : colTypes[c] \in BOOL .. TEXT
  BY <1>1 DEF ParserInv, Opened
<1>3. Terminated(file) \in Nat
  BY <1>2, FileFacts
<1>4. /\ i \in 0 .. Terminated(file) /\ j \in 0 .. numCols - 1
      /\ i \in Nat /\ j \in Nat /\ j + 1 \in Nat \ {0} /\ j + 1 \in 1 .. numCols
  BY <1>1, <1>2, <1>3 DEF Filling
<1>5. GetColIdx(j + 1, i) /\ user' = user
  BY DEF ReadCell, options
<1>6. /\ file' = file /\ numCols' = numCols /\ colTypes' = colTypes /\ state' = state
      /\ dataStart' = dataStart /\ dataSize' = dataSize
  BY <1>5 DEF GetColIdx, range, schema
<1>7. /\ ParserInv'
      /\ seenCaches'[1] = 0
      /\ answer'.is = "cell" =>
           /\ answer'.cell = Content(i, j + 1)
           /\ i < Terminated(file) \/ Terminated(file) < SchemaLines
  <2> DEFINE col == j + 1
  <2>1. col \in Nat \ {0} /\ GetColIdx(col, i)
    BY <1>4, <1>5
  <2> HIDE DEF col
  <2>2. /\ ParserInv' /\ seenCaches'[1] = seenCaches[1]
        /\ answer'.is = "cell" =>
             /\ answer'.cell = Cell(parseFields(Line(file, Base(file, seenCaches) + i)), col)
             /\ \/ seenCaches[1] = -1
                \/ Base(file, seenCaches) + i < Terminated(file)
                \/ Terminated(file) < SchemaLines
    BY <1>1, <1>4, <2>1, Answered
  <2>3. Base(file, seenCaches) = 0 /\ 0 + i = i /\ 0 # -1
    BY <1>1, <1>4 DEF Base
  <2> QED
    BY <1>1, <2>2, <2>3 DEF Content, col
<1>8. Terminated(file) < SchemaLines =>
        answer'.is = "cell" /\ cache' = cache /\ cacheOffset' = cacheOffset
  BY <1>1, <1>4, <1>5, SmallFile
<1>9. AsSampled(file)'
  BY <1>1, <1>6, <1>8 DEF AsSampled
<1>10. /\ \A n, c : Content(n, c)' = Content(n, c)
       /\ \A n : RowOf(n)' = RowOf(n) /\ Frame(n)' = Frame(n)
  BY <1>6 DEF RowOf, Frame, Content
<1>11. IF answer'.is = "cell" /\ Readable(j + 1, answer'.cell)
       THEN /\ row' = [row EXCEPT ![j + 1] = AsString(colTypes[j + 1], answer'.cell)]
            /\ IF j + 1 < numCols
               THEN j' = j + 1 /\ UNCHANGED <<i, df, main>>
               ELSE \/ /\ main = "wide" /\ main' = "crashed"
                       /\ UNCHANGED <<i, j, df>>
                    \/ /\ df' = Append(df, row')
                       /\ i' = i + 1
                       /\ j' = 0
                       /\ main' = IF i + 1 = numRows THEN "done" ELSE main
       ELSE main' = "thrown" /\ UNCHANGED <<i, j, row, df>>
  BY DEF ReadCell
<1>12. CASE ~(answer'.is = "cell" /\ Readable(j + 1, answer'.cell))
  <2>1. main' = "thrown" /\ df' = df /\ i' = i
    BY <1>11, <1>12
  <2>2. FrameIsFile'
    BY <1>1, <1>6, <1>10, <2>1 DEF FrameIsFile
  <2>3. SampleIsRead'
    <3>1. CASE ~(Terminated(file) < SchemaLines)
      <4>1. numRows' > SchemaLines
        BY <1>3, <1>6, <3>1, SoRParserAssumption DEF numRows
      <4> QED
        BY <4>1 DEF SampleIsRead
    <3>2. CASE Terminated(file) < SchemaLines
      <4>1. ~Readable(j + 1, Content(i, j + 1))
        BY <1>7, <1>8, <1>12, <3>2
      <4> DEFINE c == j + 1
      <4>2. c \in 1 .. numCols /\ colTypes[c] \in BOOL .. TEXT /\ ~Readable(c, Content(i, c))
        BY <1>2, <1>4, <4>1
      <4> HIDE DEF c
      <4>3. \/ OutOfRange(Content(i, c))
            \/ Content(i, c) = None /\ colTypes[c] # TEXT
        BY <1>1, <1>2, <1>4, <3>2, <4>2, Conforms
      <4>4. /\ i \in 0 .. numRows' - 1 /\ c \in 1 .. Width(Sample(file'))
        BY <1>1, <1>3, <1>4, <1>6, <4>2 DEF numRows, AsSampled
      <4>5. c <= numCols
        BY <1>2, <4>2
      <4>6. \E n \in 0 .. numRows' - 1, b \in 1 .. Width(Sample(file')) :
              \/ OutOfRange(Content(n, b))
              \/ /\ Content(n, b) = None
                 /\ b <= numCols' /\ colTypes'[b] # TEXT
        BY <1>6, <4>3, <4>4, <4>5
      <4> QED
        BY <1>6, <4>6 DEF SampleIsRead, OutOfRange, Content
    <3> QED
      BY <3>1, <3>2
  <2> QED
    BY <1>1, <1>5, <1>6, <1>7, <1>9, <2>1, <2>2, <2>3 DEF MainInv, OnlySampleIsRead
<1>13. CASE answer'.is = "cell" /\ Readable(j + 1, answer'.cell)
  <2>1. /\ row' = [row EXCEPT ![j + 1] = AsString(colTypes[j + 1], Content(i, j + 1))]
        /\ IF j + 1 < numCols
           THEN j' = j + 1 /\ UNCHANGED <<i, df, main>>
           ELSE \/ /\ main = "wide" /\ main' = "crashed"
                   /\ UNCHANGED <<i, j, df>>
                \/ /\ df' = Append(df, row')
                   /\ i' = i + 1
                   /\ j' = 0
                   /\ main' = IF i + 1 = numRows THEN "done" ELSE main
    BY <1>7, <1>11, <1>13
  <2>2. /\ row = [c \in 1 .. numCols |-> row[c]] /\ df = Frame(i)
        /\ \A c \in 1 .. j : row[c] = AsString(colTypes[c], Content(i, c))
    BY <1>1 DEF Filling
  <2>3. /\ row' = [c \in 1 .. numCols |-> row'[c]]
        /\ \A c \in 1 .. j + 1 : row'[c] = AsString(colTypes[c], Content(i, c))
    <3>1. row' = [c \in 1 .. numCols |-> row'[c]]
      BY <2>1, <2>2
    <3>2. ASSUME NEW c \in 1 .. j + 1 PROVE row'[c] = AsString(colTypes[c], Content(i, c))
      <4>1. CASE c = j + 1
        BY <1>4, <2>1, <2>2, <4>1
      <4>2. CASE c # j + 1
        <5>1. c \in 1 .. j /\ c \in 1 .. numCols
          BY <1>2, <1>4, <4>2
        <5> QED
          BY <2>1, <2>2, <4>2, <5>1
      <4> QED
        BY <4>1, <4>2
    <3> QED
      BY <3>1, <3>2
  <2>4. CASE j + 1 < numCols
    <3>1. j' = j + 1 /\ i' = i /\ df' = df /\ main' = main
      BY <2>1, <2>4
    <3>2. Filling'
      <4>1. j' \in 0 .. numCols' - 1 /\ i' \in 0 .. Terminated(file')
        BY <1>2, <1>4, <1>6, <2>4, <3>1
      <4>2. df' = Frame(i)'
        BY <1>6, <2>2, <3>1 DEF Frame, RowOf, Content
      <4>3. row' = [c \in 1 .. numCols' |-> row'[c]]
        BY <1>6, <2>3
      <4>4. \A c \in 1 .. j' : row'[c] = AsString(colTypes'[c], Content(i, c)')
        BY <1>6, <2>3, <3>1 DEF Content
      <4> QED
        BY <3>1, <4>1, <4>2, <4>3, <4>4 DEF Filling
    <3>3. FrameIsFile'
      BY <1>1, <1>6, <1>10, <3>1 DEF FrameIsFile
    <3> QED
      BY <1>1, <1>5, <1>6, <1>7, <1>9, <3>1, <3>2, <3>3
         DEF MainInv, SampleIsRead, OnlySampleIsRead
  \* add_row of a wide frame crashes.
  <2>5. CASE ~(j + 1 < numCols) /\ main' = "crashed"
    <3>1. df' = df /\ i' = i /\ j' = j
      BY <1>1, <2>1, <2>5
    <3>2. FrameIsFile'
      BY <1>1, <1>6, <1>10, <3>1 DEF FrameIsFile
    <3> QED
      BY <1>1, <1>5, <1>6, <1>7, <1>9, <2>5, <3>1, <3>2
         DEF MainInv, SampleIsRead, OnlySampleIsRead
  <2>6. CASE ~(j + 1 < numCols) /\ main' # "crashed"
    <3>1. /\ df' = Append(df, row') /\ i' = i + 1 /\ j' = 0
          /\ main' = IF i + 1 = numRows THEN "done" ELSE main
      BY <1>1, <2>1, <2>6
    <3>2. j + 1 = numCols
      BY <1>2, <1>4, <2>6
    <3>3. row' = RowOf(i + 1)
      <4>1. (i + 1) - 1 = i
        BY <1>4
      <4> QED
        BY <2>3, <3>2, <4>1 DEF RowOf
    <3>4. df' = Frame(i + 1) /\ i + 1 \in Nat
      BY <1>4, <2>2, <3>1, <3>3, FrameRows
    <3>5. Len(df') = i + 1 /\ FrameIsFile'
      <4> DEFINE n == i + 1
      <4>1. n \in Nat /\ df' = Frame(n)
        BY <3>4
      <4> HIDE DEF n
      <4>2. Len(df') = n
        BY <4>1, FrameRows
      <4>3. DOMAIN df' = 1 .. n /\ \A m \in 1 .. n : df'[m] = RowOf(m)
        BY <4>1 DEF Frame
      <4>4. \A m \in DOMAIN df' : \A c \in 1 .. numCols :
              df'[m][c] = AsString(colTypes[c], Content(m - 1, c))
        BY <4>3 DEF RowOf
      <4> QED
        BY <1>6, <1>10, <4>2, <4>4 DEF FrameIsFile, n
    <3>6. CASE i + 1 = numRows
      <4>1. main' = "done"
        BY <3>1, <3>6
      <4>2. i = Terminated(file)
        BY <1>3, <1>4, <3>6 DEF numRows
      <4>3. Terminated(file) < SchemaLines
        BY <1>3, <1>4, <1>7, <1>13, <4>2
      <4>4. numRows' = numRows /\ numRows <= SchemaLines
        BY <1>3, <1>6, <4>3, SoRParserAssumption DEF numRows
      <4> QED
        BY <1>1, <1>5, <1>6, <1>7, <1>9, <3>5, <3>6, <4>1, <4>4
           DEF MainInv, SampleIsRead, OnlySampleIsRead
    <3>7. CASE i + 1 # numRows
      <4>1. main' \in {"fill", "wide"}
        BY <1>1, <3>1, <3>7
      <4>2. Filling'
        <5>1. i' \in 0 .. Terminated(file') /\ j' \in 0 .. numCols' - 1
          BY <1>2, <1>3, <1>4, <1>6, <3>1, <3>7 DEF numRows
        <5>2. df' = Frame(i)'
          BY <1>6, <3>1, <3>4 DEF Frame, RowOf, Content
        <5>3. row' = [c \in 1 .. numCols' |-> row'[c]]
          BY <1>6, <2>3
        <5>4. 1 .. j' = {}
          BY <3>1
        <5> QED
          BY <5>1, <5>2, <5>3, <5>4 DEF Filling
      <4> QED
        BY <1>1, <1>5, <1>6, <1>7, <1>9, <3>5, <4>1, <4>2
           DEF MainInv, SampleIsRead, OnlySampleIsRead
    <3> QED
      BY <3>6, <3>7
  <2> QED
    BY <2>4, <2>5, <2>6
<1> QED
  BY <1>12, <1>13
-----------------------------------------------------------------------------
\* The flags of a command line before position m: the last of them that is flag.
FlagsBefore(a, m, flag) == {n \in DOMAIN a : n % 2 = 1 /\ n < m /\ a[n] = flag}

GivenBefore(a, m, flag) == LastValue(a, FlagsBefore(a, m, flag))

(* What was read are flags with their values: the next argument is to be a *)
(* flag, or there is none.                                                 *)
Places == /\ argv \in Seq(Arg)
          /\ parsing \in {"yes", "parsed", "exit", "thrown"}
          /\ parsing \in {"yes", "parsed"} =>
               /\ optIdx \in 1 .. Len(argv) + 1
               /\ optIdx % 2 = 1
               /\ \A n \in 1 .. optIdx - 1 : n % 2 = 1 => argv[n] \in Flag
          /\ parsing = "parsed" => optIdx = Len(argv) + 1

(* What was kept are the values of the last flags of each kind so far.     *)
Kept == parsing \in {"yes", "parsed"} =>
          /\ filename = GivenBefore(argv, optIdx, "-f")
          /\ num_nodes = GivenBefore(argv, optIdx, "-n")

(* The name of eau2 lives as long as its option is the last one read.      *)
Alive == /\ nameAlive \in BOOLEAN
         /\ parsing = "yes" =>
              (nameAlive <=>
                 (user = "sor-main" \/ filename = "" \/ opt.first = "-f"))
         /\ parsing = "parsed" =>
              (nameAlive <=> (user = "sor-main" \/ filename = ""))

OInv == Places /\ Kept /\ Alive
-----------------------------------------------------------------------------
(* The largest element of a set of numbers is what CHOOSE finds.           *)
LEMMA LargestChosen ==
  ASSUME NEW S, S \subseteq Nat, NEW x \in S, \A m \in S : m <= x
  PROVE  (CHOOSE n \in S : \A m \in S : m <= n) = x
<1>1. \A y \in S : (\A m \in S : m <= y) => y = x
  OBVIOUS
<1>2. \E y \in S : \A m \in S : m <= y
  OBVIOUS
<1> QED
  BY <1>1, <1>2

(* A flag and its value that are read next become the last ones given of   *)
(* their kind, and leave the others as they are.                           *)
LEMMA OneFlagMore ==
  ASSUME NEW a \in Seq(Arg), NEW m \in Nat, m % 2 = 1, m \in 1 .. Len(a) - 1,
         NEW flag
  PROVE  GivenBefore(a, m + 2, flag) =
           IF a[m] = flag THEN a[m + 1] ELSE GivenBefore(a, m, flag)
<1>1. FlagsBefore(a, m + 2, flag) = FlagsBefore(a, m, flag) \cup
                                  (IF a[m] = flag THEN {m} ELSE {})
  <2>1. DOMAIN a = 1 .. Len(a)
    OBVIOUS
  <2>2. \A n \in Nat : n % 2 = 1 => (n < m + 2 <=> (n < m \/ n = m))
    OBVIOUS
  <2> QED
    BY <2>1, <2>2 DEF FlagsBefore
<1>2. CASE a[m] # flag
  <2>1. FlagsBefore(a, m + 2, flag) = FlagsBefore(a, m, flag)
    BY <1>1, <1>2
  <2> QED
    BY <2>1, <1>2, Zenon DEF GivenBefore
<1>3. CASE a[m] = flag
  <2>1. /\ m \in FlagsBefore(a, m + 2, flag)
        /\ FlagsBefore(a, m + 2, flag) \subseteq Nat
        /\ \A k \in FlagsBefore(a, m + 2, flag) : k <= m
    BY <1>1, <1>3 DEF FlagsBefore
  <2>2. (CHOOSE n \in FlagsBefore(a, m + 2, flag) :
           \A k \in FlagsBefore(a, m + 2, flag) : k <= n) = m
    BY <2>1, LargestChosen
  <2> QED
    BY <2>1, <2>2, <1>3 DEF GivenBefore, LastValue
<1> QED
  BY <1>2, <1>3

(* At the end of the command line all flags have been seen.                *)
LEMMA AllFlags ==
  ASSUME NEW a \in Seq(Arg), NEW flag
  PROVE  GivenBefore(a, Len(a) + 1, flag) = Given(a, flag)
<1>1. FlagsBefore(a, Len(a) + 1, flag) =
        {n \in DOMAIN a : n % 2 = 1 /\ a[n] = flag}
  BY DEF FlagsBefore
<1> QED
  BY <1>1, Zenon DEF GivenBefore, Given
-----------------------------------------------------------------------------
LEMMA OptionsInitially == InitOptions => OInv
<1> SUFFICES ASSUME InitOptions PROVE OInv
  OBVIOUS
<1>1. argv \in Seq(Arg) /\ optIdx = 1 /\ parsing = "yes"
  BY OptionsAssumption DEF InitOptions
<1>2. \A flag : FlagsBefore(argv, 1, flag) = {}
  BY <1>1 DEF FlagsBefore
<1>3. Kept
  BY <1>1, <1>2 DEF InitOptions, Kept, GivenBefore, LastValue
<1>4. Places
  BY <1>1 DEF Places
<1>5. Alive
  BY DEF Alive, InitOptions
<1> QED
  BY <1>3, <1>4, <1>5 DEF OInv

(* The three outcomes of a round: the end, a flag with its value, or none. *)
LEMMA Outcomes ==
  ASSUME Places, NextOption
  PROVE  \/ /\ optIdx = Len(argv) + 1
            /\ opt'.first = "" /\ optIdx' = optIdx /\ parsing' = "parsed"
            /\ filename' = filename /\ num_nodes' = num_nodes
         \/ /\ optIdx \in 1 .. Len(argv) - 1 /\ argv[optIdx] \in Flag
            /\ opt'.first = argv[optIdx] /\ optIdx' = optIdx + 2
            /\ parsing' \in {"yes", "thrown"}
            /\ filename' = IF argv[optIdx] = "-f" THEN argv[optIdx + 1] ELSE filename
            /\ num_nodes' = IF argv[optIdx] = "-n" THEN argv[optIdx + 1] ELSE num_nodes
         \/ parsing' = "exit"
<1> USE DEF Flag, IsOption
<1>0. /\ parsing = "yes" /\ argv \in Seq(Arg)
      /\ optIdx \in 1 .. Len(argv) + 1
  BY DEF Places, NextOption
<1>1. CASE optIdx = Len(argv) + 1
  <2>1. getOpt = [opt |-> [first |-> "", second |-> <<>>], idx |-> optIdx]
    <3>1. optIdx > Len(argv) /\ ~(optIdx < Len(argv)) /\ ~(optIdx <= Len(argv))
      BY <1>0, <1>1
    <3> QED
      BY <3>1, Zenon DEF getOpt
  <2> QED
    BY <1>0, <1>1, <2>1 DEF NextOption
<1>2. CASE optIdx \in 1 .. Len(argv) - 1 /\ argv[optIdx] \in Flag
  <2>1. getOpt = [opt |-> [first |-> argv[optIdx], second |-> <<argv[optIdx + 1]>>],
                  idx |-> optIdx + 2]
    <3>1. /\ ~(optIdx > Len(argv)) /\ optIdx < Len(argv) /\ optIdx <= Len(argv)
          /\ argv[optIdx] \in Flag /\ argv[optIdx] \in IsOption
      BY <1>0, <1>2
    <3> HIDE DEF Flag, IsOption
    <3> QED
      BY <3>1, Zenon DEF getOpt
  <2>2. /\ opt'.first = argv[optIdx] /\ opt'.second[1] = argv[optIdx + 1]
        /\ optIdx' = optIdx + 2
    BY <2>1 DEF NextOption
  <2>3. parsing' \in {"yes", "thrown"}
    BY <1>2, <2>2 DEF NextOption
  <2> QED
    BY <1>0, <1>2, <2>2, <2>3 DEF NextOption
<1>3. CASE optIdx \in 1 .. Len(argv) /\ argv[optIdx] \notin IsOption
  <2>1. getOpt = [opt |-> [first |-> "non-flag", second |-> <<argv[optIdx]>>],
                  idx |-> optIdx + 1]
    <3>1. /\ ~(optIdx > Len(argv)) /\ optIdx <= Len(argv)
          /\ argv[optIdx] \notin Flag /\ argv[optIdx] \notin IsOption
      BY <1>0, <1>3
    <3> HIDE DEF Flag, IsOption
    <3> QED
      BY <3>1, Zenon DEF getOpt
  <2> QED
    BY <2>1 DEF NextOption
<1>4. CASE /\ optIdx \in 1 .. Len(argv) /\ argv[optIdx] \in IsOption
           /\ ~(optIdx \in 1 .. Len(argv) - 1 /\ argv[optIdx] \in Flag)
  <2>1. getOpt = [opt |-> [first |-> "?", second |-> <<>>], idx |-> optIdx + 1]
    <3>1. /\ ~(optIdx > Len(argv))
          /\ ~(optIdx < Len(argv) /\ argv[optIdx] \in Flag)
          /\ ~(optIdx <= Len(argv) /\ argv[optIdx] \notin IsOption)
      BY <1>0, <1>4
    <3> HIDE DEF Flag, IsOption
    <3> QED
      BY <3>1, Zenon DEF getOpt
  <2> QED
    BY <2>1 DEF NextOption
<1>5. \/ optIdx = Len(argv) + 1
      \/ optIdx \in 1 .. Len(argv) - 1 /\ argv[optIdx] \in Flag
      \/ optIdx \in 1 .. Len(argv) /\ argv[optIdx] \notin IsOption
      \/ /\ optIdx \in 1 .. Len(argv) /\ argv[optIdx] \in IsOption
         /\ ~(optIdx \in 1 .. Len(argv) - 1 /\ argv[optIdx] \in Flag)
  BY <1>0
<1> HIDE DEF Flag, IsOption
<1> QED
  BY <1>1, <1>2, <1>3, <1>4, <1>5, Zenon

LEMMA OptionsInductive == OInv /\ [NextOption]_options => OInv'
<1> SUFFICES ASSUME OInv, [NextOption]_options PROVE OInv'
  OBVIOUS
<1>1. CASE UNCHANGED options
  BY <1>1 DEF OInv, Places, Kept, Alive, options
<1>2. CASE NextOption
  <2>0. /\ argv' = argv /\ user' = user /\ parsing = "yes"
        /\ argv \in Seq(Arg) /\ optIdx % 2 = 1
        /\ optIdx \in 1 .. Len(argv) + 1
        /\ \A n \in 1 .. optIdx - 1 : n % 2 = 1 => argv[n] \in Flag
    BY <1>2 DEF OInv, Places, NextOption
  <2>1. CASE /\ optIdx = Len(argv) + 1
             /\ opt'.first = "" /\ optIdx' = optIdx /\ parsing' = "parsed"
             /\ filename' = filename /\ num_nodes' = num_nodes
    <3>1. Places'
      BY <2>0, <2>1 DEF Places
    <3>2. Kept'
      BY <2>0, <2>1 DEF OInv, Kept
    <3>3. nameAlive' <=> (user = "sor-main" \/ filename = "")
      BY <1>2, <2>1 DEF NextOption
    <3>4. Alive'
      BY <1>2, <2>0, <2>1, <3>3 DEF Alive, NextOption
    <3> QED
      BY <3>1, <3>2, <3>4 DEF OInv
  <2>2. CASE /\ optIdx \in 1 .. Len(argv) - 1 /\ argv[optIdx] \in Flag
             /\ opt'.first = argv[optIdx] /\ optIdx' = optIdx + 2
             /\ parsing' \in {"yes", "thrown"}
             /\ filename' = IF argv[optIdx] = "-f" THEN argv[optIdx + 1] ELSE filename
             /\ num_nodes' = IF argv[optIdx] = "-n" THEN argv[optIdx + 1] ELSE num_nodes
    <3>1. Places'
      BY <2>0, <2>2 DEF Places
    <3>2. \A flag : GivenBefore(argv, optIdx + 2, flag) =
             IF argv[optIdx] = flag THEN argv[optIdx + 1] ELSE GivenBefore(argv, optIdx, flag)
      BY <2>0, <2>2, OneFlagMore
    <3>4. Kept'
      BY <2>0, <2>2, <3>2 DEF OInv, Kept
    <3>5. argv[optIdx + 1] # ""
      <4>1. argv[optIdx + 1] \in Arg
        BY <2>0, <2>2
      <4> QED
        BY <4>1, OptionsAssumption
    <3>6. nameAlive' <=> (user = "sor-main" \/ argv[optIdx] = "-f" \/ filename = "")
      BY <1>2, <2>2 DEF NextOption
    <3>7. Alive'
      BY <1>2, <2>0, <2>2, <3>5, <3>6 DEF Alive, NextOption
    <3> QED
      BY <3>1, <3>4, <3>7 DEF OInv
  <2>3. CASE parsing' = "exit"
    BY <1>2, <2>0, <2>3 DEF OInv, Places, Kept, Alive, NextOption
  <2> QED
    BY <1>2, <2>1, <2>2, <2>3, Outcomes DEF OInv
<1> QED
  BY <1>1, <1>2

LEMMA OptionsImplied == OInv => OptionsAsGiven
<1> SUFFICES ASSUME OInv, parsing = "parsed"
             PROVE  /\ WellFormed(argv)
                    /\ filename = Given(argv, "-f") /\ num_nodes = Given(argv, "-n")
                    /\ nameAlive <=> (user = "sor-main" \/ filename = "")
  BY DEF OptionsAsGiven
<1>1. /\ argv \in Seq(Arg) /\ optIdx = Len(argv) + 1 /\ optIdx % 2 = 1
      /\ \A n \in 1 .. optIdx - 1 : n % 2 = 1 => argv[n] \in Flag
  BY DEF OInv, Places
<1>2. WellFormed(argv)
  BY <1>1 DEF WellFormed
<1>3. filename = Given(argv, "-f") /\ num_nodes = Given(argv, "-n")
  BY <1>1, AllFlags DEF OInv, Kept
<1> QED
  BY <1>2, <1>3 DEF OInv, Alive

(* A command line of any length is accepted only if it is flags with their *)
(* values, the last value of each flag counts, and eau2 loses the name of  *)
(* its file while sor-main keeps it (getOpt and its callers).              *)
THEOREM CommandLineAsGiven == OptionsSpec => []OptionsAsGiven
  BY OptionsInitially, OptionsInductive, OptionsImplied, PTL DEF OptionsSpec
-----------------------------------------------------------------------------
\* Together.

LEMMA MainInductive == ASSUME ~RangeAnytime PROVE MainInv /\ [MainNext]_allVars => MainInv'
  BY ClientStep, OptionStep, OpenStep, SchemaStep, ReadStep DEF MainNext

LEMMA MainAlways == ASSUME ~RangeAnytime PROVE MainSpec => []MainInv
<1>1. MainInit => MainInv
  BY MainInitially
<1>2. MainInv /\ [MainNext]_allVars => MainInv'
  BY MainInductive
<1> QED
  BY <1>1, <1>2, PTL DEF MainSpec

(* The type invariant: the window has as many columns as the schema, which *)
(* are equally long and fit it, and the types of a schema that is there    *)
(* are none that throw (initialize, fillCache, balanceCache).              *)
THEOREM TypeCorrect == ASSUME ~RangeAnytime PROVE MainSpec => []TypeOK
<1>1. MainInv => TypeOK
  BY Types DEF MainInv
<1> QED
  BY <1>1, MainAlways, PTL

(* In lines of one and two cells, what is read is what was written, with   *)
(* quotes or without, spaces around or between (parseFields), for cells of *)
(* any length.                                                             *)
THEOREM ReadAsWritten == MainSpec => []FieldsAsWritten
<1>1. FieldsAsWritten
  BY LinesAsWritten DEF FieldsAsWritten
<1> QED
  BY <1>1, PTL

(* Whatever rows were asked for before, a cell that is found is the one of *)
(* its row and column (getColIdx, seekRow, loadCache, fillCache).          *)
THEOREM CellsOfTheirLines == ASSUME ~RangeAnytime PROVE MainSpec => []CellOfLine
<1>1. MainInv => CellOfLine
  BY DEF MainInv, ParserInv, Opened, Unopened, NoAnswer, CellOfLine
<1> QED
  BY <1>1, MainAlways, PTL

(* A row is not found only at or behind the end of the range (getColIdx    *)
(* and loadCache, which may stop at a window before the one asked for).    *)
THEOREM RowsAreFound == ASSUME ~RangeAnytime PROVE MainSpec => []RowFound
<1>1. MainInv => RowFound
  <2>1. answer = NoAnswer => RowFound
    BY DEF NoAnswer, RowFound
  <2> QED
    BY <2>1 DEF MainInv, ParserInv, Opened, Unopened
<1> QED
  BY <1>1, MainAlways, PTL

(* The rows of the frame that main fills are the lines of the file, in     *)
(* order, each cell converted to the type of its column.                   *)
THEOREM FrameOfFile == ASSUME ~RangeAnytime PROVE MainSpec => []FrameIsFile
<1>1. MainInv => FrameIsFile
  BY DEF MainInv
<1> QED
  BY <1>1, MainAlways, PTL

(* A file no longer than the sample is read to its end, unless a number is *)
(* out of range or a column of numbers lacks a cell: the types that        *)
(* findColType finds fit the conversions of getColIdxStr and main.         *)
THEOREM SampleFits == ASSUME ~RangeAnytime PROVE MainSpec => []SampleIsRead
<1>1. MainInv => SampleIsRead
  BY DEF MainInv
<1> QED
  BY <1>1, MainAlways, PTL

(* No longer file is: main counts a last line that fillCache never reads   *)
(* outside the sample.                                                     *)
THEOREM OnlySamplesAreRead == ASSUME ~RangeAnytime PROVE MainSpec => []OnlySampleIsRead
<1>1. MainInv => OnlySampleIsRead
  BY DEF MainInv
<1> QED
  BY <1>1, MainAlways, PTL

(* main leaves the options as their loop has found them, and no other      *)
(* action of the program changes them.                                     *)
THEOREM OptionsOfMain == MainSpec => []OptionsAsGiven
<1>1. MainInit => OInv
  BY OptionsInitially DEF MainInit
<1>2. [MainNext]_allVars => [NextOption]_options
  BY DEF MainNext, AnyClient, Option, Open, MakeSchema, ReadCell, allVars
<1>3. OInv /\ [MainNext]_allVars => OInv'
  BY <1>2, OptionsInductive
<1> QED
  BY <1>1, <1>3, OptionsImplied, PTL DEF MainSpec
=============================================================================
