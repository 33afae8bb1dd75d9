--------------------------- MODULE SequenceFacts ----------------------------
(***************************************************************************)
(* Facts about numbers and sequences that the proofs about FromVisitor     *)
(* and Summer rest on: induction and least numbers, division, sequences as *)
(* functions, sorted sets, and sequences that are laid one behind another. *)
(***************************************************************************)
EXTENDS SortedSets, SequencesExt, SequenceTheorems, FiniteSetTheorems, TLAPS
-----------------------------------------------------------------------------
(***************************************************************************)
(* Numbers.                                                                *)
(***************************************************************************)
\* The least of some numbers exists.
LEMMA LeastNumber ==
  ASSUME NEW Q, Q \subseteq Nat, Q # {}
  PROVE  \E x \in Q : \A y \in Q : x <= y
<1> DEFINE R == OpToRel(<, Nat)
<1>1. IsWellFoundedOn(R, Nat)
  BY NatLessThanWellFounded
<1>2. \A x, y \in Nat : y < x => <<y, x>> \in R
  BY DEF OpToRel
<1> HIDE DEF R
<1>3. PICK x \in Q : \A y \in Q : ~ (<<y, x>> \in R)
  BY <1>1, WFMin
<1>4. \A y \in Q : y \in Nat /\ x \in Nat /\ ~ (y < x)
  BY <1>2, <1>3
<1>5. \A y \in Q : x <= y
  BY <1>4
<1> QED
  BY <1>5

\* What holds of 0, and of a number's successor when it holds of the number,
\* holds of all numbers: Q are those of which it holds.
LEMMA AllNumbers ==
  ASSUME NEW Q, 0 \in Q, \A m \in Nat : m \in Q => m + 1 \in Q
  PROVE  Nat \subseteq Q
<1> SUFFICES ASSUME NEW n \in Nat, n \notin Q PROVE FALSE
  OBVIOUS
<1> DEFINE Z == Nat \ Q
<1>1. PICK x \in Z : \A y \in Z : x <= y
  <2>1. Z \subseteq Nat /\ Z # {}
    OBVIOUS
  <2> HIDE DEF Z
  <2> QED
    BY <2>1, LeastNumber
<1>2. x # 0 /\ x \in Nat
  BY <1>1
<1>3. x - 1 \in Nat /\ x - 1 \notin Z
  BY <1>1, <1>2
<1> QED
  BY <1>1, <1>2, <1>3

\* The least of some numbers is Min.
LEMMA LeastIs ==
  ASSUME NEW Q, Q \subseteq Nat, Q # {}
  PROVE  Min(Q) \in Q /\ \A n \in Q : Min(Q) <= n
<1>1. \E x \in Q : \A y \in Q : x <= y
  BY LeastNumber
<1> QED
  BY <1>1 DEF Min

\* The largest of some numbers that are bounded exists, and is Max.
LEMMA LargestNumber ==
  ASSUME NEW Q, Q \subseteq Nat, Q # {}, NEW b \in Nat, \A y \in Q : y <= b
  PROVE  Max(Q) \in Q /\ \A y \in Q : Max(Q) >= y
<1> DEFINE U == {u \in Nat : \A y \in Q : y <= u}
<1>1. PICK x \in U : \A u \in U : x <= u
  <2>1. U \subseteq Nat /\ U # {}
    OBVIOUS
  <2> HIDE DEF U
  <2> QED
    BY <2>1, LeastNumber
<1>2. x \in Q
  <2>1. SUFFICES ASSUME x \notin Q PROVE FALSE
    OBVIOUS
  <2>2. x \in Nat /\ \A y \in Q : y < x
    BY <1>1, <2>1
  <2>3. x # 0
    <3>1. PICK y \in Q : TRUE
      OBVIOUS
    <3>2. y \in Nat /\ y < x
      BY <2>2
    <3> QED
      BY <2>2, <3>2
  <2>4. x - 1 \in U
    BY <2>2, <2>3
  <2> QED
    BY <1>1, <2>2, <2>4
<1>3. \E m \in Q : \A y \in Q : m >= y
  BY <1>1, <1>2
<1> QED
  BY <1>3 DEF Max

LEMMA Division ==
  ASSUME NEW a \in Nat, NEW b \in Nat \ {0}
  PROVE  /\ a \div b \in Nat
         /\ (a \div b) * b <= a /\ a < (a \div b) * b + b
         /\ a % b = a - (a \div b) * b
OBVIOUS

LEMMA Products ==
  ASSUME NEW a \in Int, NEW p \in Nat \ {0}
  PROVE  /\ a * p \in Int
         /\ (a + 1) * p = a * p + p
         /\ (a - 1) * p = a * p - p
OBVIOUS

LEMMA Ordered ==
  ASSUME NEW a \in Int, NEW b \in Int, NEW p \in Nat \ {0}, a < b
  PROVE  a * p + p <= b * p
<1>1. b * p = a * p + (b - a) * p
  OBVIOUS
<1>2. (b - a) * p >= p
  OBVIOUS
<1> QED
  BY <1>1, <1>2

\* A number has one quotient.
LEMMA OneQuotient ==
  ASSUME NEW p \in Nat \ {0}, NEW x \in Int, NEW a \in Int, NEW b \in Int,
         a * p <= x, x < a * p + p, b * p <= x, x < b * p + p
  PROVE  a = b
<1>1. a * p \in Int /\ b * p \in Int
  BY Products
<1>2. CASE a < b
  BY <1>1, <1>2, Ordered
<1>3. CASE b < a
  BY <1>1, <1>3, Ordered
<1> QED
  BY <1>2, <1>3

-----------------------------------------------------------------------------
(***************************************************************************)
(* Sequences.                                                              *)
(***************************************************************************)
IsSeq(s) == Len(s) \in Nat /\ s = [k \in 1 .. Len(s) |-> s[k]]

LEMMA FunctionIsSeq ==
  ASSUME NEW n \in Nat, NEW s, s = [k \in 1 .. n |-> s[k]]
  PROVE  IsSeq(s) /\ Len(s) = n
<1> DEFINE S == {s[k] : k \in 1 .. n}
<1>1. s \in [1 .. n -> S]
  OBVIOUS
<1> HIDE DEF S
<1>2. s \in Seq(S)
  BY <1>1, SeqDef
<1>3. DOMAIN s = 1 .. Len(s) /\ Len(s) \in Nat /\ DOMAIN s = 1 .. n
  BY <1>2, LenProperties
<1>4. Len(s) = n
  BY <1>3
<1> QED
  BY <1>3, <1>4 DEF IsSeq

LEMMA SeqOfElements ==
  ASSUME NEW s, IsSeq(s)
  PROVE  \A S : (\A k \in 1 .. Len(s) : s[k] \in S) => s \in Seq(S)
<1>1. SUFFICES ASSUME NEW S, \A k \in 1 .. Len(s) : s[k] \in S PROVE s \in Seq(S)
  OBVIOUS
<1>2. s \in [1 .. Len(s) -> S] /\ Len(s) \in Nat
  BY <1>1 DEF IsSeq
<1> QED
  BY <1>2, SeqDef

LEMMA SeqIsSeq == ASSUME NEW S, NEW s \in Seq(S) PROVE IsSeq(s)
  BY LenProperties DEF IsSeq

LEMMA SameSeq ==
  ASSUME NEW s, IsSeq(s), NEW t, IsSeq(t), Len(s) = Len(t),
         \A k \in 1 .. Len(s) : s[k] = t[k]
  PROVE  s = t
  BY DEF IsSeq

\* One element more.
LEMMA AppendIs ==
  ASSUME NEW s, IsSeq(s), NEW e
  PROVE  /\ IsSeq(Append(s, e)) /\ Len(Append(s, e)) = Len(s) + 1
         /\ Append(s, e) = [k \in 1 .. Len(s) + 1 |-> IF k <= Len(s) THEN s[k] ELSE e]
<1> DEFINE S == {s[k] : k \in 1 .. Len(s)} \cup {e}
<1>1. s \in Seq(S) /\ e \in S
  BY SeqOfElements
<1> HIDE DEF S
<1>2. /\ Append(s, e) \in Seq(S) /\ Len(Append(s, e)) = Len(s) + 1
      /\ \A k \in 1 .. Len(s) : Append(s, e)[k] = s[k]
      /\ Append(s, e)[Len(s) + 1] = e
  BY <1>1, AppendProperties
<1>3. IsSeq(Append(s, e)) /\ Len(s) \in Nat
  BY <1>2, SeqIsSeq DEF IsSeq
<1>4. \A k \in 1 .. Len(s) + 1 : Append(s, e)[k] = IF k <= Len(s) THEN s[k] ELSE e
  BY <1>2, <1>3
<1> QED
  BY <1>2, <1>3, <1>4 DEF IsSeq

\* Two sequences, one behind the other.
LEMMA ConcatIs ==
  ASSUME NEW s, IsSeq(s), NEW t, IsSeq(t)
  PROVE  /\ IsSeq(s \o t) /\ Len(s \o t) = Len(s) + Len(t)
         /\ s \o t = [k \in 1 .. Len(s) + Len(t) |->
                        IF k <= Len(s) THEN s[k] ELSE t[k - Len(s)]]
<1> DEFINE S == {s[k] : k \in 1 .. Len(s)} \cup {t[k] : k \in 1 .. Len(t)}
<1>1. s \in Seq(S) /\ t \in Seq(S)
  BY SeqOfElements
<1> HIDE DEF S
<1>2. /\ s \o t \in Seq(S) /\ Len(s \o t) = Len(s) + Len(t)
      /\ \A k \in 1 .. Len(s) + Len(t) :
           (s \o t)[k] = IF k <= Len(s) THEN s[k] ELSE t[k - Len(s)]
  BY <1>1, ConcatProperties
<1>3. IsSeq(s \o t)
  BY <1>2, SeqIsSeq
<1> QED
  BY <1>2, <1>3 DEF IsSeq

LEMMA ConcatElements ==
  ASSUME NEW s, IsSeq(s), NEW t, IsSeq(t)
  PROVE  /\ IsSeq(s \o t) /\ Len(s \o t) = Len(s) + Len(t)
         /\ \A k \in 1 .. Len(s) : (s \o t)[k] = s[k]
         /\ \A k \in 1 .. Len(t) : (s \o t)[Len(s) + k] = t[k]
<1> DEFINE u == s \o t
<1>1. Len(s) \in Nat /\ Len(t) \in Nat
  BY DEF IsSeq
<1>2. /\ IsSeq(u) /\ Len(u) = Len(s) + Len(t)
      /\ u = [k \in 1 .. Len(s) + Len(t) |-> IF k <= Len(s) THEN s[k] ELSE t[k - Len(s)]]
  BY ConcatIs
<1> HIDE DEF u
<1>3. \A k \in 1 .. Len(s) : u[k] = s[k]
  BY <1>1, <1>2
<1>4. ASSUME NEW k \in 1 .. Len(t) PROVE u[Len(s) + k] = t[k]
  <2>1. /\ Len(s) + k \in 1 .. Len(s) + Len(t) /\ ~(Len(s) + k <= Len(s))
        /\ (Len(s) + k) - Len(s) = k
    BY <1>1
  <2> QED
    BY <1>2, <2>1
<1> QED
  BY <1>2, <1>3, <1>4 DEF u

\* The first m elements.
LEMMA FrontIs ==
  ASSUME NEW s, IsSeq(s), NEW m \in 0 .. Len(s)
  PROVE  /\ SubSeq(s, 1, m) = [k \in 1 .. m |-> s[k]]
         /\ IsSeq(SubSeq(s, 1, m)) /\ Len(SubSeq(s, 1, m)) = m
<1> DEFINE S == {s[k] : k \in 1 .. Len(s)}
<1>1. s \in Seq(S) /\ Len(s) \in Nat /\ m \in Nat
  BY SeqOfElements DEF IsSeq
<1> HIDE DEF S
<1>2. /\ SubSeq(s, 1, m) \in Seq(S) /\ Len(SubSeq(s, 1, m)) = m
      /\ \A k \in 1 .. m : SubSeq(s, 1, m)[k] = s[k]
  BY <1>1
<1>3. IsSeq(SubSeq(s, 1, m))
  BY <1>2, SeqIsSeq
<1> QED
  BY <1>2, <1>3 DEF IsSeq

LEMMA FrontOneMore ==
  ASSUME NEW s, IsSeq(s), NEW m \in 0 .. Len(s) - 1
  PROVE  SubSeq(s, 1, m + 1) = Append(SubSeq(s, 1, m), s[m + 1])
<1>1. Len(s) \in Nat /\ m \in 0 .. Len(s) /\ m + 1 \in 0 .. Len(s)
  BY DEF IsSeq
<1>2. /\ SubSeq(s, 1, m) = [k \in 1 .. m |-> s[k]]
      /\ IsSeq(SubSeq(s, 1, m)) /\ Len(SubSeq(s, 1, m)) = m
  BY <1>1, FrontIs
<1>3. SubSeq(s, 1, m + 1) = [k \in 1 .. m + 1 |-> s[k]]
  BY <1>1, FrontIs
<1>4. Append(SubSeq(s, 1, m), s[m + 1])
        = [k \in 1 .. m + 1 |-> IF k <= m THEN SubSeq(s, 1, m)[k] ELSE s[m + 1]]
  BY <1>2, AppendIs
<1> QED
  BY <1>1, <1>2, <1>3, <1>4

\* A piece of a sequence.
LEMMA SubSeqIs ==
  ASSUME NEW s, IsSeq(s), NEW a \in 1 .. Len(s), NEW n \in Nat, a + n - 1 <= Len(s)
  PROVE  /\ IsSeq(SubSeq(s, a, a + n - 1)) /\ Len(SubSeq(s, a, a + n - 1)) = n
         /\ \A k \in 1 .. n : SubSeq(s, a, a + n - 1)[k] = s[a + k - 1]
<1> DEFINE S == {s[k] : k \in 1 .. Len(s)}
           t == SubSeq(s, a, a + n - 1)
<1>1. s \in Seq(S) /\ Len(s) \in Nat /\ a \in Nat
  BY SeqOfElements DEF IsSeq
<1> HIDE DEF S
<1>2. t = [k \in 1 .. n |-> s[a + k - 1]]
  BY <1>1
<1>3. t = [k \in 1 .. n |-> t[k]] /\ \A k \in 1 .. n : t[k] = s[a + k - 1]
  BY <1>2
<1> HIDE DEF t
<1>4. IsSeq(t) /\ Len(t) = n
  BY <1>3, FunctionIsSeq
<1> QED
  BY <1>3, <1>4 DEF t

LEMMA NoElements == IsSeq(<<>>) /\ Len(<<>>) = 0 /\ \A s : IsSeq(s) /\ Len(s) = 0 => s = <<>>
<1>1. <<>> \in Seq({}) /\ Len(<<>>) = 0
  BY EmptySeq
<1>2. IsSeq(<<>>)
  BY <1>1, SeqIsSeq
<1> QED
  BY <1>1, <1>2, SameSeq

-----------------------------------------------------------------------------
(***************************************************************************)
(* Sets of numbers in ascending order.                                     *)
(***************************************************************************)
\* f goes through the elements of S, from the least to the largest.
Goes(f, S) ==
  /\ f \in [1 .. Cardinality(S) -> S]
  /\ \A m, n \in 1 .. Cardinality(S) : m < n => f[m] < f[n]

LEMMA AscentExists ==
  \A b \in Nat : \A S \in SUBSET (1 .. b) : \E f : Goes(f, S)
<1> DEFINE Q == {b \in Nat : \A S \in SUBSET (1 .. b) : \E f : Goes(f, S)}
<1>1. 0 \in Q
  <2>1. SUFFICES ASSUME NEW S \in SUBSET (1 .. 0) PROVE \E f : Goes(f, S)
    OBVIOUS
  <2>2. S = {} /\ Cardinality(S) = 0
    <3>1. S = {}
      BY <2>1
    <3> QED
      BY <3>1, FS_EmptySet
  <2>3. Goes([n \in 1 .. 0 |-> 0], S)
    BY <2>2 DEF Goes
  <2> QED
    BY <2>3
<1>2. ASSUME NEW b \in Nat, b \in Q PROVE b + 1 \in Q
  <2>1. SUFFICES ASSUME NEW S \in SUBSET (1 .. b + 1) PROVE \E f : Goes(f, S)
    OBVIOUS
  <2>2. CASE b + 1 \notin S
    <3>1. S \in SUBSET (1 .. b)
      BY <2>1, <2>2
    <3> QED
      BY <1>2, <3>1
  <2>3. CASE b + 1 \in S
    <3> DEFINE T == S \ {b + 1}
    <3>1. T \in SUBSET (1 .. b) /\ IsFiniteSet(1 .. b)
      BY <2>1, FS_Interval
    <3>2. IsFiniteSet(T) /\ Cardinality(T) \in Nat /\ b + 1 \notin T /\ S = T \cup {b + 1}
      BY <2>3, <3>1, FS_Subset, FS_CardinalityType
    <3> HIDE DEF T
    <3>3. Cardinality(S) = Cardinality(T) + 1
      BY <3>2, FS_AddElement
    <3>4. PICK f : Goes(f, T)
      BY <1>2, <3>1
    <3> DEFINE g == [n \in 1 .. Cardinality(S) |-> IF n <= Cardinality(T) THEN f[n] ELSE b + 1]
    <3>5. \A n \in 1 .. Cardinality(T) : f[n] \in T /\ f[n] \in 1 .. b
      BY <3>1, <3>4 DEF Goes
    <3>6. g \in [1 .. Cardinality(S) -> S]
      BY <3>2, <3>3, <3>5
    <3>7. ASSUME NEW m \in 1 .. Cardinality(S), NEW n \in 1 .. Cardinality(S), m < n
          PROVE  g[m] < g[n]
      <4>1. m \in 1 .. Cardinality(T) /\ g[m] = f[m]
        BY <3>2, <3>3, <3>7
      <4>2. CASE n <= Cardinality(T)
        BY <3>2, <3>4, <3>7, <4>1, <4>2 DEF Goes
      <4>3. CASE ~(n <= Cardinality(T))
        BY <3>5, <4>1, <4>3
      <4> QED
        BY <4>2, <4>3
    <3>8. Goes(g, S)
      BY <3>6, <3>7 DEF Goes
    <3> QED
      BY <3>8
  <2> QED
    BY <2>2, <2>3
<1> HIDE DEF Q
<1>3. Nat \subseteq Q
  BY <1>1, <1>2, AllNumbers
<1> QED
  BY <1>3 DEF Q

\* f is a sequence of all elements of S, in their order.
Ascent(f, S) ==
  /\ IsSeq(f)
  /\ \A n \in 1 .. Len(f) : f[n] \in S
  /\ \A x \in S : \E n \in 1 .. Len(f) : f[n] = x
  /\ \A m, n \in 1 .. Len(f) : m < n => f[m] < f[n]

LEMMA AscendingIs ==
  ASSUME NEW b \in Nat, NEW S, S \subseteq 1 .. b
  PROVE  Ascent(Ascending(S), S)
<1> DEFINE f == Ascending(S)
           c == Cardinality(S)
<1>1. \E g \in [1 .. c -> S] : \A m, n \in 1 .. c : m < n => g[m] < g[n]
  BY AscentExists DEF Goes
<1>2. f \in [1 .. c -> S] /\ \A m, n \in 1 .. c : m < n => f[m] < f[n]
  BY <1>1 DEF Ascending
<1>3. IsFiniteSet(S) /\ c \in Nat
  <2>1. IsFiniteSet(1 .. b)
    BY FS_Interval
  <2> QED
    BY <2>1, FS_Subset, FS_CardinalityType
<1>4. IsFiniteSet(1 .. c) /\ Cardinality(1 .. c) = c
  BY <1>3, FS_Interval
<1> HIDE DEF f, c
<1>5. f \in Injection(1 .. c, S)
  <2>1. \A m, n \in 1 .. c : m < n => f[m] # f[n]
    <3>1. \A m \in 1 .. c : f[m] \in Nat
      <4>1. S \subseteq Nat
        OBVIOUS
      <4>2. \A m \in 1 .. c : f[m] \in S
        BY <1>2
      <4> QED
        BY <4>1, <4>2
    <3> QED
      BY <1>2, <3>1
  <2>2. \A m, n \in 1 .. c : f[m] = f[n] => m = n
    BY <2>1, <1>3
  <2> QED
    BY <1>2, <2>2 DEF Injection, IsInjective
<1>6. f \in Surjection(1 .. c, S)
  BY <1>3, <1>4, <1>5, FS_Injection DEF c
<1>7. \A x \in S : \E n \in 1 .. c : f[n] = x
  BY <1>6 DEF Surjection
<1>8. IsSeq(f) /\ Len(f) = c
  <2>1. f = [n \in 1 .. c |-> f[n]]
    BY <1>2
  <2> QED
    BY <1>3, <2>1, FunctionIsSeq
<1> QED
  BY <1>2, <1>7, <1>8 DEF Ascent, f

-----------------------------------------------------------------------------
(***************************************************************************)
(* Sequences that are laid one behind another.                             *)
(***************************************************************************)
\* Where the parts of a sequence are: part k is behind position pos[k - 1].
Laid(s, at, parts, pos) ==
  /\ pos[0] = 0
  /\ \A k \in 0 .. Len(parts) : pos[k] \in Nat /\ at + pos[k] <= Len(s)
  /\ \A k \in 1 .. Len(parts) :
       /\ pos[k] = pos[k - 1] + Len(parts[k])
       /\ \A j \in 1 .. Len(parts[k]) : s[at + pos[k - 1] + j] = parts[k][j]

\* f is the first sequences of p, one behind another.
Gathers(f, p, n) == f = [k \in 1 .. n |-> IF k = 1 THEN p[k] ELSE f[k - 1] \o p[k]]

LEMMA GatherExists ==
  ASSUME NEW p
  PROVE  \A n \in Nat : \E f : Gathers(f, p, n)
<1> DEFINE Q == {n \in Nat : \E f : Gathers(f, p, n)}
<1>1. 0 \in Q
  <2>1. Gathers([k \in 1 .. 0 |-> p], p, 0)
    BY DEF Gathers
  <2> QED
    BY <2>1
<1>2. ASSUME NEW n \in Nat, n \in Q PROVE n + 1 \in Q
  <2>1. PICK f : Gathers(f, p, n)
    BY <1>2
  <2> DEFINE g == [k \in 1 .. n + 1 |->
                     IF k <= n THEN f[k] ELSE IF k = 1 THEN p[k] ELSE f[n] \o p[k]]
             r == [k \in 1 .. n + 1 |-> IF k = 1 THEN p[k] ELSE g[k - 1] \o p[k]]
  <2>2. ASSUME NEW k \in 1 .. n + 1
        PROVE  g[k] = IF k = 1 THEN p[k] ELSE g[k - 1] \o p[k]
    <3>1. CASE k <= n
      <4>1. k \in 1 .. n /\ g[k] = f[k] /\ (k # 1 => k - 1 \in 1 .. n + 1 /\ k - 1 <= n)
        BY <3>1
      <4>2. f[k] = IF k = 1 THEN p[k] ELSE f[k - 1] \o p[k]
        BY <2>1, <4>1 DEF Gathers
      <4>3. k # 1 => g[k - 1] = f[k - 1]
        BY <4>1
      <4> HIDE DEF g
      <4> QED
        BY <4>1, <4>2, <4>3
    <3>2. CASE ~(k <= n)
      <4>1. k = n + 1 /\ (k # 1 => n \in 1 .. n + 1 /\ k - 1 = n)
        BY <3>2
      <4>2. g[k] = IF k = 1 THEN p[k] ELSE f[n] \o p[k]
        BY <3>2
      <4>3. k # 1 => g[n] = f[n]
        BY <4>1
      <4> HIDE DEF g
      <4> QED
        BY <4>1, <4>2, <4>3
    <3> QED
      BY <3>1, <3>2
  <2>3. g = [k \in 1 .. n + 1 |-> g[k]]
    OBVIOUS
  <2> HIDE DEF g
  <2>4. g = r
    BY <2>2, <2>3
  <2>5. Gathers(g, p, n + 1)
    BY <2>4, Zenon DEF Gathers
  <2> QED
    BY <2>5
<1> HIDE DEF Q
<1>3. Nat \subseteq Q
  BY <1>1, <1>2, AllNumbers
<1> QED
  BY <1>3 DEF Q

LEMMA FlattenSteps ==
  ASSUME NEW p, IsSeq(p), Len(p) > 0
  PROVE  \E f : /\ FlattenSeq(p) = f[Len(p)] /\ f[1] = p[1]
                /\ \A m \in 1 .. Len(p) - 1 : f[m + 1] = f[m] \o p[m + 1]
<1> DEFINE f == CHOOSE h : h = [k \in 1 .. Len(p) |->
                                  IF k = 1 THEN p[k] ELSE h[k - 1] \o p[k]]
<1>0. Len(p) \in Nat /\ Len(p) \in 1 .. Len(p) /\ 1 \in 1 .. Len(p)
  BY DEF IsSeq
<1>2. f = [k \in 1 .. Len(p) |-> IF k = 1 THEN p[k] ELSE f[k - 1] \o p[k]]
  BY <1>0, GatherExists, Zenon DEF Gathers
<1>3. FlattenSeq(p) = f[Len(p)]
  <2>1. Len(p) # 0
    BY <1>0
  <2> QED
    BY <2>1, Zenon DEF FlattenSeq
<1> HIDE DEF f
<1>4. f[1] = p[1]
  BY <1>0, <1>2
<1>5. ASSUME NEW m \in 1 .. Len(p) - 1 PROVE f[m + 1] = f[m] \o p[m + 1]
  <2>1. m + 1 \in 1 .. Len(p) /\ m + 1 # 1 /\ (m + 1) - 1 = m
    BY <1>0
  <2>2. f[m + 1] = f[(m + 1) - 1] \o p[m + 1]
    BY <1>2, <2>1
  <2> QED
    BY <2>1, <2>2
<1> QED
  BY <1>3, <1>4, <1>5

LEMMA Flattened ==
  ASSUME NEW p, IsSeq(p), \A k \in 1 .. Len(p) : IsSeq(p[k])
  PROVE  /\ IsSeq(FlattenSeq(p))
         /\ \E pos : Laid(FlattenSeq(p), 0, p, pos) /\ Len(FlattenSeq(p)) = pos[Len(p)]
<1>0. Len(p) \in Nat /\ \A k \in 1 .. Len(p) : Len(p[k]) \in Nat
  BY DEF IsSeq
<1>1. CASE Len(p) = 0
  <2>1. FlattenSeq(p) = p
    BY <1>1 DEF FlattenSeq
  <2> DEFINE pos == [k \in {0} |-> 0]
  <2>2. Laid(p, 0, p, pos) /\ Len(p) = pos[Len(p)]
    BY <1>1 DEF Laid
  <2> QED
    BY <2>1, <2>2
<1>2. CASE Len(p) > 0
  <2>1. PICK f : /\ FlattenSeq(p) = f[Len(p)] /\ f[1] = p[1]
                 /\ \A m \in 1 .. Len(p) - 1 : f[m + 1] = f[m] \o p[m + 1]
    BY <1>2, FlattenSteps
  <2> DEFINE pos  == [m \in 0 .. Len(p) |-> IF m = 0 THEN 0 ELSE Len(f[m])]
             L(m) == /\ IsSeq(f[m]) /\ pos[m] = pos[m - 1] + Len(p[m])
                     /\ \A k \in 0 .. m : pos[k] \in Nat /\ pos[k] <= pos[m]
                     /\ \A k \in 1 .. m : pos[k] = pos[k - 1] + Len(p[k])
                     /\ \A k \in 1 .. m : \A j \in 1 .. Len(p[k]) :
                          f[m][pos[k - 1] + j] = p[k][j]
             Q    == {m \in Nat : m + 1 <= Len(p) => L(m + 1)}
  <2>2. pos[0] = 0 /\ \A m \in 1 .. Len(p) : pos[m] = Len(f[m])
    BY <1>0
  <2> HIDE DEF pos
  <2>3. 0 \in Q
    <3>1. IsSeq(p[1]) /\ Len(p[1]) \in Nat /\ pos[1] = Len(p[1])
      BY <1>0, <1>2, <2>1, <2>2
    <3>2. \A k \in 0 .. 1 : k = 0 \/ k = 1
      OBVIOUS
    <3>3. \A k \in 1 .. 1 : k = 1
      OBVIOUS
    <3>4. L(1)
      BY <2>1, <2>2, <3>1, <3>2, <3>3
    <3> HIDE DEF L
    <3>5. L(0 + 1)
      BY <3>4
    <3> QED
      BY <3>5
  <2>4. ASSUME NEW m \in Nat, m \in Q PROVE m + 1 \in Q
    <3> SUFFICES ASSUME (m + 1) + 1 <= Len(p) PROVE L((m + 1) + 1)
      OBVIOUS
    <3> DEFINE n == m + 1
    <3>1. n \in 1 .. Len(p) - 1 /\ n \in Nat /\ n + 1 \in 1 .. Len(p) /\ n \in 1 .. Len(p)
          /\ (n + 1) - 1 = n /\ n = m + 1
      BY <1>0
    <3>2. L(n)
      <4>1. m + 1 <= Len(p)
        BY <1>0
      <4>2. L(m + 1)
        BY <2>4, <4>1
      <4> HIDE DEF L
      <4> QED
        BY <4>2
    <3> HIDE DEF n
    <3>3. Len(p[n + 1]) \in Nat
      BY <1>0, <3>1
    <3>4. /\ IsSeq(f[n + 1]) /\ Len(f[n + 1]) = Len(f[n]) + Len(p[n + 1])
          /\ \A k \in 1 .. Len(f[n]) : f[n + 1][k] = f[n][k]
          /\ \A k \in 1 .. Len(p[n + 1]) : f[n + 1][Len(f[n]) + k] = p[n + 1][k]
      <4> DEFINE u == f[n]
                 v == p[n + 1]
      <4>1. f[n + 1] = u \o v /\ IsSeq(u) /\ IsSeq(v)
        BY <2>1, <3>1, <3>2
      <4> HIDE DEF u, v
      <4>2. /\ IsSeq(f[n + 1]) /\ Len(f[n + 1]) = Len(u) + Len(v)
            /\ \A k \in 1 .. Len(u) : f[n + 1][k] = u[k]
            /\ \A k \in 1 .. Len(v) : f[n + 1][Len(u) + k] = v[k]
        BY <4>1, ConcatElements
      <4> QED
        BY <4>2 DEF u, v
    <3>5. pos[n] = Len(f[n]) /\ pos[n + 1] = Len(f[n + 1]) /\ pos[n] \in Nat
      BY <2>2, <3>1, <3>2
    <3>6. pos[n + 1] = pos[n] + Len(p[n + 1])
      BY <3>4, <3>5
    <3> DEFINE x == pos[n]
               y == pos[n + 1]
    <3>11. x \in Nat /\ y \in Nat /\ x <= y
      <4> DEFINE z == Len(p[n + 1])
      <4>1. z \in Nat /\ y = x + z /\ x \in Nat
        BY <3>3, <3>5, <3>6
      <4> HIDE DEF x, y, z
      <4> QED
        BY <4>1
    <3>7. \A k \in 0 .. n + 1 : pos[k] \in Nat /\ pos[k] <= pos[n + 1]
      <4>1. SUFFICES ASSUME NEW k \in 0 .. n + 1 PROVE pos[k] \in Nat /\ pos[k] <= pos[n + 1]
        OBVIOUS
      <4>2. CASE k = n + 1
        BY <3>11, <4>2
      <4>3. CASE k # n + 1
        <5>1. k \in 0 .. n
          BY <3>1, <4>3
        <5>2. pos[k] \in Nat /\ pos[k] <= pos[n]
          BY <3>2, <5>1
        <5> QED
          BY <3>11, <5>2
      <4> QED
        BY <4>2, <4>3
    <3>8. \A k \in 1 .. n + 1 : pos[k] = pos[k - 1] + Len(p[k])
      <4>1. SUFFICES ASSUME NEW k \in 1 .. n + 1 PROVE pos[k] = pos[k - 1] + Len(p[k])
        OBVIOUS
      <4>2. CASE k = n + 1
        BY <3>1, <3>6, <4>2
      <4>3. CASE k # n + 1
        BY <3>1, <3>2, <4>3
      <4> QED
        BY <4>2, <4>3
    <3>9. \A k \in 1 .. n + 1 : \A j \in 1 .. Len(p[k]) : f[n + 1][pos[k - 1] + j] = p[k][j]
      <4>1. SUFFICES ASSUME NEW k \in 1 .. n + 1, NEW j \in 1 .. Len(p[k])
                     PROVE  f[n + 1][pos[k - 1] + j] = p[k][j]
        OBVIOUS
      <4>2. CASE k = n + 1
        <5>1. pos[k - 1] = Len(f[n]) /\ j \in 1 .. Len(p[n + 1])
          BY <3>1, <3>5, <4>2
        <5>3. f[n + 1][Len(f[n]) + j] = p[n + 1][j]
          BY <3>4, <5>1
        <5> QED
          BY <4>2, <5>1, <5>3
      <4>3. CASE k # n + 1
        <5>1. k \in 1 .. n /\ k - 1 \in 0 .. n /\ k \in 0 .. n
          BY <3>1, <4>3
        <5>2. /\ pos[k - 1] \in Nat /\ pos[k] <= pos[n] /\ pos[k] = pos[k - 1] + Len(p[k])
              /\ f[n][pos[k - 1] + j] = p[k][j]
          BY <3>2, <5>1
        <5>3. j \in Nat /\ j >= 1 /\ j <= Len(p[k])
          OBVIOUS
        <5>4. Len(p[k]) \in Nat
          BY <1>0, <3>1, <5>1
        <5>5. pos[k - 1] + j \in 1 .. Len(f[n])
          <6> DEFINE a == pos[k - 1]
                     l == Len(p[k])
          <6>1. a \in Nat /\ l \in Nat /\ a + l <= pos[n] /\ j \in Nat /\ j >= 1 /\ j <= l
            BY <5>2, <5>3, <5>4
          <6> HIDE DEF a, l
          <6>2. a + j \in 1 .. pos[n]
            BY <3>5, <6>1
          <6> QED
            BY <3>5, <6>2 DEF a
        <5> QED
          BY <3>4, <5>2, <5>5
      <4> QED
        BY <4>2, <4>3
    <3>10. L(n + 1)
      BY <3>1, <3>4, <3>6, <3>7, <3>8, <3>9
    <3> QED
      BY <3>10 DEF n
  <2> HIDE DEF Q
  <2>5. Len(p) - 1 \in Q
    BY <1>0, <1>2, <2>3, <2>4, AllNumbers
  <2>6. L(Len(p))
    <3>1. Len(p) - 1 + 1 = Len(p) /\ Len(p) <= Len(p)
      BY <1>0
    <3> DEFINE n == Len(p) - 1
    <3>2. n + 1 <= Len(p) => L(n + 1)
      BY <2>5 DEF Q
    <3>3. n + 1 = Len(p)
      BY <3>1
    <3> HIDE DEF n, L
    <3> QED
      BY <3>1, <3>2, <3>3
  <2>7. pos[Len(p)] = Len(f[Len(p)])
    BY <1>0, <1>2, <2>2
  <2>8. Laid(f[Len(p)], 0, p, pos)
    <3> HIDE DEF Q
    <3>1. \A k \in 0 .. Len(p) : pos[k] \in Nat /\ 0 + pos[k] <= Len(f[Len(p)])
      BY <2>6, <2>7
    <3>2. \A k \in 1 .. Len(p) :
       /\ pos[k] = pos[k - 1] + Len(p[k])
       /\ \A j \in 1 .. Len(p[k]) : f[Len(p)][0 + pos[k - 1] + j] = p[k][j]
      <4>1. SUFFICES ASSUME NEW k \in 1 .. Len(p)
                     PROVE  /\ pos[k] = pos[k - 1] + Len(p[k])
                            /\ \A j \in 1 .. Len(p[k]) :
                                 f[Len(p)][0 + pos[k - 1] + j] = p[k][j]
        OBVIOUS
      <4>2. pos[k - 1] \in Nat
        BY <1>0, <2>6
      <4> QED
        BY <2>6, <4>2
    <3> QED
      BY <2>2, <3>1, <3>2 DEF Laid
  <2> QED
    BY <2>1, <2>6, <2>7, <2>8
<1> QED
  BY <1>0, <1>1, <1>2

=============================================================================
