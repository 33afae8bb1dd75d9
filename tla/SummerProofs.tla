--------------------------- MODULE SummerProofs -----------------------------
(***************************************************************************)
(* Proofs about JVMap and Summer: for any keys, hash functions and sizes   *)
(* of the buckets, the map is a dictionary until the call that ends the    *)
(* program, and the rows of Summer are its entries.                        *)
(*                                                                         *)
(* The parts: one bucket and the operations on it; growth; the map as a    *)
(* dictionary; its number of entries; and the walk over them.              *)
(***************************************************************************)
EXTENDS Summer, SequenceFacts
-----------------------------------------------------------------------------
(***************************************************************************)
(* One bucket.                                                             *)
(***************************************************************************)
\* The positions of the entries of a bucket.
Slots(item) == 1 .. Len(item.keys_)

\* The entries of the bucket b of a map with cap buckets: the keys that belong
\* there, each once, with numbers.
Bucket(item, b, cap) ==
  /\ item = [keys_ |-> item.keys_, vals_ |-> item.vals_]
  /\ IsSeq(item.keys_) /\ IsSeq(item.vals_) /\ Len(item.vals_) = Len(item.keys_)
  /\ \A n \in Slots(item) : item.keys_[n] \in Key \cup NoKey
  /\ \A n \in Slots(item) : item.keys_[n] \in Key =>
       hash[item.keys_[n]] % cap = b /\ item.vals_[n] \in Num
  /\ \A m, n \in Slots(item) :
       item.keys_[m] = item.keys_[n] /\ item.keys_[m] \in Key => m = n

Has(item, k) == \E n \in Slots(item) : item.keys_[n] = k

\* The value of a key in a bucket: Content, without the map around it.
ValueIn(item, k) ==
  LET At_ == {n \in DOMAIN item.keys_ : item.keys_[n] = k}
  IN  IF At_ = {} THEN Null ELSE item.vals_[Min(At_)]

LEMMA ContentIs == ASSUME NEW k PROVE Content(k) = ValueIn(items_[off_(k)], k)
  BY DEF Content, ValueIn

LEMMA NoKeys == \A k \in Key : k # Null /\ k # Wild /\ k \notin NoKey
  BY JVMapAssumption DEF NoKey

LEMMA BucketKeys ==
  ASSUME NEW item, NEW b, NEW cap, Bucket(item, b, cap)
  PROVE  DOMAIN item.keys_ = Slots(item) /\ Len(item.keys_) \in Nat
<1>1. item.keys_ = [n \in 1 .. Len(item.keys_) |-> item.keys_[n]] /\ Len(item.keys_) \in Nat
  BY DEF Bucket, IsSeq
<1> QED
  BY <1>1 DEF Slots

LEMMA ValueInIs ==
  ASSUME NEW item, NEW b, NEW cap, Bucket(item, b, cap)
  PROVE  /\ \A n \in Slots(item) : item.keys_[n] \in Key =>
              ValueIn(item, item.keys_[n]) = item.vals_[n]
         /\ \A k : ~Has(item, k) => ValueIn(item, k) = Null
<1>1. DOMAIN item.keys_ = Slots(item) /\ Slots(item) \subseteq Nat
  BY BucketKeys DEF Slots
<1>2. ASSUME NEW n \in Slots(item), item.keys_[n] \in Key
      PROVE  ValueIn(item, item.keys_[n]) = item.vals_[n]
  <2> DEFINE A == {m \in DOMAIN item.keys_ : item.keys_[m] = item.keys_[n]}
  <2>1. A = {n}
    BY <1>1, <1>2 DEF Bucket
  <2>2. A # {} /\ Min(A) = n
    <3>1. n \in Nat
      BY <1>1
    <3> HIDE DEF A
    <3> QED
      BY <2>1, <3>1, LeastIs
  <2> QED
    BY <2>2, Zenon DEF ValueIn
<1>3. ASSUME NEW k, ~Has(item, k) PROVE ValueIn(item, k) = Null
  <2>1. {n \in DOMAIN item.keys_ : item.keys_[n] = k} = {}
    BY <1>1, <1>3 DEF Has
  <2> QED
    BY <2>1, Zenon DEF ValueIn
<1> QED
  BY <1>2, <1>3

\* What the loops over the keys find.
LEMMA Search ==
  ASSUME NEW item, NEW b, NEW cap, Bucket(item, b, cap), NEW k \in Key
  PROVE  /\ Found(item, k) => /\ Min(At(item, k)) \in Slots(item)
                              /\ item.keys_[Min(At(item, k))] = k
         /\ ~Found(item, k) /\ ~Crashes(item, k) => ~Has(item, k)
<1> DEFINE A == At(item, k)
<1>1. A \subseteq Slots(item) /\ \A n \in Slots(item) : n \in A <=> item.keys_[n] \in {k, Wild}
  BY BucketKeys DEF At
<1>2. Slots(item) \subseteq Nat
  BY BucketKeys DEF Slots
<1>3. Found(item, k) <=> A # {} /\ item.keys_[Min(A)] = k
  BY DEF Found
<1>4. Crashes(item, k) <=> A # {} /\ item.keys_[Min(A)] = Wild
  BY DEF Crashes
<1> HIDE DEF A
<1>5. A # {} => Min(A) \in A
  BY <1>1, <1>2, LeastIs
<1>6. A = {} => ~Has(item, k)
  BY <1>1 DEF Has
<1>7. Found(item, k) => Min(A) \in Slots(item) /\ item.keys_[Min(A)] = k
  BY <1>1, <1>3, <1>5
<1>8. ~Found(item, k) /\ ~Crashes(item, k) => A = {}
  BY <1>1, <1>3, <1>4, <1>5
<1> QED
  BY <1>6, <1>7, <1>8 DEF A

\* item2 is the bucket item with the value v of the key k, and no other change.
SetIn(item, item2, k, v) ==
  /\ ValueIn(item2, k) = v /\ Has(item2, k)
  /\ \A q \in Key \ {k} : /\ ValueIn(item2, q) = ValueIn(item, q)
                          /\ Has(item2, q) <=> Has(item, q)

LEMMA SetOver ==
  ASSUME NEW item, NEW b, NEW cap, Bucket(item, b, cap), NEW k \in Key, NEW v \in Num,
         Found(item, k)
  PROVE  /\ Bucket(set_(item, k, v), b, cap)
         /\ SetIn(item, set_(item, k, v), k, v)
         /\ set_(item, k, v).keys_ = item.keys_
<1> DEFINE n == Min(At(item, k))
           vals == [item.vals_ EXCEPT ![n] = v]
           new == set_(item, k, v)
<1>1. n \in Slots(item) /\ item.keys_[n] = k
  BY Search
<1> HIDE DEF n
<1>2. new = [keys_ |-> item.keys_, vals_ |-> vals]
  <2>1. item = [keys_ |-> item.keys_, vals_ |-> item.vals_]
    BY DEF Bucket
  <2>2. new = [item EXCEPT !.vals_[n] = v]
    BY DEF set_, n
  <2> QED
    BY <2>1, <2>2
<1> HIDE DEF new
<1>3. new.keys_ = item.keys_ /\ new.vals_ = vals /\ Slots(new) = Slots(item)
  BY <1>2 DEF Slots
<1>4. item.vals_ = [m \in Slots(item) |-> item.vals_[m]] /\ Slots(item) = 1 .. Len(item.vals_)
      /\ Len(item.vals_) \in Nat
  BY DEF Bucket, IsSeq, Slots
<1>5. vals = [m \in Slots(item) |-> vals[m]]
      /\ \A m \in Slots(item) : vals[m] = IF m = n THEN v ELSE item.vals_[m]
  BY <1>1, <1>4
<1>6. IsSeq(vals) /\ Len(vals) = Len(item.keys_)
  <2>1. vals = [m \in 1 .. Len(item.vals_) |-> vals[m]]
    BY <1>4, <1>5
  <2> HIDE DEF vals
  <2>2. IsSeq(vals) /\ Len(vals) = Len(item.vals_)
    BY <1>4, <2>1, FunctionIsSeq
  <2> QED
    BY <2>2 DEF Bucket
<1> HIDE DEF vals
<1>7. Bucket(new, b, cap)
  <2>1. new = [keys_ |-> new.keys_, vals_ |-> new.vals_]
    BY <1>2
  <2>2. IsSeq(new.keys_) /\ IsSeq(new.vals_) /\ Len(new.vals_) = Len(new.keys_)
    BY <1>3, <1>6 DEF Bucket
  <2>3. \A m \in Slots(new) : new.keys_[m] \in Key \cup NoKey
    BY <1>3 DEF Bucket
  <2>4. ASSUME NEW m \in Slots(new), new.keys_[m] \in Key
        PROVE  hash[new.keys_[m]] % cap = b /\ new.vals_[m] \in Num
    BY <1>3, <1>5, <2>4 DEF Bucket
  <2>5. \A l, m \in Slots(new) : new.keys_[l] = new.keys_[m] /\ new.keys_[l] \in Key => l = m
    BY <1>3 DEF Bucket
  <2> QED
    BY <2>1, <2>2, <2>3, <2>4, <2>5 DEF Bucket
<1>8. \A q : Has(new, q) <=> Has(item, q)
  BY <1>3 DEF Has
<1>9. ValueIn(new, k) = v /\ Has(new, k)
  <2>1. ValueIn(new, new.keys_[n]) = new.vals_[n]
    BY <1>1, <1>3, <1>7, ValueInIs
  <2> QED
    BY <1>1, <1>3, <1>5, <2>1 DEF Has
<1>10. ASSUME NEW q \in Key \ {k} PROVE ValueIn(new, q) = ValueIn(item, q)
  <2>1. CASE ~Has(item, q)
    BY <1>7, <1>8, <2>1, ValueInIs
  <2>2. CASE Has(item, q)
    <3>1. PICK m \in Slots(item) : item.keys_[m] = q
      BY <2>2 DEF Has
    <3>2. ValueIn(item, q) = item.vals_[m] /\ ValueIn(new, q) = new.vals_[m]
      BY <1>3, <1>7, <3>1, ValueInIs
    <3>3. m # n
      BY <1>1, <3>1
    <3> QED
      BY <1>3, <1>5, <3>2, <3>3
  <2> QED
    BY <2>1, <2>2
<1> QED
  BY <1>3, <1>7, <1>8, <1>9, <1>10 DEF SetIn, new

LEMMA SetNew ==
  ASSUME NEW item, NEW b, NEW cap, Bucket(item, b, cap), NEW k \in Key, NEW v \in Num,
         ~Found(item, k), ~Crashes(item, k), hash[k] % cap = b
  PROVE  /\ Bucket(set_(item, k, v), b, cap)
         /\ SetIn(item, set_(item, k, v), k, v)
<1> DEFINE new  == set_(item, k, v)
           keys == Append(item.keys_, k)
           vals == Append(item.vals_, v)
           l    == Len(item.keys_)
<1>0. ~Has(item, k)
  BY Search
<1>1. new = [keys_ |-> keys, vals_ |-> vals]
  BY DEF set_
<1>2. IsSeq(item.keys_) /\ IsSeq(item.vals_) /\ Len(item.vals_) = l /\ l \in Nat
      /\ Slots(item) = 1 .. l
  BY DEF Bucket, IsSeq, Slots
<1>3. IsSeq(keys) /\ Len(keys) = l + 1
      /\ keys = [m \in 1 .. l + 1 |-> IF m <= l THEN item.keys_[m] ELSE k]
  BY <1>2, AppendIs
<1>4. IsSeq(vals) /\ Len(vals) = l + 1
      /\ vals = [m \in 1 .. l + 1 |-> IF m <= l THEN item.vals_[m] ELSE v]
  BY <1>2, AppendIs
<1> HIDE DEF new, keys, vals, l
<1>5. new.keys_ = keys /\ new.vals_ = vals /\ Slots(new) = 1 .. l + 1
  BY <1>1, <1>3 DEF Slots
<1>6. /\ \A m \in Slots(item) : keys[m] = item.keys_[m] /\ vals[m] = item.vals_[m]
      /\ keys[l + 1] = k /\ vals[l + 1] = v
      /\ \A m \in Slots(new) : m \in Slots(item) \/ m = l + 1
      /\ \A m \in Slots(item) : m \in Slots(new) /\ m # l + 1
      /\ l + 1 \in Slots(new)
  BY <1>2, <1>3, <1>4, <1>5
<1>7. Bucket(new, b, cap)
  <2>1. new = [keys_ |-> new.keys_, vals_ |-> new.vals_]
    BY <1>1
  <2>2. IsSeq(new.keys_) /\ IsSeq(new.vals_) /\ Len(new.vals_) = Len(new.keys_)
    BY <1>3, <1>4, <1>5
  <2>3. \A m \in Slots(new) : new.keys_[m] \in Key \cup NoKey
    BY <1>5, <1>6 DEF Bucket
  <2>4. ASSUME NEW m \in Slots(new), new.keys_[m] \in Key
        PROVE  hash[new.keys_[m]] % cap = b /\ new.vals_[m] \in Num
    BY <1>5, <1>6, <2>4 DEF Bucket
  <2>5. ASSUME NEW p \in Slots(new), NEW m \in Slots(new),
               new.keys_[p] = new.keys_[m], new.keys_[p] \in Key
        PROVE  p = m
    BY <1>0, <1>5, <1>6, <2>5 DEF Bucket, Has
  <2> QED
    BY <2>1, <2>2, <2>3, <2>4, <2>5 DEF Bucket
<1>8. \A q : q # k => (Has(new, q) <=> Has(item, q))
  BY <1>5, <1>6 DEF Has
<1>9. ValueIn(new, k) = v /\ Has(new, k)
  <2>1. ValueIn(new, new.keys_[l + 1]) = new.vals_[l + 1]
    BY <1>5, <1>6, <1>7, ValueInIs
  <2> QED
    BY <1>5, <1>6, <2>1 DEF Has
<1>10. ASSUME NEW q \in Key \ {k} PROVE ValueIn(new, q) = ValueIn(item, q)
  <2>1. CASE ~Has(item, q)
    BY <1>7, <1>8, <2>1, ValueInIs
  <2>2. CASE Has(item, q)
    <3>1. PICK m \in Slots(item) : item.keys_[m] = q
      BY <2>2 DEF Has
    <3>2. ValueIn(item, q) = item.vals_[m] /\ ValueIn(new, q) = new.vals_[m]
      BY <1>5, <1>6, <1>7, <3>1, ValueInIs
    <3> QED
      BY <1>5, <1>6, <3>2
  <2> QED
    BY <2>1, <2>2
<1> QED
  BY <1>7, <1>8, <1>9, <1>10 DEF SetIn, new

\* What is left of a sequence when an element is erased.
LEMMA EraseIs ==
  ASSUME NEW s, IsSeq(s), NEW n \in 1 .. Len(s), NEW last
  PROVE  /\ IsSeq(erase_(s, n, last)) /\ Len(erase_(s, n, last)) = Len(s)
         /\ erase_(s, n, last)[Len(s)] = last
         /\ \A m \in 1 .. Len(s) - 1 :
              erase_(s, n, last)[m] = s[IF m < n THEN m ELSE m + 1]
<1> DEFINE t == erase_(s, n, last)
<1>1. Len(s) \in Nat /\ DOMAIN s = 1 .. Len(s)
  BY DEF IsSeq
<1>2. t = [m \in 1 .. Len(s) |-> CASE m < n -> s[m]
                                   [] m >= n /\ m < Len(s) -> s[m + 1]
                                   [] OTHER -> last]
  BY <1>1 DEF erase_
<1>3. t = [m \in 1 .. Len(s) |-> t[m]]
  BY <1>2
<1>4. t[Len(s)] = last
  BY <1>1, <1>2
<1>5. ASSUME NEW m \in 1 .. Len(s) - 1 PROVE t[m] = s[IF m < n THEN m ELSE m + 1]
  BY <1>1, <1>2
<1> HIDE DEF t
<1>6. IsSeq(t) /\ Len(t) = Len(s)
  BY <1>1, <1>3, FunctionIsSeq
<1> QED
  BY <1>4, <1>5, <1>6 DEF t

\* The bucket without the first entry of k; last is what erase leaves behind.
Erased(item, k, last) ==
  LET n == Min(At(item, k))
  IN  [keys_ |-> erase_(item.keys_, n, last), vals_ |-> erase_(item.vals_, n, last)]

LEMMA EraseOne ==
  ASSUME NEW item, NEW b, NEW cap, Bucket(item, b, cap), NEW k \in Key,
         Found(item, k), NEW last \in NoKey
  PROVE  /\ Bucket(Erased(item, k, last), b, cap)
         /\ ~Has(Erased(item, k, last), k)
         /\ \A q \in Key \ {k} :
              /\ ValueIn(Erased(item, k, last), q) = ValueIn(item, q)
              /\ Has(Erased(item, k, last), q) <=> Has(item, q)
<1> DEFINE n    == Min(At(item, k))
           new  == Erased(item, k, last)
           l    == Len(item.keys_)
           old(m) == IF m < n THEN m ELSE m + 1
<1>1. n \in Slots(item) /\ item.keys_[n] = k
  BY Search
<1>2. IsSeq(item.keys_) /\ IsSeq(item.vals_) /\ Len(item.vals_) = l /\ l \in Nat
      /\ Slots(item) = 1 .. l
  BY DEF Bucket, IsSeq, Slots
<1>3. new = [keys_ |-> erase_(item.keys_, n, last), vals_ |-> erase_(item.vals_, n, last)]
  BY DEF Erased
<1> HIDE DEF n, new, l
<1>4. /\ IsSeq(new.keys_) /\ Len(new.keys_) = l /\ new.keys_[l] = last
      /\ \A m \in 1 .. l - 1 : new.keys_[m] = item.keys_[old(m)]
  <2>1. n \in 1 .. Len(item.keys_)
    BY <1>1, <1>2 DEF l
  <2> DEFINE t == erase_(item.keys_, n, last)
  <2>2. /\ IsSeq(t) /\ Len(t) = Len(item.keys_) /\ t[Len(item.keys_)] = last
        /\ \A m \in 1 .. Len(item.keys_) - 1 : t[m] = item.keys_[old(m)]
    BY <1>2, <2>1, EraseIs
  <2>3. new.keys_ = t
    BY <1>3
  <2> HIDE DEF t
  <2> QED
    BY <2>2, <2>3 DEF l
<1>5. /\ IsSeq(new.vals_) /\ Len(new.vals_) = l
      /\ \A m \in 1 .. l - 1 : new.vals_[m] = item.vals_[old(m)]
  <2>1. n \in 1 .. Len(item.vals_)
    BY <1>1, <1>2
  <2> DEFINE t == erase_(item.vals_, n, last)
  <2>2. /\ IsSeq(t) /\ Len(t) = Len(item.vals_)
        /\ \A m \in 1 .. Len(item.vals_) - 1 : t[m] = item.vals_[old(m)]
    BY <1>2, <2>1, EraseIs
  <2>3. new.vals_ = t
    BY <1>3
  <2> HIDE DEF t
  <2> QED
    BY <1>2, <2>2, <2>3
<1>6. Slots(new) = 1 .. l
  BY <1>4 DEF Slots
<1>7. /\ \A m \in 1 .. l - 1 : old(m) \in Slots(item) /\ old(m) # n
      /\ \A m, p \in 1 .. l - 1 : old(m) = old(p) => m = p
      /\ \A m \in Slots(item) : m # n => \E p \in 1 .. l - 1 : old(p) = m
  <2>1. \A m \in 1 .. l - 1 : old(m) \in Slots(item) /\ old(m) # n
    BY <1>1, <1>2
  <2>2. \A m, p \in 1 .. l - 1 : old(m) = old(p) => m = p
    BY <1>1, <1>2
  <2>3. ASSUME NEW m \in Slots(item), m # n PROVE \E p \in 1 .. l - 1 : old(p) = m
    <3>1. CASE m < n
      BY <1>1, <1>2, <3>1
    <3>2. CASE m > n
      <4>1. m - 1 \in 1 .. l - 1 /\ ~(m - 1 < n) /\ (m - 1) + 1 = m
        BY <1>1, <1>2, <3>2
      <4> QED
        BY <4>1
    <3> QED
      BY <1>1, <1>2, <2>3, <3>1, <3>2
  <2> QED
    BY <2>1, <2>2, <2>3
<1>8. \A m \in Slots(new) : new.keys_[m] \in Key => m \in 1 .. l - 1
  BY <1>1, <1>2, <1>4, <1>6, NoKeys
<1>15. \A m \in Slots(new) : m \in 1 .. l - 1 \/ m = l
  BY <1>2, <1>6
<1>16. \A m \in 1 .. l - 1 : m \in Slots(new)
  BY <1>2, <1>6
<1>17. last \notin Key
  BY NoKeys
<1> HIDE DEF old
<1>9. Bucket(new, b, cap)
  <2>1. new = [keys_ |-> new.keys_, vals_ |-> new.vals_]
    BY <1>3
  <2>2. IsSeq(new.keys_) /\ IsSeq(new.vals_) /\ Len(new.vals_) = Len(new.keys_)
    BY <1>4, <1>5
  <2>3. \A m \in Slots(new) : new.keys_[m] \in Key \cup NoKey
    BY <1>4, <1>7, <1>15 DEF Bucket
  <2>4. ASSUME NEW m \in Slots(new), new.keys_[m] \in Key
        PROVE  hash[new.keys_[m]] % cap = b /\ new.vals_[m] \in Num
    <3>1. m \in 1 .. l - 1
      BY <1>8, <2>4
    <3>2. new.keys_[m] = item.keys_[old(m)] /\ new.vals_[m] = item.vals_[old(m)]
          /\ old(m) \in Slots(item)
      BY <1>4, <1>5, <1>7, <3>1
    <3> QED
      BY <2>4, <3>2 DEF Bucket
  <2>5. ASSUME NEW p \in Slots(new), NEW m \in Slots(new),
               new.keys_[p] = new.keys_[m], new.keys_[p] \in Key
        PROVE  p = m
    <3>1. m \in 1 .. l - 1 /\ p \in 1 .. l - 1
      BY <1>8, <2>5
    <3>2. item.keys_[old(m)] = item.keys_[old(p)] /\ item.keys_[old(p)] \in Key
          /\ old(m) \in Slots(item) /\ old(p) \in Slots(item)
      BY <1>4, <1>7, <2>5, <3>1
    <3>3. old(m) = old(p)
      BY <3>2 DEF Bucket
    <3> QED
      BY <1>7, <3>1, <3>3
  <2> QED
    BY <2>1, <2>2, <2>3, <2>4, <2>5 DEF Bucket
<1>10. ~Has(new, k)
  <2>1. SUFFICES ASSUME NEW m \in Slots(new), new.keys_[m] = k PROVE FALSE
    BY DEF Has
  <2>2. m \in 1 .. l - 1
    BY <1>8, <2>1
  <2>3. old(m) \in Slots(item) /\ old(m) # n /\ item.keys_[old(m)] = k
    BY <1>4, <1>7, <2>1, <2>2
  <2> QED
    BY <1>1, <2>3 DEF Bucket
<1>12. ASSUME NEW q \in Key \ {k} PROVE Has(new, q) <=> Has(item, q)
  <2>1. ASSUME NEW m \in Slots(new), new.keys_[m] = q PROVE Has(item, q)
    <3>1. m \in 1 .. l - 1
      BY <1>8, <2>1
    <3> QED
      BY <1>4, <1>7, <2>1, <3>1 DEF Has
  <2>2. ASSUME NEW m \in Slots(item), item.keys_[m] = q PROVE Has(new, q)
    <3>1. PICK p \in 1 .. l - 1 : old(p) = m
      BY <1>1, <1>7, <2>2
    <3> QED
      BY <1>4, <1>16, <2>2, <3>1 DEF Has
  <2> QED
    BY <2>1, <2>2 DEF Has
<1>13. ASSUME NEW q \in Key \ {k} PROVE ValueIn(new, q) = ValueIn(item, q)
  <2>1. CASE ~Has(item, q)
    BY <1>9, <1>12, <2>1, ValueInIs
  <2>2. CASE Has(item, q)
    <3>1. PICK m \in Slots(item) : item.keys_[m] = q
      BY <2>2 DEF Has
    <3>2. PICK p \in 1 .. l - 1 : old(p) = m
      BY <1>1, <1>7, <3>1
    <3>3. p \in Slots(new) /\ new.keys_[p] = q /\ new.vals_[p] = item.vals_[m]
      BY <1>4, <1>5, <1>16, <3>1, <3>2
    <3>4. ValueIn(item, q) = item.vals_[m] /\ ValueIn(new, q) = new.vals_[p]
      BY <1>9, <3>1, <3>3, ValueInIs
    <3> QED
      BY <3>3, <3>4
  <2> QED
    BY <2>1, <2>2
<1> QED
  BY <1>9, <1>10, <1>12, <1>13 DEF new
-----------------------------------------------------------------------------
(***************************************************************************)
(* Growth.                                                                 *)
(***************************************************************************)
AllKeys(item) == \A n \in Slots(item) : item.keys_[n] \in Key

Chosen(item, b, cap) == {n \in DOMAIN item.keys_ : hash[item.keys_[n]] % cap = b}

\* What the bucket b of a map with cap buckets gets of an old bucket.
Moved(item, b, cap) ==
  LET at == Ascending(Chosen(item, b, cap))
  IN  [keys_ |-> [n \in DOMAIN at |-> item.keys_[at[n]]],
       vals_ |-> [n \in DOMAIN at |-> item.vals_[at[n]]]]

LEMMA GrowIs ==
  grow = [b \in Buckets(2 * capacity_) |->
            Moved(items_[b % capacity_], b, 2 * capacity_)]
  BY DEF grow, Moved, Chosen

LEMMA MovedIs ==
  ASSUME NEW item, NEW c, NEW old, Bucket(item, c, old), AllKeys(item),
         NEW b, NEW cap
  PROVE  /\ Bucket(Moved(item, b, cap), b, cap) /\ AllKeys(Moved(item, b, cap))
         /\ \A q \in Key : hash[q] % cap = b =>
              /\ Has(Moved(item, b, cap), q) <=> Has(item, q)
              /\ ValueIn(Moved(item, b, cap), q) = ValueIn(item, q)
<1> DEFINE S   == Chosen(item, b, cap)
           at  == Ascending(S)
           new == Moved(item, b, cap)
           l   == Len(at)
<1>1. DOMAIN item.keys_ = Slots(item) /\ Len(item.keys_) \in Nat
  BY BucketKeys
<1>2. S \subseteq Slots(item)
      /\ \A n \in Slots(item) : n \in S <=> hash[item.keys_[n]] % cap = b
  BY <1>1 DEF Chosen
<1>3. new = [keys_ |-> [n \in DOMAIN at |-> item.keys_[at[n]]],
             vals_ |-> [n \in DOMAIN at |-> item.vals_[at[n]]]]
  BY DEF Moved
<1> HIDE DEF S
<1>4. Ascent(at, S)
  BY <1>1, <1>2, AscendingIs DEF Slots
<1> HIDE DEF at, new
<1>5. /\ IsSeq(at) /\ l \in Nat /\ DOMAIN at = 1 .. l
      /\ \A n \in 1 .. l : at[n] \in S /\ at[n] \in Slots(item) /\ at[n] \in Nat
      /\ \A x \in S : \E n \in 1 .. l : at[n] = x
      /\ \A m, n \in 1 .. l : m < n => at[m] < at[n]
  <2>1. Slots(item) \subseteq Nat
    BY <1>1 DEF Slots
  <2>2. IsSeq(at) /\ l \in Nat /\ DOMAIN at = 1 .. l
    BY <1>4 DEF Ascent, IsSeq
  <2> QED
    BY <1>2, <1>4, <2>1, <2>2 DEF Ascent
<1>6. \A m, n \in 1 .. l : at[m] = at[n] => m = n
  <2>1. SUFFICES ASSUME NEW m \in 1 .. l, NEW n \in 1 .. l, at[m] = at[n], m # n PROVE FALSE
    OBVIOUS
  <2>2. m < n \/ n < m
    BY <1>5, <2>1
  <2>3. at[m] \in Nat /\ at[n] \in Nat
    BY <1>5
  <2> QED
    BY <1>5, <2>1, <2>2, <2>3
<1> HIDE DEF l
<1>7. /\ new.keys_ = [n \in 1 .. l |-> item.keys_[at[n]]]
      /\ new.vals_ = [n \in 1 .. l |-> item.vals_[at[n]]]
  BY <1>3, <1>5
<1>8. /\ IsSeq(new.keys_) /\ Len(new.keys_) = l /\ Slots(new) = 1 .. l
      /\ IsSeq(new.vals_) /\ Len(new.vals_) = l
  <2>1. new.keys_ = [n \in 1 .. l |-> new.keys_[n]]
    BY <1>7
  <2>2. new.vals_ = [n \in 1 .. l |-> new.vals_[n]]
    BY <1>7
  <2>3. IsSeq(new.keys_) /\ Len(new.keys_) = l
    BY <1>5, <2>1, FunctionIsSeq
  <2>4. IsSeq(new.vals_) /\ Len(new.vals_) = l
    BY <1>5, <2>2, FunctionIsSeq
  <2> QED
    BY <2>3, <2>4 DEF Slots
<1>9. \A n \in Slots(new) : /\ new.keys_[n] = item.keys_[at[n]]
                            /\ new.vals_[n] = item.vals_[at[n]]
                            /\ at[n] \in S /\ at[n] \in Slots(item)
  BY <1>5, <1>7, <1>8
<1>10. Bucket(new, b, cap) /\ AllKeys(new)
  <2>1. new = [keys_ |-> new.keys_, vals_ |-> new.vals_]
    BY <1>3
  <2>2. \A n \in Slots(new) : new.keys_[n] \in Key
    BY <1>9 DEF AllKeys
  <2>3. ASSUME NEW n \in Slots(new)
        PROVE  hash[new.keys_[n]] % cap = b /\ new.vals_[n] \in Num
    <3>1. item.keys_[at[n]] \in Key /\ at[n] \in Slots(item)
      BY <1>9 DEF AllKeys
    <3>2. item.vals_[at[n]] \in Num
      BY <3>1 DEF Bucket
    <3> QED
      BY <1>2, <1>9, <3>1, <3>2
  <2>4. ASSUME NEW m \in Slots(new), NEW n \in Slots(new), new.keys_[m] = new.keys_[n]
        PROVE  m = n
    <3>1. item.keys_[at[m]] = item.keys_[at[n]] /\ at[m] \in Slots(item)
          /\ at[n] \in Slots(item) /\ item.keys_[at[m]] \in Key
      BY <1>9, <2>4 DEF AllKeys
    <3>2. at[m] = at[n]
      BY <3>1 DEF Bucket
    <3> QED
      BY <1>6, <1>8, <3>2
  <2> QED
    BY <1>8, <2>1, <2>2, <2>3, <2>4 DEF Bucket, AllKeys
<1>11. ASSUME NEW q \in Key, hash[q] % cap = b
       PROVE  /\ Has(new, q) <=> Has(item, q)
              /\ ValueIn(new, q) = ValueIn(item, q)
  <2>1. Has(new, q) => Has(item, q)
    BY <1>9 DEF Has
  <2>2. CASE ~Has(item, q)
    BY <1>10, <2>1, <2>2, ValueInIs
  <2>3. CASE Has(item, q)
    <3>1. PICK m \in Slots(item) : item.keys_[m] = q
      BY <2>3 DEF Has
    <3>2. PICK n \in 1 .. l : at[n] = m
      BY <1>2, <1>5, <1>11, <3>1
    <3>3. n \in Slots(new) /\ new.keys_[n] = q /\ new.vals_[n] = item.vals_[m]
      BY <1>8, <1>9, <3>1, <3>2
    <3>4. ValueIn(item, q) = item.vals_[m] /\ ValueIn(new, q) = new.vals_[n]
      BY <1>10, <3>1, <3>3, ValueInIs
    <3> QED
      BY <2>3, <3>3, <3>4 DEF Has
  <2> QED
    BY <2>2, <2>3
<1> QED
  BY <1>10, <1>11 DEF new

\* A number of a bucket of twice as many is, in the smaller map, in the bucket
\* that it is split from.
LEMMA SplitBucket ==
  ASSUME NEW h \in Nat, NEW cap \in Nat \ {0}
  PROVE  /\ h % (2 * cap) \in Buckets(2 * cap)
         /\ (h % (2 * cap)) % cap = h % cap
         /\ h % cap \in Buckets(cap)
<1> DEFINE q == h \div (2 * cap)
           r == h % (2 * cap)
<1>1. 2 * cap \in Nat \ {0} /\ 2 * cap = cap + cap
  OBVIOUS
<1>2. r = h - q * (2 * cap) /\ q \in Nat /\ q * (2 * cap) <= h
      /\ h < q * (2 * cap) + 2 * cap
  BY <1>1, Division
<1>3. q * (2 * cap) = 2 * q * cap
  BY <1>2
<1>4. 2 * q * cap \in Nat
  BY <1>2
<1>5. r \in Nat /\ r < cap + cap /\ h = 2 * q * cap + r
  BY <1>1, <1>2, <1>3, <1>4
<1> HIDE DEF r
<1> DEFINE s == r \div cap
<1>6. s \in Nat /\ r % cap = r - s * cap /\ s * cap <= r /\ r < s * cap + cap
  BY <1>5, Division
<1> DEFINE t == h \div cap
<1>7. t \in Nat /\ h % cap = h - t * cap /\ t * cap <= h /\ h < t * cap + cap
  BY Division
<1>8. t = 2 * q + s
  <2>1. (2 * q + s) * cap = 2 * q * cap + s * cap
    BY <1>2, <1>6
  <2>2. s * cap \in Nat
    BY <1>6
  <2>3. (2 * q + s) * cap <= h /\ h < (2 * q + s) * cap + cap
    BY <1>4, <1>5, <1>6, <2>1, <2>2
  <2>4. 2 * q + s \in Int /\ t \in Int /\ h \in Int
    BY <1>2, <1>6, <1>7
  <2> HIDE DEF q, s, t
  <2> QED
    BY <1>7, <2>3, <2>4, OneQuotient
<1>9. t * cap = 2 * q * cap + s * cap
  <2>1. (2 * q + s) * cap = 2 * q * cap + s * cap
    BY <1>2, <1>6
  <2> HIDE DEF t
  <2> QED
    BY <1>8, <2>1
<1>10. s * cap \in Nat /\ t * cap \in Nat
  BY <1>6, <1>7
<1>11. r % cap = h % cap
  BY <1>4, <1>5, <1>6, <1>7, <1>9, <1>10
<1>12. r \in Buckets(2 * cap)
  BY <1>5 DEF Buckets
<1>13. h % cap \in Buckets(cap)
  BY <1>7, <1>10 DEF Buckets
<1> QED
  BY <1>11, <1>12, <1>13 DEF r
-----------------------------------------------------------------------------
(***************************************************************************)
(* The map as a dictionary.                                                *)
(***************************************************************************)
\* items are the buckets of a map with cap of them.
IsMap(items, cap) ==
  /\ hash \in [Key -> Nat]
  /\ cap \in Nat \ {0}
  /\ items = [b \in Buckets(cap) |-> items[b]]
  /\ \A b \in Buckets(cap) : Bucket(items[b], b, cap)

\* The values of its keys, and the keys that are there.
ValuesOf(items, cap) == [k \in Key |-> ValueIn(items[hash[k] % cap], k)]
KeysOf(items, cap)   == {k \in Key : Has(items[hash[k] % cap], k)}

Contents == [k \in Key |-> Content(k)]

LEMMA ContentsAre == Contents = ValuesOf(items_, capacity_)
  BY DEF Contents, ValuesOf, Content, ValueIn, off_

\* The map while the program goes on.
MapInv == program = "going" => /\ IsMap(items_, capacity_)
                               /\ IsFiniteSet(KeysOf(items_, capacity_))
                               /\ size_ = Cardinality(KeysOf(items_, capacity_))

Value == Num \cup {n + 1 : n \in Num}

LEMMA Offsets ==
  ASSUME NEW items, NEW cap, IsMap(items, cap)
  PROVE  \A k \in Key : /\ hash[k] % cap \in Buckets(cap)
                        /\ Bucket(items[hash[k] % cap], hash[k] % cap, cap)
<1>1. \A k \in Key : hash[k] \in Nat
  BY DEF IsMap
<1>2. \A k \in Key : hash[k] % cap \in Buckets(cap)
  BY <1>1, SplitBucket DEF IsMap
<1> QED
  BY <1>2 DEF IsMap

LEMMA MapInitially == MapInit => MapInv /\ Contents = [k \in Key |-> Null]
<1> SUFFICES ASSUME MapInit PROVE MapInv /\ Contents = [k \in Key |-> Null]
  OBVIOUS
<1>1. hash \in [Key -> Nat] /\ capacity_ \in Nat \ {0} /\ capacity_ = Capacity
  BY JVMapAssumption DEF MapInit
<1>2. \A b \in Buckets(capacity_) : items_[b] = [keys_ |-> <<>>, vals_ |-> <<>>]
  BY <1>1 DEF MapInit, EmptyItems
<1>3. \A b \in Buckets(capacity_) : Bucket(items_[b], b, capacity_) /\ Slots(items_[b]) = {}
  BY <1>2, NoElements DEF Bucket, Slots
<1>4. IsMap(items_, capacity_)
  BY <1>1, <1>3 DEF IsMap, MapInit, EmptyItems
<1>5. \A k \in Key : hash[k] % capacity_ \in Buckets(capacity_)
  BY <1>4, Offsets
<1>6. \A k \in Key : ~Has(items_[hash[k] % capacity_], k)
  BY <1>3, <1>5 DEF Has
<1>7. \A k \in Key : ValueIn(items_[hash[k] % capacity_], k) = Null
  BY <1>3, <1>5, <1>6, ValueInIs
<1>8. KeysOf(items_, capacity_) = {}
  BY <1>6 DEF KeysOf
<1>9. size_ = 0
  BY DEF MapInit
<1>10. Contents = [k \in Key |-> Null]
  BY <1>7, ContentsAre DEF ValuesOf
<1> QED
  BY <1>4, <1>8, <1>9, <1>10, FS_EmptySet DEF MapInv

\* A function with one value changed.
\* f with the value v at x, and no other change.
With(f, x, v) == [f EXCEPT ![x] = v]

\* Two buckets with the same keys but one, and the same values of them.
SameBut(item, new, k) ==
  \A q \in Key \ {k} : /\ ValueIn(new, q) = ValueIn(item, q)
                       /\ Has(new, q) <=> Has(item, q)

\* One bucket of a map changes: what becomes of one key in it is all that does.
LEMMA OneBucket ==
  ASSUME NEW items, NEW cap, IsMap(items, cap),
         NEW k \in Key, NEW new, Bucket(new, hash[k] % cap, cap),
         SameBut(items[hash[k] % cap], new, k),
         NEW more, more = With(items, hash[k] % cap, new)
  PROVE  /\ IsMap(more, cap)
         /\ ValuesOf(more, cap) = With(ValuesOf(items, cap), k, ValueIn(new, k))
         /\ KeysOf(more, cap) = IF Has(new, k) THEN KeysOf(items, cap) \cup {k}
                                ELSE KeysOf(items, cap) \ {k}
<1> DEFINE b == hash[k] % cap
<1>1. b \in Buckets(cap) /\ \A q \in Key : hash[q] % cap \in Buckets(cap)
  BY Offsets
<1>2. items = [c \in Buckets(cap) |-> items[c]]
  BY DEF IsMap
<1>3. \A q \in Key \ {k} : /\ ValueIn(new, q) = ValueIn(items[b], q)
                           /\ Has(new, q) <=> Has(items[b], q)
  <2>1. SameBut(items[b], new, k)
    OBVIOUS
  <2> HIDE DEF b
  <2> QED
    BY <2>1 DEF SameBut
<1>4. Bucket(new, b, cap)
  OBVIOUS
<1>15. more = With(items, b, new)
  OBVIOUS
<1> HIDE DEF b
<1>5. more = [c \in Buckets(cap) |-> more[c]]
      /\ \A c \in Buckets(cap) : more[c] = IF c = b THEN new ELSE items[c]
  BY <1>2, <1>15 DEF With
<1>6. IsMap(more, cap)
  BY <1>4, <1>5 DEF IsMap
<1>7. \A q \in Key \ {k} : /\ ValueIn(more[hash[q] % cap], q) = ValueIn(items[hash[q] % cap], q)
                           /\ Has(more[hash[q] % cap], q) <=> Has(items[hash[q] % cap], q)
  BY <1>1, <1>3, <1>5
<1>8. more[hash[k] % cap] = new
  BY <1>1, <1>5 DEF b
<1>9. ValuesOf(more, cap) = With(ValuesOf(items, cap), k, ValueIn(new, k))
  <2> DEFINE w == ValueIn(new, k)
             f == ValuesOf(more, cap)
             g == ValuesOf(items, cap)
  <2>1. \A q \in Key : f[q] = IF q = k THEN w ELSE g[q]
    BY <1>7, <1>8 DEF ValuesOf
  <2>2. f = [q \in Key |-> f[q]] /\ g = [q \in Key |-> g[q]]
    BY DEF ValuesOf
  <2> HIDE DEF f, g, w
  <2>3. f = With(g, k, w)
    BY <2>1, <2>2 DEF With
  <2> QED
    BY <2>3 DEF f, g, w
<1>10. \A q \in Key : q \in KeysOf(more, cap) <=>
                       IF q = k THEN Has(new, k) ELSE q \in KeysOf(items, cap)
  BY <1>7, <1>8 DEF KeysOf
<1>11. KeysOf(more, cap) \subseteq Key /\ KeysOf(items, cap) \subseteq Key
  BY DEF KeysOf
<1>12. KeysOf(more, cap) = IF Has(new, k) THEN KeysOf(items, cap) \cup {k}
                           ELSE KeysOf(items, cap) \ {k}
  BY <1>10, <1>11
<1> QED
  BY <1>6, <1>9, <1>12

LEMMA AllAreKeys ==
  ASSUME NEW cap, cap = capacity_, IsMap(items_, cap), ~HasNoKey
  PROVE  \A b \in Buckets(cap) : AllKeys(items_[b])
<1> SUFFICES ASSUME NEW b \in Buckets(cap), NEW n \in Slots(items_[b])
             PROVE  items_[b].keys_[n] \in Key
  BY DEF AllKeys
<1>1. Bucket(items_[b], b, cap)
  BY DEF IsMap
<1>2. DOMAIN items_[b].keys_ = Slots(items_[b])
  BY <1>1, BucketKeys
<1>3. items_[b].keys_[n] \in Range(items_[b].keys_)
  BY <1>2 DEF Range
<1>4. items_[b].keys_[n] \notin NoKey
  BY <1>3 DEF HasNoKey
<1> QED
  BY <1>1, <1>4 DEF Bucket

\* Growth changes no value.
LEMMA GrowthKeeps ==
  ASSUME IsMap(items_, capacity_), ~HasNoKey
  PROVE  /\ IsMap(grow, 2 * capacity_)
         /\ ValuesOf(grow, 2 * capacity_) = ValuesOf(items_, capacity_)
         /\ KeysOf(grow, 2 * capacity_) = KeysOf(items_, capacity_)
         /\ \A b \in Buckets(2 * capacity_) : AllKeys(grow[b])
<1> DEFINE cap  == 2 * capacity_
           more == grow
<1>1. capacity_ \in Nat \ {0} /\ cap \in Nat \ {0}
  BY DEF IsMap
<1>2. more = [b \in Buckets(cap) |-> Moved(items_[b % capacity_], b, cap)]
  BY GrowIs
<1>3. \A b \in Buckets(cap) : b % capacity_ \in Buckets(capacity_)
  <2>1. \A b \in Buckets(cap) : b \in Nat
    BY <1>1 DEF Buckets
  <2> QED
    BY <1>1, <2>1, SplitBucket
<1>4. \A b \in Buckets(capacity_) : AllKeys(items_[b]) /\ Bucket(items_[b], b, capacity_)
  BY AllAreKeys DEF IsMap
<1>11. \A q \in Key : /\ hash[q] % cap \in Buckets(cap)
                      /\ (hash[q] % cap) % capacity_ = hash[q] % capacity_
  <2>1. \A q \in Key : hash[q] \in Nat
    BY DEF IsMap
  <2> QED
    BY <1>1, <2>1, SplitBucket
<1> HIDE DEF more, cap
<1>5. \A b \in Buckets(cap) :
        /\ Bucket(more[b], b, cap) /\ AllKeys(more[b])
        /\ \A q \in Key : hash[q] % cap = b =>
             /\ Has(more[b], q) <=> Has(items_[b % capacity_], q)
             /\ ValueIn(more[b], q) = ValueIn(items_[b % capacity_], q)
  <2> SUFFICES ASSUME NEW b \in Buckets(cap)
               PROVE  /\ Bucket(more[b], b, cap) /\ AllKeys(more[b])
                      /\ \A q \in Key : hash[q] % cap = b =>
                           /\ Has(more[b], q) <=> Has(items_[b % capacity_], q)
                           /\ ValueIn(more[b], q) = ValueIn(items_[b % capacity_], q)
    OBVIOUS
  <2> DEFINE old == items_[b % capacity_]
             new == more[b]
  <2>1. AllKeys(old) /\ Bucket(old, b % capacity_, capacity_)
    BY <1>3, <1>4
  <2>2. new = Moved(old, b, cap)
    BY <1>2
  <2> HIDE DEF old, new
  <2>3. /\ Bucket(new, b, cap) /\ AllKeys(new)
        /\ \A q \in Key : hash[q] % cap = b => /\ Has(new, q) <=> Has(old, q)
                                               /\ ValueIn(new, q) = ValueIn(old, q)
    BY <2>1, <2>2, MovedIs
  <2> QED
    BY <2>3 DEF old, new
<1>6. IsMap(more, cap)
  <2>1. more = [b \in Buckets(cap) |-> more[b]]
    BY <1>2
  <2> QED
    BY <1>1, <1>5, <2>1 DEF IsMap
<1>7. \A q \in Key :
        /\ Has(more[hash[q] % cap], q) <=> Has(items_[hash[q] % capacity_], q)
        /\ ValueIn(more[hash[q] % cap], q) = ValueIn(items_[hash[q] % capacity_], q)
  BY <1>5, <1>11
<1>8. ValuesOf(more, cap) = ValuesOf(items_, capacity_)
  BY <1>7 DEF ValuesOf
<1>9. KeysOf(more, cap) = KeysOf(items_, capacity_)
  BY <1>7 DEF KeysOf
<1> QED
  BY <1>5, <1>6, <1>8, <1>9 DEF more, cap

\* set of a map that has been made to grow, or not.
LEMMA SetStep ==
  ASSUME NEW items, NEW cap, IsMap(items, cap), NEW k \in Key, NEW v \in Num,
         ~Crashes(items[hash[k] % cap], k),
         NEW more,
         more = With(items, hash[k] % cap, set_(items[hash[k] % cap], k, v))
  PROVE  /\ IsMap(more, cap)
         /\ ValuesOf(more, cap) = With(ValuesOf(items, cap), k, v)
         /\ KeysOf(more, cap) = KeysOf(items, cap) \cup {k}
         /\ Found(items[hash[k] % cap], k) <=> k \in KeysOf(items, cap)
<1> DEFINE b   == hash[k] % cap
           old == items[b]
           new == set_(old, k, v)
<1>0. more = With(items, b, new)
  OBVIOUS
<1>1. b \in Buckets(cap) /\ Bucket(old, b, cap)
  BY Offsets
<1>2. ~Crashes(old, k)
  OBVIOUS
<1> HIDE DEF old
<1>3. Bucket(new, b, cap) /\ SetIn(old, new, k, v)
  <2>1. CASE Found(old, k)
    BY <1>1, <2>1, SetOver
  <2>2. CASE ~Found(old, k)
    BY <1>1, <1>2, <2>2, SetNew
  <2> QED
    BY <2>1, <2>2
<1>4. Found(old, k) <=> Has(old, k)
  BY <1>1, <1>2, Search DEF Has
<1> HIDE DEF new
<1>5. /\ ValueIn(new, k) = v /\ Has(new, k)
      /\ \A q \in Key \ {k} : /\ ValueIn(new, q) = ValueIn(old, q)
                              /\ Has(new, q) <=> Has(old, q)
  BY <1>3 DEF SetIn
<1>6. /\ IsMap(more, cap)
      /\ ValuesOf(more, cap) = With(ValuesOf(items, cap), k, v)
      /\ KeysOf(more, cap) = KeysOf(items, cap) \cup {k}
  <2>1. SameBut(items[hash[k] % cap], new, k)
    BY <1>5 DEF old, SameBut
  <2>2. Bucket(new, hash[k] % cap, cap) /\ more = With(items, hash[k] % cap, new)
    BY <1>0, <1>3
  <2> QED
    BY <1>5, <2>1, <2>2, OneBucket
<1>7. Found(old, k) <=> k \in KeysOf(items, cap)
  BY <1>4 DEF KeysOf, old
<1> QED
  BY <1>6, <1>7 DEF old

\* A map of keys only crashes nowhere.
LEMMA NoWild ==
  ASSUME NEW item, NEW b, NEW cap, Bucket(item, b, cap), AllKeys(item), NEW k \in Key
  PROVE  ~Crashes(item, k)
<1> SUFFICES ASSUME Crashes(item, k) PROVE FALSE
  OBVIOUS
<1> DEFINE A == At(item, k)
<1>1. A \subseteq Slots(item) /\ Slots(item) \subseteq Nat
  BY BucketKeys DEF At, Slots
<1>2. A # {} /\ item.keys_[Min(A)] = Wild
  BY DEF Crashes
<1> HIDE DEF A
<1>3. Min(A) \in Slots(item)
  BY <1>1, <1>2, LeastIs
<1> QED
  BY <1>2, <1>3, NoKeys DEF AllKeys

\* The steps of a dictionary, on the values.
Updated(k, v) == Contents' = With(Contents, k, v)

LEMMA SetMaps ==
  ASSUME MapInv, program = "going", NEW k \in Key, NEW v \in Num, Set(k, v)
  PROVE  MapInv' /\ (Updated(k, v) \/ UNCHANGED Contents)
<1> DEFINE full  == size_ >= capacity_
           cap   == IF full THEN 2 * capacity_ ELSE capacity_
           items == IF full THEN grow ELSE items_
           b     == hash[k] % cap
           K     == KeysOf(items_, capacity_)
<1>1. IsMap(items_, capacity_) /\ IsFiniteSet(K) /\ size_ = Cardinality(K)
  BY DEF MapInv
<1>2. hash' = hash
  BY DEF Set
<1>3. CASE program' # "going"
  <2>1. UNCHANGED <<capacity_, size_, items_>>
    BY <1>3 DEF Set
  <2>2. UNCHANGED Contents
    BY <1>2, <2>1 DEF Contents, Content, off_
  <2> QED
    BY <1>3, <2>2 DEF MapInv
<1>4. CASE program' = "going"
  <2>1. /\ ~(full /\ HasNoKey) /\ ~(~full /\ Crashes(items_[off_(k)], k))
        /\ items_' = [items EXCEPT ![b] = set_(@, k, v)]
        /\ size_' = IF Found(items[b], k) THEN size_ ELSE size_ + 1
        /\ capacity_' = cap
    BY <1>4 DEF Set
  <2>2. /\ IsMap(items, cap) /\ ValuesOf(items, cap) = Contents /\ KeysOf(items, cap) = K
        /\ ~Crashes(items[b], k)
    <3>1. CASE full
      <4>1. ~HasNoKey /\ cap = 2 * capacity_ /\ items = grow
        BY <2>1, <3>1
      <4>2. /\ IsMap(items, cap) /\ ValuesOf(items, cap) = ValuesOf(items_, capacity_)
            /\ KeysOf(items, cap) = K /\ \A c \in Buckets(cap) : AllKeys(items[c])
        BY <1>1, <4>1, GrowthKeeps
      <4> HIDE DEF items, cap
      <4>3. b \in Buckets(cap) /\ Bucket(items[b], b, cap)
        BY <4>2, Offsets
      <4>4. ~Crashes(items[b], k)
        BY <4>2, <4>3, NoWild
      <4> QED
        BY <4>2, <4>4, ContentsAre
    <3>2. CASE ~full
      BY <1>1, <2>1, <3>2, ContentsAre DEF off_
    <3> QED
      BY <3>1, <3>2
  <2> HIDE DEF items, cap
  <2>3. /\ IsMap(items_', cap)
        /\ ValuesOf(items_', cap) = With(ValuesOf(items, cap), k, v)
        /\ KeysOf(items_', cap) = KeysOf(items, cap) \cup {k}
        /\ Found(items[b], k) <=> k \in KeysOf(items, cap)
    <3>1. items_' = With(items, hash[k] % cap, set_(items[hash[k] % cap], k, v))
      BY <2>1 DEF With
    <3>2. IsMap(items, cap) /\ ~Crashes(items[hash[k] % cap], k)
      BY <2>2
    <3> QED
      BY <3>1, <3>2, SetStep
  <2>4. /\ IsMap(items_, capacity_)' /\ ValuesOf(items_, capacity_)' = ValuesOf(items_', cap)
        /\ KeysOf(items_, capacity_)' = KeysOf(items_', cap)
    <3>1. capacity_' = cap
      BY <2>1
    <3>2. \A c \in Buckets(cap) : Bucket(items_[c], c, capacity_)' = Bucket(items_'[c], c, cap)
      BY <1>2, <3>1 DEF Bucket, Slots
    <3>3. IsMap(items_, capacity_)'
      BY <1>2, <2>3, <3>1, <3>2 DEF IsMap, Buckets
    <3>4. ValuesOf(items_, capacity_)' = ValuesOf(items_', cap)
      BY <1>2, <3>1 DEF ValuesOf, ValueIn
    <3>5. KeysOf(items_, capacity_)' = KeysOf(items_', cap)
      BY <1>2, <3>1 DEF KeysOf, Has, Slots
    <3> QED
      BY <3>3, <3>4, <3>5
  <2>5. Contents' = ValuesOf(items_, capacity_)'
    BY DEF Contents, ValuesOf, Content, ValueIn, off_
  <2>6. Updated(k, v)
    BY <2>2, <2>3, <2>4, <2>5 DEF Updated
  <2> HIDE DEF K
  <2>7. KeysOf(items_, capacity_)' = K \cup {k}
    BY <2>2, <2>3, <2>4
  <2>8. IsFiniteSet(K \cup {k}) /\ Cardinality(K \cup {k}) =
                                     IF k \in K THEN Cardinality(K) ELSE Cardinality(K) + 1
    BY <1>1, FS_AddElement
  <2>9. size_' = Cardinality(K \cup {k})
    BY <1>1, <2>1, <2>2, <2>3, <2>8
  <2> QED
    BY <2>4, <2>6, <2>7, <2>8, <2>9 DEF MapInv
<1> QED
  BY <1>3, <1>4

LEMMA EraseMaps ==
  ASSUME MapInv, program = "going", NEW k \in Key, Erase(k)
  PROVE  MapInv' /\ (Updated(k, Null) \/ UNCHANGED Contents)
<1> DEFINE K == KeysOf(items_, capacity_)
           b == hash[k] % capacity_
           old == items_[b]
           n   == Min(At(items_[b], k))
<1>1. IsMap(items_, capacity_) /\ IsFiniteSet(K) /\ size_ = Cardinality(K)
  BY DEF MapInv
<1>2. hash' = hash /\ capacity_' = capacity_
  BY DEF Erase
<1>3. CASE UNCHANGED <<size_, items_>>
  <2>1. UNCHANGED <<hash, capacity_, items_, size_>>
    BY <1>2, <1>3
  <2>2. UNCHANGED Contents
    BY <2>1 DEF Contents, Content, off_
  <2>3. MapInv'
    BY <1>1, <2>1 DEF MapInv, IsMap, Bucket, Slots, KeysOf, Has
  <2> QED
    BY <2>2, <2>3
<1>4. CASE ~ UNCHANGED <<size_, items_>>
  <2>1. /\ ~Crashes(old, k) /\ Found(old, k)
        /\ \E last \in NoKey :
             items_' = [items_ EXCEPT ![b] = [keys_ |-> erase_(@.keys_, n, last),
                                              vals_ |-> erase_(@.vals_, n, last)]]
        /\ size_' = size_ - 1
    <3>1. ~Crashes(old, k)
      <4>1. ASSUME Crashes(items_[off_(k)], k) PROVE UNCHANGED <<size_, items_>>
        <5>1. ~Found(items_[off_(k)], k)
          BY <4>1, NoKeys DEF Found, Crashes
        <5> QED
          BY <4>1, <5>1 DEF Erase
      <4> QED
        BY <1>4, <4>1 DEF off_
    <3>2. Found(old, k)
      BY <1>4, <3>1 DEF Erase, off_
    <3> QED
      BY <3>1, <3>2 DEF Erase, off_
  <2>2. PICK last \in NoKey :
          items_' = [items_ EXCEPT ![b] = [keys_ |-> erase_(@.keys_, n, last),
                                           vals_ |-> erase_(@.vals_, n, last)]]
    BY <2>1
  <2> DEFINE new == Erased(old, k, last)
  <2>3. items_' = With(items_, b, new)
    BY <2>2 DEF With, Erased
  <2>4. b \in Buckets(capacity_) /\ Bucket(old, b, capacity_)
    BY <1>1, Offsets
  <2> HIDE DEF old, new
  <2>5. /\ Bucket(new, b, capacity_) /\ ~Has(new, k)
        /\ \A q \in Key \ {k} : /\ ValueIn(new, q) = ValueIn(old, q)
                                /\ Has(new, q) <=> Has(old, q)
    BY <2>1, <2>4, EraseOne DEF new
  <2>6. SameBut(old, new, k)
    BY <2>5 DEF SameBut
  <2>7. /\ IsMap(items_', capacity_)
        /\ ValuesOf(items_', capacity_) = With(ValuesOf(items_, capacity_), k, ValueIn(new, k))
        /\ KeysOf(items_', capacity_) = K \ {k}
    <3>1. items_' = With(items_, hash[k] % capacity_, new)
      BY <2>3
    <3>2. Bucket(new, hash[k] % capacity_, capacity_)
          /\ SameBut(items_[hash[k] % capacity_], new, k)
      BY <2>5, <2>6 DEF old
    <3> QED
      BY <1>1, <2>5, <3>1, <3>2, OneBucket
  <2>8. ValueIn(new, k) = Null
    BY <2>5, ValueInIs
  <2>9. k \in K
    BY <2>1, <2>4, Search DEF KeysOf, Has, old
  <2>10. /\ IsMap(items_, capacity_)' /\ ValuesOf(items_, capacity_)' = ValuesOf(items_', capacity_)
         /\ KeysOf(items_, capacity_)' = KeysOf(items_', capacity_)
    <3>2. \A c \in Buckets(capacity_) :
            Bucket(items_[c], c, capacity_)' = Bucket(items_'[c], c, capacity_)
      BY <1>2 DEF Bucket, Slots
    <3>3. IsMap(items_, capacity_)'
      BY <1>2, <2>7, <3>2 DEF IsMap, Buckets
    <3>4. ValuesOf(items_, capacity_)' = ValuesOf(items_', capacity_)
      BY <1>2 DEF ValuesOf, ValueIn
    <3>5. KeysOf(items_, capacity_)' = KeysOf(items_', capacity_)
      BY <1>2 DEF KeysOf, Has, Slots
    <3> QED
      BY <3>3, <3>4, <3>5
  <2>11. Contents' = ValuesOf(items_, capacity_)'
    BY DEF Contents, ValuesOf, Content, ValueIn, off_
  <2>12. Updated(k, Null)
    BY <2>7, <2>8, <2>10, <2>11, ContentsAre DEF Updated
  <2> HIDE DEF K
  <2>13. IsFiniteSet(K \ {k}) /\ Cardinality(K \ {k}) = size_ - 1
    BY <1>1, <2>9, FS_RemoveElement
  <2>14. KeysOf(items_, capacity_)' = K \ {k} /\ size_' = size_ - 1
    BY <2>1, <2>7, <2>10
  <2> QED
    BY <2>10, <2>12, <2>13, <2>14 DEF MapInv
<1> QED
  BY <1>3, <1>4

\* What counts a word, or crashes, ends the program.
LEMMA CountMaps ==
  ASSUME MapInv, program = "going", NEW k \in Key, Count(k)
  PROVE  MapInv' /\ ((\E v \in Value : Updated(k, v)) \/ UNCHANGED Contents)
<1> DEFINE b   == hash[k] % capacity_
           old == items_[b]
           n   == Min(At(old, k))
<1>1. IsMap(items_, capacity_)
  BY DEF MapInv
<1>2. hash' = hash /\ capacity_' = capacity_ /\ program' = "stuck"
  BY DEF Count
<1>3. MapInv'
  BY <1>2 DEF MapInv
<1>4. b \in Buckets(capacity_) /\ Bucket(old, b, capacity_)
  BY <1>1, Offsets
<1>5. CASE ~Found(old, k)
  <2>1. items_' = items_
    BY <1>5 DEF Count, off_
  <2>2. UNCHANGED Contents
    BY <1>2, <2>1 DEF Contents, Content, off_
  <2> QED
    BY <1>3, <2>2
<1>6. CASE Found(old, k)
  <2> DEFINE v   == old.vals_[n] + 1
             new == set_(old, k, v)
  <2>1. n \in Slots(old) /\ old.keys_[n] = k /\ old.vals_[n] \in Num
    BY <1>4, <1>6, Search DEF Bucket
  <2>2. items_' = [items_ EXCEPT ![b].vals_[n] = @ + 1]
    BY <1>6 DEF Count, off_
  <2>3. items_ = [c \in Buckets(capacity_) |-> items_[c]]
        /\ old = [keys_ |-> old.keys_, vals_ |-> old.vals_]
    BY <1>1, <1>4 DEF IsMap, Bucket
  <2> DEFINE vals == [old.vals_ EXCEPT ![n] = v]
  <2>4. /\ \A c \in Buckets(capacity_) : c # b => items_'[c] = items_[c]
        /\ items_'[b].keys_ = old.keys_ /\ items_'[b].vals_ = vals
    <3>1. items_' = [items_ EXCEPT ![b] = [old EXCEPT !.vals_ = vals]]
      BY <2>2
    <3>2. items_'[b] = [old EXCEPT !.vals_ = vals]
      BY <1>4, <2>3, <3>1
    <3>3. \A c \in Buckets(capacity_) : c # b => items_'[c] = items_[c]
      BY <2>3, <3>1
    <3> QED
      BY <2>3, <3>2, <3>3
  <2>5. /\ old.vals_ = [m \in Slots(old) |-> old.vals_[m]] /\ DOMAIN old.keys_ = Slots(old)
    <3>1. IsSeq(old.vals_) /\ Len(old.vals_) = Len(old.keys_)
      BY <1>4 DEF Bucket
    <3> QED
      BY <1>4, <3>1, BucketKeys DEF IsSeq, Slots
  <2> HIDE DEF old
  <2>6. \A m \in Slots(old) : vals[m] = IF m = n THEN v ELSE old.vals_[m]
    BY <2>5
  <2> HIDE DEF vals, v, n
  <2> DEFINE new2 == items_'[b]
             A(item, q) == {m \in DOMAIN item.keys_ : item.keys_[m] = q}
  <2>7. \A q \in Key : ValueIn(new2, q) = IF q = k THEN v ELSE ValueIn(old, q)
    <3> SUFFICES ASSUME NEW q \in Key
                 PROVE  ValueIn(new2, q) = IF q = k THEN v ELSE ValueIn(old, q)
      OBVIOUS
    <3>1. DOMAIN new2.keys_ = Slots(old) /\ new2.keys_ = old.keys_ /\ new2.vals_ = vals
      BY <2>4, <2>5
    <3> HIDE DEF new2
    <3>2. CASE ~Has(old, q)
      <4>1. {m \in DOMAIN new2.keys_ : new2.keys_[m] = q} = {}
        BY <3>1, <3>2 DEF Has
      <4>2. ValueIn(new2, q) = Null
        BY <4>1, Zenon DEF ValueIn
      <4>3. q # k
        BY <2>1, <3>2 DEF Has
      <4> QED
        BY <1>4, <3>2, <4>2, <4>3, ValueInIs
    <3>3. CASE Has(old, q)
      <4>1. PICK m \in Slots(old) : old.keys_[m] = q
        BY <3>3 DEF Has
      <4>2. {p \in DOMAIN new2.keys_ : new2.keys_[p] = q} = {m}
        BY <1>4, <3>1, <4>1 DEF Bucket
      <4>3. {p \in DOMAIN new2.keys_ : new2.keys_[p] = q} # {}
            /\ Min({p \in DOMAIN new2.keys_ : new2.keys_[p] = q}) = m
        <5>1. m \in Nat
          BY <1>4, <4>1, BucketKeys DEF Slots
        <5>2. Min({m}) = m
          BY <5>1, LeastIs
        <5> QED
          BY <4>2, <5>2
      <4>4. ValueIn(new2, q) = vals[m]
        BY <3>1, <4>3, Zenon DEF ValueIn
      <4>5. ValueIn(old, q) = old.vals_[m]
        BY <1>4, <4>1, ValueInIs
      <4>6. m = n <=> q = k
        BY <1>4, <2>1, <4>1 DEF Bucket
      <4> QED
        BY <2>6, <4>1, <4>4, <4>5, <4>6
    <3> QED
      BY <3>2, <3>3
  <2>8. \A q \in Key : ValueIn(items_'[hash[q] % capacity_], q) =
                         IF q = k THEN v ELSE ValueIn(items_[hash[q] % capacity_], q)
    <3> SUFFICES ASSUME NEW q \in Key
                 PROVE  ValueIn(items_'[hash[q] % capacity_], q) =
                         IF q = k THEN v ELSE ValueIn(items_[hash[q] % capacity_], q)
      OBVIOUS
    <3>1. hash[q] % capacity_ \in Buckets(capacity_)
      BY <1>1, Offsets
    <3>2. CASE hash[q] % capacity_ = b
      BY <2>7, <3>2 DEF old
    <3>3. CASE hash[q] % capacity_ # b
      <4>1. q # k
        BY <3>3
      <4> QED
        BY <2>4, <3>1, <3>3, <4>1
    <3> QED
      BY <3>2, <3>3
  <2>9. \A q : Content(q)' = ValueIn(items_'[hash[q] % capacity_], q)
    BY <1>2 DEF Content, ValueIn, off_
  <2>10. Contents' = With(Contents, k, v)
    <3>1. \A q \in Key : Contents'[q] = IF q = k THEN v ELSE Contents[q]
      <4>1. Contents = [q \in Key |-> ValueIn(items_[hash[q] % capacity_], q)]
        BY ContentsAre DEF ValuesOf
      <4>2. Contents' = [q \in Key |-> ValueIn(items_'[hash[q] % capacity_], q)]
        BY <2>9 DEF Contents
      <4> QED
        BY <2>8, <4>1, <4>2
    <3>2. Contents' = [q \in Key |-> Contents'[q]] /\ Contents = [q \in Key |-> Contents[q]]
      BY DEF Contents
    <3> DEFINE f == Contents'
    <3> HIDE DEF f
    <3> QED
      BY <3>1, <3>2 DEF With, f
  <2>11. v \in Value
    BY <2>1 DEF v, Value
  <2> QED
    BY <1>3, <2>10, <2>11 DEF Updated
<1> QED
  BY <1>5, <1>6

\* A step of the dictionary: one key gets a number, or loses its own.
DictStep == \/ \E k \in Key, v \in Value : Updated(k, v)
            \/ \E k \in Key : Updated(k, Null)
            \/ UNCHANGED Contents

LEMMA MapStep == MapInv /\ MapNext => MapInv' /\ DictStep
<1> SUFFICES ASSUME MapInv, MapNext PROVE MapInv' /\ DictStep
  OBVIOUS
<1>1. PICK k \in Key : \/ \E v \in Num : Set(k, v)
                       \/ Erase(k) \/ Lookup(k) \/ Count(k)
  BY DEF MapNext
<1>2. program = "going"
  BY DEF MapNext
<1>3. CASE \E v \in Num : Set(k, v)
  <2>1. PICK v \in Num : Set(k, v)
    BY <1>3
  <2>2. MapInv' /\ (Updated(k, v) \/ UNCHANGED Contents)
    BY <1>2, <2>1, SetMaps
  <2>3. v \in Value
    BY DEF Value
  <2> QED
    BY <2>2, <2>3 DEF DictStep
<1>4. CASE Erase(k)
  BY <1>2, <1>4, EraseMaps DEF DictStep
<1>5. CASE Lookup(k)
  <2>1. program' = "crashed" /\ UNCHANGED <<hash, capacity_, items_>>
    BY <1>5 DEF Lookup
  <2>2. UNCHANGED Contents
    BY <2>1 DEF Contents, Content, off_
  <2> QED
    BY <2>1, <2>2 DEF MapInv, DictStep
<1>6. CASE Count(k)
  BY <1>2, <1>6, CountMaps DEF DictStep
<1> QED
  BY <1>1, <1>3, <1>4, <1>5, <1>6

\* Summer only reads the map.
LEMMA SummerReads ==
  ASSUME MakeSummer \/ SumNext
  PROVE  UNCHANGED <<hash, capacity_, size_, items_>> /\ (program' = "going" => program = "going")
  BY DEF MakeSummer, SumNext

LEMMA MapUnchanged ==
  ASSUME MapInv, UNCHANGED <<hash, capacity_, size_, items_>>,
         program' = "going" => program = "going"
  PROVE  MapInv' /\ UNCHANGED Contents
<1>1. UNCHANGED Contents
  BY DEF Contents, Content, off_
<1>2. MapInv'
  BY DEF MapInv, IsMap, Bucket, Slots, KeysOf, Has
<1> QED
  BY <1>1, <1>2

LEMMA SummerMapStep ==
  MapInv /\ [SummerNext]_<<mapVars, summerVars>> => MapInv' /\ DictStep
<1> SUFFICES ASSUME MapInv, [SummerNext]_<<mapVars, summerVars>>
             PROVE  MapInv' /\ DictStep
  OBVIOUS
<1>1. CASE UseMap
  BY <1>1, MapStep DEF UseMap
<1>2. CASE MakeSummer \/ SumNext
  BY <1>2, SummerReads, MapUnchanged DEF DictStep
<1>3. CASE UNCHANGED <<mapVars, summerVars>>
  BY <1>3, MapUnchanged DEF DictStep, mapVars
<1> QED
  BY <1>1, <1>2, <1>3 DEF SummerNext

(* While the program goes on, each bucket holds keys that belong there, no *)
(* key twice, with a number each, and size_ is the number of keys: through *)
(* collisions, growth, and the shifts of erase (set, grow, erase).         *)
THEOREM MapInductive == SummerSpec => []MapInv
<1>1. SummerInit => MapInv
  BY MapInitially DEF SummerInit
<1> QED
  BY <1>1, SummerMapStep, PTL DEF SummerSpec

(* MapSpec: a map keeps the value of every key until it is set again or    *)
(* erased, for any keys, hash functions and sizes of the buckets.          *)
THEOREM MapIsDictionary == SummerSpec => MapSpec
<1>1. SummerInit => D!Init
  BY MapInitially DEF SummerInit, D!Init, Contents
<1>2. DictStep => [D!Next \/ \E k \in Key : D!Erase(k)]_[k \in Key |-> Content(k)]
  BY DEF DictStep, Updated, With, Contents, Value, D!Next, D!Add, D!Set, D!Erase
<1> QED
  BY <1>1, <1>2, MapInductive, SummerMapStep, PTL DEF SummerSpec, MapSpec, D!ErasingSpec
-----------------------------------------------------------------------------
(***************************************************************************)
(* The number of entries.                                                  *)
(***************************************************************************)
\* The entries, bucket by bucket: Entries is these in one sequence.
Parts ==
  [b \in 1 .. capacity_ |->
    LET item == items_[b - 1]
    IN  [n \in DOMAIN item.keys_ |-> <<item.keys_[n], item.vals_[n]>>]]

\* The entries of bucket b are in Entries behind position pos[b].
Positions(pos) ==
  /\ pos[0] = 0 /\ pos[capacity_] = Len(Entries)
  /\ \A b \in 0 .. capacity_ : pos[b] \in Nat /\ pos[b] <= Len(Entries)
  /\ \A b \in Buckets(capacity_) :
       /\ pos[b + 1] = pos[b] + Len(items_[b].keys_)
       /\ \A n \in Slots(items_[b]) :
            Entries[pos[b] + n] = <<items_[b].keys_[n], items_[b].vals_[n]>>

LEMMA PositionsExist ==
  ASSUME IsMap(items_, capacity_)
  PROVE  IsSeq(Entries) /\ \E pos : Positions(pos)
<1> DEFINE cap == capacity_
           p   == Parts
<1>0. cap \in Nat \ {0}
  BY DEF IsMap
<1>1. Entries = FlattenSeq(p)
  BY DEF Entries, Parts
<1>2. p = [b \in 1 .. cap |-> p[b]]
  BY DEF Parts
<1>3. IsSeq(p) /\ Len(p) = cap
  <2> HIDE DEF p
  <2> QED
    BY <1>0, <1>2, FunctionIsSeq
<1>4. ASSUME NEW b \in 1 .. cap
      PROVE  /\ IsSeq(p[b]) /\ Len(p[b]) = Len(items_[b - 1].keys_)
             /\ \A n \in Slots(items_[b - 1]) :
                  p[b][n] = <<items_[b - 1].keys_[n], items_[b - 1].vals_[n]>>
  <2> DEFINE item == items_[b - 1]
             q    == p[b]
             E(n) == <<item.keys_[n], item.vals_[n]>>
  <2>1. q = [n \in DOMAIN item.keys_ |-> E(n)]
    BY DEF Parts
  <2>2. b - 1 \in Buckets(cap)
    BY <1>0 DEF Buckets
  <2>3. Bucket(item, b - 1, cap)
    BY <2>2 DEF IsMap
  <2>4. DOMAIN item.keys_ = Slots(item) /\ Len(item.keys_) \in Nat
    BY <2>3, BucketKeys
  <2> HIDE DEF item, q
  <2>5. q = [n \in 1 .. Len(item.keys_) |-> q[n]] /\ \A n \in Slots(item) : q[n] = E(n)
    BY <2>1, <2>4 DEF Slots
  <2>6. IsSeq(q) /\ Len(q) = Len(item.keys_)
    BY <2>4, <2>5, FunctionIsSeq
  <2> QED
    BY <2>5, <2>6 DEF item, q
<1> HIDE DEF p
<1>5. /\ IsSeq(FlattenSeq(p))
      /\ \E pos : Laid(FlattenSeq(p), 0, p, pos) /\ Len(FlattenSeq(p)) = pos[Len(p)]
  BY <1>3, <1>4, Flattened
<1>6. PICK pos : Laid(Entries, 0, p, pos) /\ Len(Entries) = pos[cap]
  BY <1>1, <1>3, <1>5
<1> HIDE DEF cap
<1>7. /\ pos[0] = 0
      /\ \A k \in 0 .. cap : pos[k] \in Nat /\ 0 + pos[k] <= Len(Entries)
      /\ \A k \in 1 .. cap :
           /\ pos[k] = pos[k - 1] + Len(p[k])
           /\ \A j_ \in 1 .. Len(p[k]) : Entries[0 + pos[k - 1] + j_] = p[k][j_]
  BY <1>3, <1>6 DEF Laid
<1>8. \A b \in 0 .. cap : pos[b] \in Nat /\ pos[b] <= Len(Entries)
  BY <1>7
<1>9. ASSUME NEW b \in Buckets(cap)
      PROVE  /\ pos[b + 1] = pos[b] + Len(items_[b].keys_)
             /\ \A n \in Slots(items_[b]) :
                  Entries[pos[b] + n] = <<items_[b].keys_[n], items_[b].vals_[n]>>
  <2>1. b + 1 \in 1 .. cap /\ (b + 1) - 1 = b /\ b \in 0 .. cap
    BY <1>0 DEF Buckets, cap
  <2> DEFINE k == b + 1
  <2>2. k \in 1 .. cap /\ k - 1 = b
    BY <2>1
  <2> HIDE DEF k
  <2>3. /\ pos[k] = pos[k - 1] + Len(p[k])
        /\ \A j_ \in 1 .. Len(p[k]) : Entries[0 + pos[k - 1] + j_] = p[k][j_]
    BY <1>7, <2>2
  <2>4. /\ Len(p[k]) = Len(items_[b].keys_)
        /\ \A n \in Slots(items_[b]) : p[k][n] = <<items_[b].keys_[n], items_[b].vals_[n]>>
    BY <1>4, <2>2 DEF cap
  <2>5. pos[k] = pos[b] + Len(items_[b].keys_)
    BY <2>2, <2>3, <2>4
  <2>6. ASSUME NEW n \in Slots(items_[b])
        PROVE  Entries[pos[b] + n] = <<items_[b].keys_[n], items_[b].vals_[n]>>
    <3>1. n \in 1 .. Len(p[k])
      BY <2>4 DEF Slots
    <3>2. 0 + pos[b] + n = pos[b] + n
      BY <1>8, <2>1
    <3> QED
      BY <2>2, <2>3, <2>4, <3>1, <3>2
  <2> QED
    BY <2>5, <2>6 DEF k
<1>10. IsSeq(Entries)
  BY <1>1, <1>5
<1> QED
  BY <1>6, <1>7, <1>8, <1>9, <1>10 DEF Positions, cap

\* Every entry is in a bucket.
LEMMA Located ==
  ASSUME IsMap(items_, capacity_), NEW pos, Positions(pos), NEW m \in 1 .. Len(Entries)
  PROVE  \E b \in Buckets(capacity_) : \E n \in Slots(items_[b]) : m = pos[b] + n
<1> DEFINE Q == {b \in 0 .. capacity_ : pos[b] >= m}
<1>0. capacity_ \in Nat \ {0}
  BY DEF IsMap
<1>9. Len(Entries) \in Nat /\ m \in Nat /\ m >= 1 /\ m <= Len(Entries)
  BY PositionsExist DEF IsSeq
<1>1. capacity_ \in Q /\ 0 \notin Q
  BY <1>0, <1>9 DEF Positions
<1>2. Q \subseteq Nat /\ Q # {}
  BY <1>0, <1>1
<1>3. PICK c \in Q : \A b \in Q : c <= b
  <2> HIDE DEF Q
  <2> QED
    BY <1>2, LeastNumber
<1>4. c \in 1 .. capacity_ /\ pos[c] >= m
  BY <1>0, <1>1, <1>3
<1> DEFINE b == c - 1
<1>5. b \in Buckets(capacity_) /\ b \in 0 .. capacity_ /\ b + 1 = c
  BY <1>0, <1>4 DEF Buckets
<1>6. pos[b] \in Nat
  BY <1>5 DEF Positions
<1>7. pos[b] < m
  BY <1>3, <1>5, <1>6, <1>9
<1> HIDE DEF b, Q
<1>8. pos[c] = pos[b] + Len(items_[b].keys_) /\ Len(items_[b].keys_) \in Nat
  <2>1. Bucket(items_[b], b, capacity_)
    BY <1>5 DEF IsMap
  <2> QED
    BY <1>5, <2>1, BucketKeys DEF Positions
<1> DEFINE n == m - pos[b]
<1>10. n \in Slots(items_[b]) /\ m = pos[b] + n
  BY <1>4, <1>6, <1>7, <1>8, <1>9 DEF Slots
<1> HIDE DEF n
<1> QED
  BY <1>5, <1>10

\* A map of keys has as many entries as it has keys.
LEMMA CountEntries ==
  ASSUME IsMap(items_, capacity_), ~HasNoKey, IsFiniteSet(KeysOf(items_, capacity_))
  PROVE  Len(Entries) = Cardinality(KeysOf(items_, capacity_))
<1> DEFINE K == KeysOf(items_, capacity_)
           N == 1 .. Len(Entries)
           f == [m \in N |-> Entries[m][1]]
<1>1. PICK pos : Positions(pos)
  BY PositionsExist
<1>2. Len(Entries) \in Nat
  BY PositionsExist DEF IsSeq
<1>3. ASSUME NEW m \in N
      PROVE  \E b \in Buckets(capacity_) : \E n \in Slots(items_[b]) :
               /\ m = pos[b] + n /\ f[m] = items_[b].keys_[n]
               /\ f[m] \in Key /\ hash[f[m]] % capacity_ = b
  <2>1. PICK b \in Buckets(capacity_) : \E n \in Slots(items_[b]) : m = pos[b] + n
    BY <1>1, Located
  <2>2. PICK n \in Slots(items_[b]) : m = pos[b] + n
    BY <2>1
  <2>3. Entries[m] = <<items_[b].keys_[n], items_[b].vals_[n]>>
    BY <1>1, <2>2 DEF Positions
  <2>4. f[m] = items_[b].keys_[n]
    BY <2>3
  <2>5. items_[b].keys_[n] \in Key
    BY AllAreKeys DEF AllKeys
  <2>6. hash[f[m]] % capacity_ = b
    BY <2>4, <2>5 DEF IsMap, Bucket
  <2> HIDE DEF f
  <2> QED
    BY <2>2, <2>4, <2>5, <2>6
<1>4. f \in Injection(N, K)
  <2>1. f \in [N -> K]
    <3>1. \A m \in N : f[m] \in K
      BY <1>3 DEF KeysOf, Has
    <3> QED
      BY <3>1
  <2>2. ASSUME NEW l \in N, NEW m \in N, f[l] = f[m] PROVE l = m
    <3> HIDE DEF f
    <3>1. PICK b \in Buckets(capacity_) : \E n \in Slots(items_[b]) :
               /\ m = pos[b] + n /\ f[m] = items_[b].keys_[n]
               /\ f[m] \in Key /\ hash[f[m]] % capacity_ = b
      BY <1>3
    <3>2. PICK n \in Slots(items_[b]) : m = pos[b] + n /\ f[m] = items_[b].keys_[n]
      BY <3>1
    <3>3. PICK b2 \in Buckets(capacity_) : \E n2 \in Slots(items_[b2]) :
               /\ l = pos[b2] + n2 /\ f[l] = items_[b2].keys_[n2]
               /\ f[l] \in Key /\ hash[f[l]] % capacity_ = b2
      BY <1>3
    <3>4. PICK n2 \in Slots(items_[b2]) : l = pos[b2] + n2 /\ f[l] = items_[b2].keys_[n2]
      BY <3>3
    <3>5. b = b2
      BY <2>2, <3>1, <3>3
    <3>6. n = n2
      BY <2>2, <3>1, <3>2, <3>4, <3>5 DEF IsMap, Bucket
    <3> QED
      BY <3>2, <3>4, <3>5, <3>6
  <2> HIDE DEF f, K, N
  <2> QED
    BY <2>1, <2>2 DEF Injection, IsInjective
<1>5. ASSUME NEW k \in K PROVE \E m \in N : f[m] = k
  <2>1. k \in Key /\ Has(items_[hash[k] % capacity_], k)
    BY DEF KeysOf
  <2> DEFINE b == hash[k] % capacity_
  <2>2. b \in Buckets(capacity_)
    BY <2>1, Offsets
  <2>3. PICK n \in Slots(items_[b]) : items_[b].keys_[n] = k
    BY <2>1 DEF Has
  <2> HIDE DEF b
  <2>4. b \in 0 .. capacity_ /\ b + 1 \in 0 .. capacity_ /\ capacity_ \in Nat
    BY <2>2 DEF Buckets, IsMap
  <2> DEFINE x == pos[b]
             y == pos[b + 1]
             l == Len(items_[b].keys_)
  <2>5. x \in Nat /\ y \in Nat /\ y <= Len(Entries) /\ y = x + l
    BY <1>1, <2>2, <2>4 DEF Positions
  <2>6. n \in 1 .. l /\ l \in Nat
    <3>1. Bucket(items_[b], b, capacity_)
      BY <2>2 DEF IsMap
    <3> QED
      BY <3>1, BucketKeys DEF Slots
  <2>7. Entries[x + n] = <<items_[b].keys_[n], items_[b].vals_[n]>>
    BY <1>1, <2>2 DEF Positions
  <2> HIDE DEF x, y, l
  <2>8. x + n \in N
    BY <1>2, <2>5, <2>6
  <2> QED
    BY <2>3, <2>7, <2>8
<1>6. IsFiniteSet(N) /\ Cardinality(N) = Len(Entries)
  <2> DEFINE l == Len(Entries)
  <2>1. l \in Int /\ l >= 0 /\ 1 \in Int
    BY <1>2
  <2> HIDE DEF l
  <2>2. IsFiniteSet(1 .. l) /\ Cardinality(1 .. l) = IF 1 > l THEN 0 ELSE l - 1 + 1
    BY <2>1, FS_Interval
  <2>3. Cardinality(1 .. l) = l
    BY <2>1, <2>2
  <2> QED
    BY <2>2, <2>3 DEF l
<1> HIDE DEF f, N, K
<1>7. f \in Surjection(N, K)
  BY <1>4, <1>5 DEF Injection, Surjection
<1>8. Cardinality(K) = Cardinality(N)
  BY <1>4, <1>6, <1>7, FS_Surjection
<1> QED
  BY <1>6, <1>8 DEF K
-----------------------------------------------------------------------------
(***************************************************************************)
(* The walk of Summer over the entries.                                    *)
(***************************************************************************)
\* The bucket that next passes on to, over empty ones.
NextFilled(b) ==
  Min({c \in b + 1 .. capacity_ - 1 : items_[c].keys_ # <<>>} \cup {capacity_})

LEMMA Filled ==
  ASSUME IsMap(items_, capacity_), NEW b \in Buckets(capacity_)
  PROVE  /\ Len(items_[b].keys_) \in Nat
         /\ items_[b].keys_ = <<>> <=> Len(items_[b].keys_) = 0
<1>1. Bucket(items_[b], b, capacity_)
  BY DEF IsMap
<1>2. IsSeq(items_[b].keys_)
  BY <1>1 DEF Bucket
<1> QED
  BY <1>2, NoElements DEF IsSeq

LEMMA EmptyPassed ==
  ASSUME IsMap(items_, capacity_), NEW pos, Positions(pos), NEW b \in Buckets(capacity_)
  PROVE  /\ NextFilled(b) \in b + 1 .. capacity_
         /\ pos[NextFilled(b)] = pos[b + 1]
         /\ NextFilled(b) < capacity_ => Len(items_[NextFilled(b)].keys_) > 0
<1> DEFINE F == {c \in b + 1 .. capacity_ - 1 : items_[c].keys_ # <<>>} \cup {capacity_}
           c == NextFilled(b)
<1>0. capacity_ \in Nat \ {0} /\ b \in Nat /\ b < capacity_
  BY DEF IsMap, Buckets
<1>1. c \in F /\ \A d \in F : c <= d
  <2>1. F \subseteq Nat /\ F # {}
    BY <1>0
  <2>2. c = Min(F)
    BY DEF NextFilled
  <2> HIDE DEF F, c
  <2> QED
    BY <2>1, <2>2, LeastIs
<1> HIDE DEF c
<1>2. c \in b + 1 .. capacity_
  BY <1>0, <1>1
<1>3. c < capacity_ => Len(items_[c].keys_) > 0
  <2>1. SUFFICES ASSUME c < capacity_ PROVE Len(items_[c].keys_) > 0
    OBVIOUS
  <2>2. c \in Buckets(capacity_) /\ items_[c].keys_ # <<>>
    BY <1>0, <1>1, <1>2, <2>1 DEF Buckets
  <2>3. Len(items_[c].keys_) \in Nat /\ Len(items_[c].keys_) # 0
    BY <2>2, Filled
  <2> QED
    BY <2>3
<1> DEFINE Q == {m \in Nat : b + 1 + m <= c => pos[b + 1 + m] = pos[b + 1]}
<1>4. 0 \in Q
  BY <1>0
<1>5. ASSUME NEW m \in Nat, m \in Q PROVE m + 1 \in Q
  <2>1. SUFFICES ASSUME b + 1 + (m + 1) <= c PROVE pos[b + 1 + (m + 1)] = pos[b + 1]
    BY DEF Q
  <2> DEFINE d == b + 1 + m
  <2>2. /\ d \in b + 1 .. capacity_ - 1 /\ d < c /\ d \in Buckets(capacity_)
        /\ b + 1 + (m + 1) = d + 1 /\ d \in 0 .. capacity_
    BY <1>0, <1>2, <2>1 DEF Buckets
  <2>3. pos[d] = pos[b + 1]
    BY <1>0, <1>2, <1>5, <2>1
  <2> HIDE DEF d
  <2>4. d \notin F
    BY <1>0, <1>1, <1>2, <2>2
  <2>5. items_[d].keys_ = <<>>
    BY <2>2, <2>4
  <2>6. Len(items_[d].keys_) = 0
    BY <2>2, <2>5, Filled
  <2>7. pos[d + 1] = pos[d] + Len(items_[d].keys_) /\ pos[d] \in Nat
    BY <2>2 DEF Positions
  <2> QED
    BY <2>2, <2>3, <2>6, <2>7
<1> HIDE DEF Q
<1>6. Nat \subseteq Q
  BY <1>4, <1>5, AllNumbers
<1>7. c - (b + 1) \in Nat /\ b + 1 + (c - (b + 1)) = c
  BY <1>0, <1>2
<1>8. pos[c] = pos[b + 1]
  <2>1. c - (b + 1) \in Q
    BY <1>6, <1>7
  <2> QED
    BY <1>2, <1>7, <2>1, <1>0 DEF Q
<1> QED
  BY <1>2, <1>3, <1>8 DEF c

\* A cursor is at an entry or behind all of them.
Cursor(b, n) ==
  /\ b \in 0 .. capacity_ /\ n \in Nat
  /\ b = capacity_ => n = 0
  /\ b < capacity_ => n < Len(items_[b].keys_)

LEMMA NextIs ==
  ASSUME IsMap(items_, capacity_), NEW pos, Positions(pos), NEW b, NEW n,
         Cursor(b, n), b # capacity_
  PROVE  /\ Cursor(next(b, n).i, next(b, n).j)
         /\ pos[next(b, n).i] + next(b, n).j = pos[b] + n + 1
         /\ next(b, n).seen = seen + 1
<1>0. capacity_ \in Nat \ {0} /\ b \in 0 .. capacity_ /\ n \in Nat
      /\ b \in Buckets(capacity_) /\ n < Len(items_[b].keys_)
  BY DEF IsMap, Buckets, Cursor
<1> DEFINE l == Len(items_[b].keys_)
<1>9. l \in Nat
  BY <1>0, Filled
<1>1. CASE n + 1 < l
  <2>1. next(b, n) = [i |-> b, j |-> n + 1, seen |-> seen + 1]
    BY <1>1 DEF next
  <2>2. pos[b] \in Nat
    BY <1>0 DEF Positions
  <2> QED
    BY <1>0, <1>1, <2>1, <2>2 DEF Cursor
<1>2. CASE ~(n + 1 < l)
  <2> DEFINE c == NextFilled(b)
  <2>1. next(b, n) = [i |-> c, j |-> 0, seen |-> seen + 1]
    BY <1>2 DEF next, NextFilled
  <2>2. c \in b + 1 .. capacity_ /\ pos[c] = pos[b + 1]
        /\ (c < capacity_ => Len(items_[c].keys_) > 0)
    BY <1>0, EmptyPassed
  <2>3. pos[b + 1] = pos[b] + l /\ pos[b] \in Nat /\ pos[c] \in Nat
    BY <1>0, <2>2 DEF Positions
  <2> HIDE DEF c
  <2>4. Cursor(c, 0)
    BY <1>0, <2>2 DEF Cursor
  <2>5. l = n + 1
    BY <1>0, <1>2, <1>9
  <2> HIDE DEF l
  <2>6. pos[c] + 0 = pos[b] + n + 1
    BY <1>0, <2>2, <2>3, <2>5
  <2> QED
    BY <2>1, <2>4, <2>6
<1> QED
  BY <1>1, <1>2

\* The entries that the rows lack at the end.
Skipped == IF items_[0].keys_ = <<>> THEN 1 ELSE 0

\* The rows are the entries before the cursor, and seen counts them and the
\* one that is lacking.
Walk(pos) ==
  /\ Cursor(i, j)
  /\ rows = [m \in 1 .. pos[i] + j |-> Entries[m]]
  /\ seen = pos[i] + j + Skipped
  /\ seen <= size_

(* The inductive invariant of the walk.  RowsAreEntries speaks of the end   *)
(* alone; to get there each row has to be known, that the cursor is at the *)
(* next entry, and how far seen is ahead of the rows.                      *)
SummerInv ==
  /\ MapInv
  /\ summer = "none" => i = 0 /\ j = 0 /\ seen = 0 /\ rows = <<>>
  /\ summer # "none" /\ ~HasNoKey =>
       /\ program = "going" \/ (program = "aborted" /\ summer = "visiting")
       /\ program = "going" => \E pos : Positions(pos) /\ Walk(pos)
       /\ summer = "done" => seen = size_

LEMMA FirstEntry ==
  ASSUME IsMap(items_, capacity_), ~HasNoKey, NEW b, NEW n, Cursor(b, n), b # capacity_
  PROVE  EntryAt(b, n) = items_[b].keys_[n + 1] /\ EntryAt(b, n) \in Key
<1>1. capacity_ \in Nat \ {0} /\ b \in Buckets(capacity_) /\ n \in Nat
      /\ n < Len(items_[b].keys_)
  BY DEF IsMap, Buckets, Cursor
<1>2. Len(items_[b].keys_) \in Nat
  BY <1>1, Filled
<1>3. n + 1 \in Slots(items_[b]) /\ n # Len(items_[b].keys_)
  BY <1>1, <1>2 DEF Slots
<1>4. items_[b].keys_[n + 1] \in Key
  BY <1>1, <1>3, AllAreKeys DEF AllKeys
<1> QED
  BY <1>3, <1>4 DEF EntryAt

LEMMA MakeSummerWalks ==
  ASSUME SummerInv, MakeSummer, ~HasNoKey
  PROVE  /\ program' = "going" \/ program' = "aborted"
         /\ program' = "going" => \E pos : Positions(pos) /\ Cursor(i', j') /\ rows' = rows
                                           /\ pos[i'] + j' = 0 /\ seen' = Skipped /\ seen' <= size_
<1>1. summer = "none" /\ program = "going" /\ i = 0 /\ j = 0 /\ seen = 0
  BY DEF MakeSummer, SummerInv
<1>2. IsMap(items_, capacity_) /\ IsFiniteSet(KeysOf(items_, capacity_))
      /\ size_ = Cardinality(KeysOf(items_, capacity_)) /\ size_ \in Nat
  BY <1>1, FS_CardinalityType DEF SummerInv, MapInv
<1>3. PICK pos : Positions(pos)
  BY <1>2, PositionsExist
<1>4. capacity_ \in Nat \ {0} /\ 0 \in Buckets(capacity_) /\ 0 # capacity_
  BY <1>2 DEF IsMap, Buckets
<1> DEFINE l == Len(items_[0].keys_)
<1>5. l \in Nat /\ (items_[0].keys_ = <<>> <=> l = 0)
  BY <1>2, <1>4, Filled
<1>6. pos[0] = 0
  BY <1>3 DEF Positions
<1>7. CASE l # 0
  <2>1. Cursor(0, 0)
    BY <1>4, <1>5, <1>7 DEF Cursor
  <2>2. EntryAt(0, 0) # Null
    BY <1>2, <1>4, <2>1, FirstEntry, NoKeys
  <2>3. UNCHANGED <<i, j, seen, program, rows>>
    BY <2>2 DEF MakeSummer
  <2>4. Skipped = 0
    BY <1>5, <1>7 DEF Skipped
  <2> QED
    BY <1>1, <1>2, <1>3, <1>6, <2>1, <2>3, <2>4
<1>8. CASE l = 0
  <2>1. EntryAt(0, 0) = Null
    BY <1>8 DEF EntryAt
  <2>2. CASE size_ = 0
    BY <2>1, <2>2 DEF MakeSummer
  <2>3. CASE size_ # 0
    <3>1. Advance /\ UNCHANGED <<program, rows>>
      BY <2>1, <2>3 DEF MakeSummer
    <3> DEFINE c == NextFilled(0)
    <3>2. next(0, 0) = [i |-> c, j |-> 0, seen |-> 1]
      BY <1>1, <1>4, <1>8 DEF next, NextFilled
    <3>3. i' = c /\ j' = 0 /\ seen' = 1
      BY <1>1, <3>1, <3>2 DEF Advance
    <3>4. c \in 0 + 1 .. capacity_ /\ pos[c] = pos[0 + 1]
          /\ (c < capacity_ => Len(items_[c].keys_) > 0)
      BY <1>2, <1>3, <1>4, EmptyPassed
    <3>5. pos[0 + 1] = pos[0] + l
      BY <1>3, <1>4 DEF Positions
    <3> HIDE DEF c
    <3>6. Cursor(c, 0) /\ pos[c] + 0 = 0
      BY <1>4, <1>6, <1>8, <3>4, <3>5 DEF Cursor
    <3>7. Skipped = 1
      BY <1>5, <1>8 DEF Skipped
    <3>8. 1 <= size_
      BY <1>2, <2>3
    <3> QED
      BY <1>1, <1>3, <3>1, <3>3, <3>6, <3>7, <3>8
  <2> QED
    BY <2>2, <2>3
<1> QED
  BY <1>7, <1>8

\* A round of the loop: the row of one entry more, and no visit beyond the last.
LEMMA RoundWalks ==
  ASSUME SummerInv, SumNext, ~HasNoKey
  PROVE  /\ program' = "going" /\ (summer' = "done" => seen' = size_)
         /\ \E pos : /\ Positions(pos) /\ Cursor(i', j') /\ seen' <= size_
                     /\ rows' = [m \in 1 .. pos[i'] + j' |-> Entries[m]]
                     /\ seen' = pos[i'] + j' + Skipped
<1>1. summer = "visiting" /\ program = "going"
  BY DEF SumNext
<1>2. IsMap(items_, capacity_) /\ IsFiniteSet(KeysOf(items_, capacity_))
      /\ size_ = Cardinality(KeysOf(items_, capacity_)) /\ size_ \in Nat
  BY <1>1, FS_CardinalityType DEF SummerInv, MapInv
<1>3. PICK pos : Positions(pos) /\ Walk(pos)
  BY <1>1 DEF SummerInv
<1>4. Len(Entries) = size_
  BY <1>2, CountEntries
<1> DEFINE p == pos[i] + j
<1>5. /\ Cursor(i, j) /\ rows = [m \in 1 .. p |-> Entries[m]]
      /\ seen = p + Skipped /\ seen <= size_
  BY <1>3 DEF Walk
<1>6. p \in Nat /\ Skipped \in {0, 1}
  <2>1. i \in 0 .. capacity_ /\ j \in Nat
    BY <1>5 DEF Cursor
  <2>2. pos[i] \in Nat
    BY <1>3, <2>1 DEF Positions
  <2> QED
    BY <2>1, <2>2 DEF Skipped
<1>7. CASE seen = size_
  <2>1. summer' = "done" /\ UNCHANGED <<i, j, seen, rows, program>>
    BY <1>7 DEF SumNext
  <2> QED
    BY <1>1, <1>3, <1>5, <1>7, <2>1
<1>8. CASE seen # size_
  <2>1. i # capacity_
    <3>1. SUFFICES ASSUME i = capacity_ PROVE FALSE
      OBVIOUS
    <3>2. p = size_
      BY <1>2, <1>3, <1>4, <1>5, <3>1 DEF Cursor, Positions
    <3> HIDE DEF p
    <3> QED
      BY <1>5, <1>6, <1>8, <3>2
  <2>2. EntryAt(i, j) = items_[i].keys_[j + 1] /\ EntryAt(i, j) \notin NoKey
    BY <1>2, <1>5, <2>1, FirstEntry, NoKeys
  <2>3. /\ rows' = Append(rows, <<EntryAt(i, j), items_[i].vals_[j + 1]>>)
        /\ Advance /\ UNCHANGED <<summer, program>>
    BY <1>8, <2>2 DEF SumNext
  <2> DEFINE q == pos[i'] + j'
  <2>4. Cursor(i', j') /\ q = p + 1 /\ seen' = seen + 1
    <3>1. /\ Cursor(next(i, j).i, next(i, j).j)
          /\ pos[next(i, j).i] + next(i, j).j = pos[i] + j + 1
          /\ next(i, j).seen = seen + 1
      BY <1>2, <1>3, <1>5, <2>1, NextIs
    <3>2. i' = next(i, j).i /\ j' = next(i, j).j /\ seen' = next(i, j).seen
      BY <2>3 DEF Advance
    <3> QED
      BY <3>1, <3>2
  <2>5. Entries[p + 1] = <<EntryAt(i, j), items_[i].vals_[j + 1]>>
    <3>1. i \in Buckets(capacity_) /\ j \in Nat /\ j < Len(items_[i].keys_) /\ pos[i] \in Nat
      BY <1>2, <1>3, <1>5, <2>1 DEF Cursor, IsMap, Buckets, Positions
    <3>2. Len(items_[i].keys_) \in Nat
      BY <1>2, <3>1, Filled
    <3>3. j + 1 \in Slots(items_[i])
      BY <3>1, <3>2 DEF Slots
    <3>4. Entries[pos[i] + (j + 1)] = <<items_[i].keys_[j + 1], items_[i].vals_[j + 1]>>
      BY <1>3, <3>1, <3>3 DEF Positions
    <3>5. pos[i] + (j + 1) = p + 1
      BY <3>1
    <3> HIDE DEF p
    <3> QED
      BY <2>2, <3>4, <3>5
  <2> HIDE DEF p, q
  <2>6. IsSeq(rows) /\ Len(rows) = p
    <3>1. rows = [m \in 1 .. p |-> rows[m]]
      BY <1>5
    <3> QED
      BY <1>6, <3>1, FunctionIsSeq
  <2>7. rows' = [m \in 1 .. q |-> Entries[m]]
    <3> DEFINE e == <<EntryAt(i, j), items_[i].vals_[j + 1]>>
    <3>1. rows' = [m \in 1 .. p + 1 |-> IF m <= p THEN rows[m] ELSE e]
      BY <2>3, <2>6, AppendIs
    <3>2. \A m \in 1 .. p : rows[m] = Entries[m]
      BY <1>5
    <3>3. Entries[p + 1] = e
      BY <2>5
    <3> HIDE DEF e
    <3>4. \A m \in 1 .. p + 1 : (IF m <= p THEN rows[m] ELSE e) = Entries[m]
      BY <1>6, <3>2, <3>3
    <3>5. rows' = [m \in 1 .. p + 1 |-> Entries[m]]
      BY <3>1, <3>4
    <3> QED
      BY <2>4, <3>5
  <2>8. seen' = q + Skipped /\ seen' <= size_
    BY <1>2, <1>5, <1>6, <1>8, <2>4
  <2>9. summer' = "visiting" /\ program' = "going"
    BY <1>1, <2>3
  <2> QED
    BY <1>3, <2>4, <2>7, <2>8, <2>9 DEF q
<1> QED
  BY <1>7, <1>8

\* The map is the same in the next state.
LEMMA SameMap ==
  ASSUME UNCHANGED <<hash, capacity_, size_, items_>>
  PROVE  /\ HasNoKey' = HasNoKey /\ Entries' = Entries /\ Skipped' = Skipped
         /\ \A pos : Positions(pos)' = Positions(pos)
         /\ \A b, n : Cursor(b, n)' = Cursor(b, n)
<1>1. Entries' = Entries
  BY DEF Entries
<1>2. HasNoKey' = HasNoKey
  BY DEF HasNoKey, Buckets
<1>3. \A pos : Positions(pos)' = Positions(pos)
  BY <1>1 DEF Positions, Buckets, Slots
<1> QED
  BY <1>1, <1>2, <1>3 DEF Skipped, Cursor

LEMMA SummerStep == SummerInv /\ [SummerNext]_<<mapVars, summerVars>> => SummerInv'
<1> SUFFICES ASSUME SummerInv, [SummerNext]_<<mapVars, summerVars>> PROVE SummerInv'
  OBVIOUS
<1>1. MapInv'
  BY SummerMapStep DEF SummerInv
<1>2. CASE UseMap
  <2>1. summer' = "none" /\ UNCHANGED summerVars /\ summer = "none"
    BY <1>2 DEF UseMap, summerVars
  <2> QED
    BY <1>1, <2>1 DEF SummerInv, summerVars
<1>3. CASE MakeSummer
  <2>1. UNCHANGED <<hash, capacity_, size_, items_>> /\ summer' = "visiting"
    BY <1>3 DEF MakeSummer
  <2>2. CASE HasNoKey
    BY <1>1, <2>1, <2>2, SameMap DEF SummerInv
  <2>3. CASE ~HasNoKey
    <3>1. /\ program' = "going" \/ program' = "aborted"
          /\ program' = "going" => \E pos : Positions(pos) /\ Cursor(i', j') /\ rows' = rows
                                            /\ pos[i'] + j' = 0 /\ seen' = Skipped /\ seen' <= size_
      BY <1>3, <2>3, MakeSummerWalks
    <3>2. ASSUME program' = "going" PROVE (\E pos : Positions(pos) /\ Walk(pos))'
      <4>1. PICK pos : /\ Positions(pos) /\ Cursor(i', j') /\ rows' = rows
                       /\ pos[i'] + j' = 0 /\ seen' = Skipped /\ seen' <= size_
        BY <3>1, <3>2
      <4>2. rows' = <<>>
        BY <1>3, <4>1 DEF MakeSummer, SummerInv
      <4>3. [m \in 1 .. pos[i'] + j' |-> Entries'[m]] = <<>>
        BY <4>1
      <4>4. seen' = pos[i'] + j' + Skipped
        BY <4>1 DEF Skipped
      <4>5. Walk(pos)' /\ Positions(pos)'
        BY <2>1, <4>1, <4>2, <4>3, <4>4, SameMap DEF Walk
      <4> QED
        BY <4>5
    <3> QED
      BY <1>1, <2>1, <3>1, <3>2 DEF SummerInv
  <2> QED
    BY <2>2, <2>3
<1>4. CASE SumNext
  <2>1. UNCHANGED <<hash, capacity_, size_, items_>> /\ summer' # "none"
    BY <1>4 DEF SumNext
  <2>2. CASE HasNoKey
    BY <1>1, <2>1, <2>2, SameMap DEF SummerInv
  <2>3. CASE ~HasNoKey
    <3>1. /\ program' = "going" /\ (summer' = "done" => seen' = size_)
          /\ \E pos : /\ Positions(pos) /\ Cursor(i', j') /\ seen' <= size_
                      /\ rows' = [m \in 1 .. pos[i'] + j' |-> Entries[m]]
                      /\ seen' = pos[i'] + j' + Skipped
      BY <1>4, <2>3, RoundWalks
    <3>2. PICK pos : /\ Positions(pos) /\ Cursor(i', j') /\ seen' <= size_
                     /\ rows' = [m \in 1 .. pos[i'] + j' |-> Entries[m]]
                     /\ seen' = pos[i'] + j' + Skipped
      BY <3>1
    <3>3. Walk(pos)' /\ Positions(pos)'
      BY <2>1, <3>2, SameMap DEF Walk
    <3>4. (\E p : Positions(p) /\ Walk(p))'
      BY <3>3
    <3> QED
      BY <1>1, <2>1, <3>1, <3>4 DEF SummerInv
  <2> QED
    BY <2>2, <2>3
<1>5. CASE UNCHANGED <<mapVars, summerVars>>
  <2>1. UNCHANGED <<hash, capacity_, size_, items_, program, i, j, seen, rows, summer>>
    BY <1>5 DEF mapVars, summerVars
  <2>2. \A pos : Walk(pos)' = Walk(pos) /\ Positions(pos)' = Positions(pos)
    BY <2>1, SameMap DEF Walk
  <2>3. HasNoKey' = HasNoKey
    BY <2>1, SameMap
  <2> QED
    BY <1>1, <2>1, <2>2, <2>3 DEF SummerInv
<1> QED
  BY <1>2, <1>3, <1>4, <1>5 DEF SummerNext

(* RowsAreEntries: for any map from which no key was erased, Summer writes *)
(* its entries in their order, each with its value, but for the last one   *)
(* if the first bucket is empty, and never visits what is no entry (k,     *)
(* next, visit, done).                                                     *)
THEOREM SummerWritesEntries == SummerSpec => []RowsAreEntries
<1>1. SummerInit => SummerInv
  BY MapInitially DEF SummerInit, SummerInv
<1>2. SummerInv => RowsAreEntries
  <2> SUFFICES ASSUME SummerInv, summer # "none", ~HasNoKey
               PROVE  /\ program # "crashed"
                      /\ summer = "done" =>
                           rows = IF items_[0].keys_ = <<>> THEN Front(Entries) ELSE Entries
    BY DEF RowsAreEntries
  <2>1. program # "crashed"
    BY DEF SummerInv
  <2>2. ASSUME summer = "done"
        PROVE  rows = IF items_[0].keys_ = <<>> THEN Front(Entries) ELSE Entries
    <3>1. program = "going" /\ seen = size_
      BY <2>2 DEF SummerInv
    <3>2. PICK pos : Positions(pos) /\ Walk(pos)
      BY <3>1 DEF SummerInv
    <3>3. IsMap(items_, capacity_) /\ IsFiniteSet(KeysOf(items_, capacity_))
          /\ size_ = Cardinality(KeysOf(items_, capacity_)) /\ size_ \in Nat
      BY <3>1, FS_CardinalityType DEF SummerInv, MapInv
    <3>4. Len(Entries) = size_ /\ IsSeq(Entries)
      BY <3>3, CountEntries, PositionsExist
    <3> DEFINE p == pos[i] + j
    <3>5. rows = [m \in 1 .. p |-> Entries[m]] /\ size_ = p + Skipped
      BY <3>1, <3>2 DEF Walk
    <3>6. p \in Nat
      BY <3>2 DEF Walk, Cursor, Positions
    <3> HIDE DEF p
    <3>7. CASE items_[0].keys_ = <<>>
      <4>1. p = size_ - 1 /\ p \in 0 .. Len(Entries)
        BY <3>3, <3>4, <3>5, <3>6, <3>7 DEF Skipped
      <4>2. SubSeq(Entries, 1, p) = [m \in 1 .. p |-> Entries[m]]
        BY <3>4, <4>1, FrontIs
      <4>3. Front(Entries) = SubSeq(Entries, 1, p)
        BY <3>4, <4>1 DEF Front
      <4> QED
        BY <3>5, <3>7, <4>2, <4>3
    <3>8. CASE items_[0].keys_ # <<>>
      <4>1. p = Len(Entries)
        BY <3>4, <3>5, <3>6, <3>8 DEF Skipped
      <4>2. Entries = [m \in 1 .. Len(Entries) |-> Entries[m]]
        BY <3>4 DEF IsSeq
      <4> QED
        BY <3>5, <3>8, <4>1, <4>2
    <3> QED
      BY <3>7, <3>8
  <2> QED
    BY <2>1, <2>2
<1> QED
  BY <1>1, <1>2, SummerStep, PTL DEF SummerSpec
=============================================================================
