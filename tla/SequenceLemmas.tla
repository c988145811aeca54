--------------------------- MODULE SequenceLemmas ---------------------------
(***************************************************************************)
(* What the sequence operators used by the models do, stated element by    *)
(* element for the provers.                                                *)
(***************************************************************************)
EXTENDS Integers, SequencesExt, SequenceTheorems, FiniteSetTheorems, TLAPS

(* RemoveAt() takes out one element and shifts the ones behind it: what     *)
(* g_array_remove_index() does.                                            *)
LEMMA RemoveAtProps ==
  ASSUME NEW S, NEW s \in Seq(S), NEW i \in 1..Len(s)
  PROVE  /\ RemoveAt(s, i) \in Seq(S)
         /\ Len(RemoveAt(s, i)) = Len(s) - 1
         /\ \A j \in 1..(Len(s) - 1) : RemoveAt(s, i)[j] = IF j < i THEN s[j] ELSE s[j + 1]
<1> DEFINE p == SubSeq(s, 1, i - 1)
           q == SubSeq(s, i + 1, Len(s))
           r == p \o q
<1>1. p \in Seq(S) /\ Len(p) = i - 1 /\ \A j \in 1..(i - 1) : p[j] = s[j]
  OBVIOUS
<1>2. q \in Seq(S) /\ Len(q) = Len(s) - i /\ \A j \in 1..(Len(s) - i) : q[j] = s[i + j]
  OBVIOUS
<1>3. RemoveAt(s, i) = r
  BY DEF RemoveAt
<1> HIDE DEF p, q
<1>4. /\ r \in Seq(S) /\ Len(r) = Len(p) + Len(q)
      /\ \A j \in 1..(Len(p) + Len(q)) : r[j] = IF j <= Len(p) THEN p[j] ELSE q[j - Len(p)]
  BY <1>1, <1>2, ConcatProperties
<1> HIDE DEF r
<1>5. ASSUME NEW j \in 1..(Len(s) - 1)
      PROVE  r[j] = IF j < i THEN s[j] ELSE s[j + 1]
  <2>1. j \in 1..(Len(p) + Len(q))
    BY <1>1, <1>2
  <2>2. r[j] = IF j <= Len(p) THEN p[j] ELSE q[j - Len(p)]
    BY <1>4, <2>1
  <2>3. CASE j < i
    <3>1. j \in 1..(i - 1) /\ j <= Len(p)
      BY <1>1, <2>3
    <3> QED  BY <1>1, <2>2, <2>3, <3>1
  <2>4. CASE j >= i
    <3>1. /\ ~(j <= Len(p)) /\ j - Len(p) \in 1..(Len(s) - i)
          /\ i + (j - Len(p)) = j + 1
      BY <1>1, <2>4
    <3>2. q[j - Len(p)] = s[i + (j - Len(p))]
      BY <1>2, <3>1
    <3> QED  BY <2>2, <2>4, <3>1, <3>2
  <2> QED  BY <2>3, <2>4
<1> QED
  BY <1>1, <1>2, <1>3, <1>4, <1>5

(* InsertAt() puts one element in and shifts the ones behind it: what       *)
(* g_array_insert_val() does.                                              *)
LEMMA InsertAtProps ==
  ASSUME NEW S, NEW s \in Seq(S), NEW i \in 1..(Len(s) + 1), NEW x \in S
  PROVE  /\ InsertAt(s, i, x) \in Seq(S)
         /\ Len(InsertAt(s, i, x)) = Len(s) + 1
         /\ \A j \in 1..(Len(s) + 1) :
              InsertAt(s, i, x)[j] = IF j < i THEN s[j] ELSE IF j = i THEN x ELSE s[j - 1]
<1> DEFINE p == SubSeq(s, 1, i-1) \o <<x>>
           q == SubSeq(s, i, Len(s))
           r == p \o q
<1>1. /\ p \in Seq(S) /\ Len(p) = i
      /\ \A j \in 1..i : p[j] = IF j < i THEN s[j] ELSE x
  OBVIOUS
<1>2. q \in Seq(S) /\ Len(q) = Len(s) - i + 1 /\ \A j \in 1..(Len(s) - i + 1) : q[j] = s[i + j - 1]
  OBVIOUS
<1>3. InsertAt(s, i, x) = r
  BY DEF InsertAt
<1> HIDE DEF p, q
<1>4. /\ r \in Seq(S) /\ Len(r) = Len(p) + Len(q)
      /\ \A j \in 1..(Len(p) + Len(q)) : r[j] = IF j <= Len(p) THEN p[j] ELSE q[j - Len(p)]
  BY <1>1, <1>2, ConcatProperties
<1> HIDE DEF r
<1>5. ASSUME NEW j \in 1..(Len(s) + 1)
      PROVE  r[j] = IF j < i THEN s[j] ELSE IF j = i THEN x ELSE s[j - 1]
  <2>1. j \in 1..(Len(p) + Len(q))
    BY <1>1, <1>2
  <2>2. r[j] = IF j <= Len(p) THEN p[j] ELSE q[j - Len(p)]
    BY <1>4, <2>1
  <2>3. CASE j <= i
    <3>1. j \in 1..i /\ j <= Len(p)
      BY <1>1, <2>3
    <3>2. p[j] = IF j < i THEN s[j] ELSE x
      BY <1>1, <3>1
    <3> QED  BY <2>2, <2>3, <3>1, <3>2
  <2>4. CASE j > i
    <3>1. /\ ~(j <= Len(p)) /\ j - Len(p) \in 1..(Len(s) - i + 1)
          /\ i + (j - Len(p)) - 1 = j - 1
      BY <1>1, <2>4
    <3>2. q[j - Len(p)] = s[i + (j - Len(p)) - 1]
      BY <1>2, <3>1
    <3> QED  BY <2>2, <2>4, <3>1, <3>2
  <2> QED  BY <2>3, <2>4
<1> QED
  BY <1>1, <1>2, <1>3, <1>4, <1>5

(* A non-empty sequence is its front and its last element.                 *)
LEMMA FrontProps ==
  ASSUME NEW S, NEW s \in Seq(S), s # <<>>
  PROVE  /\ Front(s) \in Seq(S) /\ Len(Front(s)) = Len(s) - 1
         /\ \A j \in 1..(Len(s) - 1) : Front(s)[j] = s[j]
         /\ Last(s) = s[Len(s)] /\ Len(s) \in 1..Len(s) /\ Last(s) \in S
<1>1. Len(s) \in Nat \ {0}
  BY EmptySeq, Zenon
<1>2. Len(s) > 0 /\ Len(s) \in 1..Len(s)
  BY <1>1
<1>3. Front(s) \in Seq(S)
  BY <1>2 DEF Front
<1>4. Len(Front(s)) = Len(s) - 1
  <2>1. \A j \in 1..(Len(s) - 1) : s[j] \in S
    BY <1>1
  <2>2. Len(SubSeq(s, 1, Len(s) - 1)) = IF 1 <= Len(s) - 1 THEN (Len(s) - 1) - 1 + 1 ELSE 0
    BY <1>1, <2>1, SubSeqProperties
  <2> DEFINE n == Len(s)
             m == Len(SubSeq(s, 1, n - 1))
  <2>3. n \in Nat \ {0} /\ m = IF 1 <= n - 1 THEN (n - 1) - 1 + 1 ELSE 0
    BY <1>1, <2>2, Zenon
  <2> HIDE DEF n, m
  <2>4. m = n - 1
    BY <2>3
  <2> QED  BY <2>4, Zenon DEF m, n, Front
<1>5. \A j \in 1..(Len(s) - 1) : Front(s)[j] = s[j]
  BY <1>2 DEF Front
<1>6. Last(s) = s[Len(s)] /\ Last(s) \in S
  BY <1>2 DEF Last
<1> QED
  BY <1>2, <1>3, <1>4, <1>5, <1>6, Zenon

(* undo__insert_val__ARRAY() takes back a g_array_remove_index().          *)
LEMMA InsertUndoesRemove ==
  ASSUME NEW S, NEW s \in Seq(S), NEW i \in 1..Len(s)
  PROVE  InsertAt(RemoveAt(s, i), i, s[i]) = s
<1> DEFINE r == RemoveAt(s, i)
           t == InsertAt(r, i, s[i])
<1>1. r \in Seq(S) /\ Len(r) = Len(s) - 1
      /\ \A j \in 1..(Len(s) - 1) : r[j] = IF j < i THEN s[j] ELSE s[j + 1]
  BY RemoveAtProps
<1> HIDE DEF r
<1>2. s[i] \in S /\ i \in 1..(Len(r) + 1)
  BY <1>1
<1>3. /\ t \in Seq(S) /\ Len(t) = Len(r) + 1
      /\ \A j \in 1..(Len(r) + 1) : t[j] = IF j < i THEN r[j] ELSE IF j = i THEN s[i] ELSE r[j - 1]
  <2>1. r \in Seq(S)
    BY <1>1
  <2> DEFINE x == s[i]
  <2>2. x \in S
    BY <1>2
  <2> HIDE DEF x
  <2>3. /\ InsertAt(r, i, x) \in Seq(S) /\ Len(InsertAt(r, i, x)) = Len(r) + 1
        /\ \A j \in 1..(Len(r) + 1) :
             InsertAt(r, i, x)[j] = IF j < i THEN r[j] ELSE IF j = i THEN x ELSE r[j - 1]
    BY <1>2, <2>1, <2>2, InsertAtProps
  <2> QED  BY <2>3 DEF x
<1> HIDE DEF t
<1>4. ASSUME NEW j \in 1..Len(t)
      PROVE  t[j] = s[j]
  <2>1. j \in 1..(Len(r) + 1)
    BY <1>3
  <2>2. t[j] = IF j < i THEN r[j] ELSE IF j = i THEN s[i] ELSE r[j - 1]
    BY <1>3, <2>1
  <2>3. CASE j < i
    <3>1. j \in 1..(Len(s) - 1)
      BY <2>3
    <3>2. r[j] = s[j]
      BY <1>1, <2>3, <3>1
    <3> QED  BY <2>2, <2>3, <3>2
  <2>4. CASE j = i
    BY <2>2, <2>4
  <2>5. CASE j > i
    <3>1. j - 1 \in 1..(Len(s) - 1) /\ ~(j - 1 < i) /\ (j - 1) + 1 = j
      BY <1>1, <2>1, <2>5
    <3>2. r[j - 1] = s[(j - 1) + 1]
      BY <1>1, <3>1
    <3> QED  BY <2>2, <2>5, <3>1, <3>2
  <2> QED  BY <2>3, <2>4, <2>5
<1>5. Len(t) = Len(s)
  BY <1>1, <1>3
<1>6. t = s
  BY <1>3, <1>4, <1>5, SeqEqual
<1> QED
  BY <1>6 DEF t, r

(* undo__remove_index__ARRAY() takes back a g_array_append_val().          *)
LEMMA RemoveUndoesAppend ==
  ASSUME NEW S, NEW s \in Seq(S), NEW x \in S
  PROVE  RemoveAt(Append(s, x), Len(s) + 1) = s
<1> DEFINE a == Append(s, x)
           r == RemoveAt(a, Len(s) + 1)
<1>1. a \in Seq(S) /\ Len(a) = Len(s) + 1 /\ \A j \in 1..Len(s) : a[j] = s[j]
  BY AppendProperties
<1> HIDE DEF a
<1>2. Len(s) + 1 \in 1..Len(a)
  BY <1>1
<1>3. r \in Seq(S) /\ Len(r) = Len(a) - 1
      /\ \A j \in 1..(Len(a) - 1) : r[j] = IF j < Len(s) + 1 THEN a[j] ELSE a[j + 1]
  BY <1>1, <1>2, RemoveAtProps
<1> HIDE DEF r
<1>4. Len(r) = Len(s) /\ \A j \in 1..Len(r) : r[j] = s[j]
  BY <1>1, <1>3
<1>5. r = s
  BY <1>3, <1>4, SeqEqual
<1> QED
  BY <1>5 DEF a, r

(* EXCEPT keeps the length, even if there is no such element.              *)
LEMMA ExceptProps ==
  ASSUME NEW S, NEW s \in Seq(S), NEW i, NEW x, i \in 1 .. Len(s) => x \in S
  PROVE  /\ [s EXCEPT ![i] = x] \in Seq(S)
         /\ Len([s EXCEPT ![i] = x]) = Len(s)
         /\ \A j \in 1 .. Len(s) : [s EXCEPT ![i] = x][j] = IF j = i THEN x ELSE s[j]
<1> DEFINE t == [s EXCEPT ![i] = x]
           u == [j \in 1 .. Len(s) |-> IF j = i THEN x ELSE s[j]]
<1>1. t = u
  OBVIOUS
<1>2. u \in Seq(S) /\ Len(u) = Len(s)
  OBVIOUS
<1> QED
  BY <1>1, <1>2

(* Induction on natural numbers, with a set instead of a predicate: a      *)
(* number outside of the set would map {0, ..., n} \ S into a smaller set. *)
LEMMA SetInduction ==
  ASSUME NEW S, 0 \in S, \A n \in Nat : n \in S => n + 1 \in S
  PROVE  Nat \subseteq S
<1> SUFFICES ASSUME NEW n \in Nat, n \notin S PROVE FALSE
  OBVIOUS
<1> DEFINE T == (0 .. n) \ S
           U == T \ {n}
           f == [m \in T |-> m - 1]
<1>1. \A m \in T : m > 0 /\ m - 1 \in U
  OBVIOUS
<1>2. IsFiniteSet(T)
  <2>1. IsFiniteSet(0 .. n)
    BY FS_Interval
  <2>2. T \in SUBSET (0 .. n)
    OBVIOUS
  <2> HIDE DEF T
  <2> QED
    BY <2>1, <2>2, FS_Subset
<1>3. IsFiniteSet(U) /\ Cardinality(U) < Cardinality(T)
  <2>1. n \in T
    OBVIOUS
  <2> HIDE DEF T
  <2>2. Cardinality(T) \in Nat
    BY <1>2, FS_CardinalityType
  <2>3. IsFiniteSet(T \ {n}) /\ Cardinality(T \ {n}) = Cardinality(T) - 1
    BY <1>2, <2>1, FS_RemoveElement
  <2> QED
    BY <2>2, <2>3
<1>4. f \in [T -> U]
  BY <1>1
<1>5. \E x, y \in T : x # y /\ f[x] = f[y]
  <2> HIDE DEF T, U, f
  <2> QED
    BY <1>2, <1>3, <1>4, FS_PigeonHole
<1> QED
  BY <1>5

(* Min() of SelectInSeq() is the least element.                            *)
LEMMA MinLemma ==
  ASSUME NEW I \in SUBSET Nat, I # {}
  PROVE  Min(I) \in I /\ \A i \in I : Min(I) <= i
<1> DEFINE S == {n \in Nat : \A i \in I : n <= i}
<1>1. 0 \in S /\ ~(Nat \subseteq S)
  <2>1. PICK i \in I : TRUE
    OBVIOUS
  <2>2. i + 1 \in Nat /\ i + 1 \notin S
    BY <2>1
  <2> QED
    BY <2>2
<1>2. PICK n \in Nat : n \in S /\ n + 1 \notin S
  <2> HIDE DEF S
  <2> QED
    BY <1>1, SetInduction
<1>3. n \in I
  BY <1>2
<1> QED
  BY <1>2, <1>3 DEF Min

(* A sequence of steps, each from where the last one has led to.           *)
Steps(f, U, s, N, G) ==
  f \in [0 .. N -> U] /\ f[0] = s /\ \A n \in 1 .. N : f[n] = G[n][f[n - 1]]

LEMMA StepsExist ==
  ASSUME NEW U, NEW s \in U, NEW N \in Nat, NEW G \in [1 .. N -> [U -> U]]
  PROVE  \E f : Steps(f, U, s, N, G)
<1> DEFINE P(n) == \E f \in [0 .. n -> U] : f[0] = s /\ \A m \in 1 .. n : f[m] = G[m][f[m - 1]]
           S == {n \in Nat : n <= N => P(n)}
<1>1. 0 \in S
  <2> DEFINE f == [n \in 0 .. 0 |-> s]
  <2>1. f \in [0 .. 0 -> U] /\ f[0] = s /\ \A m \in 1 .. 0 : f[m] = G[m][f[m - 1]]
    OBVIOUS
  <2> HIDE DEF f
  <2> QED
    BY <2>1
<1>2. ASSUME NEW n \in Nat, n \in S PROVE n + 1 \in S
  <2> SUFFICES ASSUME n + 1 <= N PROVE P(n + 1)
    OBVIOUS
  <2>1. PICK f \in [0 .. n -> U] : f[0] = s /\ \A m \in 1 .. n : f[m] = G[m][f[m - 1]]
    BY <1>2
  <2>2. f[n] \in U /\ G[n + 1] \in [U -> U] /\ G[n + 1][f[n]] \in U
    BY <2>1
  <2> DEFINE x == G[n + 1][f[n]]
             g == [m \in 0 .. (n + 1) |-> IF m = n + 1 THEN x ELSE f[m]]
  <2>3. x \in U /\ x = G[n + 1][f[n]]
    BY <2>2
  <2> HIDE DEF x
  <2>4. g \in [0 .. (n + 1) -> U]
    BY <2>1, <2>3
  <2>5. g[0] = s /\ g[n + 1] = x /\ \A m \in 0 .. n : g[m] = f[m]
    BY <2>1
  <2> HIDE DEF g
  <2>6. ASSUME NEW m \in 1 .. (n + 1) PROVE g[m] = G[m][g[m - 1]]
    <3>1. CASE m = n + 1
      <4>1. m - 1 = n /\ g[n] = f[n]
        BY <2>5, <3>1
      <4> QED
        BY <2>3, <2>5, <3>1, <4>1
    <3>2. CASE m \in 1 .. n
      BY <2>1, <2>5, <3>2
    <3> QED
      BY <3>1, <3>2
  <2> QED
    BY <2>4, <2>5, <2>6
<1> HIDE DEF S
<1>3. N \in S
  BY <1>1, <1>2, SetInduction
<1> QED
  BY <1>3 DEF S, Steps

(* FlattenSeq() concatenates.                                              *)
LEMMA FlattenAppend ==
  ASSUME NEW S, NEW ss \in Seq(Seq(S)), NEW e \in Seq(S)
  PROVE  /\ FlattenSeq(<<>>) = <<>> /\ FlattenSeq(ss) \in Seq(S)
         /\ FlattenSeq(Append(ss, e)) = FlattenSeq(ss) \o e
<1> DEFINE Is(f, qs) == f = [i \in 1 .. Len(qs) |-> IF i = 1 THEN qs[i] ELSE f[i - 1] \o qs[i]]
           Sums(f, qs) == /\ f \in [0 .. Len(qs) -> Seq(S)] /\ f[0] = <<>>
                          /\ \A n \in 1 .. Len(qs) : f[n] = f[n - 1] \o qs[n]
<1>1. ASSUME NEW qs \in Seq(Seq(S)), qs # <<>>
      PROVE  \A f : Sums(f, qs) => FlattenSeq(qs) = f[Len(qs)]
  <2> DEFINE g == CHOOSE g : Is(g, qs)
             N == Len(qs)
  <2>1. FlattenSeq(qs) = g[N]
    BY <1>1 DEF FlattenSeq
  <2>0. N \in Nat /\ N # 0 /\ \A i \in 1 .. N : qs[i] \in Seq(S)
    BY <1>1
  <2> HIDE DEF N
  <2> SUFFICES ASSUME NEW f, Sums(f, qs) PROVE g[N] = f[N]
    BY <2>1 DEF N
  <2>2. /\ f \in [0 .. N -> Seq(S)] /\ f[0] = <<>>
        /\ \A n \in 1 .. N : f[n] = f[n - 1] \o qs[n]
    BY DEF N
  <2>9. f[1] = qs[1]
    <3>1. 1 \in 1 .. N /\ 1 - 1 = 0
      BY <2>0
    <3>2. f[1] = f[0] \o qs[1] /\ qs[1] \in Seq(S)
      BY <2>0, <2>2, <3>1
    <3> QED
      BY <2>2, <3>2
  <2> HIDE DEF Sums
  <2>3. Is([i \in 1 .. N |-> f[i]], qs)
    <3> DEFINE h == [i \in 1 .. N |-> f[i]]
    <3>1. \A i \in 1 .. N : h[i] = IF i = 1 THEN qs[i] ELSE h[i - 1] \o qs[i]
      <4> SUFFICES ASSUME NEW i \in 1 .. N PROVE f[i] = IF i = 1 THEN qs[i] ELSE h[i - 1] \o qs[i]
        OBVIOUS
      <4>1. CASE i = 1
        BY <2>9, <4>1
      <4>2. CASE i # 1
        <5>1. i - 1 \in 1 .. N
          BY <2>0, <4>2
        <5>2. h[i - 1] = f[i - 1]
          BY <5>1
        <5> QED
          BY <2>2, <4>2, <5>2
      <4> QED
        BY <4>1, <4>2
    <3>2. h = [i \in 1 .. N |-> h[i]]
      OBVIOUS
    <3> HIDE DEF h
    <3>3. h = [i \in 1 .. N |-> IF i = 1 THEN qs[i] ELSE h[i - 1] \o qs[i]]
      BY <3>1, <3>2
    <3> QED
      BY <3>3 DEF N, h
  <2>4. Is(g, qs)
    BY <2>3
  <2>5. g = [i \in 1 .. N |-> IF i = 1 THEN qs[i] ELSE g[i - 1] \o qs[i]]
    BY <2>4 DEF N
  <2> HIDE DEF g
  <2> DEFINE T == {n \in Nat : n + 1 <= N => g[n + 1] = f[n + 1]}
  <2>6. 0 \in T
    <3>1. 1 \in 1 .. N
      BY <2>0
    <3>2. g[1] = qs[1]
      BY <2>5, <3>1
    <3> QED
      BY <2>9, <3>2
  <2>7. ASSUME NEW n \in Nat, n \in T PROVE n + 1 \in T
    <3> SUFFICES ASSUME n + 2 <= N PROVE g[n + 2] = f[n + 2]
      OBVIOUS
    <3>1. n + 2 \in 1 .. N /\ n + 2 # 1 /\ (n + 2) - 1 = n + 1 /\ n + 1 <= N
      BY <2>0
    <3>2. g[n + 2] = g[n + 1] \o qs[n + 2]
      BY <2>5, <3>1
    <3>3. f[n + 2] = f[n + 1] \o qs[n + 2]
      BY <2>2, <3>1
    <3> QED
      BY <2>7, <3>1, <3>2, <3>3
  <2> HIDE DEF T
  <2>8. N - 1 \in T
    <3>1. Nat \subseteq T
      BY <2>6, <2>7, SetInduction
    <3> QED
      BY <2>0, <3>1
  <2> QED
    BY <2>0, <2>8 DEF T
<1>2. ASSUME NEW qs \in Seq(Seq(S)) PROVE \E f : Sums(f, qs)
  <2> DEFINE N == Len(qs)
             G == [n \in 1 .. N |-> [x \in Seq(S) |-> x \o qs[n]]]
             U == Seq(S)
  <2>1. N \in Nat /\ <<>> \in U /\ \A n \in 1 .. N : \A x \in U : x \o qs[n] \in U
    OBVIOUS
  <2>2. /\ \A n \in 1 .. N : \A x \in U : G[n][x] = x \o qs[n]
        /\ G \in [1 .. N -> [U -> U]]
    BY <2>1
  <2> HIDE DEF N, G, U
  <2>3. PICK f \in [0 .. N -> U] : f[0] = <<>> /\ \A n \in 1 .. N : f[n] = G[n][f[n - 1]]
    <3>1. <<>> \in U /\ N \in Nat /\ G \in [1 .. N -> [U -> U]]
      BY <2>1, <2>2
    <3>2. \E f : Steps(f, U, <<>>, N, G)
      BY <3>1, StepsExist
    <3> QED
      BY <3>2 DEF Steps
  <2>4. \A n \in 1 .. N : f[n] = f[n - 1] \o qs[n]
    <3> TAKE n \in 1 .. N
    <3>1. n - 1 \in 0 .. N /\ f[n - 1] \in U
      BY <2>1
    <3> QED
      BY <2>2, <2>3, <3>1
  <2>5. Sums(f, qs)
    BY <2>3, <2>4 DEF N, U
  <2> QED
    BY <2>5
<1>3. FlattenSeq(<<>>) = <<>>
  BY DEF FlattenSeq
<1> DEFINE q == Append(ss, e)
           N == Len(ss)
<1>4. /\ q \in Seq(Seq(S)) /\ q # <<>> /\ Len(q) = N + 1 /\ N \in Nat /\ q[N + 1] = e
      /\ \A i \in 1 .. N : q[i] = ss[i]
  <2> DEFINE V == Seq(S)
  <2>1. ss \in Seq(V) /\ e \in V
    OBVIOUS
  <2> HIDE DEF V
  <2>2. /\ q \in Seq(V) /\ q # <<>> /\ Len(q) = N + 1 /\ N \in Nat /\ q[N + 1] = e
        /\ \A i \in 1 .. N : q[i] = ss[i]
    BY <2>1, AppendProperties DEF q
  <2> QED
    BY <2>2 DEF V
<1> HIDE DEF q, Sums
<1>5. PICK f : Sums(f, q)
  BY <1>2, <1>4
<1>6. FlattenSeq(q) = f[N + 1]
  BY <1>1, <1>4, <1>5
<1>7. /\ f \in [0 .. (N + 1) -> Seq(S)] /\ f[0] = <<>>
      /\ \A n \in 1 .. (N + 1) : f[n] = f[n - 1] \o q[n]
  BY <1>4, <1>5 DEF Sums
<1>8. f[N + 1] = f[N] \o e /\ f[N] \in Seq(S)
  <2>1. N + 1 \in 1 .. (N + 1) /\ (N + 1) - 1 = N /\ N \in 0 .. (N + 1)
    BY <1>4
  <2> QED
    BY <1>4, <1>7, <2>1
<1>9. FlattenSeq(ss) = f[N]
  <2>1. CASE ss = <<>>
    BY <1>3, <1>7, <2>1
  <2>2. CASE ss # <<>>
    <3> DEFINE h == [i \in 0 .. N |-> f[i]]
    <3>1. \A i \in 1 .. N : i \in 0 .. N /\ i - 1 \in 0 .. N /\ i \in 1 .. (N + 1)
      BY <1>4
    <3>2. h \in [0 .. N -> Seq(S)] /\ h[0] = <<>> /\ h[N] = f[N]
      BY <1>4, <1>7
    <3>3. \A i \in 1 .. N : h[i] = h[i - 1] \o ss[i]
      BY <1>4, <1>7, <3>1
    <3> HIDE DEF h
    <3>4. Sums(h, ss)
      BY <3>2, <3>3 DEF Sums
    <3> QED
      BY <1>1, <2>2, <3>2, <3>4
  <2> QED
    BY <2>1, <2>2
<1> QED
  BY <1>3, <1>6, <1>8, <1>9 DEF q
-----------------------------------------------------------------------------
(* Increasing sequences of numbers, and the sets of their elements.        *)

Increasing(s) == \A a, b \in 1 .. Len(s) : a < b => s[a] < s[b]
(* All elements of the one set are in front of those of the other.         *)
Ahead(A, B) == \A a \in A, b \in B : a < b

LEMMA ElementsOfSeq ==
  ASSUME NEW S, NEW s \in Seq(S)
  PROVE  /\ \A x : x \in ToSet(s) <=> \E i \in 1 .. Len(s) : x = s[i]
         /\ ToSet(s) \subseteq S
         /\ s = <<>> <=> ToSet(s) = {}
<1>1. DOMAIN s = 1 .. Len(s) /\ Len(s) \in Nat
  OBVIOUS
<1>2. \A x : x \in ToSet(s) <=> \E i \in 1 .. Len(s) : x = s[i]
  BY <1>1 DEF ToSet
<1>3. ToSet(s) \subseteq S
  BY <1>2
<1>4. s # <<>> => 1 \in 1 .. Len(s)
  OBVIOUS
<1>5. s = <<>> => Len(s) = 0
  OBVIOUS
<1>6. s = <<>> <=> ToSet(s) = {}
  BY <1>2, <1>4, <1>5
<1> QED
  BY <1>2, <1>3, <1>6

LEMMA NoElements == ToSet(<<>>) = {} /\ Increasing(<<>>)
  BY DEF ToSet, Increasing

LEMMA OneElement ==
  ASSUME NEW x PROVE ToSet(<<x>>) = {x} /\ Increasing(<<x>>)
  BY DEF ToSet, Increasing

LEMMA HeadAndTail ==
  ASSUME NEW S \in SUBSET Int, NEW s \in Seq(S), s # <<>>
  PROVE  /\ Head(s) \in S /\ Tail(s) \in Seq(S)
         /\ ToSet(s) = {Head(s)} \cup ToSet(Tail(s))
         /\ Increasing(s) => Increasing(Tail(s)) /\ Ahead({Head(s)}, ToSet(Tail(s)))
<1> DEFINE t == Tail(s)
           n == Len(t)
<1>1. /\ Head(s) = s[1] /\ s[1] \in S /\ t \in Seq(S)
      /\ n \in Nat /\ Len(s) = n + 1
      /\ \A i \in 1 .. n : t[i] = s[i + 1]
  OBVIOUS
<1>2. /\ \A x : x \in ToSet(s) <=> \E i \in 1 .. (n + 1) : x = s[i]
      /\ \A x : x \in ToSet(t) <=> \E i \in 1 .. n : x = t[i]
  <2>1. \A x : x \in ToSet(t) <=> \E i \in 1 .. Len(t) : x = t[i]
    BY <1>1, ElementsOfSeq
  <2>2. \A x : x \in ToSet(s) <=> \E i \in 1 .. Len(s) : x = s[i]
    BY ElementsOfSeq
  <2> QED
    BY <1>1, <2>1, <2>2
<1>3. Increasing(s) <=> \A i, j \in 1 .. (n + 1) : i < j => s[i] < s[j]
  BY <1>1 DEF Increasing
<1>4. Increasing(t) <=> \A i, j \in 1 .. n : i < j => t[i] < t[j]
  BY DEF Increasing
<1> HIDE DEF t, n
<1>5. ToSet(s) = {Head(s)} \cup ToSet(t)
  <2>1. \A i \in 1 .. (n + 1) : i # 1 => i - 1 \in 1 .. n /\ t[i - 1] = s[i]
    BY <1>1
  <2>2. \A i \in 1 .. n : i + 1 \in 1 .. (n + 1) /\ t[i] = s[i + 1]
    BY <1>1
  <2>3. 1 \in 1 .. (n + 1) /\ Head(s) = s[1]
    BY <1>1
  <2> QED
    BY <1>2, <2>1, <2>2, <2>3
<1>6. ASSUME Increasing(s) PROVE Increasing(t)
  BY <1>1, <1>3, <1>4, <1>6
<1>7. ASSUME Increasing(s) PROVE Ahead({Head(s)}, ToSet(t))
  <2>1. \A i \in 1 .. n : s[1] < s[i + 1]
    BY <1>1, <1>3, <1>7
  <2> QED
    BY <1>1, <1>2, <2>1 DEF Ahead
<1> QED
  BY <1>1, <1>5, <1>6, <1>7 DEF t

LEMMA ConcatSorted ==
  ASSUME NEW S \in SUBSET Int, NEW s \in Seq(S), NEW t \in Seq(S)
  PROVE  /\ s \o t \in Seq(S)
         /\ ToSet(s \o t) = ToSet(s) \cup ToSet(t)
         /\ Increasing(s) /\ Increasing(t) /\ Ahead(ToSet(s), ToSet(t)) => Increasing(s \o t)
<1> DEFINE r == s \o t
           m == Len(s)
           n == Len(t)
<1>1. /\ r \in Seq(S) /\ Len(r) = m + n /\ m \in Nat /\ n \in Nat
      /\ \A i \in 1 .. (m + n) : r[i] = IF i <= m THEN s[i] ELSE t[i - m]
  BY ConcatProperties
<1>2. /\ \A x : x \in ToSet(s) <=> \E i \in 1 .. m : x = s[i]
      /\ \A x : x \in ToSet(t) <=> \E i \in 1 .. n : x = t[i]
      /\ \A x : x \in ToSet(r) <=> \E i \in 1 .. (m + n) : x = r[i]
  <2>1. \A x : x \in ToSet(r) <=> \E i \in 1 .. Len(r) : x = r[i]
    <3> HIDE DEF r
    <3> QED
      BY <1>1, ElementsOfSeq
  <2> QED
    BY <1>1, <2>1, ElementsOfSeq
<1>3. Increasing(s) => \A i, j \in 1 .. m : i < j => s[i] < s[j]
  BY DEF Increasing
<1>4. Increasing(t) => \A i, j \in 1 .. n : i < j => t[i] < t[j]
  BY DEF Increasing
<1>5. (\A i, j \in 1 .. (m + n) : i < j => r[i] < r[j]) => Increasing(r)
  <2> HIDE DEF r
  <2> QED
    BY <1>1 DEF Increasing
<1> HIDE DEF r, m, n
<1>6. \A i \in 1 .. m : i \in 1 .. (m + n) /\ r[i] = s[i]
  BY <1>1
<1>7. \A i \in 1 .. n : m + i \in 1 .. (m + n) /\ r[m + i] = t[i]
  <2> TAKE i \in 1 .. n
  <2>1. m + i \in 1 .. (m + n) /\ ~(m + i <= m) /\ (m + i) - m = i
    BY <1>1
  <2> QED
    BY <1>1, <2>1
<1>8. \A i \in 1 .. (m + n) :
        \/ i \in 1 .. m /\ r[i] = s[i]
        \/ i > m /\ i - m \in 1 .. n /\ r[i] = t[i - m]
  BY <1>1
<1>9. ToSet(r) = ToSet(s) \cup ToSet(t)
  BY <1>2, <1>6, <1>7, <1>8
<1>10. ASSUME Increasing(s), Increasing(t), Ahead(ToSet(s), ToSet(t))
       PROVE  Increasing(r)
  <2> SUFFICES ASSUME NEW i \in 1 .. (m + n), NEW j \in 1 .. (m + n), i < j PROVE r[i] < r[j]
    BY <1>5
  <2>1. CASE j <= m
    BY <1>1, <1>3, <1>10, <2>1
  <2>2. CASE i > m
    <3>1. /\ i - m \in 1 .. n /\ j - m \in 1 .. n /\ i - m < j - m
          /\ r[i] = t[i - m] /\ r[j] = t[j - m]
      BY <1>1, <2>2
    <3> QED
      BY <1>4, <1>10, <3>1
  <2>3. CASE i <= m /\ j > m
    <3>1. /\ i \in 1 .. m /\ j - m \in 1 .. n
          /\ r[i] = s[i] /\ r[j] = t[j - m]
      BY <1>1, <2>3
    <3>2. s[i] \in ToSet(s) /\ t[j - m] \in ToSet(t)
      BY <1>2, <3>1
    <3> QED
      BY <1>10, <3>1, <3>2 DEF Ahead
  <2> QED
    BY <1>1, <2>1, <2>2, <2>3
<1> QED
  BY <1>1, <1>9, <1>10 DEF r

LEMMA AppendSorted ==
  ASSUME NEW S \in SUBSET Int, NEW s \in Seq(S), NEW x \in S
  PROVE  /\ Append(s, x) \in Seq(S)
         /\ ToSet(Append(s, x)) = ToSet(s) \cup {x}
         /\ Increasing(s) /\ Ahead(ToSet(s), {x}) => Increasing(Append(s, x))
<1> DEFINE t == <<x>>
<1>1. Append(s, x) = s \o t /\ t \in Seq(S)
  BY AppendIsConcat
<1>2. ToSet(t) = {x} /\ Increasing(t)
  BY OneElement
<1> HIDE DEF t
<1>3. /\ s \o t \in Seq(S)
      /\ ToSet(s \o t) = ToSet(s) \cup ToSet(t)
      /\ Increasing(s) /\ Increasing(t) /\ Ahead(ToSet(s), ToSet(t)) => Increasing(s \o t)
  BY <1>1, ConcatSorted
<1> QED
  BY <1>1, <1>2, <1>3

(* Taking out one element leaves what is in front of it and behind it.     *)
LEMMA SplitSorted ==
  ASSUME NEW S \in SUBSET Int, NEW s \in Seq(S), NEW i \in 1 .. Len(s)
  PROVE  LET front == SubSeq(s, 1, i - 1)
             back  == SubSeq(s, i + 1, Len(s))
         IN /\ front \in Seq(S) /\ back \in Seq(S)
            /\ ToSet(s) = ToSet(front) \cup {s[i]} \cup ToSet(back)
            /\ Increasing(s) => /\ Increasing(front) /\ Increasing(back)
                                /\ Ahead(ToSet(front), {s[i]} \cup ToSet(back))
                                /\ Ahead({s[i]}, ToSet(back))
<1> DEFINE front == SubSeq(s, 1, i - 1)
           back  == SubSeq(s, i + 1, Len(s))
<1>1. /\ front \in Seq(S) /\ Len(front) = i - 1 /\ \A j \in 1 .. (i - 1) : front[j] = s[j]
  OBVIOUS
<1>2. /\ back \in Seq(S) /\ Len(back) = Len(s) - i
      /\ \A j \in 1 .. (Len(s) - i) : back[j] = s[i + j]
  OBVIOUS
<1> HIDE DEF front, back
<1>3. /\ \A x : x \in ToSet(s) <=> \E j \in 1 .. Len(s) : x = s[j]
      /\ \A x : x \in ToSet(front) <=> \E j \in 1 .. (i - 1) : x = front[j]
      /\ \A x : x \in ToSet(back) <=> \E j \in 1 .. (Len(s) - i) : x = back[j]
  BY <1>1, <1>2, ElementsOfSeq
<1>4. \A x : x \in ToSet(front) <=> \E j \in 1 .. (i - 1) : x = s[j]
  BY <1>1, <1>3
<1>5. \A x : x \in ToSet(back) <=> \E j \in (i + 1) .. Len(s) : x = s[j]
  <2>1. \A j \in 1 .. (Len(s) - i) : i + j \in (i + 1) .. Len(s) /\ back[j] = s[i + j]
    BY <1>2
  <2>2. \A j \in (i + 1) .. Len(s) : j - i \in 1 .. (Len(s) - i) /\ i + (j - i) = j
    OBVIOUS
  <2>3. \A j \in (i + 1) .. Len(s) : back[j - i] = s[j]
    BY <2>1, <2>2
  <2> QED
    BY <1>3, <2>1, <2>2, <2>3
<1>6. \A j \in 1 .. Len(s) : j \in 1 .. (i - 1) \/ j = i \/ j \in (i + 1) .. Len(s)
  OBVIOUS
<1>7. \A j : j \in 1 .. (i - 1) \/ j \in (i + 1) .. Len(s) => j \in 1 .. Len(s)
  OBVIOUS
<1>8. ToSet(s) = ToSet(front) \cup {s[i]} \cup ToSet(back)
  BY <1>3, <1>4, <1>5, <1>6, <1>7
<1>9. ASSUME Increasing(s)
      PROVE  /\ Increasing(front) /\ Increasing(back)
             /\ Ahead(ToSet(front), {s[i]} \cup ToSet(back)) /\ Ahead({s[i]}, ToSet(back))
  <2>1. Increasing(front)
    BY <1>1, <1>9 DEF Increasing
  <2>2. Increasing(back)
    BY <1>2, <1>9 DEF Increasing
  <2>3. Ahead(ToSet(front), {s[i]} \cup ToSet(back)) /\ Ahead({s[i]}, ToSet(back))
    BY <1>4, <1>5, <1>9 DEF Increasing, Ahead
  <2> QED
    BY <2>1, <2>2, <2>3
<1> QED
  BY <1>1, <1>2, <1>8, <1>9 DEF front, back
=============================================================================
