---------------------------- MODULE CmdlineProofs ----------------------------
(***************************************************************************)
(* The command line keeps the editor in step with its text: it implements  *)
(* the editable line of CmdlineSpec, rejected key presses leave no trace,  *)
(* and a failed replacement brings the old line back.                      *)
(***************************************************************************)
EXTENDS Cmdline, SequenceLemmas

-----------------------------------------------------------------------------
(* What a text does to the editor.                                         *)

First == [e |-> Blank, lead |-> <<>>]
RunBytes(t) == FoldLeft(RunByte, First, t)

(* FoldLeft() takes the last byte of a set of places last.                 *)
Reads(it, s) ==
  it = [I \in SUBSET DOMAIN s |-> IF I = {} THEN First ELSE RunByte(it[I \ {Max(I)}], s[Max(I)])]

LEMMA MaxLemma ==
  ASSUME NEW N \in Nat, NEW I \in SUBSET (0 .. N), I # {}
  PROVE  Max(I) \in I /\ \A i \in I : i <= Max(I)
<1> DEFINE J == {N - i : i \in I}
<1>1. J \in SUBSET Nat /\ J # {}
  <2>1. \A i \in I : i \in Int /\ N - i \in Nat
    OBVIOUS
  <2> QED
    BY <2>1
<1>2. Min(J) \in J /\ \A j \in J : Min(J) <= j
  <2> HIDE DEF J
  <2> QED
    BY <1>1, MinLemma
<1>3. PICK m \in I : Min(J) = N - m
  BY <1>2
<1>4. ASSUME NEW i \in I PROVE i <= m
  <2>1. i \in Int /\ m \in Int /\ N - i \in J
    OBVIOUS
  <2>2. N - m <= N - i
    BY <1>2, <1>3, <2>1
  <2> QED
    BY <2>1, <2>2
<1> QED
  BY <1>4 DEF Max

LEMMA ReadsExist ==
  ASSUME NEW T, NEW s \in Seq(T)
  PROVE  \E it : Reads(it, s)
<1> DEFINE D == DOMAIN s
           N == Len(s)
           Small(n) == {I \in SUBSET D : Cardinality(I) <= n}
           Body(f, I) == IF I = {} THEN First ELSE RunByte(f[I \ {Max(I)}], s[Max(I)])
           Is(f, n) == f = [I \in Small(n) |-> Body(f, I)]
           S == {n \in Nat : \E f : Is(f, n)}
<1>1. /\ D = 1 .. N /\ N \in Nat /\ IsFiniteSet(D) /\ Cardinality(D) = N
  <2>1. D = 1 .. N /\ N \in Nat
    OBVIOUS
  <2> HIDE DEF D, N
  <2> QED
    BY <2>1, FS_Interval
<1> HIDE DEF D, N
<1>2. ASSUME NEW I \in SUBSET D PROVE IsFiniteSet(I) /\ Cardinality(I) \in Nat /\ Cardinality(I) <= N
  BY <1>1, FS_Subset, FS_CardinalityType
<1>3. ASSUME NEW I \in SUBSET D, I # {}
      PROVE  /\ Max(I) \in I /\ I \ {Max(I)} \in SUBSET D
             /\ Cardinality(I \ {Max(I)}) = Cardinality(I) - 1
  <2>1. I \in SUBSET (0 .. N)
    BY <1>1
  <2>2. Max(I) \in I
    BY <2>1, <1>1, <1>3, MaxLemma
  <2> QED
    BY <2>2, <1>2, FS_RemoveElement
<1>4. 0 \in S
  <2>1. \A I \in SUBSET D : Cardinality(I) <= 0 <=> I = {}
    BY <1>2, FS_EmptySet
  <2> DEFINE f == [I \in Small(0) |-> First]
  <2>2. \A I \in Small(0) : Body(f, I) = First
    BY <2>1
  <2>3. Is(f, 0)
    BY <2>2
  <2> HIDE DEF f, Is
  <2> QED
    BY <2>3
<1>5. ASSUME NEW n \in Nat, n \in S PROVE n + 1 \in S
  <2>1. PICK f : Is(f, n)
    BY <1>5
  <2> DEFINE V(I) == IF Cardinality(I) <= n THEN f[I] ELSE Body(f, I)
             g == [I \in Small(n + 1) |-> V(I)]
  <2>2. ASSUME NEW I \in Small(n + 1) PROVE g[I] = Body(g, I)
    <3>1. g[I] = Body(f, I)
      <4>1. CASE Cardinality(I) <= n
        BY <2>1, <4>1
      <4> QED
        BY <4>1
    <3>2. CASE I = {}
      BY <3>1, <3>2
    <3>3. CASE I # {}
      <4> DEFINE J == I \ {Max(I)}
      <4>1. J \in SUBSET D /\ Cardinality(J) = Cardinality(I) - 1 /\ Cardinality(I) \in Nat
        BY <1>2, <1>3, <3>3
      <4>2. Cardinality(J) <= n /\ J \in Small(n + 1)
        BY <4>1
      <4> HIDE DEF J
      <4>3. g[J] = f[J]
        BY <4>2
      <4> HIDE DEF g
      <4> QED
        BY <3>1, <3>3, <4>3 DEF J
    <3> QED
      BY <3>2, <3>3
  <2>3. Is(g, n + 1)
    <3> HIDE DEF V, Body
    <3>1. g = [I \in Small(n + 1) |-> g[I]]
      OBVIOUS
    <3> HIDE DEF g
    <3> QED
      BY <2>2, <3>1
  <2> HIDE DEF g, Is
  <2> QED
    BY <2>3
<1> HIDE DEF S
<1>6. N \in S
  BY <1>1, <1>4, <1>5, SetInduction
<1>7. PICK f : Is(f, N)
  BY <1>6 DEF S
<1>8. Small(N) = SUBSET D
  BY <1>2
<1> QED
  BY <1>7, <1>8 DEF Reads, D

(* The editor after the first k bytes of a text, for every k.              *)
IsTrace(f, t) == f[0] = First /\ \A k \in 1 .. Len(t) : f[k] = RunByte(f[k - 1], t[k])

LEMMA RunTrace ==
  ASSUME NEW T, NEW t \in Seq(T)
  PROVE  \E f : IsTrace(f, t) /\ RunBytes(t) = f[Len(t)]
<1> DEFINE N == Len(t)
           it == CHOOSE it : Reads(it, t)
           f == [k \in 0 .. N |-> it[1 .. k]]
<1>1. Reads(it, t)
  BY ReadsExist
<1>2. RunBytes(t) = it[DOMAIN t]
  BY DEF RunBytes, FoldLeft, MapThenFoldSet, Reads
<1>3. DOMAIN t = 1 .. N /\ N \in Nat
  OBVIOUS
<1> HIDE DEF it, N
<1>4. f[0] = First
  <2>1. f[0] = it[1 .. 0] /\ 1 .. 0 = {}
    BY <1>3
  <2>2. it[{}] = First
    BY <1>1 DEF Reads
  <2> QED
    BY <2>1, <2>2
<1>5. ASSUME NEW k \in 1 .. N PROVE f[k] = RunByte(f[k - 1], t[k])
  <2> DEFINE I == 1 .. k
  <2>1. I \in SUBSET DOMAIN t /\ I # {} /\ I \in SUBSET (0 .. N) /\ k \in I
    BY <1>3
  <2>2. Max(I) \in I /\ k <= Max(I)
    <3> HIDE DEF I
    <3> QED
      BY <1>3, <2>1, MaxLemma
  <2>3. Max(I) = k
    BY <2>2
  <2>4. I \ {k} = 1 .. (k - 1)
    OBVIOUS
  <2> HIDE DEF I
  <2>5. it[I] = RunByte(it[I \ {k}], t[k])
    BY <1>1, <2>1, <2>3 DEF Reads
  <2> QED
    BY <1>3, <2>4, <2>5 DEF I
<1> HIDE DEF f
<1>6. IsTrace(f, t)
  BY <1>4, <1>5 DEF IsTrace, N
<1>7. f[N] = it[1 .. N]
  BY <1>3 DEF f
<1> QED
  BY <1>2, <1>3, <1>6, <1>7 DEF N

-----------------------------------------------------------------------------
(* Lines, and the places between their characters.                         *)

(* A lead byte is followed by its continuation.                            *)
Whole(t) == \A i \in 1 .. Len(t) : t[i] \in Leads => i < Len(t) /\ t[i + 1] \in Conts
Lines == {t \in Seq(Bytes) : Whole(t)}

Bounds(t) == {n \in 0 .. Len(t) : n = 0 \/ t[n] \notin Leads}

(* The editor when the first n bytes have been executed.                   *)
EdAt(t, n) == RunText(SubSeq(t, 1, n))

(* The first n bytes are characters that neither fail nor throw.           *)
Executable(t, n) ==
  \A i \in Bounds(t) : i < n =>
    /\ Accepts(EdAt(t, i), CharAt(t, i))
    /\ ~IsReturn(EdAt(t, i), CharAt(t, i)) /\ ~IsReplace(EdAt(t, i), CharAt(t, i))

(* No character of t replaces the command line; none fails.                *)
NoReplacement(t) == \A i \in Bounds(t) : i < Len(t) => ~IsReplace(EdAt(t, i), CharAt(t, i))
NoFailure(t) ==
  \A i \in Bounds(t) : i < Len(t) =>
    IF IsReturn(EdAt(t, i), CharAt(t, i)) THEN ~EdAt(t, i).editing ELSE Accepts(EdAt(t, i), CharAt(t, i))

(* The last character of t, and no other, replaces the command line.       *)
Replaced(t) ==
  /\ Len(t) > 0 /\ Len(t) - 1 \in Bounds(t) /\ Executable(t, Len(t) - 1)
  /\ IsReplace(EdAt(t, Len(t) - 1), CharAt(t, Len(t) - 1))

(* If a character of t replaces the command line, it is the last one.      *)
ReplacedAtEnd(t) ==
  \A i \in Bounds(t) : i < Len(t) /\ IsReplace(EdAt(t, i), CharAt(t, i)) => i = Len(t) - 1

LEMMA TraceOfPrefix ==
  ASSUME NEW T, NEW t \in Seq(T), NEW f, IsTrace(f, t), NEW n \in 0 .. Len(t)
  PROVE  RunBytes(SubSeq(t, 1, n)) = f[n]
<1> DEFINE s == SubSeq(t, 1, n)
<1>1. s \in Seq(T) /\ Len(s) = n /\ (\A k \in 1 .. n : s[k] = t[k]) /\ n \in Nat /\ n <= Len(t) /\ Len(t) \in Nat
  OBVIOUS
<1> HIDE DEF s
<1>2. PICK g : IsTrace(g, s) /\ RunBytes(s) = g[Len(s)]
  BY <1>1, RunTrace
<1> DEFINE S == {k \in Nat : k <= n => g[k] = f[k]}
<1>3. 0 \in S
  BY <1>2 DEF IsTrace
<1>4. ASSUME NEW k \in Nat, k \in S PROVE k + 1 \in S
  <2> SUFFICES ASSUME k + 1 <= n PROVE g[k + 1] = f[k + 1]
    OBVIOUS
  <2>1. k + 1 \in 1 .. Len(s) /\ k + 1 \in 1 .. Len(t) /\ (k + 1) - 1 = k /\ g[k] = f[k]
    BY <1>1, <1>4
  <2>2. g[k + 1] = RunByte(g[k], s[k + 1]) /\ f[k + 1] = RunByte(f[k], t[k + 1])
    BY <1>2, <2>1 DEF IsTrace
  <2> QED
    BY <1>1, <2>1, <2>2
<1> HIDE DEF S
<1>5. n \in S
  BY <1>1, <1>3, <1>4, SetInduction
<1> QED
  BY <1>1, <1>2, <1>5 DEF S, s

(* The empty text does nothing, and every character one step.              *)
LEMMA EdAtStart ==
  ASSUME NEW T, NEW t \in Seq(T)
  PROVE  0 \in Bounds(t) /\ EdAt(t, 0) = Blank
<1>1. PICK f : IsTrace(f, t)
  BY RunTrace
<1>2. RunBytes(SubSeq(t, 1, 0)) = f[0] /\ f[0] = First
  BY <1>1, TraceOfPrefix DEF IsTrace
<1> QED
  BY <1>2 DEF EdAt, RunText, RunBytes, First, Bounds

LEMMA TwoElements ==
  ASSUME NEW S, NEW t \in Seq(S), NEW m \in 1 .. Len(t), m + 1 \in 1 .. Len(t)
  PROVE  /\ SubSeq(t, m, m + 1) \in Seq(S) /\ Len(SubSeq(t, m, m + 1)) = 2
         /\ SubSeq(t, m, m + 1)[1] = t[m] /\ SubSeq(t, m, m + 1)[2] = t[m + 1]
<1>1. SubSeq(t, m, m + 1) \in Seq(S) /\ Len(SubSeq(t, m, m + 1)) = 2
  OBVIOUS
<1>2. \A k \in 1 .. 2 : SubSeq(t, m, m + 1)[k] = t[m + k - 1]
  OBVIOUS
<1>3. m + 1 - 1 = m /\ m + 2 - 1 = m + 1
  OBVIOUS
<1>4. SubSeq(t, m, m + 1)[1] = t[m + 1 - 1] /\ SubSeq(t, m, m + 1)[2] = t[m + 2 - 1]
  BY <1>2
<1> QED
  BY <1>1, <1>3, <1>4

LEMMA CharAtLemma ==
  ASSUME NEW t \in Lines, NEW n \in Bounds(t), n < Len(t)
  PROVE  LET c == CharAt(t, n) IN
         /\ c \in Seq(Bytes) /\ Len(c) \in {1, 2} /\ n + Len(c) \in Bounds(t)
         /\ c[1] = t[n + 1] /\ (Len(c) = 2 => c[2] = t[n + 2])
         /\ Len(c) = 1 <=> t[n + 1] \notin Leads
         /\ Len(c) = 2 => t[n + 1] \in Leads /\ t[n + 2] \in Conts
<1> DEFINE c == CharAt(t, n)
<1>1. /\ t \in Seq(Bytes) /\ n \in Nat /\ Len(t) \in Nat /\ n + 1 \in 1 .. Len(t) /\ t[n + 1] \in Bytes
      /\ t[n + 1] \in Leads => n + 1 < Len(t) /\ t[n + 2] \in Conts
  <2>1. t \in Seq(Bytes) /\ Whole(t)
    BY DEF Lines
  <2>2. n \in Nat /\ Len(t) \in Nat /\ n + 1 \in 1 .. Len(t) /\ (n + 1) + 1 = n + 2
    BY <2>1 DEF Bounds
  <2> QED
    BY <2>1, <2>2 DEF Whole
<1>2. CASE t[n + 1] \in Leads
  <2>1. c = SubSeq(t, n + 1, n + 2)
    BY <1>2 DEF CharAt
  <2>2. n + 2 \in 1 .. Len(t) /\ t[n + 2] \notin Leads
    BY <1>1, <1>2, CmdlineAssumption
  <2>3. c \in Seq(Bytes) /\ Len(c) = 2 /\ c[1] = t[n + 1] /\ c[2] = t[n + 2]
    <3>1. n + 1 \in 1 .. Len(t) /\ (n + 1) + 1 \in 1 .. Len(t) /\ (n + 1) + 1 = n + 2
      BY <1>1, <2>2
    <3>2. /\ SubSeq(t, n + 1, (n + 1) + 1) \in Seq(Bytes) /\ Len(SubSeq(t, n + 1, (n + 1) + 1)) = 2
          /\ SubSeq(t, n + 1, (n + 1) + 1)[1] = t[n + 1]
          /\ SubSeq(t, n + 1, (n + 1) + 1)[2] = t[(n + 1) + 1]
      BY <1>1, <3>1, TwoElements
    <3> HIDE DEF c
    <3> QED
      BY <2>1, <3>1, <3>2
  <2>4. n + 2 \in Bounds(t)
    BY <2>2 DEF Bounds
  <2> QED
    BY <1>1, <1>2, <2>3, <2>4
<1>3. CASE t[n + 1] \notin Leads
  <2>1. c = <<t[n + 1]>>
    BY <1>3 DEF CharAt
  <2>2. c \in Seq(Bytes) /\ Len(c) = 1 /\ c[1] = t[n + 1]
    BY <1>1, <2>1
  <2>3. n + 1 \in Bounds(t)
    BY <1>1, <1>3 DEF Bounds
  <2> QED
    BY <1>3, <2>2, <2>3
<1> QED
  BY <1>2, <1>3

LEMMA EdAtStep ==
  ASSUME NEW t \in Lines, NEW n \in Bounds(t), n < Len(t)
  PROVE  EdAt(t, n + Len(CharAt(t, n))) = Execute(EdAt(t, n), CharAt(t, n))
<1> DEFINE c == CharAt(t, n)
<1>1. t \in Seq(Bytes) /\ n \in Nat /\ Len(t) \in Nat
  BY DEF Lines, Bounds
<1>2. /\ c \in Seq(Bytes) /\ Len(c) \in {1, 2} /\ n + Len(c) \in Bounds(t)
      /\ c[1] = t[n + 1] /\ (Len(c) = 2 => c[2] = t[n + 2])
      /\ Len(c) = 1 <=> t[n + 1] \notin Leads
      /\ Len(c) = 2 => t[n + 1] \in Leads /\ t[n + 2] \in Conts
  BY CharAtLemma
<1>3. PICK f : IsTrace(f, t)
  BY <1>1, RunTrace
<1>4. ASSUME NEW k \in Bounds(t) PROVE EdAt(t, k) = f[k].e /\ f[k].lead = <<>>
  <2>1. RunBytes(SubSeq(t, 1, k)) = f[k] /\ k \in 0 .. Len(t)
    BY <1>1, <1>3, TraceOfPrefix DEF Bounds
  <2>2. CASE k = 0
    BY <1>3, <2>1, <2>2 DEF IsTrace, First, EdAt, RunText, RunBytes
  <2>3. CASE k # 0
    <3>1. k \in 1 .. Len(t) /\ t[k] \notin Leads
      BY <1>1, <2>1, <2>3 DEF Bounds
    <3>2. f[k] = RunByte(f[k - 1], t[k])
      BY <1>3, <3>1 DEF IsTrace
    <3>3. f[k].lead = <<>>
      BY <3>1, <3>2 DEF RunByte
    <3> QED
      BY <2>1, <3>3 DEF EdAt, RunText, RunBytes, First
  <2> QED
    BY <2>2, <2>3
<1> HIDE DEF c
<1>5. EdAt(t, n) = f[n].e /\ f[n].lead = <<>> /\ EdAt(t, n + Len(c)) = f[n + Len(c)].e
  BY <1>2, <1>4
<1>6. CASE Len(c) = 1
  <2>1. f[n + 1] = RunByte(f[n], t[n + 1])
    BY <1>1, <1>3 DEF IsTrace
  <2>2. f[n + 1].e = Execute(f[n].e, <<>> \o <<t[n + 1]>>)
    BY <1>2, <1>5, <1>6, <2>1 DEF RunByte
  <2>3. c = <<t[n + 1]>> /\ <<>> \o <<t[n + 1]>> = <<t[n + 1]>>
    BY <1>1, <1>2, <1>6
  <2> QED
    BY <1>5, <1>6, <2>2, <2>3 DEF c
<1>7. CASE Len(c) = 2
  <2>1. n + 2 <= Len(t)
    BY <1>1, <1>2, <1>7 DEF Bounds
  <2>2. f[n + 1] = RunByte(f[n], t[n + 1]) /\ f[n + 2] = RunByte(f[n + 1], t[n + 2])
    <3>1. n + 1 \in 1 .. Len(t) /\ n + 2 \in 1 .. Len(t) /\ (n + 1) - 1 = n /\ (n + 2) - 1 = n + 1
      BY <1>1, <2>1
    <3> QED
      BY <1>3, <3>1 DEF IsTrace
  <2>3. t[n + 1] \in Leads /\ t[n + 2] \notin Leads
    BY <1>2, <1>7, CmdlineAssumption
  <2>4. f[n + 1] = [f[n] EXCEPT !.lead = <<t[n + 1]>>]
    BY <2>2, <2>3 DEF RunByte
  <2>5. f[n] = [e |-> f[n].e, lead |-> f[n].lead]
    <3>1. CASE n = 0
      BY <1>3, <3>1 DEF IsTrace, First
    <3>2. CASE n # 0
      <4>1. n \in 1 .. Len(t) /\ t[n] \notin Leads
        BY <1>1, <3>2 DEF Bounds
      <4>2. f[n] = RunByte(f[n - 1], t[n])
        BY <1>3, <4>1 DEF IsTrace
      <4>3. f[n] = [e |-> Execute(f[n - 1].e, f[n - 1].lead \o <<t[n]>>), lead |-> <<>>]
        BY <4>1, <4>2 DEF RunByte
      <4> QED
        BY <4>3
    <3> QED
      BY <3>1, <3>2
  <2>6. f[n + 1].e = f[n].e /\ f[n + 1].lead = <<t[n + 1]>>
    BY <2>4, <2>5
  <2>7. f[n + 2].e = Execute(f[n].e, <<t[n + 1]>> \o <<t[n + 2]>>)
    BY <2>2, <2>3, <2>6 DEF RunByte
  <2>8. c = <<t[n + 1]>> \o <<t[n + 2]>>
    BY <1>1, <1>2, <1>7
  <2> QED
    BY <1>5, <1>7, <2>7, <2>8 DEF c
<1> QED
  BY <1>2, <1>6, <1>7 DEF c

(* What has the same first n bytes is the same up to there.                *)
LEMMA SameBeginning ==
  ASSUME NEW t \in Lines, NEW u \in Lines, NEW n \in 0 .. Len(t), n <= Len(u),
         SubSeq(t, 1, n) = SubSeq(u, 1, n)
  PROVE  /\ \A i \in 1 .. n : t[i] = u[i]
         /\ \A i \in 0 .. n : EdAt(t, i) = EdAt(u, i) /\ (i \in Bounds(t) <=> i \in Bounds(u))
<1>1. t \in Seq(Bytes) /\ u \in Seq(Bytes) /\ Len(t) \in Nat /\ Len(u) \in Nat /\ n \in Nat /\ n <= Len(t)
  BY DEF Lines
<1>2. ASSUME NEW i \in 1 .. n PROVE t[i] = u[i]
  <2>1. SubSeq(t, 1, n)[i] = t[i] /\ SubSeq(u, 1, n)[i] = u[i]
    BY <1>1
  <2> QED
    BY <2>1
<1>3. ASSUME NEW i \in 0 .. n PROVE EdAt(t, i) = EdAt(u, i) /\ (i \in Bounds(t) <=> i \in Bounds(u))
  <2>1. SubSeq(t, 1, i) = SubSeq(u, 1, i)
    BY <1>1, <1>2
  <2>2. i \in Bounds(t) <=> i \in Bounds(u)
    BY <1>1, <1>2 DEF Bounds
  <2> QED
    BY <2>1, <2>2 DEF EdAt
<1> QED
  BY <1>2, <1>3

LEMMA SameCharacters ==
  ASSUME NEW t \in Lines, NEW u \in Lines, NEW n \in Bounds(t), n <= Len(u),
         SubSeq(t, 1, n) = SubSeq(u, 1, n), NEW i \in Bounds(t), i < n
  PROVE  CharAt(t, i) = CharAt(u, i) /\ i + Len(CharAt(t, i)) <= n
<1>1. t \in Seq(Bytes) /\ u \in Seq(Bytes) /\ Len(t) \in Nat /\ Len(u) \in Nat
      /\ n \in 0 .. Len(t) /\ i \in Nat /\ i < Len(t)
  BY DEF Lines, Bounds
<1>2. \A k \in 1 .. n : t[k] = u[k]
  BY <1>1, SameBeginning
<1> DEFINE m == Len(CharAt(t, i))
<1>3. m \in 1 .. 2 /\ (m = 1 <=> t[i + 1] \notin Leads)
  BY <1>1, CharAtLemma
<1> HIDE DEF m
<1>4. i + m <= n
  <2>1. CASE t[i + 1] \in Leads
    <3>1. n # i + 1
      BY <1>1, <2>1 DEF Bounds
    <3> QED
      BY <1>1, <1>3, <2>1, <3>1
  <2>2. CASE t[i + 1] \notin Leads
    BY <1>1, <1>3, <2>2
  <2> QED
    BY <2>1, <2>2
<1>5. i + 1 \in 1 .. n /\ t[i + 1] = u[i + 1]
  BY <1>1, <1>2
<1>6. ASSUME t[i + 1] \in Leads PROVE CharAt(t, i) = CharAt(u, i)
  <2>1. m = 2
    BY <1>3, <1>6
  <2>2. i + 2 <= n
    BY <1>4, <2>1
  <2>3. SubSeq(t, i + 1, i + 2) = SubSeq(u, i + 1, i + 2)
    BY <1>1, <1>2, <2>2
  <2> QED
    BY <1>5, <1>6, <2>3 DEF CharAt
<1>7. ASSUME t[i + 1] \notin Leads PROVE CharAt(t, i) = CharAt(u, i)
  BY <1>5, <1>7 DEF CharAt
<1> QED
  BY <1>4, <1>6, <1>7 DEF m

(* A new end, or the same one taken from the rubbed-out part.              *)
LEMMA NewEnd ==
  ASSUME NEW t \in Lines, NEW n \in Bounds(t), NEW d \in Lines
  PROVE  LET u == SubSeq(t, 1, n) \o d IN
         /\ u \in Lines /\ Len(u) = n + Len(d) /\ SubSeq(u, 1, n) = SubSeq(t, 1, n)
         /\ n \in Bounds(u) /\ Len(u) \in Bounds(u)
         /\ \A i \in 1 .. Len(d) : u[n + i] = d[i]
<1> DEFINE s == SubSeq(t, 1, n)
           u == s \o d
<1>1. /\ t \in Seq(Bytes) /\ d \in Seq(Bytes) /\ Len(t) \in Nat /\ Len(d) \in Nat /\ n \in Nat /\ n <= Len(t)
      /\ n = 0 \/ t[n] \notin Leads
  BY DEF Lines, Bounds
<1>2. s \in Seq(Bytes) /\ Len(s) = n /\ \A i \in 1 .. n : s[i] = t[i]
  BY <1>1
<1> HIDE DEF s
<1>3. u \in Seq(Bytes) /\ Len(u) = n + Len(d) /\ (\A i \in 1 .. n : u[i] = t[i])
      /\ \A i \in 1 .. Len(d) : u[n + i] = d[i]
  <2>1. u \in Seq(Bytes) /\ Len(u) = n + Len(d)
    BY <1>1, <1>2
  <2>2. \A i \in 1 .. (n + Len(d)) : u[i] = IF i <= n THEN s[i] ELSE d[i - n]
    BY <1>1, <1>2
  <2>3. \A i \in 1 .. Len(d) : n + i \in 1 .. (n + Len(d)) /\ ~(n + i <= n) /\ (n + i) - n = i
    BY <1>1
  <2> HIDE DEF u
  <2> QED
    BY <1>1, <1>2, <2>1, <2>2, <2>3
<1> HIDE DEF u
<1>4. ASSUME NEW i \in 1 .. Len(u), u[i] \in Leads PROVE i < Len(u) /\ u[i + 1] \in Conts
  <2>1. CASE i <= n
    <3>1. i \in 1 .. Len(t) /\ u[i] = t[i]
      BY <1>1, <1>3, <2>1
    <3>2. i < n
      BY <1>1, <1>4, <2>1, <3>1
    <3>3. t[i + 1] \in Conts /\ u[i + 1] = t[i + 1]
      BY <1>1, <1>3, <1>4, <3>1, <3>2 DEF Lines, Whole
    <3> QED
      BY <1>1, <1>3, <3>2, <3>3
  <2>2. CASE i > n
    <3> DEFINE k == i - n
    <3>1. k \in 1 .. Len(d) /\ n + k = i /\ n + (k + 1) = i + 1
      BY <1>1, <1>3, <2>2
    <3> HIDE DEF k
    <3>2. d[k] \in Leads
      BY <1>3, <1>4, <3>1
    <3>3. k < Len(d) /\ d[k + 1] \in Conts
      BY <3>1, <3>2 DEF Lines, Whole
    <3>4. k + 1 \in 1 .. Len(d)
      BY <1>1, <3>1, <3>3
    <3> QED
      BY <1>1, <1>3, <3>1, <3>3, <3>4
  <2> QED
    BY <1>1, <1>3, <2>1, <2>2
<1>5. u \in Lines
  BY <1>3, <1>4 DEF Lines, Whole
<1>6. SubSeq(u, 1, n) = s
  <2>1. SubSeq(u, 1, n) = SubSeq(t, 1, n)
    BY <1>1, <1>3
  <2> QED
    BY <2>1 DEF s
<1>7. n \in Bounds(u)
  BY <1>1, <1>3 DEF Bounds
<1>8. Len(u) \in Bounds(u)
  BY <1>1, <1>3, <1>4 DEF Bounds
<1> QED
  BY <1>3, <1>5, <1>6, <1>7, <1>8 DEF s, u

LEMMA SameEnd ==
  ASSUME NEW t \in Lines, NEW n \in Bounds(t), NEW d \in Lines,
         IsPrefix(d, SubSeq(t, n + 1, Len(t)))
  PROVE  n + Len(d) \in Bounds(t) /\ \A i \in 1 .. Len(d) : t[n + i] = d[i]
<1> DEFINE r == SubSeq(t, n + 1, Len(t))
<1>1. /\ t \in Seq(Bytes) /\ d \in Seq(Bytes) /\ Len(t) \in Nat /\ Len(d) \in Nat /\ n \in Nat /\ n <= Len(t)
      /\ n = 0 \/ t[n] \notin Leads
  BY DEF Lines, Bounds
<1>2. r \in Seq(Bytes) /\ Len(r) = Len(t) - n /\ \A i \in 1 .. (Len(t) - n) : r[i] = t[n + i]
  BY <1>1
<1>3. Len(d) <= Len(r) /\ SubSeq(d, 1, Len(d)) = SubSeq(r, 1, Len(d))
  BY DEF IsPrefix
<1> HIDE DEF r
<1>4. ASSUME NEW i \in 1 .. Len(d) PROVE t[n + i] = d[i]
  <2>1. SubSeq(d, 1, Len(d))[i] = d[i] /\ SubSeq(r, 1, Len(d))[i] = r[i]
    BY <1>1, <1>2, <1>3
  <2> QED
    BY <1>1, <1>2, <1>3, <2>1
<1>5. CASE Len(d) = 0
  BY <1>1, <1>4, <1>5 DEF Bounds
<1>6. CASE Len(d) > 0
  <2>1. Len(d) \in 1 .. Len(d)
    BY <1>1, <1>6
  <2>2. d[Len(d)] \notin Leads
    BY <1>1, <2>1 DEF Lines, Whole
  <2> QED
    BY <1>1, <1>2, <1>3, <1>4, <2>1, <2>2 DEF Bounds
<1> QED
  BY <1>1, <1>5, <1>6, <1>4

LEMMA CharIsLine ==
  ASSUME NEW t \in Lines, NEW n \in Bounds(t), n < Len(t)
  PROVE  CharAt(t, n) \in Lines /\ IsPrefix(CharAt(t, n), SubSeq(t, n + 1, Len(t)))
<1> DEFINE c == CharAt(t, n)
           r == SubSeq(t, n + 1, Len(t))
<1>1. /\ c \in Seq(Bytes) /\ Len(c) \in {1, 2} /\ n + Len(c) \in Bounds(t)
      /\ c[1] = t[n + 1] /\ (Len(c) = 2 => c[2] = t[n + 2])
      /\ Len(c) = 1 <=> t[n + 1] \notin Leads
      /\ Len(c) = 2 => t[n + 1] \in Leads /\ t[n + 2] \in Conts
  BY CharAtLemma
<1> HIDE DEF c
<1>2. /\ t \in Seq(Bytes) /\ Len(t) \in Nat /\ n \in Nat /\ n <= Len(t)
      /\ n + Len(c) <= Len(t)
  BY <1>1 DEF Lines, Bounds
<1>3. c \in Lines
  BY <1>1, CmdlineAssumption DEF Lines, Whole
<1>4. r \in Seq(Bytes) /\ Len(r) = Len(t) - n /\ \A i \in 1 .. (Len(t) - n) : r[i] = t[n + i]
  BY <1>2
<1> HIDE DEF r
<1>5. \A i \in 1 .. Len(c) : c[i] = r[i]
  BY <1>1, <1>2, <1>4
<1>6. Len(c) <= Len(r) /\ SubSeq(c, 1, Len(c)) = SubSeq(r, 1, Len(c))
  BY <1>1, <1>2, <1>4, <1>5
<1> QED
  BY <1>3, <1>6 DEF IsPrefix, c, r

-----------------------------------------------------------------------------
(* What is asked of the way the command line is used.  Each condition      *)
(* leaves out cases of the README's table of deviations, and only those.   *)

Key == [k : {"ins", "^G", "^H", "^W", "^U"}, data : Lines]

(* A key press is one key, or a key macro that inserts characters; in the  *)
(* usages with replacements it is } on its own that replaces.              *)
SimplePress(ks, replaces) ==
  /\ ks \in Seq(Key)
  /\ Len(ks) = 1 \/ \A i \in 1 .. Len(ks) : ks[i].k = "ins"
  /\ replaces => \A i \in 1 .. Len(ks) :
       BraceClose \in ToSet(ks[i].data) => Len(ks) = 1 /\ ks[i].data = <<BraceClose>>
PressesAreSimple == \A u \in Usages : \A ks \in u.keys : SimplePress(ks, u.replaces)

(* Replaying the old command line is not interrupted.  A new one differs   *)
(* from it at the beginning of a character, does not replace itself, and   *)
(* fails only if it is as long as the old one.                             *)
ReplacementsAreSafe ==
  /\ \A u \in Usages : u.replaces => ~u.fails
  /\ \A s \in Lines : Replaced(s) =>
       \A new \in Replacements(s) :
         /\ new \in Lines /\ Diff(s, new) \in Bounds(s)
         /\ NoReplacement(new)
         /\ Len(new) = Len(s) \/ NoFailure(new)

WellUsed == PressesAreSimple /\ ReplacementsAreSafe /\ ~ReturnMayFail

-----------------------------------------------------------------------------
(* The invariant.                                                          *)

InOps == {"inMods", "inCmd", "inNoops", "inConstruct", "inWord", "inNonWord", "inString"}
OutOps == {"outNoops", "outCmd", "outMods", "outConstruct", "outNonWord", "outWord", "outString"}

(* The undo tokens h lead from the editor e after c bytes of t back to     *)
(* what it was at every place before; there are none for later places.     *)
Remember(h, e, t, c) ==
  \A i \in Bounds(t) : i <= c => EdAt(t, i) = IF i < Len(h) THEN h[i + 1] ELSE e
LeadBack(h, e, t, c) == Len(h) <= c /\ Remember(h, e, t, c)

Places ==
  /\ str \in Lines /\ effLen \in Bounds(str)
  /\ executing => op # "idle" /\ macroPc \in Bounds(str) /\ pc <= macroPc /\ macroPc <= effLen
  /\ LeadBack(heads, ed, str, Cursor)
  /\ Executable(str, Cursor)

Presses ==
  /\ usage \in Usages
  /\ SimplePress(keys, usage.replaces)
  /\ op \notin {"key", "idle"} => keys = <<>>
  /\ op \in OutOps => ~executing
  /\ outcome # "none" => keys = <<>>
  /\ usage.replaces => ReplacedAtEnd(str)

(* The key press, or what follows a return in it, began at startPc of t.   *)
BeganAt(t) ==
  /\ startPc \in Bounds(t)
  /\ SubSeq(t, 1, startPc) = pressed.text /\ pressed.ed = RunText(pressed.text)

(* What has been inserted is executed, or an old command line replayed.    *)
Inserting ==
  /\ \/ /\ BeganAt(str) /\ startPc <= effLen
        /\ startPc <= macroPc \/ (~usage.fails /\ Executable(str, effLen))
     \/ keys = <<>> /\ pc = effLen /\ effLen = Len(str)
  /\ usage.replaces /\ keys # <<>> => \A i \in (macroPc + 1) .. effLen : str[i] # BraceClose

(* A new command line is executed, and the old one kept.                   *)
Replacing ==
  /\ usage.replaces /\ keys = <<>> /\ effLen = Len(str)
  /\ NoReplacement(str)
  /\ Len(str) = Len(oldStr) \/ NoFailure(str)
  /\ oldStr \in Lines /\ Replaced(oldStr) /\ BeganAt(oldStr) /\ startPc < Len(oldStr)
  /\ replPc \in Bounds(str) /\ replPc \in Bounds(oldStr)
  /\ replPc <= macroPc /\ replPc < Len(oldStr)
  /\ SubSeq(str, 1, replPc) = SubSeq(oldStr, 1, replPc)

(* A loop of a key handler goes on, or the next key follows.               *)
Handling ==
  \/ BeganAt(str) /\ startPc <= effLen
  \/ keys = <<>> /\ (effLen = Len(str) \/ op \notin InOps)

Rejection ==
  outcome = "rejected" =>
    ~executing /\ op \in {"key", "idle"} /\ keys = <<>> /\ effLen = startPc /\ BeganAt(str)

(* The key press is } alone.                                               *)
Brace ==
  pressed.keys = <<Char(<<BraceClose>>)>> =>
    /\ op \in {"key", "idle"}
    /\ keys # <<>> => ~executing /\ keys = pressed.keys /\ effLen = startPc
    /\ executing /\ oldStr = <<>> /\ outcome # "restored" => effLen = startPc + 1 /\ startPc <= macroPc
    /\ executing /\ oldStr # <<>> => startPc = Len(oldStr) - 1 /\ outcome = "none"
    /\ outcome = "restored" => effLen = startPc /\ BeganAt(str)

CmdInv ==
  /\ TypeOK /\ Places /\ Presses /\ Rejection /\ Brace
  /\ executing /\ oldStr = <<>> => Inserting
  /\ executing /\ oldStr # <<>> => Replacing
  /\ ~executing /\ op # "idle" => Handling

-----------------------------------------------------------------------------
(* Undo tokens and places.                                                 *)

LEMMA RuboutPlace ==
  ASSUME str \in Lines, effLen \in Bounds(str), CharStarts # {}
  PROVE  Max(CharStarts) \in Bounds(str) /\ Max(CharStarts) < effLen
<1> DEFINE p == Max(CharStarts)
<1>1. str \in Seq(Bytes) /\ effLen \in Nat /\ effLen <= Len(str) /\ Len(str) \in Nat
  BY DEF Lines, Bounds
<1>2. CharStarts \subseteq 0 .. effLen
  BY <1>1 DEF CharStarts
<1>3. p \in CharStarts
  BY <1>1, <1>2, MaxLemma
<1> HIDE DEF p
<1>4. p \in Nat /\ p < effLen /\ str[p + 1] \notin Conts
  BY <1>1, <1>3 DEF CharStarts
<1>5. p # 0 => str[p] \notin Leads
  BY <1>1, <1>4 DEF Lines, Whole
<1>6. p \in Bounds(str)
  BY <1>1, <1>4, <1>5 DEF Bounds
<1> QED
  BY <1>4, <1>6 DEF p

LEMMA SameTokens ==
  ASSUME NEW t \in Lines, NEW u \in Lines, NEW n \in Bounds(t), n <= Len(u),
         SubSeq(t, 1, n) = SubSeq(u, 1, n)
  PROVE  /\ n \in Bounds(u) /\ EdAt(t, n) = EdAt(u, n)
         /\ \A h, e : LeadBack(h, e, t, n) => LeadBack(h, e, u, n)
         /\ Executable(t, n) => Executable(u, n)
<1>1. n \in 0 .. Len(t) /\ n \in Nat /\ Len(u) \in Nat /\ Bounds(u) \subseteq Nat
  BY DEF Bounds, Lines
<1>2. \A i \in 0 .. n : EdAt(t, i) = EdAt(u, i) /\ (i \in Bounds(t) <=> i \in Bounds(u))
  BY <1>1, SameBeginning
<1>3. \A i \in Bounds(u) : i <= n => i \in 0 .. n /\ i \in Bounds(t) /\ EdAt(t, i) = EdAt(u, i)
  BY <1>1, <1>2
<1>4. ASSUME NEW h, NEW e, LeadBack(h, e, t, n) PROVE LeadBack(h, e, u, n)
  BY <1>3, <1>4 DEF LeadBack, Remember
<1>5. ASSUME Executable(t, n) PROVE Executable(u, n)
  <2> SUFFICES ASSUME NEW i \in Bounds(u), i < n
               PROVE  /\ Accepts(EdAt(u, i), CharAt(u, i))
                      /\ ~IsReturn(EdAt(u, i), CharAt(u, i)) /\ ~IsReplace(EdAt(u, i), CharAt(u, i))
    BY DEF Executable
  <2>1. i \in Bounds(t) /\ EdAt(t, i) = EdAt(u, i)
    BY <1>1, <1>3
  <2>2. CharAt(t, i) = CharAt(u, i)
    BY <2>1, SameCharacters
  <2> QED
    BY <1>5, <2>1, <2>2 DEF Executable
<1> QED
  BY <1>1, <1>2, <1>4, <1>5

(* teco_undo_pop() brings back the editor of an earlier place.             *)
LEMMA PopLeadsBack ==
  ASSUME NEW t \in Lines, NEW c \in Nat, NEW n \in Bounds(t), n <= c,
         NEW h \in Seq(Editors), NEW e \in Editors, Remember(h, e, t, c)
  PROVE  /\ PopEditor(h, e, n) = EdAt(t, n) /\ PopEditor(h, e, n) \in Editors
         /\ PopHeads(h, n) \in Seq(Editors)
         /\ LeadBack(PopHeads(h, n), PopEditor(h, e, n), t, n)
<1>1. n \in Nat /\ Len(h) \in Nat /\ \A i \in Bounds(t) : i \in Nat
  BY DEF Bounds, Lines
<1>2. PopEditor(h, e, n) = EdAt(t, n)
  BY <1>1 DEF Remember, PopEditor
<1>3. CASE Len(h) > n
  <2> DEFINE g == SubSeq(h, 1, n)
  <2>1. g \in Seq(Editors) /\ Len(g) = n /\ \A i \in 1 .. n : g[i] = h[i]
    BY <1>1, <1>3
  <2>2. PopEditor(h, e, n) \in Editors
    BY <1>1, <1>3 DEF PopEditor
  <2>3. PopHeads(h, n) = g
    BY <1>3 DEF PopHeads
  <2> HIDE DEF g
  <2>4. ASSUME NEW i \in Bounds(t), i <= n
        PROVE  EdAt(t, i) = IF i < Len(g) THEN g[i + 1] ELSE PopEditor(h, e, n)
    <3>1. CASE i < n
      <4>1. i + 1 \in 1 .. n /\ i < Len(h) /\ i <= c
        BY <1>1, <1>3, <3>1
      <4>2. EdAt(t, i) = h[i + 1]
        BY <4>1 DEF Remember
      <4> QED
        BY <2>1, <3>1, <4>1, <4>2
    <3>2. CASE i = n
      BY <1>1, <1>2, <2>1, <3>2
    <3> QED
      BY <1>1, <2>4, <3>1, <3>2
  <2> QED
    BY <1>1, <1>2, <2>1, <2>2, <2>3, <2>4 DEF LeadBack, Remember
<1>4. CASE ~(Len(h) > n)
  <2>1. PopHeads(h, n) = h /\ PopEditor(h, e, n) = e
    BY <1>4 DEF PopHeads, PopEditor
  <2> QED
    BY <1>1, <1>2, <1>4, <2>1 DEF LeadBack, Remember
<1> QED
  BY <1>3, <1>4

(* The tokens that a change at pc pushes.                                  *)
LEMMA PushedRemember ==
  ASSUME str \in Lines, pc \in Nat, heads \in Seq(Editors), ed \in Editors, LeadBack(heads, ed, str, pc)
  PROVE  /\ Pushed(ed) \in Seq(Editors) /\ Len(Pushed(ed)) = pc + 1
         /\ \A e : Remember(Pushed(ed), e, str, pc)
<1> DEFINE m == pc + 1 - Len(heads)
           q == [i \in 1 .. m |-> ed]
           g == heads \o q
<1>1. Len(heads) \in Nat /\ Len(heads) <= pc /\ m \in Nat
  BY DEF LeadBack
<1>2. q \in Seq(Editors) /\ Len(q) = m /\ \A i \in 1 .. m : q[i] = ed
  BY <1>1
<1>3. Len(heads) + m = pc + 1
  BY <1>1
<1> HIDE DEF q, m
<1>4. g \in Seq(Editors) /\ Len(g) = pc + 1
  BY <1>1, <1>2, <1>3
<1>5. \A i \in 1 .. (pc + 1) : g[i] = IF i <= Len(heads) THEN heads[i] ELSE q[i - Len(heads)]
  BY <1>1, <1>2, <1>3
<1> HIDE DEF g
<1>6. ASSUME NEW i \in Bounds(str), i <= pc PROVE i \in Nat /\ EdAt(str, i) = g[i + 1]
  <2>1. i \in Nat /\ i + 1 \in 1 .. (pc + 1)
    BY <1>6 DEF Bounds, Lines
  <2>2. EdAt(str, i) = IF i < Len(heads) THEN heads[i + 1] ELSE ed
    BY <1>6 DEF LeadBack, Remember
  <2>3. ~(i < Len(heads)) => q[(i + 1) - Len(heads)] = ed
    BY <1>1, <1>2, <1>3, <1>6, <2>1
  <2> QED
    BY <1>1, <1>5, <2>1, <2>2, <2>3
<1>7. \A e : Remember(g, e, str, pc)
  BY <1>4, <1>6 DEF Remember
<1> QED
  BY <1>4, <1>7 DEF Pushed, g, q, m

-----------------------------------------------------------------------------
(* Execution of a character.                                               *)

LEMMA ExecuteType ==
  ASSUME NEW e \in Editors, NEW c \in Seq(Bytes), Len(c) > 0, Accepts(e, c)
  PROVE  Execute(e, c) \in Editors
<1>1. e.eff \o c \in Seq(Bytes) /\ Append(e.eff, Esc) \in Seq(Bytes) /\ Append(e.eff, Esc) \o c \in Seq(Bytes)
      /\ <<Esc>> \in Seq(Bytes) /\ e.res + Len(c) \in Nat
  BY DEF Editors, Bytes
<1>2. CASE e.st = "string"
  <2>1. Execute(e, c) = StringChar(e, c)
    BY <1>2 DEF Execute, IsStart
  <2>2. \/ StringChar(e, c) = e
        \/ StringChar(e, c) = [e EXCEPT !.at = FALSE, !.delim = c]
        \/ StringChar(e, c) = [e EXCEPT !.eff = @ \o c, !.st = "start", !.delim = <<Esc>>, !.res = 0]
        \/ StringChar(e, c) = [e EXCEPT !.eff = @ \o c, !.res = @ + Len(c)]
    BY DEF StringChar
  <2> HIDE DEF StringChar
  <2>3. StringChar(e, c) \in Editors
    <3> DEFINE f == e.eff \o c
               n == e.res + Len(c)
    <3>1. f \in Seq(Bytes) /\ n \in Nat
      BY <1>1
    <3>2. [e EXCEPT !.eff = f, !.st = "start", !.delim = <<Esc>>, !.res = 0] \in Editors
          /\ [e EXCEPT !.eff = f, !.res = n] \in Editors /\ [e EXCEPT !.at = FALSE, !.delim = c] \in Editors
      <4> HIDE DEF f, n
      <4> QED
        BY <1>1, <3>1 DEF Editors
    <3> QED
      BY <2>2, <3>2
  <2> QED
    BY <2>1, <2>3
<1>3. CASE e.st = "qreg"
  <2>1. Execute(e, c) = [e EXCEPT !.eff = @ \o c, !.st = "start"]
    BY <1>3 DEF Execute, IsStart
  <2> QED
    BY <1>1, <2>1 DEF Editors
<1>4. CASE IsStart(e)
  <2>1. Execute(e, c) = Command(e, c)
    BY <1>4 DEF Execute, IsStart
  <2> DEFINE b == IF e.st = "escape" THEN [e EXCEPT !.st = "start", !.eff = Append(@, Esc)] ELSE e
  <2>2. b \in Editors /\ b.eff \o c \in Seq(Bytes)
    BY <1>1 DEF Editors
  <2>3. Command(e, c).st # "rejected"
    BY <2>1 DEF Accepts
  <2>4. \/ Command(e, c) = b
        \/ Command(e, c) = [b EXCEPT !.at = TRUE]
        \/ Command(e, c) = [b EXCEPT !.eff = @ \o c, !.at = FALSE]
        \/ Command(e, c) = [b EXCEPT !.st = "qreg"]
        \/ Command(e, c) = [b EXCEPT !.st = "string"]
        \/ Command(e, c) = [b EXCEPT !.st = "escape"]
        \/ Command(e, c) = [b EXCEPT !.eff = @ \o c, !.editing = TRUE]
        \/ Command(e, c) = Rejected(e)
    BY DEF Command
  <2>5. Rejected(e).st = "rejected"
    BY DEF Rejected, Editors
  <2> HIDE DEF b
  <2>6. Command(e, c) \in Editors
    BY <2>2, <2>3, <2>4, <2>5 DEF Editors
  <2> QED
    BY <2>1, <2>6
<1> QED
  BY <1>2, <1>3, <1>4 DEF Editors, IsStart

(* What the insertion of characters leaves alone and what it adds.         *)
LEMMA InsertedText ==
  ASSUME str \in Lines, effLen \in Bounds(str), NEW data \in Lines, Insert(data)
  PROVE  /\ str' \in Lines /\ effLen' = effLen + Len(data) /\ effLen' \in Bounds(str')
         /\ effLen \in Bounds(str') /\ effLen <= Len(str')
         /\ SubSeq(str', 1, effLen) = SubSeq(str, 1, effLen)
         /\ \A i \in 1 .. Len(data) : str'[effLen + i] = data[i]
         /\ \/ str' = str
            \/ Len(str') = effLen + Len(data) /\ ~IsPrefix(data, SubSeq(str, effLen + 1, Len(str)))
<1>1. effLen \in Nat /\ effLen <= Len(str) /\ effLen' = effLen + Len(data)
  BY DEF Insert, Bounds, Lines
<1>2. CASE IsPrefix(data, SubSeq(str, effLen + 1, Len(str)))
  BY <1>1, <1>2, SameEnd DEF Insert
<1>3. CASE ~IsPrefix(data, SubSeq(str, effLen + 1, Len(str)))
  <2>1. str' = SubSeq(str, 1, effLen) \o data
    BY <1>3 DEF Insert, Text
  <2>2. Len(SubSeq(str, 1, effLen) \o data) = effLen + Len(data)
    BY NewEnd
  <2> QED
    BY <1>1, <1>3, <2>1, <2>2, NewEnd DEF Lines
<1> QED
  BY <1>2, <1>3

(* } replaces the command line as a character of one byte.                 *)
LEMMA BraceByte ==
  ASSUME NEW t \in Lines, NEW i \in Bounds(t), i < Len(t), IsReplace(EdAt(t, i), CharAt(t, i))
  PROVE  t[i + 1] = BraceClose /\ CharAt(t, i) = <<BraceClose>>
  BY CharAtLemma DEF IsReplace

LEMMA InsertedEnd ==
  ASSUME str \in Lines, effLen \in Bounds(str), Executable(str, effLen), ReplacedAtEnd(str),
         NEW data \in Lines, Insert(data),
         BraceClose \in ToSet(data) => data = <<BraceClose>> \/ IsPrefix(data, SubSeq(str, effLen + 1, Len(str)))
  PROVE  ReplacedAtEnd(str')
<1>1. CASE str' = str
  BY <1>1
<1>2. CASE str' # str
  <2>1. /\ str' \in Lines /\ effLen \in Bounds(str') /\ effLen <= Len(str')
        /\ SubSeq(str', 1, effLen) = SubSeq(str, 1, effLen)
        /\ \A i \in 1 .. Len(data) : str'[effLen + i] = data[i]
        /\ Len(str') = effLen + Len(data) /\ ~IsPrefix(data, SubSeq(str, effLen + 1, Len(str)))
    BY <1>2, InsertedText
  <2>2. Executable(str', effLen)
    BY <2>1, SameTokens
  <2> SUFFICES ASSUME NEW i \in Bounds(str'), i < Len(str'), IsReplace(EdAt(str', i), CharAt(str', i))
               PROVE  i = Len(str') - 1
    BY DEF ReplacedAtEnd
  <2>3. effLen \in Nat /\ i \in Nat /\ Len(data) \in Nat
    BY DEF Bounds, Lines
  <2>4. ~(i < effLen)
    BY <2>2 DEF Executable
  <2>5. (i - effLen) + 1 \in 1 .. Len(data) /\ effLen + ((i - effLen) + 1) = i + 1
    BY <2>1, <2>3, <2>4
  <2>6. data[(i - effLen) + 1] = BraceClose
    BY <2>1, <2>5, BraceByte
  <2>7. BraceClose \in ToSet(data)
    BY <2>5, <2>6, ElementsOfSeq DEF Lines
  <2>8. Len(data) = 1
    BY <2>1, <2>7
  <2> QED
    BY <2>1, <2>3, <2>4, <2>8
<1> QED
  BY <1>1, <1>2

-----------------------------------------------------------------------------
(* The invariant is preserved.                                             *)

LEMMA Numbers ==
  ASSUME CmdInv
  PROVE  /\ str \in Lines /\ str \in Seq(Bytes) /\ Len(str) \in Nat
         /\ effLen \in Nat /\ effLen <= Len(str) /\ effLen \in Bounds(str)
         /\ pc \in Nat /\ macroPc \in Nat /\ startPc \in Nat /\ replPc \in Nat
         /\ ed \in Editors /\ heads \in Seq(Editors)
         /\ Cursor \in Bounds(str) /\ Cursor \in Nat /\ Cursor <= effLen
         /\ \A i \in Bounds(str) : i \in Nat /\ i <= Len(str)
  BY DEF CmdInv, TypeOK, Places, Lines, Bounds, Cursor

(* The key } pressed alone, and its handling.                              *)
BracePress == pressed.keys = <<Char(<<BraceClose>>)>>

(* Text is inserted: by a key, or by a turn of a reinserting loop.         *)
LEMMA InsertStep ==
  ASSUME CmdInv, UNCHANGED usage, ~executing, op # "idle", NEW data \in Lines, Insert(data),
         op' \in Ops \ ({"idle"} \cup OutOps),
         SimplePress(keys', usage.replaces),
         op' # "key" => keys' = <<>>,
         keys = <<>> => keys' = <<>> /\ op # "key",
         usage.replaces /\ BraceClose \in ToSet(data) =>
           keys' = <<>> /\ (data = <<BraceClose>> \/ IsPrefix(data, SubSeq(str, effLen + 1, Len(str)))),
         \/ BeganAt(str) /\ startPc <= effLen
         \/ keys' = <<>> /\ data = <<>> /\ effLen = Len(str),
         BracePress => op' = "key" /\ keys # <<>> /\ keys' = <<>> /\ data = <<BraceClose>>
  PROVE  CmdInv'
<1>1. /\ str \in Lines /\ str \in Seq(Bytes) /\ Len(str) \in Nat
      /\ effLen \in Nat /\ effLen <= Len(str) /\ effLen \in Bounds(str) /\ startPc \in Nat
      /\ Cursor = effLen /\ LeadBack(heads, ed, str, effLen) /\ Executable(str, effLen)
  BY Numbers DEF CmdInv, Places, Cursor
<1>2. /\ str' \in Lines /\ effLen' = effLen + Len(data) /\ effLen' \in Bounds(str')
      /\ effLen \in Bounds(str') /\ effLen <= Len(str')
      /\ SubSeq(str', 1, effLen) = SubSeq(str, 1, effLen)
      /\ \A i \in 1 .. Len(data) : str'[effLen + i] = data[i]
      /\ str' = str \/ Len(str') = effLen + Len(data)
  BY <1>1, InsertedText
<1>3. /\ macroPc' = effLen /\ pc' = effLen /\ oldStr' = <<>> /\ replPc' = 0 /\ executing'
      /\ UNCHANGED <<ed, heads, lastCmdline, startPc, pressed, outcome>>
      /\ modifier' \in BOOLEAN /\ Len(data) \in Nat
  BY DEF Insert, CmdInv, TypeOK, Lines
<1>4. TypeOK'
  BY <1>1, <1>2, <1>3 DEF CmdInv, TypeOK, Lines
<1>5. LeadBack(heads, ed, str', effLen) /\ Executable(str', effLen)
  BY <1>1, <1>2, SameTokens
<1>6. Cursor' = effLen
  BY <1>3 DEF Cursor
<1>7. Places'
  BY <1>1, <1>2, <1>3, <1>5, <1>6 DEF Places
<1>8. outcome # "rejected" /\ (outcome # "none" => keys' = <<>>)
  BY DEF CmdInv, Rejection, Presses
<1>9. usage.replaces => ReplacedAtEnd(str')
  BY <1>1, InsertedEnd DEF CmdInv, Presses
<1>10. Presses'
  BY <1>3, <1>8, <1>9 DEF CmdInv, Presses
<1>11. Rejection'
  BY <1>3, <1>8 DEF Rejection
<1>12. BeganAt(str) /\ startPc <= effLen => BeganAt(str)'
  <2> SUFFICES ASSUME BeganAt(str), startPc <= effLen PROVE BeganAt(str)'
    OBVIOUS
  <2>1. startPc \in 0 .. effLen /\ effLen \in 0 .. Len(str)
    BY <1>1
  <2>2. startPc \in Bounds(str') /\ \A i \in 1 .. effLen : str[i] = str'[i]
    BY <1>1, <1>2, <2>1, SameBeginning DEF BeganAt
  <2>3. SubSeq(str', 1, startPc) = SubSeq(str, 1, startPc)
    BY <1>1, <1>2, <2>1, <2>2 DEF Lines
  <2> QED
    BY <1>3, <2>2, <2>3 DEF BeganAt
<1>13. Brace'
  <2> SUFFICES ASSUME BracePress PROVE Brace'
    BY <1>3 DEF Brace, BracePress
  <2>1. keys # <<>> /\ effLen = startPc /\ outcome = "none" /\ Len(data) = 1
    BY DEF CmdInv, Presses, Brace, BracePress
  <2> QED
    BY <1>1, <1>2, <1>3, <2>1 DEF Brace
<1>14. Inserting'
  <2>1. usage.replaces /\ keys' # <<>> => \A i \in (effLen + 1) .. effLen' : str'[i] # BraceClose
    <3> SUFFICES ASSUME usage.replaces, keys' # <<>>, NEW i \in (effLen + 1) .. effLen'
                 PROVE  str'[i] # BraceClose
      OBVIOUS
    <3>1. i - effLen \in 1 .. Len(data) /\ effLen + (i - effLen) = i
      BY <1>1, <1>2, <1>3
    <3>2. BraceClose \notin ToSet(data)
      OBVIOUS
    <3>3. data[i - effLen] # BraceClose
      BY <3>1, <3>2, ElementsOfSeq DEF Lines
    <3>4. str'[effLen + (i - effLen)] = data[i - effLen]
      BY <1>2, <3>1
    <3> QED
      BY <3>1, <3>3, <3>4
  <2>2. CASE BeganAt(str) /\ startPc <= effLen
    BY <1>1, <1>2, <1>3, <1>12, <2>1, <2>2 DEF Inserting
  <2>3. CASE keys' = <<>> /\ data = <<>> /\ effLen = Len(str)
    <3>1. Len(data) = 0 /\ effLen' = effLen
      BY <1>1, <1>2, <2>3
    <3>2. effLen' = Len(str')
      BY <1>1, <1>2, <2>3, <3>1
    <3> QED
      BY <1>3, <2>1, <2>3, <3>1, <3>2 DEF Inserting
  <2> QED
    BY <2>2, <2>3
<1> QED
  BY <1>3, <1>4, <1>7, <1>10, <1>11, <1>13, <1>14 DEF CmdInv

LEMMA NoKeys ==
  ASSUME NEW r PROVE SimplePress(<<>>, r)
  BY DEF SimplePress

(* A character is rubbed out.                                              *)
LEMMA RuboutStep ==
  ASSUME CmdInv, UNCHANGED usage, ~executing, Rubout,
         op' \in {"key"} \cup OutOps, keys' = <<>>,
         op # "idle", op = "key" => keys # <<>>, ~BracePress
  PROVE  CmdInv'
<1>1. /\ str \in Lines /\ str \in Seq(Bytes) /\ Len(str) \in Nat
      /\ effLen \in Nat /\ effLen <= Len(str) /\ effLen \in Bounds(str) /\ startPc \in Nat
      /\ ed \in Editors /\ heads \in Seq(Editors)
      /\ Cursor = effLen /\ LeadBack(heads, ed, str, effLen) /\ Executable(str, effLen)
  BY Numbers DEF CmdInv, Places, Cursor
<1>2. UNCHANGED <<str, modifier, execVars, lastCmdline, startPc, pressed, outcome>>
  BY DEF Rubout
<1>3. /\ effLen' \in Bounds(str) /\ effLen' <= effLen
      /\ ed' \in Editors /\ heads' \in Seq(Editors) /\ LeadBack(heads', ed', str, effLen')
  <2>1. CASE CharStarts = {}
    BY <1>1, <2>1 DEF Rubout
  <2>2. CASE CharStarts # {}
    <3>1. effLen' = Max(CharStarts) /\ ed' = PopEditor(heads, ed, effLen') /\ heads' = PopHeads(heads, effLen')
      BY <2>2 DEF Rubout, UndoPop
    <3>2. effLen' \in Bounds(str) /\ effLen' < effLen
      BY <1>1, <2>2, <3>1, RuboutPlace
    <3>3. effLen' <= effLen
      BY <1>1, <3>2 DEF Bounds
    <3> QED
      BY <1>1, <3>1, <3>2, <3>3, PopLeadsBack DEF LeadBack
  <2> QED
    BY <2>1, <2>2
<1>4. effLen' \in Nat
  BY <1>3 DEF Bounds
<1>5. TypeOK'
  BY <1>1, <1>2, <1>3, <1>4 DEF CmdInv, TypeOK, execVars, OutOps, Ops
<1>6. Executable(str, effLen')
  BY <1>1, <1>3, <1>4 DEF Executable, Bounds
<1>7. ~executing' /\ Cursor' = effLen'
  BY <1>2 DEF Cursor, execVars
<1>8. Places'
  BY <1>1, <1>2, <1>3, <1>6, <1>7 DEF Places
<1>9. Presses'
  BY <1>2, <1>7, NoKeys DEF CmdInv, Presses
<1>10. outcome # "rejected"
  BY DEF CmdInv, Rejection
<1>11. Rejection' /\ Brace'
  BY <1>2, <1>10 DEF Rejection, Brace, BracePress
<1>12. Handling'
  BY DEF Handling, InOps, OutOps
<1> QED
  BY <1>5, <1>7, <1>8, <1>9, <1>11, <1>12 DEF CmdInv

(* The text stays: a key changes the modifier or a loop begins or ends.    *)
LEMMA QuietStep ==
  ASSUME CmdInv, UNCHANGED usage, ~executing,
         UNCHANGED <<str, effLen, execVars, ed, heads, lastCmdline, startPc, pressed, outcome>>,
         modifier' \in BOOLEAN, op' \in Ops,
         SimplePress(keys', usage.replaces),
         op' \notin {"key", "idle"} => keys' = <<>>,
         keys = <<>> => keys' = <<>>,
         outcome = "rejected" => op' = "idle",
         BracePress => op' = "idle" /\ keys' = <<>>,
         op' # "idle" => \/ BeganAt(str) /\ startPc <= effLen
                         \/ keys' = <<>> /\ (effLen = Len(str) \/ op' \notin InOps)
  PROVE  CmdInv'
<1>1. UNCHANGED <<str, effLen, pc, macroPc, oldStr, replPc, executing, ed, heads, lastCmdline, startPc, pressed, outcome>>
      /\ ~executing' /\ Cursor' = Cursor
  BY DEF execVars, Cursor
<1>2. TypeOK'
  BY <1>1 DEF CmdInv, TypeOK
<1>3. Places'
  BY <1>1 DEF CmdInv, Places
<1>4. Presses'
  BY <1>1 DEF CmdInv, Presses
<1>5. BeganAt(str) => BeganAt(str)'
  BY <1>1 DEF BeganAt
<1>6. Rejection'
  BY <1>1, <1>5 DEF CmdInv, Rejection
<1>7. Brace'
  BY <1>1, <1>5 DEF CmdInv, Brace, BracePress
<1>8. op' # "idle" => Handling'
  BY <1>1, <1>5 DEF Handling
<1> QED
  BY <1>1, <1>2, <1>3, <1>4, <1>6, <1>7, <1>8 DEF CmdInv

LEMMA KeyPressStep ==
  ASSUME CmdInv, WellUsed, UNCHANGED usage, NEW ks \in usage.keys, KeyPress(ks)
  PROVE  CmdInv'
<1>1. UNCHANGED <<str, effLen, modifier, pc, macroPc, oldStr, replPc, executing, ed, heads, lastCmdline>>
      /\ op = "idle" /\ op' = "key" /\ keys' = ks /\ startPc' = effLen /\ outcome' = "none"
      /\ pressed' = [line |-> str, text |-> Text, ed |-> ed, keys |-> ks]
  BY DEF KeyPress, lineVars, execVars, Press
<1>2. ~executing /\ ~executing' /\ Cursor = effLen /\ Cursor' = effLen
  BY <1>1 DEF CmdInv, Places, Cursor
<1>3. SimplePress(ks, usage.replaces)
  BY DEF CmdInv, Presses, WellUsed, PressesAreSimple
<1>4. TypeOK'
  BY <1>1 DEF CmdInv, TypeOK, Ops
<1>5. Places'
  BY <1>1, <1>2 DEF CmdInv, Places
<1>6. Presses'
  BY <1>1, <1>2, <1>3 DEF CmdInv, Presses
<1>7. ed = EdAt(str, effLen)
  BY <1>2, Numbers DEF CmdInv, Places, LeadBack, Remember
<1>8. BeganAt(str)'
  BY <1>1, <1>7, Numbers DEF BeganAt, EdAt, Text
<1>9. Rejection' /\ Brace'
  BY <1>1, <1>2 DEF Rejection, Brace
<1>10. Handling'
  BY <1>1, <1>8, Numbers DEF Handling
<1> QED
  BY <1>1, <1>2, <1>4, <1>5, <1>6, <1>9, <1>10 DEF CmdInv

LEMMA InStep ==
  ASSUME CmdInv
  PROVE  ed = EdAt(str, Cursor)
  BY Numbers DEF CmdInv, Places, LeadBack, Remember

LEMMA SkipByteStep ==
  ASSUME CmdInv, UNCHANGED usage, SkipByte
  PROVE  CmdInv'
<1>1. /\ UNCHANGED <<str, effLen, modifier, macroPc, oldStr, replPc, executing, ed, heads, lastCmdline, op,
                     keys, startPc, pressed, outcome>>
      /\ executing /\ pc < effLen /\ macroPc > pc /\ pc' = pc + 1 /\ Cursor' = Cursor
  BY DEF SkipByte, lineVars, keyVars, Executing, Cursor
<1>2. pc' \in Nat /\ pc' <= macroPc
  BY <1>1, Numbers
<1>3. TypeOK'
  BY <1>1, <1>2 DEF CmdInv, TypeOK
<1>4. Places'
  BY <1>1, <1>2 DEF CmdInv, Places
<1>5. Presses'
  BY <1>1 DEF CmdInv, Presses
<1>6. (BeganAt(str) => BeganAt(str)') /\ (BeganAt(oldStr) => BeganAt(oldStr)')
  BY <1>1 DEF BeganAt
<1>7. Rejection' /\ Brace'
  BY <1>1, <1>6 DEF CmdInv, Rejection, Brace
<1>8. oldStr = <<>> => Inserting'
  BY <1>1, <1>6, Numbers DEF CmdInv, Inserting
<1>9. oldStr # <<>> => Replacing'
  BY <1>1, <1>6 DEF CmdInv, Replacing
<1> QED
  BY <1>1, <1>3, <1>4, <1>5, <1>7, <1>8, <1>9 DEF CmdInv

LEMMA EndInsertStep ==
  ASSUME CmdInv, UNCHANGED usage, EndInsert
  PROVE  CmdInv' /\ Cursor' = Cursor
<1>1. /\ UNCHANGED <<str, effLen, modifier, pc, macroPc, oldStr, replPc, ed, heads, lastCmdline, op,
                     keys, startPc, pressed, outcome>>
      /\ executing /\ op # "idle" /\ pc >= effLen /\ ~executing' /\ executing' = FALSE
  BY DEF EndInsert, lineVars, keyVars, Executing
<1>2. macroPc = effLen /\ Cursor' = Cursor
  BY <1>1, Numbers DEF CmdInv, Places, Cursor
<1>3. TypeOK'
  BY <1>1 DEF CmdInv, TypeOK
<1>4. Places'
  BY <1>1, <1>2 DEF CmdInv, Places
<1>5. Presses'
  BY <1>1 DEF CmdInv, Presses
<1>6. BeganAt(str) => BeganAt(str)'
  BY <1>1 DEF BeganAt
<1>7. Rejection' /\ Brace'
  BY <1>1, <1>6 DEF CmdInv, Rejection, Brace
<1>8. Handling'
  BY <1>1, <1>6 DEF CmdInv, Inserting, Replacing, Handling
<1> QED
  BY <1>1, <1>2, <1>3, <1>4, <1>5, <1>7, <1>8 DEF CmdInv

(* There is no place within a character.                                   *)
LEMMA NextPlace ==
  ASSUME NEW t \in Lines, NEW n \in Bounds(t), n < Len(t), NEW i \in Bounds(t), i < n + Len(CharAt(t, n))
  PROVE  i <= n
<1> DEFINE m == Len(CharAt(t, n))
<1>1. m \in 1 .. 2 /\ (m = 1 <=> t[n + 1] \notin Leads)
  BY CharAtLemma
<1> HIDE DEF m
<1>2. i \in Nat /\ n \in Nat /\ (i = 0 \/ t[i] \notin Leads) /\ i < n + m
  BY DEF Bounds, Lines, m
<1>3. i = n + 1 => m = 1
  BY <1>1, <1>2
<1> QED
  BY <1>1, <1>2, <1>3

(* The character at the program counter.                                   *)
LEMMA CharacterRead ==
  ASSUME CmdInv, Reading
  PROVE  /\ executing /\ op # "idle" /\ macroPc = pc /\ pc < effLen /\ pc < Len(str) /\ Cursor = pc
         /\ pc \in Bounds(str) /\ ed = EdAt(str, pc)
         /\ LeadBack(heads, ed, str, pc) /\ Executable(str, pc)
         /\ LET c == CharAt(str, pc) IN
            /\ c \in Seq(Bytes) /\ Len(c) \in 1 .. 2
            /\ pc + Len(c) \in Bounds(str) /\ pc + Len(c) <= effLen
            /\ EdAt(str, pc + Len(c)) = Execute(ed, c)
<1>1. executing /\ op # "idle" /\ macroPc = pc /\ pc < effLen /\ pc < Len(str) /\ Cursor = pc
  BY DEF Reading, Executing, Cursor
<1>2. /\ pc \in Bounds(str) /\ ed = EdAt(str, pc) /\ str \in Lines /\ effLen \in Bounds(str)
      /\ effLen <= Len(str) /\ LeadBack(heads, ed, str, pc) /\ Executable(str, pc)
  BY <1>1, Numbers, InStep DEF CmdInv, Places
<1>3. pc + Len(CharAt(str, pc)) <= effLen
  BY <1>1, <1>2, SameCharacters
<1>4. CharAt(str, pc) \in Seq(Bytes) /\ Len(CharAt(str, pc)) \in 1 .. 2
      /\ pc + Len(CharAt(str, pc)) \in Bounds(str)
  BY <1>1, <1>2, CharAtLemma
<1>5. EdAt(str, pc + Len(CharAt(str, pc))) = Execute(ed, CharAt(str, pc))
  BY <1>1, <1>2, EdAtStep
<1> QED
  BY <1>1, <1>2, <1>3, <1>4, <1>5

LEMMA ExecOkStep ==
  ASSUME CmdInv, UNCHANGED usage, ExecOk
  PROVE  CmdInv'
<1> DEFINE c == CharAt(str, pc)
           q == pc + Len(c)
<1>1. Reading /\ ~Throws(c) /\ Accepts(ed, c) /\ ed' = Execute(ed, c)
      /\ heads' = (IF ed' = ed THEN heads ELSE Pushed(ed)) /\ macroPc' = q
  BY DEF ExecOk
<1>2. /\ UNCHANGED <<str, effLen, modifier, oldStr, replPc, executing, lastCmdline, op,
                     keys, startPc, pressed, outcome>>
      /\ pc' = pc + 1
  BY DEF ExecOk, lineVars, keyVars
<1>3. /\ executing /\ op # "idle" /\ macroPc = pc /\ pc < effLen /\ pc < Len(str) /\ Cursor = pc
      /\ pc \in Bounds(str) /\ ed = EdAt(str, pc)
      /\ LeadBack(heads, ed, str, pc) /\ Executable(str, pc)
      /\ c \in Seq(Bytes) /\ Len(c) \in 1 .. 2
      /\ q \in Bounds(str) /\ q <= effLen /\ EdAt(str, q) = Execute(ed, c)
  BY <1>1, CharacterRead
<1>4. \A i \in Bounds(str) : i < q => i <= pc
  BY <1>3, NextPlace, Numbers
<1> HIDE DEF c
<1>5. q \in Nat /\ pc + 1 \in Nat /\ pc + 1 <= q /\ pc < q
  <2>1. pc \in Nat /\ Len(c) \in 1 .. 2
    BY <1>3, Numbers
  <2> QED
    BY <2>1
<1>6. /\ str \in Lines /\ pc \in Nat /\ ed \in Editors /\ heads \in Seq(Editors)
      /\ \A i \in Bounds(str) : i \in Nat
  BY Numbers
<1> HIDE DEF q
<1>7. ed' \in Editors
  <2>1. ed \in Editors /\ c \in Seq(Bytes) /\ Accepts(ed, c)
    BY <1>1, <1>3, <1>6, Zenon
  <2>2. Len(c) \in 1 .. 2
    BY <1>3, Zenon
  <2>3. Len(c) > 0
    BY <2>2
  <2>4. Execute(ed, c) \in Editors
    BY <2>1, <2>3, ExecuteType
  <2> QED
    BY <1>1, <2>4
<1>8. heads' \in Seq(Editors) /\ LeadBack(heads', ed', str, q)
  <2>1. CASE ed' = ed
    <3>1. heads' = heads /\ EdAt(str, q) = ed'
      BY <1>1, <1>3, <2>1
    <3>2. Len(heads) <= q /\ Len(heads) \in Nat /\ ~(q < Len(heads))
      BY <1>3, <1>5, <1>6 DEF LeadBack
    <3>3. ASSUME NEW i \in Bounds(str), i <= q
          PROVE  EdAt(str, i) = IF i < Len(heads) THEN heads[i + 1] ELSE ed'
      <4>1. CASE i = q
        BY <3>1, <3>2, <4>1
      <4>2. CASE i # q
        <5>1. i <= pc
          BY <1>4, <1>5, <1>6, <3>3, <4>2
        <5> QED
          BY <1>3, <2>1, <5>1 DEF LeadBack, Remember
      <4> QED
        BY <4>1, <4>2
    <3> QED
      BY <1>6, <3>1, <3>2, <3>3 DEF LeadBack, Remember
  <2>2. CASE ed' # ed
    <3>1. heads' = Pushed(ed) /\ EdAt(str, q) = ed'
      BY <1>1, <1>3, <2>2
    <3>2. Pushed(ed) \in Seq(Editors) /\ Len(Pushed(ed)) = pc + 1 /\ Remember(Pushed(ed), ed', str, pc)
      BY <1>3, <1>6, PushedRemember
    <3>3. Len(heads') <= q /\ ~(q < Len(heads'))
      BY <1>5, <1>6, <3>1, <3>2
    <3>4. ASSUME NEW i \in Bounds(str), i <= q
          PROVE  EdAt(str, i) = IF i < Len(heads') THEN heads'[i + 1] ELSE ed'
      <4>1. CASE i = q
        BY <3>1, <3>3, <4>1
      <4>2. CASE i # q
        <5>1. i <= pc
          BY <1>4, <1>5, <1>6, <3>4, <4>2
        <5> QED
          BY <3>1, <3>2, <5>1 DEF Remember
      <4> QED
        BY <4>1, <4>2
    <3> QED
      BY <3>1, <3>2, <3>3, <3>4 DEF LeadBack, Remember
  <2> QED
    BY <2>1, <2>2
<1>9. TypeOK'
  BY <1>1, <1>2, <1>5, <1>7, <1>8 DEF CmdInv, TypeOK
<1>10. Executable(str, q)
  <2> SUFFICES ASSUME NEW i \in Bounds(str), i < q
               PROVE  /\ Accepts(EdAt(str, i), CharAt(str, i))
                      /\ ~IsReturn(EdAt(str, i), CharAt(str, i)) /\ ~IsReplace(EdAt(str, i), CharAt(str, i))
    BY DEF Executable
  <2>1. CASE i = pc
    BY <1>1, <1>3, <2>1 DEF c, Throws
  <2>2. CASE i # pc
    <3>1. i < pc
      BY <1>4, <1>6, <2>2
    <3> QED
      BY <1>3, <3>1 DEF Executable
  <2> QED
    BY <2>1, <2>2
<1>11. Cursor' = q
  BY <1>1, <1>2, <1>3 DEF Cursor
<1>12. Places'
  BY <1>1, <1>2, <1>3, <1>5, <1>8, <1>10, <1>11 DEF CmdInv, Places
<1>13. Presses'
  BY <1>2 DEF CmdInv, Presses
<1>14. (BeganAt(str) => BeganAt(str)') /\ (BeganAt(oldStr) => BeganAt(oldStr)')
  BY <1>2 DEF BeganAt
<1>15. Rejection' /\ Brace'
  BY <1>1, <1>2, <1>3, <1>5, <1>14, Numbers DEF CmdInv, Rejection, Brace
<1>16. oldStr = <<>> => Inserting'
  <2> SUFFICES ASSUME oldStr = <<>> PROVE Inserting'
    OBVIOUS
  <2>1. Inserting /\ pc # effLen
    BY <1>3, Numbers DEF CmdInv
  <2>2. \A i \in (q + 1) .. effLen : i \in (macroPc + 1) .. effLen
    BY <1>3, <1>5, Numbers
  <2>3. startPc <= macroPc => startPc <= q
    BY <1>3, <1>5, Numbers
  <2> QED
    BY <1>1, <1>2, <1>14, <2>1, <2>2, <2>3 DEF Inserting
<1>17. oldStr # <<>> => Replacing'
  <2> SUFFICES ASSUME oldStr # <<>> PROVE Replacing'
    OBVIOUS
  <2>1. Replacing /\ replPc <= macroPc /\ replPc \in Nat
    BY <1>3, Numbers DEF CmdInv, Replacing
  <2>2. replPc <= q
    BY <1>3, <1>5, <1>6, <2>1
  <2> QED
    BY <1>1, <1>2, <1>14, <2>1, <2>2 DEF Replacing
<1> QED
  BY <1>2, <1>3, <1>9, <1>12, <1>13, <1>15, <1>16, <1>17 DEF CmdInv

(* Whatever a failing character did, undo tokens bring the editor back.    *)
LEMMA FailedTokens ==
  ASSUME CmdInv, ~ReturnMayFail, NEW f, Failed(f), NEW n \in Bounds(str), n <= pc
  PROVE  /\ PopEditor(f.h, f.e, n) = EdAt(str, n) /\ PopEditor(f.h, f.e, n) \in Editors
         /\ PopHeads(f.h, n) \in Seq(Editors)
         /\ LeadBack(PopHeads(f.h, n), PopEditor(f.h, f.e, n), str, n)
<1> DEFINE c == CharAt(str, pc)
<1>1. Reading /\ \/ ReturnFails(c) /\ f \in ReturnFailures
                 \/ f \in Failures(c)
  BY DEF Failed
<1>2. LeadBack(heads, ed, str, pc) /\ c \in Seq(Bytes)
  BY <1>1, CharacterRead
<1> HIDE DEF c
<1>3. str \in Lines /\ pc \in Nat /\ ed \in Editors /\ heads \in Seq(Editors)
  BY Numbers
<1>4. f.h \in Seq(Editors) /\ f.e \in Editors /\ Remember(f.h, f.e, str, pc)
  <2>1. CASE f = [e |-> ed, h |-> heads]
    BY <1>2, <1>3, <2>1 DEF LeadBack
  <2>2. CASE f = [e |-> [ed EXCEPT !.eff = @ \o c], h |-> Pushed(ed)]
    <3>1. ed.eff \o c \in Seq(Bytes)
      BY <1>2, <1>3 DEF Editors
    <3>2. [ed EXCEPT !.eff = @ \o c] \in Editors
      BY <1>3, <3>1 DEF Editors
    <3>3. Pushed(ed) \in Seq(Editors) /\ \A e : Remember(Pushed(ed), e, str, pc)
      BY <1>2, <1>3, PushedRemember
    <3> QED
      BY <2>2, <3>2, <3>3
  <2>3. CASE ReturnFails(c) /\ f \in ReturnFailures
    <3>1. f = [e |-> ed, h |-> heads]
      BY <2>3 DEF ReturnFails, ReturnFailures
    <3> QED
      BY <2>1, <3>1
  <2> QED
    BY <1>1, <2>1, <2>2, <2>3 DEF Failures
<1> QED
  BY <1>3, <1>4, PopLeadsBack

(* In a usage without interruptions what can be executed does not fail.    *)
LEMMA NoFailureHere ==
  ASSUME CmdInv, ~ReturnMayFail, NEW f, Failed(f), ~usage.fails
  PROVE  ~Executable(str, effLen) /\ ~NoFailure(str)
<1> DEFINE c == CharAt(str, pc)
<1>1. /\ pc \in Bounds(str) /\ pc < effLen /\ pc < Len(str) /\ ed = EdAt(str, pc)
  BY CharacterRead DEF Failed
<1>2. (IsReturn(ed, c) /\ ed.editing) \/ (~IsReturn(ed, c) /\ ~Accepts(ed, c))
  BY DEF Failed, ReturnFails, Throws
<1> HIDE DEF c
<1>3. ~Executable(str, effLen)
  BY <1>1, <1>2 DEF Executable, c
<1>4. ~NoFailure(str)
  BY <1>1, <1>2 DEF NoFailure, c
<1> QED
  BY <1>3, <1>4

LEMMA RejectStep ==
  ASSUME CmdInv, WellUsed, UNCHANGED usage, NEW f, Reject(f)
  PROVE  CmdInv' /\ startPc \in Bounds(str) /\ startPc <= Cursor
<1>1. /\ Failed(f) /\ Reading /\ oldStr = <<>>
      /\ ed' = PopEditor(f.h, f.e, startPc) /\ heads' = PopHeads(f.h, startPc)
      /\ effLen' = startPc /\ macroPc' = startPc /\ keys' = <<>> /\ outcome' = "rejected"
      /\ executing' = FALSE /\ ~executing' /\ op' = "key"
      /\ UNCHANGED <<str, modifier, pc, oldStr, replPc, lastCmdline, startPc, pressed>>
  BY DEF Reject, Failed, Propagate
<1>2. executing /\ macroPc = pc /\ pc < effLen /\ Cursor = pc
  BY <1>1, CharacterRead
<1>3. BeganAt(str) /\ startPc <= effLen /\ startPc <= macroPc
  <2>1. Inserting /\ pc # effLen
    BY <1>1, <1>2, Numbers DEF CmdInv
  <2>2. ~(~usage.fails /\ Executable(str, effLen))
    BY <1>1, NoFailureHere DEF WellUsed
  <2> QED
    BY <2>1, <2>2 DEF Inserting
<1>4. startPc \in Bounds(str) /\ startPc <= pc /\ startPc \in Nat
  BY <1>2, <1>3, Numbers DEF BeganAt
<1>5. ed' \in Editors /\ heads' \in Seq(Editors) /\ LeadBack(heads', ed', str, startPc)
  BY <1>1, <1>4, FailedTokens DEF WellUsed
<1>6. Cursor' = startPc /\ BeganAt(str)'
  BY <1>1, <1>3 DEF Cursor, BeganAt
<1>7. TypeOK'
  BY <1>1, <1>4, <1>5 DEF CmdInv, TypeOK, Ops
<1>8. Executable(str, startPc)
  <2>1. Executable(str, pc)
    BY <1>1, CharacterRead
  <2> QED
    BY <1>4, <2>1, Numbers DEF Executable
<1>9. Places'
  BY <1>1, <1>4, <1>5, <1>6, <1>8, Numbers DEF Places
<1>10. Presses'
  BY <1>1, NoKeys DEF CmdInv, Presses
<1>11. Rejection' /\ Brace' /\ Handling'
  BY <1>1, <1>4, <1>6 DEF Rejection, Brace, Handling
<1> QED
  BY <1>1, <1>2, <1>4, <1>7, <1>9, <1>10, <1>11 DEF CmdInv

LEMMA RestoreStep ==
  ASSUME CmdInv, WellUsed, UNCHANGED usage, NEW f, Restore(f)
  PROVE  /\ CmdInv' /\ Cursor' = replPc /\ replPc \in Bounds(str) /\ replPc <= Cursor
         /\ replPc <= Len(str') /\ SubSeq(str', 1, replPc) = SubSeq(str, 1, replPc)
<1>1. /\ Failed(f) /\ Reading /\ oldStr # <<>>
      /\ ed' = PopEditor(f.h, f.e, replPc) /\ heads' = PopHeads(f.h, replPc)
      /\ str' = oldStr /\ oldStr' = <<>> /\ macroPc' = replPc /\ pc' = replPc
      /\ effLen' = effLen - 1 /\ outcome' = "restored"
      /\ UNCHANGED <<modifier, replPc, executing, lastCmdline, op, keys, startPc, pressed>>
  BY DEF Restore, Failed
<1>2. executing /\ op # "idle" /\ macroPc = pc /\ pc < effLen /\ Cursor = pc
  BY <1>1, CharacterRead
<1>3. /\ usage.replaces /\ keys = <<>> /\ effLen = Len(str)
      /\ Len(str) = Len(oldStr) \/ NoFailure(str)
      /\ oldStr \in Lines /\ Replaced(oldStr) /\ BeganAt(oldStr) /\ startPc < Len(oldStr)
      /\ replPc \in Bounds(str) /\ replPc \in Bounds(oldStr)
      /\ replPc <= macroPc /\ replPc < Len(oldStr)
      /\ SubSeq(str, 1, replPc) = SubSeq(oldStr, 1, replPc)
  BY <1>1, <1>2 DEF CmdInv, Replacing
<1>4. ~usage.fails
  BY <1>3 DEF CmdInv, Presses, WellUsed, ReplacementsAreSafe
<1>5. Len(str) = Len(oldStr)
  BY <1>1, <1>3, <1>4, NoFailureHere DEF WellUsed
<1>6. replPc \in Nat /\ Len(oldStr) \in Nat /\ replPc <= Len(oldStr) /\ startPc \in Nat /\ replPc <= pc
      /\ effLen' = Len(oldStr) - 1 /\ effLen' \in Nat /\ replPc <= effLen' /\ startPc <= effLen'
  <2>1. replPc \in Nat /\ Len(oldStr) \in Nat /\ startPc \in Nat
    BY <1>3, Numbers DEF Lines
  <2> QED
    BY <1>1, <1>2, <1>3, <1>5, <2>1
<1>7. ed' \in Editors /\ heads' \in Seq(Editors) /\ LeadBack(heads', ed', str, replPc)
  BY <1>1, <1>3, <1>6, FailedTokens DEF WellUsed
<1>8. LeadBack(heads', ed', oldStr, replPc)
  BY <1>3, <1>6, <1>7, SameTokens, Numbers
<1>9. Cursor' = replPc /\ BeganAt(str)'
  BY <1>1, <1>2, <1>3 DEF Cursor, BeganAt
<1>10. TypeOK'
  BY <1>1, <1>3, <1>6, <1>7 DEF CmdInv, TypeOK, Lines
<1>11. effLen' \in Bounds(oldStr) /\ Executable(oldStr, effLen')
  BY <1>3, <1>6 DEF Replaced
<1>12. \A i \in Bounds(oldStr) : i \in Nat
  BY <1>3 DEF Bounds, Lines
<1>13. Executable(oldStr, replPc)
  BY <1>6, <1>11, <1>12 DEF Executable
<1>14. Places'
  BY <1>1, <1>2, <1>3, <1>6, <1>8, <1>9, <1>11, <1>13 DEF Places
<1>15. ReplacedAtEnd(oldStr)
  <2> SUFFICES ASSUME NEW i \in Bounds(oldStr), i < Len(oldStr), IsReplace(EdAt(oldStr, i), CharAt(oldStr, i))
               PROVE  i = Len(oldStr) - 1
    BY DEF ReplacedAtEnd
  <2>1. ~(i < effLen')
    BY <1>11 DEF Executable
  <2> QED
    BY <1>6, <1>12, <2>1
<1>16. Presses'
  BY <1>1, <1>3, <1>15 DEF CmdInv, Presses
<1>17. Rejection'
  BY <1>1 DEF Rejection
<1>18. Brace'
  <2> SUFFICES ASSUME BracePress PROVE Brace'
    BY <1>1 DEF Brace, BracePress
  <2>1. startPc = Len(oldStr) - 1 /\ op \in {"key", "idle"}
    BY <1>1, <1>2 DEF CmdInv, Brace, BracePress
  <2> QED
    BY <1>1, <1>3, <1>6, <1>9, <2>1 DEF Brace
<1>19. Inserting'
  BY <1>1, <1>3, <1>4, <1>6, <1>9, <1>11 DEF Inserting
<1> QED
  BY <1>1, <1>2, <1>3, <1>6, <1>9, <1>10, <1>14, <1>16, <1>17, <1>18, <1>19 DEF CmdInv

LEMMA DiffLemma ==
  ASSUME NEW S, NEW a \in Seq(S), NEW b \in Seq(S)
  PROVE  /\ Diff(a, b) \in Nat /\ Diff(a, b) <= Len(a) /\ Diff(a, b) <= Len(b)
         /\ SubSeq(a, 1, Diff(a, b)) = SubSeq(b, 1, Diff(a, b))
<1> DEFINE L == {Len(a), Len(b)}
           m == Min(L)
           I == {n \in 0 .. m : SubSeq(a, 1, n) = SubSeq(b, 1, n)}
<1>1. m \in Nat /\ m <= Len(a) /\ m <= Len(b)
  <2>1. L \in SUBSET Nat /\ L # {}
    OBVIOUS
  <2>2. m \in L /\ \A i \in L : m <= i
    BY <2>1, MinLemma
  <2> QED
    BY <2>1, <2>2
<1> HIDE DEF m
<1>2. 0 \in I
  BY <1>1
<1>3. Max(I) \in I
  <2>1. I \in SUBSET (0 .. m) /\ I # {}
    BY <1>2
  <2> HIDE DEF I
  <2> QED
    BY <1>1, <2>1, MaxLemma
<1>4. Diff(a, b) = Max(I)
  BY DEF Diff, m
<1> DEFINE x == Max(I)
<1>5. x \in 0 .. m /\ SubSeq(a, 1, x) = SubSeq(b, 1, x)
  BY <1>3
<1> HIDE DEF x
<1>6. x \in Nat /\ x <= Len(a) /\ x <= Len(b) /\ SubSeq(a, 1, x) = SubSeq(b, 1, x)
  BY <1>1, <1>5
<1> QED
  BY <1>4, <1>6 DEF x

LEMMA EndIsPlace ==
  ASSUME NEW t \in Lines
  PROVE  Len(t) \in Bounds(t)
  BY DEF Lines, Whole, Bounds

(* Where } replaces the command line, the line is one that Replacements    *)
(* are given for, and the new line leaves } and the text before the key    *)
(* press to the old one.                                                   *)
LEMMA ReplaceStep ==
  ASSUME CmdInv, WellUsed, UNCHANGED usage, NEW new \in Replacements(str), ExecReplace(new)
  PROVE  /\ CmdInv' /\ Cursor' \in Bounds(str) /\ Cursor' <= Cursor /\ Cursor' <= Len(str')
         /\ SubSeq(str', 1, Cursor') = SubSeq(str, 1, Cursor')
<1> DEFINE c == CharAt(str, pc)
           d == Diff(str, new)
<1>1. /\ Reading /\ IsReplace(ed, c) /\ usage.replaces
      /\ ed' = PopEditor(heads, ed, d) /\ heads' = PopHeads(heads, d)
      /\ oldStr' = str /\ str' = new /\ effLen' = Len(new) /\ macroPc' = d /\ pc' = d /\ replPc' = d
      /\ UNCHANGED <<modifier, executing, lastCmdline, op, keys, startPc, pressed, outcome>>
  BY DEF ExecReplace, UndoPop, keyVars
<1>2. /\ executing /\ op # "idle" /\ macroPc = pc /\ pc < effLen /\ pc < Len(str) /\ Cursor = pc
      /\ pc \in Bounds(str) /\ ed = EdAt(str, pc)
      /\ LeadBack(heads, ed, str, pc) /\ Executable(str, pc)
  BY <1>1, CharacterRead
<1>3. /\ str \in Lines /\ str \in Seq(Bytes) /\ Len(str) \in Nat /\ pc \in Nat
      /\ effLen \in Nat /\ effLen <= Len(str) /\ startPc \in Nat
      /\ ed \in Editors /\ heads \in Seq(Editors)
      /\ \A i \in Bounds(str) : i \in Nat /\ i <= Len(str)
  BY Numbers
<1>4. pc = Len(str) - 1 /\ effLen = Len(str)
  <2>1. ReplacedAtEnd(str)
    BY <1>1 DEF CmdInv, Presses
  <2>2. pc = Len(str) - 1
    BY <1>1, <1>2, <2>1 DEF ReplacedAtEnd
  <2> QED
    BY <1>2, <1>3, <2>2
<1>5. Replaced(str)
  BY <1>1, <1>2, <1>3, <1>4 DEF Replaced
<1>6. /\ new \in Lines /\ d \in Bounds(str) /\ NoReplacement(new)
      /\ Len(new) = Len(str) \/ NoFailure(new)
  BY <1>3, <1>5 DEF WellUsed, ReplacementsAreSafe
<1>7. d \in Nat /\ d <= Len(str) /\ d <= Len(new) /\ SubSeq(str, 1, d) = SubSeq(new, 1, d)
      /\ Len(new) \in Nat /\ new \in Seq(Bytes)
  <2>1. str \in Seq(Bytes) /\ new \in Seq(Bytes)
    BY <1>3, <1>6 DEF Lines
  <2>2. d \in Nat /\ d <= Len(str) /\ d <= Len(new) /\ SubSeq(str, 1, d) = SubSeq(new, 1, d)
    BY <2>1, DiffLemma
  <2> HIDE DEF d
  <2> QED
    BY <2>1, <2>2
<1> HIDE DEF d
<1>8. d <= pc
  <2> SUFFICES ASSUME d > pc PROVE FALSE
    BY <1>3, <1>7
  <2>1. d = Len(str)
    BY <1>3, <1>4, <1>7
  <2>2. pc \in 0 .. d /\ d \in 0 .. Len(str)
    BY <1>3, <1>4, <2>1
  <2>3. EdAt(str, pc) = EdAt(new, pc) /\ pc \in Bounds(new)
    BY <1>2, <1>3, <1>6, <1>7, <2>2, SameBeginning
  <2>4. CharAt(str, pc) = CharAt(new, pc) /\ pc < d
    BY <1>2, <1>3, <1>6, <1>7, <2>1, SameCharacters
  <2>5. pc < Len(new)
    BY <1>2, <1>3, <1>7, <2>1
  <2> QED
    BY <1>1, <1>2, <1>6, <2>3, <2>4, <2>5 DEF NoReplacement
<1>9. oldStr = <<>> /\ Inserting
  <2>1. ~Replacing
    BY <1>1, <1>2 DEF Replacing, NoReplacement
  <2> QED
    BY <1>2, <2>1 DEF CmdInv
<1>10. ~Executable(str, effLen) /\ pc # effLen
  BY <1>1, <1>2, <1>3 DEF Executable
<1>11. keys = <<>>
  <2>1. str[pc + 1] = BraceClose
    BY <1>1, <1>2, <1>3, BraceByte
  <2>2. pc + 1 \in (macroPc + 1) .. effLen
    BY <1>2, <1>3, <1>4
  <2> QED
    BY <1>1, <1>9, <2>1, <2>2 DEF Inserting
<1>12. BeganAt(str) /\ startPc <= pc
  BY <1>2, <1>9, <1>10 DEF Inserting
<1>13. ed' \in Editors /\ heads' \in Seq(Editors) /\ LeadBack(heads', ed', str, d)
  BY <1>1, <1>2, <1>3, <1>6, <1>8, PopLeadsBack DEF LeadBack
<1>14. d \in Bounds(new) /\ LeadBack(heads', ed', new, d) /\ Executable(new, d)
  <2>1. Executable(str, d)
    BY <1>2, <1>3, <1>7, <1>8 DEF Executable
  <2> QED
    BY <1>3, <1>6, <1>7, <1>13, <2>1, SameTokens
<1>15. Cursor' = d
  BY <1>1, <1>2 DEF Cursor
<1>16. TypeOK'
  BY <1>1, <1>3, <1>7, <1>13 DEF CmdInv, TypeOK
<1>17. Places'
  BY <1>1, <1>2, <1>6, <1>7, <1>14, <1>15, EndIsPlace DEF Places
<1>18. Presses'
  <2>1. ReplacedAtEnd(new)
    BY <1>6 DEF NoReplacement, ReplacedAtEnd
  <2> QED
    BY <1>1, <2>1 DEF CmdInv, Presses
<1>19. BeganAt(oldStr)' /\ oldStr' # <<>>
  BY <1>1, <1>2, <1>3, <1>12 DEF BeganAt
<1>20. Replacing'
  <2>1. startPc < Len(str) /\ d < Len(str)
    BY <1>2, <1>3, <1>7, <1>8, <1>12
  <2> QED
    BY <1>1, <1>3, <1>5, <1>6, <1>7, <1>11, <1>14, <1>19, <2>1 DEF Replacing
<1>21. Rejection'
  BY <1>1, <1>2 DEF CmdInv, Rejection
<1>22. Brace'
  <2> SUFFICES ASSUME BracePress PROVE Brace'
    BY <1>1 DEF Brace, BracePress
  <2>1. outcome # "restored"
    <3> SUFFICES ASSUME outcome = "restored" PROVE FALSE
      OBVIOUS
    <3>1. effLen = startPc
      BY DEF CmdInv, Brace, BracePress
    <3> QED
      BY <1>2, <1>3, <1>12, <3>1
  <2>2. effLen = startPc + 1 /\ op \in {"key", "idle"}
    BY <1>2, <1>9, <2>1 DEF CmdInv, Brace, BracePress
  <2>3. outcome = "none"
    BY <1>2, <2>1 DEF CmdInv, TypeOK, Rejection
  <2>4. startPc = Len(str) - 1
    BY <1>3, <1>4, <2>2
  <2> QED
    BY <1>1, <1>11, <1>19, <2>2, <2>3, <2>4 DEF Brace
<1> QED
  BY <1>1, <1>2, <1>6, <1>7, <1>8, <1>15, <1>16, <1>17, <1>18, <1>19, <1>20, <1>21, <1>22 DEF CmdInv

LEMMA NoText ==
  /\ <<>> \in Lines /\ Bounds(<<>>) = {0} /\ Blank \in Editors
  /\ EdAt(<<>>, 0) = Blank /\ RunText(<<>>) = Blank /\ LeadBack(<<>>, Blank, <<>>, 0)
<1>1. <<>> \in Seq(Bytes) /\ Len(<<>>) = 0 /\ SubSeq(<<>>, 1, 0) = <<>> /\ Esc \in Bytes
  BY DEF Bytes
<1>2. <<>> \in Lines /\ Bounds(<<>>) = {0}
  BY <1>1 DEF Lines, Whole, Bounds
<1>3. Blank \in Editors
  BY <1>1 DEF Blank, Editors
<1>4. EdAt(<<>>, 0) = Blank
  BY <1>1, EdAtStart
<1>5. RunText(<<>>) = Blank
  BY <1>1, <1>4 DEF EdAt
<1>6. LeadBack(<<>>, Blank, <<>>, 0)
  BY <1>1, <1>2, <1>4 DEF LeadBack, Remember
<1> QED
  BY <1>2, <1>3, <1>4, <1>5, <1>6

LEMMA ReturnStep ==
  ASSUME CmdInv, UNCHANGED usage, ExecReturn
  PROVE  CmdInv' /\ Cursor' = 0
<1>1. /\ Reading /\ heads' = <<>> /\ ed' = Blank /\ lastCmdline' = str
      /\ str' = <<>> /\ effLen' = 0 /\ startPc' = 0 /\ macroPc' = pc + 1
      /\ pressed' = [line |-> <<>>, text |-> <<>>, ed |-> Blank, keys |-> keys]
      /\ executing' = FALSE /\ ~executing' /\ op' = "key"
      /\ UNCHANGED <<modifier, pc, oldStr, replPc, keys, outcome>>
  BY DEF ExecReturn, Propagate, Press
<1>2. executing /\ op # "idle"
  BY <1>1, CharacterRead
<1>3. TypeOK'
  <2>1. <<>> \in Seq(Bytes) /\ <<>> \in Seq(Editors) /\ pc + 1 \in Nat /\ str \in Seq(Bytes)
    BY Numbers
  <2> QED
    BY <1>1, <2>1, NoText DEF CmdInv, TypeOK, Ops
<1>4. Cursor' = 0
  BY <1>1 DEF Cursor
<1>5. Executable(<<>>, 0) /\ ReplacedAtEnd(<<>>)
  BY NoText DEF Executable, ReplacedAtEnd
<1>6. Places'
  BY <1>1, <1>4, <1>5, NoText DEF Places
<1>7. Presses'
  BY <1>1, <1>5 DEF CmdInv, Presses
<1>8. BeganAt(str)'
  <2>1. SubSeq(<<>>, 1, 0) = <<>>
    OBVIOUS
  <2> QED
    BY <1>1, <2>1, NoText DEF BeganAt
<1>9. Rejection' /\ Brace'
  BY <1>1, <1>2, <1>8 DEF CmdInv, Rejection, Brace, Presses
<1>10. Handling'
  BY <1>1, <1>8 DEF Handling
<1> QED
  BY <1>1, <1>3, <1>4, <1>6, <1>7, <1>9, <1>10 DEF CmdInv

(* The next key of a key press.                                            *)
LEMMA NextKeyLemma ==
  ASSUME CmdInv, NEW k, NextKey(k)
  PROVE  /\ op = "key" /\ ~executing /\ keys # <<>> /\ keys' = Tail(keys) /\ Head(keys) \in Key
         /\ outcome = "none" /\ BeganAt(str) /\ startPc <= effLen
         /\ SimplePress(keys', usage.replaces)
         /\ k # "ins" => keys' = <<>> /\ ~BracePress
         /\ LET data == Head(keys).data IN
            /\ usage.replaces /\ BraceClose \in ToSet(data) => keys' = <<>> /\ data = <<BraceClose>>
            /\ BracePress => keys' = <<>> /\ data = <<BraceClose>>
<1>1. op = "key" /\ ~executing /\ keys # <<>> /\ keys' = Tail(keys) /\ Head(keys).k = k
  BY DEF NextKey
<1>2. outcome = "none" /\ BeganAt(str) /\ startPc <= effLen
  BY <1>1 DEF CmdInv, TypeOK, Presses, Handling
<1>3. /\ keys \in Seq(Key)
      /\ Len(keys) = 1 \/ \A i \in 1 .. Len(keys) : keys[i].k = "ins"
      /\ usage.replaces => \A i \in 1 .. Len(keys) :
           BraceClose \in ToSet(keys[i].data) => Len(keys) = 1 /\ keys[i].data = <<BraceClose>>
  BY DEF CmdInv, Presses, SimplePress
<1>4. /\ Head(keys) = keys[1] /\ keys[1] \in Key /\ 1 \in 1 .. Len(keys) /\ Tail(keys) \in Seq(Key)
      /\ Len(Tail(keys)) = Len(keys) - 1 /\ Len(keys) \in Nat
      /\ \A i \in 1 .. Len(Tail(keys)) : Tail(keys)[i] = keys[i + 1] /\ i + 1 \in 1 .. Len(keys)
  BY <1>1, <1>3
<1>5. Len(keys) = 1 => Tail(keys) = <<>>
  BY <1>4, EmptySeq
<1>6. SimplePress(Tail(keys), usage.replaces)
  <2>1. CASE Len(keys) = 1
    BY <1>5, <2>1, NoKeys
  <2>2. CASE Len(keys) # 1
    BY <1>3, <1>4, <2>2 DEF SimplePress
  <2> QED
    BY <2>1, <2>2
<1>7. k # "ins" => Len(keys) = 1
  BY <1>1, <1>3, <1>4
<1>8. BracePress => keys = <<Char(<<BraceClose>>)>>
  BY <1>1 DEF CmdInv, Brace, BracePress
<1>9. BracePress => k = "ins" /\ Head(keys).data = <<BraceClose>> /\ Len(keys) = 1
  BY <1>1, <1>8 DEF Char
<1> QED
  BY <1>1, <1>2, <1>3, <1>4, <1>5, <1>6, <1>7, <1>9

(* A character is reinserted, or nothing at the end of the line.           *)
LEMMA RubinStep ==
  ASSUME CmdInv, UNCHANGED usage, ~executing, Rubin,
         op' \in {"key"} \cup InOps, keys' = <<>>,
         op # "idle", op = "key" => keys # <<>>, ~BracePress,
         (BeganAt(str) /\ startPc <= effLen) \/ effLen = Len(str)
  PROVE  CmdInv'
<1>1. /\ str \in Lines /\ str \in Seq(Bytes) /\ Len(str) \in Nat
      /\ effLen \in Nat /\ effLen <= Len(str) /\ effLen \in Bounds(str)
  BY Numbers
<1>2. PICK data \in Lines : /\ Insert(data) /\ IsPrefix(data, SubSeq(str, effLen + 1, Len(str)))
                            /\ effLen = Len(str) => data = <<>>
  <2>1. CASE effLen < Len(str)
    BY <1>1, <2>1, CharIsLine DEF Rubin
  <2>2. CASE ~(effLen < Len(str))
    <3>1. Insert(<<>>)
      BY <2>2 DEF Rubin
    <3>2. IsPrefix(<<>>, SubSeq(str, effLen + 1, Len(str)))
      BY <1>1 DEF IsPrefix
    <3> QED
      BY <3>1, <3>2, NoText
  <2> QED
    BY <2>1, <2>2
<1>3. op' \in Ops \ ({"idle"} \cup OutOps)
  BY DEF Ops, InOps, OutOps
<1>4. SimplePress(keys', usage.replaces)
  BY NoKeys
<1> QED
  BY <1>2, <1>3, <1>4, InsertStep

(* A turn of a loop that reinserts, or its end.                            *)
LEMMA InLoop ==
  ASSUME CmdInv, UNCHANGED usage, op \in InOps, ~executing, keys' = keys, op' \in {"key"} \cup InOps,
         \/ Rubin
         \/ UNCHANGED <<lineVars, execVars, ed, heads, lastCmdline, startPc, pressed, outcome>>
  PROVE  CmdInv'
<1>1. op \notin {"key", "idle"}
  BY DEF InOps
<1>2. keys = <<>> /\ ~BracePress /\ outcome # "rejected"
  BY <1>1 DEF CmdInv, Presses, Brace, BracePress, Rejection
<1>3. (BeganAt(str) /\ startPc <= effLen) \/ effLen = Len(str)
  BY <1>1 DEF CmdInv, Handling
<1>4. CASE Rubin
  BY <1>1, <1>2, <1>3, <1>4, RubinStep
<1>5. CASE UNCHANGED <<lineVars, execVars, ed, heads, lastCmdline, startPc, pressed, outcome>>
  <2>1. UNCHANGED <<str, effLen, execVars, ed, heads, lastCmdline, startPc, pressed, outcome>> /\ modifier' = modifier
    BY <1>5 DEF lineVars
  <2>2. modifier' \in BOOLEAN /\ op' \in Ops
    BY <2>1 DEF CmdInv, TypeOK, InOps, Ops
  <2> QED
    BY <1>2, <1>3, <2>1, <2>2, NoKeys, QuietStep
<1> QED
  BY <1>4, <1>5

(* A turn of a loop that rubs out, or its end.                             *)
LEMMA OutLoop ==
  ASSUME CmdInv, UNCHANGED usage, op \in OutOps, ~executing, keys' = keys, op' \in {"key"} \cup OutOps,
         \/ Rubout
         \/ UNCHANGED <<lineVars, execVars, ed, heads, lastCmdline, startPc, pressed, outcome>>
  PROVE  CmdInv'
<1>1. op \notin {"key", "idle"} /\ op' \notin InOps
  BY DEF OutOps, InOps
<1>2. keys = <<>> /\ ~BracePress /\ outcome # "rejected"
  BY <1>1 DEF CmdInv, Presses, Brace, BracePress, Rejection
<1>3. CASE Rubout
  BY <1>1, <1>2, <1>3, RuboutStep
<1>4. CASE UNCHANGED <<lineVars, execVars, ed, heads, lastCmdline, startPc, pressed, outcome>>
  <2>1. UNCHANGED <<str, effLen, execVars, ed, heads, lastCmdline, startPc, pressed, outcome>> /\ modifier' = modifier
    BY <1>4 DEF lineVars
  <2>2. modifier' \in BOOLEAN /\ op' \in Ops
    BY <2>1 DEF CmdInv, TypeOK, OutOps, Ops
  <2> QED
    BY <1>1, <1>2, <2>1, <2>2, NoKeys, QuietStep
<1> QED
  BY <1>3, <1>4

Reinsert == ReinsertMods \/ ReinsertCommand \/ ReinsertNoops \/ ReinsertConstruct
              \/ ReinsertWord \/ ReinsertNonWord \/ ReinsertString
RuboutMany == RuboutNoops \/ RuboutCommand \/ RuboutMods \/ RuboutConstruct
                \/ RuboutWord \/ RuboutNonWord \/ RuboutString

LEMMA LoopSteps ==
  /\ Reinsert =>
       /\ op \in InOps /\ ~executing /\ keys' = keys /\ op' \in {"key"} \cup InOps
       /\ \/ Rubin
          \/ UNCHANGED <<lineVars, execVars, ed, heads, lastCmdline, startPc, pressed, outcome>>
  /\ RuboutMany =>
       /\ op \in OutOps /\ ~executing /\ keys' = keys /\ op' \in {"key"} \cup OutOps
       /\ \/ Rubout
          \/ UNCHANGED <<lineVars, execVars, ed, heads, lastCmdline, startPc, pressed, outcome>>
<1> USE DEF InOps, OutOps
<1>1. Reinsert => op \in InOps
  BY DEF Reinsert, ReinsertMods, ReinsertCommand, ReinsertNoops, ReinsertConstruct,
         ReinsertWord, ReinsertNonWord, ReinsertString, Loop, LoopThenDo
<1>2. Reinsert => /\ ~executing /\ keys' = keys /\ op' \in {"key"} \cup InOps
                  /\ \/ Rubin
                     \/ UNCHANGED <<lineVars, execVars, ed, heads, lastCmdline, startPc, pressed, outcome>>
  BY DEF Reinsert, ReinsertMods, ReinsertCommand, ReinsertNoops, ReinsertConstruct,
         ReinsertWord, ReinsertNonWord, ReinsertString, Loop, LoopThenDo
<1>3. RuboutMany => op \in OutOps
  BY DEF RuboutMany, RuboutNoops, RuboutCommand, RuboutMods, RuboutConstruct,
         RuboutWord, RuboutNonWord, RuboutString, Loop, LoopThenDo
<1>4. RuboutMany => /\ ~executing /\ keys' = keys /\ op' \in {"key"} \cup OutOps
                    /\ \/ Rubout
                       \/ UNCHANGED <<lineVars, execVars, ed, heads, lastCmdline, startPc, pressed, outcome>>
  BY DEF RuboutMany, RuboutNoops, RuboutCommand, RuboutMods, RuboutConstruct,
         RuboutWord, RuboutNonWord, RuboutString, Loop, LoopThenDo
<1> QED
  BY <1>1, <1>2, <1>3, <1>4

(* The handlers of the keys.                                               *)
KeyHandler == InsertKey \/ ToggleKey \/ CharKey \/ WordKeyCommand \/ WordKeyConstruct \/ WordKeyString \/ StringKey

LEMMA KeyStep ==
  ASSUME CmdInv, UNCHANGED usage, KeyHandler
  PROVE  CmdInv'
<1> DEFINE Quiet == UNCHANGED <<str, effLen, execVars, ed, heads, lastCmdline, startPc, pressed, outcome>>
<1>1. CASE InsertKey
  <2> DEFINE data == Head(keys).data
  <2>1. NextKey("ins") /\ Insert(data) /\ op' = op
    BY <1>1 DEF InsertKey
  <2>2. /\ op = "key" /\ ~executing /\ keys # <<>> /\ Head(keys) \in Key
        /\ BeganAt(str) /\ startPc <= effLen /\ SimplePress(keys', usage.replaces)
        /\ usage.replaces /\ BraceClose \in ToSet(data) => keys' = <<>> /\ data = <<BraceClose>>
        /\ BracePress => keys' = <<>> /\ data = <<BraceClose>>
    BY <2>1, NextKeyLemma
  <2>3. data \in Lines /\ op' \in Ops \ ({"idle"} \cup OutOps) /\ op # "idle"
    BY <2>1, <2>2 DEF Key, Ops, OutOps
  <2> QED
    BY <2>1, <2>2, <2>3, InsertStep
<1>2. ASSUME NEW k, k # "ins", NextKey(k)
      PROVE  /\ op = "key" /\ op # "idle" /\ ~executing /\ keys # <<>> /\ keys' = <<>>
             /\ outcome # "rejected" /\ BeganAt(str) /\ startPc <= effLen /\ ~BracePress
  BY <1>2, NextKeyLemma
<1>3. ASSUME NEW k, k # "ins", NextKey(k), Quiet, modifier' \in BOOLEAN, op' \in Ops \ {"idle"}
      PROVE  CmdInv'
  BY <1>2, <1>3, NoKeys, QuietStep
<1>4. ASSUME NEW k, k # "ins", NextKey(k), Rubin, op' \in {"key"} \cup InOps
      PROVE  CmdInv'
  BY <1>2, <1>4, RubinStep
<1>5. ASSUME NEW k, k # "ins", NextKey(k), Rubout, op' \in {"key"} \cup OutOps
      PROVE  CmdInv'
  BY <1>2, <1>5, RuboutStep
<1>6. UNCHANGED <<lineVars, execVars, ed, heads, lastCmdline, startPc, pressed, outcome>>
        => Quiet /\ modifier' \in BOOLEAN
  BY DEF lineVars, CmdInv, TypeOK
<1>7. CASE ToggleKey
  <2>1. NextKey("^G") /\ Quiet /\ modifier' = ~modifier /\ op' = op
    BY <1>7 DEF ToggleKey
  <2>2. op' = "key"
    BY <1>2, <2>1
  <2>3. modifier' \in BOOLEAN /\ op' \in Ops \ {"idle"}
    BY <2>1, <2>2 DEF Ops, CmdInv, TypeOK
  <2> QED
    BY <1>3, <2>1, <2>3
<1>8. CASE CharKey
  <2>1. NextKey("^H") /\ (Rubin \/ Rubout) /\ op' = op
    BY <1>8 DEF CharKey
  <2>2. op' = "key"
    BY <1>2, <2>1
  <2> QED
    BY <1>4, <1>5, <2>1, <2>2
<1>9. CASE WordKeyCommand
  BY <1>3, <1>6, <1>9 DEF WordKeyCommand, Ops
<1>10. CASE WordKeyConstruct
  BY <1>4, <1>5, <1>10 DEF WordKeyConstruct, InOps, OutOps
<1>11. CASE WordKeyString
  <2>1. NextKey("^W") /\ \/ Rubout /\ op' \in {"outWord", "outNonWord"}
                         \/ /\ op' = "inWord"
                            /\ UNCHANGED <<lineVars, execVars, ed, heads, lastCmdline, startPc, pressed, outcome>>
    BY <1>11 DEF WordKeyString
  <2> QED
    BY <1>3, <1>5, <1>6, <2>1 DEF OutOps, Ops
<1>12. CASE StringKey
  <2>1. NextKey("^U")
    BY <1>12 DEF StringKey
  <2>2. CASE ed.st = "string"
    BY <1>3, <1>6, <1>12, <2>2 DEF StringKey, Ops
  <2>3. CASE ed.st # "string"
    <3> DEFINE data == <<CtlU>>
    <3>1. Insert(data) /\ op' = op
      BY <1>12, <2>3 DEF StringKey
    <3>2. data \in Seq(Bytes) /\ Len(data) = 1 /\ data[1] = CtlU
      BY DEF Bytes
    <3>3. data \in Lines
      BY <3>2, CmdlineAssumption DEF Lines, Whole
    <3>4. BraceClose \in ToSet(data) => data = <<BraceClose>>
      BY OneElement
    <3>5. op' \in Ops \ ({"idle"} \cup OutOps) /\ op = "key" /\ op # "idle" /\ ~executing /\ keys # <<>> /\ keys' = <<>>
          /\ BeganAt(str) /\ startPc <= effLen /\ ~BracePress /\ SimplePress(keys', usage.replaces)
      BY <1>2, <2>1, <3>1, NoKeys DEF Ops, OutOps
    <3> HIDE DEF data
    <3> QED
      BY <3>1, <3>3, <3>4, <3>5, InsertStep
  <2> QED
    BY <2>2, <2>3
<1> QED
  BY <1>1, <1>7, <1>8, <1>9, <1>10, <1>11, <1>12 DEF KeyHandler

LEMMA EndKeyPressStep ==
  ASSUME CmdInv, UNCHANGED usage, EndKeyPress
  PROVE  CmdInv'
<1>1. /\ op = "key" /\ ~executing /\ keys = <<>> /\ keys' = keys /\ op' = "idle"
      /\ UNCHANGED <<str, effLen, modifier, execVars, ed, heads, lastCmdline, startPc, pressed, outcome>>
  BY DEF EndKeyPress, lineVars, keyVars
<1>2. modifier' \in BOOLEAN /\ op' \in Ops
  BY <1>1 DEF CmdInv, TypeOK, Ops
<1> QED
  BY <1>1, <1>2, NoKeys, QuietStep

LEMMA InitInv ==
  ASSUME Init
  PROVE  CmdInv
<1> USE DEF Init
<1>1. <<>> \in Seq(Bytes) /\ <<>> \in Seq(Editors) /\ Len(<<>>) = 0
  OBVIOUS
<1>2. TypeOK
  BY <1>1, NoText DEF TypeOK, Ops
<1>3. Executable(<<>>, 0) /\ ReplacedAtEnd(<<>>) /\ Cursor = 0
  BY NoText DEF Executable, ReplacedAtEnd, Cursor
<1>4. Places
  BY <1>3, NoText DEF Places
<1>5. Presses
  BY <1>3, NoKeys DEF Presses, OutOps
<1>6. Rejection /\ Brace
  BY DEF Rejection, Brace, Press
<1> QED
  BY <1>2, <1>4, <1>5, <1>6 DEF CmdInv

LEMMA StutterStep ==
  ASSUME CmdInv, UNCHANGED vars
  PROVE  CmdInv'
<1> USE DEF vars
<1>1. TypeOK' /\ Places'
  BY DEF CmdInv, TypeOK, Places, Cursor
<1>2. Presses' /\ Rejection' /\ Brace'
  BY DEF CmdInv, Presses, Rejection, Brace, BeganAt
<1>3. (Inserting => Inserting') /\ (Replacing => Replacing') /\ (Handling => Handling')
  BY DEF Inserting, Replacing, Handling, BeganAt
<1> QED
  BY <1>1, <1>2, <1>3 DEF CmdInv

LEMMA NextInv ==
  ASSUME CmdInv, WellUsed, [Next]_vars
  PROVE  CmdInv'
<1>1. CASE UNCHANGED vars
  BY <1>1, StutterStep
<1>2. ASSUME Next PROVE CmdInv'
  <2>1. UNCHANGED usage /\ ((\E ks \in usage.keys : KeyPress(ks)) \/ Exec \/ Handlers \/ EndKeyPress)
    BY <1>2 DEF Next, Internal
  <2>2. CASE \E ks \in usage.keys : KeyPress(ks)
    BY <2>1, <2>2, KeyPressStep
  <2>3. CASE Exec
    BY <2>1, <2>3, SkipByteStep, ExecOkStep, RestoreStep, RejectStep, ReplaceStep, ReturnStep, EndInsertStep
       DEF Exec, ExecFail
  <2>4. CASE Handlers
    <3>1. KeyHandler \/ Reinsert \/ RuboutMany
      BY <2>4 DEF Handlers, KeyHandler, Reinsert, RuboutMany
    <3> QED
      BY <2>1, <3>1, KeyStep, LoopSteps, InLoop, OutLoop
  <2>5. CASE EndKeyPress
    BY <2>1, <2>5, EndKeyPressStep
  <2> QED
    BY <2>1, <2>2, <2>3, <2>4, <2>5
<1> QED
  BY <1>1, <1>2

LEMMA InvFollows ==
  ASSUME CmdInv
  PROVE  InSync /\ Unity /\ BackupRestores
<1>1. /\ effLen <= Len(str) /\ Cursor <= Len(str) /\ ed = EdAt(str, Cursor)
  BY Numbers, InStep
<1>2. InSync
  BY <1>1 DEF InSync, EdAt
<1>3. ASSUME BeganAt(str), effLen = startPc, ~executing PROVE Text = pressed.text /\ ed = pressed.ed
  BY <1>1, <1>3 DEF BeganAt, Text, Cursor, EdAt
<1>4. Unity
  BY <1>3 DEF CmdInv, Rejection, Unity
<1>5. op = "idle" => ~executing
  BY DEF CmdInv, Places
<1>6. BackupRestores
  BY <1>3, <1>5 DEF CmdInv, Brace, BackupRestores
<1> QED
  BY <1>2, <1>4, <1>6


-----------------------------------------------------------------------------
(* The editable line.                                                      *)

LEMMA SameOperators ==
  /\ \A s, i : Line!CharAt(s, i) = CharAt(s, i)
  /\ \A e, c : Line!Accepts(e, c) = Accepts(e, c) /\ Line!Execute(e, c) = Execute(e, c)
               /\ Line!IsReturn(e, c) = IsReturn(e, c)
  /\ \A t : Line!RunText(t) = RunText(t)
  /\ Line!Blank = Blank
<1>1. \A s, i : Line!CharAt(s, i) = CharAt(s, i)
  BY DEF Line!CharAt, CharAt
<1>2. Line!Blank = Blank
  BY DEF Line!Blank, Blank
<1>3. \A e, c : Line!Execute(e, c) = Execute(e, c)
  BY DEF Line!Execute, Execute, Line!StringChar, StringChar, Line!Command, Command,
         Line!IsStart, IsStart, Line!Rejected, Rejected
<1>4. \A e, c : Line!Accepts(e, c) = Accepts(e, c) /\ Line!IsReturn(e, c) = IsReturn(e, c)
  BY <1>3 DEF Line!Accepts, Accepts, Line!IsReturn, IsReturn
<1>5. ASSUME NEW t PROVE Line!RunText(t) = RunText(t)
  BY DEF Line!RunText, RunText, Line!FoldLeft, FoldLeft, Line!MapThenFoldSet, MapThenFoldSet, Line!Max, Max,
         Line!RunByte, RunByte, Line!Execute, Execute, Line!StringChar, StringChar, Line!Command, Command,
         Line!IsStart, IsStart, Line!Rejected, Rejected, Line!Blank, Blank
<1> QED
  BY <1>1, <1>2, <1>3, <1>4, <1>5


LineVars == <<str, Cursor, ed, lastCmdline>>

LEMMA InsertImplements ==
  ASSUME CmdInv, ~executing, NEW data \in Lines, Insert(data)
  PROVE  Line!Type \/ UNCHANGED LineVars
<1>1. /\ str \in Lines /\ effLen \in Bounds(str) /\ effLen \in Nat /\ Cursor = effLen
      /\ effLen <= Len(str) /\ Len(str) \in Nat
  BY Numbers DEF Cursor
<1>2. macroPc' = effLen /\ executing' /\ UNCHANGED <<ed, lastCmdline>>
  BY DEF Insert
<1>3. Cursor' = Cursor
  BY <1>1, <1>2 DEF Cursor
<1>4. /\ SubSeq(str', 1, effLen) = SubSeq(str, 1, effLen)
      /\ \/ str' = str
         \/ Len(str') = effLen + Len(data) /\ ~IsPrefix(data, SubSeq(str, effLen + 1, Len(str)))
  BY <1>1, InsertedText
<1>5. CASE str' = str
  BY <1>2, <1>3, <1>5 DEF LineVars
<1>6. CASE str' # str
  <2>1. Len(str') = effLen + Len(data) /\ ~IsPrefix(data, SubSeq(str, effLen + 1, Len(str)))
    BY <1>4, <1>6
  <2>2. Len(data) \in Nat /\ Len(data) # 0
    BY <1>1, <2>1 DEF IsPrefix, Lines
  <2>3. Len(str') > effLen
    BY <1>1, <2>1, <2>2
  <2> QED
    BY <1>1, <1>2, <1>3, <1>4, <2>3 DEF Line!Type, Line!Executed
<1> QED
  BY <1>5, <1>6

AtCursor == ed = EdAt(str, Cursor) /\ Cursor \in Nat /\ effLen \in Nat

LEMMA AfterStep == CmdInv' => AtCursor'
<1>1. CmdInv => AtCursor
  BY InStep, Numbers DEF AtCursor
<1> QED
  BY <1>1, PTL

(* The cursor moves back in an unchanged line.                             *)
LEMMA BackImplements ==
  ASSUME CmdInv, CmdInv', UNCHANGED <<str, lastCmdline>>, Cursor' <= Cursor
  PROVE  Line!Back \/ UNCHANGED LineVars
<1>1. ed = EdAt(str, Cursor) /\ Cursor \in Nat /\ Cursor' \in Nat
  BY InStep, Numbers, AfterStep DEF AtCursor
<1>2. ed' = EdAt(str, Cursor')
  BY AfterStep DEF AtCursor
<1>3. CASE Cursor' = Cursor
  BY <1>1, <1>2, <1>3 DEF LineVars
<1>4. CASE Cursor' # Cursor
  <2>1. Cursor' \in 0 .. (Cursor - 1)
    BY <1>1, <1>4
  <2>2. ed' = RunText(SubSeq(str, 1, Cursor'))
    BY <1>2 DEF EdAt
  <2> QED
    BY <2>1, <2>2, SameOperators DEF Line!Back
<1> QED
  BY <1>3, <1>4

LEMMA RuboutImplements ==
  ASSUME CmdInv, CmdInv', ~executing, Rubout
  PROVE  Line!Back \/ UNCHANGED LineVars
<1>1. UNCHANGED <<str, lastCmdline, executing, macroPc>>
  BY DEF Rubout, execVars
<1>2. Cursor = effLen /\ Cursor' = effLen' /\ str \in Lines /\ effLen \in Bounds(str) /\ effLen \in Nat
      /\ effLen' \in Nat
  BY <1>1, Numbers, AfterStep DEF Cursor, AtCursor
<1>3. effLen' <= effLen
  BY <1>2, RuboutPlace DEF Rubout
<1> QED
  BY <1>1, <1>2, <1>3, BackImplements

LEMMA ReplaceImplements ==
  ASSUME CmdInv, CmdInv', lastCmdline' = lastCmdline, Cursor' <= Cursor, Cursor' <= Len(str'),
         SubSeq(str', 1, Cursor') = SubSeq(str, 1, Cursor')
  PROVE  Line!Replace
<1>1. Cursor \in Nat /\ Cursor' \in Nat
  BY Numbers, AfterStep DEF AtCursor
<1>2. ed' = RunText(SubSeq(str', 1, Cursor'))
  BY AfterStep DEF EdAt, AtCursor
<1>3. Cursor' \in 0 .. Cursor
  BY <1>1
<1> QED
  BY <1>2, <1>3, SameOperators DEF Line!Replace

LEMMA ExecImplements ==
  ASSUME CmdInv, CmdInv', WellUsed, UNCHANGED usage, Exec
  PROVE  Line!SpecNext \/ UNCHANGED LineVars
<1>1. CASE SkipByte
  BY <1>1 DEF SkipByte, lineVars, LineVars, Cursor
<1>2. CASE ExecOk
  <2> DEFINE c == CharAt(str, pc)
  <2>1. /\ Reading /\ Accepts(ed, c) /\ ed' = Execute(ed, c) /\ macroPc' = pc + Len(c)
        /\ UNCHANGED <<str, lastCmdline, executing>>
    BY <1>2 DEF ExecOk, lineVars
  <2>2. executing /\ Cursor = pc /\ pc < Len(str)
    BY <2>1, CharacterRead
  <2>3. Cursor' = pc + Len(c)
    BY <2>1, <2>2 DEF Cursor
  <2>4. Line!Forward
    BY <2>1, <2>2, <2>3, SameOperators DEF Line!Forward
  <2> QED
    BY <2>4 DEF Line!SpecNext
<1>3. ASSUME NEW f, Restore(f) PROVE Line!Replace
  <2>1. lastCmdline' = lastCmdline
    BY <1>3 DEF Restore
  <2> QED
    BY <1>3, <2>1, RestoreStep, ReplaceImplements
<1>4. ASSUME NEW f, Reject(f) PROVE Line!Back \/ UNCHANGED LineVars
  <2>1. UNCHANGED <<str, lastCmdline>> /\ Cursor' = startPc
    BY <1>4 DEF Reject, Propagate, Cursor
  <2> QED
    BY <1>4, <2>1, RejectStep, BackImplements
<1>5. ASSUME NEW new \in Replacements(str), ExecReplace(new) PROVE Line!Replace
  <2>1. lastCmdline' = lastCmdline
    BY <1>5 DEF ExecReplace
  <2> QED
    BY <1>5, <2>1, ReplaceStep, ReplaceImplements
<1>6. CASE ExecReturn
  <2> DEFINE c == CharAt(str, pc)
  <2>1. Reading /\ IsReturn(ed, c) /\ ~ed.editing /\ lastCmdline' = str /\ str' = <<>> /\ ed' = Blank
    BY <1>6 DEF ExecReturn
  <2>2. Cursor = pc /\ pc < Len(str) /\ Cursor' = 0
    BY <1>6, <2>1, CharacterRead, ReturnStep
  <2>3. Line!Terminate
    BY <2>1, <2>2, SameOperators DEF Line!Terminate
  <2> QED
    BY <2>3 DEF Line!SpecNext
<1>7. CASE EndInsert
  <2>1. Cursor' = Cursor
    BY <1>7, EndInsertStep
  <2> QED
    BY <1>7, <2>1 DEF EndInsert, lineVars, LineVars
<1> QED
  BY <1>1, <1>2, <1>3, <1>4, <1>5, <1>6, <1>7 DEF Exec, ExecFail, Line!SpecNext

(* Keys and loops insert, rub out, or leave the text alone.                *)
LEMMA HandlersImplement ==
  ASSUME CmdInv, CmdInv', Handlers
  PROVE  Line!SpecNext \/ UNCHANGED LineVars
<1>1. KeyHandler \/ Reinsert \/ RuboutMany
  BY DEF Handlers, KeyHandler, Reinsert, RuboutMany
<1>2. ~executing
  BY <1>1, LoopSteps, NextKeyLemma DEF KeyHandler, InsertKey, ToggleKey, CharKey, WordKeyCommand,
     WordKeyConstruct, WordKeyString, StringKey
<1>3. /\ str \in Lines /\ effLen \in Bounds(str) /\ effLen \in Nat /\ effLen <= Len(str) /\ Len(str) \in Nat
  BY Numbers
<1>4. ASSUME Rubin PROVE \E data \in Lines : Insert(data)
  <2>1. CASE effLen < Len(str)
    BY <1>3, <1>4, <2>1, CharIsLine DEF Rubin
  <2>2. CASE ~(effLen < Len(str))
    BY <1>4, <2>2, NoText DEF Rubin
  <2> QED
    BY <2>1, <2>2
<1> DEFINE Quiet == UNCHANGED <<str, effLen, execVars, ed, lastCmdline>>
<1>5. Quiet \/ Rubin \/ Rubout \/ \E data \in Lines : Insert(data)
  <2>1. CASE KeyHandler
    <3>1. CASE InsertKey
      <4>1. NextKey("ins") /\ Insert(Head(keys).data)
        BY <3>1 DEF InsertKey
      <4>2. Head(keys).data \in Lines
        BY <4>1, NextKeyLemma DEF Key
      <4> QED
        BY <4>1, <4>2
    <3>2. CASE ToggleKey
      BY <3>2 DEF ToggleKey
    <3>3. CASE CharKey \/ WordKeyConstruct
      BY <3>3 DEF CharKey, WordKeyConstruct
    <3>4. CASE WordKeyCommand \/ WordKeyString
      BY <3>4 DEF WordKeyCommand, WordKeyString, lineVars
    <3>5. CASE StringKey
      <4>1. <<CtlU>> \in Lines
        <5>1. <<CtlU>> \in Seq(Bytes) /\ Len(<<CtlU>>) = 1 /\ <<CtlU>>[1] = CtlU
          BY DEF Bytes
        <5> QED
          BY <5>1, CmdlineAssumption DEF Lines, Whole
      <4> QED
        BY <3>5, <4>1 DEF StringKey, lineVars
    <3> QED
      BY <2>1, <3>1, <3>2, <3>3, <3>4, <3>5 DEF KeyHandler
  <2>2. CASE Reinsert \/ RuboutMany
    <3>1. \/ Rubin \/ Rubout
          \/ UNCHANGED <<lineVars, execVars, ed, heads, lastCmdline, startPc, pressed, outcome>>
      BY <2>2, LoopSteps
    <3> QED
      BY <3>1 DEF lineVars
  <2> QED
    BY <1>1, <2>1, <2>2
<1>6. Quiet => UNCHANGED LineVars
  BY DEF execVars, Cursor, LineVars
<1> QED
  BY <1>2, <1>4, <1>5, <1>6, InsertImplements, RuboutImplements DEF Line!SpecNext

LEMMA NextImplements ==
  ASSUME CmdInv, CmdInv', WellUsed, [Next]_vars
  PROVE  [Line!SpecNext]_(Line!specVars)
<1>1. Line!specVars = LineVars /\ (Line!specVars)' = LineVars'
  BY DEF Line!specVars, LineVars
<1>2. CASE UNCHANGED vars
  BY <1>1, <1>2 DEF vars, LineVars, Cursor
<1>3. CASE Next
  <2>1. UNCHANGED usage /\ ((\E ks \in usage.keys : KeyPress(ks)) \/ Exec \/ Handlers \/ EndKeyPress)
    BY <1>3 DEF Next, Internal
  <2>2. ((\E ks \in usage.keys : KeyPress(ks)) \/ EndKeyPress) => UNCHANGED LineVars
    BY DEF KeyPress, EndKeyPress, lineVars, execVars, LineVars, Cursor
  <2> QED
    BY <1>1, <2>1, <2>2, ExecImplements, HandlersImplement
<1> QED
  BY <1>2, <1>3

-----------------------------------------------------------------------------
(* The theorems, for every command line that is well used.                 *)

(* The variables keep their types.                                         *)
THEOREM TypesOfCmdline ==
  ASSUME WellUsed PROVE Spec => []TypeOK
<1>1. CmdInv /\ [Next]_vars => CmdInv'
  BY NextInv
<1>2. CmdInv => TypeOK
  BY DEF CmdInv
<1> QED
  BY <1>1, <1>2, InitInv, PTL DEF Spec

(* Whatever has been rubbed out, reinserted, rejected or replaced, the     *)
(* editor is what executing the effective command line from its beginning  *)
(* makes of it: teco_cmdline_insert(), teco_cmdline_rubout() and the undo  *)
(* stack between them.                                                     *)
THEOREM EditorInSync ==
  ASSUME WellUsed PROVE Spec => []InSync
<1>1. CmdInv /\ [Next]_vars => CmdInv'
  BY NextInv
<1>2. CmdInv => InSync
  BY InvFollows
<1> QED
  BY <1>1, <1>2, InitInv, PTL DEF Spec

(* A key press that fails leaves no trace in the text or the editor, be it *)
(* at the first key of a macro or behind a return in it:                   *)
(* teco_cmdline_keypress().                                                *)
THEOREM KeyPressIsUnity ==
  ASSUME WellUsed PROVE Spec => []Unity
<1>1. CmdInv /\ [Next]_vars => CmdInv'
  BY NextInv
<1>2. CmdInv => Unity
  BY InvFollows
<1> QED
  BY <1>1, <1>2, InitInv, PTL DEF Spec

(* If the new command line fails, } alone brings back the old one without  *)
(* it, and the editor of before: old_cmdline in teco_cmdline_insert().     *)
THEOREM BackupIsRestored ==
  ASSUME WellUsed PROVE Spec => []BackupRestores
<1>1. CmdInv /\ [Next]_vars => CmdInv'
  BY NextInv
<1>2. CmdInv => BackupRestores
  BY InvFollows
<1> QED
  BY <1>1, <1>2, InitInv, PTL DEF Spec

(* The command line is an editable line with a cursor: program counters,   *)
(* undo tokens, replays and backups cannot be told from moving the cursor. *)
THEOREM CmdlineIsEditableLine ==
  ASSUME WellUsed PROVE Spec => EditableLine
<1>1. CmdInv /\ [Next]_vars => CmdInv'
  BY NextInv
<1>2. CmdInv /\ CmdInv' /\ [Next]_vars => [Line!SpecNext]_(Line!specVars)
  BY NextImplements
<1>3. Init => Line!SpecInit
  BY SameOperators DEF Init, Line!SpecInit, Cursor
<1> QED
  BY <1>1, <1>2, <1>3, InitInv, PTL DEF Spec, EditableLine, Line!CmdSpec
=============================================================================
